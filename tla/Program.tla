------------------------------- MODULE Program ------------------------------
(***************************************************************************)
(* What a definition means: its items, one after the other, change a       *)
(* sequence of numbers, the variables of the program and the terminal.     *)
(* Where strings are is not said, but that nothing else is there.  This is *)
(* the abstract specification of Code.                                     *)
(***************************************************************************)
EXTENDS Arithmetic, Escapes

CONSTANTS
  CellSize,     \* sizeof(e4__cell)
  StackSize,    \* cells of the data stack
  BaseAddress,  \* &task->base
  InitialData,  \* what BASE and the variables of the program hold, by address
  Stacks,       \* what the stack may hold when the definition is executed
  Words, Numbers, Texts    \* what definitions are made of

VARIABLES
  source,   \* the items of the definition
  mode,     \* "compiling", "running", "OK", or how it has failed
  at,       \* the item to be executed
  stack,    \* the top item last
  data,     \* the contents of the variables
  texts,    \* the strings in memory, by address
  typed,    \* what was printed
  abortq    \* the message of ABORT"

vars == <<source, mode, at, stack, data, texts, typed, abortq>>

-----------------------------------------------------------------------------
(* Numbers and characters. *)

Signed(n) == IF IsNegative(n) THEN n - Base ELSE n
Flag(b)   == IF b THEN Base - 1 ELSE 0
Truncated(n, d) == IF n >= 0 THEN IF d > 0 THEN n \div d ELSE -(n \div (-d))
                   ELSE IF d > 0 THEN -((-n) \div d) ELSE (-n) \div (-d)

\* A text is a sequence of pieces, with what is written and what is meant.
Spelled(text) == FlattenSeq([i \in DOMAIN text |-> text[i].written])
Meant(text)    == FlattenSeq([i \in DOMAIN text |-> text[i].meant])

\* The character at address a, and the u characters from there.
Holder(a) == {b \in DOMAIN texts : a \in b..(b + Len(texts[b]) - 1)}
Char(a) == LET b == CHOOSE b \in Holder(a) : TRUE IN texts[b][a - b + 1]
IsText(a, u) == u = 0 \/ (Holder(a) # {} /\ Holder(a) = Holder(a + u - 1))
Chars(a, u) == [i \in 1..u |-> Char(a + i - 1)]

-----------------------------------------------------------------------------
(* The compiler: an item is added, and its text is put somewhere new. *)

Init ==
  /\ source = <<>> /\ mode = "compiling" /\ at = 1 /\ stack \in Stacks /\ data = InitialData
  /\ texts = <<>> /\ typed = <<>> /\ abortq = <<>>

Free(a, n) == \A i \in 0..(n - 1) : a + i \notin DOMAIN data /\ Holder(a + i) = {}

Add(item) ==
  /\ mode = "compiling"
  /\ source' = Append(source, item)
  /\ UNCHANGED <<mode, at, stack, data, typed, abortq>>

AddWord == \E w \in Words : Add(<<"word", w>>) /\ UNCHANGED texts
AddNumber == \E n \in Numbers : Add(<<"number", n>>) /\ UNCHANGED texts

Placed(text) ==
  \E a \in DOMAIN texts' \ DOMAIN texts : Free(a, Len(text)) /\ texts' = texts @@ a :> text

AddText ==
  \E t \in Texts, by \in {"S_QUOTE", "S_ESC_QUOTE", "C_QUOTE", "DOT_QUOTE", "ABORT_QUOTE"} :
    /\ Add(<<by, t>>)
    /\ Placed(CASE by = "S_ESC_QUOTE" -> Meant(t)
                [] by = "C_QUOTE" -> <<Chr(Len(Spelled(t)))>> \o Spelled(t)
                [] OTHER -> Spelled(t))

Semicolon == /\ mode = "compiling" /\ mode' = "running"
             /\ UNCHANGED <<source, at, stack, data, texts, typed, abortq>>

-----------------------------------------------------------------------------
(* Execution. *)

Running == mode = "running" /\ at <= Len(source)
By   == source[at][1]
What == source[at][2]
IsWord(w) == Running /\ By = "word" /\ What = w

Depth == Len(stack)
Top(i)   == stack[Depth - i + 1]
Below(n) == SubSeq(stack, 1, Depth - n)

Fail(code) == mode' = code /\ UNCHANGED <<source, at, stack, data, texts, typed, abortq>>
Go(items) == /\ Len(items) <= StackSize
             /\ at' = at + 1 /\ stack' = items
             /\ UNCHANGED <<source, mode, texts, abortq>>
Becomes(items) == Go(items) /\ UNCHANGED <<data, typed>>

\* How many items a word takes.
Arity ==
  [DROP |-> 1, DUP |-> 1, OVER |-> 2, SWAP |-> 2, ROT |-> 3, TUCK |-> 2, NIP |-> 2,
   QUESTION_DUP |-> 1, TWO_DROP |-> 2, TWO_DUP |-> 2, TWO_OVER |-> 4, TWO_SWAP |-> 4,
   ABS |-> 1, NEGATE |-> 1, INVERT |-> 1, PLUS |-> 2, MINUS |-> 2, STAR |-> 2, MAX |-> 2, MIN |-> 2,
   ONE_PLUS |-> 1, ONE_MINUS |-> 1, CELL_PLUS |-> 1, CELLS |-> 1, CHAR_PLUS |-> 1, CHARS |-> 1,
   EQUALS |-> 2, NOT_EQUALS |-> 2, LESS_THAN |-> 2, GREATER_THAN |-> 2, U_LESS_THAN |-> 2,
   U_GREATER_THAN |-> 2, ZERO_EQUALS |-> 1, ZERO_NOT_EQUALS |-> 1, ZERO_LESS |-> 1, ZERO_GREATER |-> 1]
Divisions == [SLASH_MOD |-> 2, SLASH |-> 2, MOD |-> 2]
MemoryWords == [FETCH |-> 1, TWO_FETCH |-> 1, STORE |-> 2, PLUS_STORE |-> 2, TWO_STORE |-> 3,
                COUNT |-> 1, C_FETCH |-> 1, TYPE |-> 2]
OtherWords == [DEPTH |-> 0, EMIT |-> 1, SPACE |-> 0, SPACES |-> 1, BL |-> 0,
               BASE |-> 0, HEX |-> 0, DECIMAL |-> 0]
Takes == Arity @@ Divisions @@ MemoryWords @@ OtherWords

Result ==
  LET a == Top(1)   b == Top(2)   c == Top(3)   d == Top(4)   one(n) == <<n % Base>>
  IN CASE What = "DROP" -> <<>>               [] What = "DUP" -> <<a, a>>
       [] What = "OVER" -> <<b, a, b>>        [] What = "SWAP" -> <<a, b>>
       [] What = "ROT" -> <<b, a, c>>         [] What = "TUCK" -> <<a, b, a>>
       [] What = "NIP" -> <<a>>               [] What = "QUESTION_DUP" -> IF a = 0 THEN <<a>> ELSE <<a, a>>
       [] What = "TWO_DROP" -> <<>>           [] What = "TWO_DUP" -> <<b, a, b, a>>
       [] What = "TWO_OVER" -> <<d, c, b, a, d, c>>   [] What = "TWO_SWAP" -> <<b, a, d, c>>
       [] What = "ABS" -> one(IF Signed(a) < 0 THEN -Signed(a) ELSE a)
       [] What = "NEGATE" -> one(-a)          [] What = "INVERT" -> one(-a - 1)
       [] What = "PLUS" -> one(b + a)         [] What = "MINUS" -> one(b - a)
       [] What = "STAR" -> one(b * a)
       [] What = "MAX" -> <<IF Signed(a) > Signed(b) THEN a ELSE b>>
       [] What = "MIN" -> <<IF Signed(a) < Signed(b) THEN a ELSE b>>
       [] What = "ONE_PLUS" -> one(a + 1)     [] What = "ONE_MINUS" -> one(a - 1)
       [] What = "CELL_PLUS" -> one(a + CellSize)   [] What = "CELLS" -> one(a * CellSize)
       [] What = "CHAR_PLUS" -> one(a + 1)    [] What = "CHARS" -> <<a>>
       [] What = "EQUALS" -> <<Flag(b = a)>>  [] What = "NOT_EQUALS" -> <<Flag(b # a)>>
       [] What = "LESS_THAN" -> <<Flag(Signed(b) < Signed(a))>>
       [] What = "GREATER_THAN" -> <<Flag(Signed(b) > Signed(a))>>
       [] What = "U_LESS_THAN" -> <<Flag(b < a)>>   [] What = "U_GREATER_THAN" -> <<Flag(b > a)>>
       [] What = "ZERO_EQUALS" -> <<Flag(a = 0)>>   [] What = "ZERO_NOT_EQUALS" -> <<Flag(a # 0)>>
       [] What = "ZERO_LESS" -> <<Flag(Signed(a) < 0)>>
       [] What = "ZERO_GREATER" -> <<Flag(Signed(a) > 0)>>

Calculate == /\ Running /\ By = "word" /\ What \in DOMAIN Arity /\ Depth >= Arity[What]
             /\ Becomes(Below(Arity[What]) \o Result)

Divide ==
  /\ Running /\ By = "word" /\ What \in DOMAIN Divisions /\ Depth >= 2
  /\ LET d == Signed(Top(1))   n == Signed(Top(2))
         q == Truncated(n, d) % Base   r == (n - d * Truncated(n, d)) % Base
     IN  IF d = 0 THEN Fail("DIVBYZERO")
         ELSE Becomes(Below(2) \o CASE What = "SLASH_MOD" -> <<r, q>>
                                    [] What = "SLASH" -> <<q>> [] OTHER -> <<r>>)

Push == Running /\ CASE By = "number"      -> Becomes(Append(stack, What))
                     [] By = "word" /\ What = "BL"   -> Becomes(Append(stack, 32))
                     [] By = "word" /\ What = "BASE" -> Becomes(Append(stack, BaseAddress))
                     [] By = "word" /\ What = "DEPTH" -> Becomes(Append(stack, Depth))
                     [] OTHER -> FALSE

\* The item u below the top one; u is on top of both.
Pick == IsWord("PICK") /\ Depth >= 1 /\ Depth >= Top(1) + 2 /\ Becomes(Append(Below(1), Top(Top(1) + 2)))
Roll == IsWord("ROLL") /\ Depth >= 1 /\ Depth >= Top(1) + 2
          /\ Becomes(Append(RemoveAt(Below(1), Depth - 1 - Top(1)), Top(Top(1) + 2)))

-----------------------------------------------------------------------------
(* Memory. *)

AreData(a, n) == \A i \in 0..(n - 1) : a + i * CellSize \in DOMAIN data
Store(items, new) == Go(items) /\ data' = new /\ UNCHANGED typed

Fetch == \/ IsWord("FETCH") /\ Depth >= 1 /\ AreData(Top(1), 1) /\ Becomes(Append(Below(1), data[Top(1)]))
         \/ /\ IsWord("TWO_FETCH") /\ Depth >= 1 /\ AreData(Top(1), 2)
            /\ Becomes(Below(1) \o <<data[Top(1) + CellSize], data[Top(1)]>>)
CharFetch == /\ Running /\ By = "word" /\ What \in {"C_FETCH", "COUNT"} /\ Depth >= 1 /\ IsText(Top(1), 1)
             /\ Becomes(Below(1) \o IF What = "C_FETCH" THEN <<Ord(Char(Top(1)))>>
                                    ELSE <<Top(1) + 1, Ord(Char(Top(1)))>>)
StoreWord ==
  \/ /\ IsWord("STORE") /\ Depth >= 2 /\ AreData(Top(1), 1)
     /\ Store(Below(2), [data EXCEPT ![Top(1)] = Top(2)])
  \/ /\ IsWord("PLUS_STORE") /\ Depth >= 2 /\ AreData(Top(1), 1)
     /\ Store(Below(2), [data EXCEPT ![Top(1)] = (@ + Top(2)) % Base])
  \/ /\ IsWord("TWO_STORE") /\ Depth >= 3 /\ AreData(Top(1), 2)
     /\ Store(Below(3), [data EXCEPT ![Top(1)] = Top(2), ![Top(1) + CellSize] = Top(3)])
  \/ IsWord("HEX") /\ Store(stack, [data EXCEPT ![BaseAddress] = 16])
  \/ IsWord("DECIMAL") /\ Store(stack, [data EXCEPT ![BaseAddress] = 10])

-----------------------------------------------------------------------------
(* Strings and output. *)

\* The strings of the definition are known by the order of their items.
TextOf(by, text) == CASE by = "S_ESC_QUOTE" -> Meant(text) [] OTHER -> Spelled(text)

PushText ==
  /\ Running
  /\ \/ /\ By \in {"S_QUOTE", "S_ESC_QUOTE"}
        /\ \E a \in DOMAIN texts : /\ texts[a] = TextOf(By, What)
                                   /\ Becomes(stack \o <<a, Len(texts[a])>>)
     \/ /\ By = "C_QUOTE"
        /\ \E a \in DOMAIN texts : /\ texts[a] = <<Chr(Len(Spelled(What)))>> \o Spelled(What)
                                   /\ Becomes(Append(stack, a))

Say(items, text) == Go(items) /\ typed' = typed \o text /\ UNCHANGED data

Type ==
  \/ Running /\ By = "DOT_QUOTE" /\ Say(stack, Spelled(What))
  \/ IsWord("TYPE") /\ Depth >= 2 /\ IsText(Top(2), Top(1)) /\ Say(Below(2), Chars(Top(2), Top(1)))
  \/ IsWord("EMIT") /\ Depth >= 1 /\ Say(Below(1), <<Chr(Top(1))>>)
  \/ IsWord("SPACE") /\ Say(stack, <<" ">>)
  \/ /\ IsWord("SPACES") /\ Depth >= 1
     /\ Say(Below(1), [i \in 1..Signed(Top(1)) |-> " "])

AbortQuote ==
  /\ Running /\ By = "ABORT_QUOTE" /\ Depth >= 1
  /\ IF Top(1) = 0 THEN Becomes(Below(1))
     ELSE /\ mode' = "ABORTQ" /\ abortq' = Spelled(What)
          /\ UNCHANGED <<source, at, stack, data, texts, typed>>

-----------------------------------------------------------------------------
(* Failures. *)

Needed == CASE By = "ABORT_QUOTE" -> 1
            [] By = "word" /\ What \in {"PICK", "ROLL"} -> IF Depth = 0 THEN 1 ELSE Top(1) + 2
            [] By = "word" -> Takes[What]
            [] OTHER -> 0
TooFew == Running /\ Depth < Needed /\ Fail("STKUNDERFLOW")

\* A word may need up to two cells for itself: with fewer than two free,
\* an item may fail, whether or not it needs them.
TooMany == Running /\ Depth + 2 > StackSize /\ Fail("STKOVERFLOW")

OutputFails == /\ Running /\ Fail("UNSUPPORTED")
               /\ \/ By = "DOT_QUOTE"
                  \/ By = "word" /\ What \in {"TYPE", "EMIT", "SPACE", "SPACES"}

\* Memory that is not the program's, and depths of PICK and ROLL that are
\* taken for small ones.
Undefined ==
  /\ Running /\ Depth >= 1 /\ By = "word" /\ Fail("undefined")
  /\ \/ What \in {"FETCH", "PLUS_STORE"} /\ ~AreData(Top(1), 1)
     \/ What = "STORE" /\ Depth >= 2 /\ ~AreData(Top(1), 1)
     \/ What = "TWO_FETCH" /\ ~AreData(Top(1), 2)
     \/ What = "TWO_STORE" /\ Depth >= 2 /\ ~AreData(Top(1), 2)
     \/ What \in {"C_FETCH", "COUNT"} /\ ~IsText(Top(1), 1)
     \/ What = "TYPE" /\ Depth >= 2 /\ ~IsText(Top(2), Top(1))
     \/ What \in {"PICK", "ROLL"} /\ Top(1) >= Base - 2

End == mode = "running" /\ at = Len(source) + 1 /\ Fail("OK")

Next == AddWord \/ AddNumber \/ AddText \/ Semicolon \/ Calculate \/ Divide \/ Push \/ Pick \/ Roll
          \/ Fetch \/ CharFetch \/ StoreWord \/ PushText \/ Type \/ AbortQuote
          \/ TooFew \/ TooMany \/ OutputFails \/ Undefined \/ End

Spec == Init /\ [][Next]_vars
=============================================================================
