-------------------------------- MODULE Code --------------------------------
(***************************************************************************)
(* Compiled code and its execution: what the compiler puts into the        *)
(* dictionary for words, numbers and strings (core/src/kernel/compile.c),  *)
(* the code that steps over these operands at run time, the words of the   *)
(* data stack, and the words that are threaded code themselves.            *)
(*                                                                         *)
(* One definition is compiled and executed under a handler, so that a      *)
(* throw ends it.  The return stack never fills (Threads is about that).   *)
(***************************************************************************)
EXTENDS Stack, Threaded, Escapes

CONSTANTS
  Variables,    \* what BASE and the variables of the program hold at first
  SignedFrom,   \* the smallest number that is negative as a char
  Stacks,       \* what the stack may hold when the definition is executed
  Words, Numbers, Texts,   \* what definitions are made of
  MaxItems      \* bound: items of the definition

ASSUME CodeAssumption ==
  /\ W >= 8 /\ Len(Variables) >= 1 /\ (\A i \in DOMAIN Variables : Variables[i] \in Word)
  /\ Stacks \subseteq Seq(Word) /\ \A items \in Stacks : Len(items) <= StackSize
  /\ Numbers \subseteq Word

VARIABLES
  mem,      \* the cells of the dictionary up to HERE: the variables, the definition
  s,        \* the data stack
  ip,       \* the cell to be executed, of the definition or of a word
  r,        \* the return stack above the definition's caller: ip or a number
  typed,    \* what was printed
  abortq,   \* task->abortq_msg
  mode,     \* "compiling", "running", "OK", or how execution ended
  src,      \* history: the items of the definition
  starts,   \* history: their first cells
  before    \* history: the machine when the present item was begun

vars == <<mem, s, ip, r, typed, abortq, mode, src, starts, before>>

-----------------------------------------------------------------------------
(* The dictionary. *)

DEFINITION == "definition"
Ip(in, at) == [in |-> in, at |-> at]
First == Len(Variables) + 1

Address(cell) == cell * CellSize
BaseAddress == Address(1)
Data == [a \in {Address(i) : i \in DOMAIN Variables} |-> mem[a \div CellSize].n]

\* The characters of cells; code and what alignment skips hold none.
CharAt(a) ==
  LET cell == a \div CellSize
  IN  IF cell \in DOMAIN mem /\ "chars" \in DOMAIN mem[cell]
      THEN mem[cell].chars[(a % CellSize) + 1] ELSE "none"
IsText(a, u) == \A i \in 0..(u - 1) : CharAt(a + i) # "none"
Chars(a, u) == [i \in 1..u |-> CharAt(a + i - 1)]

mem_aligned(n) == IF n % CellSize = 0 THEN n ELSE n + (CellSize - (n % CellSize))

Packed(text) ==
  [i \in 1..(mem_aligned(Len(text)) \div CellSize) |->
     [chars |-> [j \in 1..CellSize |-> LET k == (i - 1) * CellSize + j
                                       IN  IF k \in DOMAIN text THEN text[k] ELSE "none"]]]

-----------------------------------------------------------------------------
(* Compiling. *)

compile_literal(n) == Lit(n)
compile_str(text)  == <<Xt("LIT_STR"), Num(Len(text))>> \o Packed(text)
compile_estr(text) == compile_str(FlattenSeq(Chunks(text)))
compile_cstr(text) == <<Xt("LIT_CSTR")>> \o Packed(<<Chr(Len(text))>> \o text)

Init ==
  /\ mem = [i \in DOMAIN Variables |-> Num(Variables[i])]
  /\ \E items \in Stacks :
       s = Stack(StackSize - Len(items),
                 [i \in 1..StackSize |-> IF StackSize - i + 1 \in DOMAIN items
                                         THEN items[StackSize - i + 1] ELSE 0])
  /\ ip = Ip(DEFINITION, First) /\ r = <<>> /\ typed = <<>> /\ abortq = <<>>
  /\ mode = "compiling" /\ src = <<>> /\ starts = <<>>
  /\ before = [at |-> 1, stack |-> Items(s), data |-> Data, typed |-> <<>>]

Compile(item, cells) ==
  /\ mode = "compiling" /\ Len(src) < MaxItems
  /\ mem' = mem \o cells
  /\ src' = Append(src, item) /\ starts' = Append(starts, Len(mem) + 1)
  /\ UNCHANGED <<s, ip, r, typed, abortq, mode, before>>

Spelled(text) == FlattenSeq([i \in DOMAIN text |-> text[i].written])

CompileWord   == \E w \in Words : Compile(<<"word", w>>, Xts(<<w>>))
CompileNumber == \E n \in Numbers : Compile(<<"number", n>>, compile_literal(n))
S_QUOTE       == \E t \in Texts : Compile(<<"S_QUOTE", t>>, compile_str(Spelled(t)))
S_BACKSLASH_QUOTE == \E t \in Texts : Compile(<<"S_ESC_QUOTE", t>>, compile_estr(Spelled(t)))
C_QUOTE       == \E t \in Texts : Compile(<<"C_QUOTE", t>>, compile_cstr(Spelled(t)))
DOT_QUOTE     == \E t \in Texts : Compile(<<"DOT_QUOTE", t>>, compile_str(Spelled(t)) \o Xts(<<"TYPE">>))

\* The branch is resolved to what follows ABORTQ.
ABORT_QUOTE == \E t \in Texts :
  LET body == compile_str(Spelled(t)) \o Xts(<<"ABORTQ">>)
  IN  Compile(<<"ABORT_QUOTE", t>>, Branch0(1 + Len(body)) \o body)

Semicolon ==
  /\ mode = "compiling" /\ mode' = "running"
  /\ mem' = mem \o End
  /\ UNCHANGED <<s, ip, r, typed, abortq, src, starts, before>>

-----------------------------------------------------------------------------
(* The inner interpreter. *)

Cells(in) == IF in = DEFINITION THEN mem ELSE Library[in]
Here == IF ip.at \in DOMAIN Cells(ip.in) THEN Cells(ip.in)[ip.at] ELSE Num(0)
Operand == Cells(ip.in)[ip.at + 1]
Instruction(word) == mode = "running" /\ Here = Xt(word)
Advance(n) == ip' = [ip EXCEPT !.at = @ + n]

Throw(code) == mode' = code /\ UNCHANGED <<ip, r>>
Fails(code) == Throw(code) /\ UNCHANGED <<mem, s, typed, abortq>>

Call ==
  /\ mode = "running" /\ "xt" \in DOMAIN Here /\ Here.xt \in DOMAIN Library
  /\ r' = Append(r, Ip(ip.in, ip.at + 1)) /\ ip' = Ip(Here.xt, 1)
  /\ UNCHANGED <<mem, s, typed, abortq, mode>>

EXIT ==
  /\ Instruction("EXIT")
  /\ IF r = <<>> THEN mode' = "OK" /\ UNCHANGED <<ip, r>>
     ELSE ip' = r[Len(r)] /\ r' = Front(r) /\ UNCHANGED mode
  /\ UNCHANGED <<mem, s, typed, abortq>>

BRANCH == /\ Instruction("BRANCH")
          /\ ip' = [ip EXCEPT !.at = (@ + 1 + Operand.n) % Base]
          /\ UNCHANGED <<mem, s, r, typed, abortq, mode>>

\* The macros _e4__BUILTIN_EXPECT_DEPTH and _e4__BUILTIN_EXPECT_AVAIL.
Expect(items, cells, done) ==
  IF depth(s) < items THEN Fails("STKUNDERFLOW")
  ELSE IF avail(s) < cells THEN Fails("STKOVERFLOW") ELSE done

BRANCH0 ==
  /\ Instruction("BRANCH0")
  /\ Expect(1, 0, /\ s' = pop(s)
                  /\ Advance(1 + (IF peek(s) = 0 THEN Operand.n ELSE 1))
                  /\ UNCHANGED <<mem, r, typed, abortq, mode>>)

LIT_CELL == /\ Instruction("LIT_CELL")
            /\ Expect(0, 1, s' = push(s, Operand.n) /\ Advance(2) /\ UNCHANGED <<mem, r, typed, abortq, mode>>)

\* How many cells a string takes.  Fault: the last one is not counted.
CellsOf_Down(len) == len \div CellSize
CellsOf(len) == len \div CellSize + (IF len % CellSize = 0 THEN 0 ELSE 1)

LIT_STR ==
  /\ Instruction("LIT_STR")
  /\ Expect(0, 2, /\ s' = push(push(s, Address(ip.at + 2)), Operand.n)
                  /\ Advance(2 + CellsOf(Operand.n))
                  /\ UNCHANGED <<mem, r, typed, abortq, mode>>)

\* A count is read as a char.  The length it gives is added to an address, and
\* both wrap.
CountOf(c) == IF Ord(c) >= SignedFrom THEN (Ord(c) - 2 * SignedFrom) % Base ELSE Ord(c)
LIT_CSTR ==
  /\ Instruction("LIT_CSTR")
  /\ LET str == Address(ip.at + 1)
         len == (CountOf(CharAt(str)) + 1) % Base
     IN  Expect(0, 1, /\ s' = push(s, str)
                      /\ ip' = [ip EXCEPT !.at = ((str + CellsOf(len) * CellSize) % Base) \div CellSize]
                      /\ UNCHANGED <<mem, r, typed, abortq, mode>>)

ABORTQ ==
  /\ Instruction("ABORTQ")
  /\ Expect(2, 0, /\ abortq' = Chars(peek(pop(s)), peek(s))
                  /\ s' = pop(pop(s))
                  /\ Throw("ABORTQ") /\ UNCHANGED <<mem, typed>>)

-----------------------------------------------------------------------------
(* Words of the data stack. *)

Done(after) == s' = after /\ Advance(1) /\ UNCHANGED <<mem, r, typed, abortq, mode>>
Word_(name, items, cells, after) == Instruction(name) /\ Expect(items, cells, Done(after))

DEPTH == Word_("DEPTH", 0, 1, push(s, depth(s)))
DROP  == Word_("DROP", 1, 0, drop(s))
DUP   == Word_("DUP", 1, 1, dup(s))
OVER  == Word_("OVER", 2, 1, over(s))
ROT   == Word_("ROT", 3, 0, rot(s))
SWAP  == Word_("SWAP", 2, 0, swap(s))
TUCK  == Word_("TUCK", 2, 1, tuck(s))

\* The depth is checked with a sum that wraps; then cells that hold no items
\* are used.
Wraps == depth(s) >= 1 /\ peek(s) + 2 >= Base
Picks == Expect(1, 0, Expect(peek(s) + 2, 0, Done(push(pop(s), pick(pop(s), peek(s))))))
Pick_ == Instruction("PICK") /\ IF Wraps THEN Fails("undefined") ELSE Picks
Roll_ == Instruction("ROLL") /\ IF Wraps THEN Fails("undefined")
                                ELSE Expect(1, 0, Expect(peek(s) + 2, 0, Done(roll(s))))

Replace(n, v) == push(IF n = 1 THEN pop(s) ELSE pop(pop(s)), v)
Flag(b) == IF b THEN Base - 1 ELSE 0
R == peek(s)
L == peek(pop(s))

Less(l, k) == IF IsNegative(k) = IsNegative(l) THEN l < k ELSE IsNegative(l)

NEGATE      == Word_("NEGATE", 1, 0, Replace(1, Negate(R)))
INVERT      == Word_("INVERT", 1, 0, Replace(1, Base - 1 - R))
PLUS        == Word_("PLUS", 2, 0, Replace(2, (L + R) % Base))
MINUS       == Word_("MINUS", 2, 0, Replace(2, (L - R) % Base))
STAR        == Word_("STAR", 2, 0, Replace(2, (L * R) % Base))
MAX         == Word_("MAX", 2, 0, Replace(2, IF Less(L, R) THEN R ELSE L))
MIN         == Word_("MIN", 2, 0, Replace(2, IF Less(L, R) THEN L ELSE R))
EQUALS      == Word_("EQUALS", 2, 0, Replace(2, Flag(L = R)))
LESS_THAN   == Word_("LESS_THAN", 2, 0, Replace(2, Flag(Less(L, R))))
U_LESS_THAN == Word_("U_LESS_THAN", 2, 0, Replace(2, Flag(L < R)))
BL          == Word_("BL", 0, 1, push(s, 32))
BASE        == Word_("BASE", 0, 1, push(s, BaseAddress))

SLASH_MOD ==
  /\ Instruction("SLASH_MOD")
  /\ Expect(2, 0, IF R = 0 THEN s' = pop(pop(s)) /\ Throw("DIVBYZERO") /\ UNCHANGED <<mem, typed, abortq>>
                  ELSE LET result == usize_sdiv(L, R)
                       IN  Done(push(push(pop(pop(s)), result.r), result.q)))

TO_R   == /\ Instruction("TO_R")
          /\ Expect(1, 0, /\ s' = pop(s) /\ r' = Append(r, R) /\ Advance(1)
                          /\ UNCHANGED <<mem, typed, abortq, mode>>)
R_FROM == /\ Instruction("R_FROM") /\ r # <<>>
          /\ Expect(0, 1, /\ s' = push(s, r[Len(r)]) /\ r' = Front(r) /\ Advance(1)
                          /\ UNCHANGED <<mem, typed, abortq, mode>>)

-----------------------------------------------------------------------------
(* Memory and output.  What the program does not own is undefined. *)

IsVariable(a) == a \in DOMAIN Data
FETCH   == Instruction("FETCH") /\ Expect(1, 0,
             IF IsVariable(R) THEN Done(Replace(1, Data[R])) ELSE Fails("undefined"))
C_FETCH == Instruction("C_FETCH") /\ Expect(1, 0,
             IF IsText(R, 1) THEN Done(Replace(1, Ord(CharAt(R)))) ELSE Fails("undefined"))
STORE   == Instruction("STORE") /\ Expect(2, 0,
             IF IsVariable(R) THEN /\ mem' = [mem EXCEPT ![R \div CellSize] = Num(L)]
                                   /\ s' = pop(pop(s)) /\ Advance(1) /\ UNCHANGED <<r, typed, abortq, mode>>
             ELSE Fails("undefined"))

\* e4__io_type; the output may be missing.
Types(items, text) ==
  /\ s' = items /\ UNCHANGED <<mem, r, abortq>>
  /\ \/ typed' = typed \o text /\ Advance(1) /\ UNCHANGED mode
     \/ Throw("UNSUPPORTED") /\ UNCHANGED typed
TYPE == Instruction("TYPE") /\ Expect(2, 0,
          IF IsText(L, R) THEN Types(pop(pop(s)), Chars(L, R)) ELSE Fails("undefined"))
EMIT == Instruction("EMIT") /\ Expect(1, 0, Types(pop(s), <<Chr(R)>>))

\* FIND checks for one free cell and UNUSED for none: what they push may be
\* below the stack.  They are not part of Next.
FIND   == \E found \in BOOLEAN, xt \in {Address(Len(mem))} :
            Word_("FIND", 1, 0, IF found THEN push(push(pop(s), xt), 1) ELSE push(push(pop(s), R), 0))
UNUSED == \E n \in {0} : Word_("UNUSED", 0, 0, push(s, n))

-----------------------------------------------------------------------------
(* The specification. *)

\* Where an item begins, nothing of the one before is left.
Boundary == r = <<>> /\ ip.in = DEFINITION /\ ip.at \in Range(starts) \cup {Len(mem) - 1}
ItemAt == IF ip.at \in Range(starts) THEN CHOOSE i \in DOMAIN starts : starts[i] = ip.at ELSE Len(src) + 1
Now == IF mode = "compiling" THEN before
       ELSE [at |-> ItemAt, stack |-> Items(s), data |-> Data, typed |-> typed]
Seen == IF Boundary /\ mode \in {"compiling", "running", "OK"} THEN Now ELSE before

StackWord == \/ DEPTH \/ DROP \/ DUP \/ OVER \/ ROT \/ SWAP \/ TUCK \/ Pick_ \/ Roll_
             \/ NEGATE \/ INVERT \/ PLUS \/ MINUS \/ STAR \/ MAX \/ MIN \/ EQUALS \/ LESS_THAN
             \/ U_LESS_THAN \/ BL \/ BASE \/ SLASH_MOD \/ TO_R \/ R_FROM
Run == /\ before' = Seen /\ UNCHANGED <<src, starts>>
       /\ \/ Call \/ EXIT \/ BRANCH \/ BRANCH0 \/ LIT_CELL \/ LIT_STR \/ LIT_CSTR \/ ABORTQ
          \/ StackWord \/ FETCH \/ C_FETCH \/ STORE \/ TYPE \/ EMIT

Next == \/ CompileWord \/ CompileNumber \/ S_QUOTE \/ S_BACKSLASH_QUOTE \/ C_QUOTE \/ DOT_QUOTE
        \/ ABORT_QUOTE \/ Semicolon \/ Run
Spec == Init /\ [][Next]_vars
FairSpec == Spec /\ WF_vars(Run)

-----------------------------------------------------------------------------
(* Properties. *)

CodeTypeOK ==
  /\ mode \in {"compiling", "running", "OK", "STKUNDERFLOW", "STKOVERFLOW", "DIVBYZERO", "ABORTQ",
               "UNSUPPORTED", "undefined"}
  /\ \A i \in 1..StackSize : s.c[i] \in Word
  /\ ip.in \in DOMAIN Library \cup {DEFINITION} /\ ip.at \in Nat
  /\ Len(starts) = Len(src) /\ before.at \in 1..(Len(src) + 1)

\* No word leaves the data stack: each checks for what it and the operations
\* of stack.c, which do not check, are going to use.
StackIsInBounds == s.sp \in 0..StackSize

\* What is executed is an instruction of the definition or of a word, never a
\* number or a string that belongs to one: the lengths that the compiler
\* reserves, the run-time code skips and the branches count are the same.
InstructionsAreWhole == mode = "running" => "xt" \in DOMAIN Here /\ Here.xt # "SENTINEL"

\* Every value is a cell, and only instructions are executed.
CodeInv == CodeTypeOK /\ InstructionsAreWhole

\* Where the texts of the definition are, and what is there.
TextCell(i) == starts[i] + CASE src[i][1] = "C_QUOTE" -> 1 [] src[i][1] = "ABORT_QUOTE" -> 4 [] OTHER -> 2
TextLength(i) == IF src[i][1] = "C_QUOTE" THEN 1 + Len(Spelled(src[i][2])) ELSE mem[TextCell(i) - 1].n
HasText == {i \in DOMAIN src : src[i][1] \notin {"word", "number"}}
TextsInMemory == [a \in {Address(TextCell(i)) : i \in HasText} |->
                    LET i == CHOOSE i \in HasText : Address(TextCell(i)) = a IN Chars(a, TextLength(i))]

Abstract == INSTANCE Program WITH
  source <- src, at <- Seen.at, stack <- Seen.stack, data <- Seen.data, typed <- Seen.typed,
  texts <- TextsInMemory,
  InitialData <- [a \in {Address(i) : i \in DOMAIN Variables} |-> Variables[a \div CellSize]]

\* A definition does what its items mean, one after the other: every string is
\* compiled where nothing else is and comes back as it was meant, every word
\* takes and leaves the items it should, whatever its code is made of, and
\* fails if and only if it must.
ImplementsProgram == Abstract!Spec

\* A definition without loops of its own ends: no branch in the threaded words
\* and no operand that is stepped over leads back for ever.
DefinitionsEnd == mode = "running" ~> mode # "running"

\* Nothing undefined happens but where the program uses memory it does not own.
OnlyMemoryIsUndefined ==
  mode = "undefined" => src[before.at][2] \notin {"PICK", "ROLL"}
=============================================================================
