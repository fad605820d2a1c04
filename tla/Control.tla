------------------------------ MODULE Control -------------------------------
(***************************************************************************)
(* How the control structure words compile branches                        *)
(* (core/src/builtin/CORE.def.inc, CORE-EXT.def.inc).                      *)
(*                                                                         *)
(* A forward branch is compiled with an operand to be filled in later.     *)
(* IF, ELSE, WHILE and OF push the address of that operand on the data     *)
(* stack; DO, LEAVE and ENDOF compile the address of the word SENTINEL     *)
(* instead, and +LOOP and ENDCASE go through the code they close and fill  *)
(* in every SENTINEL they meet.                                            *)
(*                                                                         *)
(* `code' is the definition that is being compiled, a cell per address; of *)
(* what it does only the branches and the moves to and from the return     *)
(* stack are told apart.  Words that compile no branch are left out: they  *)
(* only put cells between those of the structures.                         *)
(* Each operand has, as a history, the label it was compiled for, and      *)
(* `goal' the address every label got, 0 as long as it has none.           *)
(* With Mismatched, writes outside of the definition are not followed.     *)
(***************************************************************************)
EXTENDS Integers, Sequences

CONSTANTS
  MaxWords,      \* bound on the control structure words of a definition
  MaxDepth,      \* cells of the data stack
  LeaveAnywhere, \* programs use LEAVE outside of a loop or inside CASE
  Mismatched     \* programs close structures with words of other structures

ASSUME SizeAssumption == MaxWords \in Nat /\ MaxDepth \in Nat
ASSUME UseAssumption == LeaveAnywhere \in BOOLEAN /\ Mismatched \in BOOLEAN

VARIABLES
  state,  \* of the definition: none, open, or finished
  code,   \* the cells from task->compile.here0 to task->here
  items,  \* the data stack, which is empty at task->compile.s0
  goal,   \* history: where the branches to a label have to go
  words   \* history: the control structure words of the definition

controlVars == <<state, code, items, goal, words>>

Ops     == {"word", "branch", "branch0", ">r", "r>", "2>r", "unloop", "exit"}
Operands == {"data", "to", "stale", "sentinel"}
Cell    == [op : Ops \cup Operands, at : Nat, by : Nat]

Op(o)        == [op |-> o, at |-> 0, by |-> 0]
To(a, label) == [op |-> "to", at |-> a, by |-> label]

\* An operand that is not known yet.
Open(raw, label) == [op |-> raw, at |-> 0, by |-> label]
Sentinel(label)  == Open("sentinel", label)
\* Memory that `here++' skips: whatever was there before.
Stale == {"stale", "sentinel"}

Item == [kind : {"orig", "dest", "do", "case", "of", "CASE", "OF"}, ref : Nat, label : Nat]

Mark(kind) == [kind |-> kind, ref |-> 0, label |-> 0]

here  == Len(code) + 1
n     == Len(items)
label == Len(goal) + 1
Top   == items[n]
Below == items[n - 1]

ControlInit == state = "none" /\ code = <<>> /\ items = <<>> /\ goal = <<>> /\ words = 0

-----------------------------------------------------------------------------
\* DEREF(ref) = here - ref, with c compiled so far.
Patch(c, ref) == [c EXCEPT ![ref] = To(Len(c) + 1, @.by)]

\* `while (ref < here)': every SENTINEL from ref on is made to branch here.
\* Fault: the search begins with the definition.
Resolve_All(c, ref) ==
  [a \in DOMAIN c |-> IF c[a].op = "sentinel" THEN To(Len(c) + 1, c[a].by) ELSE c[a]]
Resolve(c, ref) ==
  [a \in DOMAIN c |-> IF a >= ref /\ c[a].op = "sentinel"
                      THEN To(Len(c) + 1, c[a].by) ELSE c[a]]

Compiled(c, s, g) ==
  /\ state' = state /\ code' = c /\ items' = s /\ goal' = g
  /\ words' = words + 1

\* The word throws, and the definition is cancelled: by the word itself when
\* EXPECT_REF or a mark finds the wrong item, by the QUIT loop otherwise.
Empty   == code' = <<>> /\ items' = <<>> /\ goal' = <<>> /\ words' = 0
Refused == state' = "none" /\ Empty

Avail(k) == n + k <= MaxDepth
Kinds    == [i \in 1..n |-> items[i].kind]
Drop(k)  == SubSeq(items, 1, n - k)

\* A word used where the items on top are those it is meant for.
Meant(kinds) == Mismatched \/ SubSeq(Kinds, n + 1 - Len(kinds), n) = kinds

Compiling == state = "open" /\ words < MaxWords

(* : and :NONAME                                                           *)
Begin ==
  /\ state # "open"
  /\ state' = "open" /\ Empty

Balanced == n = 0

(* ;                                                                       *)
FinishDefinition ==
  /\ state = "open"
  /\ IF Balanced
     THEN /\ state' = "done"
          /\ code' = code \o <<Op("exit"), Sentinel(0)>>
          /\ UNCHANGED <<items, goal, words>>
     ELSE Refused

-----------------------------------------------------------------------------
\* BRANCH0 and an operand whose address is pushed.
Forward(raw) == code \o <<Op("branch0"), Open(raw, label)>>
Orig(ref)    == [kind |-> "orig", ref |-> ref, label |-> label]

If ==
  /\ Compiling
  /\ IF Avail(1)
     THEN \E raw \in Stale :
            Compiled(Forward(raw), Append(items, Orig(here + 1)), Append(goal, 0))
     ELSE Refused

ElseCode(ref, raw) ==
  Patch(code \o <<Op("branch"), Open(raw, label)>>, ref)

Else ==
  /\ Compiling
  /\ IF n < 1 THEN Refused
     ELSE /\ Meant(<<"orig">>)
          /\ \E raw \in Stale :
               Compiled(ElseCode(Top.ref, raw), Append(Drop(1), Orig(here + 1)),
                        Append([goal EXCEPT ![Top.label] = here + 2], 0))

Then ==
  /\ Compiling
  /\ IF n < 1 THEN Refused
     ELSE /\ Meant(<<"orig">>)
          /\ Compiled(Patch(code, Top.ref), Drop(1), [goal EXCEPT ![Top.label] = here])

(* BEGIN is HERE.                                                          *)
BeginLoop ==
  /\ Compiling
  /\ IF Avail(1)
     THEN Compiled(code, Append(items, [kind |-> "dest", ref |-> here, label |-> label]),
                   Append(goal, here))
     ELSE Refused

(* IF SWAP                                                                 *)
While ==
  /\ Compiling
  /\ IF ~Avail(1) \/ n < 1 THEN Refused
     ELSE /\ Meant(<<"dest">>)
          /\ \E raw \in Stale :
               Compiled(Forward(raw), Drop(1) \o <<Orig(here + 1), Top>>, Append(goal, 0))

Back(branch) == code \o <<Op(branch), To(Top.ref, Top.label)>>

(* UNTIL and AGAIN                                                         *)
Until ==
  /\ Compiling
  /\ IF n < 1 THEN Refused
     ELSE /\ Meant(<<"dest">>)
          /\ \E branch \in {"branch0", "branch"} : Compiled(Back(branch), Drop(1), goal)

Repeat ==
  /\ Compiling
  /\ IF n < 2 THEN Refused
     ELSE /\ Meant(<<"orig", "dest">>)
          /\ Compiled(Patch(Back("branch"), Below.ref), Drop(2),
                      [goal EXCEPT ![Below.label] = here + 2])

-----------------------------------------------------------------------------
\* A loop has two labels: its end, which LEAVE goes to, and its start.
DoHead  == <<Op("word"), Op(">r"), Op(">r"), Op("word"), Op("data")>>
QDoHead == <<Op("word"), Op("2>r"), Op("word")>>

(* DO and ?DO                                                              *)
Do ==
  /\ Compiling
  /\ IF Avail(1)
     THEN \E head \in {DoHead, QDoHead} :
            LET start == here + Len(head) IN
            Compiled(code \o head \o <<Op("word"), Op("branch0"), Sentinel(label)>>,
                     Append(items, [kind |-> "do", ref |-> start, label |-> label]),
                     goal \o <<0, start>>)
     ELSE Refused

Enclosing == {i \in 1..n : items[i].kind \in {"do", "case"}}
Innermost == items[CHOOSE i \in Enclosing : \A j \in Enclosing : j <= i]
Loops     == {i \in 1..n : items[i].kind = "do"}
LoopLabel == IF Loops = {} THEN 0
             ELSE items[CHOOSE i \in Loops : \A j \in Loops : j <= i].label

Leave ==
  /\ Compiling
  /\ (~LeaveAnywhere => Enclosing # {} /\ Innermost.kind = "do")
  /\ Compiled(code \o <<Op("branch"), Sentinel(LoopLabel)>>, items, goal)

\* Fault: UNLOOP is compiled before the branches are filled in.
LoopCode_Late(c, ref) ==
  Resolve(c \o <<Op("r>"), Op("word"), Op("word"), Op(">r"), Op("branch"),
                 To(ref, Top.label + 1), Op("unloop")>>, ref)
LoopCode(c, ref) ==
  Resolve(c \o <<Op("r>"), Op("word"), Op("word"), Op(">r"), Op("branch"),
                 To(ref, Top.label + 1)>>, ref) \o <<Op("unloop")>>

(* LOOP is 1 LITERAL +LOOP.                                                *)
Loop ==
  /\ Compiling
  /\ \E literal \in {<<>>, <<Op("word"), Op("data")>>} :
       IF n < 1 \/ (literal # <<>> /\ ~Avail(1)) THEN Refused
       ELSE /\ Meant(<<"do">>)
            /\ LET c == code \o literal IN
               Compiled(LoopCode(c, Top.ref), Drop(1),
                        [goal EXCEPT ![Top.label] = Len(c) + 7])

-----------------------------------------------------------------------------
Case ==
  /\ Compiling
  /\ IF Avail(2)
     THEN Compiled(code,
                   items \o <<[kind |-> "case", ref |-> here, label |-> label], Mark("CASE")>>,
                   Append(goal, 0))
     ELSE Refused

Of ==
  /\ Compiling
  /\ IF n < 1 \/ ~Avail(2) \/ Top # Mark("CASE") THEN Refused
     ELSE \E raw \in Stale :
            Compiled(code \o <<Op("word"), Op("word"), Op("branch0"), Open(raw, label),
                               Op("word")>>,
                     items \o <<[kind |-> "of", ref |-> here + 3, label |-> label],
                                Mark("OF")>>,
                     Append(goal, 0))

\* The CASE that an OF on top of the stack belongs to.
CaseLabel == items[n - 3].label

EndOf ==
  /\ Compiling
  /\ IF n < 2 \/ Top # Mark("OF") THEN Refused
     ELSE Compiled(Patch(code \o <<Op("branch"), Sentinel(CaseLabel)>>, Below.ref), Drop(2),
                   [goal EXCEPT ![Below.label] = here + 2])

EndCase ==
  /\ Compiling
  /\ IF n < 2 \/ Top # Mark("CASE") THEN Refused
     ELSE Compiled(Resolve(Append(code, Op("word")), Below.ref), Drop(2),
                   [goal EXCEPT ![Below.label] = here + 1])

ControlNext ==
  \/ Begin \/ FinishDefinition
  \/ If \/ Else \/ Then \/ BeginLoop \/ While \/ Until \/ Repeat
  \/ Do \/ Leave \/ Loop
  \/ Case \/ Of \/ EndOf \/ EndCase

ControlSpec == ControlInit /\ [][ControlNext]_controlVars

-----------------------------------------------------------------------------
ControlTypeOK ==
  /\ state \in {"none", "open", "done"}
  /\ code \in Seq(Cell) /\ items \in Seq(Item) /\ goal \in Seq(Nat) /\ words \in 0..MaxWords
  /\ n <= MaxDepth
  /\ state # "open" => n = 0

(* A branch is filled in when the structure it was compiled for reaches    *)
(* the place it has to go to, by that structure, and with that place:      *)
(* the searches for SENTINEL never take a branch of another structure      *)
(* ("Handle intermediary ENDOF and branch to here").                       *)
BranchesBelong ==
  \A a \in DOMAIN code :
    LET c == code[a] IN
    c.by # 0 => IF goal[c.by] = 0 THEN c.op # "to"
                                  ELSE c.op = "to" /\ c.at = goal[c.by]

(* A definition that is accepted has no branch left to fill in ("any       *)
(* attempt to compile an unbalanced control structure fails").             *)
FinishedIsResolved ==
  state = "done" => \A a \in DOMAIN code \ {Len(code)} : code[a].op \notin Stale

(* Every branch is filled in by its own structure, and none stays open.     *)
ControlInv == ControlTypeOK /\ BranchesBelong /\ FinishedIsResolved

\* Cells a definition has on the return stack when it gets to an address.
Effect(op) == CASE op = ">r" -> 1 [] op = "2>r" -> 2 [] op = "r>" -> -1
                [] op = "unloop" -> -2 [] OTHER -> 0
Depth ==
  LET d[a \in 1..Len(code)] == IF a = 1 THEN 0 ELSE d[a - 1] + Effect(code[a - 1].op)
  IN d

(* Whatever way is taken through a definition, its loop parameters are on  *)
(* the return stack where they are expected, and none is left at its end:  *)
(* a branch goes to an instruction, with as many items on the return stack *)
(* as on the straight way there.                                           *)
PathsAreBalanced ==
  state = "done" =>
    LET depth == Depth IN
    /\ depth[Len(code) - 1] = 0
    /\ \A a \in DOMAIN code : code[a].op = "to" =>
         /\ code[code[a].at].op \notin Operands
         /\ depth[code[a].at] = depth[a]
=============================================================================
