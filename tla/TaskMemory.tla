----------------------------- MODULE TaskMemory -----------------------------
(***************************************************************************)
(* The memory of a task (core/src/kernel/task.c): how e4__task_create      *)
(* divides the buffer, how the dictionary grows into it, and the pictured  *)
(* numeric output (PNO) of core/src/kernel/io.c, which is built downwards  *)
(* from PAD in the space the dictionary has not taken yet.                 *)
(*                                                                         *)
(* Addresses are numbers of a machine whose unsigned arithmetic wraps at   *)
(* `Modulus'; 0 is NULL.                                                   *)
(***************************************************************************)
EXTENDS Integers

CONSTANTS
  Base,        \* address of the buffer given to e4__task_create
  Sizes,       \* sizes of that buffer
  CELL,        \* sizeof(e4__cell)
  TASK,        \* sizeof(struct e4__task)
  TASK_MIN_SZ, \* e4__TASK_MIN_SZ
  PNO_MIN_SZ,  \* e4__PNO_MIN_SZ
  Modulus,     \* one more than the largest e4__usize
  MaxDigits,   \* digits of the longest single-cell number
  MaxLen       \* bound on what one operation allots, releases or holds

ASSUME MachineAssumption ==
  /\ {Base, CELL, TASK, PNO_MIN_SZ, Modulus, MaxDigits, MaxLen} \subseteq Nat \ {0}
  /\ Sizes \subseteq Nat /\ TASK_MIN_SZ \in Nat

(* The buffer lies in the address space, a task is a whole number of cells, *)
(* e4__PNO_MIN_SZ is two characters more than twice the bits of a cell, of  *)
(* which there is an even number, and no number has more digits than bits.  *)
(* What one operation takes is small enough not to wrap around.             *)
ASSUME SizesAssumption ==
  /\ \A n \in Sizes : Base + n + MaxLen < Modulus
  /\ TASK % CELL = 0
  /\ MaxDigits % 2 = 0 /\ 2 * MaxDigits + 2 <= PNO_MIN_SZ
  /\ MaxLen + 2 * MaxDigits + 1 < Base + TASK

VARIABLES
  sz,      \* task->sz
  here,    \* task->here
  pno,     \* task->pno
  last,    \* history: what the last PNO operation did
  checked  \* history: space was only taken with e4__task_allot

vars == <<sz, here, pno, last, checked>>

NULL == 0
Wrap(n) == n % Modulus

-----------------------------------------------------------------------------
\* e4__task_create: every region starts at a percentage of the cells.
At(percent) == Base + CELL * ((percent * sz) \div (100 * CELL))
c0  == Base
dp0 == Base + CELL * (TASK \div CELL)
pad == At(70)
sl  == At(75)
s0  == At(85) - CELL
tib == At(85)
rl  == At(90)
r0  == Base + sz - CELL

Init ==
  /\ sz \in {CELL * (n \div CELL) : n \in Sizes} /\ sz >= TASK_MIN_SZ
  /\ here = dp0
  /\ pno = [end |-> NULL, offset |-> NULL]
  /\ last = [op |-> "none", res |-> "OK", from |-> NULL, to |-> NULL]
  /\ checked = TRUE

-----------------------------------------------------------------------------
\* e4__task_allot.
\* Fault: nothing is reserved for pictured numeric output.
UpperBound_Pad == pad
UpperBound == pad - PNO_MIN_SZ
LowerBound == Base + TASK
AllotResult(n) ==
  IF Wrap(here + n) > UpperBound THEN "DICTOVERFLOW"
  ELSE IF Wrap(here + n) < LowerBound THEN "DICTUNDERFLOW" ELSE "OK"

\* e4__task_unused.
\* Fault: the reserve is counted as unused.
Unused_WithReserve == IF pad - PNO_MIN_SZ > here THEN pad - here ELSE 0
Unused == IF pad - PNO_MIN_SZ > here THEN (pad - here) - PNO_MIN_SZ ELSE 0

(* ALLOT of a positive or a negative number; a failure changes nothing.    *)
Allot ==
  /\ \E n \in 0..MaxLen : \E a \in {n, Wrap(-n)} :
       here' = IF AllotResult(a) = "OK" THEN Wrap(here + a) ELSE here
  /\ UNCHANGED <<sz, pno, last, checked>>

(* `,' `C,', compiled code, headers: nothing checks where `here' gets.     *)
Compile ==
  /\ \E n \in 1..MaxLen : here + n <= Base + sz /\ here' = here + n
  /\ checked' = FALSE
  /\ UNCHANGED <<sz, pno, last>>

(* FORGET, markers and cancelled definitions give back what lies above.    *)
Release ==
  /\ \E n \in 1..MaxLen : here - n >= LowerBound /\ here' = here - n
  /\ UNCHANGED <<sz, pno, last, checked>>

-----------------------------------------------------------------------------
(* Each PNO function maps a PNO state to a result and a new state.         *)
Gives(res, p) == [res |-> res, pno |-> p]

Started == [end |-> pad - 1, offset |-> pad - 1]

Hold(p) ==
  IF p.offset = NULL THEN Gives("INVMEMADDR", p)
  ELSE IF p.offset < here THEN Gives("PNOOVERFLOW", p)
  ELSE Gives("OK", [p EXCEPT !.offset = @ - 1])

Holds(p, len) ==
  IF p.offset = NULL THEN Gives("INVMEMADDR", p)
  ELSE IF Wrap(p.offset - len) < here - 1 THEN Gives("PNOOVERFLOW", p)
  ELSE Gives("OK", [p EXCEPT !.offset = @ - len])

\* n digits, and a sign if negative; e4__mem_pno_digits stops at avail.
Digits(p, n, negative) ==
  IF p.offset = NULL THEN Gives("INVMEMADDR", p)
  ELSE IF p.offset < here THEN Gives("PNOOVERFLOW", p)
  ELSE LET avail == Wrap(p.offset - here - 1)
           wrote == IF n <= avail THEN n ELSE avail
           sign  == IF negative /\ avail > wrote THEN 1 ELSE 0
       IN Gives(IF n <= avail /\ (negative => sign = 1) THEN "OK" ELSE "PNOOVERFLOW",
                [p EXCEPT !.offset = @ - (wrote + sign)])

\* Fault: what was allotted since the buffer was started is not looked at.
Finish_Unguarded(p) ==
  Gives(IF p.offset = NULL THEN "INVMEMADDR" ELSE "OK", [end |-> NULL, offset |-> NULL])
Finish(p) ==
  Gives(IF p.offset = NULL THEN "INVMEMADDR"
        ELSE IF p.offset < here - 1 THEN "PNOOVERFLOW" ELSE "OK",
        [end |-> NULL, offset |-> NULL])

\* The string <offset+1, end> that a successful Finish hands out.
Did(op, res, from, to) == last' = [op |-> op, res |-> res, from |-> from, to |-> to]

\* Characters are put into the buffer, from offset down to the new offset.
Writes(op, g) ==
  /\ pno' = g.pno
  /\ Did(op, g.res, g.pno.offset + 1, pno.offset)
  /\ UNCHANGED <<sz, here, checked>>

(* <#                                                                      *)
PnoStart ==
  /\ pno' = Started
  /\ Did("start", "OK", NULL, NULL)
  /\ UNCHANGED <<sz, here, checked>>

(* HOLD, SIGN and # write one character.                                   *)
PnoHold == Writes("write", Hold(pno))

(* HOLDS                                                                   *)
PnoHolds == \E len \in 0..MaxLen : Writes("write", Holds(pno, len))

(* #S of a double-cell number.                                             *)
PnoDigits == \E n \in 1..(2 * MaxDigits) : Writes("write", Digits(pno, n, FALSE))

(* #>                                                                      *)
PnoFinish ==
  /\ pno' = Finish(pno).pno
  /\ Did("finish", Finish(pno).res, pno.offset + 1, pno.end)
  /\ UNCHANGED <<sz, here, checked>>

\* b follows a unless a failed.
Then(a, b(_)) == IF a.res # "OK" THEN a ELSE b(a.pno)

(* `.' of a number with n digits; U. is the same without a sign.           *)
Dot ==
  /\ \E n \in 1..MaxDigits, negative \in BOOLEAN :
       LET held   == Hold(Started)
           signed == Then(held, LAMBDA p : Digits(p, n, negative))
           done   == Then(signed, Finish)
       IN /\ pno' = done.pno
          /\ Did("dot", done.res, signed.pno.offset + 1, pad - 1)
  /\ UNCHANGED <<sz, here, checked>>

Next == \/ Allot \/ Compile \/ Release
        \/ PnoStart \/ PnoHold \/ PnoHolds \/ PnoDigits \/ PnoFinish \/ Dot

Spec == Init /\ [][Next]_vars

-----------------------------------------------------------------------------
MemoryTypeOK ==
  /\ here \in 0..(Modulus - 1)
  /\ pno.end \in {NULL, pad - 1} /\ (pno.end = NULL <=> pno.offset = NULL)
  /\ pno.offset \in 0..(pad - 1)
  /\ checked \in BOOLEAN

(* The regions of a task do not overlap and leave room for each other.     *)
LayoutIsOrdered ==
  /\ LowerBound <= pad /\ pad <= sl /\ sl <= s0 + CELL
  /\ s0 + CELL = tib /\ tib <= rl /\ rl <= r0 + CELL /\ r0 + CELL = Base + sz

(* As long as space is taken with ALLOT, the dictionary never reaches the  *)
(* space that is reserved for pictured numeric output.                     *)
ReserveIsKept == checked => LowerBound <= here /\ here + PNO_MIN_SZ <= pad

(* Every address lies in its region, and the regions keep their places.     *)
MemoryInv == MemoryTypeOK /\ LayoutIsOrdered /\ ReserveIsKept

(* UNUSED tells exactly how much ALLOT will give.                          *)
UnusedIsWhatAllotGives ==
  Unused > 0 => \A n \in 0..MaxLen : AllotResult(n) = "OK" <=> n <= Unused

(* The string #> returns may be changed freely: it lies in the space       *)
(* between `here' and PAD, whatever was allotted or released since it was  *)
(* begun ("at least the buffer returned will be safely mutable which is a  *)
(* hard requirement").                                                     *)
BufferIsMutable ==
  [][(last'.op = "finish" /\ last'.res = "OK" /\ UNCHANGED here) =>
        here <= last'.from /\ last'.to < pad]_vars

(* With the reserve kept, printing a number cannot fail.                   *)
DotIsPrinted == (checked /\ last.op = "dot") => last.res = "OK"

(* Writing a number never touches the dictionary ("the worst thing that    *)
(* can happen here if we ignore it is that we'll fail to print exception   *)
(* information correctly").                                                *)
WritesFreeMemory ==
  [][(last'.op \in {"write", "dot"} /\ last'.from <= last'.to /\ UNCHANGED here)
        => here <= last'.from]_vars

(* The PAD region holds the 84 characters that its declaration promises.   *)
PadHolds84 == sl - pad >= 84
=============================================================================
