------------------------------- MODULE Stack --------------------------------
(***************************************************************************)
(* The data stack of a task (core/src/kernel/stack.c): cells 1..StackSize  *)
(* that are filled downwards, sp the next free one.  None of the           *)
(* operations checks a bound; the words that call them do.                 *)
(***************************************************************************)
EXTENDS Integers, Sequences

CONSTANT StackSize    \* task->s0 - task->sl + 1

ASSUME StackAssumption == StackSize \in Nat

Stack(sp, c) == [sp |-> sp, c |-> c]

\* Fault: the cell below the last one is counted.
avail_OneMore(s) == s.sp + 1
avail(s) == s.sp
depth(s) == StackSize - s.sp

\* The items, the top one last; cells above sp hold what was popped.
Items(s) == [i \in 1..depth(s) |-> s.c[StackSize - i + 1]]

peek(s)    == s.c[s.sp + 1]
pick(s, u) == s.c[s.sp + u + 1]
pop(s)     == Stack(s.sp + 1, s.c)
push(s, v) == Stack(s.sp - 1, [s.c EXCEPT ![s.sp] = v])

drop(s) == pop(s)
dup(s)  == push(s, s.c[s.sp + 1])
over(s) == push(s, s.c[s.sp + 2])
swap(s) == Stack(s.sp, [s.c EXCEPT ![s.sp + 2] = s.c[s.sp + 1], ![s.sp + 1] = s.c[s.sp + 2]])
tuck(s) == over(swap(s))

\* Fault: the two upper items go up, not down.
rot_Back(s) == Stack(s.sp, [s.c EXCEPT ![s.sp + 1] = s.c[s.sp + 2], ![s.sp + 2] = s.c[s.sp + 3],
                                       ![s.sp + 3] = s.c[s.sp + 1]])
rot(s) == Stack(s.sp, [s.c EXCEPT ![s.sp + 3] = s.c[s.sp + 2], ![s.sp + 2] = s.c[s.sp + 1],
                                  ![s.sp + 1] = s.c[s.sp + 3]])

\* Each of the u items above the one that is wanted moves by one.
roll(s) ==
  LET u == peek(s)
      sp == s.sp + 1
  IN  Stack(sp, [i \in DOMAIN s.c |-> IF i = sp + 1 THEN s.c[sp + 1 + u]
                                      ELSE IF i \in (sp + 2)..(sp + 1 + u) THEN s.c[i - 1]
                                      ELSE s.c[i]])
=============================================================================
