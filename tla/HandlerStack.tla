---------------------------- MODULE HandlerStack ----------------------------
(***************************************************************************)
(* What CATCH and THROW promise, with no jump buffers: a stack of saved    *)
(* machine states.  Raising an exception discards the handlers that are    *)
(* not meant to see it (all but the outermost for QUIT and BYE); the       *)
(* handler left on top then restores the machine and is gone.              *)
(***************************************************************************)
EXTENDS Naturals, Sequences

CONSTANTS Cell, InputSource, Code, OK, QUIT, BYE

VARIABLES
  handlers,   \* saved machine states, innermost last
  pending,    \* the exception raised and not yet handled, or OK
  machine     \* [sp, rp, tr0, src]

vars == <<handlers, pending, machine>>

Machine == [sp : Cell, rp : Cell, tr0 : Cell, src : InputSource]

Init == handlers = <<>> /\ pending = OK /\ machine \in Machine

Compute ==
  /\ pending = OK
  /\ machine' \in Machine
  /\ UNCHANGED <<handlers, pending>>

Enter ==
  /\ pending = OK
  /\ handlers' = Append(handlers, machine)
  /\ UNCHANGED <<pending, machine>>

Leave ==
  /\ pending = OK /\ handlers # <<>>
  /\ handlers' = SubSeq(handlers, 1, Len(handlers) - 1)
  /\ UNCHANGED <<pending, machine>>

Raise(e) ==
  /\ pending = OK /\ handlers # <<>>
  /\ pending' = e
  /\ handlers' = IF e \in {QUIT, BYE} THEN <<handlers[1]>> ELSE handlers
  /\ UNCHANGED machine

Handle ==
  /\ pending # OK
  /\ LET saved == handlers[Len(handlers)] IN
     machine' = IF pending = QUIT THEN [saved EXCEPT !.sp = machine.sp] ELSE saved
  /\ handlers' = SubSeq(handlers, 1, Len(handlers) - 1)
  /\ pending' = OK

Next == Compute \/ Enter \/ Leave \/ Handle \/ \E e \in Code : Raise(e)

SafeSpec == Init /\ [][Next]_vars
Spec     == SafeSpec /\ WF_vars(Handle)
=============================================================================
