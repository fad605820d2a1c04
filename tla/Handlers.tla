------------------------------ MODULE Handlers ------------------------------
(***************************************************************************)
(* Arbitrary code running on a task and using the exception mechanism: it  *)
(* changes the machine, sets up handlers (CATCH, e4__builtin_exec,         *)
(* e4__evaluate, ...), throws with and without a then-callback, and        *)
(* returns.  A then-callback may itself set up handlers and throw.         *)
(***************************************************************************)
EXTENDS Exceptions, FiniteSets

CONSTANTS
  ThenCode,          \* the codes that are thrown with a callback
  CallbackCatches    \* whether a callback may call e4__exception_catch

ASSUME ThenCodeAssumption == ThenCode \subseteq Code
ASSUME CallbackCatchesAssumption == CallbackCatches \in BOOLEAN

InCallback == depth > 0 /\ top.phase = "callback"

(* Forth words and C code of a handler's xt moving the stacks and the      *)
(* input source.  A callback that did so would get unspecified behaviour.  *)
Work ==
  /\ Running /\ ~InCallback
  /\ \/ sp' \in Cell /\ UNCHANGED <<rp, tr0, src>>
     \/ rp' \in Cell /\ tr0' \in Cell /\ UNCHANGED <<sp, src>>
     \/ src' \in InputSource /\ UNCHANGED <<sp, rp, tr0>>
  /\ UNCHANGED handlerVars

SetHandler == Catch /\ (InCallback => CallbackCatches)

ThrowPlain == \E e \in Code : Throw(e)
ThrowWithThen == \E e \in ThenCode, th \in Callback : ThrowThen(e, th)

Next ==
  \/ Work
  \/ SetHandler
  \/ ThrowPlain
  \/ ThrowWithThen
  \/ Rethrow
  \/ Restore
  \/ ReturnFired
  \/ ReturnNormally

(* The steps of a longjmp's landing are straight-line C code.              *)
Spec == ExcInit /\ [][Next]_excVars /\ WF_excVars(Unwinding)

-----------------------------------------------------------------------------
(* With no handler active the exception state is as after task creation,   *)
(* whatever was thrown, rethrown or called back in the meantime: nothing   *)
(* of an old exception can leak into the next e4__exception_catch.         *)
QuiescentWhenIdle ==
  depth = 0 => ~valid /\ code = OK /\ then = NoCallback

\* A call of e4__exception_catch returns in this step.
Returns == depth > 0 /\ frames' = SubSeq(frames, 1, depth - 1)

(* A nested handler never reports QUIT or BYE to the code that set it up:  *)
(* those two are for the outermost handler ("If the exception is           *)
(* e4__E_QUIT or e4__E_BYE and we're not the last handler, keep going").   *)
OnlyOutermostSeesQuit ==
  [][Returns /\ top.nested => result' \notin {QUIT, BYE}]_handlerVars

(* e4__exception_catch reports an exception only when one was thrown at    *)
(* it: code that returned normally is reported as e4__E_OK, whatever was   *)
(* caught before it, inside it or around it.  (Not so in a then-callback,  *)
(* where the exception being handled is still the current one.)            *)
OnlyThrownIsReported ==
  [][Returns /\ top.phase = "exec" /\ (\A i \in 1..depth : frames[i].phase # "callback")
       => result' = OK]_handlerVars

(* The callback given with an exception does run once the exception has    *)
(* landed ("will be executed immediately after the exception is caught").  *)
ThenHonoured ==
  (depth > 0 /\ top.phase = "landed" /\ then # NoCallback) ~> InCallback

-----------------------------------------------------------------------------
(* The jump buffers implement the stack of handlers of HandlerStack: its   *)
(* handlers are the machine states saved in the live frames, and the       *)
(* cascade of rethrown QUITs and BYEs is one raise to the outermost.       *)
Landing == depth > 0 /\ top.phase = "landed"

Live == {i \in 1..depth : LiveAt(i)}

\* The k-th of a set of numbers, from the least.
Ranked(S, k) == {i \in S : Cardinality({j \in S : j <= i}) = k}
Kth(S, k)    == CHOOSE i \in Ranked(S, k) : TRUE

Saved(f) == [sp |-> f.sp, rp |-> f.rp, tr0 |-> f.tr0, src |-> f.src]

SavedStates == [k \in 1..Cardinality(Live) |-> Saved(frames[Kth(Live, k)])]

Waiting   == IF Landing /\ code \in {QUIT, BYE} THEN <<SavedStates[1]>> ELSE SavedStates
Pending   == IF Landing THEN code ELSE OK
Registers == [sp |-> sp, rp |-> rp, tr0 |-> tr0, src |-> src]

Abstract == INSTANCE HandlerStack WITH
  handlers <- Waiting, pending <- Pending, machine <- Registers

ImplementsHandlerStack == Abstract!Spec
=============================================================================
