----------------------------- MODULE Exceptions -----------------------------
(***************************************************************************)
(* The exception mechanism of an e4 task: e4__exception_catch,             *)
(* e4__exception_throw and e4__exception_throw_then                        *)
(* (core/src/kernel/exception.c).                                          *)
(*                                                                         *)
(* Every active call of e4__exception_catch is a frame.  A frame holds the *)
(* C locals of the call (saved_sp ... saved_e and, when the handler is     *)
(* nested, old_ctx); task->exception.ctx, a jmp_buf, is the index of the   *)
(* frame whose setjmp filled it, so a longjmp cuts `frames' back to ctx.   *)
(* The phase of a frame says where in the function its C code stands:      *)
(*    "exec"      inside e4__execute(task, xt)                             *)
(*    "landed"    setjmp has just returned nonzero                         *)
(*    "callback"  inside task->exception.then(...)                         *)
(*    "fired"     past the callback, about to return the code              *)
(***************************************************************************)
EXTENDS Naturals, Sequences

CONSTANTS
  Cell,        \* positions of a stack pointer (sp, rp, tr0)
  InputSource, \* values of task->io_src
  Code,        \* exception codes other than e4__E_OK
  OK,          \* e4__E_OK
  QUIT,        \* e4__E_QUIT
  BYE,         \* e4__E_BYE
  Callback,    \* functions passed as `then'
  NoCallback,  \* a NULL `then'
  MaxFrames    \* bound on the nesting of e4__exception_catch

ASSUME CodeAssumption ==
  /\ OK \notin Code
  /\ {QUIT, BYE} \subseteq Code
  /\ QUIT # BYE
ASSUME CallbackAssumption == NoCallback \notin Callback
ASSUME MaxFramesAssumption == MaxFrames \in Nat

VARIABLES
  frames,      \* the active calls of e4__exception_catch, innermost last
  valid,       \* task->exception.valid
  ctx,         \* task->exception.ctx: index of a frame, or 0 before the first
  code,        \* task->exception.code
  then,        \* task->exception.then
  result,      \* what the last e4__exception_catch to return has returned
  sp, rp, tr0, \* data stack pointer, return stack pointer, thread root
  src          \* task->io_src

handlerVars == <<frames, valid, ctx, code, then, result>>
machineVars == <<sp, rp, tr0, src>>
excVars     == <<handlerVars, machineVars>>

Phase == {"exec", "landed", "callback", "fired"}
CodeOrOK == Code \cup {OK}

Frame == [phase : Phase, nested : BOOLEAN, old : Nat,
          sp : Cell, rp : Cell, tr0 : Cell, src : InputSource, e : CodeOrOK]

depth == Len(frames)
top   == frames[depth]

\* The code being executed right now is not e4__exception_catch itself.
Running == depth > 0 => top.phase \in {"exec", "callback"}

-----------------------------------------------------------------------------
(* A task on which nothing has been executed yet (e4__task_create).        *)
ExcInit ==
  /\ frames = <<>> /\ valid = FALSE /\ ctx = 0
  /\ code = OK /\ then = NoCallback /\ result = OK
  /\ sp \in Cell /\ rp \in Cell /\ tr0 \in Cell /\ src \in InputSource

(* Entry of e4__exception_catch up to e4__execute(task, xt).               *)
Enclosing == IF valid THEN ctx ELSE 0

Catch ==
  /\ Running
  /\ depth < MaxFrames
  /\ frames' = Append(frames, [phase |-> "exec", nested |-> valid,
                               old |-> Enclosing,
                               sp |-> sp, rp |-> rp, tr0 |-> tr0, src |-> src,
                               e |-> code])
  /\ valid' = TRUE
  /\ ctx' = depth + 1
  /\ UNCHANGED <<code, then, result, machineVars>>

(* longjmp(task->exception.ctx.buf, 1): the C frames above ctx are gone.   *)
LongjmpTo(c) ==
  frames' = [SubSeq(frames, 1, c) EXCEPT ![c].phase = "landed"]

(* e4__exception_throw_then(task, e, th, user) that does throw.  With e =  *)
(* e4__E_OK or no valid context the function returns, changing nothing.    *)
ThrowThen(e, th) ==
  /\ Running
  /\ e # OK /\ valid
  /\ LongjmpTo(ctx)
  /\ code' = e /\ then' = th
  /\ UNCHANGED <<valid, ctx, result, machineVars>>

Throw(e) == ThrowThen(e, NoCallback)

\* The exceptions a nested handler passes on.
\* Fault: BYE is treated like any other exception.
Propagates_QuitOnly == code = QUIT
Propagates          == code \in {QUIT, BYE}

(* The nested branch after setjmp: old_ctx is put back and QUIT and BYE    *)
(* are thrown again, without a callback, to the enclosing handler.         *)
Rethrow ==
  /\ depth > 0 /\ top.phase = "landed" /\ top.nested
  /\ Propagates
  /\ ctx' = top.old
  /\ LongjmpTo(top.old)
  /\ then' = NoCallback
  /\ UNCHANGED <<valid, code, result, machineVars>>

\* The enclosing context becomes current again, or there is none any more.
\* Fault: the outermost handler leaves its context marked valid.
LeaveContext_StillValid == ctx' = top.old /\ UNCHANGED valid
LeaveContext ==
  IF top.nested THEN ctx' = top.old /\ UNCHANGED valid
                ELSE valid' = FALSE /\ UNCHANGED ctx

\* The machine is what it was when the handler was set up, but for sp on QUIT.
\* Fault: the thread root stays that of the code that threw.
RestoreMachine_NoRoot ==
  /\ sp' = IF code = QUIT THEN sp ELSE top.sp
  /\ rp' = top.rp /\ src' = top.src /\ UNCHANGED tr0
RestoreMachine ==
  /\ sp' = IF code = QUIT THEN sp ELSE top.sp
  /\ rp' = top.rp /\ tr0' = top.tr0 /\ src' = top.src

\* Fault: only an outermost handler calls back.
AfterLanding_Outermost ==
  IF then = NoCallback \/ top.nested THEN "fired" ELSE "callback"
AfterLanding == IF then = NoCallback THEN "fired" ELSE "callback"

(* Every other landing; the callback starts if there is one.               *)
Restore ==
  /\ depth > 0 /\ top.phase = "landed"
  /\ (top.nested => ~Propagates)
  /\ LeaveContext
  /\ RestoreMachine
  /\ frames' = [frames EXCEPT ![depth].phase = AfterLanding]
  /\ UNCHANGED <<code, then, result>>

\* Fault: task->exception.code keeps the exception that was caught.
PutBackCode_Kept == UNCHANGED code
PutBackCode      == code' = top.e

\* Fault: task->exception.then is kept after it was called.
Called_Kept == UNCHANGED then
Called      == then' = NoCallback

(* The callback, if any, is over; e4__exception_catch returns the code.    *)
ReturnFired ==
  /\ depth > 0 /\ top.phase \in {"callback", "fired"}
  /\ frames' = SubSeq(frames, 1, depth - 1)
  /\ Called
  /\ result' = code
  /\ PutBackCode
  /\ UNCHANGED <<valid, ctx, machineVars>>

(* xt returned without a throw; e4__exception_catch returns.               *)
ReturnNormally ==
  /\ depth > 0 /\ top.phase = "exec"
  /\ LeaveContext
  /\ frames' = SubSeq(frames, 1, depth - 1)
  /\ result' = code
  /\ PutBackCode
  /\ UNCHANGED <<then, machineVars>>

Unwinding == Rethrow \/ Restore \/ ReturnFired

-----------------------------------------------------------------------------
(* A handler is live when a longjmp to its buffer is defined behaviour: its *)
(* call has not returned and its landing has not been dealt with.           *)
LiveAt(i) == frames[i].phase \in {"exec", "landed"}

NoneLive(lo, hi) == \A i \in lo..hi : ~LiveAt(i)

ExcTypeOK ==
  /\ frames \in Seq(Frame) /\ Len(frames) <= MaxFrames
  /\ valid \in BOOLEAN /\ ctx \in Nat
  /\ code \in CodeOrOK /\ result \in CodeOrOK
  /\ then \in Callback \cup {NoCallback}
  /\ sp \in Cell /\ rp \in Cell /\ tr0 \in Cell /\ src \in InputSource

(* The context a throw would jump to is the innermost live handler, and    *)
(* there is a live handler exactly when the context is marked valid.       *)
CtxIsInnermost ==
  /\ valid => ctx \in 1..depth /\ LiveAt(ctx) /\ NoneLive(ctx + 1, depth)
  /\ ~valid => NoneLive(1, depth)

(* Each frame remembers the live handler that encloses it.                 *)
EnclosingIsKnown(i) ==
  /\ frames[i].nested => /\ frames[i].old \in 1..(i - 1)
                         /\ LiveAt(frames[i].old)
                         /\ NoneLive(frames[i].old + 1, i - 1)
  /\ ~frames[i].nested => NoneLive(1, i - 1)

OldIsEnclosing == \A i \in 1..depth : EnclosingIsKnown(i)

(* Only the innermost frame can be between its setjmp and its return.      *)
OnlyTopLands ==
  \A i \in 1..depth :
    /\ frames[i].phase \in {"landed", "fired"} => i = depth
    /\ frames[i].phase = "landed" => code # OK

HandlerInv == CtxIsInnermost /\ OldIsEnclosing /\ OnlyTopLands

=============================================================================
