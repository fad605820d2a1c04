--------------------------- MODULE HandlersProofs ---------------------------
(***************************************************************************)
(* TLAPS proofs about code that uses the exception mechanism: for any      *)
(* nesting depth, any codes and any callbacks, a throw always has a        *)
(* defined place to land, the task is as it was created when no handler is *)
(* left, and the jump buffers behave as the stack of HandlerStack.         *)
(***************************************************************************)
EXTENDS Handlers, ExceptionsProofs, SequenceTheorems, FiniteSetTheorems, TLAPS

(* Code that uses no handler operation.                                    *)
LEMMA WorkIInv == ASSUME IInv, Work \/ UNCHANGED excVars PROVE IInv'
<1>1. UNCHANGED handlerVars
  BY DEF Work, excVars
<1>2. sp' \in Cell /\ rp' \in Cell /\ tr0' \in Cell /\ src' \in InputSource
  BY DEF Work, excVars, machineVars, IInv, ExcTypeOK
<1>3. QED
  BY <1>1, <1>2, MachineIInv

(* Every step keeps the handlers sound.                                    *)
LEMMA NextIInv == IInv /\ [Next]_excVars => IInv'
<1> SUFFICES ASSUME IInv, [Next]_excVars PROVE IInv'
  OBVIOUS
<1>1. CASE Work \/ UNCHANGED excVars
  BY <1>1, WorkIInv
<1>2. CASE SetHandler
  BY <1>2, CatchIInv DEF SetHandler
<1>3. CASE ThrowPlain
  BY <1>3, ThrowIInv DEF ThrowPlain, Throw
<1>4. CASE ThrowWithThen
  <2>1. PICK e \in ThenCode, th \in Callback : ThrowThen(e, th)
    BY <1>4 DEF ThrowWithThen
  <2>2. QED
    BY <2>1, ThenCodeAssumption, ThrowIInv
<1>5. CASE Rethrow
  BY <1>5, RethrowIInv
<1>6. CASE Restore
  BY <1>6, RestoreIInv
<1>7. CASE ReturnFired
  BY <1>7, ReturnFiredIInv
<1>8. CASE ReturnNormally
  BY <1>8, ReturnNormallyIInv
<1>9. QED
  BY <1>1, <1>2, <1>3, <1>4, <1>5, <1>6, <1>7, <1>8 DEF Next

-----------------------------------------------------------------------------
(* For any codes, callbacks and nesting bound: the context a throw jumps   *)
(* to is always the innermost handler still waiting, and it is marked      *)
(* valid exactly while there is one.  No longjmp of the program goes to a  *)
(* frame that has returned.                                                *)
THEOREM HandlersAlwaysSound == Spec => [](ExcTypeOK /\ HandlerInv)
<1>1. QED
  BY InitIInv, NextIInv, PTL DEF Spec, IInv

-----------------------------------------------------------------------------
(* What makes QuiescentWhenIdle inductive: the outermost frame was set up  *)
(* with no exception, so that is what its return puts back, and a callback *)
(* that is waiting has a frame that will clear it.                         *)
OutermostHasNoCode ==
  IF depth = 0 THEN code = OK ELSE frames[1].e = OK

\* A frame that will clear task->exception.then.
Clears(i) == frames[i].phase \in {"landed", "callback"}

\* A callback that waits has one.
CallbackHasFrame == then # NoCallback => \E i \in 1..depth : Clears(i)

\* Both together are inductive.
QInv == OutermostHasNoCode /\ CallbackHasFrame

(* They hold at first.                                                     *)
LEMMA InitQInv == ExcInit => QInv
<1> SUFFICES ASSUME ExcInit PROVE QInv
  OBVIOUS
<1>1. depth = 0
  BY EmptySeq DEF ExcInit, depth
<1>2. QED
  BY <1>1 DEF ExcInit, QInv, OutermostHasNoCode, CallbackHasFrame

(* The frame that a jump cuts back to is one that clears the callback.     *)
LEMMA JumpQInv ==
  ASSUME IInv, QInv, NEW c \in 1..depth, LongjmpTo(c)
  PROVE  QInv'
<1>1. depth \in Nat /\ c \in 1..Len(frames) /\ frames \in Seq(Frame)
  BY DEF IInv, ExcTypeOK, depth
<1>2. CutTo(frames, frames', c, "landed")
  BY <1>1, LongjmpCuts
<1>3. Len(frames') = c /\ frames'[1].e = frames[1].e /\ frames'[c].phase = "landed"
  BY <1>1, <1>2 DEF CutTo
<1>4. depth # 0 /\ depth' = c /\ c # 0 /\ c \in 1..c
  BY <1>1, <1>3 DEF depth
<1>5. OutermostHasNoCode'
  BY <1>3, <1>4 DEF QInv, OutermostHasNoCode
<1>6. CallbackHasFrame'
  BY <1>3, <1>4 DEF CallbackHasFrame, Clears
<1>7. QED
  BY <1>5, <1>6 DEF QInv

(* A new frame changes neither.                                            *)
LEMMA CatchQInv == ASSUME IInv, QInv, Catch PROVE QInv'
<1> DEFINE new == [phase |-> "exec", nested |-> valid, old |-> Enclosing,
                   sp |-> sp, rp |-> rp, tr0 |-> tr0, src |-> src, e |-> code]
<1>1. new.e = code
  OBVIOUS
<1> HIDE DEF new
<1>2. frames' = Append(frames, new) /\ then' = then
  BY DEF Catch, new
<1>3. /\ depth \in Nat /\ depth' = depth + 1
      /\ \A i \in 1..depth : frames'[i] = frames[i]
      /\ frames'[depth + 1] = new
  BY <1>2 DEF IInv, ExcTypeOK, depth
<1>4. OutermostHasNoCode'
  <2>1. CASE depth = 0
    BY <1>1, <1>3, <2>1 DEF QInv, OutermostHasNoCode
  <2>2. CASE depth # 0
    BY <1>3, <2>2 DEF QInv, OutermostHasNoCode
  <2>3. QED
    BY <2>1, <2>2
<1>5. CallbackHasFrame'
  <2> SUFFICES ASSUME then' # NoCallback
               PROVE  \E i \in 1..depth' : Clears(i)'
    BY DEF CallbackHasFrame
  <2>1. PICK i \in 1..depth : Clears(i)
    BY <1>2 DEF QInv, CallbackHasFrame
  <2>2. i \in 1..depth' /\ frames'[i] = frames[i]
    BY <1>3
  <2>3. QED
    BY <2>1, <2>2 DEF Clears
<1>6. QED
  BY <1>4, <1>5 DEF QInv

(* The frame that lands keeps the callback until it has run.               *)
LEMMA RestoreQInv == ASSUME IInv, QInv, Restore PROVE QInv'
<1>1. depth \in Nat /\ depth > 0 /\ depth = Len(frames) /\ frames \in Seq(Frame)
  BY DEF Restore, IInv, ExcTypeOK, depth
<1>2. AfterLanding \in Phase /\ frames' = [frames EXCEPT ![depth].phase = AfterLanding]
  BY DEF Restore, AfterLanding, Phase
<1>3. /\ depth' = depth
      /\ frames'[1].e = frames[1].e /\ frames'[depth].phase = AfterLanding
  BY <1>1, <1>2, PhaseChange DEF depth
<1>4. OutermostHasNoCode'
  BY <1>1, <1>3 DEF QInv, OutermostHasNoCode
<1>5. CallbackHasFrame'
  BY <1>1, <1>3 DEF CallbackHasFrame, Clears, AfterLanding, Restore
<1>6. QED
  BY <1>4, <1>5 DEF QInv

(* The last return puts back that there is no exception.                   *)
LEMMA PopQInv ==
  ASSUME IInv, QInv, depth > 0, frames' = SubSeq(frames, 1, depth - 1),
         code' = top.e, CallbackHasFrame'
  PROVE  QInv'
<1>1. depth \in Nat /\ depth = Len(frames) /\ depth - 1 \in 0..Len(frames)
  BY DEF IInv, ExcTypeOK, depth
<1>2. PrefixOf(frames, frames', depth - 1)
  BY <1>1, CutFrames DEF IInv, ExcTypeOK
<1>3. depth' = depth - 1 /\ \A i \in 1..(depth - 1) : frames'[i] = frames[i]
  BY <1>2 DEF PrefixOf, depth
<1>4. CASE depth = 1
  BY <1>3, <1>4 DEF QInv, OutermostHasNoCode, top
<1>5. CASE depth # 1
  BY <1>1, <1>3, <1>5 DEF QInv, OutermostHasNoCode
<1>6. QED
  BY <1>4, <1>5 DEF QInv

(* The frame that returns puts its code back, and clears the callback.     *)
LEMMA ReturnFiredQInv == ASSUME IInv, QInv, ReturnFired PROVE QInv'
<1>1. CallbackHasFrame'
  BY DEF ReturnFired, Called, CallbackHasFrame
<1>2. QED
  BY <1>1, PopQInv DEF ReturnFired, PutBackCode

(* The frame that returns normally is not the one the callback waits for.  *)
LEMMA ReturnNormallyQInv == ASSUME IInv, QInv, ReturnNormally PROVE QInv'
<1>1. depth \in Nat /\ depth > 0 /\ depth = Len(frames) /\ depth - 1 \in 0..Len(frames)
  BY DEF IInv, ExcTypeOK, depth, ReturnNormally
<1>2. PrefixOf(frames, frames', depth - 1)
  BY <1>1, CutFrames DEF ReturnNormally, IInv, ExcTypeOK
<1>3. depth' = depth - 1 /\ \A i \in 1..(depth - 1) : frames'[i] = frames[i]
  BY <1>2 DEF PrefixOf, depth
<1>4. ~Clears(depth)
  BY DEF ReturnNormally, Clears, top
<1>5. CallbackHasFrame'
  <2> SUFFICES ASSUME then' # NoCallback
               PROVE  \E i \in 1..depth' : Clears(i)'
    BY DEF CallbackHasFrame
  <2>1. PICK i \in 1..depth : Clears(i)
    BY DEF QInv, CallbackHasFrame, ReturnNormally
  <2>2. i \in 1..(depth - 1)
    BY <1>1, <1>4, <2>1
  <2>3. QED
    BY <1>3, <2>1, <2>2 DEF Clears
<1>6. QED
  BY <1>5, PopQInv DEF ReturnNormally, PutBackCode

(* Every step of the mechanism keeps both.                                 *)
LEMMA NextQInv == IInv /\ QInv /\ [Next]_excVars => QInv'
<1> SUFFICES ASSUME IInv, QInv, [Next]_excVars PROVE QInv'
  OBVIOUS
<1>1. CASE Work \/ UNCHANGED excVars
  <2>1. UNCHANGED handlerVars
    BY <1>1 DEF Work, excVars
  <2>2. QED
    BY <2>1 DEF QInv, OutermostHasNoCode, CallbackHasFrame, Clears, depth, handlerVars
<1>2. CASE SetHandler
  BY <1>2, CatchQInv DEF SetHandler
<1>3. CASE ThrowPlain \/ ThrowWithThen
  <2>1. valid /\ LongjmpTo(ctx)
    BY <1>3 DEF ThrowPlain, ThrowWithThen, Throw, ThrowThen
  <2>2. ctx \in 1..depth
    BY <2>1 DEF IInv, HandlerInv, CtxIsInnermost
  <2>3. QED
    BY <2>1, <2>2, JumpQInv
<1>4. CASE Rethrow
  <2>1. depth \in Nat /\ depth > 0 /\ frames[depth].nested /\ LongjmpTo(frames[depth].old)
    BY <1>4 DEF Rethrow, IInv, ExcTypeOK, depth, top
  <2>2. frames[depth].old \in 1..(depth - 1)
    BY <2>1 DEF IInv, HandlerInv, OldIsEnclosing, EnclosingIsKnown
  <2>3. frames[depth].old \in 1..depth
    BY <2>1, <2>2
  <2>4. QED
    BY <2>1, <2>3, JumpQInv
<1>5. CASE Restore
  BY <1>5, RestoreQInv
<1>6. CASE ReturnFired
  BY <1>6, ReturnFiredQInv
<1>7. CASE ReturnNormally
  BY <1>7, ReturnNormallyQInv
<1>8. QED
  BY <1>1, <1>2, <1>3, <1>4, <1>5, <1>6, <1>7 DEF Next

(* Whatever was thrown, rethrown or called back: when the last             *)
(* e4__exception_catch has returned, task->exception is what it was after  *)
(* e4__task_create, and nothing of an exception shows in the next one.     *)
THEOREM IdleTasksAreQuiescent == Spec => []QuiescentWhenIdle
<1>1. IInv /\ QInv => QuiescentWhenIdle
  BY DEF IInv, HandlerInv, CtxIsInnermost, QInv, OutermostHasNoCode,
     CallbackHasFrame, QuiescentWhenIdle
<1>2. QED
  BY <1>1, InitIInv, NextIInv, InitQInv, NextQInv, PTL DEF Spec

-----------------------------------------------------------------------------
(* The steps in which a handler returns are those of ReturnFired and       *)
(* ReturnNormally: a longjmp to the next frame marks it as landed, which   *)
(* it cannot have been before.                                             *)
LEMMA ReturnSteps ==
  ASSUME IInv, [Next]_excVars, Returns, handlerVars' # handlerVars
  PROVE  ReturnFired \/ ReturnNormally
<1>1. depth \in Nat /\ depth > 0 /\ depth = Len(frames) /\ depth - 1 \in 0..Len(frames)
  BY DEF IInv, ExcTypeOK, depth, Returns
<1>2. PrefixOf(frames, frames', depth - 1)
  BY <1>1, CutFrames DEF Returns, IInv, ExcTypeOK
<1>3. ASSUME NEW c \in 1..depth, LongjmpTo(c) PROVE FALSE
  <2>1. CutTo(frames, frames', c, "landed")
    BY <1>1, <1>3, LongjmpCuts DEF IInv, ExcTypeOK
  <2>2. c = depth - 1 /\ frames'[c].phase = "landed" /\ frames'[c] = frames[c]
    BY <1>1, <1>2, <2>1 DEF CutTo, PrefixOf
  <2>3. QED
    BY <1>1, <2>2 DEF IInv, HandlerInv, OnlyTopLands
<1>4. CASE Work \/ UNCHANGED excVars
  BY <1>4 DEF Work, excVars
<1>5. CASE SetHandler
  BY <1>1, <1>2, <1>5 DEF SetHandler, Catch, PrefixOf, depth, IInv, ExcTypeOK
<1>6. CASE ThrowPlain \/ ThrowWithThen
  BY <1>3, <1>6 DEF ThrowPlain, ThrowWithThen, Throw, ThrowThen, IInv, HandlerInv, CtxIsInnermost
<1>7. CASE Rethrow
  <2>1. frames[depth].old \in 1..(depth - 1) /\ LongjmpTo(frames[depth].old)
    BY <1>1, <1>7 DEF Rethrow, top, IInv, HandlerInv, OldIsEnclosing, EnclosingIsKnown
  <2>2. QED
    BY <1>1, <1>3, <2>1
<1>8. CASE Restore
  <2>1. Len(frames') = depth
    BY <1>1, <1>8, PhaseChange DEF Restore, AfterLanding, Phase, IInv, ExcTypeOK
  <2>2. QED
    BY <1>1, <1>2, <2>1 DEF PrefixOf
<1>9. QED
  BY <1>4, <1>5, <1>6, <1>7, <1>8 DEF Next

(* What a step does to the frames is one of these.                         *)
LEMMA FrameSteps ==
  ASSUME IInv, [Next]_excVars
  PROVE  \/ UNCHANGED handlerVars
         \/ Grown
         \/ \E c \in 1..depth, e \in Code, th \in Callback \cup {NoCallback} :
              Jumped(c) /\ code' = e /\ then' = th
                        /\ (e \notin ThenCode => th = NoCallback)
         \/ \E c \in 1..depth : Jumped(c) /\ code' = code /\ then' = NoCallback
         \/ Restored
         \/ Popped
<1>1. CASE Work \/ UNCHANGED excVars
  BY <1>1 DEF Work, excVars
<1>2. CASE SetHandler
  BY <1>2, CatchGrows DEF SetHandler
<1>3. CASE ThrowPlain
  BY <1>3, ThrowJumps DEF ThrowPlain, Throw
<1>4. CASE ThrowWithThen
  BY <1>4, ThrowJumps, ThenCodeAssumption DEF ThrowWithThen
<1>5. CASE Rethrow
  <2>1. depth \in Nat /\ top.old \in 1..(depth - 1)
    BY <1>5, RethrowJumps DEF IInv, ExcTypeOK, depth
  <2>2. top.old \in 1..depth
    BY <2>1
  <2>3. QED
    BY <1>5, <2>2, RethrowJumps
<1>6. CASE Restore
  BY <1>6, RestoreRestores
<1>7. CASE ReturnFired \/ ReturnNormally
  BY <1>7, ReturnPops
<1>8. QED
  BY <1>1, <1>2, <1>3, <1>4, <1>5, <1>6, <1>7 DEF Next

-----------------------------------------------------------------------------
(* While QUIT or BYE is the current exception, the innermost frame is on   *)
(* its landing, or the outermost one is about to report it; no handler was *)
(* ever set up in between, so none saved it.                               *)
QuitIsLanding ==
  code \in {QUIT, BYE} =>
    /\ depth > 0 /\ then = NoCallback
    /\ \/ frames[depth].phase = "landed"
       \/ frames[depth].phase = "fired" /\ ~frames[depth].nested

\* Frame i saved neither QUIT nor BYE.
SavedIsNotQuit(i) == frames[i].e \notin {QUIT, BYE}

\* Both together are inductive.
QuitInv == QuitIsLanding /\ \A i \in 1..depth : SavedIsNotQuit(i)

(* They hold at first.                                                     *)
LEMMA InitQuitInv == ExcInit => QuitInv
<1> SUFFICES ASSUME ExcInit PROVE QuitInv
  OBVIOUS
<1>1. depth = 0 /\ code \notin {QUIT, BYE}
  BY EmptySeq, CodeAssumption DEF ExcInit, depth
<1>2. QED
  BY <1>1 DEF QuitInv, QuitIsLanding

(* Every step keeps both, as long as no callback is given with QUIT or BYE.*)
LEMMA NextQuitInv ==
  ASSUME ThenCode \cap {QUIT, BYE} = {}, IInv, QuitInv, [Next]_excVars
  PROVE  QuitInv'
<1>1. depth \in Nat
  BY DEF IInv, ExcTypeOK, depth
<1>2. CASE UNCHANGED handlerVars
  BY <1>2 DEF QuitInv, QuitIsLanding, SavedIsNotQuit, depth, handlerVars
<1>3. CASE Grown
  <2>1. code \notin {QUIT, BYE}
    BY <1>3 DEF Grown, Running, top, QuitInv, QuitIsLanding
  <2>2. QED
    BY <1>1, <1>3, <2>1 DEF Grown, QuitInv, QuitIsLanding, SavedIsNotQuit
<1>4. ASSUME NEW c \in 1..depth, Jumped(c), code' \in {QUIT, BYE} => then' = NoCallback
      PROVE  QuitInv'
  <2>1. /\ c \in Nat /\ c > 0 /\ depth' = c /\ frames'[c].phase = "landed"
        /\ \A i \in 1..c : frames'[i].e = frames[i].e /\ i \in 1..depth
    BY <1>1, <1>4 DEF Jumped, CutTo
  <2>2. QuitIsLanding'
    BY <1>4, <2>1 DEF QuitIsLanding
  <2>3. QED
    BY <2>1, <2>2 DEF QuitInv, SavedIsNotQuit
<1>5. CASE \E c \in 1..depth, e \in Code, th \in Callback \cup {NoCallback} :
             Jumped(c) /\ code' = e /\ then' = th
                       /\ (e \notin ThenCode => th = NoCallback)
  BY <1>4, <1>5
<1>6. CASE \E c \in 1..depth : Jumped(c) /\ code' = code /\ then' = NoCallback
  BY <1>4, <1>6
<1>7. CASE Restored
  <2>1. \A i \in 1..depth : SavedIsNotQuit(i)'
    BY <1>7 DEF Restored, QuitInv, SavedIsNotQuit
  <2>2. QuitIsLanding'
    <3> SUFFICES ASSUME code' \in {QUIT, BYE} PROVE QuitIsLanding'
      BY DEF QuitIsLanding
    <3>1. then = NoCallback /\ ~frames[depth].nested /\ code \in {QUIT, BYE}
      BY <1>7 DEF Restored, Propagates, QuitInv, QuitIsLanding
    <3>2. depth \in 1..depth /\ AfterLanding = "fired"
      BY <1>1, <1>7, <3>1 DEF Restored, AfterLanding
    <3>3. QED
      BY <1>7, <3>1, <3>2 DEF Restored, QuitIsLanding
  <2>3. QED
    BY <1>7, <2>1, <2>2 DEF Restored, QuitInv
<1>8. CASE Popped
  <2>1. code' \notin {QUIT, BYE}
    BY <1>1, <1>8 DEF Popped, QuitInv, SavedIsNotQuit
  <2>2. QED
    BY <1>1, <1>8, <2>1 DEF Popped, QuitInv, QuitIsLanding, SavedIsNotQuit
<1>9. QED
  BY <1>2, <1>3, <1>5, <1>6, <1>7, <1>8, FrameSteps

(* QUIT and BYE go past every nested handler, however deep, unless they    *)
(* are thrown along with a callback: only the outermost                    *)
(* e4__exception_catch returns them.                                       *)
THEOREM QuitReachesOutermost ==
  ASSUME ThenCode \cap {QUIT, BYE} = {}
  PROVE  Spec => OnlyOutermostSeesQuit
<1>1. ASSUME IInv, QuitInv, [Next]_excVars
      PROVE  [Returns /\ top.nested => result' \notin {QUIT, BYE}]_handlerVars
  <2> SUFFICES ASSUME Returns, top.nested, handlerVars' # handlerVars
               PROVE  result' \notin {QUIT, BYE}
    OBVIOUS
  <2>1. ReturnFired \/ ReturnNormally
    BY <1>1, ReturnSteps
  <2>2. result' = code /\ top.phase # "landed"
    BY <2>1 DEF ReturnFired, ReturnNormally
  <2>3. QED
    BY <1>1, <2>2 DEF QuitInv, QuitIsLanding, top
<1>2. ExcInit => IInv /\ QuitInv
  BY InitIInv, InitQuitInv
<1>3. IInv /\ QuitInv /\ [Next]_excVars => IInv' /\ QuitInv'
  BY NextIInv, NextQuitInv
<1>4. QED
  BY <1>1, <1>2, <1>3, PTL DEF Spec, OnlyOutermostSeesQuit

-----------------------------------------------------------------------------
(* As long as no callback runs, no exception is current while code runs,   *)
(* and a frame set up before any callback saved that there was none.       *)
Calls(i) == frames[i].phase = "callback"

\* Outside callbacks, running code has no current exception.
NoneCurrent ==
  (\A i \in 1..depth : ~Calls(i)) /\ (depth > 0 => frames[depth].phase = "exec")
    => code = OK

\* A frame set up outside callbacks saved none.
SavedNone(i) == (\A j \in 1..(i - 1) : ~Calls(j)) => frames[i].e = OK

\* Both together are inductive.
ReportInv == NoneCurrent /\ \A i \in 1..depth : SavedNone(i)

(* They hold at first.                                                     *)
LEMMA InitReportInv == ExcInit => ReportInv
<1> SUFFICES ASSUME ExcInit PROVE ReportInv
  OBVIOUS
<1>1. depth = 0 /\ code = OK
  BY EmptySeq DEF ExcInit, depth
<1>2. QED
  BY <1>1 DEF ReportInv, NoneCurrent

(* Every step keeps both.                                                  *)
LEMMA NextReportInv ==
  ASSUME IInv, ReportInv, [Next]_excVars
  PROVE  ReportInv'
<1>1. depth \in Nat
  BY DEF IInv, ExcTypeOK, depth
<1>2. CASE UNCHANGED handlerVars
  BY <1>2 DEF ReportInv, NoneCurrent, SavedNone, Calls, depth, handlerVars
<1>3. CASE Grown
  <2>1. \A i \in 1..depth : (Calls(i)' <=> Calls(i)) /\ frames'[i].e = frames[i].e
    BY <1>3 DEF Grown, Calls
  <2>2. (\A i \in 1..depth : ~Calls(i)) => code = OK
    BY <1>1, <1>3 DEF Grown, Running, top, ReportInv, NoneCurrent, Calls
  <2>3. NoneCurrent'
    BY <1>1, <1>3, <2>1, <2>2 DEF Grown, NoneCurrent
  <2>4. ASSUME NEW i \in 1..(depth + 1) PROVE SavedNone(i)'
    <3>1. CASE i \in 1..depth
      BY <1>1, <2>1, <3>1 DEF SavedNone, ReportInv
    <3>2. CASE i = depth + 1
      BY <1>1, <1>3, <2>1, <2>2, <3>2 DEF Grown, SavedNone
    <3>3. QED
      BY <1>1, <3>1, <3>2
  <2>5. QED
    BY <1>3, <2>3, <2>4 DEF ReportInv, Grown
<1>4. ASSUME NEW c \in 1..depth, Jumped(c) PROVE ReportInv'
  <2>1. /\ c \in Nat /\ c > 0 /\ depth' = c /\ frames'[c].phase = "landed"
        /\ \A i \in 1..c : frames'[i].e = frames[i].e /\ i \in 1..depth
        /\ \A i \in 1..(c - 1) : Calls(i)' <=> Calls(i)
    BY <1>1, <1>4 DEF Jumped, CutTo, Calls
  <2>2. NoneCurrent'
    BY <2>1 DEF NoneCurrent
  <2>3. ASSUME NEW i \in 1..c PROVE SavedNone(i)'
    <3>1. SavedNone(i) /\ frames'[i].e = frames[i].e
      BY <2>1 DEF ReportInv
    <3>2. \A j \in 1..(i - 1) : Calls(j)' <=> Calls(j)
      BY <2>1
    <3>3. QED
      BY <3>1, <3>2 DEF SavedNone
  <2>4. QED
    BY <2>1, <2>2, <2>3 DEF ReportInv
<1>5. CASE Restored
  <2>1. \A i \in 1..(depth - 1) : Calls(i)' <=> Calls(i)
    BY <1>1, <1>5 DEF Restored, Calls
  <2>2. frames'[depth].phase # "exec" /\ depth' > 0
    BY <1>1, <1>5 DEF Restored, AfterLanding
  <2>3. NoneCurrent'
    BY <1>5, <2>2 DEF Restored, NoneCurrent
  <2>4. ASSUME NEW i \in 1..depth PROVE SavedNone(i)'
    <3>1. SavedNone(i) /\ frames'[i].e = frames[i].e
      BY <1>5 DEF ReportInv, Restored
    <3>2. \A j \in 1..(i - 1) : Calls(j)' <=> Calls(j)
      BY <1>1, <2>1
    <3>3. QED
      BY <3>1, <3>2 DEF SavedNone
  <2>5. QED
    BY <1>5, <2>3, <2>4 DEF Restored, ReportInv
<1>6. CASE Popped
  <2>1. \A i \in 1..(depth - 1) : (Calls(i)' <=> Calls(i)) /\ frames'[i].e = frames[i].e
    BY <1>6 DEF Popped, Calls
  <2>2. depth \in 1..depth /\ SavedNone(depth) /\ code' = frames[depth].e /\ depth' = depth - 1
    BY <1>1, <1>6 DEF Popped, ReportInv
  <2>3. NoneCurrent'
    BY <2>1, <2>2 DEF NoneCurrent, SavedNone
  <2>4. ASSUME NEW i \in 1..(depth - 1) PROVE SavedNone(i)'
    <3>1. SavedNone(i)
      BY <1>1 DEF ReportInv
    <3>2. \A j \in 1..(i - 1) : Calls(j)' <=> Calls(j)
      BY <1>1, <2>1
    <3>3. QED
      BY <2>1, <3>1, <3>2 DEF SavedNone
  <2>5. QED
    BY <2>2, <2>3, <2>4 DEF ReportInv
<1>7. QED
  BY <1>2, <1>3, <1>4, <1>5, <1>6, FrameSteps

(* e4__exception_catch never makes up an exception: what returned without  *)
(* a throw is reported as e4__E_OK, whatever was caught before.            *)
THEOREM NormalReturnsAreOK == Spec => OnlyThrownIsReported
<1>1. ASSUME IInv, ReportInv, [Next]_excVars
      PROVE  [Returns /\ top.phase = "exec" /\ (\A i \in 1..depth : frames[i].phase # "callback")
                => result' = OK]_handlerVars
  <2> SUFFICES ASSUME Returns, top.phase = "exec", handlerVars' # handlerVars,
                      \A i \in 1..depth : frames[i].phase # "callback"
               PROVE  result' = OK
    OBVIOUS
  <2>1. ReturnFired \/ ReturnNormally
    BY <1>1, ReturnSteps
  <2>2. result' = code
    BY <2>1 DEF ReturnFired, ReturnNormally
  <2>3. code = OK
    BY <1>1 DEF ReportInv, NoneCurrent, Calls, top
  <2>4. QED
    BY <2>2, <2>3
<1>2. ExcInit => IInv /\ ReportInv
  BY InitIInv, InitReportInv
<1>3. IInv /\ ReportInv /\ [Next]_excVars => IInv' /\ ReportInv'
  BY NextIInv, NextReportInv
<1>4. QED
  BY <1>1, <1>2, <1>3, PTL DEF Spec, OnlyThrownIsReported

-----------------------------------------------------------------------------
(* The number that is added on top of a set comes last, and moves no other. *)
LEMMA TopIsLast ==
  ASSUME NEW S, S \subseteq Nat, IsFiniteSet(S), NEW m \in Nat, \A i \in S : i < m
  PROVE  /\ Cardinality(S) \in Nat /\ IsFiniteSet(S \cup {m})
         /\ Cardinality(S \cup {m}) = Cardinality(S) + 1
         /\ \A k \in 1..Cardinality(S) : Ranked(S \cup {m}, k) = Ranked(S, k)
         /\ Ranked(S \cup {m}, Cardinality(S) + 1) = {m}
<1> DEFINE T == S \cup {m}
<1>1. /\ Cardinality(S) \in Nat /\ m \notin S
      /\ IsFiniteSet(T) /\ Cardinality(T) = Cardinality(S) + 1
  <2>1. m \notin S
    <3>1. ~(m < m)
      OBVIOUS
    <3> QED BY <3>1
  <2> QED BY <2>1, FS_CardinalityType, FS_AddElement
<1>2. ASSUME NEW i \in S
      PROVE  /\ {j \in T : j <= i} = {j \in S : j <= i}
             /\ Cardinality({j \in S : j <= i}) \in 0..Cardinality(S)
  <2>1. i \in Nat /\ i < m
    OBVIOUS
  <2>2. ~(m <= i)
    BY <2>1
  <2>3. {j \in T : j <= i} = {j \in S : j <= i}
    BY <2>2
  <2>4. {j \in S : j <= i} \subseteq S
    OBVIOUS
  <2>5. IsFiniteSet({j \in S : j <= i}) /\ Cardinality({j \in S : j <= i}) <= Cardinality(S)
    BY <2>4, FS_Subset
  <2>6. Cardinality({j \in S : j <= i}) \in Nat
    BY <2>5, FS_CardinalityType
  <2> QED BY <1>1, <2>3, <2>5, <2>6
<1>3. {j \in T : j <= m} = T
  <2>1. \A j \in T : j <= m
    OBVIOUS
  <2> QED BY <2>1
<1>4. ASSUME NEW k \in 1..Cardinality(S) PROVE Ranked(T, k) = Ranked(S, k)
  <2>1. Cardinality({j \in T : j <= m}) # k
    BY <1>1, <1>3
  <2>2. \A i \in S : {j \in T : j <= i} = {j \in S : j <= i}
    BY <1>2
  <2> HIDE DEF T
  <2>3. Ranked(T, k) = {i \in T : Cardinality({j \in T : j <= i}) = k}
    BY DEF Ranked
  <2>4. Ranked(S, k) = {i \in S : Cardinality({j \in S : j <= i}) = k}
    BY DEF Ranked
  <2>5. \A i \in T : i \in S \/ i = m
    BY DEF T
  <2>6. \A i \in S : i \in T
    BY DEF T
  <2>7. \A i \in Ranked(T, k) : i \in S /\ i \in Ranked(S, k)
    BY <2>1, <2>2, <2>3, <2>4, <2>5
  <2>8. \A i \in Ranked(S, k) : i \in Ranked(T, k)
    BY <2>2, <2>3, <2>4, <2>6
  <2> QED BY <2>7, <2>8
<1>5. Ranked(T, Cardinality(S) + 1) = {m}
  <2>1. Cardinality({j \in T : j <= m}) = Cardinality(S) + 1
    BY <1>1, <1>3
  <2>2. \A i \in S : Cardinality({j \in T : j <= i}) # Cardinality(S) + 1
    <3> SUFFICES ASSUME NEW i \in S PROVE Cardinality({j \in T : j <= i}) # Cardinality(S) + 1
      OBVIOUS
    <3>1. {j \in T : j <= i} = {j \in S : j <= i} /\ Cardinality({j \in S : j <= i}) \in 0..Cardinality(S)
      BY <1>2
    <3> HIDE DEF T
    <3>2. Cardinality({j \in T : j <= i}) \in 0..Cardinality(S)
      BY <3>1
    <3> QED BY <1>1, <3>2
  <2>3. m \in T /\ \A i \in T : i \in S \/ i = m
    OBVIOUS
  <2> HIDE DEF T
  <2> QED BY <2>1, <2>2, <2>3 DEF Ranked
<1> QED BY <1>1, <1>4, <1>5

\* The live frames can be counted, and each of them has its place.
EachIsThere == \A k \in 1..Cardinality(Live) : Ranked(Live, k) # {}

\* A machine state.
Machines == [sp : Cell, rp : Cell, tr0 : Cell, src : InputSource]

(* What is known of the live frames.                                       *)
LEMMA LiveAre ==
  ASSUME IInv
  PROVE  /\ Live \subseteq 1..depth /\ Live \subseteq Nat /\ IsFiniteSet(Live)
         /\ Cardinality(Live) \in Nat /\ depth \in Nat
         /\ \A i \in Live : Saved(frames[i]) \in Machines
<1>1. depth \in Nat /\ \A i \in 1..depth : frames[i] \in Frame
  BY ElementOfSeq DEF IInv, ExcTypeOK, depth
<1>2. Live \subseteq 1..depth /\ Live \subseteq Nat
  BY <1>1 DEF Live
<1>3. IsFiniteSet(1..depth)
  BY <1>1, FS_Interval
<1>4. IsFiniteSet(Live) /\ Cardinality(Live) \in Nat
  BY <1>2, <1>3, FS_Subset, FS_CardinalityType
<1>5. \A i \in Live : Saved(frames[i]) \in Machines
  BY <1>1, <1>2 DEF Saved, Machines, Frame
<1> QED BY <1>1, <1>2, <1>4, <1>5

(* The k-th live frame is one.                                             *)
LEMMA KthIsLive ==
  ASSUME EachIsThere, NEW k \in 1..Cardinality(Live)
  PROVE  Kth(Live, k) \in Live
<1>1. Ranked(Live, k) # {}
  BY DEF EachIsThere
<1>2. Kth(Live, k) \in Ranked(Live, k)
  BY <1>1 DEF Kth
<1> QED BY <1>2 DEF Ranked

(* The saved states are machine states.                                    *)
LEMMA SavedStatesAre ==
  ASSUME IInv, EachIsThere
  PROVE  SavedStates \in Seq(Machines) /\ Len(SavedStates) = Cardinality(Live)
<1>1. \A k \in 1..Cardinality(Live) : Saved(frames[Kth(Live, k)]) \in Machines
  BY LiveAre, KthIsLive
<1>2. Cardinality(Live) \in Nat
  BY LiveAre
<1> DEFINE n == Cardinality(Live)
           e(k) == Saved(frames[Kth(Live, k)])
<1>3. SavedStates = [k \in 1..n |-> e(k)]
  BY DEF SavedStates
<1>4. n \in Nat /\ \A k \in 1..n : e(k) \in Machines
  BY <1>1, <1>2
<1> HIDE DEF n, e
<1>5. SavedStates \in Seq(Machines) /\ Len(SavedStates) = n
  BY <1>3, <1>4
<1> QED BY <1>5 DEF n

(* The live frames are the same, and so is what they saved.                *)
LEMMA LiveSame ==
  ASSUME IInv, EachIsThere, Live' = Live,
         \A i \in Live : Saved(frames'[i]) = Saved(frames[i])
  PROVE  SavedStates' = SavedStates /\ EachIsThere'
<1>1. EachIsThere'
  BY DEF EachIsThere
<1>2. \A k \in 1..Cardinality(Live) : Saved(frames'[Kth(Live, k)]) = Saved(frames[Kth(Live, k)])
  BY KthIsLive
<1>3. SavedStates' = [k \in 1..Cardinality(Live) |-> Saved(frames'[Kth(Live, k)])]
  BY DEF SavedStates
<1> QED BY <1>1, <1>2, <1>3 DEF SavedStates

(* A live frame is added on top.                                           *)
LEMMA LivePushed ==
  ASSUME IInv, EachIsThere, NEW m \in Nat, \A i \in Live : i < m, Live' = Live \cup {m},
         \A i \in Live : Saved(frames'[i]) = Saved(frames[i])
  PROVE  SavedStates' = Append(SavedStates, Saved(frames'[m])) /\ EachIsThere'
<1> DEFINE n == Cardinality(Live)
<1>1. /\ n \in Nat /\ Cardinality(Live') = n + 1
      /\ \A k \in 1..n : Ranked(Live', k) = Ranked(Live, k)
      /\ Ranked(Live', n + 1) = {m}
  <2>1. /\ Live \subseteq Nat /\ IsFiniteSet(Live)
    BY LiveAre
  <2>2. /\ n \in Nat /\ Cardinality(Live \cup {m}) = n + 1
        /\ \A k \in 1..n : Ranked(Live \cup {m}, k) = Ranked(Live, k)
        /\ Ranked(Live \cup {m}, n + 1) = {m}
    BY <2>1, TopIsLast
  <2> HIDE DEF n
  <2> QED BY <2>2
<1>2. \A k \in 1..n + 1 : k \in 1..n \/ k = n + 1
  BY <1>1
<1>3. EachIsThere'
  <2>1. \A k \in 1..n : Ranked(Live, k) # {}
    BY DEF EachIsThere
  <2> HIDE DEF n
  <2> QED BY <1>1, <1>2, <2>1 DEF EachIsThere
<1>4. /\ \A k \in 1..n : Kth(Live', k) = Kth(Live, k) /\ Kth(Live, k) \in Live
      /\ Kth(Live', n + 1) = m
  <2>1. \A k \in 1..n : Kth(Live, k) \in Live
    BY KthIsLive
  <2> HIDE DEF n
  <2> QED BY <1>1, <2>1 DEF Kth
<1>5. SavedStates \in Seq(Machines) /\ Len(SavedStates) = n
  BY SavedStatesAre
<1>6. /\ SavedStates' = [k \in 1..n + 1 |-> Saved(frames'[Kth(Live', k)])]
      /\ SavedStates = [k \in 1..n |-> Saved(frames[Kth(Live, k)])]
  BY <1>1 DEF SavedStates
<1> HIDE DEF n
<1>7. Append(SavedStates, Saved(frames'[m])) =
        [k \in 1..n + 1 |-> IF k = n + 1 THEN Saved(frames'[m]) ELSE SavedStates[k]]
  BY <1>1, <1>5
<1>8. \A k \in 1..n + 1 : Saved(frames'[Kth(Live', k)]) =
                             IF k = n + 1 THEN Saved(frames'[m]) ELSE SavedStates[k]
  <2> TAKE k \in 1..n + 1
  <2>1. CASE k = n + 1
    BY <1>4, <2>1
  <2>2. CASE k # n + 1
    <3>1. k \in 1..n
      BY <1>2, <2>2
    <3>2. SavedStates[k] = Saved(frames[Kth(Live, k)])
      BY <1>6, <3>1
    <3> QED BY <1>4, <2>2, <3>1, <3>2
  <2> QED BY <2>1, <2>2
<1>9. SavedStates' = Append(SavedStates, Saved(frames'[m]))
  BY <1>6, <1>7, <1>8
<1> QED BY <1>3, <1>9

(* The innermost live frame is taken off.                                  *)
LEMMA LivePopped ==
  ASSUME IInv, EachIsThere, NEW m \in Live, \A i \in Live : i # m => i < m,
         Live' = Live \ {m}, \A i \in Live' : Saved(frames'[i]) = Saved(frames[i])
  PROVE  /\ EachIsThere' /\ SavedStates # <<>>
         /\ SavedStates' = SubSeq(SavedStates, 1, Len(SavedStates) - 1)
         /\ SavedStates[Len(SavedStates)] = Saved(frames[m])
         /\ Live' # {} => SavedStates'[1] = SavedStates[1]
         /\ Live' = {} => Len(SavedStates) = 1
<1> DEFINE n == Cardinality(Live')
<1>1. /\ m \in Nat /\ Live' \subseteq Nat /\ IsFiniteSet(Live') /\ \A i \in Live' : i < m
  BY LiveAre, FS_Subset
<1>2. Live = Live' \cup {m}
  OBVIOUS
<1>3. /\ n \in Nat /\ Cardinality(Live) = n + 1
      /\ \A k \in 1..n : Ranked(Live, k) = Ranked(Live', k)
      /\ Ranked(Live, n + 1) = {m}
  <2> DEFINE S == Live'
  <2>1. /\ S \subseteq Nat /\ IsFiniteSet(S) /\ \A i \in S : i < m
    BY <1>1
  <2>2. Live = S \cup {m} /\ n = Cardinality(S)
    BY <1>2
  <2> HIDE DEF S, n
  <2>3. /\ Cardinality(S) \in Nat /\ Cardinality(S \cup {m}) = Cardinality(S) + 1
        /\ \A k \in 1..Cardinality(S) : Ranked(S \cup {m}, k) = Ranked(S, k)
        /\ Ranked(S \cup {m}, Cardinality(S) + 1) = {m}
    <3>1. m \in Nat
      BY <1>1
    <3> QED BY <3>1, <2>1, TopIsLast
  <2>4. /\ n \in Nat /\ Cardinality(Live) = n + 1
        /\ \A k \in 1..n : Ranked(Live, k) = Ranked(S, k)
        /\ Ranked(Live, n + 1) = {m}
    BY <2>2, <2>3
  <2> QED BY <2>4 DEF S
<1>4. \A k \in 1..n : k \in 1..n + 1
  BY <1>3
<1>5. EachIsThere'
  <2>1. \A k \in 1..n + 1 : Ranked(Live, k) # {}
    BY <1>3 DEF EachIsThere
  <2> QED BY <1>3, <1>4, <2>1 DEF EachIsThere
<1>6. /\ \A k \in 1..n : Kth(Live', k) = Kth(Live, k) /\ Kth(Live', k) \in Live'
      /\ Kth(Live, n + 1) = m
  <2>1. \A k \in 1..n : Kth(Live', k) \in Live'
    <3>1. \A k \in 1..n : Ranked(Live', k) # {}
      BY <1>5 DEF EachIsThere
    <3>2. \A k \in 1..n : Kth(Live', k) \in Ranked(Live', k)
      BY <3>1 DEF Kth
    <3> QED BY <3>2 DEF Ranked
  <2> QED BY <1>3, <2>1 DEF Kth
<1>7. SavedStates \in Seq(Machines) /\ Len(SavedStates) = n + 1
  BY <1>3, SavedStatesAre
<1>8. /\ SavedStates' = [k \in 1..n |-> Saved(frames'[Kth(Live', k)])]
      /\ SavedStates = [k \in 1..n + 1 |-> Saved(frames[Kth(Live, k)])]
  BY <1>3 DEF SavedStates
<1>9. \A k \in 1..n : Saved(frames'[Kth(Live', k)]) = SavedStates[k]
  <2> TAKE k \in 1..n
  <2>1. SavedStates[k] = Saved(frames[Kth(Live, k)])
    BY <1>4, <1>8
  <2> QED BY <1>6, <2>1
<1>10. Live' # {} => n # 0
  BY <1>1, FS_EmptySet
<1>11. Live' = {} => n = 0
  BY FS_EmptySet
<1> HIDE DEF n
<1>12. n + 1 \in 1..n + 1
  BY <1>3
<1>13. SavedStates[n + 1] = Saved(frames[m])
  BY <1>6, <1>8, <1>12
<1>14. SubSeq(SavedStates, 1, n) = [k \in 1..n |-> SavedStates[k]]
  BY <1>3, <1>7
<1>15. SavedStates' = SubSeq(SavedStates, 1, n)
  BY <1>8, <1>9, <1>14
<1>16. n # 0 => SavedStates'[1] = SavedStates[1]
  <2> SUFFICES ASSUME n # 0 PROVE SavedStates'[1] = SavedStates[1]
    OBVIOUS
  <2>1. 1 \in 1..n
    BY <1>3
  <2> QED BY <1>8, <1>9, <2>1
<1>17. Len(SavedStates) - 1 = n /\ SavedStates # <<>>
  BY <1>3, <1>7
<1> QED BY <1>3, <1>5, <1>7, <1>10, <1>11, <1>13, <1>15, <1>16, <1>17

-----------------------------------------------------------------------------
(* The inductive invariant of the refinement, and what a step does to the  *)
(* live frames.                                                            *)
RInv == IInv /\ EachIsThere

(* Running code is not on a landing.                                       *)
LEMMA RunningIsNotLanding == Running => ~Landing
BY DEF Running, Landing

(* A frame that is neither on top nor anywhere else is on its landing.     *)
LEMMA LandingIsTop ==
  ASSUME IInv
  PROVE  /\ depth \in Nat /\ depth = Len(frames) /\ frames \in Seq(Frame)
         /\ \A i \in 1..depth : frames[i].phase = "landed" => i = depth /\ code # OK
BY DEF IInv, ExcTypeOK, depth, HandlerInv, OnlyTopLands

(* A frame of the cut saved what it saved.                                 *)
LEMMA JumpKeepsSaved ==
  ASSUME NEW c \in 1..depth, Jumped(c)
  PROVE  \A i \in 1..c : Saved(frames'[i]) = Saved(frames[i])
BY DEF Jumped, CutTo, Saved

(* A throw leaves the live frames alone.                                   *)
LEMMA ThrowKeepsLive ==
  ASSUME IInv, NEW e, NEW th, ThrowThen(e, th)
  PROVE  /\ Live' = Live /\ Live # {} /\ Landing'
         /\ \A i \in Live : Saved(frames'[i]) = Saved(frames[i])
<1>1. /\ ctx \in 1..depth /\ Jumped(ctx) /\ LiveAt(ctx) /\ depth \in Nat
      /\ NoneLive(ctx + 1, depth)
  BY ThrowJumps, LandingIsTop DEF ThrowThen, IInv, HandlerInv, CtxIsInnermost
<1> DEFINE c == ctx
<1>2. /\ c \in 1..depth /\ Jumped(c) /\ LiveAt(c) /\ NoneLive(c + 1, depth)
  BY <1>1
<1> HIDE DEF c
<1>3. \A i \in 1..depth : LiveAt(i) => i \in 1..c
  BY <1>1, <1>2 DEF NoneLive
<1>4. \A i \in 1..c : i \in 1..depth /\ (LiveAt(i)' <=> LiveAt(i))
  BY <1>1, <1>2 DEF Jumped, CutTo, LiveAt
<1>5. depth' = c /\ frames'[c].phase = "landed" /\ c > 0
  BY <1>2 DEF Jumped, CutTo
<1>6. Live' = Live
  BY <1>3, <1>4, <1>5 DEF Live
<1>7. Live # {}
  BY <1>2 DEF Live
<1>8. Landing'
  BY <1>5 DEF Landing, top
<1>9. \A i \in Live : i \in 1..c
  BY <1>3 DEF Live
<1> QED BY <1>2, <1>6, <1>7, <1>8, <1>9, JumpKeepsSaved

(* The innermost frame stops being live; the others stay what they are.    *)
LEMMA TopOfLive ==
  ASSUME IInv, depth > 0, LiveAt(depth)
  PROVE  depth \in Live /\ \A i \in Live : i # depth => i < depth
<1>1. depth \in Nat
  BY LandingIsTop
<1> QED BY <1>1 DEF Live

(* Throwing QUIT and BYE on takes the innermost frame off the live ones.   *)
LEMMA RethrowPopsLive ==
  ASSUME IInv, Rethrow
  PROVE  /\ depth \in Live /\ (\A i \in Live : i # depth => i < depth)
         /\ Live' = Live \ {depth} /\ Live' # {} /\ Landing /\ Landing'
         /\ \A i \in Live' : Saved(frames'[i]) = Saved(frames[i])
<1>1. depth \in Nat /\ depth > 0 /\ LiveAt(depth) /\ Landing
  BY LandingIsTop DEF Rethrow, LiveAt, Landing, top
<1> DEFINE c == top.old
<1>2. c \in 1..(depth - 1) /\ Jumped(c)
  BY RethrowJumps
<1>3. LiveAt(c) /\ NoneLive(c + 1, depth - 1)
  <2>1. depth \in 1..depth /\ EnclosingIsKnown(depth) /\ frames[depth].nested
    BY <1>1 DEF IInv, HandlerInv, OldIsEnclosing, Rethrow, top
  <2> QED BY <2>1 DEF EnclosingIsKnown, top
<1> HIDE DEF c
<1>4. \A i \in 1..depth : LiveAt(i) => i \in 1..c \/ i = depth
  <2> SUFFICES ASSUME NEW i \in 1..depth, LiveAt(i), i # depth PROVE i \in 1..c
    OBVIOUS
  <2>1. ~(i \in (c + 1)..(depth - 1))
    BY <1>3 DEF NoneLive
  <2> QED BY <1>1, <1>2, <2>1
<1>5. \A i \in 1..c : i \in 1..depth /\ i # depth /\ (LiveAt(i)' <=> LiveAt(i))
  <2>1. \A i \in 1..c : i \in 1..depth /\ i # depth
    BY <1>1, <1>2
  <2> QED BY <1>2, <1>3, <2>1 DEF Jumped, CutTo, LiveAt
<1>6. depth' = c /\ frames'[c].phase = "landed" /\ c > 0 /\ c \in 1..depth /\ c \in 1..c
  BY <1>1, <1>2 DEF Jumped, CutTo
<1>7. Live' = Live \ {depth}
  BY <1>4, <1>5, <1>6 DEF Live
<1>8. Live' # {}
  BY <1>3, <1>5, <1>6 DEF Live
<1>9. Landing'
  BY <1>6 DEF Landing, top
<1>10. \A i \in Live' : i \in 1..c
  BY <1>6 DEF Live
<1>11. \A i \in Live' : Saved(frames'[i]) = Saved(frames[i])
  BY <1>2, <1>6, <1>10, JumpKeepsSaved
<1> QED BY <1>1, <1>7, <1>8, <1>9, <1>11, TopOfLive

(* Putting the machine back does, too.                                     *)
LEMMA RestorePopsLive ==
  ASSUME IInv, Restore
  PROVE  /\ depth \in Live /\ (\A i \in Live : i # depth => i < depth)
         /\ Live' = Live \ {depth} /\ Landing /\ ~Landing'
         /\ \A i \in Live' : Saved(frames'[i]) = Saved(frames[i])
         /\ code \in {QUIT, BYE} => Live' = {}
<1>1. depth \in Nat /\ depth > 0 /\ depth = Len(frames) /\ frames \in Seq(Frame)
      /\ LiveAt(depth) /\ Landing
  BY LandingIsTop DEF Restore, LiveAt, Landing, top
<1>2. /\ AfterLanding \in Phase /\ depth \in 1..Len(frames)
      /\ frames' = [frames EXCEPT ![depth].phase = AfterLanding]
  BY <1>1 DEF Restore, AfterLanding, Phase
<1>3. /\ depth' = depth
      /\ \A i \in 1..depth :
           /\ frames'[i].phase = IF i = depth THEN AfterLanding ELSE frames[i].phase
           /\ Saved(frames'[i]) = Saved(frames[i])
  BY <1>1, <1>2, PhaseChange DEF depth, Saved
<1>4. AfterLanding \notin {"exec", "landed"}
  BY DEF AfterLanding
<1>5. \A i \in 1..depth : LiveAt(i)' <=> LiveAt(i) /\ i # depth
  BY <1>3, <1>4 DEF LiveAt
<1>6. Live' = Live \ {depth}
  BY <1>3, <1>5 DEF Live
<1>7. ~Landing'
  BY <1>1, <1>3, <1>4 DEF Landing, top
<1>8. \A i \in Live' : Saved(frames'[i]) = Saved(frames[i])
  BY <1>3 DEF Live
<1>9. ASSUME code \in {QUIT, BYE} PROVE Live' = {}
  <2>1. depth \in 1..depth /\ ~frames[depth].nested
    BY <1>1, <1>9 DEF Restore, Propagates, top
  <2>2. NoneLive(1, depth - 1)
    BY <2>1 DEF IInv, HandlerInv, OldIsEnclosing, EnclosingIsKnown
  <2>3. \A i \in 1..depth : i # depth => i \in 1..(depth - 1)
    BY <1>1
  <2> QED BY <1>6, <2>2, <2>3 DEF Live, NoneLive
<1> QED BY <1>1, <1>6, <1>7, <1>8, <1>9, TopOfLive

(* A frame that returns takes at most itself off.                          *)
LEMMA ReturnPopsLive ==
  ASSUME IInv, ReturnFired \/ ReturnNormally
  PROVE  /\ Live' = Live \ {depth} /\ ~Landing /\ ~Landing'
         /\ \A i \in Live' : Saved(frames'[i]) = Saved(frames[i])
         /\ UNCHANGED machineVars
<1>1. depth \in Nat /\ depth > 0 /\ ~Landing /\ Popped /\ UNCHANGED machineVars
  BY LandingIsTop, ReturnPops DEF ReturnFired, ReturnNormally, Landing
<1>2. depth' = depth - 1 /\ \A i \in 1..(depth - 1) : frames'[i] = frames[i]
  BY <1>1 DEF Popped
<1>3. \A i \in 1..depth : i # depth <=> i \in 1..(depth - 1)
  BY <1>1
<1>4. \A i \in 1..(depth - 1) : i \in 1..depth
  BY <1>1
<1>5. Live' = Live \ {depth}
  BY <1>2, <1>3, <1>4 DEF Live, LiveAt
<1>6. \A i \in Live' : Saved(frames'[i]) = Saved(frames[i])
  BY <1>2 DEF Live
<1>7. ~Landing'
  <2> SUFFICES ASSUME Landing' PROVE FALSE
    OBVIOUS
  <2>1. depth - 1 \in 1..(depth - 1) /\ frames'[depth - 1].phase = "landed"
    BY <1>1, <1>2 DEF Landing, top
  <2>2. frames[depth - 1].phase = "landed" /\ depth - 1 \in 1..depth /\ depth - 1 # depth
    BY <1>1, <1>2, <2>1
  <2> QED BY <2>2, LandingIsTop
<1> QED BY <1>1, <1>5, <1>6, <1>7

-----------------------------------------------------------------------------
(* The registers are a machine state, and a frame saves them.              *)
LEMMA RegistersAre ==
  ASSUME IInv PROVE Registers \in Abstract!Machine
BY DEF IInv, ExcTypeOK, Registers, Abstract!Machine

(* Outside a landing the handlers are the saved states, nothing pending.   *)
LEMMA NotLanding == ~Landing => Waiting = SavedStates /\ Pending = OK
BY DEF Waiting, Pending

(* Forth words moving the machine compute.                                 *)
LEMMA WorkComputes ==
  ASSUME RInv, Work PROVE EachIsThere' /\ Abstract!Compute
<1>1. IInv /\ IInv' /\ UNCHANGED handlerVars /\ Running
  BY WorkIInv DEF RInv, Work
<1>2. ~Landing /\ Pending = OK
  BY <1>1, RunningIsNotLanding, NotLanding
<1>3. Live' = Live /\ SavedStates' = SavedStates /\ EachIsThere'
  BY <1>1 DEF RInv, EachIsThere, Live, LiveAt, SavedStates, depth, handlerVars
<1>4. Waiting' = Waiting /\ Pending' = Pending
  BY <1>1, <1>3 DEF Waiting, Pending, Landing, depth, top, handlerVars
<1>5. Registers' \in Abstract!Machine
  <2>1. sp' \in Cell /\ rp' \in Cell /\ tr0' \in Cell /\ src' \in InputSource
    BY <1>1 DEF IInv, ExcTypeOK
  <2> QED BY <2>1 DEF Registers, Abstract!Machine
<1> QED BY <1>2, <1>3, <1>4, <1>5 DEF Abstract!Compute

(* e4__exception_catch enters a handler.                                   *)
LEMMA CatchEnters ==
  ASSUME RInv, Catch PROVE EachIsThere' /\ Abstract!Enter
<1> DEFINE new == [phase |-> "exec", nested |-> valid, old |-> Enclosing,
                   sp |-> sp, rp |-> rp, tr0 |-> tr0, src |-> src, e |-> code]
<1>1. new.phase = "exec" /\ Saved(new) = Registers
  BY DEF Saved, Registers
<1> HIDE DEF new
<1>2. /\ IInv /\ frames' = Append(frames, new) /\ Running
      /\ UNCHANGED machineVars
  BY DEF Catch, new, RInv
<1>3. /\ depth \in Nat /\ depth + 1 \in Nat /\ depth' = depth + 1
      /\ \A i \in 1..depth : frames'[i] = frames[i]
      /\ frames'[depth + 1] = new
  BY <1>2 DEF depth, IInv, ExcTypeOK
<1>0. PICK d \in Nat : d = depth + 1
  BY <1>3
<1>4. /\ d \in Nat /\ depth' = d /\ frames'[d] = new /\ d \in 1..d
      /\ \A i \in 1..depth : i \in 1..d
      /\ \A i \in 1..d : i \in 1..depth \/ i = d
  BY <1>0, <1>3
<1>5. LiveAt(d)' /\ \A i \in 1..depth : LiveAt(i)' <=> LiveAt(i)
  <2>1. \A i \in 1..depth : LiveAt(i)' <=> LiveAt(i)
    BY <1>3 DEF LiveAt
  <2>2. LiveAt(d)'
    BY <1>1, <1>4 DEF LiveAt
  <2> QED BY <2>1, <2>2
<1>6. Live' = Live \cup {d}
  BY <1>4, <1>5 DEF Live
<1>7. \A i \in Live : i < d /\ Saved(frames'[i]) = Saved(frames[i])
  BY <1>0, <1>3 DEF Live
<1>8. EachIsThere' /\ SavedStates' = Append(SavedStates, Registers)
  BY <1>1, <1>2, <1>4, <1>6, <1>7, LivePushed DEF RInv
<1>9. ~Landing /\ ~Landing'
  BY <1>1, <1>2, <1>3, RunningIsNotLanding DEF Landing, top
<1>10. /\ Waiting = SavedStates /\ Pending = OK
       /\ Waiting' = SavedStates' /\ Pending' = OK
  BY <1>9 DEF Waiting, Pending
<1>11. Registers' = Registers
  BY <1>2 DEF Registers, machineVars
<1> QED BY <1>8, <1>10, <1>11 DEF Abstract!Enter

(* e4__exception_throw_then raises.                                        *)
LEMMA ThrowRaises ==
  ASSUME RInv, NEW e \in Code, NEW th, ThrowThen(e, th)
  PROVE  EachIsThere' /\ Abstract!Raise(e)
<1>1. /\ IInv /\ Live' = Live /\ Live # {} /\ Landing' /\ ~Landing
      /\ \A i \in Live : Saved(frames'[i]) = Saved(frames[i])
  BY ThrowKeepsLive, RunningIsNotLanding DEF RInv, ThrowThen
<1>2. EachIsThere' /\ SavedStates' = SavedStates
  BY <1>1, LiveSame DEF RInv
<1>3. SavedStates # <<>>
  <2>1. IsFiniteSet(Live) /\ Len(SavedStates) = Cardinality(Live)
    BY <1>1, LiveAre, SavedStatesAre DEF RInv
  <2>2. Cardinality(Live) # 0
    BY <1>1, <2>1, FS_EmptySet
  <2> QED BY <2>1, <2>2, EmptySeq
<1>4. code' = e /\ UNCHANGED machineVars
  BY DEF ThrowThen
<1>5. Registers' = Registers
  BY <1>4 DEF Registers, machineVars
<1>6. Waiting = SavedStates /\ Pending = OK /\ Pending' = e
  BY <1>1, <1>4 DEF Waiting, Pending
<1>7. Waiting' = IF e \in {QUIT, BYE} THEN <<SavedStates[1]>> ELSE SavedStates
  BY <1>1, <1>2, <1>4 DEF Waiting
<1> QED BY <1>2, <1>3, <1>5, <1>6, <1>7 DEF Abstract!Raise

(* Throwing QUIT and BYE on is part of the same raise.                     *)
LEMMA RethrowStutters ==
  ASSUME RInv, Rethrow
  PROVE  EachIsThere' /\ UNCHANGED <<Waiting, Pending, Registers>>
<1>1. /\ IInv /\ depth \in Live /\ (\A i \in Live : i # depth => i < depth)
      /\ Live' = Live \ {depth} /\ Live' # {} /\ Landing /\ Landing'
      /\ \A i \in Live' : Saved(frames'[i]) = Saved(frames[i])
  BY RethrowPopsLive DEF RInv
<1>2. EachIsThere' /\ SavedStates'[1] = SavedStates[1]
  BY <1>1, LivePopped DEF RInv
<1>3. code \in {QUIT, BYE} /\ code' = code /\ UNCHANGED machineVars
  BY DEF Rethrow, Propagates
<1>4. Registers' = Registers
  BY <1>3 DEF Registers, machineVars
<1> QED BY <1>1, <1>2, <1>3, <1>4 DEF Waiting, Pending

(* Putting the machine back handles what was raised.                       *)
LEMMA RestoreHandles ==
  ASSUME RInv, Restore PROVE EachIsThere' /\ Abstract!Handle
<1>1. /\ IInv /\ depth \in Live /\ (\A i \in Live : i # depth => i < depth)
      /\ Live' = Live \ {depth} /\ Landing /\ ~Landing'
      /\ \A i \in Live' : Saved(frames'[i]) = Saved(frames[i])
      /\ code \in {QUIT, BYE} => Live' = {}
  BY RestorePopsLive DEF RInv
<1>2. /\ EachIsThere' /\ SavedStates # <<>>
      /\ SavedStates' = SubSeq(SavedStates, 1, Len(SavedStates) - 1)
      /\ SavedStates[Len(SavedStates)] = Saved(top)
      /\ Live' = {} => Len(SavedStates) = 1
  BY <1>1, LivePopped DEF RInv, top
<1>3. Pending = code /\ code # OK /\ Pending' = OK /\ Waiting' = SavedStates'
  <2>1. code # OK
    BY <1>1, LandingIsTop DEF Landing, top, Live
  <2> QED BY <1>1, <2>1 DEF Pending, Waiting
<1>4. /\ Waiting[Len(Waiting)] = Saved(top)
      /\ Waiting' = SubSeq(Waiting, 1, Len(Waiting) - 1)
  <2>1. CASE code \in {QUIT, BYE}
    <3>1. Len(SavedStates) = 1 /\ SavedStates[1] = Saved(top)
      BY <1>1, <1>2, <2>1
    <3>2. SavedStates' = SubSeq(SavedStates, 1, 0)
      BY <1>2, <3>1
    <3>3. Waiting = <<Saved(top)>>
      BY <1>1, <2>1, <3>1 DEF Waiting
    <3>4. SubSeq(SavedStates, 1, 0) = <<>> /\ SubSeq(<<Saved(top)>>, 1, 0) = <<>>
      BY <1>1, SavedStatesAre DEF RInv
    <3> QED BY <1>3, <3>2, <3>3, <3>4
  <2>2. CASE code \notin {QUIT, BYE}
    BY <1>1, <1>2, <1>3, <2>2 DEF Waiting
  <2> QED BY <2>1, <2>2
<1>5. Registers' = IF code = QUIT THEN [Saved(top) EXCEPT !.sp = Registers.sp] ELSE Saved(top)
  BY DEF Restore, RestoreMachine, Registers, Saved
<1> QED BY <1>2, <1>3, <1>4, <1>5 DEF Abstract!Handle

(* A handler that returns normally leaves.                                 *)
LEMMA ReturnLeaves ==
  ASSUME RInv, ReturnNormally PROVE EachIsThere' /\ Abstract!Leave
<1>1. /\ IInv /\ Live' = Live \ {depth} /\ ~Landing /\ ~Landing' /\ UNCHANGED machineVars
      /\ \A i \in Live' : Saved(frames'[i]) = Saved(frames[i])
  BY ReturnPopsLive DEF RInv
<1>2. depth \in Live /\ \A i \in Live : i # depth => i < depth
  BY <1>1, TopOfLive DEF ReturnNormally, LiveAt, top
<1>3. /\ EachIsThere' /\ SavedStates # <<>>
      /\ SavedStates' = SubSeq(SavedStates, 1, Len(SavedStates) - 1)
  BY <1>1, <1>2, LivePopped DEF RInv
<1>4. /\ Waiting = SavedStates /\ Pending = OK
      /\ Waiting' = SavedStates' /\ Pending' = OK
  BY <1>1 DEF Waiting, Pending
<1>5. Registers' = Registers
  BY <1>1 DEF Registers, machineVars
<1> QED BY <1>3, <1>4, <1>5 DEF Abstract!Leave

(* The return of a frame whose landing has been dealt with goes unnoticed. *)
LEMMA ReturnStutters ==
  ASSUME RInv, ReturnFired
  PROVE  EachIsThere' /\ UNCHANGED <<Waiting, Pending, Registers>>
<1>1. /\ IInv /\ Live' = Live \ {depth} /\ ~Landing /\ ~Landing' /\ UNCHANGED machineVars
      /\ \A i \in Live' : Saved(frames'[i]) = Saved(frames[i])
  BY ReturnPopsLive DEF RInv
<1>2. depth \notin Live
  BY DEF ReturnFired, Live, LiveAt, top
<1>3. SavedStates' = SavedStates /\ EachIsThere'
  BY <1>1, <1>2, LiveSame DEF RInv
<1>4. Registers' = Registers
  BY <1>1 DEF Registers, machineVars
<1> QED BY <1>1, <1>3, <1>4 DEF Waiting, Pending

(* It holds at first, where no handler waits.                              *)
LEMMA InitRefines == ExcInit => RInv /\ Abstract!Init
<1> SUFFICES ASSUME ExcInit PROVE RInv /\ Abstract!Init
  OBVIOUS
<1>1. IInv
  BY InitIInv
<1>2. depth = 0 /\ Live = {} /\ ~Landing
  <2>1. depth = 0
    BY EmptySeq DEF ExcInit, depth
  <2> QED BY <2>1 DEF Live, Landing
<1>3. Cardinality(Live) = 0
  BY <1>2, FS_EmptySet
<1>4. EachIsThere /\ SavedStates = <<>>
  BY <1>3 DEF EachIsThere, SavedStates
<1>5. Waiting = <<>> /\ Pending = OK
  BY <1>2, <1>4 DEF Waiting, Pending
<1> QED BY <1>1, <1>4, <1>5, RegistersAre DEF RInv, Abstract!Init

(* Every step is one of HandlerStack, or changes nothing it sees.          *)
LEMMA NextRefines ==
  ASSUME RInv, [Next]_excVars
  PROVE  RInv' /\ [Abstract!Next]_Abstract!vars
<1>1. IInv'
  BY NextIInv DEF RInv
<1>2. CASE Work
  BY <1>1, <1>2, WorkComputes DEF RInv, Abstract!Next
<1>3. CASE SetHandler
  BY <1>1, <1>3, CatchEnters DEF RInv, Abstract!Next, SetHandler
<1>4. ASSUME NEW e \in Code, NEW th, ThrowThen(e, th)
      PROVE  RInv' /\ [Abstract!Next]_Abstract!vars
  BY <1>1, <1>4, ThrowRaises DEF RInv, Abstract!Next
<1>5. CASE ThrowPlain
  BY <1>4, <1>5 DEF ThrowPlain, Throw
<1>6. CASE ThrowWithThen
  BY <1>4, <1>6, ThenCodeAssumption DEF ThrowWithThen
<1>7. CASE Rethrow
  BY <1>1, <1>7, RethrowStutters DEF RInv, Abstract!vars
<1>8. CASE Restore
  BY <1>1, <1>8, RestoreHandles DEF RInv, Abstract!Next
<1>9. CASE ReturnFired
  BY <1>1, <1>9, ReturnStutters DEF RInv, Abstract!vars
<1>10. CASE ReturnNormally
  BY <1>1, <1>10, ReturnLeaves DEF RInv, Abstract!Next
<1>11. CASE UNCHANGED excVars
  <2>1. EachIsThere' /\ SavedStates' = SavedStates
    BY <1>11 DEF RInv, EachIsThere, SavedStates, Live, LiveAt, depth, excVars, handlerVars
  <2>2. UNCHANGED <<Waiting, Pending, Registers>>
    BY <1>11, <2>1 DEF Waiting, Pending, Registers, Landing, top, depth,
                       excVars, handlerVars, machineVars
  <2> QED BY <1>1, <2>1, <2>2 DEF RInv, Abstract!vars
<1> QED BY <1>2, <1>3, <1>5, <1>6, <1>7, <1>8, <1>9, <1>10, <1>11 DEF Next

(* The jump buffers behave as a stack of handlers: what a throw brings     *)
(* back is the machine state saved by the handler that is meant to see it, *)
(* whatever was caught, rethrown and called back in between.               *)
THEOREM HandlersAreAStack == Spec => Abstract!SafeSpec
<1>1. RInv /\ [Next]_excVars => RInv' /\ [Abstract!Next]_Abstract!vars
  BY NextRefines
<1> QED BY <1>1, InitRefines, PTL DEF Spec, Abstract!SafeSpec
=============================================================================
