-------------------------- MODULE ExceptionsProofs --------------------------
(***************************************************************************)
(* What each step of the exception mechanism does to its frames, and that  *)
(* it keeps the handlers sound, for any nesting depth, any codes and any   *)
(* callbacks.  The proofs about the programs that use it, in HandlersProofs *)
(* and EvaluationProofs, rest on these lemmas.                             *)
(***************************************************************************)
EXTENDS Exceptions, SequenceTheorems, TLAPS

\* g is f cut to its first n frames, the phase of frame n being p.
CutTo(f, g, n, p) ==
  /\ g \in Seq(Frame) /\ Len(g) = n
  /\ \A i \in 1..n : /\ g[i].phase = IF i = n THEN p ELSE f[i].phase
                     /\ g[i].nested = f[i].nested
                     /\ g[i].old = f[i].old
                     /\ g[i].e = f[i].e /\ g[i].src = f[i].src
                     /\ g[i].sp = f[i].sp /\ g[i].rp = f[i].rp /\ g[i].tr0 = f[i].tr0

\* g is f without its frames after the n-th.
PrefixOf(f, g, n) ==
  /\ g \in Seq(Frame) /\ Len(g) = n
  /\ \A i \in 1..n : g[i] = f[i]

(* Cutting a sequence of frames keeps a sequence of frames. *)
LEMMA CutFrames ==
  ASSUME NEW f \in Seq(Frame), NEW n \in 0..Len(f)
  PROVE  PrefixOf(f, SubSeq(f, 1, n), n)
<1>1. \A i \in 1..n : f[i] \in Frame
  BY ElementOfSeq
<1>2. QED
  BY <1>1, SubSeqProperties DEF PrefixOf

(* Changing the phase of the n-th frame changes nothing else. *)
LEMMA PhaseChange ==
  ASSUME NEW f \in Seq(Frame), NEW n \in 1..Len(f), NEW p \in Phase
  PROVE  /\ [f EXCEPT ![n].phase = p] \in Seq(Frame)
         /\ Len([f EXCEPT ![n].phase = p]) = Len(f)
         /\ \A i \in 1..Len(f) :
              /\ [f EXCEPT ![n].phase = p][i].phase = IF i = n THEN p ELSE f[i].phase
              /\ [f EXCEPT ![n].phase = p][i].nested = f[i].nested
              /\ [f EXCEPT ![n].phase = p][i].old = f[i].old
              /\ [f EXCEPT ![n].phase = p][i].e = f[i].e
              /\ [f EXCEPT ![n].phase = p][i].src = f[i].src
              /\ [f EXCEPT ![n].phase = p][i].sp = f[i].sp
              /\ [f EXCEPT ![n].phase = p][i].rp = f[i].rp
              /\ [f EXCEPT ![n].phase = p][i].tr0 = f[i].tr0
<1> DEFINE new == [f[n] EXCEPT !.phase = p]
<1>1. \A i \in 1..Len(f) : f[i] \in Frame
  BY ElementOfSeq
<1>2. /\ new \in Frame /\ new.phase = p
      /\ new.nested = f[n].nested /\ new.old = f[n].old /\ new.e = f[n].e
      /\ new.src = f[n].src /\ new.sp = f[n].sp /\ new.rp = f[n].rp /\ new.tr0 = f[n].tr0
  BY <1>1 DEF Frame
<1>3. [f EXCEPT ![n].phase = p] = [f EXCEPT ![n] = new]
  OBVIOUS
<1> HIDE DEF new
<1>4. QED
  BY <1>2, <1>3, ExceptSeq

(* A longjmp cuts the frames and marks the one it lands in. *)
LEMMA LongjmpCuts ==
  ASSUME NEW c \in 1..Len(frames), frames \in Seq(Frame), LongjmpTo(c)
  PROVE  CutTo(frames, frames', c, "landed")
<1> DEFINE f == SubSeq(frames, 1, c)
<1>1. PrefixOf(frames, f, c)
  BY CutFrames
<1>2. "landed" \in Phase
  BY DEF Phase
<1> HIDE DEF f
<1>3. /\ frames' = [f EXCEPT ![c].phase = "landed"]
      /\ c \in 1..Len(f) /\ Len(f) = c /\ f \in Seq(Frame)
  BY <1>1 DEF LongjmpTo, PrefixOf, f
<1>4. QED
  BY <1>1, <1>2, <1>3, PhaseChange DEF CutTo, PrefixOf

-----------------------------------------------------------------------------
\* The inductive invariant of the exception mechanism.
IInv == ExcTypeOK /\ HandlerInv

(* It holds after e4__task_create.                                         *)
LEMMA InitIInv == ExcInit => IInv
<1> SUFFICES ASSUME ExcInit PROVE IInv
  OBVIOUS
<1>1. frames = <<>> /\ Len(frames) = 0 /\ frames \in Seq(Frame)
  BY EmptySeq DEF ExcInit
<1>2. ExcTypeOK
  <2>1. frames \in Seq(Frame) /\ Len(frames) <= MaxFrames
    BY <1>1, MaxFramesAssumption
  <2>2. valid \in BOOLEAN /\ ctx \in Nat
    BY DEF ExcInit
  <2>3. code \in CodeOrOK /\ result \in CodeOrOK /\ then \in Callback \cup {NoCallback}
    BY DEF ExcInit, CodeOrOK
  <2>4. QED
    BY <2>1, <2>2, <2>3 DEF ExcTypeOK, ExcInit
<1>3. HandlerInv
  <2>1. depth = 0 /\ ~valid /\ \A i \in 1..depth : FALSE
    BY <1>1 DEF ExcInit, depth
  <2>2. CtxIsInnermost
    BY <2>1 DEF CtxIsInnermost, NoneLive
  <2>3. QED
    BY <2>1, <2>2 DEF HandlerInv, OldIsEnclosing, OnlyTopLands
<1>4. QED
  BY <1>2, <1>3 DEF IInv

(* Setting up a handler: the new frame is the innermost live one. *)
LEMMA CatchIInv == ASSUME IInv, Catch PROVE IInv'
<1> USE DEF IInv
<1> DEFINE new == [phase |-> "exec", nested |-> valid,
                   old |-> IF valid THEN ctx ELSE 0,
                   sp |-> sp, rp |-> rp, tr0 |-> tr0, src |-> src, e |-> code]
<1>1. new \in Frame
  BY DEF ExcTypeOK, Frame, Phase
<1>2. /\ frames' \in Seq(Frame) /\ Len(frames') = depth + 1
      /\ \A i \in 1..depth : frames'[i] = frames[i]
      /\ frames'[depth + 1] = new
  BY <1>1 DEF Catch, Enclosing, ExcTypeOK, depth
<1>3. /\ new.phase = "exec" /\ new.nested = valid
      /\ new.old = IF valid THEN ctx ELSE 0
  OBVIOUS
<1> HIDE DEF new
<1>4. depth \in Nat /\ depth < MaxFrames
  BY DEF Catch, depth, ExcTypeOK
<1>5. ExcTypeOK'
  BY <1>2, <1>4, MaxFramesAssumption
     DEF ExcTypeOK, Catch, machineVars, depth
<1>6. CtxIsInnermost'
  BY <1>2, <1>3, <1>4 DEF CtxIsInnermost, LiveAt, NoneLive, depth, Catch
<1>7. OldIsEnclosing'
  <2> SUFFICES ASSUME NEW i \in 1..(depth + 1)
               PROVE  EnclosingIsKnown(i)'
    BY <1>2, <1>4 DEF OldIsEnclosing, depth
  <2>1. CASE i \in 1..depth
    <3>1. EnclosingIsKnown(i)
      BY <2>1 DEF HandlerInv, OldIsEnclosing
    <3>2. \A j \in 1..i : frames'[j] = frames[j]
      BY <1>2, <1>4, <2>1
    <3>3. QED
      BY <1>4, <2>1, <3>1, <3>2 DEF EnclosingIsKnown, LiveAt, NoneLive
  <2>2. CASE i = depth + 1
    BY <1>2, <1>3, <1>4, <2>2
       DEF HandlerInv, CtxIsInnermost, EnclosingIsKnown, LiveAt, NoneLive, depth, ExcTypeOK
  <2>3. QED
    BY <2>1, <2>2, <1>4
<1>8. OnlyTopLands'
  BY <1>2, <1>3, <1>4 DEF OnlyTopLands, HandlerInv, Catch, Running, top, depth
<1>9. QED
  BY <1>5, <1>6, <1>7, <1>8 DEF HandlerInv

(* Throwing: the frame jumped to was live, so its landing is. *)
LEMMA ThrowIInv ==
  ASSUME IInv, NEW e \in Code, NEW th \in Callback \cup {NoCallback},
         ThrowThen(e, th)
  PROVE  IInv'
<1> USE DEF IInv
<1>1. ctx \in 1..Len(frames) /\ LiveAt(ctx) /\ depth \in Nat
  BY DEF HandlerInv, CtxIsInnermost, ThrowThen, ExcTypeOK, depth
<1>2. CutTo(frames, frames', ctx, "landed")
  BY <1>1, LongjmpCuts DEF ThrowThen, ExcTypeOK
<1>3. ExcTypeOK'
  BY <1>1, <1>2, MaxFramesAssumption
     DEF ExcTypeOK, ThrowThen, machineVars, CutTo, CodeOrOK
<1>4. CtxIsInnermost'
  BY <1>1, <1>2 DEF CtxIsInnermost, CutTo, LiveAt, NoneLive, depth, ThrowThen
<1>5. OldIsEnclosing'
  <2> SUFFICES ASSUME NEW i \in 1..ctx
               PROVE  EnclosingIsKnown(i)'
    BY <1>2 DEF OldIsEnclosing, CutTo, depth
  <2>1. EnclosingIsKnown(i)
    BY <1>1 DEF HandlerInv, OldIsEnclosing, depth
  <2>2. \A j \in 1..(i - 1) : LiveAt(j)' <=> LiveAt(j)
    BY <1>1, <1>2 DEF CutTo, LiveAt, depth
  <2>3. i \in 1..depth /\ frames'[i].nested = frames[i].nested /\ frames'[i].old = frames[i].old
    BY <1>1, <1>2 DEF CutTo, depth
  <2>4. QED
    BY <2>1, <2>2, <2>3 DEF NoneLive, EnclosingIsKnown
<1>6. OnlyTopLands'
  BY <1>1, <1>2, CodeAssumption DEF HandlerInv, OnlyTopLands, CutTo, depth, ThrowThen
<1>7. QED
  BY <1>3, <1>4, <1>5, <1>6 DEF HandlerInv

(* Rethrowing: the enclosing handler is live and takes over the landing. *)
LEMMA RethrowIInv == ASSUME IInv, Rethrow PROVE IInv'
<1> USE DEF IInv
<1>1. depth \in Nat /\ depth > 0 /\ top.nested
  BY DEF Rethrow, ExcTypeOK, depth
<1>2. /\ top.old \in 1..(depth - 1) /\ LiveAt(top.old)
      /\ NoneLive(top.old + 1, depth - 1)
  BY <1>1 DEF HandlerInv, OldIsEnclosing, EnclosingIsKnown, top, depth
<1>3. CutTo(frames, frames', top.old, "landed")
  BY <1>1, <1>2, LongjmpCuts DEF Rethrow, ExcTypeOK, depth
<1> DEFINE c == top.old
<1>4. c \in 1..(depth - 1) /\ LiveAt(c) /\ CutTo(frames, frames', c, "landed") /\ ctx' = c
  BY <1>2, <1>3 DEF Rethrow
<1> HIDE DEF c
<1>5. valid /\ valid' = valid
  BY <1>1 DEF HandlerInv, CtxIsInnermost, NoneLive, LiveAt, Rethrow, top, depth, ExcTypeOK
<1>6. ExcTypeOK'
  BY <1>1, <1>4, MaxFramesAssumption
     DEF ExcTypeOK, Rethrow, machineVars, CutTo, depth
<1>7. CtxIsInnermost'
  BY <1>1, <1>4, <1>5 DEF CtxIsInnermost, CutTo, LiveAt, NoneLive, depth
<1>8. OldIsEnclosing'
  <2> SUFFICES ASSUME NEW i \in 1..c
               PROVE  EnclosingIsKnown(i)'
    BY <1>4 DEF OldIsEnclosing, CutTo, depth
  <2>1. EnclosingIsKnown(i)
    BY <1>1, <1>4 DEF HandlerInv, OldIsEnclosing, depth
  <2>2. \A j \in 1..(i - 1) : LiveAt(j)' <=> LiveAt(j)
    BY <1>1, <1>4 DEF CutTo, LiveAt, depth
  <2>3. i \in 1..depth /\ frames'[i].nested = frames[i].nested /\ frames'[i].old = frames[i].old
    BY <1>1, <1>4 DEF CutTo, depth
  <2>4. QED
    BY <2>1, <2>2, <2>3 DEF NoneLive, EnclosingIsKnown
<1>9. OnlyTopLands'
  BY <1>1, <1>4, CodeAssumption DEF HandlerInv, OnlyTopLands, CutTo, depth, Rethrow, Propagates
<1>10. QED
  BY <1>6, <1>7, <1>8, <1>9 DEF HandlerInv

(* What is left of a frame that is no longer live, and of the frames below *)
(* it, is what they were: the enclosing handler becomes the current one.   *)
LEMMA EnclosingTakesOver ==
  ASSUME IInv, depth > 0, LiveAt(depth), LeaveContext
  PROVE  /\ valid' => /\ ctx' \in 1..(depth - 1) /\ LiveAt(ctx')
                      /\ NoneLive(ctx' + 1, depth - 1)
         /\ ~valid' => NoneLive(1, depth - 1)
         /\ ctx' \in Nat /\ valid' \in BOOLEAN
<1>1. depth \in Nat /\ EnclosingIsKnown(depth)
  BY DEF IInv, ExcTypeOK, depth, HandlerInv, OldIsEnclosing
<1>2. valid
  BY <1>1 DEF IInv, HandlerInv, CtxIsInnermost, NoneLive
<1>3. CASE top.nested
  <2>1. ctx' = frames[depth].old /\ valid' /\ frames[depth].nested
    BY <1>2, <1>3 DEF top, LeaveContext
  <2>2. /\ frames[depth].old \in 1..(depth - 1)
        /\ LiveAt(frames[depth].old)
        /\ NoneLive(frames[depth].old + 1, depth - 1)
    BY <1>1, <2>1 DEF EnclosingIsKnown
  <2>3. /\ ctx' \in 1..(depth - 1) /\ LiveAt(ctx')
        /\ NoneLive(ctx' + 1, depth - 1)
    BY <2>1, <2>2
  <2>4. QED
    BY <1>1, <1>2, <1>3, <2>1, <2>3
<1>4. CASE ~top.nested
  BY <1>1, <1>4 DEF EnclosingIsKnown, top, IInv, ExcTypeOK, LeaveContext
<1>5. QED
  BY <1>3, <1>4

(* Putting the machine back: the frame stops being live. *)
LEMMA RestoreIInv == ASSUME IInv, Restore PROVE IInv'
<1> USE DEF IInv
<1>1. depth \in Nat /\ depth > 0 /\ depth = Len(frames) /\ LiveAt(depth)
  BY DEF Restore, ExcTypeOK, depth, LiveAt, top
<1>2. PICK p \in {"fired", "callback"} :
        frames' = [frames EXCEPT ![depth].phase = p]
  BY DEF Restore, AfterLanding
<1>3. /\ frames' \in Seq(Frame) /\ Len(frames') = depth
      /\ \A i \in 1..depth :
           /\ frames'[i].phase = IF i = depth THEN p ELSE frames[i].phase
           /\ frames'[i].nested = frames[i].nested
           /\ frames'[i].old = frames[i].old
  <2>1. p \in Phase
    BY DEF Phase
  <2>2. QED
    BY <1>1, <1>2, <2>1, PhaseChange DEF ExcTypeOK
<1>4. \A j \in 1..depth : LiveAt(j)' <=> (j # depth /\ LiveAt(j))
  BY <1>1, <1>3 DEF LiveAt
<1>5. /\ valid' => /\ ctx' \in 1..(depth - 1) /\ LiveAt(ctx')
                   /\ NoneLive(ctx' + 1, depth - 1)
      /\ ~valid' => NoneLive(1, depth - 1)
      /\ ctx' \in Nat /\ valid' \in BOOLEAN
  BY <1>1, EnclosingTakesOver DEF Restore
<1>6. ExcTypeOK'
  <2>1. top \in Frame
    BY <1>1, ElementOfSeq DEF top, ExcTypeOK
  <2>2. sp' \in Cell /\ rp' \in Cell /\ tr0' \in Cell /\ src' \in InputSource
    BY <2>1 DEF Restore, RestoreMachine, Frame, ExcTypeOK
  <2>3. QED
    BY <1>1, <1>3, <1>5, <2>2 DEF ExcTypeOK, Restore, depth
<1>7. CtxIsInnermost'
  <2>1. CASE valid'
    <3>1. PICK c \in 1..(depth - 1) :
            c = ctx' /\ LiveAt(c) /\ NoneLive(c + 1, depth - 1)
      BY <1>5, <2>1
    <3>2. /\ frames'[c].phase \in {"exec", "landed"}
          /\ \A j \in (c + 1)..depth : frames'[j].phase \notin {"exec", "landed"}
      <4>1. c \in 1..depth /\ c # depth /\ frames[c].phase \in {"exec", "landed"}
        BY <1>1, <3>1 DEF LiveAt
      <4>2. ASSUME NEW j \in (c + 1)..depth
            PROVE  j \in 1..depth /\ (j # depth => frames[j].phase \notin {"exec", "landed"})
        <5>1. j \in 1..depth /\ (j # depth => j \in (c + 1)..(depth - 1))
          BY <1>1
        <5>2. QED
          BY <3>1, <5>1 DEF LiveAt, NoneLive
      <4>3. QED
        BY <4>1, <4>2, <1>4 DEF LiveAt
    <3>3. depth' = depth /\ c \in 1..depth /\ ctx' = c
      BY <1>1, <1>3, <3>1 DEF depth
    <3>4. QED
      BY <2>1, <3>2, <3>3 DEF CtxIsInnermost, NoneLive, LiveAt
  <2>2. CASE ~valid'
    <3>1. \A j \in 1..depth : ~LiveAt(j)'
      BY <1>1, <1>4, <1>5, <2>2 DEF NoneLive
    <3>2. QED
      BY <1>3, <2>2, <3>1 DEF CtxIsInnermost, NoneLive, LiveAt, depth
  <2>3. QED
    BY <2>1, <2>2
<1>8. OldIsEnclosing'
  <2> SUFFICES ASSUME NEW i \in 1..depth
               PROVE  EnclosingIsKnown(i)'
    BY <1>3 DEF OldIsEnclosing, depth
  <2>1. EnclosingIsKnown(i)
    BY DEF HandlerInv, OldIsEnclosing
  <2>2. \A j \in 1..(i - 1) : LiveAt(j)' <=> LiveAt(j)
    BY <1>1, <1>4
  <2>3. frames'[i].nested = frames[i].nested /\ frames'[i].old = frames[i].old
    BY <1>3
  <2>4. QED
    BY <1>1, <2>1, <2>2, <2>3 DEF NoneLive, EnclosingIsKnown
<1>9. OnlyTopLands'
  BY <1>1, <1>3 DEF HandlerInv, OnlyTopLands, depth
<1>10. QED
  BY <1>6, <1>7, <1>8, <1>9 DEF HandlerInv

(* Taking the innermost frame off, when it is no longer live or when the   *)
(* enclosing handler takes over.                                           *)
LEMMA PopFrame ==
  ASSUME IInv, depth > 0, frames' = SubSeq(frames, 1, depth - 1),
         top.phase \notin {"landed"},
         /\ valid' => /\ ctx' \in 1..(depth - 1) /\ LiveAt(ctx')
                      /\ NoneLive(ctx' + 1, depth - 1)
         /\ ~valid' => NoneLive(1, depth - 1)
  PROVE  HandlerInv' /\ frames' \in Seq(Frame) /\ Len(frames') <= MaxFrames
<1> USE DEF IInv
<1>1. depth \in Nat /\ depth = Len(frames) /\ depth - 1 \in 0..Len(frames)
  BY DEF ExcTypeOK, depth
<1>2. PrefixOf(frames, frames', depth - 1)
  BY <1>1, CutFrames DEF ExcTypeOK
<1>3. Len(frames') = depth - 1 /\ \A i \in 1..(depth - 1) : frames'[i] = frames[i]
  BY <1>2 DEF PrefixOf
<1>4. \A i \in 1..(depth - 1) : LiveAt(i)' <=> LiveAt(i)
  BY <1>3 DEF LiveAt
<1>5. CtxIsInnermost'
  <2>1. CASE valid'
    <3>1. PICK c \in 1..(depth - 1) :
            c = ctx' /\ LiveAt(c) /\ NoneLive(c + 1, depth - 1)
      BY <2>1
    <3>2. /\ frames'[c].phase \in {"exec", "landed"}
          /\ \A j \in (c + 1)..(depth - 1) : frames'[j].phase \notin {"exec", "landed"}
      <4>1. frames[c].phase \in {"exec", "landed"}
        BY <3>1 DEF LiveAt
      <4>2. ASSUME NEW j \in (c + 1)..(depth - 1)
            PROVE  j \in 1..(depth - 1) /\ frames[j].phase \notin {"exec", "landed"}
        <5>1. ~LiveAt(j)
          BY <3>1 DEF NoneLive
        <5>2. QED
          BY <1>1, <5>1 DEF LiveAt
      <4>3. QED
        BY <4>1, <4>2, <1>4 DEF LiveAt
    <3>3. QED
      BY <1>3, <2>1, <3>1, <3>2 DEF CtxIsInnermost, NoneLive, LiveAt, depth
  <2>2. CASE ~valid'
    <3>1. \A j \in 1..(depth - 1) : ~LiveAt(j)'
      BY <1>4, <2>2 DEF NoneLive
    <3>2. QED
      BY <1>3, <2>2, <3>1 DEF CtxIsInnermost, NoneLive, LiveAt, depth
  <2>3. QED
    BY <2>1, <2>2
<1>6. OldIsEnclosing'
  <2> SUFFICES ASSUME NEW i \in 1..(depth - 1)
               PROVE  EnclosingIsKnown(i)'
    BY <1>3 DEF OldIsEnclosing, depth
  <2>1. EnclosingIsKnown(i)
    BY <1>1 DEF HandlerInv, OldIsEnclosing
  <2>2. \A j \in 1..i : frames'[j] = frames[j]
    BY <1>1, <1>3
  <2>3. frames'[i] = frames[i]
    BY <1>1, <2>2
  <2>4. \A j \in 1..(i - 1) : LiveAt(j)' <=> LiveAt(j)
    BY <1>1, <1>4
  <2>5. CASE frames[i].nested
    <3>1. PICK o \in 1..(i - 1) :
            o = frames[i].old /\ LiveAt(o) /\ NoneLive(o + 1, i - 1)
      BY <2>1, <2>5 DEF EnclosingIsKnown
    <3>2. frames'[o].phase \in {"exec", "landed"}
      BY <2>4, <3>1 DEF LiveAt
    <3>3. ASSUME NEW j \in (o + 1)..(i - 1)
          PROVE  frames'[j].phase \notin {"exec", "landed"}
      <4>1. ~LiveAt(j) /\ j \in 1..(i - 1)
        BY <3>1 DEF NoneLive
      <4>2. QED
        BY <2>4, <4>1 DEF LiveAt
    <3>4. QED
      BY <2>3, <2>5, <3>1, <3>2, <3>3 DEF EnclosingIsKnown, NoneLive, LiveAt
  <2>6. CASE ~frames[i].nested
    <3>1. \A j \in 1..(i - 1) : ~LiveAt(j)'
      BY <2>1, <2>4, <2>6 DEF EnclosingIsKnown, NoneLive
    <3>2. QED
      BY <2>3, <2>6, <3>1 DEF EnclosingIsKnown, NoneLive, LiveAt
  <2>7. QED
    BY <2>5, <2>6
<1>7. OnlyTopLands'
  BY <1>1, <1>3 DEF HandlerInv, OnlyTopLands, depth
<1>8. Len(frames') <= MaxFrames
  BY <1>1, <1>3, MaxFramesAssumption DEF ExcTypeOK
<1>9. QED
  BY <1>2, <1>5, <1>6, <1>7, <1>8 DEF PrefixOf, HandlerInv

(* Returning after a throw was handled: the frame was not live any more.   *)
LEMMA ReturnFiredIInv == ASSUME IInv, ReturnFired PROVE IInv'
<1> USE DEF IInv
<1>1. depth \in Nat /\ depth > 0 /\ ~LiveAt(depth) /\ top \in Frame
  BY ElementOfSeq DEF ReturnFired, ExcTypeOK, depth, LiveAt, top
<1>2. /\ valid => /\ ctx \in 1..(depth - 1) /\ LiveAt(ctx)
                  /\ NoneLive(ctx + 1, depth - 1)
      /\ ~valid => NoneLive(1, depth - 1)
  BY <1>1 DEF HandlerInv, CtxIsInnermost, NoneLive, ExcTypeOK
<1>3. HandlerInv' /\ frames' \in Seq(Frame) /\ Len(frames') <= MaxFrames
  BY <1>1, <1>2, PopFrame DEF ReturnFired, LiveAt
<1>4. QED
  BY <1>1, <1>3 DEF ReturnFired, Called, PutBackCode, ExcTypeOK, Frame, machineVars

(* Returning without a throw.                                              *)
LEMMA ReturnNormallyIInv == ASSUME IInv, ReturnNormally PROVE IInv'
<1> USE DEF IInv
<1>1. depth \in Nat /\ depth > 0 /\ LiveAt(depth) /\ top \in Frame
  BY ElementOfSeq DEF ReturnNormally, ExcTypeOK, depth, LiveAt, top
<1>2. /\ valid' => /\ ctx' \in 1..(depth - 1) /\ LiveAt(ctx')
                   /\ NoneLive(ctx' + 1, depth - 1)
      /\ ~valid' => NoneLive(1, depth - 1)
      /\ ctx' \in Nat /\ valid' \in BOOLEAN
  BY <1>1, EnclosingTakesOver DEF ReturnNormally
<1>3. HandlerInv' /\ frames' \in Seq(Frame) /\ Len(frames') <= MaxFrames
  BY <1>1, <1>2, PopFrame DEF ReturnNormally
<1>4. QED
  BY <1>1, <1>2, <1>3 DEF ReturnNormally, PutBackCode, ExcTypeOK, Frame, machineVars

(* Code that uses no handler operation, but moves the machine.             *)
LEMMA MachineIInv ==
  ASSUME IInv, UNCHANGED handlerVars,
         sp' \in Cell, rp' \in Cell, tr0' \in Cell, src' \in InputSource
  PROVE  IInv'
BY DEF IInv, ExcTypeOK, HandlerInv, CtxIsInnermost, OldIsEnclosing,
   EnclosingIsKnown, OnlyTopLands, NoneLive, LiveAt, depth, handlerVars

-----------------------------------------------------------------------------
(* What happens to the frames in a step.                                   *)
Jumped(c) ==
  /\ c \in 1..depth /\ CutTo(frames, frames', c, "landed")
  /\ depth' = c

\* The innermost frame is taken off, putting back the code it saved.
Popped ==
  /\ depth > 0 /\ depth' = depth - 1
  /\ \A i \in 1..(depth - 1) : frames'[i] = frames[i]
  /\ code' = frames[depth].e

\* A frame is added, saving the code and the source.
Grown ==
  /\ Running /\ depth' = depth + 1
  /\ \A i \in 1..depth : frames'[i] = frames[i]
  /\ frames'[depth + 1].e = code /\ frames'[depth + 1].phase = "exec"
  /\ frames'[depth + 1].src = src
  /\ UNCHANGED <<code, then>>

\* The innermost frame has landed and puts the source back.
Restored ==
  /\ depth > 0 /\ depth' = depth
  /\ frames[depth].phase = "landed"
  /\ (frames[depth].nested => ~Propagates)
  /\ \A i \in 1..depth :
       /\ frames'[i].phase = IF i = depth THEN AfterLanding ELSE frames[i].phase
       /\ frames'[i].nested = frames[i].nested
       /\ frames'[i].e = frames[i].e
       /\ frames'[i].src = frames[i].src
  /\ src' = frames[depth].src
  /\ UNCHANGED <<code, then>>

(* A longjmp goes to one of the frames.                                    *)
LEMMA LongjmpIsJump ==
  ASSUME IInv, NEW c \in 1..depth, LongjmpTo(c)
  PROVE  Jumped(c)
<1>1. frames \in Seq(Frame) /\ c \in 1..Len(frames)
  BY DEF IInv, ExcTypeOK, depth
<1>2. CutTo(frames, frames', c, "landed")
  BY <1>1, LongjmpCuts
<1>3. QED
  BY <1>2 DEF Jumped, CutTo, depth

(* Setting up a handler.                                                   *)
LEMMA CatchGrows == ASSUME IInv, Catch PROVE Grown
<1> DEFINE new == [phase |-> "exec", nested |-> valid, old |-> Enclosing,
                   sp |-> sp, rp |-> rp, tr0 |-> tr0, src |-> src, e |-> code]
<1>1. new.e = code /\ new.phase = "exec" /\ new.src = src
  OBVIOUS
<1> HIDE DEF new
<1>2. frames' = Append(frames, new) /\ UNCHANGED <<code, then>> /\ Running
  BY DEF Catch, new
<1>3. QED
  BY <1>1, <1>2 DEF Grown, depth, IInv, ExcTypeOK

(* Throwing.                                                               *)
LEMMA ThrowJumps ==
  ASSUME IInv, NEW e, NEW th, ThrowThen(e, th)
  PROVE  /\ ctx \in 1..depth /\ Jumped(ctx) /\ LiveAt(ctx)
         /\ code' = e /\ then' = th
<1>1. ctx \in 1..depth /\ LongjmpTo(ctx) /\ LiveAt(ctx) /\ code' = e /\ then' = th
  BY DEF ThrowThen, IInv, HandlerInv, CtxIsInnermost
<1>2. QED
  BY <1>1, LongjmpIsJump

(* Throwing QUIT and BYE on.                                               *)
LEMMA RethrowJumps ==
  ASSUME IInv, Rethrow
  PROVE  /\ top.old \in 1..(depth - 1) /\ Jumped(top.old)
         /\ code' = code /\ then' = NoCallback
<1>1. depth \in Nat /\ depth > 0 /\ depth = Len(frames)
  BY DEF Rethrow, IInv, ExcTypeOK, depth
<1>2. frames[depth].old \in 1..(depth - 1) /\ LongjmpTo(frames[depth].old)
  BY <1>1 DEF Rethrow, top, IInv, HandlerInv, OldIsEnclosing, EnclosingIsKnown
<1>3. frames[depth].old \in 1..depth
  BY <1>1, <1>2
<1>4. Jumped(frames[depth].old)
  BY <1>2, <1>3, LongjmpIsJump
<1>5. QED
  BY <1>2, <1>4 DEF Rethrow, top

(* Putting the machine back.                                               *)
LEMMA RestoreRestores == ASSUME IInv, Restore PROVE Restored
<1>1. depth \in Nat /\ depth > 0 /\ depth = Len(frames) /\ frames \in Seq(Frame)
  BY DEF Restore, IInv, ExcTypeOK, depth
<1>2. /\ AfterLanding \in Phase /\ depth \in 1..Len(frames)
      /\ frames' = [frames EXCEPT ![depth].phase = AfterLanding]
  BY <1>1 DEF Restore, AfterLanding, Phase
<1>3. src' = frames[depth].src
  BY DEF Restore, RestoreMachine, top
<1>4. QED
  BY <1>1, <1>2, <1>3, PhaseChange DEF Restored, Restore, depth, top

(* Returning.                                                              *)
LEMMA ReturnPops ==
  ASSUME IInv, ReturnFired \/ ReturnNormally
  PROVE  Popped /\ result' = code /\ UNCHANGED machineVars
<1>1. depth \in Nat /\ depth = Len(frames) /\ frames \in Seq(Frame)
  BY DEF IInv, ExcTypeOK, depth
<1>2. /\ depth > 0 /\ depth - 1 \in 0..Len(frames) /\ code' = frames[depth].e
      /\ frames' = SubSeq(frames, 1, depth - 1)
      /\ result' = code /\ UNCHANGED machineVars
  BY <1>1 DEF ReturnFired, ReturnNormally, PutBackCode, top
<1>3. PrefixOf(frames, frames', depth - 1)
  BY <1>1, <1>2, CutFrames
<1>4. QED
  BY <1>2, <1>3 DEF Popped, PrefixOf, depth

=============================================================================
