-------------------------- MODULE EvaluationProofs --------------------------
(***************************************************************************)
(* Whoever evaluates reads its own input, no line is read over, and file   *)
(* input buffers and handles are lost only when a jump skips the function  *)
(* that holds them: for any nesting of files, strings and handlers, any    *)
(* number of buffers and handles and any exceptions.                       *)
(***************************************************************************)
EXTENDS Evaluation, ExceptionsProofs, WellFoundedInduction, FiniteSetTheorems, TLAPS

\* Where an activation stands when it has no handler of its own around it.
Outside == {"reset", "ready", "closed"}

(* How the activations lie between the frames: each above the one that     *)
(* called it, and none of them above a frame that has been thrown to.  One *)
(* that called another is executing a word.                                *)
ActsAreNested ==
  /\ \A i \in 1..nActs : acts[i].depth <= depth
  /\ \A i, j \in 1..nActs : i < j => acts[i].depth <= acts[j].depth
  /\ \A i \in 1..nActs : i # nActs => acts[i].step \in {"loop", "word"}
  /\ \A i \in 1..nActs : acts[i].kind = "quit" => i = 1
  /\ \A i \in 1..nActs : acts[i].step \in Outside => acts[i].depth = depth
  /\ \A i \in 1..nActs : acts[i].step \in {"refill", "refilled"} => acts[i].caught
  /\ (depth > 0 /\ top.phase # "exec") => \A i \in 1..nActs : acts[i].depth < depth

(* Evaluating uses no callbacks.                                           *)
NoCallbacks == then = NoCallback /\ \A i \in 1..depth : frames[i].phase # "callback"

\* Activation a may be reading from source s.
Owns(a, s) ==
  /\ a.kind = "string" => s.buf = Str /\ s.sid = SID_STR
  /\ (a.kind = "quit" /\ a.step # "reset") => s.buf = Tib /\ s.sid = SID_UID
  /\ (a.kind = "file" /\ a.step # "closed") => s.buf = a.slot /\ s.sid = a.fd

\* Frame j was set up by what activation i executes.
SetUpBy(i, j) == acts[i].depth < j /\ (i = nActs \/ j <= acts[i + 1].depth)

(* Not only task->io_src, but each source that a handler or an evaluation  *)
(* has saved belongs to the activation that will be executing again when   *)
(* it is put back.                                                         *)
SourcesAreOwn ==
  /\ \A i \in 1..nActs, j \in 1..depth : SetUpBy(i, j) => Owns(acts[i], frames[j].src)
  /\ \A i \in 1..nActs : i # nActs => Owns(acts[i], acts[i + 1].old)
  /\ (nActs > 0 /\ (depth > 0 => top.phase # "landed")) => Owns(act, src)
  /\ (nActs > 1 /\ act.step = "closed") => Owns(acts[nActs - 1], src)

(* Buffers are taken in turn.                                              *)
BuffersAreStacked ==
  \A i, j \in Files : i < j => acts[i].slot < acts[j].slot

(* The inductive invariant.                                                *)
Inductive ==
  /\ IInv /\ EvalTypeOK /\ ActsAreNested /\ NoCallbacks /\ SourcesAreOwn
  /\ LinesAreSafe /\ BuffersAreStacked

-----------------------------------------------------------------------------
(* What the activations are, from the invariant.                           *)
LEMMA ActsAre ==
  ASSUME Inductive
  PROVE  /\ nActs \in Nat /\ depth \in Nat /\ nActs = Len(acts) /\ acts \in Seq(Activation)
         /\ \A i \in 1..nActs : acts[i] \in Activation /\ acts[i].depth \in Nat
         /\ nActs > 0 => nActs \in 1..nActs /\ act = acts[nActs]
<1>1. acts \in Seq(Activation) /\ frames \in Seq(Frame)
  BY DEF Inductive, EvalTypeOK, ExcTypeOK
<1>2. nActs \in Nat /\ depth \in Nat /\ nActs = Len(acts)
  BY <1>1 DEF nActs, depth
<1>3. \A i \in 1..nActs : acts[i] \in Activation
  BY <1>1, <1>2, ElementOfSeq
<1>4. \A a \in Activation : a.depth \in Nat
  BY MaxFramesAssumption DEF Activation
<1> QED BY <1>1, <1>2, <1>3, <1>4 DEF act

(* What stays of an activation while it does not return.                   *)
Same(a, b) ==
  a.kind = b.kind /\ a.depth = b.depth /\ a.slot = b.slot /\ a.fd = b.fd /\ a.old = b.old

(* The activations up to the n-th go on, and only the n-th may have been   *)
(* executing.                                                              *)
GoOn(n) ==
  /\ acts' \in Seq(Activation) /\ n \in 0..nActs /\ n <= nActs'
  /\ \A i \in 1..n : Same(acts'[i], acts[i]) /\ (i # n => acts'[i] = acts[i])

\* The activations are the same ones.
Kept == GoOn(nActs) /\ nActs' = nActs

(* The next activation is a.                                               *)
Pushed(a) ==
  /\ GoOn(nActs) /\ nActs' = nActs + 1 /\ acts'[nActs + 1] = a
  /\ nActs > 0 => acts'[nActs].step \in {"loop", "word"}

(* The activations after the m-th are over.                                *)
CutAt(m) ==
  /\ acts' \in Seq(Activation) /\ m \in 0..nActs /\ nActs' = m
  /\ \A i \in 1..m : acts'[i] = acts[i]

(* They are when nothing changes.                                          *)
LEMMA UnchangedIsKept ==
  ASSUME Inductive, UNCHANGED acts
  PROVE  Kept
BY ActsAre DEF Kept, GoOn, Same, nActs

(* The innermost activation goes on.                                       *)
LEMMA SetActIsKept ==
  ASSUME Inductive, nActs > 0, NEW a \in Activation, Same(a, act), SetAct(a)
  PROVE  Kept /\ acts'[nActs] = a
<1>1. /\ acts \in Seq(Activation) /\ nActs \in 1..Len(acts) /\ nActs = Len(acts)
      /\ acts' = [acts EXCEPT ![nActs] = a] /\ act = acts[nActs]
  BY ActsAre DEF SetAct
<1>2. /\ acts' \in Seq(Activation) /\ Len(acts') = Len(acts) /\ acts'[nActs] = a
      /\ \A i \in 1..nActs : i # nActs => acts'[i] = acts[i]
  BY <1>1, ExceptSeq
<1>3. \A i \in 1..nActs : Same(acts'[i], acts[i])
  BY <1>1, <1>2 DEF Same
<1>4. Len(acts') = nActs /\ nActs \in 0..nActs /\ nActs <= nActs
  BY <1>1, <1>2
<1> QED BY <1>2, <1>3, <1>4 DEF Kept, GoOn, nActs

(* Its step is another one.                                                *)
LEMMA GotoIsKept ==
  ASSUME Inductive, nActs > 0,
         NEW s \in {"reset", "ready", "refill", "refilled", "loop", "word", "closed"},
         Goto(s)
  PROVE  /\ Kept /\ acts'[nActs].step = s /\ acts'[nActs].caught = act.caught
         /\ acts'[nActs] = [act EXCEPT !.step = s]
<1> DEFINE a == [act EXCEPT !.step = s]
<1>1. act \in Activation
  BY ActsAre
<1>2. a \in Activation /\ Same(a, act) /\ a.step = s /\ a.caught = act.caught
  BY <1>1 DEF Activation, Same
<1>3. SetAct(a)
  BY DEF Goto
<1> HIDE DEF a
<1>4. Kept /\ acts'[nActs] = a
  BY <1>2, <1>3, SetActIsKept
<1> QED BY <1>2, <1>4 DEF a

(* A word returns to the loop, or to the word that called it.              *)
LEMMA NextWordIs ==
  ASSUME Inductive, Executing
  PROVE  /\ NextWord \in Seq(Activation) /\ Len(NextWord) = nActs /\ nActs > 0
         /\ \A i \in 1..nActs : /\ Same(NextWord[i], acts[i])
                                /\ i # nActs => NextWord[i] = acts[i]
         /\ NextWord[nActs].step \in {"loop", "word"}
         /\ NextWord[nActs].caught = act.caught
<1>1. /\ acts \in Seq(Activation) /\ nActs \in 1..Len(acts) /\ nActs = Len(acts)
      /\ act = acts[nActs] /\ act \in Activation /\ nActs > 0
      /\ act.step \in {"loop", "word"}
  BY ActsAre DEF Executing
<1>2. CASE depth = base
  <2> DEFINE a == [act EXCEPT !.step = "loop"]
  <2>1. a \in Activation /\ Same(a, act) /\ a.step = "loop" /\ a.caught = act.caught
    BY <1>1 DEF Activation, Same
  <2>2. NextWord = [acts EXCEPT ![nActs] = a]
    BY <1>1, <1>2 DEF NextWord, act
  <2> HIDE DEF a
  <2>3. /\ NextWord \in Seq(Activation) /\ Len(NextWord) = nActs
        /\ NextWord[nActs] = a
        /\ \A i \in 1..nActs : i # nActs => NextWord[i] = acts[i]
    BY <1>1, <2>1, <2>2, ExceptSeq
  <2>4. \A i \in 1..nActs : Same(NextWord[i], acts[i])
    BY <1>1, <2>1, <2>3 DEF Same
  <2> QED BY <1>1, <2>1, <2>3, <2>4
<1>3. CASE depth # base
  BY <1>1, <1>3 DEF NextWord, Same
<1> QED BY <1>2, <1>3

(* They are when a word returns.                                           *)
LEMMA NextWordIsKept ==
  ASSUME Inductive, Executing, acts' = NextWord
  PROVE  /\ Kept /\ acts'[nActs].step \in {"loop", "word"}
         /\ acts'[nActs].caught = act.caught
BY ActsAre, NextWordIs DEF Kept, GoOn, nActs

(* A function is called from outside, or by a word.                        *)
LEMMA PushIsPushed ==
  ASSUME Inductive, NEW s, NEW a \in Activation,
         \/ nActs = 0 /\ s = acts
         \/ Executing /\ s = NextWord,
         acts' = Append(s, a)
  PROVE  Pushed(a)
<1>1. acts \in Seq(Activation) /\ nActs = Len(acts) /\ nActs \in Nat
  BY ActsAre
<1>2. /\ s \in Seq(Activation) /\ Len(s) = nActs
      /\ \A i \in 1..nActs : Same(s[i], acts[i]) /\ (i # nActs => s[i] = acts[i])
      /\ nActs > 0 => s[nActs].step \in {"loop", "word"}
  BY <1>1, NextWordIs
<1>3. /\ acts' \in Seq(Activation) /\ Len(acts') = nActs + 1
      /\ \A i \in 1..nActs : acts'[i] = s[i]
      /\ acts'[nActs + 1] = a
  BY <1>1, <1>2, AppendProperties
<1>4. nActs > 0 => nActs \in 1..nActs
  BY <1>1
<1> QED BY <1>1, <1>2, <1>3, <1>4 DEF Pushed, GoOn, nActs

(* A function returns.                                                     *)
LEMMA PopIsCut ==
  ASSUME Inductive, nActs > 0, Pop
  PROVE  CutAt(nActs - 1)
<1>1. acts \in Seq(Activation) /\ nActs = Len(acts) /\ nActs \in Nat /\ nActs - 1 \in 0..Len(acts)
  BY ActsAre
<1>2. /\ acts' \in Seq(Activation) /\ Len(acts') = nActs - 1
      /\ \A i \in 1..nActs - 1 : acts'[i] = acts[i]
  BY <1>1, SubSeqProperties DEF Pop
<1> QED BY <1>1, <1>2 DEF CutAt, nActs

(* A set of numbers has a least one.                                       *)
LEMMA LeastIsThere ==
  ASSUME NEW R, R \subseteq Nat, R # {}
  PROVE  \E r \in R : \A i \in R : r <= i
<1> DEFINE less == OpToRel(<, Nat)
<1>1. IsWellFoundedOn(less, Nat)
  BY NatLessThanWellFounded
<1>2. \A i, j \in Nat : i < j => <<i, j>> \in less
  BY DEF OpToRel
<1> HIDE DEF less
<1>3. PICK r \in R : \A i \in R : ~(<<i, r>> \in less)
  BY <1>1, WFMin
<1>4. \A i \in R : r <= i
  <2> TAKE i \in R
  <2>1. r \in Nat /\ i \in Nat /\ ~(i < r)
    BY <1>2, <1>3
  <2> QED BY <2>1
<1> QED BY <1>4

(* A longjmp to frame c drops the activations above that frame.            *)
LEMMA CutActsIsCut ==
  ASSUME Inductive, NEW c \in Nat, CutActs(c)
  PROVE  \E m \in 0..nActs : /\ CutAt(m)
                             /\ \A i \in 1..m : acts[i].depth < c
                             /\ \A i \in m + 1 .. nActs : acts[i].depth >= c
<1>1. /\ acts \in Seq(Activation) /\ nActs \in Nat /\ nActs = Len(acts)
      /\ \A i \in 1..nActs : acts[i] \in Activation /\ acts[i].depth \in Nat
  BY ActsAre
<1> DEFINE S == {i \in 1..nActs : acts[i].depth < c}
<1>2. \E m \in 0..nActs : S = 1..m
  <2>1. CASE \A i \in 1..nActs : acts[i].depth < c
    BY <1>1, <2>1
  <2>2. CASE ~\A i \in 1..nActs : acts[i].depth < c
    <3> DEFINE R == {i \in 1..nActs : ~(acts[i].depth < c)}
    <3>1. \E r \in R : \A i \in R : r <= i
      <4>1. R \subseteq Nat /\ R # {}
        BY <1>1, <2>2
      <4> QED BY <4>1, LeastIsThere
    <3>2. PICK r \in R : \A i \in R : r <= i
      BY <3>1
    <3>3. r \in 1..nActs /\ acts[r].depth >= c
      BY <1>1, <3>2
    <3>4. ASSUME NEW i \in 1..r - 1 PROVE i \in S
      BY <1>1, <3>2, <3>3
    <3>5. ASSUME NEW i \in S PROVE i \in 1..r - 1
      <4>1. i \in 1..nActs /\ acts[i].depth < c /\ acts[i].depth \in Nat /\ acts[r].depth \in Nat
        BY <1>1, <3>3
      <4>2. ~(r < i)
        BY <3>3, <4>1 DEF Inductive, ActsAreNested
      <4>3. r # i
        BY <3>3, <4>1
      <4> QED BY <1>1, <3>3, <4>1, <4>2, <4>3
    <3>6. r - 1 \in 0..nActs
      BY <1>1, <3>3
    <3> QED BY <3>4, <3>5, <3>6
  <2> QED BY <2>1, <2>2
<1>3. PICK m \in 0..nActs : S = 1..m
  BY <1>2
<1>4. acts' = [i \in 1..m |-> acts[i]]
  BY <1>3 DEF CutActs
<1>5. /\ acts' \in Seq(Activation) /\ Len(acts') = m
      /\ \A i \in 1..m : acts'[i] = acts[i]
  <2>1. \A i \in 1..m : i \in 1..nActs
    BY <1>1, <1>3
  <2> QED BY <1>1, <1>4, <2>1
<1>6. \A i \in 1..m : acts[i].depth < c
  BY <1>3
<1>7. ASSUME NEW i \in m + 1 .. nActs PROVE acts[i].depth >= c
  <2>1. i \in 1..nActs /\ i \notin 1..m
    BY <1>1, <1>3
  <2>2. ~(acts[i].depth < c)
    BY <1>3, <2>1
  <2> QED BY <1>1, <2>1, <2>2
<1> QED BY <1>5, <1>6, <1>7 DEF CutAt, nActs

-----------------------------------------------------------------------------
(* The next state's activations, from those that go on.                    *)
LEMMA ActsAfter ==
  ASSUME Inductive, acts' \in Seq(Activation)
  PROVE  nActs' \in Nat /\ (nActs' > 0 => act' = acts'[nActs'] /\ nActs' \in 1..nActs')
BY DEF nActs, act

\* Frame j of the next state was saved by code of the same activation.
LEMMA SameOwns ==
  ASSUME NEW a, NEW b, Same(b, a), a.step \notin {"reset", "closed"}, NEW s, Owns(a, s)
  PROVE  Owns(b, s)
BY DEF Same, Owns

(* Once an activation is back from whatever it executes.                   *)
StepFits ==
  nActs' > 0 => /\ act'.step \in Outside => act'.depth = depth'
                /\ act'.step \in {"refill", "refilled"} => act'.caught

\* Activations read their own sources afterwards.
SourceFits ==
  /\ (nActs' > 0 /\ (depth' > 0 => top'.phase # "landed")) => Owns(act', src')
  /\ (nActs' > 1 /\ act'.step = "closed") => Owns(acts'[nActs' - 1], src')

(* The same activations with the same frames.                              *)
LEMMA KeptKeeps ==
  ASSUME Inductive, Kept, UNCHANGED frames, StepFits, SourceFits
  PROVE  ActsAreNested' /\ SourcesAreOwn'
<1>1. /\ nActs \in Nat /\ nActs' = nActs /\ depth' = depth /\ depth \in Nat
      /\ top' = top
      /\ \A i \in 1..nActs : Same(acts'[i], acts[i]) /\ (i # nActs => acts'[i] = acts[i])
      /\ nActs > 0 => nActs \in 1..nActs /\ act = acts[nActs] /\ act' = acts'[nActs]
  BY ActsAre, ActsAfter DEF Kept, GoOn, depth, top
<1>2. \A i \in 1..nActs : acts'[i].depth = acts[i].depth /\ acts'[i].kind = acts[i].kind
  BY <1>1 DEF Same
<1>3. ActsAreNested'
  <2>1. /\ \A i \in 1..nActs : acts'[i].depth <= depth
        /\ \A i, j \in 1..nActs : i < j => acts'[i].depth <= acts'[j].depth
        /\ \A i \in 1..nActs : acts'[i].kind = "quit" => i = 1
        /\ (depth > 0 /\ top.phase # "exec") => \A i \in 1..nActs : acts'[i].depth < depth
    BY <1>2 DEF Inductive, ActsAreNested
  <2>2. /\ \A i \in 1..nActs : i # nActs => acts'[i].step \in {"loop", "word"}
    BY <1>1 DEF Inductive, ActsAreNested
  <2>3. \A i \in 1..nActs : /\ acts'[i].step \in Outside => acts'[i].depth = depth
                            /\ acts'[i].step \in {"refill", "refilled"} => acts'[i].caught
    <3> TAKE i \in 1..nActs
    <3>1. CASE i = nActs
      BY <1>1, <3>1 DEF StepFits
    <3>2. CASE i # nActs
      BY <1>1, <3>2 DEF Inductive, ActsAreNested
    <3> QED BY <3>1, <3>2
  <2> QED BY <1>1, <2>1, <2>2, <2>3 DEF ActsAreNested
<1>4. ASSUME NEW i \in 1..nActs, NEW j \in 1..depth, SetUpBy(i, j)'
      PROVE  Owns(acts'[i], frames'[j].src)
  <2>1. SetUpBy(i, j)
    <3>1. CASE i = nActs
      BY <1>1, <1>2, <1>4, <3>1 DEF SetUpBy
    <3>2. CASE i # nActs
      <4>1. i + 1 \in 1..nActs
        BY <1>1, <3>2
      <4> QED BY <1>1, <1>2, <1>4, <3>2, <4>1 DEF SetUpBy
    <3> QED BY <3>1, <3>2
  <2>2. Owns(acts[i], frames[j].src)
    BY <2>1 DEF Inductive, SourcesAreOwn
  <2>3. acts[i].step \notin {"reset", "closed"}
    <3>1. acts[i].depth < j /\ j <= depth /\ acts[i].depth \in Nat
      BY <2>1, ActsAre DEF SetUpBy
    <3>2. acts[i].depth # depth
      BY <1>1, <3>1
    <3> QED BY <3>2 DEF Inductive, ActsAreNested, Outside
  <2> QED BY <1>1, <2>2, <2>3, SameOwns
<1>5. ASSUME NEW i \in 1..nActs, i # nActs PROVE Owns(acts'[i], acts'[i + 1].old)
  <2>1. i + 1 \in 1..nActs
    BY <1>1, <1>5
  <2>2. acts'[i] = acts[i] /\ acts'[i + 1].old = acts[i + 1].old
    BY <1>1, <1>5, <2>1 DEF Same
  <2> QED BY <1>5, <2>2 DEF Inductive, SourcesAreOwn
<1>6. SourcesAreOwn'
  BY <1>1, <1>4, <1>5 DEF SourcesAreOwn, SourceFits
<1> QED BY <1>3, <1>6

(* A handler is set up by the innermost activation.                        *)
LEMMA GrownKeeps ==
  ASSUME Inductive, Kept, Grown, nActs > 0, UNCHANGED src,
         acts'[nActs].step \notin Outside, StepFits, SourceFits,
         Owns(acts'[nActs], src)
  PROVE  ActsAreNested' /\ SourcesAreOwn'
<1>1. /\ nActs \in Nat /\ nActs' = nActs /\ depth \in Nat /\ depth' = depth + 1
      /\ \A i \in 1..nActs : Same(acts'[i], acts[i]) /\ (i # nActs => acts'[i] = acts[i])
      /\ nActs \in 1..nActs /\ act = acts[nActs] /\ act' = acts'[nActs]
      /\ \A j \in 1..depth : frames'[j] = frames[j]
      /\ frames'[depth + 1].src = src /\ frames'[depth + 1].phase = "exec"
      /\ top'.phase = "exec"
      /\ \A i \in 1..nActs : acts[i].depth \in Nat /\ acts[i].depth <= depth
  BY ActsAre, ActsAfter DEF Kept, GoOn, Grown, top, Inductive, ActsAreNested
<1>2. \A i \in 1..nActs : acts'[i].depth = acts[i].depth /\ acts'[i].kind = acts[i].kind
  BY <1>1 DEF Same
<1>3. ActsAreNested'
  <2>1. \A i \in 1..nActs : acts'[i].depth <= depth + 1
    BY <1>1, <1>2
  <2>2. /\ \A i, j \in 1..nActs : i < j => acts'[i].depth <= acts'[j].depth
        /\ \A i \in 1..nActs : acts'[i].kind = "quit" => i = 1
    BY <1>2 DEF Inductive, ActsAreNested
  <2>3. \A i \in 1..nActs : i # nActs => acts'[i].step \in {"loop", "word"}
    BY <1>1 DEF Inductive, ActsAreNested
  <2>4. \A i \in 1..nActs : /\ acts'[i].step \notin Outside
                            /\ acts'[i].step \in {"refill", "refilled"} => acts'[i].caught
    <3> TAKE i \in 1..nActs
    <3>1. CASE i = nActs
      BY <1>1, <3>1 DEF StepFits
    <3>2. CASE i # nActs
      BY <2>3, <3>2 DEF Outside
    <3> QED BY <3>1, <3>2
  <2> QED BY <1>1, <2>1, <2>2, <2>3, <2>4 DEF ActsAreNested
<1>4. ASSUME NEW i \in 1..nActs, NEW j \in 1..depth + 1, SetUpBy(i, j)'
      PROVE  Owns(acts'[i], frames'[j].src)
  <2>1. CASE j \in 1..depth
    <3>1. SetUpBy(i, j)
      <4>1. CASE i = nActs
        BY <1>1, <1>2, <1>4, <4>1 DEF SetUpBy
      <4>2. CASE i # nActs
        <5>1. i + 1 \in 1..nActs
          BY <1>1, <4>2
        <5> QED BY <1>1, <1>2, <1>4, <4>2, <5>1 DEF SetUpBy
      <4> QED BY <4>1, <4>2
    <3>2. Owns(acts[i], frames[j].src) /\ frames'[j] = frames[j]
      BY <1>1, <2>1, <3>1 DEF Inductive, SourcesAreOwn
    <3>3. acts[i].step \notin {"reset", "closed"}
      <4>1. acts[i].depth < j /\ j <= depth /\ acts[i].depth \in Nat
        BY <1>1, <2>1, <3>1 DEF SetUpBy
      <4>2. acts[i].depth # depth
        BY <1>1, <2>1, <4>1
      <4> QED BY <4>2 DEF Inductive, ActsAreNested, Outside
    <3> QED BY <1>1, <3>2, <3>3, SameOwns
  <2>2. CASE j \notin 1..depth
    <3>1. j = depth + 1
      BY <1>1, <2>2
    <3>2. i = nActs
      <4> SUFFICES ASSUME i # nActs PROVE FALSE
        OBVIOUS
      <4>1. i + 1 \in 1..nActs
        BY <1>1
      <4>2. j <= acts[i + 1].depth
        BY <1>1, <1>2, <1>4, <4>1 DEF SetUpBy
      <4> QED BY <1>1, <3>1, <4>1, <4>2
    <3> QED BY <1>1, <3>1, <3>2
  <2> QED BY <2>1, <2>2
<1>5. ASSUME NEW i \in 1..nActs, i # nActs PROVE Owns(acts'[i], acts'[i + 1].old)
  <2>1. i + 1 \in 1..nActs
    BY <1>1, <1>5
  <2>2. acts'[i] = acts[i] /\ acts'[i + 1].old = acts[i + 1].old
    BY <1>1, <1>5, <2>1 DEF Same
  <2> QED BY <1>5, <2>2 DEF Inductive, SourcesAreOwn
<1>6. SourcesAreOwn'
  BY <1>1, <1>4, <1>5 DEF SourcesAreOwn, SourceFits
<1> QED BY <1>3, <1>6

(* A handler is left, without an exception or after it was dealt with.     *)
LEMMA PoppedKeeps ==
  ASSUME Inductive, IInv', NoCallbacks', Kept, Popped, UNCHANGED src, top.phase # "landed",
         \A i \in 1..nActs : acts[i].depth < depth,
         nActs > 0 => acts'[nActs].step \notin Outside /\ act.step \notin Outside,
         StepFits
  PROVE  ActsAreNested' /\ SourcesAreOwn'
<1>1. /\ nActs \in Nat /\ nActs' = nActs /\ depth \in Nat /\ depth' = depth - 1 /\ depth > 0
      /\ \A i \in 1..nActs : Same(acts'[i], acts[i]) /\ (i # nActs => acts'[i] = acts[i])
      /\ nActs > 0 => nActs \in 1..nActs /\ act = acts[nActs] /\ act' = acts'[nActs]
      /\ \A j \in 1..depth - 1 : frames'[j] = frames[j]
      /\ \A i \in 1..nActs : acts[i].depth \in Nat
  BY ActsAre, ActsAfter DEF Kept, GoOn, Popped
<1>2. \A i \in 1..nActs : acts'[i].depth = acts[i].depth /\ acts'[i].kind = acts[i].kind
  BY <1>1 DEF Same
<1>3. depth' > 0 => top'.phase = "exec"
  <2> SUFFICES ASSUME depth - 1 > 0 PROVE top'.phase = "exec"
    BY <1>1
  <2>1. depth - 1 \in 1..depth /\ depth - 1 \in 1..depth - 1 /\ depth - 1 # depth
    BY <1>1
  <2>2. frames[depth - 1] \in Frame
    BY <2>1, ElementOfSeq DEF Inductive, IInv, ExcTypeOK, depth
  <2>3. top' = frames[depth - 1]
    BY <1>1, <2>1 DEF top
  <2>4. frames[depth - 1].phase \notin {"landed", "fired", "callback"}
    BY <2>1 DEF Inductive, IInv, HandlerInv, OnlyTopLands, NoCallbacks
  <2> QED BY <2>2, <2>3, <2>4 DEF Frame, Phase
<1>4. ActsAreNested'
  <2>1. \A i \in 1..nActs : acts'[i].depth <= depth - 1
    BY <1>1, <1>2
  <2>2. /\ \A i, j \in 1..nActs : i < j => acts'[i].depth <= acts'[j].depth
        /\ \A i \in 1..nActs : acts'[i].kind = "quit" => i = 1
    BY <1>2 DEF Inductive, ActsAreNested
  <2>3. \A i \in 1..nActs : i # nActs => acts'[i].step \in {"loop", "word"}
    BY <1>1 DEF Inductive, ActsAreNested
  <2>4. \A i \in 1..nActs : /\ acts'[i].step \notin Outside
                            /\ acts'[i].step \in {"refill", "refilled"} => acts'[i].caught
    <3> TAKE i \in 1..nActs
    <3>1. CASE i = nActs
      BY <1>1, <3>1 DEF StepFits
    <3>2. CASE i # nActs
      BY <2>3, <3>2 DEF Outside
    <3> QED BY <3>1, <3>2
  <2> QED BY <1>1, <1>3, <2>1, <2>2, <2>3, <2>4 DEF ActsAreNested
<1>5. ASSUME NEW i \in 1..nActs, NEW j \in 1..depth - 1, SetUpBy(i, j)'
      PROVE  Owns(acts'[i], frames'[j].src)
  <2>0. j \in 1..depth
    BY <1>1
  <2>1. SetUpBy(i, j)
    <3>1. CASE i = nActs
      BY <1>1, <1>2, <1>5, <3>1 DEF SetUpBy
    <3>2. CASE i # nActs
      <4>1. i + 1 \in 1..nActs
        BY <1>1, <3>2
      <4> QED BY <1>1, <1>2, <1>5, <3>2, <4>1 DEF SetUpBy
    <3> QED BY <3>1, <3>2
  <2>2. Owns(acts[i], frames[j].src) /\ frames'[j] = frames[j]
    BY <1>1, <2>0, <2>1 DEF Inductive, SourcesAreOwn
  <2>3. acts[i].step \notin {"reset", "closed"}
    <3>1. CASE i = nActs
      BY <1>1, <3>1 DEF Outside
    <3>2. CASE i # nActs
      BY <3>2 DEF Inductive, ActsAreNested
    <3> QED BY <3>1, <3>2
  <2> QED BY <1>1, <2>2, <2>3, SameOwns
<1>6. ASSUME NEW i \in 1..nActs, i # nActs PROVE Owns(acts'[i], acts'[i + 1].old)
  <2>1. i + 1 \in 1..nActs
    BY <1>1, <1>6
  <2>2. acts'[i] = acts[i] /\ acts'[i + 1].old = acts[i + 1].old
    BY <1>1, <1>6, <2>1 DEF Same
  <2> QED BY <1>6, <2>2 DEF Inductive, SourcesAreOwn
<1>7. nActs > 0 => Owns(act', src') /\ act'.step # "closed"
  <2> SUFFICES ASSUME nActs > 0 PROVE Owns(act', src') /\ act'.step # "closed"
    OBVIOUS
  <2>1. Owns(act, src) /\ act.step \notin {"reset", "closed"} /\ Same(act', act)
    BY <1>1 DEF Inductive, SourcesAreOwn, Outside
  <2> QED BY <1>1, <2>1, SameOwns DEF Outside
<1>8. SourcesAreOwn'
  BY <1>1, <1>5, <1>6, <1>7 DEF SourcesAreOwn
<1> QED BY <1>4, <1>8

(* An exception skips the activations above the frame it lands in.         *)
LEMMA JumpedKeeps ==
  ASSUME Inductive, NEW c \in 1..depth, Jumped(c), NEW m \in 0..nActs, CutAt(m),
         \A i \in 1..m : acts[i].depth < c,
         \A i \in m + 1 .. nActs : acts[i].depth >= c
  PROVE  ActsAreNested' /\ SourcesAreOwn'
<1>1. /\ nActs \in Nat /\ depth \in Nat /\ depth' = c /\ nActs' = m /\ c > 0 /\ c <= depth
      /\ m <= nActs /\ m \in Nat
      /\ \A i \in 1..m : acts'[i] = acts[i] /\ i \in 1..nActs
      /\ \A j \in 1..c : frames'[j].src = frames[j].src /\ j \in 1..depth
      /\ top'.phase = "landed"
      /\ \A i \in 1..nActs : acts[i].depth \in Nat
  BY ActsAre DEF Jumped, CutTo, CutAt, top
<1>2. ActsAreNested'
  <2>1. \A i \in 1..m : acts'[i].depth < c /\ acts'[i].depth <= c
    BY <1>1
  <2>2. \A i \in 1..m : acts'[i].step \notin Outside
    <3> TAKE i \in 1..m
    <3>1. acts[i].depth # depth /\ i \in 1..nActs
      BY <1>1
    <3> QED BY <1>1, <3>1 DEF Inductive, ActsAreNested
  <2>3. /\ \A i, j \in 1..m : i < j => acts'[i].depth <= acts'[j].depth
        /\ \A i \in 1..m : acts'[i].kind = "quit" => i = 1
        /\ \A i \in 1..m : acts'[i].step \in {"refill", "refilled"} => acts'[i].caught
    BY <1>1 DEF Inductive, ActsAreNested
  <2>4. \A i \in 1..m : i # m => acts'[i].step \in {"loop", "word"}
    <3> TAKE i \in 1..m
    <3>1. i # m => i \in 1..nActs /\ i # nActs
      BY <1>1
    <3> QED BY <1>1, <3>1 DEF Inductive, ActsAreNested
  <2> QED BY <1>1, <2>1, <2>2, <2>3, <2>4 DEF ActsAreNested
<1>3. ASSUME NEW i \in 1..m, NEW j \in 1..c, SetUpBy(i, j)'
      PROVE  Owns(acts'[i], frames'[j].src)
  <2>1. SetUpBy(i, j)
    <3>1. CASE i = nActs
      BY <1>1, <1>3, <3>1 DEF SetUpBy
    <3>2. CASE i # nActs /\ i = m
      <4>1. i + 1 \in m + 1 .. nActs
        BY <1>1, <3>2
      <4>2. acts[i + 1].depth >= c /\ acts[i + 1].depth \in Nat
        BY <1>1, <4>1
      <4> QED BY <1>1, <1>3, <4>2 DEF SetUpBy
    <3>3. CASE i # m
      <4>1. i + 1 \in 1..m
        BY <1>1, <3>3
      <4> QED BY <1>1, <1>3, <3>3, <4>1 DEF SetUpBy
    <3> QED BY <3>1, <3>2, <3>3
  <2> QED BY <1>1, <2>1 DEF Inductive, SourcesAreOwn
<1>4. ASSUME NEW i \in 1..m, i # m PROVE Owns(acts'[i], acts'[i + 1].old)
  <2>1. i + 1 \in 1..m /\ i \in 1..nActs /\ i # nActs
    BY <1>1, <1>4
  <2> QED BY <1>1, <2>1 DEF Inductive, SourcesAreOwn
<1>5. m > 0 => act'.step # "closed"
  <2> SUFFICES ASSUME m > 0 PROVE act'.step # "closed"
    OBVIOUS
  <2>1. m \in 1..m /\ act' = acts'[m]
    BY <1>1 DEF act
  <2>2. acts[m].depth # depth /\ m \in 1..nActs /\ act' = acts[m]
    BY <1>1, <2>1
  <2> QED BY <2>2 DEF Inductive, ActsAreNested, Outside
<1>6. SourcesAreOwn'
  BY <1>1, <1>3, <1>4, <1>5 DEF SourcesAreOwn
<1> QED BY <1>2, <1>6

(* Another function is called.                                             *)
LEMMA PushedKeeps ==
  ASSUME Inductive, UNCHANGED frames, NEW a \in Activation, Pushed(a),
         depth > 0 => top.phase = "exec",
         a.depth = depth, a.kind = "quit" => nActs = 0, a.old = src,
         a.step \notin {"refill", "refilled", "closed"}, Owns(a, src'),
         nActs > 0 => act.step \notin {"reset", "closed"}
  PROVE  ActsAreNested' /\ SourcesAreOwn'
<1> DEFINE n == nActs + 1
<1>1. /\ nActs \in Nat /\ n \in Nat /\ n > 0 /\ nActs' = n /\ depth' = depth /\ depth \in Nat
      /\ \A i \in 1..nActs : Same(acts'[i], acts[i]) /\ (i # nActs => acts'[i] = acts[i])
      /\ acts'[n] = a /\ act' = a /\ top' = top
      /\ nActs > 0 => /\ nActs \in 1..nActs /\ act = acts[nActs]
                      /\ acts'[nActs].step \in {"loop", "word"}
      /\ \A i \in 1..n : i \notin 1..nActs => i = n
  BY ActsAre DEF Pushed, GoOn, depth, act, top
<1> HIDE DEF n
<1>2. /\ \A i \in 1..nActs : acts'[i].depth = acts[i].depth /\ acts'[i].kind = acts[i].kind
      /\ \A i \in 1..nActs : acts'[i].depth <= depth
  BY <1>1 DEF Same, Inductive, ActsAreNested
<1>3. \A i \in 1..nActs : acts'[i].step \in {"loop", "word"}
  <2> TAKE i \in 1..nActs
  <2>1. CASE i = nActs
    BY <1>1, <2>1
  <2>2. CASE i # nActs
    BY <1>1, <2>2 DEF Inductive, ActsAreNested
  <2> QED BY <2>1, <2>2
<1>4. ActsAreNested'
  <2>1. \A i \in 1..n : acts'[i].depth <= depth
    BY <1>1, <1>2
  <2>2. ASSUME NEW i \in 1..n, NEW j \in 1..n, i < j PROVE acts'[i].depth <= acts'[j].depth
    <3>1. i \in 1..nActs
      BY <1>1, <2>2 DEF n
    <3>2. CASE j \in 1..nActs
      BY <1>2, <2>2, <3>1, <3>2 DEF Inductive, ActsAreNested
    <3>3. CASE j \notin 1..nActs
      BY <1>1, <1>2, <3>1, <3>3
    <3> QED BY <3>2, <3>3
  <2>3. ASSUME NEW i \in 1..n
        PROVE  /\ i # n => acts'[i].step \in {"loop", "word"}
               /\ acts'[i].kind = "quit" => i = 1
               /\ acts'[i].step \in Outside => acts'[i].depth = depth
               /\ acts'[i].step \in {"refill", "refilled"} => acts'[i].caught
    <3>1. CASE i \in 1..nActs
      BY <1>2, <1>3, <3>1 DEF Inductive, ActsAreNested, Outside
    <3>2. CASE i \notin 1..nActs
      BY <1>1, <3>2 DEF n
    <3> QED BY <3>1, <3>2
  <2> QED BY <1>1, <2>1, <2>2, <2>3 DEF ActsAreNested
<1>5. ASSUME NEW i \in 1..n, NEW j \in 1..depth, SetUpBy(i, j)'
      PROVE  Owns(acts'[i], frames'[j].src)
  <2>1. acts'[i].depth < j /\ j <= depth
    BY <1>1, <1>5 DEF SetUpBy
  <2>2. i \in 1..nActs
    <3> SUFFICES ASSUME i = n PROVE FALSE
      BY <1>1
    <3> QED BY <1>1, <2>1
  <2>3. SetUpBy(i, j)
    <3>1. CASE i = nActs
      BY <1>2, <2>1, <2>2, <3>1 DEF SetUpBy
    <3>2. CASE i # nActs
      <4>1. i + 1 \in 1..nActs /\ i # n
        BY <1>1, <2>2, <3>2 DEF n
      <4> QED BY <1>1, <1>2, <1>5, <2>2, <3>2, <4>1 DEF SetUpBy
    <3> QED BY <3>1, <3>2
  <2>4. Owns(acts[i], frames[j].src) /\ frames'[j] = frames[j]
    BY <2>2, <2>3 DEF Inductive, SourcesAreOwn
  <2>5. acts[i].step \notin {"reset", "closed"}
    <3>1. CASE i = nActs
      BY <1>1, <2>2, <3>1
    <3>2. CASE i # nActs
      BY <2>2, <3>2 DEF Inductive, ActsAreNested
    <3> QED BY <3>1, <3>2
  <2> QED BY <1>1, <2>2, <2>4, <2>5, SameOwns
<1>6. ASSUME NEW i \in 1..n, i # n PROVE Owns(acts'[i], acts'[i + 1].old)
  <2>1. i \in 1..nActs
    BY <1>1, <1>6
  <2>2. CASE i = nActs
    <3>1. acts'[i + 1].old = src /\ nActs > 0
      BY <1>1, <2>1, <2>2 DEF n
    <3>2. Owns(act, src) /\ act.step \notin {"reset", "closed"} /\ Same(acts'[i], act)
      BY <1>1, <2>2, <3>1 DEF Inductive, SourcesAreOwn
    <3> QED BY <3>1, <3>2, SameOwns
  <2>3. CASE i # nActs
    <3>1. i + 1 \in 1..nActs
      BY <1>1, <2>1, <2>3
    <3>2. acts'[i] = acts[i] /\ acts'[i + 1].old = acts[i + 1].old
      BY <1>1, <2>1, <2>3, <3>1 DEF Same
    <3> QED BY <2>1, <2>3, <3>2 DEF Inductive, SourcesAreOwn
  <2> QED BY <2>2, <2>3
<1>7. SourcesAreOwn'
  BY <1>1, <1>5, <1>6 DEF SourcesAreOwn
<1> QED BY <1>4, <1>7

(* A function returns to the word that called it.                          *)
LEMMA PoppedActKeeps ==
  ASSUME Inductive, UNCHANGED frames, nActs > 0, CutAt(nActs - 1), act.depth = depth,
         nActs > 1 => Owns(acts[nActs - 1], src')
  PROVE  ActsAreNested' /\ SourcesAreOwn'
<1> DEFINE m == nActs - 1
<1>1. /\ nActs \in Nat /\ m \in Nat /\ nActs' = m /\ depth' = depth /\ depth \in Nat /\ top' = top
      /\ \A i \in 1..m : acts'[i] = acts[i] /\ i \in 1..nActs /\ i # nActs
      /\ act = acts[nActs] /\ nActs \in 1..nActs /\ act' = acts'[m]
      /\ m > 0 => m \in 1..m /\ m + 1 = nActs
  BY ActsAre DEF CutAt, depth, act, top
<1>2. nActs = m + 1
  BY <1>1
<1> HIDE DEF m
<1>3. \A i \in 1..m : acts'[i].step \in {"loop", "word"}
  BY <1>1 DEF Inductive, ActsAreNested
<1>4. ActsAreNested'
  <2>1. /\ \A i \in 1..m : acts'[i].depth <= depth
        /\ \A i, j \in 1..m : i < j => acts'[i].depth <= acts'[j].depth
        /\ \A i \in 1..m : acts'[i].kind = "quit" => i = 1
        /\ (depth > 0 /\ top.phase # "exec") => \A i \in 1..m : acts'[i].depth < depth
    BY <1>1 DEF Inductive, ActsAreNested
  <2> QED BY <1>1, <1>3, <2>1 DEF ActsAreNested, Outside
<1>5. ASSUME NEW i \in 1..m, NEW j \in 1..depth, SetUpBy(i, j)'
      PROVE  Owns(acts'[i], frames'[j].src)
  <2>1. SetUpBy(i, j)
    <3>1. CASE i = m
      <4>1. acts[i + 1].depth = depth /\ j <= depth
        BY <1>1, <1>2, <3>1
      <4> QED BY <1>1, <1>5, <4>1 DEF SetUpBy
    <3>2. CASE i # m
      <4>1. i + 1 \in 1..m
        BY <1>1, <3>2
      <4> QED BY <1>1, <1>5, <3>2, <4>1 DEF SetUpBy
    <3> QED BY <3>1, <3>2
  <2> QED BY <1>1, <2>1 DEF Inductive, SourcesAreOwn
<1>6. ASSUME NEW i \in 1..m, i # m PROVE Owns(acts'[i], acts'[i + 1].old)
  <2>1. i + 1 \in 1..m
    BY <1>1, <1>6
  <2> QED BY <1>1, <2>1 DEF Inductive, SourcesAreOwn
<1>7. m > 0 => Owns(act', src') /\ act'.step # "closed"
  <2> SUFFICES ASSUME m > 0 PROVE Owns(act', src') /\ act'.step # "closed"
    OBVIOUS
  <2>1. nActs > 1 /\ act' = acts[nActs - 1] /\ m \in 1..m
    BY <1>1 DEF m
  <2> QED BY <1>1, <1>3, <2>1
<1>8. SourcesAreOwn'
  BY <1>1, <1>5, <1>6, <1>7 DEF SourcesAreOwn
<1> QED BY <1>4, <1>8

(* The machine is put back to where the handler was set up.                *)
LEMMA RestoredKeeps ==
  ASSUME Inductive, UNCHANGED acts, Restored
  PROVE  ActsAreNested' /\ SourcesAreOwn'
<1>1. /\ nActs \in Nat /\ nActs' = nActs /\ depth \in Nat /\ depth' = depth /\ depth > 0
      /\ act' = act /\ top.phase = "landed" /\ src' = frames[depth].src
      /\ \A j \in 1..depth : frames'[j].src = frames[j].src
      /\ nActs > 0 => nActs \in 1..nActs /\ act = acts[nActs]
  BY ActsAre DEF Restored, nActs, act, top
<1>2. \A i \in 1..nActs : acts[i].depth < depth /\ acts[i].depth # depth
  <2>1. \A i \in 1..nActs : acts[i].depth < depth /\ acts[i].depth \in Nat
    BY <1>1, ActsAre DEF Inductive, ActsAreNested
  <2> QED BY <1>1, <2>1
<1>3. ActsAreNested'
  BY <1>1, <1>2 DEF Inductive, ActsAreNested
<1>4. nActs > 0 => Owns(act, frames[depth].src) /\ act.step # "closed"
  <2> SUFFICES ASSUME nActs > 0 PROVE Owns(act, frames[depth].src) /\ act.step # "closed"
    OBVIOUS
  <2>1. SetUpBy(nActs, depth) /\ depth \in 1..depth
    BY <1>1, <1>2 DEF SetUpBy
  <2> QED BY <1>1, <1>2, <2>1 DEF Inductive, SourcesAreOwn, ActsAreNested, Outside
<1>5. SourcesAreOwn'
  <2>1. \A i \in 1..nActs, j \in 1..depth : SetUpBy(i, j)' => Owns(acts'[i], frames'[j].src)
    BY <1>1 DEF Inductive, SourcesAreOwn, SetUpBy
  <2>2. \A i \in 1..nActs : i # nActs => Owns(acts'[i], acts'[i + 1].old)
    BY <1>1 DEF Inductive, SourcesAreOwn
  <2> QED BY <1>1, <1>4, <2>1, <2>2 DEF SourcesAreOwn
<1> QED BY <1>3, <1>5

-----------------------------------------------------------------------------
(* Every buffer and every handle taken or given back is accounted for.     *)
Accounted ==
  /\ fib_depth' - Cardinality(Files') =
       fib_depth - Cardinality(Files) + Cardinality(JumpedOver)
  /\ Leaked' = Leaked \cup {acts[i].fd : i \in JumpedOver}

\* The lines being interpreted stay safe.
LinesKept == LinesAreSafe' /\ BuffersAreStacked' /\ Accounted

\* The files whose activations stay.
Staying == {i \in Files : i <= nActs'}

(* There are finitely many files, each with a buffer and a handle.         *)
LEMMA FilesAreFinite ==
  ASSUME Inductive
  PROVE  /\ IsFiniteSet(Files) /\ Cardinality(Files) \in Nat /\ fib_depth \in Nat
         /\ \A i \in Files : /\ i \in 1..nActs /\ i \in Nat
                             /\ acts[i].slot \in Nat /\ acts[i].slot < fib_depth
                             /\ acts[i].fd \in open
<1>1. nActs \in Nat /\ fib_depth \in Nat /\ \A i \in 1..nActs : acts[i].slot \in Nat
  <2>1. nActs \in Nat /\ \A i \in 1..nActs : acts[i] \in Activation
    BY ActsAre
  <2>2. \A a \in Activation : a.slot \in Nat
    BY EvalBoundsAssumption DEF Activation
  <2> QED BY <2>1, <2>2, EvalBoundsAssumption DEF Inductive, EvalTypeOK
<1>2. IsFiniteSet(1..nActs)
  BY <1>1, FS_Interval
<1>3. IsFiniteSet(Files)
  <2>1. Files \subseteq 1..nActs
    BY DEF Files
  <2> QED BY <1>2, <2>1, FS_Subset
<1>4. \A i \in Files : i \in 1..nActs /\ i \in Nat
  BY <1>1 DEF Files
<1> QED BY <1>1, <1>3, <1>4, FS_CardinalityType DEF Inductive, LinesAreSafe

(* No file is opened or closed, but files may be jumped over.              *)
LEMMA FilesStay ==
  ASSUME Inductive, UNCHANGED <<fib_depth, open>>, acts' \in Seq(Activation),
         Files' = Staying,
         \A i \in Staying : acts'[i].slot = acts[i].slot /\ acts'[i].fd = acts[i].fd
  PROVE  LinesKept
<1>1. /\ IsFiniteSet(Files) /\ Cardinality(Files) \in Nat /\ fib_depth \in Nat
      /\ \A i \in Files : i \in 1..nActs /\ i \in Nat /\ acts[i].fd \in open
  BY FilesAreFinite
<1>2. nActs' \in Nat /\ nActs' = Len(acts')
  BY ActsAfter DEF nActs
<1>3. Staying \subseteq Files /\ JumpedOver = Files \ Staying
  <2>1. \A i \in Files : i <= nActs' \/ i > nActs'
    BY <1>1, <1>2
  <2>2. \A i \in Files : ~(i <= nActs' /\ i > nActs')
    BY <1>1, <1>2
  <2> QED BY <1>2, <2>1, <2>2 DEF Staying, JumpedOver
<1>4. LinesAreSafe' /\ BuffersAreStacked'
  <2>1. \A i \in Files' : acts'[i].slot < fib_depth /\ acts'[i].fd \in open
    BY <1>3 DEF Inductive, LinesAreSafe
  <2>2. \A i, j \in Files' : i # j => acts'[i].slot # acts'[j].slot /\ acts'[i].fd # acts'[j].fd
    BY <1>3 DEF Inductive, LinesAreSafe
  <2>3. \A i, j \in Files' : i < j => acts'[i].slot < acts'[j].slot
    BY <1>3 DEF Inductive, BuffersAreStacked
  <2> QED BY <2>1, <2>2, <2>3 DEF LinesAreSafe, BuffersAreStacked
<1>5. fib_depth' - Cardinality(Files') =
        fib_depth - Cardinality(Files) + Cardinality(JumpedOver)
  <2>1. Cardinality(Files \ Staying) = Cardinality(Files) - Cardinality(Files \cap Staying)
    BY <1>1, FS_Difference
  <2>2. Files \cap Staying = Staying /\ Cardinality(Staying) \in Nat
    BY <1>1, <1>3, FS_Subset, FS_CardinalityType
  <2>3. Cardinality(JumpedOver) = Cardinality(Files) - Cardinality(Staying)
    BY <1>3, <2>1, <2>2
  <2>4. Cardinality(Files') = Cardinality(Staying) /\ fib_depth' = fib_depth
    OBVIOUS
  <2> DEFINE f == Cardinality(Files)
             s == Cardinality(Staying)
  <2>5. f \in Nat /\ s \in Nat
    BY <1>1, <2>2
  <2> HIDE DEF f, s
  <2>6. fib_depth - s = fib_depth - f + (f - s)
    BY <1>1, <2>5
  <2> QED BY <2>3, <2>4, <2>6 DEF f, s
<1>6. Leaked' = Leaked \cup {acts[i].fd : i \in JumpedOver}
  <2>1. Leaked' = open \ {acts[i].fd : i \in Staying}
    BY DEF Leaked
  <2>2. ASSUME NEW x \in open, x \notin {acts[i].fd : i \in Staying}
        PROVE  x \in Leaked \cup {acts[i].fd : i \in JumpedOver}
    BY <1>3, <2>2 DEF Leaked
  <2>3. ASSUME NEW x \in Leaked PROVE x \in Leaked'
    BY <1>3, <2>1, <2>3 DEF Leaked
  <2>4. ASSUME NEW i \in JumpedOver PROVE acts[i].fd \in Leaked'
    <3>1. i \in Files /\ \A j \in Staying : j \in Files /\ j # i
      BY <1>3
    <3>2. acts[i].fd \in open /\ \A j \in Staying : acts[j].fd # acts[i].fd
      BY <1>1, <3>1 DEF Inductive, LinesAreSafe
    <3> QED BY <2>1, <3>2
  <2> QED BY <2>1, <2>2, <2>3, <2>4
<1> QED BY <1>4, <1>5, <1>6 DEF LinesKept, Accounted

(* Activations go on, and none of them opens or closes a file.             *)
LEMMA KeptFiles ==
  ASSUME Inductive, Kept, UNCHANGED <<fib_depth, open>>,
         nActs > 0 => (act.step = "closed" <=> acts'[nActs].step = "closed")
  PROVE  LinesKept
<1>1. /\ nActs \in Nat /\ nActs' = nActs /\ acts' \in Seq(Activation)
      /\ \A i \in 1..nActs : Same(acts'[i], acts[i]) /\ (i # nActs => acts'[i] = acts[i])
      /\ nActs > 0 => act = acts[nActs]
  BY ActsAre DEF Kept, GoOn
<1>2. \A i \in 1..nActs : i <= nActs
  BY <1>1
<1>3. \A i \in 1..nActs : /\ acts'[i].kind = acts[i].kind
                          /\ acts'[i].slot = acts[i].slot /\ acts'[i].fd = acts[i].fd
                          /\ acts'[i].step = "closed" <=> acts[i].step = "closed"
  <2> TAKE i \in 1..nActs
  <2>1. CASE i = nActs
    <3>1. nActs > 0
      BY <1>1, <2>1
    <3> QED BY <1>1, <2>1, <3>1 DEF Same
  <2>2. CASE i # nActs
    BY <1>1, <2>2
  <2> QED BY <2>1, <2>2
<1>4. Files' = Staying
  BY <1>1, <1>2, <1>3 DEF Files, Staying
<1>5. \A i \in Staying : i \in 1..nActs
  BY DEF Staying, Files
<1> QED BY <1>1, <1>3, <1>4, <1>5, FilesStay

(* Activations are over that hold no buffer, or are jumped over.           *)
LEMMA CutFiles ==
  ASSUME Inductive, NEW m \in 0..nActs, CutAt(m), UNCHANGED <<fib_depth, open>>
  PROVE  LinesKept
<1>1. /\ nActs \in Nat /\ nActs' = m /\ acts' \in Seq(Activation) /\ m \in Nat /\ m <= nActs
      /\ \A i \in 1..m : acts'[i] = acts[i] /\ i \in 1..nActs /\ i <= m
  BY ActsAre DEF CutAt
<1>2. Files' = Staying
  <2>1. \A i \in 1..nActs : i <= m => i \in 1..m
    BY <1>1
  <2> QED BY <1>1, <2>1 DEF Files, Staying
<1>3. \A i \in Staying : i \in 1..m
  BY <1>1 DEF Staying, Files
<1> QED BY <1>1, <1>2, <1>3, FilesStay

(* Something that is not a file is evaluated.                              *)
LEMMA PushedFiles ==
  ASSUME Inductive, NEW a \in Activation, Pushed(a), a.kind # "file",
         nActs > 0 => act.step # "closed", UNCHANGED <<fib_depth, open>>
  PROVE  LinesKept
<1>1. /\ nActs \in Nat /\ nActs' = nActs + 1 /\ acts' \in Seq(Activation)
      /\ \A i \in 1..nActs : Same(acts'[i], acts[i]) /\ (i # nActs => acts'[i] = acts[i])
      /\ acts'[nActs + 1] = a
      /\ nActs > 0 => act = acts[nActs] /\ acts'[nActs].step # "closed"
  BY ActsAre DEF Pushed, GoOn
<1>2. \A i \in 1..nActs : i <= nActs' /\ i \in 1..nActs'
  BY <1>1
<1>3. \A i \in 1..nActs : /\ acts'[i].kind = acts[i].kind
                          /\ acts'[i].slot = acts[i].slot /\ acts'[i].fd = acts[i].fd
                          /\ acts'[i].step = "closed" <=> acts[i].step = "closed"
  <2> TAKE i \in 1..nActs
  <2>1. CASE i = nActs
    <3>1. nActs > 0
      BY <1>1, <2>1
    <3> QED BY <1>1, <2>1, <3>1 DEF Same
  <2>2. CASE i # nActs
    BY <1>1, <2>2
  <2> QED BY <2>1, <2>2
<1>4. \A i \in 1..nActs' : i \notin 1..nActs => acts'[i].kind # "file"
  <2>1. \A i \in 1..nActs + 1 : i \notin 1..nActs => i = nActs + 1
    BY <1>1
  <2> QED BY <1>1, <2>1
<1>5. Files' = Staying
  BY <1>2, <1>3, <1>4 DEF Files, Staying
<1>6. \A i \in Staying : i \in 1..nActs
  BY DEF Staying, Files
<1> QED BY <1>1, <1>3, <1>5, <1>6, FilesStay

(* A file is opened: it gets the next buffer and a handle of its own.      *)
LEMMA OpenedFiles ==
  ASSUME Inductive, NEW a \in Activation, Pushed(a), a.kind = "file", a.step # "closed",
         nActs > 0 => act.step # "closed",
         a.slot = fib_depth, a.fd \notin open,
         fib_depth' = fib_depth + 1, open' = open \cup {a.fd}
  PROVE  LinesKept
<1> DEFINE n == nActs + 1
<1>1. /\ nActs \in Nat /\ nActs' = n /\ acts' \in Seq(Activation) /\ n \notin 1..nActs
      /\ n \in Nat
      /\ \A i \in 1..nActs : Same(acts'[i], acts[i]) /\ (i # nActs => acts'[i] = acts[i])
      /\ acts'[n] = a /\ n \in 1..n
      /\ nActs > 0 => act = acts[nActs] /\ acts'[nActs].step # "closed"
      /\ \A i \in 1..nActs : i \in 1..n /\ i < n
      /\ \A i \in 1..n : i \notin 1..nActs => i = n
  BY ActsAre DEF Pushed, GoOn
<1> HIDE DEF n
<1>2. \A i \in 1..nActs : /\ acts'[i].kind = acts[i].kind
                          /\ acts'[i].slot = acts[i].slot /\ acts'[i].fd = acts[i].fd
                          /\ acts'[i].step = "closed" <=> acts[i].step = "closed"
  <2> TAKE i \in 1..nActs
  <2>1. CASE i = nActs
    <3>1. nActs > 0
      BY <1>1, <2>1
    <3> QED BY <1>1, <2>1, <3>1 DEF Same
  <2>2. CASE i # nActs
    BY <1>1, <2>2
  <2> QED BY <2>1, <2>2
<1>3. Files' = Files \cup {n}
  BY <1>1, <1>2 DEF Files
<1>4. /\ IsFiniteSet(Files) /\ Cardinality(Files) \in Nat /\ fib_depth \in Nat
      /\ \A i \in Files : /\ i \in 1..nActs /\ i \in Nat
                          /\ acts[i].slot \in Nat /\ acts[i].slot < fib_depth
                          /\ acts[i].fd \in open
  BY FilesAreFinite
<1>5. \A i \in Files : /\ acts'[i].slot = acts[i].slot /\ acts'[i].fd = acts[i].fd
                       /\ acts'[i].slot < fib_depth /\ acts'[i].slot \in Nat
                       /\ acts'[i].fd \in open /\ acts'[i].fd # a.fd
                       /\ i \in Nat /\ i < n
  BY <1>1, <1>2, <1>4
<1>6. LinesAreSafe' /\ BuffersAreStacked'
  <2>1. ASSUME NEW i \in Files'
        PROVE  acts'[i].slot < fib_depth + 1 /\ acts'[i].fd \in open \cup {a.fd}
    <3>1. CASE i \in Files
      BY <1>4, <1>5, <3>1
    <3>2. CASE i = n
      BY <1>1, <1>4, <3>2
    <3> QED BY <1>3, <3>1, <3>2
  <2>2. ASSUME NEW i \in Files', NEW j \in Files', i # j
        PROVE  /\ acts'[i].slot # acts'[j].slot /\ acts'[i].fd # acts'[j].fd
               /\ i < j => acts'[i].slot < acts'[j].slot
    <3>1. CASE i \in Files /\ j \in Files
      BY <1>5, <2>2, <3>1 DEF Inductive, LinesAreSafe, BuffersAreStacked
    <3>2. CASE i \in Files /\ j = n
      <4>1. acts'[i].slot < fib_depth /\ acts'[i].slot \in Nat /\ acts'[j].slot = fib_depth
        BY <1>1, <1>5, <3>2
      <4>2. acts'[i].slot # acts'[j].slot
        BY <1>4, <4>1
      <4> QED BY <1>1, <1>5, <3>2, <4>1, <4>2
    <3>3. CASE i = n /\ j \in Files
      <4>1. acts'[j].slot < fib_depth /\ acts'[j].slot \in Nat /\ acts'[i].slot = fib_depth
        BY <1>1, <1>5, <3>3
      <4>2. acts'[i].slot # acts'[j].slot
        BY <1>4, <4>1
      <4>3. ~(i < j)
        BY <1>1, <1>5, <3>3
      <4> QED BY <1>1, <1>5, <3>3, <4>1, <4>2, <4>3
    <3> QED BY <1>3, <2>2, <3>1, <3>2, <3>3
  <2>3. \A i, j \in Files' : i < j => acts'[i].slot < acts'[j].slot
    <3>1. \A i, j \in Files' : i < j => i # j
      BY <1>1, <1>3, <1>5
    <3> QED BY <2>2, <3>1
  <2> QED BY <2>1, <2>2, <2>3 DEF LinesAreSafe, BuffersAreStacked
<1>7. JumpedOver = {}
  <2>1. \A i \in Files : ~(i > n)
    BY <1>1, <1>5
  <2> QED BY <1>1, <2>1 DEF JumpedOver, nActs
<1>8. Cardinality(Files') = Cardinality(Files) + 1
  <2>1. n \notin Files
    BY <1>1, <1>4
  <2> QED BY <1>3, <1>4, <2>1, FS_AddElement
<1>9. fib_depth' - Cardinality(Files') =
        fib_depth - Cardinality(Files) + Cardinality(JumpedOver)
  <2>1. Cardinality(JumpedOver) = 0
    BY <1>7, FS_EmptySet
  <2> DEFINE f == Cardinality(Files)
  <2>2. f \in Nat
    BY <1>4
  <2> HIDE DEF f
  <2>3. (fib_depth + 1) - (f + 1) = fib_depth - f + 0
    BY <1>4, <2>2
  <2> QED BY <1>8, <2>1, <2>3 DEF f
<1>10. Leaked' = Leaked \cup {acts[i].fd : i \in JumpedOver}
  <2>1. {acts'[i].fd : i \in Files'} = {acts[i].fd : i \in Files} \cup {a.fd}
    <3>1. \A i \in Files' : acts'[i].fd \in {acts[k].fd : k \in Files} \cup {a.fd}
      BY <1>1, <1>3, <1>5
    <3>2. \A i \in Files : acts[i].fd \in {acts'[k].fd : k \in Files'}
      <4> TAKE i \in Files
      <4>1. i \in Files' /\ acts'[i].fd = acts[i].fd
        BY <1>3, <1>5
      <4> QED BY <4>1
    <3>3. a.fd \in {acts'[k].fd : k \in Files'}
      <4>1. n \in Files' /\ acts'[n].fd = a.fd
        BY <1>1, <1>3
      <4> QED BY <4>1
    <3> QED BY <3>1, <3>2, <3>3
  <2>2. Leaked' = (open \cup {a.fd}) \ ({acts[i].fd : i \in Files} \cup {a.fd})
    BY <2>1 DEF Leaked
  <2>3. Leaked' = Leaked
    BY <2>2 DEF Leaked
  <2> QED BY <1>7, <2>3
<1> QED BY <1>6, <1>9, <1>10 DEF LinesKept, Accounted

(* A file is closed: its buffer was the last one taken.                    *)
LEMMA ClosedFiles ==
  ASSUME Inductive, nActs > 0, Kept, act.kind = "file", act.step # "closed",
         acts'[nActs].step = "closed",
         fib_depth' = fib_depth - 1, open' = open \ {act.fd}
  PROVE  LinesKept /\ fib_depth' \in Nat
<1> DEFINE n == nActs
<1>1. /\ n \in Nat /\ nActs' = n /\ acts' \in Seq(Activation) /\ act = acts[n] /\ n \in 1..n
      /\ \A i \in 1..n : Same(acts'[i], acts[i]) /\ (i # n => acts'[i] = acts[i])
  BY ActsAre DEF Kept, GoOn
<1>2. Files' = Files \ {n} /\ n \in Files
  <2>1. \A i \in 1..n : i # n => acts'[i] = acts[i]
    BY <1>1
  <2> QED BY <1>1, <2>1 DEF Files
<1>3. /\ IsFiniteSet(Files) /\ Cardinality(Files) \in Nat /\ fib_depth \in Nat
      /\ \A i \in Files : /\ i \in 1..nActs /\ i \in Nat
                          /\ acts[i].slot \in Nat /\ acts[i].slot < fib_depth
                          /\ acts[i].fd \in open
  BY FilesAreFinite
<1>4. ASSUME NEW i \in Files'
      PROVE  /\ acts'[i] = acts[i] /\ i \in Files /\ i # n /\ i < n
             /\ acts[i].slot < fib_depth - 1 /\ acts[i].fd \in open \ {act.fd}
  <2>1. i \in Files /\ i # n /\ i \in 1..n /\ acts'[i] = acts[i]
    BY <1>1, <1>2, <1>3
  <2>2. i < n
    BY <1>1, <2>1
  <2>3. acts[i].slot < acts[n].slot /\ acts[i].fd # acts[n].fd
    BY <1>2, <2>1, <2>2 DEF Inductive, BuffersAreStacked, LinesAreSafe
  <2>4. /\ acts[n].slot < fib_depth /\ acts[n].slot \in Nat /\ acts[i].slot \in Nat
        /\ acts[i].fd \in open
    BY <1>2, <1>3, <2>1
  <2>5. acts[i].slot < fib_depth - 1
    BY <1>3, <2>3, <2>4
  <2> QED BY <1>1, <2>1, <2>2, <2>3, <2>4, <2>5
<1>5. LinesAreSafe' /\ BuffersAreStacked'
  BY <1>4 DEF LinesAreSafe, BuffersAreStacked, Inductive
<1>6. JumpedOver = {}
  <2>1. \A i \in Files : ~(i > n)
    BY <1>1, <1>3
  <2> QED BY <1>1, <2>1 DEF JumpedOver, nActs
<1>7. Cardinality(Files') = Cardinality(Files) - 1
  BY <1>2, <1>3, FS_RemoveElement
<1>8. fib_depth' - Cardinality(Files') =
        fib_depth - Cardinality(Files) + Cardinality(JumpedOver)
  <2>1. Cardinality(JumpedOver) = 0
    BY <1>6, FS_EmptySet
  <2> DEFINE f == Cardinality(Files)
  <2>2. f \in Nat
    BY <1>3
  <2> HIDE DEF f
  <2>3. (fib_depth - 1) - (f - 1) = fib_depth - f + 0
    BY <1>3, <2>2
  <2> QED BY <1>7, <2>1, <2>3 DEF f
<1>9. Leaked' = Leaked
  <2>1. {acts'[i].fd : i \in Files'} = {acts[i].fd : i \in Files \ {n}}
    <3>1. \A i \in Files \ {n} : acts'[i].fd = acts[i].fd
      BY <1>2, <1>4
    <3> QED BY <1>2, <3>1
  <2>2. {acts[i].fd : i \in Files} = {acts[i].fd : i \in Files \ {n}} \cup {act.fd}
    BY <1>1, <1>2
  <2>3. Leaked' = (open \ {act.fd}) \ {acts[i].fd : i \in Files \ {n}}
    BY <2>1 DEF Leaked
  <2> QED BY <2>2, <2>3 DEF Leaked
<1>10. fib_depth' \in Nat
  BY <1>2, <1>3
<1>11. Leaked' = Leaked \cup {acts[i].fd : i \in JumpedOver}
  BY <1>6, <1>9
<1> QED BY <1>5, <1>8, <1>10, <1>11 DEF LinesKept, Accounted

-----------------------------------------------------------------------------
\* What every step does.
Keeps == Inductive' /\ Accounted

(* Its parts make up the invariant.                                        *)
LEMMA Assembled ==
  ASSUME IInv', acts' \in Seq(Activation), fib_depth' \in 0..FIB_MAXDEPTH, fex' \in CodeOrOK,
         open' \subseteq 1..MaxFd, ActsAreNested', SourcesAreOwn', NoCallbacks', LinesKept
  PROVE  Keeps
BY DEF Keeps, Inductive, IInv, EvalTypeOK, LinesKept

(* What the types are, from the invariant.                                 *)
LEMMA TypesAre ==
  ASSUME Inductive
  PROVE  /\ IInv /\ fib_depth \in 0..FIB_MAXDEPTH /\ fex \in CodeOrOK /\ open \subseteq 1..MaxFd
         /\ sp \in Cell /\ rp \in Cell /\ tr0 \in Cell /\ src \in Source
         /\ result \in CodeOrOK /\ then = NoCallback
BY SourceAssumption DEF Inductive, EvalTypeOK, ExcTypeOK, NoCallbacks

(* No callback is ever given.                                              *)
LEMMA NoCallbacksStay ==
  ASSUME Inductive,
         \/ UNCHANGED handlerVars
         \/ Grown
         \/ \E c \in 1..depth : Jumped(c) /\ then' = NoCallback
         \/ Restored
         \/ Popped /\ then' \in {then, NoCallback}
  PROVE  NoCallbacks'
<1>1. depth \in Nat /\ then = NoCallback /\ \A i \in 1..depth : frames[i].phase # "callback"
  BY ActsAre DEF Inductive, NoCallbacks
<1>2. CASE UNCHANGED handlerVars
  BY <1>1, <1>2 DEF handlerVars, NoCallbacks, depth
<1>3. CASE Grown
  <2>1. \A i \in 1..depth + 1 : i \notin 1..depth => i = depth + 1
    BY <1>1
  <2> QED BY <1>1, <1>3, <2>1 DEF Grown, NoCallbacks
<1>4. ASSUME NEW c \in 1..depth, Jumped(c), then' = NoCallback PROVE NoCallbacks'
  <2>1. \A i \in 1..c : i \in 1..depth
    BY <1>1
  <2> QED BY <1>1, <1>4, <2>1 DEF Jumped, CutTo, NoCallbacks
<1>5. CASE Restored
  BY <1>1, <1>5 DEF Restored, AfterLanding, NoCallbacks
<1>6. CASE Popped /\ then' \in {then, NoCallback}
  <2>1. \A i \in 1..depth - 1 : i \in 1..depth
    BY <1>1
  <2> QED BY <1>1, <1>6, <2>1 DEF Popped, NoCallbacks
<1> QED BY <1>2, <1>3, <1>4, <1>5, <1>6

(* Code that is running reads its own source.                              *)
LEMMA RunningIs ==
  ASSUME Inductive, Running
  PROVE  /\ depth > 0 => top.phase = "exec"
         /\ nActs > 0 => Owns(act, src)
<1>1. depth > 0 => top.phase = "exec"
  <2> SUFFICES ASSUME depth > 0 PROVE top.phase = "exec"
    OBVIOUS
  <2>1. depth \in 1..depth
    BY ActsAre
  <2> QED BY <2>1 DEF Running, top, Inductive, NoCallbacks
<1> QED BY <1>1 DEF Inductive, SourcesAreOwn

(* The innermost activation goes on, without touching the handlers.        *)
LEMMA StepKeeps ==
  ASSUME Inductive, Kept, UNCHANGED handlerVars,
         sp' \in Cell, rp' \in Cell, tr0' \in Cell, src' \in Source,
         StepFits, SourceFits, UNCHANGED <<fib_depth, fex, open>>,
         nActs > 0 => (act.step = "closed" <=> acts'[nActs].step = "closed")
  PROVE  Keeps
<1>1. IInv'
  BY TypesAre, MachineIInv, SourceAssumption
<1>2. acts' \in Seq(Activation) /\ UNCHANGED frames
  BY DEF Kept, GoOn, handlerVars
<1> QED BY <1>1, <1>2, KeptKeeps, NoCallbacksStay, KeptFiles, TypesAre, Assembled

(* A handler is set up.                                                    *)
LEMMA CatchKeeps ==
  ASSUME Inductive, Catch, nActs > 0, Kept, act.step \notin {"reset", "closed"},
         acts'[nActs].step \in {"refill", "loop", "word"},
         acts'[nActs].step = "refill" => acts'[nActs].caught,
         UNCHANGED <<fib_depth, fex, open>>
  PROVE  Keeps
<1>1. Grown /\ IInv' /\ UNCHANGED src /\ Running
  BY TypesAre, CatchGrows, CatchIInv DEF Catch, machineVars
<1>2. /\ acts' \in Seq(Activation) /\ nActs' = nActs /\ act' = acts'[nActs]
      /\ Same(act', act) /\ nActs \in 1..nActs
  BY ActsAre, ActsAfter DEF Kept, GoOn
<1>3. Owns(act', src)
  BY <1>1, <1>2, RunningIs, SameOwns
<1>4. StepFits /\ SourceFits
  BY <1>1, <1>2, <1>3 DEF StepFits, SourceFits, Outside
<1>5. ActsAreNested' /\ SourcesAreOwn'
  BY <1>1, <1>2, <1>3, <1>4, GrownKeeps DEF Outside
<1>6. NoCallbacks' /\ LinesKept
  BY <1>1, <1>2, NoCallbacksStay, KeptFiles
<1> QED BY <1>1, <1>2, <1>5, <1>6, TypesAre, Assembled

(* A handler is left.                                                      *)
LEMMA ReturnKeeps ==
  ASSUME Inductive, ReturnFired \/ ReturnNormally, Kept,
         \A i \in 1..nActs : acts[i].depth < depth,
         nActs > 0 => acts'[nActs].step \notin Outside /\ act.step \notin Outside,
         StepFits, UNCHANGED <<fib_depth, fex, open>>
  PROVE  Keeps
<1>1. Popped /\ IInv' /\ UNCHANGED src /\ then' \in {then, NoCallback}
  BY TypesAre, ReturnPops, ReturnFiredIInv, ReturnNormallyIInv
     DEF ReturnFired, ReturnNormally, Called, machineVars
<1>2. top.phase # "landed"
  BY DEF ReturnFired, ReturnNormally
<1>3. acts' \in Seq(Activation)
  BY DEF Kept, GoOn
<1>4. NoCallbacks' /\ LinesKept
  BY <1>1, NoCallbacksStay, KeptFiles DEF Outside
<1>5. ActsAreNested' /\ SourcesAreOwn'
  BY <1>1, <1>2, <1>4, PoppedKeeps
<1> QED BY <1>1, <1>3, <1>4, <1>5, TypesAre, Assembled

(* An exception goes to frame c.                                           *)
LEMMA JumpKeeps ==
  ASSUME Inductive, IInv', NEW c \in 1..depth, Jumped(c), then' = NoCallback, CutActs(c),
         UNCHANGED <<fib_depth, open>>, fex' \in CodeOrOK
  PROVE  Keeps
<1>1. c \in Nat
  BY ActsAre
<1>2. PICK m \in 0..nActs : /\ CutAt(m)
                            /\ \A i \in 1..m : acts[i].depth < c
                            /\ \A i \in m + 1 .. nActs : acts[i].depth >= c
  BY <1>1, CutActsIsCut
<1>3. acts' \in Seq(Activation)
  BY <1>2 DEF CutAt
<1>4. NoCallbacks' /\ LinesKept
  BY <1>2, NoCallbacksStay, CutFiles
<1> QED BY <1>2, <1>3, <1>4, JumpedKeeps, TypesAre, Assembled

(* Throwing.                                                               *)
LEMMA ThrowKeeps ==
  ASSUME Inductive, NEW e \in Code, Throw(e), CutActs(ctx),
         UNCHANGED <<fib_depth, open>>, fex' \in CodeOrOK
  PROVE  Keeps
<1>1. ctx \in 1..depth /\ Jumped(ctx) /\ then' = NoCallback /\ IInv'
  BY TypesAre, ThrowJumps, ThrowIInv DEF Throw
<1>2. CutActs(ctx)
  OBVIOUS
<1> DEFINE c == ctx
<1>3. c \in 1..depth /\ Jumped(c) /\ CutActs(c)
  BY <1>1, <1>2
<1> HIDE DEF c
<1> QED BY <1>1, <1>3, JumpKeeps

(* Landing.                                                                *)
LEMMA LandKeeps ==
  ASSUME Inductive, Land
  PROVE  Keeps
<1>1. CASE Rethrow /\ CutActs(top.old) /\ UNCHANGED <<fib_depth, fex, open>>
  <2>1. top.old \in 1..(depth - 1) /\ Jumped(top.old) /\ then' = NoCallback /\ IInv'
    BY <1>1, TypesAre, RethrowJumps, RethrowIInv
  <2>2. depth \in Nat
    BY ActsAre
  <2> DEFINE c == top.old
  <2>3. c \in 1..depth /\ Jumped(c) /\ CutActs(c)
    BY <1>1, <2>1, <2>2
  <2> HIDE DEF c
  <2> QED BY <1>1, <2>1, <2>3, TypesAre, JumpKeeps
<1>2. CASE Restore /\ UNCHANGED evalVars
  <2>1. Restored /\ IInv' /\ UNCHANGED <<acts, fib_depth, fex, open>>
    BY <1>2, TypesAre, RestoreRestores, RestoreIInv DEF evalVars
  <2>2. Kept /\ acts' \in Seq(Activation)
    BY <2>1, UnchangedIsKept, ActsAre
  <2>3. acts' = acts /\ act' = act
    BY <2>1 DEF act, nActs
  <2>4. nActs > 0 => (act.step = "closed" <=> acts'[nActs].step = "closed")
    BY <2>3 DEF act
  <2>5. NoCallbacks' /\ LinesKept
    BY <2>1, <2>2, <2>4, NoCallbacksStay, KeptFiles
  <2> QED BY <2>1, <2>2, <2>5, RestoredKeeps, TypesAre, Assembled
<1>3. CASE ReturnFired /\ UNCHANGED evalVars
  <2>1. UNCHANGED <<acts, fib_depth, fex, open>> /\ acts' = acts
    BY <1>3 DEF evalVars
  <2>2. depth > 0 /\ top.phase # "exec" /\ depth \in Nat /\ nActs \in Nat
    BY <1>3, ActsAre DEF ReturnFired
  <2>3. /\ \A i \in 1..nActs : acts[i].depth < depth
        /\ \A i \in 1..nActs : acts[i].step \notin Outside
    <3>1. \A i \in 1..nActs : acts[i].depth < depth /\ acts[i].depth \in Nat
      BY <2>2, ActsAre DEF Inductive, ActsAreNested
    <3>2. \A i \in 1..nActs : acts[i].depth # depth
      BY <2>2, <3>1
    <3> QED BY <3>1, <3>2 DEF Inductive, ActsAreNested
  <2>4. nActs' = nActs /\ act' = act /\ (nActs > 0 => act = acts[nActs] /\ nActs \in 1..nActs)
    BY <2>1, ActsAre DEF act, nActs
  <2>5. nActs > 0 => acts'[nActs].step \notin Outside /\ act.step \notin Outside
    BY <2>1, <2>3, <2>4
  <2>6. StepFits
    BY <2>1, <2>4, <2>5 DEF StepFits, Inductive, ActsAreNested
  <2> QED BY <1>3, <2>1, <2>3, <2>5, <2>6, UnchangedIsKept, ReturnKeeps
<1> QED BY <1>1, <1>2, <1>3 DEF Land

-----------------------------------------------------------------------------
(* The activation a function begins with.                                  *)
LEMMA NewActIs ==
  ASSUME Inductive, NEW k \in {"quit", "file", "string"}
  PROVE  /\ NewAct(k) \in Activation
         /\ NewAct(k).kind = k /\ NewAct(k).depth = depth /\ NewAct(k).old = src
         /\ NewAct(k).step = "reset" /\ NewAct(k).caught = FALSE
<1>1. depth \in 0..MaxFrames
  BY ActsAre, MaxFramesAssumption DEF Inductive, EvalTypeOK, ExcTypeOK, depth
<1>2. 0 \in 0..FIB_MAXDEPTH /\ 0 \in 0..MaxFd /\ OK \in CodeOrOK /\ src \in Source
  BY TypesAre, EvalBoundsAssumption DEF CodeOrOK
<1> QED BY <1>1, <1>2 DEF NewAct, Activation

(* The sources that the program sets.                                      *)
LEMMA EmptyIs ==
  ASSUME NEW buf \in 0..Str, NEW sid \in 0..SID_STR, NEW n \in 0..MaxWords
  PROVE  /\ Empty(buf, sid) \in Source
         /\ [Empty(buf, sid) EXCEPT !.len = n] \in Source
         /\ [Empty(buf, sid) EXCEPT !.len = n].buf = buf
         /\ [Empty(buf, sid) EXCEPT !.len = n].sid = sid
         /\ Empty(buf, sid).buf = buf /\ Empty(buf, sid).sid = sid
<1>1. 0 \in 0..MaxWords
  BY EvalBoundsAssumption
<1> QED BY <1>1 DEF Empty, Source

(* The buffers and the source identifiers exist.                           *)
LEMMA NamesAre ==
  /\ Tib \in 0..Str /\ Str \in 0..Str /\ SID_UID \in 0..SID_STR /\ SID_STR \in 0..SID_STR
  /\ \A i \in 0..FIB_MAXDEPTH : i \in 0..Str
  /\ \A fd \in 1..MaxFd : fd \in 0..SID_STR /\ fd \in 0..MaxFd
BY EvalBoundsAssumption DEF Tib, Str, SID_UID, SID_STR

(* A word that executes is running code, in a loop.                        *)
LEMMA ExecutingIs ==
  ASSUME Inductive, Executing
  PROVE  /\ nActs > 0 /\ Running /\ act.step \in {"loop", "word"}
         /\ Owns(act, src) /\ (depth > 0 => top.phase = "exec")
BY RunningIs DEF Executing

(* One of the evaluate functions begins.                                   *)
LEMMA BeginKeeps ==
  ASSUME Inductive, NEW s, NEW a \in Activation,
         \/ nActs = 0 /\ depth = 0 /\ s = acts
         \/ Executing /\ s = NextWord,
         acts' = Append(s, a), a.depth = depth, a.old = src,
         a.kind = "quit" => nActs = 0, a.step \notin {"refill", "refilled", "closed"},
         UNCHANGED <<handlerVars, sp, rp, tr0>>, src' \in Source, Owns(a, src'),
         fib_depth' \in 0..FIB_MAXDEPTH, fex' \in CodeOrOK, open' \subseteq 1..MaxFd,
         \/ a.kind # "file" /\ UNCHANGED <<fib_depth, open>>
         \/ /\ a.kind = "file" /\ a.slot = fib_depth /\ a.fd \notin open
            /\ fib_depth' = fib_depth + 1 /\ open' = open \cup {a.fd}
  PROVE  Keeps
<1>1. Pushed(a)
  BY PushIsPushed
<1>2. /\ depth > 0 => top.phase = "exec"
      /\ nActs > 0 => act.step \in {"loop", "word"}
  <2>1. CASE Executing
    BY <2>1, ExecutingIs
  <2>2. CASE nActs = 0 /\ depth = 0
    BY <2>2
  <2> QED BY <2>1, <2>2
<1>3. UNCHANGED frames /\ UNCHANGED handlerVars /\ acts' \in Seq(Activation)
  BY <1>1 DEF handlerVars, Pushed, GoOn
<1>4. IInv'
  BY TypesAre, MachineIInv, SourceAssumption
<1>5. ActsAreNested' /\ SourcesAreOwn'
  BY <1>1, <1>2, <1>3, PushedKeeps
<1>6. LinesKept
  <2>1. CASE a.kind # "file" /\ UNCHANGED <<fib_depth, open>>
    BY <1>1, <1>2, <2>1, PushedFiles
  <2>2. CASE a.kind = "file"
    BY <1>1, <1>2, <2>2, OpenedFiles
  <2> QED BY <2>1, <2>2
<1> QED BY <1>3, <1>4, <1>5, <1>6, NoCallbacksStay, Assembled

(* The embedding program calls QUIT.                                       *)
LEMMA StartQuitKeeps == ASSUME Inductive, StartQuit PROVE Keeps
<1> DEFINE a == NewAct("quit")
<1>1. /\ nActs = 0 /\ depth = 0 /\ acts' = Append(acts, a)
      /\ UNCHANGED <<handlerVars, sp, rp, tr0>> /\ UNCHANGED <<src, fib_depth, fex, open>>
  BY DEF StartQuit, Push, excVars, machineVars
<1>2. /\ a \in Activation /\ a.kind = "quit" /\ a.depth = depth /\ a.old = src
      /\ a.step = "reset"
  BY NewActIs
<1>3. Owns(a, src')
  BY <1>2 DEF Owns
<1> HIDE DEF a
<1> QED BY <1>1, <1>2, <1>3, TypesAre, BeginKeeps

(* The embedding program, or EVALUATE, evaluates a string.                 *)
LEMMA StringKeeps ==
  ASSUME Inductive, NEW s, NEW st \in {"ready", "loop"},
         \/ nActs = 0 /\ depth = 0 /\ s = acts
         \/ Executing /\ s = NextWord,
         NEW n \in 0..MaxWords, src' = [Empty(Str, SID_STR) EXCEPT !.len = n],
         acts' = Append(s, [NewAct("string") EXCEPT !.step = st]),
         UNCHANGED <<handlerVars, sp, rp, tr0, fib_depth, fex, open>>
  PROVE  Keeps
<1> DEFINE b == NewAct("string")
           a == [b EXCEPT !.step = st]
<1>1. b \in Activation /\ b.kind = "string" /\ b.depth = depth /\ b.old = src
  BY NewActIs
<1> HIDE DEF b
<1>2. /\ a \in Activation /\ a.kind = "string" /\ a.depth = depth /\ a.old = src
      /\ a.step = st
  BY <1>1 DEF Activation
<1>3. src' \in Source /\ src'.buf = Str /\ src'.sid = SID_STR
  BY EmptyIs, NamesAre
<1>4. acts' = Append(s, a) /\ UNCHANGED <<handlerVars, sp, rp, tr0>>
      /\ UNCHANGED <<fib_depth, fex, open>>
  BY DEF b
<1>5. Owns(a, src')
  BY <1>2, <1>3 DEF Owns
<1> HIDE DEF a
<1>6. a.step \notin {"refill", "refilled", "closed"} /\ a.kind # "file" /\ a.kind # "quit"
  BY <1>2
<1>7. UNCHANGED <<fib_depth, open>> /\ fib_depth' = fib_depth /\ fex' = fex /\ open' = open
  BY <1>4
<1> QED BY <1>2, <1>3, <1>4, <1>5, <1>6, <1>7, TypesAre, BeginKeeps

(* The embedding program, or INCLUDED, opens a file.                       *)
LEMMA OpenKeeps ==
  ASSUME Inductive, NEW s,
         \/ nActs = 0 /\ depth = 0 /\ s = acts
         \/ Executing /\ s = NextWord,
         OpenFile(s)
  PROVE  Keeps
<1>1. PICK fd \in (1..MaxFd) \ open :
        /\ open' = open \cup {fd} /\ src' = Empty(fib_depth, fd)
        /\ acts' = Append(s, [NewAct("file") EXCEPT !.slot = fib_depth, !.fd = fd])
  BY DEF OpenFile
<1>2. /\ fex' = OK /\ fib_depth < FIB_MAXDEPTH /\ fib_depth' = fib_depth + 1
      /\ UNCHANGED <<handlerVars, sp, rp, tr0>>
  BY DEF OpenFile, HasBuffer, TakeBuffer
<1>3. /\ fib_depth \in 0..FIB_MAXDEPTH /\ fib_depth' \in 0..FIB_MAXDEPTH
      /\ open' \subseteq 1..MaxFd /\ fex' \in CodeOrOK
  BY <1>1, <1>2, TypesAre, EvalBoundsAssumption DEF CodeOrOK
<1> DEFINE b == NewAct("file")
           a == [b EXCEPT !.slot = fib_depth, !.fd = fd]
<1>4. /\ b \in Activation /\ b.kind = "file" /\ b.depth = depth /\ b.old = src
      /\ b.step = "reset"
  BY NewActIs
<1> HIDE DEF b
<1>5. fd \in 0..MaxFd /\ fib_depth \in 0..Str /\ fd \in 0..SID_STR /\ fd \notin open
  BY <1>1, <1>3, NamesAre
<1>6. /\ a \in Activation /\ a.kind = "file" /\ a.depth = depth /\ a.old = src
      /\ a.step = "reset" /\ a.slot = fib_depth /\ a.fd = fd
  BY <1>3, <1>4, <1>5 DEF Activation
<1>7. 0 \in 0..MaxWords
  BY EvalBoundsAssumption
<1>8. src' \in Source /\ src'.buf = fib_depth /\ src'.sid = fd
  BY <1>1, <1>5, <1>7, EmptyIs
<1>9. Owns(a, src')
  BY <1>6, <1>8 DEF Owns
<1>10. acts' = Append(s, a)
  BY <1>1 DEF b
<1> HIDE DEF a
<1>11. a.step \notin {"refill", "refilled", "closed"} /\ a.kind # "quit"
  BY <1>6
<1>12. /\ a.kind = "file" /\ a.slot = fib_depth /\ a.fd \notin open
       /\ fib_depth' = fib_depth + 1 /\ open' = open \cup {a.fd}
  BY <1>1, <1>2, <1>5, <1>6
<1> QED BY <1>2, <1>3, <1>6, <1>8, <1>9, <1>10, <1>11, <1>12, BeginKeeps
-----------------------------------------------------------------------------
(* The innermost activation takes a step, leaving the handlers alone.      *)
LEMMA SetKeeps ==
  ASSUME Inductive, nActs > 0, NEW a \in Activation, Same(a, act), SetAct(a),
         UNCHANGED handlerVars, sp' \in Cell, rp' \in Cell, tr0' \in Cell, src' \in Source,
         Owns(a, src'), a.step # "closed", act.step # "closed",
         a.step \in Outside => depth = act.depth,
         a.step \in {"refill", "refilled"} => a.caught,
         UNCHANGED <<fib_depth, fex, open>>
  PROVE  Keeps
<1>1. Kept /\ acts'[nActs] = a
  BY SetActIsKept
<1>2. nActs' = nActs /\ act' = a
  BY <1>1 DEF Kept, act, nActs
<1>3. depth' = depth
  BY DEF handlerVars, depth
<1>4. StepFits /\ SourceFits
  BY <1>2, <1>3 DEF StepFits, SourceFits, Same
<1>5. act.step = "closed" <=> acts'[nActs].step = "closed"
  BY <1>1
<1> QED BY <1>1, <1>4, <1>5, StepKeeps

(* Only its step changes.                                                  *)
LEMMA GotoKeeps ==
  ASSUME Inductive, nActs > 0, act.step # "closed",
         NEW s \in {"reset", "ready", "refill", "refilled", "loop", "word"}, Goto(s),
         UNCHANGED handlerVars, sp' \in Cell, rp' \in Cell, tr0' \in Cell, src' \in Source,
         act.kind = "string" => src'.buf = Str /\ src'.sid = SID_STR,
         (act.kind = "quit" /\ s # "reset") => src'.buf = Tib /\ src'.sid = SID_UID,
         act.kind = "file" => src'.buf = act.slot /\ src'.sid = act.fd,
         s \in Outside => depth = act.depth,
         s \in {"refill", "refilled"} => act.caught,
         UNCHANGED <<fib_depth, fex, open>>
  PROVE  Keeps
<1> DEFINE a == [act EXCEPT !.step = s]
<1>1. act \in Activation
  BY ActsAre
<1>2. /\ a \in Activation /\ Same(a, act) /\ a.step = s /\ a.caught = act.caught
      /\ a.kind = act.kind /\ a.slot = act.slot /\ a.fd = act.fd
  BY <1>1 DEF Activation, Same
<1>3. SetAct(a)
  BY DEF Goto
<1> HIDE DEF a
<1>4. Owns(a, src')
  BY <1>2 DEF Owns
<1>5. a.step # "closed"
  BY <1>2
<1> QED BY <1>2, <1>3, <1>4, <1>5, SetKeeps

(* The top of the QUIT loop.                                               *)
LEMMA QuitTopKeeps == ASSUME Inductive, QuitTop PROVE Keeps
<1>1. nActs > 0 /\ depth = act.depth /\ act.kind = "quit" /\ act.step = "reset"
  BY DEF QuitTop, ActIn
<1>2. /\ UNCHANGED handlerVars /\ sp' = sp /\ tr0' = tr0 /\ rp' = R0 /\ Goto("ready")
      /\ src' = Empty(Tib, SID_UID) /\ UNCHANGED <<fib_depth, fex, open>>
  BY DEF QuitTop
<1>3. src' \in Source /\ src'.buf = Tib /\ src'.sid = SID_UID
  <2>1. 0 \in 0..MaxWords
    BY EvalBoundsAssumption
  <2> QED BY <1>2, <2>1, EmptyIs, NamesAre
<1>4. rp' \in Cell
  BY <1>2, EvalBoundsAssumption
<1> QED BY <1>1, <1>2, <1>3, <1>4, TypesAre, GotoKeeps

\* The source is still the same buffer of the same input.
SameSource == src' \in Source /\ src'.buf = src.buf /\ src'.sid = src.sid

(* What may be done to the line.                                           *)
LEMMA SourceMoves ==
  ASSUME src \in Source,
         \/ UNCHANGED src
         \/ Refilled
         \/ src' = [src EXCEPT !.in = 0, !.len = 0]
         \/ src.in < src.len /\ src' = [src EXCEPT !.in = @ + 1]
  PROVE  SameSource
<1>1. MaxWords \in Nat /\ 0 \in 0..MaxWords
  BY EvalBoundsAssumption
<1>2. CASE UNCHANGED src
  BY <1>2 DEF SameSource
<1>3. CASE Refilled
  <2>1. PICK n \in 0..MaxWords : src' = [src EXCEPT !.in = 0, !.len = n]
    BY <1>3 DEF Refilled
  <2> QED BY <1>1, <2>1 DEF SameSource, Source
<1>4. CASE src' = [src EXCEPT !.in = 0, !.len = 0]
  BY <1>1, <1>4 DEF SameSource, Source
<1>5. CASE src.in < src.len /\ src' = [src EXCEPT !.in = @ + 1]
  <2>1. src.in \in 0..MaxWords /\ src.len \in 0..MaxWords
    BY DEF Source
  <2>2. src.in + 1 \in 0..MaxWords
    BY <1>1, <1>5, <2>1
  <2> QED BY <1>5, <2>2 DEF SameSource, Source
<1> QED BY <1>2, <1>3, <1>4, <1>5

(* The innermost activation goes on with the source it has.                *)
LEMMA GoOnKeeps ==
  ASSUME Inductive, nActs > 0, Running, act.step \notin {"reset", "closed"} \/ act.kind = "file",
         act.step # "closed",
         NEW s \in {"ready", "refill", "refilled", "loop", "word"}, Goto(s),
         UNCHANGED handlerVars, sp' \in Cell, UNCHANGED <<rp, tr0>>, SameSource,
         s \in Outside => depth = act.depth,
         s \in {"refill", "refilled"} => act.caught,
         UNCHANGED <<fib_depth, fex, open>>
  PROVE  Keeps
<1>1. Owns(act, src)
  BY RunningIs
<1>2. /\ src' \in Source
      /\ act.kind = "string" => src'.buf = Str /\ src'.sid = SID_STR
      /\ act.kind = "quit" => src'.buf = Tib /\ src'.sid = SID_UID
      /\ act.kind = "file" => src'.buf = act.slot /\ src'.sid = act.fd
  BY <1>1 DEF Owns, SameSource
<1>3. rp' \in Cell /\ tr0' \in Cell
  BY TypesAre
<1> QED BY <1>2, <1>3, GotoKeeps

(* The top of the loop over a file.                                        *)
LEMMA FileTopKeeps == ASSUME Inductive, FileTop PROVE Keeps
<1>1. nActs > 0 /\ Running /\ depth = act.depth /\ act.kind = "file" /\ act.step = "reset"
  BY DEF FileTop, ActIn
<1>2. /\ UNCHANGED handlerVars /\ sp' \in Cell /\ UNCHANGED <<rp, tr0>> /\ Goto("ready")
      /\ src' = [src EXCEPT !.in = 0, !.len = 0] /\ UNCHANGED <<fib_depth, fex, open>>
  BY TypesAre DEF FileTop
<1>3. SameSource
  BY <1>2, TypesAre, SourceMoves
<1> QED BY <1>1, <1>2, <1>3, GoOnKeeps

(* A line is read.                                                         *)
LEMMA RefillThunkKeeps == ASSUME Inductive, RefillThunk PROVE Keeps
<1>1. nActs > 0 /\ Running /\ act.step = "refill"
  BY DEF RefillThunk, ActRuns
<1>2. /\ UNCHANGED handlerVars /\ sp' \in Cell /\ UNCHANGED <<rp, tr0>> /\ Goto("refilled")
      /\ UNCHANGED <<fib_depth, fex, open>>
  BY TypesAre DEF RefillThunk
<1>3. SameSource
  BY TypesAre, SourceMoves DEF RefillThunk
<1>4. act.caught
  BY <1>1, ActsAre DEF Inductive, ActsAreNested
<1> QED BY <1>1, <1>2, <1>3, <1>4, GoOnKeeps DEF Outside

(* A word is parsed.                                                       *)
LEMMA FetchWordKeeps == ASSUME Inductive, FetchWord PROVE Keeps
<1>1. nActs > 0 /\ Running /\ act.step = "loop"
  BY DEF FetchWord, ActRuns
<1>2. /\ UNCHANGED handlerVars /\ sp' \in Cell /\ UNCHANGED <<rp, tr0>> /\ Goto("word")
      /\ UNCHANGED <<fib_depth, fex, open>>
  BY TypesAre DEF FetchWord
<1>3. SameSource
  BY TypesAre, SourceMoves DEF FetchWord
<1> QED BY <1>1, <1>2, <1>3, GoOnKeeps DEF Outside

(* A word is executed and returns.                                         *)
LEMMA WordKeeps ==
  ASSUME Inductive, Executing, acts' = NextWord, UNCHANGED handlerVars,
         sp' \in Cell, UNCHANGED <<rp, tr0>>, SameSource, UNCHANGED <<fib_depth, fex, open>>
  PROVE  Keeps
<1>1. /\ nActs > 0 /\ act.step \in {"loop", "word"} /\ Owns(act, src)
  BY ExecutingIs
<1>2. Kept /\ acts'[nActs].step \in {"loop", "word"} /\ acts' \in Seq(Activation)
  BY NextWordIsKept DEF Kept, GoOn
<1>3. nActs' = nActs /\ act' = acts'[nActs] /\ Same(act', act)
  <2>1. nActs' = nActs /\ nActs \in 1..nActs /\ act = acts[nActs]
    BY <1>1, <1>2, ActsAre DEF Kept
  <2>2. act' = acts'[nActs]
    BY <2>1 DEF act
  <2> QED BY <1>2, <2>1, <2>2 DEF Kept, GoOn
<1>4. Owns(act', src')
  BY <1>1, <1>3 DEF Owns, Same, SameSource
<1>5. StepFits /\ SourceFits
  BY <1>2, <1>3, <1>4 DEF StepFits, SourceFits, Outside
<1>6. rp' \in Cell /\ tr0' \in Cell /\ src' \in Source
  BY TypesAre DEF SameSource
<1> QED BY <1>1, <1>2, <1>5, <1>6, StepKeeps

(* A word that moves the machine.                                          *)
LEMMA PlainWordKeeps == ASSUME Inductive, PlainWord PROVE Keeps
<1>1. /\ Executing /\ acts' = NextWord /\ UNCHANGED handlerVars /\ sp' \in Cell
      /\ UNCHANGED <<rp, tr0>> /\ UNCHANGED src /\ UNCHANGED <<fib_depth, fex, open>>
  BY DEF PlainWord
<1>2. SameSource
  BY <1>1, TypesAre, SourceMoves
<1> QED BY <1>1, <1>2, WordKeeps

(* REFILL reads a line or throws.                                          *)
LEMMA RefillWordKeeps == ASSUME Inductive, RefillWord PROVE Keeps
<1>1. Executing /\ UNCHANGED <<fib_depth, fex, open>>
  BY DEF RefillWord
<1>2. CASE Refilled /\ acts' = NextWord /\ UNCHANGED <<handlerVars, sp, rp, tr0>>
  <2>1. UNCHANGED handlerVars /\ sp' \in Cell /\ UNCHANGED <<rp, tr0>> /\ SameSource
    BY <1>2, TypesAre, SourceMoves
  <2> QED BY <1>1, <1>2, <2>1, WordKeeps
<1>3. CASE (\E e \in ReadErrors : Throw(e)) /\ CutActs(ctx)
  <2>1. PICK e \in ReadErrors : Throw(e)
    BY <1>3
  <2>2. e \in Code
    BY EvalCodesAssumption, CodeAssumption DEF ReadErrors
  <2> QED BY <1>1, <1>3, <2>1, <2>2, TypesAre, ThrowKeeps
<1> QED BY <1>2, <1>3 DEF RefillWord
-----------------------------------------------------------------------------
(* The innermost activation returns.                                       *)
LEMMA PopKeeps ==
  ASSUME Inductive, nActs > 0, Pop, act.depth = depth,
         UNCHANGED handlerVars, sp' \in Cell, UNCHANGED <<rp, tr0>>, src' \in Source,
         nActs > 1 => Owns(acts[nActs - 1], src'),
         UNCHANGED <<fib_depth, fex, open>>
  PROVE  Keeps
<1>1. CutAt(nActs - 1) /\ acts' \in Seq(Activation) /\ UNCHANGED frames
  BY PopIsCut DEF CutAt, handlerVars
<1>2. ActsAreNested' /\ SourcesAreOwn'
  BY <1>1, PoppedActKeeps
<1>3. LinesKept
  <2> DEFINE m == nActs - 1
  <2>1. m \in 0..nActs /\ CutAt(m)
    BY <1>1, ActsAre
  <2> HIDE DEF m
  <2> QED BY <2>1, CutFiles
<1>4. IInv' /\ NoCallbacks'
  BY TypesAre, MachineIInv, SourceAssumption, NoCallbacksStay
<1> QED BY <1>1, <1>2, <1>3, <1>4, TypesAre, Assembled

(* The QUIT loop goes on, or BYE ends it.                                  *)
LEMMA QuitTurnsKeeps == ASSUME Inductive, QuitTurns PROVE Keeps
<1>1. /\ nActs > 0 /\ depth = act.depth /\ act.kind = "quit" /\ Running
      /\ act.step \in {"loop", "word", "refill", "refilled"}
  BY DEF QuitTurns, LineDone, ActGot
<1>2. /\ UNCHANGED handlerVars /\ sp' \in Cell /\ UNCHANGED <<rp, tr0>> /\ UNCHANGED src
      /\ UNCHANGED <<fib_depth, fex, open>>
  BY TypesAre, EvalBoundsAssumption DEF QuitTurns
<1>3. CASE Pop
  <2>1. ~(nActs > 1)
    <3>1. nActs = 1
      BY <1>1, ActsAre DEF Inductive, ActsAreNested
    <3> QED BY <3>1
  <2> QED BY <1>1, <1>2, <1>3, <2>1, TypesAre, PopKeeps
<1>4. CASE SetAct([act EXCEPT !.caught = FALSE, !.step = "reset"])
  <2> DEFINE a == [act EXCEPT !.caught = FALSE, !.step = "reset"]
  <2>1. act \in Activation
    BY <1>1, ActsAre
  <2>2. a \in Activation /\ Same(a, act) /\ a.step = "reset" /\ a.kind = "quit"
    BY <1>1, <2>1 DEF Activation, Same
  <2>3. SetAct(a)
    BY <1>4
  <2> HIDE DEF a
  <2>4. Owns(a, src')
    BY <2>2 DEF Owns
  <2>5. rp' \in Cell /\ tr0' \in Cell /\ src' \in Source
    BY <1>2, TypesAre
  <2> QED BY <1>1, <1>2, <2>2, <2>3, <2>4, <2>5, SetKeeps
<1> QED BY <1>3, <1>4 DEF QuitTurns

(* The loop over the lines of a file goes on.                              *)
LEMMA FileTurnsKeeps == ASSUME Inductive, FileTurns PROVE Keeps
<1>1. /\ nActs > 0 /\ depth = act.depth /\ act.kind = "file" /\ Running
      /\ act.step \in {"loop", "word", "refill", "refilled"}
  BY DEF FileTurns, LineDone, ActGot
<1>2. /\ UNCHANGED handlerVars /\ UNCHANGED <<sp, rp, tr0>> /\ UNCHANGED src
      /\ UNCHANGED <<fib_depth, fex, open>>
  BY DEF FileTurns, excVars, machineVars
<1> DEFINE a == [act EXCEPT !.caught = FALSE, !.step = "reset"]
<1>3. act \in Activation /\ Owns(act, src)
  BY <1>1, ActsAre, RunningIs
<1>4. a \in Activation /\ Same(a, act) /\ a.step = "reset"
  BY <1>3 DEF Activation, Same
<1>5. SetAct(a)
  BY DEF FileTurns
<1> HIDE DEF a
<1>6. Owns(a, src')
  BY <1>1, <1>2, <1>3, <1>4 DEF Owns, Same
<1>7. sp' \in Cell /\ rp' \in Cell /\ tr0' \in Cell /\ src' \in Source
  BY <1>2, TypesAre
<1> QED BY <1>1, <1>2, <1>4, <1>5, <1>6, <1>7, SetKeeps

(* A file is evaluated to its end, or to an exception.                     *)
LEMMA FileEndsKeeps == ASSUME Inductive, FileEnds PROVE Keeps
<1>1. /\ nActs > 0 /\ depth = act.depth /\ act.kind = "file" /\ Running
      /\ act.step \in {"loop", "word", "refill", "refilled"}
  BY DEF FileEnds, LineDone, ActGot
<1> DEFINE ended == IF result = EOF THEN OK ELSE result
<1>2. /\ fib_depth' = fib_depth - 1 /\ open' = open \ {act.fd} /\ src' = act.old
      /\ UNCHANGED <<handlerVars, sp, rp, tr0>>
      /\ fex' = IF fex = OK THEN ended ELSE fex
  BY DEF FileEnds, ReleaseBuffer, PutSourceBack
<1>3. PICK close \in {OK, IOERR} :
        SetAct([act EXCEPT !.caught = FALSE, !.step = "closed", !.ended = ended,
                           !.report = IF close # OK THEN close ELSE fex'])
  BY DEF FileEnds
<1>4. ended \in CodeOrOK /\ fex' \in CodeOrOK /\ close \in CodeOrOK
  <2>1. OK \in CodeOrOK /\ IOERR \in CodeOrOK
    BY EvalCodesAssumption DEF CodeOrOK
  <2>2. ended \in CodeOrOK
    BY <2>1, TypesAre
  <2> HIDE DEF ended
  <2> QED BY <1>2, <1>3, <2>1, <2>2, TypesAre
<1> DEFINE r == IF close # OK THEN close ELSE fex'
<1>5. r \in CodeOrOK
  BY <1>4
<1> HIDE DEF ended, r
<1> DEFINE a == [act EXCEPT !.caught = FALSE, !.step = "closed", !.ended = ended,
                            !.report = r]
<1>6. act \in Activation /\ act = acts[nActs] /\ nActs \in Nat
  BY <1>1, ActsAre
<1>7. a \in Activation /\ Same(a, act) /\ a.step = "closed"
  BY <1>4, <1>5, <1>6 DEF Activation, Same
<1>8. SetAct(a)
  BY <1>3 DEF r
<1> HIDE DEF a
<1>9. Kept /\ acts'[nActs] = a /\ acts' \in Seq(Activation)
  BY <1>1, <1>7, <1>8, SetActIsKept DEF Kept, GoOn
<1>10. nActs' = nActs /\ act' = a
  BY <1>9 DEF Kept, act, nActs
<1>11. src' \in Source /\ UNCHANGED handlerVars /\ UNCHANGED frames /\ depth' = depth
  BY <1>2, <1>6 DEF Activation, handlerVars, depth
<1>12. nActs > 1 => Owns(acts'[nActs - 1], src')
  <2> SUFFICES ASSUME nActs > 1 PROVE Owns(acts'[nActs - 1], act.old)
    BY <1>2
  <2> DEFINE i == nActs - 1
  <2>1. i \in 1..nActs /\ i # nActs /\ i + 1 = nActs
    BY <1>6
  <2>2. acts'[i] = acts[i]
    BY <1>9, <2>1 DEF Kept, GoOn
  <2>3. Owns(acts[i], acts[i + 1].old)
    BY <2>1 DEF Inductive, SourcesAreOwn
  <2> QED BY <1>6, <2>1, <2>2, <2>3
<1>13. StepFits /\ SourceFits
  <2>1. Owns(a, src')
    BY <1>1, <1>7 DEF Owns, Same
  <2> QED BY <1>1, <1>7, <1>10, <1>11, <1>12, <2>1 DEF StepFits, SourceFits, Same
<1>14. ActsAreNested' /\ SourcesAreOwn'
  BY <1>9, <1>11, <1>13, KeptKeeps
<1>15. LinesKept /\ fib_depth' \in Nat
  <2>1. act.step # "closed" /\ acts'[nActs].step = "closed"
    BY <1>1, <1>7, <1>9
  <2> QED BY <1>1, <1>2, <1>9, <2>1, ClosedFiles
<1>16. fib_depth' \in 0..FIB_MAXDEPTH /\ open' \subseteq 1..MaxFd
  BY <1>2, <1>15, TypesAre, EvalBoundsAssumption
<1>17. IInv' /\ NoCallbacks'
  BY <1>2, <1>11, TypesAre, MachineIInv, SourceAssumption, NoCallbacksStay
<1> QED BY <1>4, <1>9, <1>14, <1>15, <1>16, <1>17, Assembled

(* A string is evaluated to its end.                                       *)
LEMMA StringEndsKeeps == ASSUME Inductive, StringEnds PROVE Keeps
<1>1. nActs > 0 /\ depth = act.depth
  BY DEF StringEnds, ActIn, ActGot
<1>2. /\ src' = act.old /\ Pop /\ UNCHANGED handlerVars /\ sp' \in Cell
      /\ UNCHANGED <<rp, tr0>> /\ UNCHANGED <<fib_depth, fex, open>>
  BY TypesAre DEF StringEnds, PutSourceBack
<1>3. act \in Activation /\ act = acts[nActs] /\ nActs \in Nat
  BY <1>1, ActsAre
<1>4. src' \in Source
  BY <1>2, <1>3 DEF Activation
<1>5. nActs > 1 => Owns(acts[nActs - 1], src')
  <2> SUFFICES ASSUME nActs > 1 PROVE Owns(acts[nActs - 1], act.old)
    BY <1>2
  <2> DEFINE i == nActs - 1
  <2>1. i \in 1..nActs /\ i # nActs /\ i + 1 = nActs
    BY <1>3
  <2>2. Owns(acts[i], acts[i + 1].old)
    BY <2>1 DEF Inductive, SourcesAreOwn
  <2> QED BY <1>3, <2>1, <2>2
<1> QED BY <1>1, <1>2, <1>4, <1>5, PopKeeps

(* INCLUDED returns, or throws what it has to report.                      *)
LEMMA IncludedReturnsKeeps == ASSUME Inductive, IncludedReturns PROVE Keeps
<1>1. /\ nActs > 0 /\ depth = act.depth /\ act.step = "closed"
      /\ UNCHANGED <<fib_depth, fex, open>>
  BY DEF IncludedReturns, ActIn
<1>2. act \in Activation
  BY <1>1, ActsAre
<1>3. CASE act.report # OK /\ Throw(act.report) /\ CutActs(ctx)
  <2>1. act.report \in Code
    BY <1>2, <1>3 DEF Activation, CodeOrOK
  <2> DEFINE e == act.report
  <2>2. e \in Code /\ Throw(e)
    BY <1>3, <2>1
  <2> HIDE DEF e
  <2> QED BY <1>1, <1>3, <2>2, TypesAre, ThrowKeeps
<1>4. CASE Pop /\ UNCHANGED excVars
  <2>1. /\ UNCHANGED handlerVars /\ sp' \in Cell /\ UNCHANGED <<rp, tr0>> /\ src' = src
        /\ src' \in Source
    BY <1>4, TypesAre DEF excVars, machineVars
  <2>2. nActs > 1 => Owns(acts[nActs - 1], src')
    BY <1>1, <2>1 DEF Inductive, SourcesAreOwn
  <2> QED BY <1>1, <1>4, <2>1, <2>2, PopKeeps
<1> QED BY <1>3, <1>4 DEF IncludedReturns
-----------------------------------------------------------------------------
(* Every way to throw but that of INCLUDED with a file it has closed.      *)
LEMMA ThrowsKeep ==
  ASSUME Inductive, RefillFails \/ ThrowWord \/ IncludedFails \/ Interrupt
  PROVE  Keeps
<1>1. \A e \in ReadErrors : e \in Code
  BY EvalCodesAssumption, CodeAssumption DEF ReadErrors
<1>2. CASE RefillFails
  BY <1>1, <1>2, TypesAre, ThrowKeeps DEF RefillFails
<1>3. CASE ThrowWord
  BY <1>3, EvalCodesAssumption, TypesAre, ThrowKeeps DEF ThrowWord
<1>4. CASE IncludedFails
  <2> DEFINE e == IF HasBuffer THEN IOERR ELSE INCFOVERFLOW
  <2>1. e \in Code /\ fex' \in CodeOrOK
    BY <1>4, EvalCodesAssumption DEF IncludedFails, CodeOrOK
  <2>2. Throw(e) /\ CutActs(ctx) /\ UNCHANGED <<fib_depth, open>>
    BY <1>4 DEF IncludedFails
  <2> HIDE DEF e
  <2> QED BY <2>1, <2>2, ThrowKeeps
<1>5. CASE Interrupt
  BY <1>5, EvalCodesAssumption, TypesAre, ThrowKeeps DEF Interrupt
<1> QED BY <1>2, <1>3, <1>4, <1>5

(* A handler is set up around what the activation does next.               *)
LEMMA CaughtKeeps ==
  ASSUME Inductive, Catch, nActs > 0, act.step \notin {"reset", "closed"},
         NEW s \in {"refill", "loop"},
         SetAct([act EXCEPT !.caught = TRUE, !.step = s]),
         UNCHANGED <<fib_depth, fex, open>>
  PROVE  Keeps
<1> DEFINE a == [act EXCEPT !.caught = TRUE, !.step = s]
<1>1. act \in Activation
  BY ActsAre
<1>2. a \in Activation /\ Same(a, act) /\ a.step = s /\ a.caught
  BY <1>1 DEF Activation, Same
<1>3. SetAct(a)
  OBVIOUS
<1> HIDE DEF a
<1>4. Kept /\ acts'[nActs] = a
  BY <1>2, <1>3, SetActIsKept
<1> QED BY <1>2, <1>4, CatchKeeps

(* Every way to set up a handler.                                          *)
LEMMA CatchesKeep ==
  ASSUME Inductive, BeginRefill \/ BeginLoop \/ CatchString \/ CatchWord
  PROVE  Keeps
<1>1. CASE BeginRefill
  BY <1>1, CaughtKeeps DEF BeginRefill, ActIn
<1>2. CASE CatchString
  BY <1>2, CaughtKeeps DEF CatchString, ActIn
<1>3. CASE BeginLoop
  <2>1. /\ Catch /\ nActs > 0 /\ act.step = "refill" /\ Goto("loop")
        /\ UNCHANGED <<fib_depth, fex, open>>
    BY <1>3 DEF BeginLoop, ActGot
  <2>2. Kept /\ acts'[nActs].step = "loop"
    BY <2>1, GotoIsKept
  <2> QED BY <2>1, <2>2, CatchKeeps
<1>4. CASE CatchWord
  <2>1. /\ Catch /\ Executing /\ acts' = NextWord /\ UNCHANGED <<fib_depth, fex, open>>
    BY <1>4 DEF CatchWord
  <2>2. nActs > 0 /\ act.step \in {"loop", "word"}
    BY <2>1, ExecutingIs
  <2>3. Kept /\ acts'[nActs].step \in {"loop", "word"}
    BY <2>1, NextWordIsKept
  <2> QED BY <2>1, <2>2, <2>3, CatchKeeps
<1> QED BY <1>1, <1>2, <1>3, <1>4

(* With a frame above the innermost activation, each has one above it.     *)
LEMMA AllAreBelow ==
  ASSUME Inductive, nActs > 0, act.depth < depth
  PROVE  /\ \A i \in 1..nActs : acts[i].depth < depth
         /\ act.step \notin Outside
<1>1. /\ nActs \in Nat /\ depth \in Nat /\ nActs \in 1..nActs /\ act = acts[nActs]
      /\ \A i \in 1..nActs : acts[i].depth \in Nat
  BY ActsAre
<1>2. ASSUME NEW i \in 1..nActs PROVE acts[i].depth < depth
  <2>1. CASE i = nActs
    BY <1>1, <2>1
  <2>2. CASE i # nActs
    <3>1. i < nActs
      BY <1>1, <2>2
    <3>2. acts[i].depth <= acts[nActs].depth
      BY <1>1, <3>1 DEF Inductive, ActsAreNested
    <3>3. acts[i].depth \in Nat /\ act.depth \in Nat
      BY <1>1
    <3> QED BY <1>1, <3>2, <3>3
  <2> QED BY <2>1, <2>2
<1>3. act.depth # depth
  BY <1>1
<1> QED BY <1>1, <1>2, <1>3 DEF Inductive, ActsAreNested

(* Every way to leave a handler without a throw.                           *)
LEMMA ReturnsKeep ==
  ASSUME Inductive, RefillReturns \/ LoopEnds \/ CatchWordReturns
  PROVE  Keeps
<1>1. nActs > 0 /\ ReturnNormally /\ UNCHANGED <<fib_depth, fex, open>>
  BY DEF RefillReturns, LoopEnds, CatchWordReturns, ActRuns, evalVars
<1>2. /\ depth \in Nat /\ act.depth \in Nat /\ nActs \in 1..nActs /\ act = acts[nActs]
      /\ nActs \in Nat
  BY <1>1, ActsAre
<1>3. act.depth < depth
  <2>1. CASE CatchWordReturns
    <3>1. depth > base /\ (base = act.depth \/ base = act.depth + 1)
      BY <1>2, <2>1 DEF CatchWordReturns, base
    <3> QED BY <1>2, <3>1
  <2>2. CASE RefillReturns \/ LoopEnds
    <3>1. depth = base /\ act.caught
      <4>1. CASE RefillReturns
        BY <1>2, <4>1 DEF RefillReturns, ActRuns, Inductive, ActsAreNested
      <4>2. CASE LoopEnds
        BY <4>2 DEF LoopEnds, ActRuns
      <4> QED BY <2>2, <4>1, <4>2
    <3>2. depth = act.depth + 1
      BY <3>1 DEF base
    <3> QED BY <1>2, <3>2
  <2> QED BY <2>1, <2>2
<1>4. (\A i \in 1..nActs : acts[i].depth < depth) /\ act.step \notin Outside
  BY <1>1, <1>3, AllAreBelow
<1>5. /\ Kept /\ acts'[nActs].step \notin Outside
      /\ acts'[nActs].step \in {"refill", "refilled"} => acts'[nActs].caught
  <2>1. CASE RefillReturns
    <3>1. act.step = "refilled" /\ Goto("refill")
      BY <2>1 DEF RefillReturns, ActRuns
    <3>2. act.caught
      BY <1>2, <3>1 DEF Inductive, ActsAreNested
    <3>3. Kept /\ acts'[nActs].step = "refill" /\ acts'[nActs].caught = act.caught
      BY <1>1, <3>1, GotoIsKept
    <3> QED BY <3>2, <3>3 DEF Outside
  <2>2. CASE LoopEnds \/ CatchWordReturns
    <3>1. UNCHANGED acts
      BY <2>2 DEF LoopEnds, CatchWordReturns, evalVars
    <3>2. Kept
      BY <3>1, UnchangedIsKept
    <3> QED BY <1>2, <1>4, <3>1, <3>2 DEF Inductive, ActsAreNested
  <2> QED BY <2>1, <2>2
<1>6. nActs' = nActs /\ act' = acts'[nActs]
  BY <1>5 DEF Kept, act, nActs
<1>7. StepFits
  BY <1>5, <1>6 DEF StepFits
<1> QED BY <1>1, <1>4, <1>5, <1>7, ReturnKeeps

(* Every way to begin an evaluation.                                       *)
LEMMA BeginningsKeep ==
  ASSUME Inductive, StartQuit \/ StartEvaluate \/ StartPath \/ EvaluateWord \/ IncludedWord
  PROVE  Keeps
<1>1. CASE StartQuit
  BY <1>1, StartQuitKeeps
<1>2. CASE StartEvaluate
  <2>1. PICK n \in 0..MaxWords : src' = [Empty(Str, SID_STR) EXCEPT !.len = n]
    BY <1>2 DEF StartEvaluate
  <2>2. acts' = Append(acts, [NewAct("string") EXCEPT !.step = "ready"])
    BY <1>2 DEF StartEvaluate, Push
  <2> QED BY <1>2, <2>1, <2>2, StringKeeps DEF StartEvaluate
<1>3. CASE EvaluateWord
  <2>1. PICK n \in 0..MaxWords : src' = [Empty(Str, SID_STR) EXCEPT !.len = n]
    BY <1>3 DEF EvaluateWord
  <2> QED BY <1>3, <2>1, StringKeeps DEF EvaluateWord
<1>4. CASE StartPath
  BY <1>4, OpenKeeps DEF StartPath
<1>5. CASE IncludedWord
  BY <1>5, OpenKeeps DEF IncludedWord
<1> QED BY <1>1, <1>2, <1>3, <1>4, <1>5

(* A stuttering step.                                                      *)
LEMMA StutterKeeps == ASSUME Inductive, UNCHANGED vars PROVE Keeps
<1>1. /\ UNCHANGED handlerVars /\ UNCHANGED <<sp, rp, tr0>> /\ src' = src /\ UNCHANGED acts
      /\ UNCHANGED <<fib_depth, fex, open>> /\ UNCHANGED frames
  BY DEF vars, excVars, evalVars, handlerVars, machineVars
<1>2. nActs' = nActs /\ acts' = acts /\ act' = act /\ depth' = depth /\ top' = top
  BY <1>1 DEF nActs, act, depth, top
<1>3. Kept
  BY <1>1, UnchangedIsKept
<1>4. nActs > 0 => act = acts[nActs] /\ nActs \in 1..nActs
  BY ActsAre
<1>5. StepFits /\ SourceFits
  BY <1>1, <1>2, <1>4 DEF StepFits, SourceFits, Inductive, ActsAreNested, SourcesAreOwn
<1>6. sp' \in Cell /\ rp' \in Cell /\ tr0' \in Cell /\ src' \in Source
  BY <1>1, TypesAre
<1>7. nActs > 0 => (act.step = "closed" <=> acts'[nActs].step = "closed")
  BY <1>2, <1>4
<1> QED BY <1>1, <1>3, <1>5, <1>6, <1>7, StepKeeps

(* Every step keeps the invariant and accounts for each buffer and handle. *)
LEMMA NextKeeps == ASSUME Inductive, [Next]_vars PROVE Keeps
<1>1. CASE UNCHANGED vars
  BY <1>1, StutterKeeps
<1>2. CASE StartQuit \/ StartEvaluate \/ StartPath \/ EvaluateWord \/ IncludedWord
  BY <1>2, BeginningsKeep
<1>3. CASE QuitTop \/ FileTop \/ RefillThunk \/ FetchWord
  BY <1>3, QuitTopKeeps, FileTopKeeps, RefillThunkKeeps, FetchWordKeeps
<1>4. CASE BeginRefill \/ BeginLoop \/ CatchString \/ CatchWord
  BY <1>4, CatchesKeep
<1>5. CASE RefillReturns \/ LoopEnds \/ CatchWordReturns
  BY <1>5, ReturnsKeep
<1>6. CASE RefillFails \/ ThrowWord \/ IncludedFails \/ Interrupt
  BY <1>6, ThrowsKeep
<1>7. CASE PlainWord \/ RefillWord
  BY <1>7, PlainWordKeeps, RefillWordKeeps
<1>8. CASE QuitTurns \/ FileTurns \/ FileEnds \/ StringEnds \/ IncludedReturns
  BY <1>8, QuitTurnsKeeps, FileTurnsKeeps, FileEndsKeeps, StringEndsKeeps, IncludedReturnsKeeps
<1>9. CASE Land
  BY <1>9, LandKeeps
<1> QED BY <1>1, <1>2, <1>3, <1>4, <1>5, <1>6, <1>7, <1>8, <1>9 DEF Next, Words

(* The task as e4__task_create leaves it.                                  *)
LEMMA InitInductive == EvalInit => Inductive
<1> SUFFICES ASSUME EvalInit PROVE Inductive
  OBVIOUS
<1>1. IInv /\ frames = <<>> /\ then = NoCallback
  BY InitIInv DEF EvalInit, ExcInit
<1>2. acts = <<>> /\ acts \in Seq(Activation) /\ nActs = 0 /\ depth = 0
  BY <1>1, EmptySeq DEF EvalInit, nActs, depth
<1>3. fib_depth \in 0..FIB_MAXDEPTH /\ fex \in CodeOrOK /\ open \subseteq 1..MaxFd
  BY EvalBoundsAssumption DEF EvalInit, CodeOrOK
<1>4. ActsAreNested /\ SourcesAreOwn /\ NoCallbacks
  BY <1>1, <1>2 DEF ActsAreNested, SourcesAreOwn, NoCallbacks
<1>5. Files = {}
  BY <1>2 DEF Files
<1>6. LinesAreSafe /\ BuffersAreStacked
  BY <1>5 DEF LinesAreSafe, BuffersAreStacked
<1> QED BY <1>1, <1>2, <1>3, <1>4, <1>6 DEF Inductive, IInv, EvalTypeOK

(* The invariant is one.                                                   *)
LEMMA AlwaysInductive == Spec => []Inductive
<1>1. Inductive /\ [Next]_vars => Inductive'
  BY NextKeeps DEF Keeps
<1> QED BY <1>1, InitInductive, PTL DEF Spec

(* No line that is still to be interpreted is read over, and the handlers  *)
(* under the evaluation are right, whatever nests in whatever.             *)
THEOREM LinesAreNeverReadOver == Spec => []EvalInv
<1>1. Inductive => EvalInv
  BY DEF Inductive, IInv, EvalInv
<1> QED BY <1>1, AlwaysInductive, PTL

(* Whoever executes reads its own input, after any catch, throw or return. *)
THEOREM SourcesStayOwn == Spec => []SourceIsOwn
<1>1. Inductive => SourceIsOwn
  <2> SUFFICES ASSUME Inductive, nActs > 0, Running
               PROVE  CASE act.kind = "string" -> src.buf = Str /\ src.sid = SID_STR
                        [] act.kind = "quit" /\ act.step # "reset" ->
                             src.buf = Tib /\ src.sid = SID_UID
                        [] act.kind = "file" /\ act.step # "closed" ->
                             src.buf = act.slot /\ src.sid = act.fd
                        [] OTHER -> TRUE
    BY DEF SourceIsOwn
  <2>1. Owns(act, src)
    BY RunningIs
  <2>2. act \in Activation
    BY ActsAre
  <2> QED BY <2>1 DEF Owns
<1> QED BY <1>1, AlwaysInductive, PTL

(* An evaluation that returns gives back its own buffer and handle, and no *)
(* other; what is lost is lost to a jump over the function that held it.   *)
THEOREM LeaksAreJumps == Spec => LeaksOnlyByJumps
<1>1. Inductive /\ [Next]_vars
        => [/\ fib_depth' - Cardinality(Files') =
                 fib_depth - Cardinality(Files) + Cardinality(JumpedOver)
            /\ Leaked' = Leaked \cup {acts[i].fd : i \in JumpedOver}]_vars
  BY NextKeeps DEF Keeps, Accounted
<1> QED BY <1>1, AlwaysInductive, PTL DEF Spec, LeaksOnlyByJumps
=============================================================================
