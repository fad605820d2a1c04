--------------------------- MODULE ThreadsProofs ----------------------------
(***************************************************************************)
(* Compiled words return to their callers and no items of the return stack *)
(* are lost or mixed up, however deep definitions, EXECUTE, DOES> code and *)
(* CATCH nest and wherever they fail or are interrupted, for every size of *)
(* the return stack; and the one return stack implements a stack of        *)
(* definitions (module CallStack), step by step.                           *)
(***************************************************************************)
EXTENDS Threads, SequenceTheorems, FiniteSetTheorems, TLAPS

\* The words that put what is not theirs on the return stack when there is
\* no handler; under one they only throw.
Loose == {"abort", "quit", "does full"}

\* The hypothesis of this module's theorems.
HandlersForLooseWords == Uncaught \cap Loose = {}

\* The definitions that activation k of e4__execute_threaded returns from.
FirstOf(k) == loops[k].level + 1
LastOf(k)  == loops[k].level + loops[k].depth
EndOfLoop(k) == IF k < Len(loops) THEN loops[k + 1].level ELSE level

\* Cells taken by a definition that was started `by' this.
Header(by) == IF by \in {"execute", "catch"} THEN 3 ELSE 2

(* What activation k knows of the definitions it runs: how many there are, *)
(* and the stack, the root and the handler to go back to.                  *)
Activation(k) ==
  /\ loops[k].depth >= 1 /\ LastOf(k) = EndOfLoop(k)
  /\ loops[k].by \in {"plain", "caught"} <=> k = 1
  /\ loops[k].tr0 = RootAt(loops[k].level)
  /\ loops[k].rp = calls[FirstOf(k)].rp + IF loops[k].by = "catch" THEN 1 ELSE 0
  /\ calls[FirstOf(k)].root = calls[FirstOf(k)].rp + Header(loops[k].by)
  /\ \A i \in FirstOf(k) + 1 .. LastOf(k) : calls[i].root = calls[i].rp + 2
  /\ loops[k].handler \in 0..k
  /\ loops[k].handler # 0 => loops[loops[k].handler].by \in {"caught", "catch"}

(* Each activation returns from definitions of its own, and the outermost  *)
(* one runs the first.                                                     *)
ActivationsAreNested ==
  /\ \A k \in 1..Len(loops) : Activation(k)
  /\ \A j, k \in 1..Len(loops) : j < k => LastOf(j) <= loops[k].level
  /\ loops # <<>> => loops[1].level = 0
  /\ loops = <<>> => level = 0

\* The frames lie above each other, the first at the bottom.
FramesAreNested ==
  /\ \A i \in 1..level : calls[i].root <= rp
  /\ \A i, j \in 1..level : i < j => calls[i].root <= calls[j].rp
  /\ level > 0 => calls[1].rp = 0

\* An instruction has an activation that runs it, and one that might put
\* what is not its own on the stack has a handler.
InstructionsAreRun ==
  /\ instr # None => loops # <<>>
  /\ instr \in Loose => Valid

(* The inductive invariant.                                                *)
Inductive ==
  /\ ThreadsTypeOK /\ ReturnsToCaller /\ FramesAreWhole
  /\ FramesAreNested /\ ActivationsAreNested /\ InstructionsAreRun

-----------------------------------------------------------------------------
\* An interval in another.
LEMMA Inside ==
  ASSUME NEW a \in Nat, NEW b \in Int, NEW c \in Nat, b <= c
  PROVE  \A j \in a + 1 .. b : j \in 1..c
OBVIOUS

\* What the helpers on stacks return.
LEMMA CutIs ==
  ASSUME NEW S, NEW s \in Seq(S), NEW k \in 0..Len(s)
  PROVE  /\ Cut(s, k) \in Seq(S) /\ Len(Cut(s, k)) = k
         /\ \A i \in 1..k : Cut(s, k)[i] = s[i]
BY DEF Cut

\* The rest of a sequence, which lacks its last element,
LEMMA RestIs ==
  ASSUME NEW S, NEW s \in Seq(S), Len(s) > 0
  PROVE  /\ Rest(s) = Cut(s, Len(s) - 1)
         /\ Rest(s) \in Seq(S) /\ Len(Rest(s)) = Len(s) - 1
         /\ \A i \in 1..Len(s) - 1 : Rest(s)[i] = s[i]
<1>1. s # <<>> /\ Len(s) - 1 \in 0..Len(s)
  OBVIOUS
<1>2. Rest(s) = Cut(s, Len(s) - 1)
  BY <1>1 DEF Rest
<1> QED BY <1>1, <1>2, CutIs

\* the stack with rp set back to a position it has passed,
LEMMA SetRpIs ==
  ASSUME NEW s \in Seq(Item), NEW k \in 0..Len(s)
  PROVE  /\ SetRp(s, k) \in Seq(Item) /\ Len(SetRp(s, k)) = k
         /\ \A i \in 1..k : SetRp(s, k)[i] = s[i]
<1>1. SetRp(s, k) = [i \in 1..k |-> s[i]]
  BY DEF SetRp, Wild
<1> QED BY <1>1

\* and its topmost cell.
LEMMA TopIs ==
  ASSUME NEW s \in Seq(Item), Len(s) > 0
  PROVE  Top(s) = s[Len(s)]
BY DEF Top

\* Returning from above the root takes the topmost address.
LEMMA ReturnedIs ==
  ASSUME NEW s \in Seq(Item), NEW r \in Nat, NEW d \in Nat, Len(s) > r, s[Len(s)] = Ret(d)
  PROVE  /\ Returned(s, r).ip = d
         /\ Returned(s, r).rs \in Seq(Item) /\ Len(Returned(s, r).rs) = Len(s) - 1
         /\ \A i \in 1..Len(s) - 1 : Returned(s, r).rs[i] = s[i]
<1>1. Len(s) > 0 /\ Len(s) # r
  OBVIOUS
<1>2. Returned(s, r) = [rs |-> Rest(s), ip |-> Address(Top(s))]
  BY <1>1 DEF Returned
<1>3. Address(Top(s)) = d
  BY <1>1, TopIs DEF Address, Ret
<1>4. /\ Rest(s) \in Seq(Item) /\ Len(Rest(s)) = Len(s) - 1
      /\ \A i \in 1..Len(s) - 1 : Rest(s)[i] = s[i]
  BY <1>1, RestIs
<1> HIDE DEF Item
<1> QED BY <1>2, <1>3, <1>4

\* The items that are put on the return stack.
LEMMA ItemsAre ==
  /\ \A d \in Int : Ret(d) \in Item /\ Root(d) \in Item
  /\ Data \in Item /\ Junk \in Item
BY DEF Ret, Root, Data, Junk, Item

\* The invariant, as the numbers it is about.
LEMMA Facts ==
  ASSUME Inductive
  PROVE  /\ rs \in Seq(Item) /\ rp \in Nat /\ rp = Len(rs) /\ rp <= MaxR /\ MaxR \in Nat
         /\ level \in Nat /\ level = Len(calls) /\ calls \in Calls
         /\ loops \in Seq(Loop)
         /\ tr0 = RootAt(level)
         /\ \A i \in 1..level : /\ calls[i].rp \in Nat /\ calls[i].root \in Nat
                                /\ RootAt(i) = calls[i].root
                                /\ calls[i].rp + 2 <= calls[i].root /\ calls[i].root <= rp
         /\ RootAt(0) = 0
<1>1. /\ rs \in Seq(Item) /\ calls \in Calls /\ loops \in Seq(Loop) /\ rp <= MaxR
      /\ MaxR \in Nat /\ rp = Len(rs) /\ level = Len(calls) /\ tr0 = RootAt(level)
  BY SizeAssumption DEF Inductive, ThreadsTypeOK, FramesAreWhole, rp, level
<1>2. rp \in Nat /\ level \in Nat
  BY <1>1, LenProperties DEF Calls
<1>3. ASSUME NEW i \in 1..level
      PROVE  /\ calls[i].rp \in Nat /\ calls[i].root \in Nat /\ RootAt(i) = calls[i].root
             /\ calls[i].rp + 2 <= calls[i].root /\ calls[i].root <= rp
  <2>1. calls[i] \in [rp : Nat, root : Nat]
    BY <1>1, <1>2, ElementOfSeq DEF Calls
  <2>2. calls[i].rp < calls[i].root - 1 /\ calls[i].root <= rp
    BY DEF Inductive, FramesAreWhole, Framed, FramesAreNested
  <2>3. i # 0
    BY <1>2
  <2> QED BY <2>1, <2>2, <2>3 DEF RootAt
<1>4. RootAt(0) = 0
  BY DEF RootAt
<1> QED BY <1>1, <1>2, <1>3, <1>4

-----------------------------------------------------------------------------
\* What is known of the frame of definition i.
LEMMA FrameIs ==
  ASSUME Inductive, NEW i \in 1..level
  PROVE  /\ RootAt(CallerOf(i)) \in Nat /\ RootAt(CallerOf(i)) <= calls[i].rp
         /\ \A j \in calls[i].rp + 1 .. calls[i].root - 1 : rs[j] = Ret(CallerOf(i))
         /\ rs[calls[i].root] = Root(RootAt(CallerOf(i)))
         /\ EndOf(i) \in Nat /\ calls[i].root <= EndOf(i) /\ EndOf(i) <= rp
         /\ \A j \in calls[i].root + 1 .. EndOf(i) :
              rs[j] = Data \/ (instr = "unwind" /\ j = rp /\ i = level)
<1>1. Framed(i)
  BY DEF Inductive, FramesAreWhole
<1>2. /\ level \in Nat /\ rp \in Nat
      /\ \A d \in 1..level : /\ calls[d].rp \in Nat /\ calls[d].root \in Nat
                             /\ RootAt(d) = calls[d].root
                             /\ calls[d].rp + 2 <= calls[d].root /\ calls[d].root <= rp
      /\ RootAt(0) = 0
  BY Facts
<1>3. CallerOf(i) = i - 1
  BY DEF CallerOf
<1>4. RootAt(i - 1) \in Nat /\ RootAt(i - 1) <= calls[i].rp
  <2>1. CASE i = 1
    BY <2>1, <1>2
  <2>2. CASE i # 1
    <3>1. i - 1 \in 1..level /\ i - 1 < i
      BY <1>2, <2>2
    <3>2. calls[i - 1].root <= calls[i].rp
      BY <3>1 DEF Inductive, FramesAreNested
    <3> QED BY <1>2, <3>1, <3>2
  <2> QED BY <2>1, <2>2
<1>5. EndOf(i) \in Nat /\ EndOf(i) <= rp
  <2>1. CASE i < level
    <3>1. i + 1 \in 1..level /\ EndOf(i) = calls[i + 1].rp
      BY <1>2, <2>1 DEF EndOf
    <3>2. calls[i + 1].rp \in Nat /\ calls[i + 1].root \in Nat
          /\ calls[i + 1].rp + 2 <= calls[i + 1].root /\ calls[i + 1].root <= rp
      BY <1>2, <3>1
    <3> QED BY <1>2, <3>1, <3>2
  <2>2. CASE ~(i < level)
    BY <1>2, <2>2 DEF EndOf
  <2> QED BY <2>1, <2>2
<1> QED BY <1>1, <1>3, <1>4, <1>5 DEF Framed

\* All definitions but the first m are left.  One that is unwound leaves the
\* address it would have returned to.
Dropped(m) ==
  /\ calls' = Cut(calls, m) /\ rs' \in Seq(Item)
  /\ \A j \in 1..calls[m + 1].rp : rs'[j] = rs[j]
  /\ \/ Len(rs') = calls[m + 1].rp
     \/ /\ m > 0 /\ instr' = "unwind"
        /\ Len(rs') = calls[m + 1].rp + 1 /\ rs'[Len(rs')] # Data

\* Definitions are left: those that remain find their frames as they were.
LEMMA FramesDropped ==
  ASSUME Inductive, NEW m \in 0..level - 1, Dropped(m), tr0' = RootAt(m)
  PROVE  FramesAreWhole' /\ FramesAreNested'
<1>a. /\ rs' \in Seq(Item) /\ calls' = Cut(calls, m)
      /\ \A j \in 1..calls[m + 1].rp : rs'[j] = rs[j]
      /\ \/ Len(rs') = calls[m + 1].rp
         \/ m > 0 /\ instr' = "unwind" /\ Len(rs') = calls[m + 1].rp + 1
  BY DEF Dropped
<1>1. /\ level \in Nat /\ rp \in Nat /\ m \in Nat /\ m < level /\ m + 1 \in 1..level
      /\ calls \in Calls /\ level = Len(calls)
      /\ \A d \in 1..level : /\ calls[d].rp \in Nat /\ calls[d].root \in Nat
                             /\ RootAt(d) = calls[d].root
                             /\ calls[d].rp + 2 <= calls[d].root /\ calls[d].root <= rp
      /\ RootAt(0) = 0
  BY Facts
<1>2. level' = m /\ \A i \in 1..m : calls'[i] = calls[i]
  <2>1. calls \in Seq([rp : Nat, root : Nat]) /\ m \in 0..Len(calls)
    BY <1>1 DEF Calls
  <2>2. Len(calls') = m /\ \A i \in 1..m : calls'[i] = calls[i]
    BY <2>1, <1>a, CutIs
  <2> QED BY <2>2 DEF level
<1>3. /\ rp' = Len(rs') /\ rp' \in Nat /\ calls[m + 1].rp <= rp'
      /\ rp' = calls[m + 1].rp \/ (m > 0 /\ instr' = "unwind" /\ rp' = calls[m + 1].rp + 1)
  BY <1>1, <1>a DEF rp
<1>4. ASSUME NEW i \in 1..m
      PROVE  i \in 1..level /\ calls[i].root <= calls[m + 1].rp
  <2>1. i \in 1..level /\ i < m + 1
    BY <1>1
  <2> QED BY <2>1, <1>1 DEF Inductive, FramesAreNested
<1>5. ASSUME NEW i \in 0..m PROVE RootAt(i)' = RootAt(i)
  <2>1. i = 0 \/ i \in 1..m
    BY <1>1
  <2> QED BY <2>1, <1>2 DEF RootAt
<1>6. ASSUME NEW i \in 1..m PROVE Framed(i)'
  <2>1. i \in 1..level /\ calls'[i] = calls[i] /\ calls[i].root <= calls[m + 1].rp
        /\ calls[i].rp \in Nat /\ calls[i].root \in Nat /\ calls[i].rp + 2 <= calls[i].root
        /\ calls[m + 1].rp \in Nat
    BY <1>1, <1>2, <1>4
  <2>2. CallerOf(i) \in 0..m
    BY <1>1 DEF CallerOf
  <2>a. RootAt(CallerOf(i))' = RootAt(CallerOf(i)) /\ calls'[i].root - 1 = calls[i].root - 1
    BY <2>1, <2>2, <1>5
  <2>3. \A j \in calls[i].rp + 1 .. calls[i].root - 1 : rs'[j] = Ret(CallerOf(i))
    <3>1. \A j \in calls[i].rp + 1 .. calls[i].root - 1 : j \in 1..calls[m + 1].rp
      BY <2>1, Inside
    <3>2. \A j \in calls[i].rp + 1 .. calls[i].root - 1 : rs[j] = Ret(CallerOf(i))
      BY <2>1, FrameIs
    <3> QED BY <1>a, <3>1, <3>2
  <2>4. rs'[calls[i].root] = Root(RootAt(CallerOf(i)))
    <3>1. calls[i].root \in 1..calls[m + 1].rp
      BY <2>1
    <3> QED BY <2>1, <3>1, <1>a, FrameIs
  <2>5. CASE i < m
    <3>1. i + 1 \in 1..m /\ i + 1 \in 1..level /\ i < level
      BY <1>1, <2>5
    <3>2. EndOf(i)' = calls[i + 1].rp /\ EndOf(i) = calls[i + 1].rp
      BY <1>2, <2>5, <3>1 DEF EndOf
    <3>3. /\ calls[i + 1].rp \in Nat /\ calls[i + 1].root \in Nat
          /\ calls[i + 1].rp + 2 <= calls[i + 1].root
          /\ calls[i + 1].root <= calls[m + 1].rp /\ calls[m + 1].rp \in Nat
      BY <1>1, <1>4, <3>1
    <3>4. calls[i].root <= EndOf(i)
      BY <2>1, FrameIs
    <3>5. \A j \in calls[i].root + 1 .. calls[i + 1].rp : rs[j] = Data
      <4>1. i # level
        BY <1>1, <3>1
      <4> QED BY <2>1, <3>2, <4>1, FrameIs
    <3>6. \A j \in calls[i].root + 1 .. calls[i + 1].rp : rs'[j] = Data
      <4>1. \A j \in calls[i].root + 1 .. calls[i + 1].rp : j \in 1..calls[m + 1].rp
        <5>1. calls[i + 1].rp <= calls[m + 1].rp
          BY <3>3
        <5>2. /\ calls[i].root \in Nat /\ calls[i + 1].rp \in Int
              /\ calls[m + 1].rp \in Nat
          BY <2>1, <3>3
        <5> QED BY <5>1, <5>2, Inside
      <4> QED BY <1>a, <4>1, <3>5
    <3>7. calls[i].root <= EndOf(i)' /\ \A j \in calls[i].root + 1 .. EndOf(i)' : rs'[j] = Data
      BY <3>2, <3>4, <3>6
    <3> QED BY <2>1, <2>a, <2>3, <2>4, <3>7 DEF Framed
  <2>6. CASE ~(i < m)
    <3>1. i = m /\ i < level
      BY <1>1, <2>6
    <3>2. EndOf(i)' = rp' /\ EndOf(i) = calls[m + 1].rp
      BY <1>2, <3>1, <2>6 DEF EndOf
    <3>3. \A j \in calls[i].root + 1 .. calls[m + 1].rp : rs[j] = Data
      BY <2>1, <3>1, <3>2, <1>1, FrameIs
    <3>4. \A j \in calls[i].root + 1 .. calls[m + 1].rp : rs'[j] = Data
      <4>1. ASSUME NEW j \in calls[i].root + 1 .. calls[m + 1].rp
            PROVE  j \in 1..calls[m + 1].rp
        BY <2>1
      <4> QED BY <1>a, <4>1, <3>3
    <3>5. \A j \in calls[i].root + 1 .. rp' :
            rs'[j] = Data \/ (instr' = "unwind" /\ j = rp' /\ i = level')
      BY <2>1, <1>2, <1>3, <3>1, <3>4
    <3>6. calls[i].root <= EndOf(i)'
      BY <2>1, <1>3, <3>2
    <3> QED BY <2>1, <2>a, <2>3, <2>4, <3>2, <3>5, <3>6 DEF Framed
  <2> QED BY <2>5, <2>6
<1>7. FramesAreWhole'
  <2>1. tr0' = RootAt(level)'
    <3>1. m \in 0..m
      BY <1>1
    <3>2. RootAt(level)' = RootAt(m)'
      BY <1>2 DEF RootAt
    <3> QED BY <3>1, <3>2, <1>5
  <2>2. level' = 0 => rs' = <<>>
    <3>1. SUFFICES ASSUME m = 0 PROVE rs' = <<>>
      BY <1>2
    <3>2. calls[1].rp = 0
      BY <1>1 DEF Inductive, FramesAreNested
    <3> QED BY <3>1, <3>2, <1>3, EmptySeq
  <2> QED BY <1>2, <1>6, <2>1, <2>2 DEF FramesAreWhole
<1>8. FramesAreNested'
  <2>1. \A i \in 1..m : calls'[i].root <= rp'
    BY <1>1, <1>2, <1>3, <1>4
  <2>2. \A i, j \in 1..m : i < j => calls'[i].root <= calls'[j].rp
    <3> SUFFICES ASSUME NEW i \in 1..m, NEW j \in 1..m, i < j
                 PROVE  calls[i].root <= calls[j].rp
      BY <1>2
    <3>1. i \in 1..level /\ j \in 1..level
      BY <1>1
    <3> QED BY <3>1 DEF Inductive, FramesAreNested
  <2>3. m > 0 => calls'[1].rp = 0
    BY <1>1, <1>2 DEF Inductive, FramesAreNested
  <2> QED BY <1>2, <2>1, <2>2, <2>3 DEF FramesAreNested
<1> QED BY <1>7, <1>8

\* Nothing happens to the stack.
LEMMA FramesSame ==
  ASSUME Inductive, UNCHANGED <<rs, tr0, calls>>, instr = "unwind" => instr' = "unwind"
  PROVE  FramesAreWhole' /\ FramesAreNested'
<1>1. rp' = rp /\ level' = level /\ \A i : RootAt(i)' = RootAt(i)
  BY DEF rp, level, RootAt
<1>2. \A i \in 1..level : EndOf(i)' = EndOf(i)
  BY <1>1 DEF EndOf
<1>3. \A i \in 1..level : Framed(i)'
  <2> SUFFICES ASSUME NEW i \in 1..level PROVE Framed(i)'
    OBVIOUS
  <2>1. Framed(i)
    BY DEF Inductive, FramesAreWhole
  <2> QED BY <2>1, <1>1, <1>2 DEF Framed
<1> QED BY <1>1, <1>3 DEF Inductive, FramesAreWhole, FramesAreNested

\* The definition that is running changes the items it put on the stack.
LEMMA ItemsChanged ==
  ASSUME Inductive, level > 0, UNCHANGED <<tr0, calls>>,
         rs' \in Seq(Item), tr0 <= Len(rs'),
         \A j \in 1..tr0 : rs'[j] = rs[j],
         \A j \in tr0 + 1 .. Len(rs') : rs'[j] = Data
  PROVE  FramesAreWhole' /\ FramesAreNested'
<1>1. /\ level \in Nat /\ rp \in Nat /\ level \in 1..level
      /\ \A d \in 1..level : /\ calls[d].rp \in Nat /\ calls[d].root \in Nat
                             /\ RootAt(d) = calls[d].root
                             /\ calls[d].rp + 2 <= calls[d].root
      /\ tr0 = RootAt(level)
  BY Facts
<1>2. level' = level /\ (\A i : RootAt(i)' = RootAt(i)) /\ rp' = Len(rs') /\ rp' \in Nat
  BY DEF level, RootAt, rp
<1>3. tr0 = calls[level].root /\ tr0 \in Nat /\ tr0 <= rp'
  BY <1>1, <1>2
<1>4. ASSUME NEW i \in 1..level, i # level
      PROVE  calls[i].root <= calls[level].rp /\ calls[i].root <= tr0
  <2>1. i < level
    BY <1>1, <1>4
  <2>2. calls[i].root <= calls[level].rp
    BY <1>1, <2>1 DEF Inductive, FramesAreNested
  <2> QED BY <1>1, <1>3, <2>2
<1>a. ASSUME NEW i \in 1..level
      PROVE  calls[i].root \in Nat /\ calls[i].rp \in Nat /\ calls[i].root <= tr0
  <2>1. i = level => calls[i].root <= tr0
    BY <1>3
  <2> QED BY <2>1, <1>1, <1>4
<1>5. ASSUME NEW i \in 1..level PROVE Framed(i)'
  <2>1. Framed(i)
    BY DEF Inductive, FramesAreWhole
  <2>2. calls[i].root \in Nat /\ calls[i].rp \in Nat /\ calls[i].root <= tr0 /\ tr0 \in Nat
        /\ calls[i].rp + 2 <= calls[i].root
    BY <1>1, <1>3, <1>4
  <2>3. \A j \in calls[i].rp + 1 .. calls[i].root - 1 : rs'[j] = Ret(CallerOf(i))
    <3>1. calls[i].root - 1 \in Int /\ calls[i].root - 1 <= tr0
      BY <2>2
    <3>2. \A j \in calls[i].rp + 1 .. calls[i].root - 1 : j \in 1..tr0
      BY SMTT(20), <2>2, <3>1, Inside
    <3> QED BY <2>1, <3>2 DEF Framed
  <2>4. rs'[calls[i].root] = Root(RootAt(CallerOf(i)))
    <3>1. calls[i].root \in 1..tr0
      BY <2>2
    <3> QED BY <2>1, <3>1 DEF Framed
  <2>5. CASE i = level
    <3>1. EndOf(i)' = rp'
      BY <2>5, <1>2 DEF EndOf
    <3> QED BY <2>2, <2>3, <2>4, <2>5, <3>1, <1>2, <1>3 DEF Framed
  <2>6. CASE i # level
    <3>1. i + 1 \in 1..level /\ i < level
      BY <1>1, <2>6
    <3>2. EndOf(i)' = calls[i + 1].rp /\ EndOf(i) = calls[i + 1].rp
      BY <1>2, <3>1 DEF EndOf
    <3>3. calls[i + 1].rp \in Nat /\ calls[i + 1].rp <= tr0
      <4>1. /\ calls[i + 1].rp \in Nat /\ calls[i + 1].root \in Nat
            /\ calls[i + 1].rp + 2 <= calls[i + 1].root
            /\ calls[i + 1].root <= tr0 /\ tr0 \in Nat
        BY <1>1, <1>3, <1>a, <3>1
      <4> QED BY <4>1
    <3>4. \A j \in calls[i].root + 1 .. calls[i + 1].rp : rs[j] = Data
      BY <2>1, <2>6, <3>2 DEF Framed
    <3>5. \A j \in calls[i].root + 1 .. calls[i + 1].rp : j \in 1..tr0
      BY <2>2, <3>3, Inside
    <3>6. calls[i].root <= EndOf(i)'
          /\ \A j \in calls[i].root + 1 .. EndOf(i)' : rs'[j] = Data
      BY <2>1, <3>2, <3>4, <3>5 DEF Framed
    <3> QED BY <2>2, <2>3, <2>4, <3>6, <1>2 DEF Framed
  <2> QED BY <2>5, <2>6
<1>6. FramesAreWhole'
  BY <1>1, <1>2, <1>5 DEF FramesAreWhole
<1>7. FramesAreNested'
  <2>1. \A i \in 1..level : calls[i].root <= rp'
    <3> SUFFICES ASSUME NEW i \in 1..level PROVE calls[i].root <= rp'
      OBVIOUS
    <3>1. calls[i].root \in Nat /\ calls[i].root <= tr0
      BY <1>a
    <3> QED BY <3>1, <1>2, <1>3
  <2> QED BY <2>1, <1>2 DEF Inductive, FramesAreNested
<1> QED BY <1>6, <1>7

\* A definition begins on top of the one that is running.
LEMMA FrameBegun ==
  ASSUME Inductive, NEW addresses \in {1, 2}, Begin(addresses), ip = level, instr # "unwind"
  PROVE  /\ FramesAreWhole' /\ FramesAreNested'
         /\ rs' \in Seq(Item) /\ Len(rs') = rp + addresses + 1
         /\ calls' \in Calls /\ level' = level + 1 /\ tr0' \in Nat
         /\ \A i \in 1..level : calls'[i] = calls[i]
         /\ calls'[level + 1] = [rp |-> rp, root |-> rp + addresses + 1]
<1>1. /\ level \in Nat /\ rp \in Nat /\ addresses \in Nat /\ addresses > 0
      /\ rs \in Seq(Item) /\ rp = Len(rs) /\ level = Len(calls) /\ calls \in Calls
      /\ \A d \in 1..level : /\ calls[d].rp \in Nat /\ calls[d].root \in Nat
                             /\ RootAt(d) = calls[d].root
                             /\ calls[d].rp + 2 <= calls[d].root /\ calls[d].root <= rp
      /\ tr0 = RootAt(level) /\ RootAt(0) = 0
  BY Facts
<1>2. tr0 \in Nat
  <2>1. level = 0 \/ level \in 1..level
    BY <1>1
  <2> QED BY <1>1, <2>1
<1> DEFINE top == rp + addresses + 1
<1>3. /\ rs' \in Seq(Item) /\ Len(rs') = top /\ top \in Nat
      /\ \A j \in 1..rp : rs'[j] = rs[j]
      /\ \A j \in rp + 1 .. top - 1 : rs'[j] = Ret(level)
      /\ rs'[top] = Root(tr0)
  <2> DEFINE a == [i \in 1..addresses |-> Ret(ip)]
             b == <<Root(tr0)>>
  <2>1. Ret(ip) \in Item /\ Root(tr0) \in Item
    BY <1>1, <1>2, ItemsAre
  <2>2. a \in Seq(Item) /\ Len(a) = addresses /\ b \in Seq(Item) /\ Len(b) = 1
        /\ (\A j \in 1..addresses : a[j] = Ret(level)) /\ b[1] = Root(tr0)
    BY <1>1, <2>1
  <2>3. rs' = (rs \o a) \o b
    BY DEF Begin
  <2> HIDE DEF a, b
  <2>4. /\ rs \o a \in Seq(Item) /\ Len(rs \o a) = rp + addresses
        /\ \A j \in 1..rp : (rs \o a)[j] = rs[j]
        /\ \A j \in rp + 1 .. rp + addresses : (rs \o a)[j] = Ret(level)
    BY <1>1, <2>2
  <2> DEFINE c == rs \o a
  <2>5. /\ rs' = c \o b /\ c \in Seq(Item) /\ Len(c) = rp + addresses
        /\ b \in Seq(Item) /\ Len(b) = 1
    BY <2>2, <2>3, <2>4
  <2>6. /\ \A j \in 1..rp : c[j] = rs[j]
        /\ \A j \in rp + 1 .. rp + addresses : c[j] = Ret(level)
    BY <2>4
  <2> HIDE DEF c
  <2>7. /\ rs' \in Seq(Item) /\ Len(rs') = rp + addresses + 1
        /\ \A j \in 1..rp + addresses : rs'[j] = c[j]
        /\ rs'[rp + addresses + 1] = b[1]
    <3>1. rs' \in Seq(Item) /\ Len(rs') = Len(c) + Len(b)
      BY <2>5, ConcatProperties
    <3>2. \A j \in 1..Len(c) + Len(b) : rs'[j] = IF j <= Len(c) THEN c[j] ELSE b[j - Len(c)]
      BY <2>5, ConcatProperties
    <3> QED BY <3>1, <3>2, <1>1, <2>5
  <2>8. rp + addresses = top - 1 /\ top \in Nat /\ rp <= rp + addresses
    BY <1>1
  <2>9. /\ \A j \in 1..rp : j \in 1..rp + addresses
        /\ \A j \in rp + 1 .. rp + addresses : j \in 1..rp + addresses
    BY <1>1
  <2>10. /\ \A j \in 1..rp : rs'[j] = rs[j]
         /\ \A j \in rp + 1 .. rp + addresses : rs'[j] = Ret(level)
    BY <2>6, <2>7, <2>9
  <2>11. rs'[top] = Root(tr0)
    BY <2>2, <2>7
  <2> HIDE DEF top
  <2> QED BY <2>7, <2>8, <2>10, <2>11
<1>4. /\ calls' = Append(calls, [rp |-> rp, root |-> top]) /\ tr0' = top
  BY DEF Begin
<1>5. /\ calls' \in Calls /\ level' = level + 1
      /\ \A i \in 1..level : calls'[i] = calls[i]
      /\ calls'[level + 1] = [rp |-> rp, root |-> top]
  <2>1. [rp |-> rp, root |-> top] \in [rp : Nat, root : Nat]
    BY <1>1, <1>3
  <2> HIDE DEF top
  <2> QED BY <1>1, <1>4, <2>1, AppendProperties DEF level, Calls
<1> HIDE DEF top
<1>6. rp' = top /\ rp <= top /\ top = rp + addresses + 1
  BY <1>1, <1>3 DEF rp, top
<1>7. ASSUME NEW i \in 0..level PROVE RootAt(i)' = RootAt(i)
  <2>1. i = 0 \/ i \in 1..level
    BY <1>1
  <2> QED BY <2>1, <1>5 DEF RootAt
<1>8. ASSUME NEW i \in 1..level PROVE Framed(i)'
  <2>1. Framed(i) /\ calls'[i] = calls[i] /\ CallerOf(i) \in 0..level
    BY <1>1, <1>5 DEF Inductive, FramesAreWhole, CallerOf
  <2>2. EndOf(i)' = EndOf(i)
    <3>1. CASE i < level
      <4>1. i + 1 \in 1..level /\ i < level + 1
        BY <1>1, <3>1
      <4> QED BY <3>1, <4>1, <1>5 DEF EndOf
    <3>2. CASE ~(i < level)
      <4>1. i = level /\ i < level + 1
        BY <1>1, <3>2
      <4> QED BY <4>1, <1>5, <3>2 DEF EndOf
    <3> QED BY <3>1, <3>2
  <2>3. /\ calls[i].root \in Nat /\ calls[i].rp \in Nat /\ calls[i].root <= rp
        /\ calls[i].rp + 2 <= calls[i].root /\ EndOf(i) \in Nat /\ EndOf(i) <= rp
        /\ calls[i].root - 1 \in Int /\ calls[i].root - 1 <= rp
    BY <1>1, FrameIs
  <2>4. \A j \in calls[i].rp + 1 .. calls[i].root - 1 : j \in 1..rp
    BY SMTT(20), <1>1, <2>3, Inside
  <2>5. \A j \in calls[i].root + 1 .. EndOf(i) : j \in 1..rp
    BY <1>1, <2>3, Inside
  <2>6. calls[i].root \in 1..rp
    BY <1>1, <2>3
  <2>7. instr # "unwind"
    BY DEF Begin
  <2>8. RootAt(CallerOf(i))' = RootAt(CallerOf(i))
    BY <2>1, <1>7
  <2> QED BY <2>1, <2>2, <2>4, <2>5, <2>6, <2>7, <2>8, <1>3 DEF Framed
<1>9. ASSUME NEW d \in Nat, d = level + 1 PROVE Framed(d)'
  <2>1. calls'[d].rp = rp /\ calls'[d].root = top
    BY <1>5, <1>9
  <2>2. EndOf(d)' = top
    BY <1>1, <1>5, <1>6, <1>9 DEF EndOf
  <2>3. CallerOf(d) = level /\ RootAt(CallerOf(d))' = tr0
    <3>1. d - 1 = level /\ d - 1 \in 0..level
      BY <1>1, <1>9
    <3>2. RootAt(d - 1)' = RootAt(d - 1)
      BY <1>7, <3>1
    <3> QED BY <1>1, <3>1, <3>2 DEF CallerOf
  <2>4. rp < top - 1 /\ top <= top /\ \A j \in top + 1 .. top : FALSE
    BY <1>1, <1>6
  <2> QED BY <2>1, <2>2, <2>3, <2>4, <1>3 DEF Framed
<1>10. FramesAreWhole'
  <2>1. ASSUME NEW i \in 1..level + 1 PROVE Framed(i)'
    <3>1. i \in 1..level \/ (i \in Nat /\ i = level + 1)
      BY <1>1
    <3>2. CASE i \in 1..level
      BY <3>2, <1>8
    <3>3. CASE i \in Nat /\ i = level + 1
      BY <3>3, <1>9
    <3> QED BY <3>1, <3>2, <3>3
  <2>2. tr0' = RootAt(level)'
    <3>1. level + 1 # 0
      BY <1>1
    <3>2. RootAt(level)' = calls'[level'].root
      BY <1>1, <1>5, <3>1 DEF RootAt
    <3>3. calls'[level'] = calls'[level + 1] /\ calls'[level + 1].root = top
      BY <1>5
    <3> QED BY <3>2, <3>3, <1>4
  <2> QED BY <1>1, <1>5, <2>1, <2>2 DEF FramesAreWhole
<1>11. FramesAreNested'
  <2>1. ASSUME NEW i \in 1..level + 1 PROVE calls'[i].root <= rp'
    <3>1. i \in 1..level \/ i = level + 1
      BY <1>1
    <3> QED BY <3>1, <1>1, <1>3, <1>5, <1>6
  <2>2. ASSUME NEW i \in 1..level + 1, NEW j \in 1..level + 1, i < j
        PROVE  calls'[i].root <= calls'[j].rp
    <3>1. i \in 1..level
      BY <1>1, <2>2
    <3>a. j \in 1..level \/ j = level + 1
      BY <1>1
    <3>2. CASE j \in 1..level
      BY <3>1, <3>2, <2>2, <1>5 DEF Inductive, FramesAreNested
    <3>3. CASE j = level + 1
      BY <3>1, <3>3, <1>1, <1>5
    <3> QED BY <3>a, <3>2, <3>3
  <2>3. calls'[1].rp = 0
    <3>1. CASE level = 0
      <4>1. rp = 0
        BY <3>1 DEF Inductive, FramesAreWhole, rp
      <4> QED BY <3>1, <4>1, <1>5
    <3>2. CASE level # 0
      <4>1. 1 \in 1..level /\ level > 0
        BY <1>1, <3>2
      <4> QED BY <4>1, <1>5 DEF Inductive, FramesAreNested
    <3> QED BY <3>1, <3>2
  <2> QED BY <1>5, <2>1, <2>2, <2>3 DEF FramesAreNested
<1> QED BY <1>3, <1>4, <1>5, <1>10, <1>11 DEF top

-----------------------------------------------------------------------------
\* What is known of an activation of e4__execute_threaded.
LEMMA ActivationIs ==
  ASSUME Inductive, NEW k \in 1..Len(loops)
  PROVE  /\ loops[k] \in Loop
         /\ loops[k].depth \in Nat /\ loops[k].rp \in Nat /\ loops[k].level \in Nat
         /\ loops[k].handler \in 0..k /\ loops[k].depth >= 1
         /\ FirstOf(k) \in 1..level /\ FirstOf(k) = loops[k].level + 1
         /\ LastOf(k) = loops[k].level + loops[k].depth /\ LastOf(k) = EndOfLoop(k)
         /\ LastOf(k) <= level
         /\ k = Len(loops) => LastOf(k) = level
         /\ k < Len(loops) => LastOf(k) = loops[k + 1].level
<1>1. Activation(k)
  BY DEF Inductive, ActivationsAreNested
<1>2. loops \in Seq(Loop) /\ level \in Nat /\ Len(loops) \in Nat
  BY Facts
<1>3. loops[k] \in Loop
  BY <1>2, ElementOfSeq
<1>4. loops[k].depth \in Nat /\ loops[k].rp \in Nat /\ loops[k].level \in Nat
  BY <1>3 DEF Loop
<1>5. /\ loops[k].handler \in 0..k /\ loops[k].depth >= 1
      /\ LastOf(k) = loops[k].level + loops[k].depth /\ LastOf(k) = EndOfLoop(k)
      /\ FirstOf(k) = loops[k].level + 1
  BY <1>1 DEF Activation, LastOf, FirstOf
<1>6. k = Len(loops) => EndOfLoop(k) = level
  BY <1>2 DEF EndOfLoop
<1>7. k < Len(loops) => EndOfLoop(k) = loops[k + 1].level
  BY DEF EndOfLoop
<1>8. LastOf(k) <= level
  <2>1. CASE k = Len(loops)
    BY <1>2, <1>5, <1>6, <2>1
  <2>2. CASE k # Len(loops)
    <3>1. /\ k < Len(loops) /\ Len(loops) \in 1..Len(loops)
      BY <1>2, <2>2
    <3> DEFINE z == Len(loops)
    <3>2. LastOf(k) <= loops[z].level
      BY <3>1 DEF Inductive, ActivationsAreNested
    <3>3. Activation(z) /\ loops[z] \in Loop
      BY <1>2, <3>1, ElementOfSeq DEF Inductive, ActivationsAreNested
    <3>a. ~(z < Len(loops)) /\ EndOfLoop(z) = level
      BY <1>2 DEF EndOfLoop
    <3>b. loops[z].level \in Nat /\ loops[z].depth \in Nat
      BY <3>3 DEF Loop
    <3>4. loops[z].level \in Nat /\ loops[z].depth \in Nat /\ loops[z].depth >= 1
          /\ loops[z].level + loops[z].depth = level
      BY <3>3, <3>a, <3>b DEF Activation, LastOf
    <3> HIDE DEF z
    <3> QED BY SMTT(20), <1>2, <1>4, <1>5, <3>2, <3>4
  <2> QED BY <2>1, <2>2
<1> QED BY <1>2, <1>3, <1>4, <1>5, <1>6, <1>7, <1>8

\* Activations are left, by returning or by a jump: the others are intact.
LEMMA ActivationsLeft ==
  ASSUME Inductive, NEW h \in 1..Len(loops), NEW m \in Nat, m = loops[h].level,
         loops' = Cut(loops, h - 1), calls' = Cut(calls, m)
  PROVE  /\ ActivationsAreNested' /\ loops' \in Seq(Loop) /\ calls' \in Calls
         /\ m \in 0..level - 1
<1>1. /\ loops \in Seq(Loop) /\ level \in Nat /\ level = Len(calls) /\ calls \in Calls
      /\ Len(loops) \in Nat /\ m < level /\ h \in Nat /\ h >= 1 /\ h <= Len(loops)
  BY Facts, ActivationIs
<1>2. /\ loops' \in Seq(Loop) /\ Len(loops') = h - 1 /\ \A k \in 1..h - 1 : loops'[k] = loops[k]
  <2>1. h - 1 \in 0..Len(loops)
    BY <1>1
  <2> QED BY <1>1, <2>1, CutIs
<1>3. /\ calls' \in Calls /\ level' = m /\ \A i \in 1..m : calls'[i] = calls[i]
  <2>1. calls \in Seq([rp : Nat, root : Nat]) /\ m \in 0..Len(calls)
    BY <1>1 DEF Calls
  <2> QED BY <2>1, CutIs DEF Calls, level
<1>4. ASSUME NEW i \in 0..m PROVE RootAt(i)' = RootAt(i)
  <2>1. i = 0 \/ i \in 1..m
    BY <1>1
  <2> QED BY <2>1, <1>3 DEF RootAt
<1>5. ASSUME NEW k \in 1..h - 1
      PROVE  k \in 1..Len(loops) /\ k < h /\ loops'[k] = loops[k] /\ LastOf(k) <= m
  <2>1. k \in 1..Len(loops) /\ k < h /\ h \in 1..Len(loops)
    BY <1>1
  <2> QED BY <2>1, <1>2 DEF Inductive, ActivationsAreNested
<1>6. ASSUME NEW k \in 1..h - 1 PROVE Activation(k)'
  <2>1. Activation(k) /\ k \in 1..Len(loops) /\ loops'[k] = loops[k] /\ k < h
    BY <1>5 DEF Inductive, ActivationsAreNested
  <2>2. /\ loops[k].level \in Nat /\ loops[k].depth \in Nat /\ loops[k].depth >= 1
        /\ LastOf(k) = loops[k].level + loops[k].depth /\ LastOf(k) = EndOfLoop(k)
        /\ LastOf(k) <= m /\ FirstOf(k) = loops[k].level + 1
        /\ loops[k].handler \in 0..k
    BY <1>5, <2>1, ActivationIs
  <2>3. LastOf(k)' = LastOf(k) /\ FirstOf(k)' = FirstOf(k)
    BY <2>1 DEF LastOf, FirstOf
  <2>4. EndOfLoop(k)' = EndOfLoop(k)
    <3>1. CASE k < h - 1
      <4>1. k + 1 \in 1..h - 1 /\ k < Len(loops)
        BY <1>1, <3>1
      <4> QED BY <3>1, <4>1, <1>2 DEF EndOfLoop
    <3>2. CASE ~(k < h - 1)
      <4>1. k + 1 = h /\ k < Len(loops)
        BY <1>1, <3>2
      <4> QED BY <3>2, <4>1, <1>2, <1>3 DEF EndOfLoop
    <3> QED BY <3>1, <3>2
  <2>a. loops[k].level + loops[k].depth <= m
    BY <2>2
  <2>5. loops[k].level \in 0..m /\ FirstOf(k) \in 1..m
    BY SMTT(20), <2>a, <2>2
  <2>6. \A i \in FirstOf(k) + 1 .. LastOf(k) : i \in 1..m
    BY <1>1, <2>2
  <2>7. RootAt(loops[k].level)' = RootAt(loops[k].level)
    <3>1. ASSUME NEW d \in 0..m, d = loops[k].level
          PROVE  RootAt(loops[k].level)' = RootAt(loops[k].level)
      <4>1. RootAt(d)' = RootAt(d)
        BY <1>4
      <4>2. loops'[k].level = d
        BY <2>1, <3>1
      <4> QED BY <3>1, <4>1, <4>2 DEF RootAt
    <3> QED BY <2>5, <3>1
  <2>8. calls'[FirstOf(k)] = calls[FirstOf(k)]
    BY <1>3, <2>5
  <2>9. \A i \in FirstOf(k) + 1 .. LastOf(k) : calls'[i].root = calls'[i].rp + 2
    BY <1>3, <2>1, <2>6 DEF Activation
  <2>10. loops[k].handler # 0 =>
           loops'[loops[k].handler].by = loops[loops[k].handler].by
    <3>1. loops[k].handler # 0 => loops[k].handler \in 1..h - 1
      BY <1>1, <2>1, <2>2
    <3> QED BY <3>1, <1>2
  <2> QED BY <2>1, <2>2, <2>3, <2>4, <2>7, <2>8, <2>9, <2>10 DEF Activation
<1>7. \A j, k \in 1..h - 1 : j < k => LastOf(j)' <= loops'[k].level
  <2> SUFFICES ASSUME NEW j \in 1..h - 1, NEW k \in 1..h - 1, j < k
               PROVE  LastOf(j)' <= loops'[k].level
    OBVIOUS
  <2>1. LastOf(j)' = LastOf(j) /\ LastOf(j) <= loops[k].level
    BY <1>5 DEF LastOf, Inductive, ActivationsAreNested
  <2> QED BY <2>1, <1>5
<1>8. loops' # <<>> => loops'[1].level = 0
  <2>1. loops' # <<>> => 1 \in 1..h - 1
    BY <1>1, <1>2, EmptySeq
  <2>2. loops # <<>>
    BY <1>1
  <2> QED BY <2>1, <2>2, <1>2 DEF Inductive, ActivationsAreNested
<1>9. loops' = <<>> => level' = 0
  <2>1. loops' = <<>> => h = 1
    BY <1>1, <1>2
  <2>2. loops # <<>>
    BY <1>1
  <2> QED BY <2>1, <2>2, <1>3 DEF Inductive, ActivationsAreNested
<1> QED BY <1>1, <1>2, <1>3, <1>6, <1>7, <1>8, <1>9 DEF ActivationsAreNested

\* No activation begins or ends.
LEMMA ActivationsSame ==
  ASSUME Inductive, UNCHANGED <<loops, calls>>
  PROVE  ActivationsAreNested'
<1>1. level' = level /\ \A i : RootAt(i)' = RootAt(i)
  BY DEF level, RootAt
<1>2. ASSUME NEW k \in 1..Len(loops) PROVE Activation(k)'
  <2>1. Activation(k)
    BY DEF Inductive, ActivationsAreNested
  <2>2. EndOfLoop(k)' = EndOfLoop(k) /\ LastOf(k)' = LastOf(k) /\ FirstOf(k)' = FirstOf(k)
    BY <1>1 DEF EndOfLoop, LastOf, FirstOf
  <2>3. RootAt(loops[k].level)' = RootAt(loops[k].level)
    BY <1>1 DEF RootAt
  <2> QED BY <2>1, <2>2, <2>3 DEF Activation
<1>3. \A j : LastOf(j)' = LastOf(j)
  BY DEF LastOf
<1> QED BY <1>1, <1>2, <1>3 DEF Inductive, ActivationsAreNested

\* The innermost activation has one definition more or less to return from.
LEMMA ActivationDeeper ==
  ASSUME Inductive, loops # <<>>, NEW by \in Int, Deeper(by), loop.depth + by >= 1,
         calls' \in Calls, level' = level + by,
         \A i \in 1..level' : i <= level => calls'[i] = calls[i],
         \A i \in 1..level' : i > level => calls'[i].root = calls'[i].rp + 2
  PROVE  ActivationsAreNested' /\ loops' \in Seq(Loop)
<1> DEFINE n == Len(loops)
<1>1. /\ loops \in Seq(Loop) /\ level \in Nat /\ n \in Nat /\ n >= 1 /\ n \in 1..n
  BY Facts
<1>2. /\ loops[n] \in Loop /\ loops[n].depth \in Nat /\ loops[n].level \in Nat
      /\ loops[n].level + loops[n].depth = level /\ loops[n].depth + by >= 1
      /\ loops[n].handler \in 0..n /\ FirstOf(n) = loops[n].level + 1
      /\ loops[n].level <= level
  BY <1>1, ActivationIs DEF loop
<1> DEFINE new == [loops[n] EXCEPT !.depth = @ + by]
<1>3. /\ new \in Loop /\ new.depth = loops[n].depth + by /\ new.level = loops[n].level
      /\ new.by = loops[n].by /\ new.tr0 = loops[n].tr0 /\ new.rp = loops[n].rp
      /\ new.handler = loops[n].handler
  <2>1. loops[n].depth + by \in Nat
    BY <1>2
  <2> QED BY <1>2, <2>1 DEF Loop
<1>4. loops' = [loops EXCEPT ![n] = new]
  BY DEF Deeper
<1> HIDE DEF new
<1>5. /\ loops' \in Seq(Loop) /\ Len(loops') = n /\ loops'[n] = new
      /\ \A k \in 1..n : k # n => loops'[k] = loops[k]
  BY <1>1, <1>3, <1>4
<1>6. /\ level' = loops[n].level + new.depth /\ loops[n].level < level'
      /\ loops[n].level + 1 \in 1..level' /\ loops[n].level + 1 \in 1..level
      /\ level' \in Nat
  <2>1. new.depth >= 1 /\ loops[n].level + 1 <= level'
    BY <1>1, <1>2, <1>3
  <2>2. FirstOf(n) \in 1..level
    BY <1>1, ActivationIs
  <2> QED BY SMTT(20), <1>1, <1>2, <1>3, <2>1, <2>2
<1> HIDE DEF n
<1>7. ASSUME NEW i \in 0..loops[n].level + 1
      PROVE  RootAt(i)' = RootAt(i) /\ (i > 0 => calls'[i] = calls[i])
  <2>1. i = 0 \/ (i \in 1..level' /\ i <= level)
    BY <1>2, <1>6
  <2> QED BY <2>1 DEF RootAt
<1>8. ASSUME NEW k \in 1..n, k # n
      PROVE  /\ k \in 1..Len(loops) /\ k < n /\ loops'[k] = loops[k]
             /\ LastOf(k) <= loops[n].level
             /\ LastOf(k)' = LastOf(k) /\ FirstOf(k)' = FirstOf(k)
  <2>1. k \in 1..Len(loops) /\ k < n /\ n \in 1..Len(loops)
    BY <1>1, <1>8 DEF n
  <2>2. loops'[k] = loops[k]
    BY <1>5, <1>8
  <2> QED BY <2>1, <2>2 DEF Inductive, ActivationsAreNested, LastOf, FirstOf
<1>9. ASSUME NEW k \in 1..n, k # n PROVE Activation(k)'
  <2>1. Activation(k) /\ k \in 1..Len(loops) /\ loops'[k] = loops[k] /\ k < n
    BY <1>8, <1>9 DEF Inductive, ActivationsAreNested
  <2>2. /\ loops[k].level \in Nat /\ loops[k].depth \in Nat /\ loops[k].depth >= 1
        /\ LastOf(k) = loops[k].level + loops[k].depth /\ LastOf(k) = EndOfLoop(k)
        /\ FirstOf(k) = loops[k].level + 1
        /\ loops[k].handler \in 0..k
    BY <2>1, ActivationIs
  <2>3. LastOf(k)' = LastOf(k) /\ FirstOf(k)' = FirstOf(k) /\ LastOf(k) <= loops[n].level
    BY <1>8, <1>9
  <2>4. EndOfLoop(k)' = EndOfLoop(k)
    <3>1. k + 1 \in 1..n /\ k < Len(loops) /\ k < Len(loops')
      BY <1>1, <1>5, <2>1 DEF n
    <3>2. loops'[k + 1].level = loops[k + 1].level
      BY <1>3, <1>5, <3>1
    <3> QED BY <3>1, <3>2 DEF EndOfLoop
  <2>a. loops[k].level + loops[k].depth <= loops[n].level
    BY <2>2, <2>3
  <2>b. /\ loops[k].level \in Nat /\ loops[n].level \in Nat /\ LastOf(k) \in Nat
        /\ loops[k].level < loops[n].level /\ LastOf(k) <= loops[n].level
        /\ FirstOf(k) = loops[k].level + 1
    <3>1. /\ loops[k].level \in Nat /\ loops[k].depth \in Nat /\ loops[k].depth >= 1
          /\ loops[n].level \in Nat /\ LastOf(k) = loops[k].level + loops[k].depth
          /\ FirstOf(k) = loops[k].level + 1
      BY <1>2, <2>2
    <3>2. loops[k].level < loops[n].level /\ LastOf(k) \in Nat
      BY <2>a, <3>1
    <3> QED BY <2>3, <3>1, <3>2
  <2>5. loops[k].level \in 0..loops[n].level + 1 /\ FirstOf(k) \in 0..loops[n].level + 1
        /\ FirstOf(k) > 0
    BY <2>b
  <2>6. \A i \in FirstOf(k) + 1 .. LastOf(k) : i \in 0..loops[n].level + 1 /\ i > 0
    BY <2>b
  <2>7. RootAt(loops[k].level)' = RootAt(loops[k].level)
    <3>1. ASSUME NEW d \in 0..loops[n].level + 1, d = loops[k].level
          PROVE  RootAt(loops[k].level)' = RootAt(loops[k].level)
      <4>1. RootAt(d)' = RootAt(d)
        BY <1>7
      <4>2. loops'[k].level = d
        BY <2>1, <3>1
      <4> QED BY <3>1, <4>1, <4>2 DEF RootAt
    <3> QED BY <2>5, <3>1
  <2>8. calls'[FirstOf(k)] = calls[FirstOf(k)]
    BY <1>7, <2>5
  <2>9. \A i \in FirstOf(k) + 1 .. LastOf(k) : calls'[i].root = calls'[i].rp + 2
    BY <1>7, <2>1, <2>6 DEF Activation
  <2>10. loops[k].handler # 0 =>
           loops'[loops[k].handler].by = loops[loops[k].handler].by
    <3>1. loops[k].handler # 0 => loops[k].handler \in 1..n /\ loops[k].handler # n
      BY <1>1, <2>1, <2>2
    <3> QED BY <3>1, <1>5
  <2> QED BY <2>1, <2>2, <2>3, <2>4, <2>7, <2>8, <2>9, <2>10 DEF Activation
<1>10. LastOf(n)' = level' /\ FirstOf(n)' = FirstOf(n) /\ EndOfLoop(n)' = level'
  <2>1. n' = n /\ ~(n < n)
    BY <1>1, <1>5 DEF n
  <2>2. loops'[n].level = loops[n].level /\ loops'[n].depth = new.depth
    BY <1>3, <1>5
  <2>3. n = Len(loops')
    BY <1>5
  <2> QED BY <1>1, <2>1, <2>2, <2>3, <1>6 DEF LastOf, FirstOf, EndOfLoop
<1>11. Activation(n)'
  <2>1. Activation(n) /\ loops'[n] = new /\ n' = n
    BY <1>1, <1>5 DEF Inductive, ActivationsAreNested, n
  <2>2. loops[n].level \in 0..loops[n].level + 1 /\ FirstOf(n) \in 0..loops[n].level + 1
        /\ FirstOf(n) > 0
    BY SMTT(20), <1>2
  <2>3. RootAt(loops[n].level)' = RootAt(loops[n].level)
    <3>1. ASSUME NEW d \in 0..loops[n].level + 1, d = loops[n].level
          PROVE  RootAt(loops[n].level)' = RootAt(loops[n].level)
      <4>1. RootAt(d)' = RootAt(d)
        BY <1>7
      <4>2. loops'[n].level = d
        BY <2>1, <3>1, <1>3
      <4> QED BY <2>1, <3>1, <4>1, <4>2 DEF RootAt
    <3> QED BY <2>2, <3>1
  <2>4. calls'[FirstOf(n)] = calls[FirstOf(n)]
    BY <1>7, <2>2
  <2>5. ASSUME NEW i \in FirstOf(n) + 1 .. level' PROVE calls'[i].root = calls'[i].rp + 2
    <3>1. i \in Int /\ i \in 1..level'
      BY <1>2, <1>6
    <3>2. CASE i <= level
      <4>1. i \in FirstOf(n) + 1 .. LastOf(n)
        BY <1>1, <1>2, <3>1, <3>2 DEF LastOf
      <4> QED BY <2>1, <3>1, <3>2, <4>1 DEF Activation
    <3>3. CASE i > level
      BY <3>1, <3>3
    <3> QED BY <3>1, <3>2, <3>3, <1>1
  <2>6. new.handler # 0 => loops'[new.handler].by = loops[new.handler].by
    <3>1. new.handler # 0 => new.handler \in 1..n
      BY <1>1, <1>2, <1>3
    <3> QED BY <3>1, <1>3, <1>5
  <2>7. new.depth >= 1 /\ new.handler \in 0..n
    BY <1>2, <1>3
  <2> QED BY <2>1, <2>3, <2>4, <2>5, <2>6, <2>7, <1>3, <1>10 DEF Activation
<1>12. \A j, k \in 1..n : j < k => LastOf(j)' <= loops'[k].level
  <2> SUFFICES ASSUME NEW j \in 1..n, NEW k \in 1..n, j < k
               PROVE  LastOf(j)' <= loops'[k].level
    OBVIOUS
  <2>1. j # n /\ k \in 1..Len(loops) /\ j \in 1..Len(loops)
    BY <1>1 DEF n
  <2>2. LastOf(j)' = LastOf(j) /\ LastOf(j) <= loops[k].level
    BY <2>1, <1>8 DEF Inductive, ActivationsAreNested
  <2>3. loops'[k].level = loops[k].level
    BY <1>3, <1>5
  <2> QED BY <2>2, <2>3
<1>13. loops'[1].level = 0
  <2>1. 1 \in 1..n
    BY <1>1
  <2> QED BY <2>1, <1>3, <1>5 DEF Inductive, ActivationsAreNested
<1>14. ASSUME NEW k \in 1..n PROVE Activation(k)'
  <2>1. CASE k = n
    <3>1. Activation(n)' <=> Activation(k)'
      BY <2>1, <1>5 DEF n
    <3> QED BY <3>1, <1>11
  <2> QED BY <2>1, <1>9
<1>15. loops' # <<>>
  BY <1>1, <1>5
<1> QED BY <1>5, <1>12, <1>13, <1>14, <1>15 DEF ActivationsAreNested

\* An activation begins with its first definition.
LEMMA ActivationNew ==
  ASSUME Inductive,
         NEW by \in {"plain", "caught", "does", "execute", "catch"},
         by \in {"plain", "caught"} <=> loops = <<>>,
         NewLoop(by, rp + IF by = "catch" THEN 1 ELSE 0),
         calls' \in Calls, level' = level + 1,
         \A i \in 1..level : calls'[i] = calls[i],
         calls'[level + 1] = [rp |-> rp, root |-> rp + Header(by)]
  PROVE  ActivationsAreNested' /\ loops' \in Seq(Loop)
<1> DEFINE n == Len(loops)
           saved == rp + IF by = "catch" THEN 1 ELSE 0
           new == [by |-> by, depth |-> 1, rp |-> saved, tr0 |-> tr0, level |-> level,
                   handler |-> IF by \in {"caught", "catch"} THEN n + 1
                               ELSE IF loops = <<>> THEN 0 ELSE loop.handler]
<1>1. /\ loops \in Seq(Loop) /\ level \in Nat /\ n \in Nat /\ rp \in Nat
      /\ tr0 = RootAt(level) /\ RootAt(0) = 0
      /\ \A i \in 1..level : RootAt(i) = calls[i].root /\ calls[i].root \in Nat
  BY Facts
<1>2. tr0 \in Int /\ saved \in Nat
  <2>1. level = 0 \/ level \in 1..level
    BY <1>1
  <2> QED BY <1>1, <2>1
<1>3. new.handler \in 0..n + 1 /\ (new.handler # 0 => new.handler = n + 1 \/ new.handler \in 1..n)
  <2>1. CASE by \in {"caught", "catch"}
    BY <2>1, <1>1
  <2>2. CASE loops = <<>> /\ by \notin {"caught", "catch"}
    BY <2>2, <1>1
  <2>3. CASE loops # <<>> /\ by \notin {"caught", "catch"}
    <3>1. n \in 1..Len(loops) /\ new.handler = loops[n].handler
      BY <2>3, <1>1 DEF loop
    <3>2. loops[n].handler \in 0..n
      BY <3>1, ActivationIs
    <3> QED BY <3>1, <3>2, <1>1
  <2> QED BY <2>1, <2>2, <2>3
<1>4. new \in Loop
  <2>1. new.handler \in Nat
    BY <1>1, <1>3
  <2> QED BY <1>1, <1>2, <2>1 DEF Loop
<1>5. loops' = Append(loops, new)
  BY DEF NewLoop
<1>6. new.by = by /\ new.depth = 1 /\ new.rp = saved /\ new.tr0 = tr0 /\ new.level = level
  OBVIOUS
<1>7. /\ loops' \in Seq(Loop) /\ Len(loops') = n + 1 /\ loops'[n + 1] = new
      /\ \A k \in 1..n : loops'[k] = loops[k]
  <2> HIDE DEF new
  <2> QED BY <1>1, <1>4, <1>5, AppendProperties
<1>8. new.handler \in 1..n => loops[new.handler].by \in {"caught", "catch"}
  <2>1. CASE by \in {"caught", "catch"}
    BY <2>1, <1>1
  <2>2. CASE loops = <<>> /\ by \notin {"caught", "catch"}
    BY <2>2
  <2>3. CASE loops # <<>> /\ by \notin {"caught", "catch"}
    <3>1. n \in 1..Len(loops) /\ new.handler = loops[n].handler
      BY <2>3, <1>1 DEF loop
    <3>2. Activation(n)
      BY <3>1 DEF Inductive, ActivationsAreNested
    <3>3. new.handler \in 1..n => new.handler # 0
      OBVIOUS
    <3> QED BY <3>1, <3>2, <3>3 DEF Activation
  <2> QED BY <2>1, <2>2, <2>3
<1>9. new.handler = n + 1 => by \in {"caught", "catch"}
  <2>1. CASE loops = <<>> /\ by \notin {"caught", "catch"}
    BY <2>1
  <2>2. CASE loops # <<>> /\ by \notin {"caught", "catch"}
    <3>1. n \in 1..Len(loops) /\ new.handler = loops[n].handler
      BY <2>2, <1>1 DEF loop
    <3>2. loops[n].handler \in 0..n
      BY <3>1, ActivationIs
    <3> QED BY <3>1, <3>2, <1>1
  <2> QED BY <2>1, <2>2
<1> HIDE DEF new, saved
<1>10. ASSUME NEW i \in 0..level PROVE RootAt(i)' = RootAt(i)
  <2>1. i = 0 \/ i \in 1..level
    BY <1>1
  <2> QED BY <2>1 DEF RootAt
<1>11. ASSUME NEW k \in 1..n PROVE Activation(k)'
  <2>1. Activation(k) /\ k \in 1..Len(loops) /\ loops'[k] = loops[k] /\ k < n + 1
    BY <1>1, <1>7 DEF Inductive, ActivationsAreNested
  <2>2. /\ loops[k].level \in Nat /\ loops[k].depth \in Nat /\ loops[k].depth >= 1
        /\ LastOf(k) = loops[k].level + loops[k].depth /\ LastOf(k) = EndOfLoop(k)
        /\ FirstOf(k) = loops[k].level + 1 /\ LastOf(k) <= level
        /\ k = n => LastOf(k) = level
        /\ loops[k].handler \in 0..k
    BY <2>1, ActivationIs
  <2>3. LastOf(k)' = LastOf(k) /\ FirstOf(k)' = FirstOf(k)
    BY <2>1 DEF LastOf, FirstOf
  <2>4. EndOfLoop(k)' = EndOfLoop(k)
    <3>1. EndOfLoop(k)' = loops'[k + 1].level
      BY <1>1, <1>7, <2>1 DEF EndOfLoop
    <3>2. CASE k = n
      BY <3>1, <3>2, <2>2, <1>6, <1>7
    <3>3. CASE k # n
      <4>1. k + 1 \in 1..n /\ k < n
        BY <1>1, <3>3
      <4> QED BY <3>1, <4>1, <1>7 DEF EndOfLoop
    <3> QED BY <3>2, <3>3
  <2>a. loops[k].level + loops[k].depth <= level
    BY <2>2
  <2>5. loops[k].level \in 0..level /\ FirstOf(k) \in 1..level
    BY <1>1, <2>2, <2>a
  <2>6. \A i \in FirstOf(k) + 1 .. LastOf(k) : i \in 1..level
    BY <1>1, <2>2
  <2>7. RootAt(loops[k].level)' = RootAt(loops[k].level)
    <3>1. ASSUME NEW d \in 0..level, d = loops[k].level
          PROVE  RootAt(loops[k].level)' = RootAt(loops[k].level)
      <4>1. RootAt(d)' = RootAt(d)
        BY <1>10
      <4>2. loops'[k].level = d
        BY <2>1, <3>1
      <4> QED BY <3>1, <4>1, <4>2 DEF RootAt
    <3> QED BY <2>5, <3>1
  <2>8. calls'[FirstOf(k)] = calls[FirstOf(k)]
    BY <2>5
  <2>9. \A i \in FirstOf(k) + 1 .. LastOf(k) : calls'[i].root = calls'[i].rp + 2
    BY <2>1, <2>6 DEF Activation
  <2>10. loops[k].handler # 0 =>
           loops'[loops[k].handler].by = loops[loops[k].handler].by
    <3>1. loops[k].handler # 0 => loops[k].handler \in 1..n
      BY <1>1, <2>1, <2>2
    <3> QED BY <3>1, <1>7
  <2> QED BY <2>1, <2>2, <2>3, <2>4, <2>7, <2>8, <2>9, <2>10 DEF Activation
<1>12. ASSUME NEW k \in Nat, k = n + 1 PROVE Activation(k)'
  <2>1. loops'[k] = new
    BY <1>7, <1>12
  <2>2. FirstOf(k)' = level + 1 /\ LastOf(k)' = level + 1 /\ EndOfLoop(k)' = level + 1
    BY <1>1, <1>6, <1>7, <1>12, <2>1 DEF FirstOf, LastOf, EndOfLoop
  <2>3. RootAt(loops[k].level)' = tr0
    <3>1. ASSUME NEW d \in 0..level, d = level PROVE RootAt(loops[k].level)' = tr0
      <4>1. RootAt(d)' = RootAt(d)
        BY <1>10
      <4>2. loops'[k].level = d
        BY <2>1, <3>1, <1>6
      <4> QED BY <3>1, <4>1, <4>2, <1>1 DEF RootAt
    <3>2. level \in 0..level
      BY <1>1
    <3> QED BY <3>1, <3>2
  <2>4. /\ calls'[level + 1].rp = rp /\ calls'[level + 1].root = rp + Header(by)
        /\ new.rp = rp + IF by = "catch" THEN 1 ELSE 0
    BY <1>6 DEF saved
  <2>5. \A i \in (level + 1) + 1 .. level + 1 : FALSE
    BY <1>1
  <2>6. new.by \in {"plain", "caught"} <=> k = 1
    <3>1. loops = <<>> <=> n = 0
      BY <1>1, EmptySeq
    <3>2. k = 1 <=> n = 0
      BY <1>1, <1>12
    <3> QED BY <3>1, <3>2, <1>6
  <2>7. new.handler # 0 => loops'[new.handler].by \in {"caught", "catch"}
    <3>1. CASE new.handler = n + 1
      BY <3>1, <1>6, <1>7, <1>9
    <3>2. CASE new.handler \in 1..n
      BY <3>2, <1>7, <1>8
    <3> QED BY <3>1, <3>2, <1>3
  <2>8. new.handler \in 0..k /\ new.depth >= 1
    BY <1>3, <1>6, <1>12
  <2> QED BY <2>1, <2>2, <2>3, <2>4, <2>5, <2>6, <2>7, <2>8, <1>6 DEF Activation
<1>13. ASSUME NEW k \in 1..n + 1 PROVE Activation(k)'
  <2>1. k \in 1..n \/ (k \in Nat /\ k = n + 1)
    BY <1>1
  <2>2. CASE k \in 1..n
    BY <2>2, <1>11
  <2>3. CASE k \in Nat /\ k = n + 1
    BY <2>3, <1>12
  <2> QED BY <2>1, <2>2, <2>3
<1>14. ASSUME NEW j \in 1..n + 1, NEW k \in 1..n + 1, j < k
       PROVE  LastOf(j)' <= loops'[k].level
  <2>1. j \in 1..n
    BY <1>1, <1>14
  <2>2. LastOf(j)' = LastOf(j) /\ LastOf(j) <= level
    BY <2>1, <1>7, ActivationIs DEF LastOf
  <2>3. CASE k \in 1..n
    BY <2>1, <2>2, <2>3, <1>7, <1>14 DEF Inductive, ActivationsAreNested
  <2>4. CASE k = n + 1
    BY <2>2, <2>4, <1>6, <1>7
  <2> QED BY <2>3, <2>4, <1>1
<1>15. loops'[1].level = 0 /\ loops' # <<>>
  <2>1. CASE loops = <<>>
    <3>1. n = 0 /\ level = 0
      BY <2>1 DEF Inductive, ActivationsAreNested
    <3>2. n + 1 = 1 /\ loops'[n + 1] = new /\ new.level = 0
      BY <3>1, <1>6, <1>7
    <3>3. loops' # <<>>
      BY <1>7, <3>2
    <3> QED BY <3>2, <3>3
  <2>2. CASE loops # <<>>
    <3>1. 1 \in 1..n
      BY <2>2, <1>1, EmptySeq
    <3> QED BY <2>2, <3>1, <1>1, <1>7 DEF Inductive, ActivationsAreNested
  <2> QED BY <2>1, <2>2
<1> QED BY <1>7, <1>13, <1>14, <1>15 DEF ActivationsAreNested

-----------------------------------------------------------------------------
\* An exception lands where the definition run by CATCH was called.
LEMMA LandIsInductive ==
  ASSUME Inductive, Valid, Land
  PROVE  Inductive' /\ \E m \in 0..level - 1 : Dropped(m)
<1> DEFINE n == Len(loops)
           h == loop.handler
           m == loops[h].level
<1>1. /\ rs \in Seq(Item) /\ rp = Len(rs) /\ rp \in Nat /\ rp <= MaxR /\ MaxR \in Nat
      /\ level \in Nat /\ n \in Nat /\ loops # <<>> /\ n \in 1..Len(loops)
  BY Facts DEF Valid
<1>2. h \in 1..Len(loops)
  <2>1. loops[n].handler \in 0..n /\ loops[n].handler # 0
    BY <1>1, ActivationIs DEF Valid, loop
  <2> QED BY <1>1, <2>1 DEF loop
<1>3. /\ Activation(h) /\ m \in Nat /\ m + 1 \in 1..level /\ FirstOf(h) = m + 1
      /\ loops[h].rp \in Nat
  BY <1>2, ActivationIs DEF Inductive, ActivationsAreNested
<1>4. loops[h].by \in {"caught", "catch"}
  <2>1. Activation(n) /\ loops[n].handler # 0 /\ loops[n].handler = h
    BY <1>1 DEF Inductive, ActivationsAreNested, Valid, loop
  <2> QED BY <2>1 DEF Activation
<1>5. /\ loops[h].rp = calls[m + 1].rp + IF loops[h].by = "catch" THEN 1 ELSE 0
      /\ loops[h].tr0 = RootAt(m)
  BY <1>3 DEF Activation
<1>6. /\ calls[m + 1].rp \in Nat /\ calls[m + 1].root \in Nat /\ calls[m + 1].rp + 2 <= calls[m + 1].root
      /\ calls[m + 1].root <= rp
  BY <1>3, Facts
<1>7. /\ RootAt(m) \in Nat /\ RootAt(m) <= calls[m + 1].rp
      /\ rs[calls[m + 1].rp + 1] = Ret(m)
  <2>1. CallerOf(m + 1) = m
    BY <1>3 DEF CallerOf
  <2>2. calls[m + 1].rp + 1 \in calls[m + 1].rp + 1 .. calls[m + 1].root - 1
    BY <1>6
  <2> QED BY <1>3, <2>1, <2>2, FrameIs
<1>8. /\ loops' = Cut(loops, h - 1) /\ calls' = Cut(calls, m) /\ instr' = None /\ tr0' = loops[h].tr0
  BY DEF Land
<1>9. /\ rs' \in Seq(Item) /\ Len(rs') = calls[m + 1].rp /\ ip' = m
      /\ \A j \in 1..calls[m + 1].rp : rs'[j] = rs[j]
  <2> DEFINE back == SetRp(rs, loops[h].rp)
  <2>1. loops[h].rp \in 0..Len(rs) /\ loops[h].rp <= calls[m + 1].rp + 1
    <3>1. loops[h].rp = calls[m + 1].rp \/ loops[h].rp = calls[m + 1].rp + 1
      <4>1. CASE loops[h].by = "catch"
        BY <1>5, <4>1
      <4>2. CASE loops[h].by # "catch"
        BY <1>5, <1>6, <4>2
      <4> QED BY <4>1, <4>2
    <3>2. calls[m + 1].rp \in Nat /\ calls[m + 1].root \in Nat /\ rp \in Nat
      BY <1>1, <1>6
    <3>3. calls[m + 1].rp + 2 <= calls[m + 1].root /\ calls[m + 1].root <= rp
      BY <1>6
    <3>4. calls[m + 1].rp <= rp /\ calls[m + 1].rp + 1 <= rp
      BY <3>2, <3>3
    <3>5. loops[h].rp \in Nat /\ loops[h].rp <= calls[m + 1].rp + 1 /\ loops[h].rp <= rp
      BY <3>1, <3>2, <3>4
    <3> QED BY <1>1, <3>5
  <2>2. /\ back \in Seq(Item) /\ Len(back) = loops[h].rp
        /\ \A i \in 1..loops[h].rp : back[i] = rs[i]
    BY <1>1, <2>1, SetRpIs
  <2>3. CASE loops[h].by = "caught"
    <3>1. h = 1
      BY <1>3, <2>3 DEF Activation
    <3>2. m = 0
      BY <3>1, <1>1 DEF Inductive, ActivationsAreNested
    <3>3. rs' = back /\ ip' = 0
      BY <2>3 DEF Land
    <3>4. loops[h].rp = calls[m + 1].rp
      BY <2>3, <1>5, <1>6
    <3> HIDE DEF back, m, h
    <3> QED BY <2>2, <3>2, <3>3, <3>4
  <2>4. CASE loops[h].by = "catch"
    <3>1. loops[h].rp = calls[m + 1].rp + 1
      BY <2>4, <1>5
    <3>2. rs' = Returned(back, loops[h].tr0).rs /\ ip' = Returned(back, loops[h].tr0).ip
      BY <2>4 DEF Land
    <3> HIDE DEF back, m, h
    <3>3. Len(back) = calls[m + 1].rp + 1 /\ Len(back) \in 1..loops[h].rp
          /\ Len(back) - 1 = calls[m + 1].rp
      BY <1>6, <2>2, <3>1
    <3>4. Len(back) > RootAt(m) /\ back[Len(back)] = Ret(m)
      BY <1>6, <1>7, <2>2, <3>1, <3>3
    <3>5. /\ Returned(back, RootAt(m)).ip = m
          /\ Returned(back, RootAt(m)).rs \in Seq(Item)
          /\ Len(Returned(back, RootAt(m)).rs) = calls[m + 1].rp
          /\ \A i \in 1..calls[m + 1].rp : Returned(back, RootAt(m)).rs[i] = back[i]
      BY ZenonT(20), <1>3, <1>7, <2>2, <3>3, <3>4, ReturnedIs
    <3>6. \A i \in 1..calls[m + 1].rp : i \in 1..loops[h].rp
      BY <1>6, <3>1
    <3> QED BY <1>5, <2>2, <3>2, <3>5, <3>6
  <2> QED BY <1>4, <2>3, <2>4
<1> HIDE DEF m, h
<1>10. m \in 0..level - 1
  BY <1>1, <1>3
<1>b. Dropped(m)
  BY <1>8, <1>9 DEF Dropped
<1>11. FramesAreWhole' /\ FramesAreNested'
  BY <1>5, <1>8, <1>10, <1>b, FramesDropped
<1>12. ActivationsAreNested' /\ loops' \in Seq(Loop) /\ calls' \in Calls
  BY <1>2, <1>3, <1>8, ActivationsLeft DEF m
<1>13. level' = m
  <2>1. calls \in Seq([rp : Nat, root : Nat]) /\ m \in 0..Len(calls)
    BY <1>1, <1>10, Facts DEF Calls, level
  <2> QED BY <2>1, <1>8, CutIs DEF level
<1>14. ThreadsTypeOK'
  <2>1. rp' <= MaxR
    BY <1>1, <1>6, <1>9 DEF rp
  <2>2. tr0' \in Int /\ ip' \in Int
    BY <1>3, <1>5, <1>7, <1>8, <1>9
  <2> QED BY <1>9, <1>12, <2>1, <2>2 DEF ThreadsTypeOK
<1>15. ReturnsToCaller' /\ InstructionsAreRun'
  BY <1>8, <1>9, <1>13 DEF ReturnsToCaller, InstructionsAreRun, None, Loose
<1> QED BY <1>10, <1>11, <1>12, <1>14, <1>15, <1>b DEF Inductive

\* The stack a definition is left with, and the root of its caller.
LEMMA UnstackedIs ==
  ASSUME Inductive, level > 0
  PROVE  /\ tr0 = calls[level].root /\ tr0 \in Nat /\ CallerRoot = RootAt(level - 1)
         /\ Unstacked \in Seq(Item) /\ Len(Unstacked) = tr0 - 1
         /\ \A i \in 1..tr0 - 1 : Unstacked[i] = rs[i]
         /\ CallerRoot \in Nat /\ CallerRoot <= calls[level].rp
         /\ \A j \in calls[level].rp + 1 .. tr0 - 1 : rs[j] = Ret(level - 1)
<1>1. /\ level \in Nat /\ rp \in Nat /\ level \in 1..level /\ rp = Len(rs) /\ rs \in Seq(Item)
      /\ tr0 = RootAt(level) /\ RootAt(level) = calls[level].root
      /\ calls[level].rp \in Nat /\ calls[level].root \in Nat
      /\ calls[level].rp + 2 <= calls[level].root /\ calls[level].root <= rp
  BY Facts
<1>2. CallerOf(level) = level - 1
  BY DEF CallerOf
<1>3. /\ RootAt(level - 1) \in Nat /\ RootAt(level - 1) <= calls[level].rp
      /\ \A j \in calls[level].rp + 1 .. calls[level].root - 1 : rs[j] = Ret(level - 1)
      /\ rs[calls[level].root] = Root(RootAt(level - 1))
  BY <1>1, <1>2, FrameIs
<1> DEFINE s == SetRp(rs, tr0)
<1>4. tr0 \in 0..Len(rs) /\ tr0 \in 1..tr0 /\ tr0 > 0
  BY <1>1
<1>5. s \in Seq(Item) /\ Len(s) = tr0 /\ \A i \in 1..tr0 : s[i] = rs[i]
  BY <1>1, <1>4, SetRpIs
<1>6. Unstacked = Rest(s) /\ CallerRoot = RootOf(Top(s))
  BY DEF Unstacked, CallerRoot
<1> HIDE DEF s
<1>7. Top(s) = Root(RootAt(level - 1))
  BY <1>1, <1>3, <1>4, <1>5, TopIs
<1>8. CallerRoot = RootAt(level - 1)
  BY <1>6, <1>7 DEF RootOf, Root
<1>9. /\ Unstacked \in Seq(Item) /\ Len(Unstacked) = tr0 - 1
      /\ \A i \in 1..tr0 - 1 : Unstacked[i] = s[i]
  BY <1>4, <1>5, <1>6, RestIs
<1>10. \A i \in 1..tr0 - 1 : i \in 1..tr0
  BY <1>4
<1> QED BY <1>1, <1>3, <1>5, <1>8, <1>9, <1>10

\* ... and what its caller goes on with.
LEMMA CallerIs ==
  ASSUME Inductive, level > 0
  PROVE  /\ Caller.ip = level - 1
         /\ Caller.rs \in Seq(Item) /\ Len(Caller.rs) = tr0 - 2
         /\ \A i \in 1..tr0 - 2 : Caller.rs[i] = rs[i]
<1>1. /\ tr0 \in Nat /\ tr0 = calls[level].root
      /\ Unstacked \in Seq(Item) /\ Len(Unstacked) = tr0 - 1
      /\ \A i \in 1..tr0 - 1 : Unstacked[i] = rs[i]
      /\ CallerRoot \in Nat /\ CallerRoot <= calls[level].rp
      /\ \A j \in calls[level].rp + 1 .. tr0 - 1 : rs[j] = Ret(level - 1)
  BY UnstackedIs
<1>2. /\ level \in Nat /\ level \in 1..level /\ calls[level].rp \in Nat
      /\ calls[level].rp + 2 <= calls[level].root
  BY Facts
<1>3. /\ tr0 - 1 \in calls[level].rp + 1 .. tr0 - 1 /\ tr0 - 1 \in 1..tr0 - 1
      /\ tr0 - 1 > CallerRoot /\ (tr0 - 1) - 1 = tr0 - 2
  BY SMTT(20), <1>1, <1>2
<1>4. Len(Unstacked) > CallerRoot /\ Unstacked[Len(Unstacked)] = Ret(level - 1)
      /\ Len(Unstacked) - 1 = tr0 - 2 /\ level - 1 \in Nat
  BY SMTT(20), <1>1, <1>2, <1>3
<1>5. /\ Caller.ip = level - 1
      /\ Caller.rs \in Seq(Item) /\ Len(Caller.rs) = tr0 - 2
      /\ \A i \in 1..tr0 - 2 : Caller.rs[i] = Unstacked[i]
  <2>1. Caller = Returned(Unstacked, CallerRoot)
    BY DEF Caller
  <2> DEFINE d == level - 1
             u == Unstacked
             r == CallerRoot
  <2>2. u \in Seq(Item) /\ r \in Nat /\ d \in Nat /\ Len(u) > r /\ u[Len(u)] = Ret(d)
        /\ Len(u) - 1 = tr0 - 2
    BY <1>1, <1>4
  <2> HIDE DEF d, u, r
  <2>3. /\ Returned(u, r).ip = d
        /\ Returned(u, r).rs \in Seq(Item) /\ Len(Returned(u, r).rs) = tr0 - 2
        /\ \A i \in 1..tr0 - 2 : Returned(u, r).rs[i] = u[i]
    BY <2>2, ReturnedIs
  <2> QED BY <2>1, <2>3 DEF d, u, r
<1>6. \A i \in 1..tr0 - 2 : i \in 1..tr0 - 1
  BY <1>1
<1> QED BY <1>1, <1>5, <1>6

\* Once there is an activation there is a definition.
LEMMA RunningIs ==
  ASSUME Inductive, loops # <<>>
  PROVE  /\ level > 0 /\ level \in Nat /\ Len(loops) \in 1..Len(loops)
         /\ loop = loops[Len(loops)] /\ loop.depth \in Nat /\ loop.depth >= 1
         /\ loop.level = level - loop.depth /\ loop.level \in Nat
<1>1. loops \in Seq(Loop) /\ level \in Nat
  BY Facts
<1> DEFINE n == Len(loops)
<1>2. n \in 1..n /\ n \in Nat
  BY <1>1, EmptySeq
<1>3. /\ loops[n].depth \in Nat /\ loops[n].depth >= 1 /\ loops[n].level \in Nat
      /\ loops[n].level + loops[n].depth = level
  BY <1>2, ActivationIs
<1> QED BY <1>1, <1>2, <1>3 DEF loop

\* A definition returns to its caller, and maybe an activation to its own.
LEMMA LeaveIsInductive ==
  ASSUME Inductive, loops # <<>>, Leave
  PROVE  Inductive' /\ \E m \in 0..level - 1 : Dropped(m)
<1> DEFINE n == Len(loops)
           m == level - 1
<1>1. /\ level > 0 /\ level \in Nat /\ n \in 1..n /\ n \in 1..Len(loops) /\ n \in Nat
      /\ loop = loops[n] /\ loop.depth \in Nat /\ loop.depth >= 1
      /\ loop.level = level - loop.depth /\ loop.level \in Nat
  BY RunningIs
<1>2. /\ m \in 0..level - 1 /\ m \in Nat /\ m + 1 = level /\ level \in 1..level
  BY <1>1
<1>3. /\ calls[level].rp \in Nat /\ calls[level].root \in Nat
      /\ calls[level].root <= rp /\ rp <= MaxR /\ rp \in Nat /\ MaxR \in Nat
      /\ calls[level].rp + 2 <= calls[level].root
  BY <1>2, Facts
<1>4. /\ tr0 = calls[level].root /\ tr0 \in Nat /\ CallerRoot = RootAt(m)
      /\ CallerRoot \in Nat /\ CallerRoot <= calls[level].rp
      /\ \A j \in calls[level].rp + 1 .. tr0 - 1 : rs[j] = Ret(m)
  BY <1>1, UnstackedIs
<1>5. /\ Caller.ip = m
      /\ Caller.rs \in Seq(Item) /\ Len(Caller.rs) = tr0 - 2
      /\ \A i \in 1..tr0 - 2 : Caller.rs[i] = rs[i]
  BY <1>1, CallerIs
<1>6. /\ tr0' = CallerRoot /\ instr' = None /\ calls' = Rest(calls)
  BY DEF Leave
<1>7. /\ calls \in Calls /\ calls' = Cut(calls, m) /\ calls' \in Calls /\ level' = m
      /\ \A i \in 1..m : calls'[i] = calls[i]
  <2>1. calls \in Seq([rp : Nat, root : Nat]) /\ Len(calls) = level
    BY Facts DEF Calls, level
  <2> QED BY <1>1, <1>6, <2>1, RestIs DEF Calls, level
<1>8. Activation(n)
  BY <1>1 DEF Inductive, ActivationsAreNested
<1>9. CASE loop.depth > 1
  <2>1. rs' = Caller.rs /\ ip' = Caller.ip /\ Deeper(-1)
    BY <1>9 DEF Leave
  <2>2. calls[level].root = calls[level].rp + 2
    <3>1. level \in FirstOf(n) + 1 .. LastOf(n)
      BY <1>1, <1>9 DEF FirstOf, LastOf
    <3> QED BY <1>8, <3>1 DEF Activation
  <2>3. /\ Len(rs') = calls[m + 1].rp
        /\ \A j \in 1..calls[m + 1].rp : rs'[j] = rs[j]
    BY SMTT(20), <1>2, <1>3, <1>4, <1>5, <2>1, <2>2
  <2>a. Dropped(m)
    BY <1>5, <1>7, <2>1, <2>3 DEF Dropped
  <2>4. FramesAreWhole' /\ FramesAreNested'
    BY <1>2, <1>4, <1>6, <2>a, FramesDropped
  <2>5. ActivationsAreNested' /\ loops' \in Seq(Loop)
    <3>1. /\ level' = level + (-1) /\ loop.depth + (-1) >= 1 /\ -1 \in Int
          /\ \A i \in 1..level' : i <= level => calls'[i] = calls[i]
          /\ \A i \in 1..level' : ~(i > level)
      BY <1>1, <1>2, <1>7, <1>9
    <3> QED BY <1>7, <2>1, <3>1, ActivationDeeper
  <2>6. ThreadsTypeOK'
    <3>1. rp' <= MaxR
      BY <1>2, <1>3, <2>3 DEF rp
    <3> QED BY <1>2, <1>4, <1>5, <1>6, <1>7, <2>1, <2>5, <3>1 DEF ThreadsTypeOK
  <2>7. ReturnsToCaller' /\ InstructionsAreRun'
    BY <1>5, <1>6, <1>7, <2>1 DEF ReturnsToCaller, InstructionsAreRun, None, Loose
  <2> QED BY <1>2, <2>a, <2>4, <2>5, <2>6, <2>7 DEF Inductive
<1>10. CASE ~(loop.depth > 1)
  <2>1. rs' = LoopCaller.rs /\ ip' = LoopCaller.ip /\ loops' = Rest(loops)
    BY <1>10 DEF Leave
  <2>2. loop.level = m /\ FirstOf(n) = level
    BY <1>1, <1>10 DEF FirstOf
  <2>3. calls[level].root = calls[level].rp + Header(loop.by)
    BY <1>1, <1>8, <2>2 DEF Activation
  <2>4. /\ rs' \in Seq(Item) /\ Len(rs') = calls[level].rp /\ ip' = m
        /\ \A j \in 1..calls[level].rp : rs'[j] = rs[j]
    <3>1. CASE loop.by \in {"execute", "catch"}
      <4>1. LoopCaller = Returned(Caller.rs, CallerRoot)
        BY <3>1 DEF LoopCaller
      <4>2. tr0 = calls[level].rp + 3
        BY <1>4, <2>3, <3>1 DEF Header
      <4>3. /\ Len(Caller.rs) = calls[level].rp + 1 /\ Len(Caller.rs) - 1 = calls[level].rp
            /\ Len(Caller.rs) > CallerRoot
            /\ Len(Caller.rs) \in 1..tr0 - 2
            /\ Len(Caller.rs) \in calls[level].rp + 1 .. tr0 - 1
        <5>1. /\ calls[level].rp \in Nat /\ CallerRoot \in Nat /\ tr0 \in Nat
              /\ CallerRoot <= calls[level].rp /\ Len(Caller.rs) = tr0 - 2
          BY <1>3, <1>4, <1>5
        <5>2. Len(Caller.rs) = calls[level].rp + 1
          BY <4>2, <5>1
        <5>3. Len(Caller.rs) - 1 = calls[level].rp /\ Len(Caller.rs) > CallerRoot
          BY <5>1, <5>2
        <5>4. Len(Caller.rs) \in 1..tr0 - 2
          BY <5>1, <5>2
        <5>5. Len(Caller.rs) \in calls[level].rp + 1 .. tr0 - 1
          BY SMTT(20), <4>2, <5>1, <5>2
        <5> QED BY <5>2, <5>3, <5>4, <5>5
      <4>4. Caller.rs[Len(Caller.rs)] = Ret(m)
        BY <1>4, <1>5, <4>3
      <4>5. /\ LoopCaller.ip = m /\ LoopCaller.rs \in Seq(Item)
            /\ Len(LoopCaller.rs) = calls[level].rp
            /\ \A i \in 1..calls[level].rp : LoopCaller.rs[i] = Caller.rs[i]
        <5> DEFINE u == Caller.rs
                   r == CallerRoot
        <5>1. /\ u \in Seq(Item) /\ r \in Nat /\ m \in Nat /\ Len(u) > r
              /\ u[Len(u)] = Ret(m) /\ Len(u) - 1 = calls[level].rp
          BY <1>2, <1>4, <1>5, <4>3, <4>4
        <5> HIDE DEF u, r, m
        <5>2. /\ Returned(u, r).ip = m
              /\ Returned(u, r).rs \in Seq(Item) /\ Len(Returned(u, r).rs) = calls[level].rp
              /\ \A i \in 1..calls[level].rp : Returned(u, r).rs[i] = u[i]
          BY <5>1, ReturnedIs
        <5> QED BY <4>1, <5>2 DEF u, r
      <4>6. \A i \in 1..calls[level].rp : i \in 1..tr0 - 2
        BY <1>3, <4>2
      <4> QED BY <1>5, <2>1, <4>5, <4>6
    <3>2. CASE loop.by \in {"plain", "caught"}
      <4>1. LoopCaller = [rs |-> Caller.rs, ip |-> 0]
        BY <3>2 DEF LoopCaller
      <4>2. tr0 = calls[level].rp + 2
        BY <1>4, <2>3, <3>2 DEF Header
      <4>3. n = 1
        BY <1>1, <1>8, <3>2 DEF Activation
      <4>4. m = 0
        BY <1>1, <2>2, <4>3 DEF Inductive, ActivationsAreNested
      <4>5. tr0 - 2 = calls[level].rp
        BY <1>3, <4>2
      <4> QED BY <1>5, <2>1, <4>1, <4>4, <4>5
    <3>3. CASE loop.by \notin {"execute", "catch", "plain", "caught"}
      <4>1. LoopCaller = Caller
        BY <3>3 DEF LoopCaller
      <4>2. tr0 = calls[level].rp + 2
        BY <1>4, <2>3, <3>3 DEF Header
      <4>3. tr0 - 2 = calls[level].rp
        BY <1>3, <4>2
      <4> QED BY <1>5, <2>1, <4>1, <4>3
    <3> QED BY <3>1, <3>2, <3>3
  <2>a. Dropped(m)
    BY <1>2, <1>7, <2>4 DEF Dropped
  <2>5. FramesAreWhole' /\ FramesAreNested'
    BY <1>2, <1>4, <1>6, <2>a, FramesDropped
  <2>6. ActivationsAreNested' /\ loops' \in Seq(Loop)
    <3>1. loops' = Cut(loops, n - 1)
      <4>1. loops \in Seq(Loop) /\ Len(loops) > 0
        BY <1>1, Facts
      <4> QED BY <2>1, <4>1, RestIs
    <3>2. m = loops[n].level
      BY <1>1, <2>2
    <3> HIDE DEF m
    <3> QED BY <1>1, <1>2, <1>7, <3>1, <3>2, ActivationsLeft
  <2>7. ThreadsTypeOK'
    <3>1. rp' <= MaxR
      BY <1>3, <2>4 DEF rp
    <3> QED BY <1>2, <1>4, <1>6, <1>7, <2>4, <2>6, <3>1 DEF ThreadsTypeOK
  <2>8. ReturnsToCaller' /\ InstructionsAreRun'
    BY <1>6, <1>7, <2>4 DEF ReturnsToCaller, InstructionsAreRun, None, Loose
  <2> QED BY <1>2, <2>a, <2>5, <2>6, <2>7, <2>8 DEF Inductive
<1> QED BY <1>9, <1>10

-----------------------------------------------------------------------------
\* A word is refused, or there is no room to execute it.
LEMMA DoneIsInductive ==
  ASSUME Inductive, loops # <<>>, instr # "unwind", Done
  PROVE  Inductive'
<1>1. instr' = None /\ UNCHANGED <<rs, tr0, ip, loops, calls>>
  BY DEF Done
<1>2. FramesAreWhole' /\ FramesAreNested'
  BY <1>1, FramesSame
<1>3. ActivationsAreNested'
  BY <1>1, ActivationsSame
<1>4. ThreadsTypeOK' /\ ReturnsToCaller' /\ InstructionsAreRun'
  BY <1>1 DEF Inductive, ThreadsTypeOK, ReturnsToCaller, InstructionsAreRun, None, Loose, rp, level
<1> QED BY <1>2, <1>3, <1>4 DEF Inductive

\* Nothing happens at all.
LEMMA SameIsInductive ==
  ASSUME Inductive, UNCHANGED vars
  PROVE  Inductive'
<1>1. UNCHANGED <<rs, tr0, ip, instr, loops, calls>>
  BY DEF vars
<1>2. FramesAreWhole' /\ FramesAreNested'
  BY <1>1, FramesSame
<1>3. ActivationsAreNested'
  BY <1>1, ActivationsSame
<1>4. ThreadsTypeOK' /\ ReturnsToCaller' /\ InstructionsAreRun'
  BY <1>1 DEF Inductive, ThreadsTypeOK, ReturnsToCaller, InstructionsAreRun, rp, level,
              Valid, loop
<1> QED BY <1>2, <1>3, <1>4 DEF Inductive

\* A guard fails: one of the two above.
LEMMA RefusedIsInductive ==
  ASSUME Inductive, loops # <<>>, instr # "unwind", Refused
  PROVE  Inductive'
BY LandIsInductive, DoneIsInductive DEF Refused

\* There is no room for the return address.
LEMMA NoRoomIsInductive ==
  ASSUME Inductive, NoRoom
  PROVE  Inductive'
BY LandIsInductive, SameIsInductive DEF NoRoom

\* A definition is called in a new activation.
LEMMA NestedIsInductive ==
  ASSUME Inductive, instr # "unwind",
         NEW by \in {"plain", "caught", "does", "execute", "catch"},
         by \in {"plain", "caught"} <=> loops = <<>>,
         NewLoop(by, rp + IF by = "catch" THEN 1 ELSE 0),
         NEW addresses \in {1, 2}, Header(by) = addresses + 1, Begin(addresses),
         rp + addresses + 1 <= MaxR
  PROVE  Inductive'
<1>1. ip = level /\ rp \in Nat /\ level \in Nat
  BY Facts DEF Inductive, ReturnsToCaller
<1>2. /\ FramesAreWhole' /\ FramesAreNested'
      /\ rs' \in Seq(Item) /\ Len(rs') = rp + addresses + 1
      /\ calls' \in Calls /\ level' = level + 1 /\ tr0' \in Nat
      /\ \A i \in 1..level : calls'[i] = calls[i]
      /\ calls'[level + 1] = [rp |-> rp, root |-> rp + addresses + 1]
  BY <1>1, FrameBegun
<1>3. rp + addresses + 1 = rp + Header(by)
  BY <1>1
<1>4. ActivationsAreNested' /\ loops' \in Seq(Loop)
  BY <1>2, <1>3, ActivationNew
<1>5. ip' = level + 1 /\ instr' = None
  BY DEF Begin
<1>6. ThreadsTypeOK'
  <2>1. rp' <= MaxR
    BY <1>2 DEF rp
  <2> QED BY <1>1, <1>2, <1>4, <1>5, <2>1 DEF ThreadsTypeOK
<1>7. ReturnsToCaller' /\ InstructionsAreRun'
  BY <1>2, <1>5 DEF ReturnsToCaller, InstructionsAreRun, None, Loose
<1> QED BY <1>2, <1>4, <1>6, <1>7 DEF Inductive

\* The program outside of e4 starts a definition.
LEMMA StartIsInductive ==
  ASSUME Inductive, Start
  PROVE  Inductive'
<1>1. PICK by \in Hosts : NewLoop(by, rp)
  BY DEF Start
<1>2. /\ loops = <<>> /\ ip = 0 /\ Begin(1) /\ by \in {"plain", "caught"}
  BY HostsAssumption DEF Start
<1>3. level = 0 /\ rp = 0 /\ MaxR \in Nat /\ MaxR >= 2
  <2>1. level = 0
    BY <1>2 DEF Inductive, ActivationsAreNested
  <2> QED BY <2>1, SizeAssumption DEF Inductive, FramesAreWhole, rp
<1>4. ip = level /\ rp \in Nat /\ level \in Nat
  BY <1>2, <1>3
<1>5. /\ NewLoop(by, rp + IF by = "catch" THEN 1 ELSE 0) /\ Header(by) = 1 + 1
      /\ rp + 1 + 1 <= MaxR
  <2>1. rp + (IF by = "catch" THEN 1 ELSE 0) = rp
    BY <1>2, <1>3
  <2> QED BY <1>1, <1>2, <1>3, <2>1 DEF Header
<1>6. instr # "unwind"
  BY <1>2 DEF Inductive, InstructionsAreRun, None
<1> QED BY <1>2, <1>5, <1>6, NestedIsInductive

\* The loop fetches an instruction.
LEMMA FetchIsInductive ==
  ASSUME Inductive, HandlersForLooseWords, Fetch
  PROVE  Inductive'
<1>1. loops # <<>> /\ instr = None /\ UNCHANGED <<rs, tr0, ip, loops, calls>>
  BY DEF Fetch, Running
<1>2. /\ FramesAreWhole' /\ FramesAreNested' /\ ActivationsAreNested'
  BY <1>1, FramesSame, ActivationsSame DEF None
<1>3. ip = level /\ level \in Nat
  BY <1>1, Facts DEF Inductive, ReturnsToCaller, None
<1>4. instr' \in IF Valid THEN Instructions ELSE Uncaught
  BY <1>3 DEF Fetch, Thunk
<1>5. instr' # "unwind"
  BY <1>4, InstructionsAssumption
<1>6. instr' \in Loose => Valid'
  BY <1>1, <1>4 DEF HandlersForLooseWords, Valid, loop
<1>7. ThreadsTypeOK' /\ ReturnsToCaller' /\ InstructionsAreRun'
  BY <1>1, <1>3, <1>6
     DEF Inductive, ThreadsTypeOK, ReturnsToCaller, InstructionsAreRun, rp, level
<1> QED BY <1>2, <1>7 DEF Inductive

\* A definition is called by another, or the whole activation gives up.
LEMMA CallIsInductive ==
  ASSUME Inductive, Call
  PROVE  Inductive'
<1>1. loops # <<>> /\ instr = "call"
  BY DEF Call, At, Running
<1>2. /\ ip = level /\ rp \in Nat /\ level \in Nat /\ MaxR \in Nat /\ rp <= MaxR
      /\ instr # "unwind"
  BY <1>1, Facts DEF Inductive, ReturnsToCaller
<1>3. CASE Deeper(1) /\ Begin(1) /\ CallFits
  <2>1. /\ FramesAreWhole' /\ FramesAreNested'
        /\ rs' \in Seq(Item) /\ Len(rs') = rp + 1 + 1
        /\ calls' \in Calls /\ level' = level + 1 /\ tr0' \in Nat
        /\ \A i \in 1..level : calls'[i] = calls[i]
        /\ calls'[level + 1] = [rp |-> rp, root |-> rp + 1 + 1]
    BY <1>2, <1>3, FrameBegun
  <2>2. loop.depth + 1 >= 1
    BY <1>1, RunningIs
  <2>3. /\ \A i \in 1..level' : i <= level => calls'[i] = calls[i]
        /\ \A i \in 1..level' : i > level => calls'[i].root = calls'[i].rp + 2
    <3>1. \A i \in 1..level' : i > level => i = level + 1
      BY <1>2, <2>1
    <3>2. \A i \in 1..level' : i <= level => i \in 1..level
      BY <1>2, <2>1
    <3>3. calls'[level + 1].root = calls'[level + 1].rp + 2
      BY <1>2, <2>1
    <3> QED BY <2>1, <3>1, <3>2, <3>3
  <2>4. ActivationsAreNested' /\ loops' \in Seq(Loop)
    BY <1>1, <1>3, <2>1, <2>2, <2>3, ActivationDeeper
  <2>5. ip' = level + 1 /\ instr' = None
    BY <1>3 DEF Begin
  <2>6. ThreadsTypeOK'
    <3>1. rp' <= MaxR
      BY <1>2, <1>3, <2>1 DEF rp, CallFits, ravail
    <3> QED BY <1>2, <2>1, <2>4, <2>5, <3>1 DEF ThreadsTypeOK
  <2>7. ReturnsToCaller' /\ InstructionsAreRun'
    BY <2>1, <2>5 DEF ReturnsToCaller, InstructionsAreRun, None, Loose
  <2> QED BY <2>1, <2>4, <2>6, <2>7 DEF Inductive
<1>4. CASE Valid /\ Land
  BY <1>4, LandIsInductive
<1>5. CASE instr' = "unwind" /\ UNCHANGED <<rs, tr0, ip, loops, calls>>
  <2>1. FramesAreWhole' /\ FramesAreNested' /\ ActivationsAreNested'
    BY <1>2, <1>5, FramesSame, ActivationsSame
  <2>2. ThreadsTypeOK' /\ ReturnsToCaller' /\ InstructionsAreRun'
    BY <1>1, <1>5
       DEF Inductive, ThreadsTypeOK, ReturnsToCaller, InstructionsAreRun, rp, level, Loose
  <2> QED BY <2>1, <2>2 DEF Inductive
<1> QED BY <1>3, <1>4, <1>5 DEF Call

\* A definition is reached through DOES>, EXECUTE or CATCH.
LEMMA ThroughIsInductive ==
  ASSUME Inductive, Does \/ Execute \/ Catch
  PROVE  Inductive'
<1>1. loops # <<>> /\ instr # "unwind"
  BY DEF Does, Execute, Catch, At, Running
<1>2. rp \in Nat /\ MaxR \in Nat
  BY Facts
<1>3. CASE NoRoom
  BY <1>3, NoRoomIsInductive
<1>4. CASE Refused
  BY <1>1, <1>4, RefusedIsInductive
<1>5. CASE Done
  BY <1>1, <1>5, DoneIsInductive
<1>6. CASE ravail >= 2 /\ NewLoop("does", rp) /\ Begin(1)
  <2>1. rp + (IF "does" = "catch" THEN 1 ELSE 0) = rp
    BY <1>2
  <2>2. Header("does") = 1 + 1 /\ rp + 1 + 1 <= MaxR
    BY <1>2, <1>6 DEF Header, ravail
  <2> QED BY <1>1, <1>6, <2>1, <2>2, NestedIsInductive
<1>7. CASE ravail >= 3 /\ NewLoop("execute", rp) /\ Begin(2)
  <2>1. rp + (IF "execute" = "catch" THEN 1 ELSE 0) = rp
    BY <1>2
  <2>2. Header("execute") = 2 + 1 /\ rp + 2 + 1 <= MaxR
    BY <1>2, <1>7 DEF Header, ravail
  <2> QED BY <1>1, <1>7, <2>1, <2>2, NestedIsInductive
<1>8. CASE ravail >= 3 /\ NewLoop("catch", rp + 1) /\ Begin(2)
  <2>1. rp + (IF "catch" = "catch" THEN 1 ELSE 0) = rp + 1
    BY <1>2
  <2>2. Header("catch") = 2 + 1 /\ rp + 2 + 1 <= MaxR
    BY <1>2, <1>8 DEF Header, ravail
  <2> QED BY <1>1, <1>8, <2>1, <2>2, NestedIsInductive
<1>9. /\ ~(ravail < 2) <=> ravail >= 2
      /\ ~(ravail < 3) <=> ravail >= 3
  BY <1>2 DEF ravail
<1> QED BY <1>3, <1>4, <1>5, <1>6, <1>7, <1>8, <1>9 DEF Does, Execute, Catch

\* The running definition has only put items above its root.
LEMMA OwnItems ==
  ASSUME Inductive, loops # <<>>, instr # "unwind"
  PROVE  /\ level > 0 /\ tr0 \in Nat /\ rp \in Nat /\ rp = Len(rs) /\ tr0 <= rp
         /\ rs \in Seq(Item) /\ tr0 = calls[level].root
         /\ \A j \in tr0 + 1 .. rp : rs[j] = Data
<1>1. level > 0 /\ level \in Nat
  BY RunningIs
<1>2. /\ level \in 1..level /\ tr0 = RootAt(level) /\ RootAt(level) = calls[level].root
      /\ calls[level].root \in Nat /\ calls[level].root <= rp /\ rp \in Nat /\ rp = Len(rs)
      /\ rs \in Seq(Item)
  BY <1>1, Facts
<1>3. EndOf(level) = rp
  BY <1>1 DEF EndOf
<1>4. \A j \in calls[level].root + 1 .. rp : rs[j] = Data
  BY <1>2, <1>3, FrameIs
<1> QED BY <1>1, <1>2, <1>4

\* The running definition gets k items more, or less.
Changed(k) ==
  /\ rs' \in Seq(Item) /\ Len(rs') = rp + k /\ tr0 <= Len(rs')
  /\ \A j \in 1..tr0 : rs'[j] = rs[j]
  /\ instr' = None /\ UNCHANGED <<tr0, ip, loops, calls>>

\* Only the items changed.
LEMMA ItemsAreInductive ==
  ASSUME Inductive, loops # <<>>, instr # "unwind",
         rs' \in Seq(Item), tr0 <= Len(rs'), Len(rs') <= MaxR,
         \A j \in 1..tr0 : rs'[j] = rs[j],
         \A j \in tr0 + 1 .. Len(rs') : rs'[j] = Data,
         instr' = None, UNCHANGED <<tr0, ip, loops, calls>>
  PROVE  Inductive'
<1>1. level > 0
  BY RunningIs
<1>2. FramesAreWhole' /\ FramesAreNested'
  BY <1>1, ItemsChanged
<1>3. ActivationsAreNested'
  BY ActivationsSame
<1>4. ThreadsTypeOK' /\ ReturnsToCaller' /\ InstructionsAreRun'
  BY DEF Inductive, ThreadsTypeOK, ReturnsToCaller, InstructionsAreRun, None, Loose, rp, level
<1> QED BY <1>2, <1>3, <1>4 DEF Inductive

\* >R and its like.
LEMMA ToRIsInductive ==
  ASSUME Inductive, NEW name, name # "unwind", NEW k \in {1, 2}, ToR(name, k)
  PROVE  Inductive' /\ (NoRoom \/ Refused \/ Changed(k))
<1>1. loops # <<>> /\ instr # "unwind"
  BY DEF ToR, At, Running
<1>2. CASE NoRoom
  BY <1>2, NoRoomIsInductive
<1>3. CASE Refused
  BY <1>1, <1>3, RefusedIsInductive
<1>4. CASE /\ ~(ravail - 1 < k)
           /\ rs' = rs \o [i \in 1..k |-> Data] /\ instr' = None
           /\ UNCHANGED <<tr0, ip, loops, calls>>
  <2>1. /\ level > 0 /\ tr0 \in Nat /\ rp \in Nat /\ rp = Len(rs) /\ tr0 <= rp
        /\ rs \in Seq(Item) /\ \A j \in tr0 + 1 .. rp : rs[j] = Data
    BY <1>1, OwnItems
  <2> DEFINE a == [i \in 1..k |-> Data]
  <2>2. a \in Seq(Item) /\ Len(a) = k /\ \A j \in 1..k : a[j] = Data
    BY ItemsAre
  <2>3. rs' = rs \o a
    BY <1>4
  <2> HIDE DEF a
  <2>4. rs' \in Seq(Item) /\ Len(rs') = rp + k
    BY <2>1, <2>2, <2>3, ConcatProperties
  <2>5. \A j \in 1..rp + k : rs'[j] = IF j <= rp THEN rs[j] ELSE a[j - rp]
    BY <2>1, <2>2, <2>3, ConcatProperties
  <2>6. \A j \in 1..tr0 : j \in 1..rp + k /\ j <= rp
    BY <2>1
  <2>7. \A j \in tr0 + 1 .. rp + k :
          /\ j \in 1..rp + k
          /\ j <= rp => j \in tr0 + 1 .. rp
          /\ ~(j <= rp) => j - rp \in 1..k
    BY <2>1
  <2>8. /\ \A j \in 1..tr0 : rs'[j] = rs[j]
        /\ \A j \in tr0 + 1 .. rp + k : rs'[j] = Data
    BY <2>1, <2>2, <2>5, <2>6, <2>7
  <2>9. rp + k <= MaxR /\ tr0 <= rp + k
    BY <1>4, <2>1, Facts DEF ravail
  <2>10. Changed(k)
    BY <1>4, <2>4, <2>8, <2>9 DEF Changed
  <2> QED BY <1>1, <1>4, <2>4, <2>8, <2>9, <2>10, ItemsAreInductive
<1> QED BY <1>2, <1>3, <1>4 DEF ToR

\* R> and its like.
LEMMA RFromIsInductive ==
  ASSUME Inductive, NEW name, name # "unwind", NEW k \in {1, 2}, RFrom(name, k)
  PROVE  Inductive' /\ (NoRoom \/ Refused \/ (Changed(-k) /\ k <= rp - tr0))
<1>1. loops # <<>> /\ instr # "unwind"
  BY DEF RFrom, At, Running
<1>2. CASE NoRoom
  BY <1>2, NoRoomIsInductive
<1>3. CASE Refused
  BY <1>1, <1>3, RefusedIsInductive
<1>4. CASE /\ RDepthAtLeast(k + 1) /\ rs' = Cut(rs, rp - k) /\ instr' = None
           /\ UNCHANGED <<tr0, ip, loops, calls>>
  <2>1. /\ level > 0 /\ tr0 \in Nat /\ rp \in Nat /\ rp = Len(rs) /\ tr0 <= rp
        /\ rs \in Seq(Item) /\ \A j \in tr0 + 1 .. rp : rs[j] = Data
    BY <1>1, OwnItems
  <2>2. tr0 <= rp - k
    BY <1>4, <2>1 DEF RDepthAtLeast
  <2>3. rp - k \in 0..Len(rs) /\ rp - k <= MaxR
    BY <2>1, <2>2, Facts
  <2>4. rs' \in Seq(Item) /\ Len(rs') = rp - k /\ \A j \in 1..rp - k : rs'[j] = rs[j]
    BY <1>4, <2>1, <2>3, CutIs
  <2>5. /\ \A j \in 1..tr0 : j \in 1..rp - k
        /\ \A j \in tr0 + 1 .. rp - k : j \in tr0 + 1 .. rp /\ j \in 1..rp - k
    BY <2>1, <2>2
  <2>6. /\ \A j \in 1..tr0 : rs'[j] = rs[j]
        /\ \A j \in tr0 + 1 .. rp - k : rs'[j] = Data
    BY <2>1, <2>4, <2>5
  <2>7. Changed(-k) /\ k <= rp - tr0
    <3>1. rp + (-k) = rp - k /\ k <= rp - tr0
      BY <2>1, <2>2
    <3> QED BY <1>4, <2>2, <2>4, <2>6, <3>1 DEF Changed
  <2> QED BY <1>1, <1>4, <2>2, <2>3, <2>4, <2>6, <2>7, ItemsAreInductive
<1> QED BY <1>2, <1>3, <1>4 DEF RFrom

\* One more definition of an activation that gives up.
LEMMA UnwindIsInductive ==
  ASSUME Inductive, Unwind
  PROVE  Inductive' /\ \E m \in 0..level - 1 : Dropped(m)
<1>1. loops # <<>> /\ instr = "unwind"
  BY DEF Unwind, At, Running
<1>2. CASE Leave
  BY <1>1, <1>2, LeaveIsInductive
<1>3. CASE /\ loop.depth > 1
           /\ tr0' = CallerRoot /\ rs' = Unstacked
           /\ calls' = Rest(calls) /\ Deeper(-1)
           /\ UNCHANGED <<ip, instr>>
  <2> DEFINE n == Len(loops)
             m == level - 1
  <2>1. /\ level > 0 /\ level \in Nat /\ n \in 1..n /\ n \in 1..Len(loops) /\ n \in Nat
        /\ loop = loops[n] /\ loop.depth \in Nat /\ loop.depth >= 1
        /\ loop.level = level - loop.depth /\ loop.level \in Nat
    BY <1>1, RunningIs
  <2>2. /\ m \in 0..level - 1 /\ m \in Nat /\ m + 1 = level /\ level \in 1..level /\ m > 0
    BY <1>3, <2>1
  <2>3. /\ calls[level].rp \in Nat /\ calls[level].root \in Nat
        /\ calls[level].root <= rp /\ rp <= MaxR /\ rp \in Nat /\ MaxR \in Nat
        /\ calls[level].rp + 2 <= calls[level].root
    BY <2>2, Facts
  <2>4. /\ tr0 = calls[level].root /\ tr0 \in Nat /\ CallerRoot = RootAt(m)
        /\ Unstacked \in Seq(Item) /\ Len(Unstacked) = tr0 - 1
        /\ \A i \in 1..tr0 - 1 : Unstacked[i] = rs[i]
        /\ CallerRoot \in Nat
    BY <2>1, UnstackedIs
  <2>5. calls[level].root = calls[level].rp + 2
    <3>1. level \in FirstOf(n) + 1 .. LastOf(n)
      BY <2>1, <1>3 DEF FirstOf, LastOf
    <3>2. Activation(n)
      BY <2>1 DEF Inductive, ActivationsAreNested
    <3> QED BY <3>1, <3>2 DEF Activation
  <2>6. calls' \in Calls /\ level' = m /\ calls' = Cut(calls, m) /\ \A i \in 1..m : calls'[i] = calls[i]
    <3>1. calls \in Seq([rp : Nat, root : Nat]) /\ Len(calls) = level
      BY Facts DEF Calls, level
    <3> QED BY <1>3, <2>1, <3>1, RestIs DEF Calls, level
  <2>7. /\ Len(rs') = calls[m + 1].rp + 1
        /\ \A j \in 1..calls[m + 1].rp : rs'[j] = rs[j]
    <3>1. tr0 - 1 = calls[level].rp + 1
      BY <2>3, <2>4, <2>5
    <3>2. \A j \in 1..calls[level].rp : j \in 1..tr0 - 1
      BY <2>3, <3>1
    <3> QED BY <1>3, <2>2, <2>4, <3>1, <3>2
  <2>a. rs'[Len(rs')] # Data
    <3>1. /\ tr0 - 1 = calls[level].rp + 1 /\ Len(rs') = tr0 - 1 /\ tr0 - 1 \in 1..tr0 - 1
          /\ tr0 - 1 \in calls[level].rp + 1 .. tr0 - 1
      <4>1. tr0 \in Nat /\ calls[level].rp \in Nat /\ tr0 = calls[level].rp + 2
        BY <2>3, <2>4, <2>5
      <4>2. Len(rs') = tr0 - 1
        BY <1>3, <2>4
      <4> QED BY <4>1, <4>2
    <3>2. rs'[tr0 - 1] = Ret(level - 1)
      BY <1>3, <2>1, <2>4, <3>1, UnstackedIs
    <3> QED BY <3>1, <3>2 DEF Ret, Data
  <2>b. Dropped(m)
    BY <1>1, <1>3, <2>2, <2>4, <2>6, <2>7, <2>a DEF Dropped
  <2>8. FramesAreWhole' /\ FramesAreNested'
    BY <1>3, <2>2, <2>4, <2>b, FramesDropped
  <2>9. ActivationsAreNested' /\ loops' \in Seq(Loop)
    <3>1. /\ level' = level + (-1) /\ loop.depth + (-1) >= 1 /\ -1 \in Int
          /\ \A i \in 1..level' : i <= level => calls'[i] = calls[i]
          /\ \A i \in 1..level' : ~(i > level)
      BY <2>1, <2>2, <2>6, <1>3
    <3> QED BY <1>1, <1>3, <2>6, <3>1, ActivationDeeper
  <2>10. ThreadsTypeOK'
    <3>1. rp' <= MaxR
      BY <2>2, <2>3, <2>7 DEF rp
    <3>2. ip' \in Int
      BY <1>3 DEF Inductive, ThreadsTypeOK
    <3> QED BY <1>3, <2>4, <2>6, <2>9, <3>1, <3>2 DEF ThreadsTypeOK
  <2>11. loops' # <<>>
    <3>1. Len(loops') = n
      BY <1>3, <2>1, Facts DEF Deeper
    <3> QED BY <2>1, <3>1, EmptySeq
  <2>12. ReturnsToCaller' /\ InstructionsAreRun'
    BY <1>1, <1>3, <2>11 DEF ReturnsToCaller, InstructionsAreRun, Loose
  <2> QED BY <2>2, <2>b, <2>8, <2>9, <2>10, <2>12 DEF Inductive
<1> QED BY <1>2, <1>3 DEF Unwind

\* Every step keeps the invariant.
LEMMA NextIsInductive ==
  ASSUME Inductive, HandlersForLooseWords, [Next]_vars
  PROVE  Inductive'
<1>1. CASE UNCHANGED vars
  BY <1>1, SameIsInductive
<1>2. CASE Start
  BY <1>2, StartIsInductive
<1>3. CASE Fetch
  BY <1>3, FetchIsInductive
<1>4. CASE Call
  BY <1>4, CallIsInductive
<1>5. CASE Does \/ Execute \/ Catch
  BY <1>5, ThroughIsInductive
<1>6. CASE DoesOverflows \/ Abort \/ Quit
  <2>1. Valid
    BY <1>6 DEF DoesOverflows, Abort, Quit, At, Inductive, InstructionsAreRun, Loose
  <2>2. NoRoom \/ Land
    BY <1>6, <2>1 DEF DoesOverflows, Abort, Quit
  <2> QED BY <2>1, <2>2, NoRoomIsInductive, LandIsInductive
<1>7. CASE Exit
  <2>1. (Valid /\ Land) \/ Leave
    BY <1>7 DEF Exit
  <2>2. loops # <<>>
    BY <1>7 DEF Exit, At, Running
  <2> QED BY <2>1, <2>2, LandIsInductive, LeaveIsInductive
<1>8. CASE Unwind
  BY <1>8, UnwindIsInductive
<1>9. CASE Word \/ Throw
  <2>1. loops # <<>> /\ instr # "unwind"
    BY <1>9 DEF Word, Throw, At, Running
  <2>2. NoRoom \/ Done \/ Refused
    BY <1>9 DEF Word, Throw
  <2> QED BY <2>1, <2>2, NoRoomIsInductive, DoneIsInductive, RefusedIsInductive
<1>10. CASE ToR(">r", 1) \/ ToR("2>r", 2)
  BY <1>10, ToRIsInductive
<1>11. CASE RFrom("r>", 1) \/ RFrom("2r>", 2)
  BY <1>11, RFromIsInductive
<1>12. CASE Interrupt
  BY <1>12, LandIsInductive DEF Interrupt
<1> QED BY <1>1, <1>2, <1>3, <1>4, <1>5, <1>6, <1>7, <1>8, <1>9, <1>10, <1>11, <1>12
        DEF Next, Step

\* Nothing runs at first.
LEMMA InitIsInductive == ASSUME Init PROVE Inductive
<1>1. rs = <<>> /\ tr0 = 0 /\ ip = 0 /\ instr = None /\ loops = <<>> /\ calls = <<>>
  BY DEF Init
<1>2. level = 0 /\ rp = 0
  BY <1>1 DEF level, rp
<1>3. ThreadsTypeOK
  BY <1>1, <1>2, SizeAssumption DEF ThreadsTypeOK, Calls
<1>4. FramesAreWhole /\ FramesAreNested
  BY <1>1, <1>2 DEF FramesAreWhole, FramesAreNested, RootAt
<1>5. ActivationsAreNested
  BY <1>1, <1>2 DEF ActivationsAreNested
<1>6. ReturnsToCaller /\ InstructionsAreRun
  BY <1>1, <1>2 DEF ReturnsToCaller, InstructionsAreRun, None, Loose
<1> QED BY <1>3, <1>4, <1>5, <1>6 DEF Inductive

\* The invariant holds from the start on.
LEMMA SpecIsInductive == ASSUME HandlersForLooseWords PROVE Spec => []Inductive
<1>1. Init => Inductive
  BY InitIsInductive
<1>2. Inductive /\ [Next]_vars => Inductive'
  BY NextIsInductive
<1> QED BY <1>1, <1>2, PTL DEF Spec

(* No item a program stacked or removed, no overflow, no exception and no  *)
(* signal makes a word return to anywhere but its caller, and every frame  *)
(* on the return stack is whole, as long as ABORT, QUIT and DOES> code on  *)
(* a full data stack only run under a handler.                             *)
THEOREM WordsReturnToTheirCallers ==
  ASSUME HandlersForLooseWords PROVE Spec => []ThreadsInv
<1>1. Inductive => ThreadsInv
  BY DEF Inductive, ThreadsInv
<1> QED BY <1>1, SpecIsInductive, PTL

(* Whatever was run, the program outside of e4 finds the return stack and  *)
(* the thread root as they were.                                           *)
THEOREM HostFindsItsStack ==
  ASSUME HandlersForLooseWords PROVE Spec => []HostStackIsKept
<1>1. Inductive => HostStackIsKept
  <2> SUFFICES ASSUME Inductive, loops = <<>> PROVE rs = <<>> /\ tr0 = 0
    BY DEF HostStackIsKept
  <2>1. level = 0
    BY DEF Inductive, ActivationsAreNested
  <2> QED BY <2>1 DEF Inductive, FramesAreWhole, RootAt
<1> QED BY <1>1, SpecIsInductive, PTL

-----------------------------------------------------------------------------
(* The definitions and their items, as module CallStack sees them.         *)
Active == [i \in 1..level |-> Items(i)]

\* Items are counted by what is on the stack, and only by that.
LEMMA ActiveIs ==
  ASSUME Inductive
  PROVE  /\ Active \in Seq(Nat) /\ Len(Active) = level /\ DOMAIN Active = 1..level
         /\ \A i \in 1..level : Active[i] = Items(i) /\ Items(i) \in Nat
<1>1. level \in Nat /\ rs \in Seq(Item) /\ rp = Len(rs) /\ rp \in Nat
  BY Facts
<1>2. ASSUME NEW i \in 1..level PROVE Items(i) \in Nat
  <2> DEFINE S == {j \in DOMAIN rs : calls[i].root < j /\ j <= EndOf(i) /\ rs[j] = Data}
  <2>1. S \subseteq 1..rp
    BY <1>1
  <2>2. IsFiniteSet(S)
    <3>1. IsFiniteSet(1..rp)
      BY <1>1, FS_Interval
    <3> QED BY <2>1, <3>1, FS_Subset
  <2> QED BY <2>2, FS_CardinalityType DEF Items
<1> QED BY <1>1, <1>2 DEF Active

\* Nothing is counted differently if neither stack changes.
LEMMA ActiveSame ==
  ASSUME UNCHANGED <<rs, calls>>
  PROVE  Active' = Active
BY DEF Active, Items, EndOf, level, rp

\* The items of a definition that stays are the same as before.
LEMMA ItemsStay ==
  ASSUME Inductive, NEW i \in 1..level, rs' \in Seq(Item),
         calls'[i] = calls[i],
         \A j \in 1..EndOf(i) : rs'[j] = rs[j],
         EndOf(i)' <= Len(rs'), EndOf(i)' \in Nat, EndOf(i) <= EndOf(i)',
         \A j \in EndOf(i) + 1 .. EndOf(i)' : rs'[j] # Data
  PROVE  Items(i)' = Items(i)
<1> DEFINE S == {j \in DOMAIN rs : calls[i].root < j /\ j <= EndOf(i) /\ rs[j] = Data}
           T == {j \in DOMAIN rs' : calls'[i].root < j /\ j <= EndOf(i)' /\ rs'[j] = Data}
<1>1. /\ rs \in Seq(Item) /\ rp = Len(rs) /\ rp \in Nat
      /\ calls[i].root \in Nat /\ EndOf(i) \in Nat /\ EndOf(i) <= rp
  BY Facts, FrameIs
<1>2. DOMAIN rs = 1..rp /\ DOMAIN rs' = 1..Len(rs') /\ Len(rs') \in Nat
  BY <1>1
<1>3. ASSUME NEW j \in S PROVE j \in T
  <2>1. j \in 1..rp /\ calls[i].root < j /\ j <= EndOf(i) /\ rs[j] = Data
    BY <1>2
  <2>2. j \in 1..EndOf(i) /\ j \in 1..Len(rs') /\ j <= EndOf(i)'
    BY <1>1, <1>2, <2>1
  <2> QED BY <1>2, <2>1, <2>2
<1>4. ASSUME NEW j \in T PROVE j \in S
  <2>1. j \in 1..Len(rs') /\ calls[i].root < j /\ j <= EndOf(i)' /\ rs'[j] = Data
    BY <1>2
  <2>2. ~(j \in EndOf(i) + 1 .. EndOf(i)')
    BY <2>1
  <2>3. j <= EndOf(i) /\ j \in 1..EndOf(i) /\ j \in 1..rp
    BY <1>1, <1>2, <2>1, <2>2
  <2> QED BY <1>2, <2>1, <2>3
<1>5. S = T
  BY <1>3, <1>4
<1> QED BY <1>5 DEF Items

\* Definitions are left, with their items.
LEMMA DropIsLeave ==
  ASSUME Inductive, NEW m \in 0..level - 1, Dropped(m)
  PROVE  Active' = SubSeq(Active, 1, m)
<1>1. /\ level \in Nat /\ rp \in Nat /\ m \in Nat /\ m < level /\ m + 1 \in 1..level
      /\ calls \in Seq([rp : Nat, root : Nat]) /\ level = Len(calls) /\ m \in 0..Len(calls)
      /\ calls[m + 1].rp \in Nat
  BY SMTT(20), Facts DEF Calls
<1>2. /\ rs' \in Seq(Item) /\ calls' = Cut(calls, m)
      /\ \A j \in 1..calls[m + 1].rp : rs'[j] = rs[j]
      /\ \/ Len(rs') = calls[m + 1].rp
         \/ Len(rs') = calls[m + 1].rp + 1 /\ rs'[Len(rs')] # Data
  BY DEF Dropped
<1>3. level' = m /\ \A i \in 1..m : calls'[i] = calls[i]
  BY <1>1, <1>2, CutIs DEF level
<1>4. /\ rp' = Len(rs') /\ rp' \in Nat /\ calls[m + 1].rp <= rp'
      /\ \A j \in calls[m + 1].rp + 1 .. rp' : rs'[j] # Data
  <2>1. CASE Len(rs') = calls[m + 1].rp
    BY <1>1, <2>1 DEF rp
  <2>2. CASE Len(rs') = calls[m + 1].rp + 1 /\ rs'[Len(rs')] # Data
    <3>1. \A j \in calls[m + 1].rp + 1 .. Len(rs') : j = Len(rs')
      BY <1>1, <2>2
    <3> QED BY <1>1, <2>2, <3>1 DEF rp
  <2> QED BY <1>2, <2>1, <2>2
<1>5. ASSUME NEW i \in 1..m PROVE Items(i)' = Items(i)
  <2>1. /\ i \in 1..level /\ i + 1 \in 1..level /\ i < level /\ i \in Nat
        /\ EndOf(i) = calls[i + 1].rp /\ EndOf(i) \in Nat
    <3>1. i \in 1..level /\ i + 1 \in 1..level /\ i < level /\ i \in Nat
      <4>1. level \in Nat /\ m \in Nat /\ m < level
        BY <1>1
      <4> QED BY <4>1
    <3>2. EndOf(i) \in Nat
      BY <3>1, FrameIs
    <3> QED BY <3>1, <3>2 DEF EndOf
  <2>2. EndOf(i) <= calls[m + 1].rp
    <3>1. CASE i = m
      BY <2>1, <3>1, <1>1
    <3>2. CASE i # m
      <4>1. i + 1 < m + 1
        BY <1>1, <2>1, <3>2
      <4>2. calls[i + 1].root <= calls[m + 1].rp
        BY <1>1, <2>1, <4>1 DEF Inductive, FramesAreNested
      <4>3. /\ calls[i + 1].rp \in Nat /\ calls[i + 1].root \in Nat
            /\ calls[i + 1].rp + 2 <= calls[i + 1].root
        BY <2>1, Facts
      <4>4. calls[i + 1].rp <= calls[m + 1].rp
        <5>1. calls[m + 1].rp \in Nat
          BY <1>1
        <5> QED BY <4>2, <4>3, <5>1
      <4> QED BY <2>1, <4>4
    <3> QED BY <3>1, <3>2
  <2>3. \A j \in 1..EndOf(i) : rs'[j] = rs[j]
    <3>1. \A j \in 1..EndOf(i) : j \in 1..calls[m + 1].rp
      <4>1. EndOf(i) \in Nat /\ calls[m + 1].rp \in Nat
        BY <1>1, <2>1
      <4> QED BY <2>2, <4>1
    <3> QED BY <1>2, <3>1
  <2>4. EndOf(i)' = IF i = m THEN rp' ELSE EndOf(i)
    <3>1. CASE i = m
      BY <3>1, <1>1, <1>3 DEF EndOf
    <3>2. CASE i # m
      <4>1. i < m /\ i + 1 \in 1..m
        BY <1>1, <2>1, <3>2
      <4> QED BY <3>2, <4>1, <1>3, <2>1 DEF EndOf
    <3> QED BY <3>1, <3>2
  <2>5. /\ EndOf(i)' <= Len(rs') /\ EndOf(i)' \in Nat /\ EndOf(i) <= EndOf(i)'
        /\ \A j \in EndOf(i) + 1 .. EndOf(i)' : rs'[j] # Data
    <3>1. CASE i = m
      <4>1. EndOf(i)' = rp' /\ EndOf(i) = calls[m + 1].rp
        BY <2>1, <2>4, <3>1
      <4> QED BY <1>4, <4>1
    <3>2. CASE i # m
      <4>1. EndOf(i)' = EndOf(i)
        BY <2>4, <3>2
      <4>2. /\ EndOf(i) \in Nat /\ calls[m + 1].rp \in Nat /\ rp' \in Nat
            /\ calls[m + 1].rp <= rp' /\ rp' = Len(rs')
        BY <1>1, <1>4, <2>1
      <4>3. EndOf(i) <= Len(rs') /\ \A j \in EndOf(i) + 1 .. EndOf(i) : FALSE
        BY <2>2, <4>2
      <4> QED BY <4>1, <4>2, <4>3
    <3> QED BY <3>1, <3>2
  <2>6. calls[m + 1].rp \in Nat /\ calls[m + 1].rp <= Len(rs')
    BY <1>1, <1>4
  <2> QED BY <1>2, <1>3, <2>1, <2>2, <2>3, <2>5, <2>6, ItemsStay
<1>6. Active' = [i \in 1..m |-> Items(i)]
  BY <1>3, <1>5 DEF Active
<1>7. SubSeq(Active, 1, m) = [i \in 1..m |-> Items(i)]
  <2>1. Active \in Seq(Nat) /\ Len(Active) = level /\ \A i \in 1..level : Active[i] = Items(i)
    BY ActiveIs
  <2>2. SubSeq(Active, 1, m) = [i \in 1..m |-> Active[i]]
    BY <1>1, <2>1
  <2>3. \A i \in 1..m : i \in 1..level
    BY <1>1
  <2> QED BY <2>1, <2>2, <2>3
<1> QED BY <1>6, <1>7

\* A definition begins without items.
LEMMA BeginIsCall ==
  ASSUME Inductive, NEW addresses \in {1, 2}, Begin(addresses), instr # "unwind"
  PROVE  Active' = Append(Active, 0)
<1>1. /\ level \in Nat /\ rp \in Nat /\ rp = Len(rs) /\ rs \in Seq(Item)
      /\ MaxR \in Nat
  BY Facts
<1>2. ip = level
  BY DEF Inductive, ReturnsToCaller
<1>3. /\ rs' \in Seq(Item) /\ Len(rs') = rp + addresses + 1
      /\ level' = level + 1
      /\ \A i \in 1..level : calls'[i] = calls[i]
      /\ calls'[level + 1] = [rp |-> rp, root |-> rp + addresses + 1]
  BY <1>2, FrameBegun
<1>4. \A j \in 1..rp : rs'[j] = rs[j]
  <2> DEFINE b == [i \in 1..addresses |-> Ret(ip)] \o <<Root(tr0)>>
  <2>1. rs' = rs \o b /\ b \in Seq(Item)
    <3>1. Ret(ip) \in Item /\ Root(tr0) \in Item
      BY ItemsAre DEF Inductive, ThreadsTypeOK
    <3> DEFINE a == [i \in 1..addresses |-> Ret(ip)]
               c == <<Root(tr0)>>
    <3>2. a \in Seq(Item) /\ c \in Seq(Item)
      BY <3>1
    <3>3. rs' = (rs \o a) \o c
      BY DEF Begin
    <3> HIDE DEF a, c
    <3>4. (rs \o a) \o c = rs \o (a \o c) /\ a \o c \in Seq(Item)
      BY SMTT(20), <1>1, <3>2, ConcatAssociative, ConcatProperties
    <3> QED BY <3>3, <3>4 DEF a, c
  <2> HIDE DEF b
  <2>2. \A j \in 1..rp : j \in 1..Len(rs) + Len(b) /\ j <= Len(rs)
    BY <1>1, <2>1
  <2> QED BY <1>1, <2>1, <2>2, ConcatProperties
<1>5. ASSUME NEW i \in 1..level PROVE Items(i)' = Items(i)
  <2>1. EndOf(i) \in Nat /\ EndOf(i) <= rp
    BY FrameIs
  <2>2. EndOf(i)' = EndOf(i)
    <3>1. CASE i < level
      <4>1. i + 1 \in 1..level /\ i < level + 1
        BY <1>1, <3>1
      <4> QED BY <3>1, <4>1, <1>3 DEF EndOf
    <3>2. CASE ~(i < level)
      <4>1. i = level /\ i < level + 1
        BY <1>1, <3>2
      <4> QED BY <4>1, <1>3, <3>2 DEF EndOf
    <3> QED BY <3>1, <3>2
  <2>3. /\ \A j \in 1..EndOf(i) : j \in 1..rp
        /\ EndOf(i) <= Len(rs') /\ \A j \in EndOf(i) + 1 .. EndOf(i) : FALSE
    BY <1>1, <1>3, <2>1
  <2> QED BY <1>3, <1>4, <2>1, <2>2, <2>3, ItemsStay
<1>6. ASSUME NEW d \in Nat, d = level + 1 PROVE Items(d)' = 0
  <2>1. calls'[d].root = Len(rs')
    BY <1>3, <1>6
  <2>2. DOMAIN rs' = 1..Len(rs') /\ Len(rs') \in Nat
    BY <1>3
  <2>3. {j \in DOMAIN rs' : calls'[d].root < j /\ j <= EndOf(d)' /\ rs'[j] = Data} = {}
    <3>1. \A j \in 1..Len(rs') : ~(Len(rs') < j)
      BY <2>2
    <3> QED BY <2>1, <2>2, <3>1
  <2> QED BY <2>3, FS_EmptySet DEF Items
<1>7. Active \in Seq(Nat) /\ Len(Active) = level /\ \A i \in 1..level : Active[i] = Items(i)
  BY ActiveIs
<1>8. Active' = [i \in 1..level + 1 |-> IF i \in 1..level THEN Active[i] ELSE 0]
  <2>1. ASSUME NEW i \in 1..level + 1
        PROVE  Items(i)' = IF i \in 1..level THEN Active[i] ELSE 0
    <3>1. CASE i \in 1..level
      BY <3>1, <1>5, <1>7
    <3>2. CASE i \notin 1..level
      <4>1. i \in Nat /\ i = level + 1
        BY <1>1, <3>2
      <4> QED BY <3>2, <4>1, <1>6
    <3> QED BY <3>1, <3>2
  <2> QED BY <1>3, <2>1 DEF Active
<1>9. Append(Active, 0) = [i \in 1..level + 1 |-> IF i \in 1..level THEN Active[i] ELSE 0]
  <2> DEFINE A == Active
  <2>1. A \in Seq(Nat) /\ Len(A) = level
    BY <1>7
  <2> HIDE DEF A
  <2>2. Append(A, 0) = [i \in 1..level + 1 |-> IF i \in 1..level THEN A[i] ELSE 0]
    <3> DEFINE B == Append(A, 0)
    <3>1. /\ B \in Seq(Nat) /\ Len(B) = level + 1
          /\ \A i \in 1..level : B[i] = A[i]
          /\ B[level + 1] = 0
      BY <1>1, <2>1, AppendProperties
    <3> HIDE DEF B
    <3>2. B = [i \in 1..level + 1 |-> B[i]]
      BY <3>1
    <3>3. \A i \in 1..level + 1 : B[i] = IF i \in 1..level THEN A[i] ELSE 0
      <4>1. \A i \in 1..level + 1 : i \notin 1..level => i = level + 1
        BY <1>1
      <4> QED BY <3>1, <4>1
    <3> QED BY <3>2, <3>3 DEF B
  <2> QED BY <2>2 DEF A
<1> QED BY <1>8, <1>9

\* A definition is running that has as many items as lie above its root.
Executes == Inductive /\ loops # <<>> /\ instr # "unwind"
Counted  == Items(level) = rp - tr0

\* It has, whenever one is running ...
LEMMA ItemsOfRunning == Executes => Counted
<1> SUFFICES ASSUME Inductive, loops # <<>>, instr # "unwind" PROVE Counted
  BY DEF Executes
<1>1. /\ level > 0 /\ tr0 \in Nat /\ rp \in Nat /\ rp = Len(rs) /\ tr0 <= rp
      /\ rs \in Seq(Item) /\ tr0 = calls[level].root
      /\ \A j \in tr0 + 1 .. rp : rs[j] = Data
  BY OwnItems
<1>2. EndOf(level) = rp
  <2>1. level \in Nat
    BY Facts
  <2> QED BY <2>1 DEF EndOf
<1>3. DOMAIN rs = 1..rp
  BY <1>1
<1>4. {j \in DOMAIN rs : calls[level].root < j /\ j <= EndOf(level) /\ rs[j] = Data}
        = tr0 + 1 .. rp
  BY <1>1, <1>2, <1>3
<1>5. Cardinality(tr0 + 1 .. rp) = rp - tr0
  <2> DEFINE a == tr0 + 1
             b == rp
  <2>1. a \in Int /\ b \in Int
    BY <1>1
  <2>2. Cardinality(a..b) = IF a > b THEN 0 ELSE b - a + 1
    BY <2>1, FS_Interval
  <2>3. (IF a > b THEN 0 ELSE b - a + 1) = rp - tr0
    BY <1>1
  <2> QED BY <2>2, <2>3
<1> QED BY <1>4, <1>5 DEF Items, Counted

\* ... after a step as well.
LEMMA ItemsOfRunningAfter == Executes' => Counted'
BY ItemsOfRunning, PTL

\* Items come or go: the other definitions keep theirs.
LEMMA ItemsCount ==
  ASSUME Inductive, Inductive', loops # <<>>, instr # "unwind", NEW k \in Int, Changed(k)
  PROVE  /\ Active' = [Active EXCEPT ![level] = @ + k]
         /\ Len(Active) = level /\ level > 0
         /\ Active[level] = rp - tr0 /\ rp - tr0 \in Nat
<1>a. /\ rs' \in Seq(Item) /\ tr0 <= Len(rs') /\ \A j \in 1..tr0 : rs'[j] = rs[j]
      /\ UNCHANGED <<tr0, loops, calls>> /\ Len(rs') = rp + k /\ instr' # "unwind"
  BY DEF Changed, None
<1>1. /\ level > 0 /\ tr0 \in Nat /\ rp \in Nat /\ rp = Len(rs) /\ tr0 <= rp
      /\ rs \in Seq(Item) /\ tr0 = calls[level].root
  BY OwnItems
<1>2. level \in Nat /\ level \in 1..level /\ level' = level /\ rp' = rp + k
  BY <1>1, <1>a, Facts DEF level, rp
<1>3. Items(level) = rp - tr0
  BY ItemsOfRunning DEF Executes, Counted
<1>4. Items(level)' = (rp + k) - tr0
  <2>1. Items(level)' = rp' - tr0'
    BY <1>a, ItemsOfRunningAfter DEF Executes, Counted
  <2> QED BY <1>a, <2>1, <1>2
<1>5. ASSUME NEW i \in 1..level, i # level PROVE Items(i)' = Items(i)
  <2>1. i < level /\ i + 1 \in 1..level /\ i \in Nat
    BY <1>2, <1>5
  <2>2. EndOf(i) = calls[i + 1].rp /\ EndOf(i)' = EndOf(i) /\ EndOf(i) \in Nat
    BY <1>a, <1>2, <2>1, FrameIs DEF EndOf
  <2>3. EndOf(i) <= tr0
    <3>1. /\ calls[i + 1].rp \in Nat /\ calls[i + 1].root \in Nat
          /\ calls[i + 1].rp + 2 <= calls[i + 1].root
      BY <2>1, Facts
    <3>2. calls[i + 1].root <= tr0
      <4>1. CASE i + 1 = level
        BY <4>1, <1>1, <3>1
      <4>2. CASE i + 1 # level
        <5>1. i + 1 < level
          BY <1>2, <2>1, <4>2
        <5>2. calls[i + 1].root <= calls[level].rp
          BY <1>2, <2>1, <5>1 DEF Inductive, FramesAreNested
        <5>3. calls[level].rp \in Nat /\ calls[level].rp + 2 <= calls[level].root
          BY <1>2, Facts
        <5> QED BY SMTT(20), <1>1, <3>1, <5>2, <5>3
      <4> QED BY <4>1, <4>2
    <3>3. calls[i + 1].rp <= tr0
      BY <1>1, <3>1, <3>2
    <3> QED BY <2>2, <3>3
  <2>4. /\ \A j \in 1..EndOf(i) : j \in 1..tr0
        /\ EndOf(i) <= Len(rs') /\ \A j \in EndOf(i) + 1 .. EndOf(i) : FALSE
    <3>1. Len(rs') \in Nat /\ EndOf(i) \in Nat
      BY <1>a, <2>2
    <3> QED BY <1>1, <1>a, <2>3, <3>1
  <2>5. \A j \in 1..EndOf(i) : rs'[j] = rs[j]
    BY <1>a, <2>4
  <2> QED BY <1>a, <2>2, <2>4, <2>5, ItemsStay
<1>6. /\ Active \in Seq(Nat) /\ Len(Active) = level /\ DOMAIN Active = 1..level
      /\ \A i \in 1..level : Active[i] = Items(i) /\ Items(i) \in Nat
  BY ActiveIs
<1>7. Active' = [i \in 1..level |-> IF i = level THEN Active[level] + k ELSE Active[i]]
  <2>1. ASSUME NEW i \in 1..level
        PROVE  Items(i)' = IF i = level THEN Active[level] + k ELSE Active[i]
    <3>1. CASE i # level
      BY <3>1, <1>5, <1>6
    <3>2. CASE i = level
      <4>1. Items(i)' = Items(level)'
        BY <3>2, <1>2, <1>a
      <4>2. Active[level] + k = (rp + k) - tr0
        <5>1. Active[level] = rp - tr0
          BY <1>2, <1>3, <1>6
        <5>2. rp \in Nat /\ tr0 \in Nat /\ k \in Int
          BY <1>1
        <5> QED BY <5>1, <5>2
      <4> QED BY <3>2, <4>1, <4>2, <1>4
    <3> QED BY <3>1, <3>2
  <2> QED BY <1>2, <2>1 DEF Active
<1>8. [Active EXCEPT ![level] = @ + k]
        = [i \in 1..level |-> IF i = level THEN Active[level] + k ELSE Active[i]]
  BY <1>6
<1> QED BY <1>1, <1>2, <1>3, <1>6, <1>7, <1>8

\* Whatever happens is one of these to the definitions and their items.
LEMMA StepShapes ==
  ASSUME Inductive, HandlersForLooseWords, [Next]_vars
  PROVE  \/ UNCHANGED <<rs, calls>>
         \/ \E m \in 0..level - 1 : Dropped(m)
         \/ instr # "unwind" /\ \E addresses \in {1, 2} : Begin(addresses)
         \/ /\ loops # <<>> /\ instr # "unwind"
            /\ \E k \in {1, 2} : Changed(k) \/ (Changed(-k) /\ k <= rp - tr0)
<1>1. CASE UNCHANGED vars
  BY <1>1 DEF vars
<1>2. CASE Valid /\ Land
  BY <1>2, LandIsInductive
<1>3. CASE NoRoom \/ Refused \/ Done
  BY <1>2, <1>3 DEF NoRoom, Refused, Done, vars
<1>4. CASE Start
  <2>1. instr # "unwind"
    BY <1>4 DEF Start, Inductive, InstructionsAreRun, None
  <2> QED BY <1>4, <2>1 DEF Start
<1>5. CASE Fetch
  BY <1>5 DEF Fetch
<1>6. CASE Call
  <2>1. instr # "unwind"
    BY <1>6 DEF Call, At
  <2> QED BY <1>2, <1>6, <2>1 DEF Call
<1>7. CASE Does \/ Execute \/ Catch
  <2>1. instr # "unwind"
    BY <1>7 DEF Does, Execute, Catch, At
  <2> QED BY <1>3, <1>7, <2>1 DEF Does, Execute, Catch
<1>8. CASE DoesOverflows \/ Abort \/ Quit
  <2>1. Valid
    BY <1>8 DEF DoesOverflows, Abort, Quit, At, Inductive, InstructionsAreRun, Loose
  <2> QED BY <1>2, <1>3, <1>8, <2>1 DEF DoesOverflows, Abort, Quit
<1>9. CASE Exit
  <2>1. loops # <<>>
    BY <1>9 DEF Exit, At, Running
  <2> QED BY <1>2, <1>9, <2>1, LeaveIsInductive DEF Exit
<1>10. CASE Unwind
  BY <1>10, UnwindIsInductive
<1>11. CASE Word \/ Throw
  BY <1>3, <1>11 DEF Word, Throw
<1>12. CASE ToR(">r", 1) \/ ToR("2>r", 2)
  <2>1. loops # <<>> /\ instr # "unwind"
    BY <1>12 DEF ToR, At, Running
  <2>2. NoRoom \/ Refused \/ \E k \in {1, 2} : Changed(k)
    BY <1>12, ToRIsInductive
  <2> QED BY <1>3, <2>1, <2>2
<1>13. CASE RFrom("r>", 1) \/ RFrom("2r>", 2)
  <2>1. loops # <<>> /\ instr # "unwind"
    BY <1>13 DEF RFrom, At, Running
  <2>2. NoRoom \/ Refused \/ \E k \in {1, 2} : Changed(-k) /\ k <= rp - tr0
    BY <1>13, RFromIsInductive
  <2> QED BY <1>3, <2>1, <2>2
<1>14. CASE Interrupt
  BY <1>2, <1>14 DEF Interrupt
<1> QED BY <1>1, <1>4, <1>5, <1>6, <1>7, <1>8, <1>9, <1>10, <1>11, <1>12, <1>13, <1>14
        DEF Next, Step

\* Every step is one of CallStack's, or none.
LEMMA StepImplements ==
  ASSUME Inductive, Inductive', HandlersForLooseWords, [Next]_vars
  PROVE  [Abstract!Next]_Active
<1>1. level \in Nat /\ Len(Active) = level
  BY Facts, ActiveIs
<1>2. CASE UNCHANGED <<rs, calls>>
  BY <1>2, ActiveSame
<1>3. ASSUME NEW m \in 0..level - 1, Dropped(m) PROVE Abstract!Leave
  <2>1. Active' = SubSeq(Active, 1, m) /\ level > 0
    BY <1>1, <1>3, DropIsLeave
  <2> QED BY <1>1, <2>1 DEF Abstract!Leave, Abstract!n, Active
<1>4. ASSUME NEW addresses \in {1, 2}, Begin(addresses), instr # "unwind" PROVE Abstract!Call
  BY <1>4, BeginIsCall DEF Abstract!Call, Active
<1>5. ASSUME NEW k \in {1, 2}, Changed(k), loops # <<>>, instr # "unwind"
      PROVE  Abstract!PutItems
  <2>1. Active' = [Active EXCEPT ![level] = @ + k] /\ level > 0
    BY <1>5, ItemsCount
  <2> QED BY <1>1, <2>1 DEF Abstract!PutItems, Abstract!n, Active
<1>6. ASSUME NEW k \in {1, 2}, Changed(-k), k <= rp - tr0, loops # <<>>, instr # "unwind"
      PROVE  Abstract!TakeItems
  <2>1. Active' = [Active EXCEPT ![level] = @ + (-k)] /\ level > 0 /\ k <= Active[level]
        /\ Active[level] \in Nat
    BY <1>6, ItemsCount
  <2>2. Active' = [Active EXCEPT ![level] = @ - k]
    BY <2>1
  <2> QED BY <1>1, <2>1, <2>2 DEF Abstract!TakeItems, Abstract!n, Active
<1> QED BY <1>2, <1>3, <1>4, <1>5, <1>6, StepShapes DEF Abstract!Next

(* The return stack implements a stack of definitions with items of their  *)
(* own: what a program does to it is a call, items put or taken by the     *)
(* definition that runs, or definitions left with all their items.         *)
THEOREM ReturnStackIsACallStack ==
  ASSUME HandlersForLooseWords PROVE Spec => ImplementsCallStack
<1>1. Init => Abstract!Init
  <2> SUFFICES ASSUME Init PROVE Abstract!Init
    OBVIOUS
  <2>1. level = 0
    BY DEF Init, level
  <2> QED BY <2>1 DEF Abstract!Init
<1>2. Inductive /\ Inductive' /\ [Next]_vars => [Abstract!Next]_Active
  BY StepImplements
<1> QED BY <1>1, <1>2, SpecIsInductive, PTL
        DEF Spec, ImplementsCallStack, Abstract!Spec, Active
=============================================================================
