--------------------------- MODULE CompilerProofs ---------------------------
(***************************************************************************)
(* A program that opens no definition inside another and defines nothing   *)
(* inside an open one never runs into a half made word, whatever it        *)
(* suspends, cancels or forgets, for every size of the dictionary and of   *)
(* the stack; and its definitions are transactions.  The numbers that its  *)
(* words calculate are right for every size of the cells, and so are the   *)
(* dates of TIME&DATE.                                                     *)
(***************************************************************************)
EXTENDS Compiler, NumericWords, SequenceTheorems, WellFoundedInduction, TLAPS

\* One definition at a time: what is suspended is resumed or replaced by
\* nothing else, and DOES> keeps the word it is for.
OneIsOpen ==
  /\ sus_state \in Named => state = NotCompiling
  /\ (Open /\ OpenMode = "DOES") => dict # <<>> /\ xt = top.at

Inductive == CompilerInv /\ OneIsOpen

(* The abstract state of module Definitions, as Compiler instantiates it:  *)
(* the words that are found, and where the open definition began.          *)
Words == [i \in DOMAIN Visible |-> [at |-> Visible[i].at, code |-> Visible[i].code]]
Begun == IF ~Open THEN [at |-> 0, is |-> FALSE]
         ELSE [at |-> IF OpenMode = "DOES" THEN here0 ELSE xt, is |-> TRUE]

\* No header is half made.
Quiet == \A i \in 1..Len(dict) : ~dict[i].compiling /\ dict[i].code # "null"

-----------------------------------------------------------------------------
\* The parts of the invariant, with the types variable by variable.
LEMMA Parts ==
  ASSUME Inductive
  PROVE  /\ here \in Nat /\ here0 \in Nat /\ xt \in Nat /\ dict \in Seq(Header)
         /\ depth \in 0..MaxDepth /\ s0 \in 0..MaxDepth
         /\ state \in Mode \cup {NotCompiling} /\ sus_state \in Mode \cup {NotCompiling}
         /\ HeadersAreAllotted /\ OnlyTheOpenWordIsHidden /\ OpenIsOnTop /\ OneIsOpen
BY DEF Inductive, CompilerInv, CompilerTypeOK

\* ... and the types after a step.
LEMMA TypesAfter ==
  ASSUME here' \in Nat, here0' \in Nat, xt' \in Nat, dict' \in Seq(Header),
         depth' \in 0..MaxDepth, s0' \in 0..MaxDepth,
         state' \in Mode \cup {NotCompiling}, sus_state' \in Mode \cup {NotCompiling}
  PROVE  CompilerTypeOK'
BY DEF CompilerTypeOK

\* A sequence of headers, member by member.
LEMMA Headers ==
  ASSUME NEW d \in Seq(Header)
  PROVE  /\ Len(d) \in Nat /\ DOMAIN d = 1..Len(d)
         /\ d # <<>> <=> Len(d) > 0
         /\ \A i \in 1..Len(d) : /\ d[i] \in Header /\ d[i].at \in Nat
                                 /\ d[i].compiling \in BOOLEAN /\ d[i].code \in Code
<1>1. Len(d) \in Nat /\ DOMAIN d = 1..Len(d) /\ (d # <<>> <=> Len(d) > 0)
  BY LenProperties, EmptySeq
<1>2. \A i \in 1..Len(d) : d[i] \in Header
  BY ElementOfSeq
<1> QED BY <1>1, <1>2 DEF Header

\* A header is added on top of the chain.
LEMMA EntryAdds ==
  ASSUME dict \in Seq(Header), here \in Nat,
         NEW compiling \in BOOLEAN, NEW code \in Code, Entry(compiling, code)
  PROVE  /\ dict' \in Seq(Header) /\ Len(dict') = Len(dict) + 1
         /\ \A i \in 1..Len(dict) : dict'[i] = dict[i]
         /\ dict'[Len(dict) + 1] = [at |-> here, compiling |-> compiling, code |-> code]
<1>1. [at |-> here, compiling |-> compiling, code |-> code] \in Header
  BY DEF Header
<1> QED BY <1>1, AppendProperties DEF Entry

\* Everything from header i on is cut off.
LEMMA CutRemoves ==
  ASSUME dict \in Seq(Header), NEW i \in 1..Len(dict), CutAt(i)
  PROVE  /\ dict' \in Seq(Header) /\ Len(dict') = i - 1
         /\ \A j \in 1..(i - 1) : dict'[j] = dict[j]
         /\ here' = dict[i].at /\ here' \in Nat
<1>1. Len(dict) \in Nat /\ dict[i].at \in Nat
  BY Headers
<1>2. dict' = SubSeq(dict, 1, i - 1) /\ here' = dict[i].at
  BY DEF CutAt
<1>3. i - 1 \in Int /\ 1 <= (i - 1) + 1 /\ i - 1 <= Len(dict)
  BY <1>1
<1> QED BY <1>1, <1>2, <1>3, SubSeqProperties

\* A token's code is set in place.
LEMMA SetCodeKeeps ==
  ASSUME NEW d \in Seq(Header), NEW x, NEW c \in Code
  PROVE  /\ SetCode(d, x, c) \in Seq(Header) /\ Len(SetCode(d, x, c)) = Len(d)
         /\ \A i \in 1..Len(d) :
              /\ SetCode(d, x, c)[i].at = d[i].at
              /\ SetCode(d, x, c)[i].compiling = d[i].compiling
              /\ SetCode(d, x, c)[i].code = IF d[i].at = x THEN c ELSE d[i].code
              /\ d[i].at # x => SetCode(d, x, c)[i] = d[i]
<1>1. Len(d) \in Nat /\ DOMAIN d = 1..Len(d) /\ \A i \in 1..Len(d) : d[i] \in Header
  BY Headers
<1>2. SetCode(d, x, c) = [i \in 1..Len(d) |->
                            IF d[i].at = x THEN [d[i] EXCEPT !.code = c] ELSE d[i]]
  BY <1>1 DEF SetCode
<1>3. \A h \in Header : [h EXCEPT !.code = c] \in Header
  BY DEF Header
<1>4. \A i \in 1..Len(d) : SetCode(d, x, c)[i] \in Header
  BY <1>1, <1>2, <1>3
<1>5. SetCode(d, x, c) \in [1..Len(d) -> Header]
  BY <1>2, <1>4
<1>6. SetCode(d, x, c) \in Seq(Header) /\ Len(SetCode(d, x, c)) = Len(d)
  BY <1>1, <1>5
<1>7. \A i \in 1..Len(d) :
        /\ SetCode(d, x, c)[i].at = d[i].at
        /\ SetCode(d, x, c)[i].compiling = d[i].compiling
        /\ SetCode(d, x, c)[i].code = IF d[i].at = x THEN c ELSE d[i].code
        /\ d[i].at # x => SetCode(d, x, c)[i] = d[i]
  BY <1>1, <1>2 DEF Header
<1> QED BY <1>6, <1>7

\* A new header lies above the others, which stay where they are.
LEMMA EntryIsAllotted ==
  ASSUME dict \in Seq(Header), here \in Nat, HeadersAreAllotted,
         NEW compiling \in BOOLEAN, NEW code \in Code, Entry(compiling, code),
         here' \in Nat, here' > here
  PROVE  HeadersAreAllotted'
<1>1. /\ Len(dict) \in Nat /\ DOMAIN dict = 1..Len(dict)
      /\ \A i \in 1..Len(dict) : dict[i].at \in Nat /\ dict[i].at < here
  BY Headers DEF HeadersAreAllotted
<1>2. DOMAIN dict' = 1..(Len(dict) + 1)
  BY EntryAdds, Headers
<1>3. /\ \A i \in 1..Len(dict) : dict'[i] = dict[i]
      /\ dict'[Len(dict) + 1] = [at |-> here, compiling |-> compiling, code |-> code]
  BY EntryAdds
<1>4. \A i \in DOMAIN dict' : dict'[i].at < here'
  BY <1>1, <1>2, <1>3
<1>5. ASSUME NEW i \in DOMAIN dict', NEW j \in DOMAIN dict', i < j
      PROVE  dict'[i].at < dict'[j].at
  <2>1. i \in 1..Len(dict)
    BY <1>1, <1>2, <1>5
  <2>2. CASE j \in 1..Len(dict)
    BY <1>1, <1>3, <1>5, <2>1, <2>2 DEF HeadersAreAllotted
  <2>3. CASE j = Len(dict) + 1
    BY <1>1, <1>3, <2>1, <2>3
  <2> QED BY <1>1, <1>2, <2>2, <2>3
<1> QED BY <1>4, <1>5 DEF HeadersAreAllotted

\* What is left after a cut lies below the space that is free again.
LEMMA CutIsAllotted ==
  ASSUME dict \in Seq(Header), HeadersAreAllotted, NEW i \in 1..Len(dict), CutAt(i)
  PROVE  HeadersAreAllotted'
<1>1. /\ Len(dict) \in Nat /\ DOMAIN dict = 1..Len(dict)
      /\ \A j \in 1..Len(dict) : dict[j].at \in Nat
  BY Headers
<1>2. DOMAIN dict' = 1..(i - 1) /\ \A j \in 1..(i - 1) : dict'[j] = dict[j]
  BY CutRemoves, Headers
<1>3. here' = dict[i].at
  BY CutRemoves
<1> QED BY <1>1, <1>2, <1>3 DEF HeadersAreAllotted

-----------------------------------------------------------------------------
\* Nothing is half made while no definition is open.
LEMMA ClosedIsQuiet == ASSUME Inductive, ~Open PROVE Quiet
<1>1. OnlyTheOpenWordIsHidden /\ dict \in Seq(Header)
  BY Parts
<1> QED BY <1>1, Headers DEF OnlyTheOpenWordIsHidden, Quiet

\* ... nor below the top of the chain at any time.
LEMMA OnlyTheTop ==
  ASSUME Inductive
  PROVE  \A i \in 1..(Len(dict) - 1) : ~dict[i].compiling /\ dict[i].code # "null"
<1>1. /\ OnlyTheOpenWordIsHidden /\ Len(dict) \in Nat /\ DOMAIN dict = 1..Len(dict)
  BY Parts, Headers
<1> QED BY <1>1 DEF OnlyTheOpenWordIsHidden

\* A step that leaves no definition open has the chain to itself.
LEMMA ClosedIsInductive ==
  ASSUME CompilerTypeOK', HeadersAreAllotted', Quiet', ~Open'
  PROVE  Inductive'
<1>1. DOMAIN dict' = 1..Len(dict')
  BY Headers DEF CompilerTypeOK
<1>2. OnlyTheOpenWordIsHidden'
  BY <1>1 DEF OnlyTheOpenWordIsHidden, Quiet
<1>3. OpenIsOnTop' /\ OneIsOpen'
  BY DEF OpenIsOnTop, OneIsOpen, Open
<1> QED BY <1>2, <1>3 DEF Inductive, CompilerInv

\* A step that leaves the chain and the open definition alone.
LEMMA StaysOpen ==
  ASSUME Inductive, CompilerTypeOK', dict' = dict, here' >= here,
         xt' = xt, here0' = here0,
         Open' <=> Open, Open => OpenMode' = OpenMode,
         sus_state' \in Named => state' = NotCompiling
  PROVE  Inductive'
<1>1. /\ here \in Nat /\ here' \in Nat /\ xt \in Nat /\ here0 \in Nat /\ dict \in Seq(Header)
      /\ HeadersAreAllotted /\ OnlyTheOpenWordIsHidden /\ OpenIsOnTop /\ OneIsOpen
  BY Parts DEF CompilerTypeOK
<1>2. Len(dict) \in Nat /\ DOMAIN dict = 1..Len(dict) /\ \A i \in 1..Len(dict) : dict[i].at \in Nat
  BY <1>1, Headers
<1>3. HeadersAreAllotted'
  BY <1>1, <1>2 DEF HeadersAreAllotted
<1>4. OnlyTheOpenWordIsHidden'
  BY <1>1, <1>2 DEF OnlyTheOpenWordIsHidden, top
<1>5. ~(state' \in Named /\ sus_state' \in Named)
  BY DEF Named, NotCompiling
<1>6. OpenIsOnTop'
  BY <1>1, <1>2, <1>5 DEF OpenIsOnTop
<1>7. OneIsOpen'
  BY <1>1 DEF OneIsOpen, top
<1> QED BY <1>3, <1>4, <1>6, <1>7 DEF Inductive, CompilerInv

\* Which definition is open, by the two states.
LEMMA OpenStates ==
  ASSUME Inductive
  PROVE  /\ state \in Named => Open /\ OpenMode = state /\ sus_state \notin Named
         /\ state = NotCompiling /\ sus_state \in Named => Open /\ OpenMode = sus_state
         /\ state = "ANONYMOUS" => ~Open
         /\ state \notin Named /\ sus_state \notin Named => ~Open
         /\ Resumed \in Mode
         /\ Open <=> Resumed # "ANONYMOUS"
         /\ Open => OpenMode = Resumed
         /\ SusTaken \in Mode \cup {NotCompiling} /\ SusTaken \notin Named
<1>1. /\ state \in Mode \cup {NotCompiling} /\ sus_state \in Mode \cup {NotCompiling}
      /\ OneIsOpen
  BY Parts
<1> QED BY <1>1 DEF OneIsOpen, Open, OpenMode, Resumed, SusTaken, Compiling, Named, Mode, NotCompiling

-----------------------------------------------------------------------------
\* Space is taken or given to the data stack, compilation suspended or resumed.
LEMMA SpaceIsInductive ==
  ASSUME Inductive,
         \/ CompileCell \/ OpenControl \/ (CloseControl /\ depth # 0)
         \/ LeftBracket \/ RightBracket \/ DataWord \/ UNCHANGED vars
  PROVE  Inductive' /\ dict' = dict /\ Begun' = Begun
<1>a. /\ here \in Nat /\ here0 \in Nat /\ xt \in Nat /\ dict \in Seq(Header)
      /\ depth \in 0..MaxDepth /\ s0 \in 0..MaxDepth
      /\ state \in Mode \cup {NotCompiling} /\ sus_state \in Mode \cup {NotCompiling}
      /\ OneIsOpen
  BY Parts
<1>1. CASE \/ CompileCell \/ OpenControl \/ (CloseControl /\ depth # 0)
           \/ DataWord \/ UNCHANGED vars
  <2>1. UNCHANGED <<dict, state, sus_state, s0, here0, xt>>
    BY <1>1 DEF CompileCell, OpenControl, CloseControl, DataWord, vars, compile
  <2>2. here' \in {here, here + 1}
    BY <1>1 DEF CompileCell, OpenControl, CloseControl, DataWord, vars
  <2>3. depth' \in 0..MaxDepth
    BY <1>1, <1>a, BoundsAssumption
       DEF CompileCell, OpenControl, CloseControl, DataWord, vars
  <2>4. CompilerTypeOK'
    BY <1>a, <2>1, <2>2, <2>3, TypesAfter
  <2>5. (Open' <=> Open) /\ OpenMode' = OpenMode /\ (sus_state' \in Named => state' = NotCompiling)
    BY <1>a, <2>1 DEF Open, OpenMode, OneIsOpen
  <2>6. Begun' = Begun
    BY <2>1, <2>5 DEF Begun
  <2> QED BY <1>a, <2>1, <2>2, <2>4, <2>5, <2>6, StaysOpen
<1>2. CASE LeftBracket
  <2>1. /\ state # NotCompiling /\ sus_state' = state /\ state' = NotCompiling
        /\ UNCHANGED <<here, dict, depth, s0, here0, xt>>
    BY <1>2 DEF LeftBracket, Compiling
  <2>2. CompilerTypeOK'
    BY <1>a, <2>1, TypesAfter
  <2>3. (Open' <=> Open) /\ (Open => OpenMode' = OpenMode)
    BY <1>a, <2>1 DEF Open, OpenMode, OneIsOpen, Mode, Named, NotCompiling
  <2>4. Begun' = Begun
    BY <2>1, <2>3 DEF Begun
  <2> QED BY <1>a, <2>1, <2>2, <2>3, <2>4, StaysOpen
<1>3. CASE RightBracket
  <2>1. /\ state = NotCompiling /\ state' = Resumed /\ sus_state' = NotCompiling
        /\ UNCHANGED <<here, dict, depth, s0, here0, xt>>
    BY <1>3 DEF RightBracket, Compiling
  <2>2. CompilerTypeOK'
    BY <1>a, <2>1, TypesAfter, OpenStates
  <2>3. (Open' <=> Open) /\ (Open => OpenMode' = OpenMode) /\ sus_state' \notin Named
    BY <1>a, <2>1 DEF Open, OpenMode, Resumed, Compiling, Mode, Named, NotCompiling
  <2>4. Begun' = Begun
    BY <2>1, <2>3 DEF Begun
  <2> QED BY <1>a, <2>1, <2>2, <2>3, <2>4, StaysOpen
<1> QED BY <1>1, <1>2, <1>3

\* A definition begins: a word, a nameless one, or new code for the last word.
LEMMA BeginIsInductive ==
  ASSUME Inductive, ~NestedColon, ~DefinesWhileOpen,
         Colon \/ ColonNoname \/ DoesInterpreted
  PROVE  /\ Inductive' /\ ~Open /\ here' \in Nat /\ here' >= here
         /\ Begun' = [at |-> here, is |-> TRUE]
<1>a. /\ here \in Nat /\ here0 \in Nat /\ xt \in Nat /\ dict \in Seq(Header)
      /\ depth \in 0..MaxDepth /\ s0 \in 0..MaxDepth
      /\ state \in Mode \cup {NotCompiling} /\ sus_state \in Mode \cup {NotCompiling}
      /\ HeadersAreAllotted
      /\ Len(dict) \in Nat /\ DOMAIN dict = 1..Len(dict)
      /\ \A i \in 1..Len(dict) : dict[i].at \in Nat
  BY Parts, Headers
<1>b. ~Compiling /\ ~Open
  BY DEF Colon, ColonNoname, DoesInterpreted, MayOpen, MayDefine
<1>c. state = NotCompiling /\ sus_state \notin Named /\ Quiet
  BY <1>b, ClosedIsQuiet DEF Compiling, Open
<1>1. CASE Colon
  <2>1. /\ Entry(TRUE, "null") /\ here' = here + 1 /\ depth' = depth
        /\ state' = "COLON" /\ s0' = depth /\ here0' = here + 1 /\ xt' = here
        /\ sus_state' = sus_state
    BY <1>1, <1>b DEF Colon, Start
  <2>2. /\ dict' \in Seq(Header) /\ Len(dict') = Len(dict) + 1
        /\ \A i \in 1..Len(dict) : dict'[i] = dict[i]
        /\ dict'[Len(dict) + 1] = [at |-> here, compiling |-> TRUE, code |-> "null"]
    BY <1>a, <2>1, EntryAdds DEF Code
  <2>3. DOMAIN dict' = 1..(Len(dict) + 1)
    BY <2>2, Headers
  <2>4. CompilerTypeOK'
    BY <1>a, <2>1, <2>2, TypesAfter DEF Mode, Named
  <2>5. HeadersAreAllotted'
    <3>1. here' \in Nat /\ here' > here /\ TRUE \in BOOLEAN /\ "null" \in Code
      BY <1>a, <2>1 DEF Code
    <3> QED BY <1>a, <2>1, <3>1, EntryIsAllotted
  <2>6. Open' /\ OpenMode' = "COLON"
    BY <2>1 DEF Open, OpenMode, Named
  <2>7. dict' # <<>> /\ top' = dict'[Len(dict) + 1]
    BY <1>a, <2>2, Headers DEF top
  <2>8. OnlyTheOpenWordIsHidden'
    BY <1>a, <1>c, <2>1, <2>2, <2>3, <2>6, <2>7 DEF OnlyTheOpenWordIsHidden, Quiet
  <2>9. OpenIsOnTop' /\ OneIsOpen'
    BY <1>c, <2>1, <2>6 DEF OpenIsOnTop, OneIsOpen
  <2>10. Begun' = [at |-> here, is |-> TRUE]
    BY <2>1, <2>6 DEF Begun
  <2> QED BY <1>a, <1>b, <2>1, <2>4, <2>5, <2>8, <2>9, <2>10 DEF Inductive, CompilerInv
<1>2. CASE ColonNoname
  <2>1. /\ here' = here + 1 /\ dict' = dict /\ depth' = depth
        /\ state' = "NONAME" /\ s0' = depth /\ here0' = here + 1 /\ xt' = here
        /\ sus_state' = sus_state
    BY <1>2, <1>b DEF ColonNoname, Start
  <2>2. CompilerTypeOK'
    BY <1>a, <2>1, TypesAfter DEF Mode, Named
  <2>3. HeadersAreAllotted'
    BY <1>a, <2>1 DEF HeadersAreAllotted
  <2>4. Open' /\ OpenMode' = "NONAME"
    BY <2>1 DEF Open, OpenMode, Named
  <2>5. OnlyTheOpenWordIsHidden'
    BY <1>a, <1>c, <2>1, <2>4 DEF OnlyTheOpenWordIsHidden, Quiet
  <2>6. OpenIsOnTop' /\ OneIsOpen'
    BY <1>a, <1>c, <2>1, <2>4 DEF OpenIsOnTop, OneIsOpen, HeadersAreAllotted
  <2>7. Begun' = [at |-> here, is |-> TRUE]
    BY <2>1, <2>4 DEF Begun
  <2> QED BY <1>a, <1>b, <2>1, <2>2, <2>3, <2>5, <2>6, <2>7 DEF Inductive, CompilerInv
<1>3. CASE DoesInterpreted
  <2>1. /\ here' = here /\ dict' = dict /\ depth' = depth /\ dict # <<>>
        /\ state' = "DOES" /\ s0' = depth /\ here0' = here /\ xt' = top.at
        /\ sus_state' = sus_state
    BY <1>3, <1>b DEF DoesInterpreted, Start
  <2>2. top.at \in Nat /\ top' = top
    BY <1>a, <2>1, Headers DEF top
  <2>3. CompilerTypeOK'
    BY <1>a, <2>1, <2>2, TypesAfter DEF Mode, Named
  <2>4. HeadersAreAllotted'
    BY <1>a, <2>1 DEF HeadersAreAllotted
  <2>5. Open' /\ OpenMode' = "DOES"
    BY <2>1 DEF Open, OpenMode, Named
  <2>6. OnlyTheOpenWordIsHidden'
    BY <1>a, <1>c, <2>1, <2>5 DEF OnlyTheOpenWordIsHidden, Quiet
  <2>7. OpenIsOnTop' /\ OneIsOpen'
    BY <1>a, <1>c, <2>1, <2>2, <2>5 DEF OpenIsOnTop, OneIsOpen, HeadersAreAllotted
  <2>8. Begun' = [at |-> here, is |-> TRUE]
    BY <2>1, <2>5 DEF Begun
  <2> QED BY <1>a, <1>b, <2>1, <2>3, <2>4, <2>6, <2>7, <2>8 DEF Inductive, CompilerInv
<1> QED BY <1>1, <1>2, <1>3

\* A definition is given up: the chain and the space are what they were.
LEMMA CancelIsInductive ==
  ASSUME Inductive, Cancel, depth' \in 0..MaxDepth
  PROVE  Inductive' /\ ~Open'
<1>a. /\ here \in Nat /\ here0 \in Nat /\ xt \in Nat /\ dict \in Seq(Header)
      /\ s0 \in 0..MaxDepth
      /\ HeadersAreAllotted /\ OnlyTheOpenWordIsHidden /\ OpenIsOnTop
      /\ Len(dict) \in Nat /\ DOMAIN dict = 1..Len(dict)
      /\ \A i \in 1..Len(dict) : dict[i].at \in Nat
  BY Parts, Headers
<1>b. /\ state' = NotCompiling /\ sus_state' = SusTaken
      /\ UNCHANGED <<s0, here0, xt>>
  BY DEF Cancel
<1>c. ~Open'
  BY <1>b, OpenStates DEF Open, Named, NotCompiling
<1>d. ASSUME dict' \in Seq(Header), here' \in Nat
      PROVE  CompilerTypeOK'
  BY <1>a, <1>b, <1>d, OpenStates, TypesAfter
<1>1. CASE Resumed = "ANONYMOUS"
  <2>1. UNCHANGED <<here, dict>> /\ ~Open
    BY <1>1, OpenStates DEF Cancel
  <2>2. Quiet'
    BY <2>1, ClosedIsQuiet DEF Quiet
  <2> QED BY <1>a, <1>c, <1>d, <2>1, <2>2, ClosedIsInductive DEF HeadersAreAllotted
<1>2. CASE Resumed = "COLON"
  <2>1. Open /\ OpenMode = "COLON"
    BY <1>2, OpenStates
  <2>2. dict # <<>>
    BY <1>a, <2>1 DEF OnlyTheOpenWordIsHidden
  <2>3. CutAt(Len(dict)) /\ Len(dict) \in 1..Len(dict)
    BY <1>2, <1>a, <2>2, Headers DEF Cancel
  <2>4. /\ dict' \in Seq(Header) /\ Len(dict') = Len(dict) - 1 /\ here' \in Nat
        /\ \A j \in 1..(Len(dict) - 1) : dict'[j] = dict[j]
    BY <1>a, <2>3, CutRemoves
  <2>5. Quiet'
    <3>1. \A i \in 1..(Len(dict) - 1) : ~dict[i].compiling /\ dict[i].code # "null"
      BY OnlyTheTop
    <3> QED BY <1>a, <2>4, <3>1 DEF Quiet
  <2> QED BY <1>a, <1>c, <1>d, <2>3, <2>4, <2>5, CutIsAllotted, ClosedIsInductive
<1>3. CASE Resumed = "NONAME"
  <2>1. here' = xt /\ dict' = dict /\ Open /\ OpenMode = "NONAME"
    BY <1>3, OpenStates DEF Cancel
  <2>2. Quiet'
    BY <1>a, <2>1 DEF OnlyTheOpenWordIsHidden, Quiet
  <2>3. HeadersAreAllotted'
    BY <1>a, <2>1 DEF HeadersAreAllotted, OpenIsOnTop
  <2> QED BY <1>a, <1>c, <1>d, <2>1, <2>2, <2>3, ClosedIsInductive
<1>4. CASE Resumed = "DOES"
  <2>1. here' = here0 /\ dict' = dict /\ Open /\ OpenMode = "DOES"
    BY <1>4, OpenStates DEF Cancel
  <2>2. Quiet'
    BY <1>a, <2>1 DEF OnlyTheOpenWordIsHidden, Quiet
  <2>3. HeadersAreAllotted'
    BY <1>a, <2>1 DEF HeadersAreAllotted, OpenIsOnTop
  <2> QED BY <1>a, <1>c, <1>d, <2>1, <2>2, <2>3, ClosedIsInductive
<1> QED BY <1>1, <1>2, <1>3, <1>4, OpenStates DEF Mode, Named

\* What a finished definition leaves: the same headers, none of them half
\* made, and the code of one token set.
LEMMA FinishedIsQuiet ==
  ASSUME Inductive, Open
  PROVE  /\ Finished \in Seq(Header) /\ Len(Finished) = Len(dict)
         /\ \A i \in 1..Len(dict) :
              /\ Finished[i].at = dict[i].at
              /\ ~Finished[i].compiling /\ Finished[i].code # "null"
              /\ Finished[i].code = IF dict[i].at # xt THEN dict[i].code
                                    ELSE IF Resumed = "DOES" THEN "doesthunk" ELSE "threaded"
<1>a. /\ dict \in Seq(Header) /\ OnlyTheOpenWordIsHidden
      /\ Len(dict) \in Nat /\ DOMAIN dict = 1..Len(dict)
      /\ \A i \in 1..Len(dict) : dict[i] \in Header
  BY Parts, Headers
<1>b. "doesthunk" \in Code /\ "threaded" \in Code
  BY DEF Code
<1>1. CASE Resumed \in {"DOES", "NONAME"}
  <2>1. PICK c \in {"doesthunk", "threaded"} :
          /\ Finished = SetCode(dict, xt, c)
          /\ c = IF Resumed = "DOES" THEN "doesthunk" ELSE "threaded"
    BY <1>1 DEF Finished
  <2>2. \A i \in 1..Len(dict) : ~dict[i].compiling /\ dict[i].code # "null"
    BY <1>a, <1>1, OpenStates DEF OnlyTheOpenWordIsHidden
  <2> QED BY <1>a, <1>b, <2>1, <2>2, SetCodeKeeps
<1>2. CASE Resumed = "COLON"
  <2> DEFINE d == [dict EXCEPT ![Len(dict)].compiling = FALSE]
  <2>1. Finished = SetCode(d, xt, "threaded")
    BY <1>2 DEF Finished
  <2>2. /\ dict # <<>> /\ top.compiling
    BY <1>a, <1>2, OpenStates DEF OnlyTheOpenWordIsHidden
  <2>3. Len(dict) \in 1..Len(dict) /\ xt = dict[Len(dict)].at
    BY <1>a, <2>2, Headers DEF OnlyTheOpenWordIsHidden, top
  <2>4. [dict[Len(dict)] EXCEPT !.compiling = FALSE] \in Header
    BY <1>a, <2>3 DEF Header
  <2>5. d = [dict EXCEPT ![Len(dict)] = [dict[Len(dict)] EXCEPT !.compiling = FALSE]]
    OBVIOUS
  <2>6. /\ d \in Seq(Header) /\ Len(d) = Len(dict)
        /\ \A i \in 1..Len(dict) :
             d[i] = IF i = Len(dict) THEN [dict[Len(dict)] EXCEPT !.compiling = FALSE]
                                     ELSE dict[i]
    BY <1>a, <2>3, <2>4, <2>5, ExceptSeq
  <2> HIDE DEF d
  <2>7. \A i \in 1..Len(dict) :
           /\ d[i].at = dict[i].at /\ ~d[i].compiling
           /\ d[i].code = dict[i].code
           /\ d[i].code = "null" => d[i].at = xt
    BY <1>a, <2>3, <2>6, OnlyTheTop DEF Header
  <2>8. /\ SetCode(d, xt, "threaded") \in Seq(Header)
        /\ Len(SetCode(d, xt, "threaded")) = Len(d)
        /\ \A i \in 1..Len(d) :
             /\ SetCode(d, xt, "threaded")[i].at = d[i].at
             /\ SetCode(d, xt, "threaded")[i].compiling = d[i].compiling
             /\ SetCode(d, xt, "threaded")[i].code =
                  IF d[i].at = xt THEN "threaded" ELSE d[i].code
    BY <1>b, <2>6, SetCodeKeeps
  <2> QED BY <1>a, <1>2, <2>1, <2>6, <2>7, <2>8
<1> QED BY <1>1, <1>2, OpenStates DEF Mode, Named

\* `;' finishes the definition or cancels it.
LEMMA FinishIsInductive == ASSUME Inductive, Finish PROVE Inductive' /\ ~Open'
<1>a. /\ here \in Nat /\ here0 \in Nat /\ xt \in Nat /\ dict \in Seq(Header)
      /\ depth \in 0..MaxDepth /\ s0 \in 0..MaxDepth /\ HeadersAreAllotted
      /\ Len(dict) \in Nat /\ DOMAIN dict = 1..Len(dict)
      /\ \A i \in 1..Len(dict) : dict[i].at \in Nat
  BY Parts, Headers
<1>1. CASE Resumed = "ANONYMOUS"
  <2>1. /\ state' = NotCompiling /\ sus_state' = SusTaken
        /\ UNCHANGED <<here, dict, depth, s0, here0, xt>>
    BY <1>1 DEF Finish
  <2>2. ~Open /\ ~Open'
    BY <1>1, <2>1, OpenStates DEF Open, Named, NotCompiling
  <2>3. CompilerTypeOK'
    BY <1>a, <2>1, OpenStates, TypesAfter
  <2>4. Quiet' /\ HeadersAreAllotted'
    BY <1>a, <2>1, <2>2, ClosedIsQuiet DEF Quiet, HeadersAreAllotted
  <2> QED BY <2>2, <2>3, <2>4, ClosedIsInductive
<1>2. CASE Resumed # "ANONYMOUS" /\ s0 # depth
  BY <1>a, <1>2, CancelIsInductive DEF Finish
<1>3. CASE Resumed # "ANONYMOUS" /\ s0 = depth
  <2>1. /\ here' = here + 1 /\ dict' = Finished /\ depth' = TokenPushed
        /\ state' = NotCompiling /\ sus_state' = SusTaken
        /\ UNCHANGED <<s0, here0, xt>>
    BY <1>3 DEF Finish
  <2>2. Open /\ ~Open'
    BY <1>3, <2>1, OpenStates DEF Open, Named, NotCompiling
  <2>3. /\ dict' \in Seq(Header) /\ Len(dict') = Len(dict)
        /\ \A i \in 1..Len(dict) : /\ dict'[i].at = dict[i].at
                                   /\ ~dict'[i].compiling /\ dict'[i].code # "null"
    BY <2>1, <2>2, FinishedIsQuiet
  <2>4. DOMAIN dict' = 1..Len(dict)
    BY <2>3, Headers
  <2>5. depth' \in 0..MaxDepth
    BY <1>a, <2>1, BoundsAssumption DEF TokenPushed
  <2>6. CompilerTypeOK'
    BY <1>a, <2>1, <2>3, <2>5, OpenStates, TypesAfter
  <2>7. Quiet'
    BY <2>3 DEF Quiet
  <2>8. HeadersAreAllotted'
    <3>1. /\ \A i \in 1..Len(dict) : dict'[i].at = dict[i].at
          /\ here' > here
      BY <1>a, <2>1, <2>3, SMTT(20)
    <3> QED BY <1>a, <2>1, <2>4, <3>1 DEF HeadersAreAllotted
  <2> QED BY <2>2, <2>6, <2>7, <2>8, ClosedIsInductive
<1> QED BY <1>1, <1>2, <1>3

\* Words are defined, given code and forgotten while no definition is open.
LEMMA ChainIsInductive ==
  ASSUME Inductive, ~DefinesWhileOpen, Define \/ LitDoes \/ Forget \/ RunMarker
  PROVE  Inductive' /\ ~Open /\ ~Open'
<1>a. /\ here \in Nat /\ here0 \in Nat /\ xt \in Nat /\ dict \in Seq(Header)
      /\ depth \in 0..MaxDepth /\ s0 \in 0..MaxDepth /\ HeadersAreAllotted
      /\ state \in Mode \cup {NotCompiling} /\ sus_state \in Mode \cup {NotCompiling}
      /\ Len(dict) \in Nat /\ DOMAIN dict = 1..Len(dict)
      /\ \A i \in 1..Len(dict) : dict[i].at \in Nat
  BY Parts, Headers
<1>b. ~Open /\ UNCHANGED <<depth, state, sus_state, s0, here0, xt>>
  BY DEF Define, LitDoes, Forget, RunMarker, MayDefine, compile
<1>c. ~Open' /\ Quiet
  BY <1>b, ClosedIsQuiet DEF Open
<1>d. ASSUME dict' \in Seq(Header), here' \in Nat, HeadersAreAllotted', Quiet'
      PROVE  Inductive'
  <2>1. CompilerTypeOK'
    BY <1>a, <1>b, <1>d, TypesAfter
  <2> QED BY <1>c, <1>d, <2>1, ClosedIsInductive
<1>1. CASE Define
  <2>1. PICK code \in {"variable", "marker"}, body \in 0..1 :
          Entry(FALSE, code) /\ here' = here + 1 + body
    BY <1>1 DEF Define
  <2>2. code \in Code /\ here' \in Nat /\ here' > here
    BY <1>a, <2>1 DEF Code
  <2>3. /\ dict' \in Seq(Header) /\ Len(dict') = Len(dict) + 1
        /\ \A i \in 1..Len(dict) : dict'[i] = dict[i]
        /\ dict'[Len(dict) + 1] = [at |-> here, compiling |-> FALSE, code |-> code]
    BY <1>a, <2>1, <2>2, EntryAdds
  <2>4. Quiet'
    BY <1>a, <1>c, <2>3 DEF Quiet
  <2>5. HeadersAreAllotted'
    BY <1>a, <2>1, <2>2, EntryIsAllotted
  <2> QED BY <1>b, <1>c, <1>d, <2>2, <2>3, <2>4, <2>5
<1>2. CASE LitDoes
  <2>1. dict' = SetCode(dict, top.at, "doesthunk") /\ here' = here
    BY <1>2 DEF LitDoes
  <2>2. "doesthunk" \in Code
    BY DEF Code
  <2>3. /\ dict' \in Seq(Header) /\ Len(dict') = Len(dict)
        /\ \A i \in 1..Len(dict) :
             /\ dict'[i].at = dict[i].at /\ dict'[i].compiling = dict[i].compiling
             /\ dict'[i].code = "doesthunk" \/ dict'[i].code = dict[i].code
    BY <1>a, <2>1, <2>2, SetCodeKeeps
  <2>4. DOMAIN dict' = 1..Len(dict)
    BY <2>3, Headers
  <2>5. Quiet'
    BY <1>c, <2>3 DEF Quiet
  <2>6. HeadersAreAllotted'
    BY <1>a, <2>1, <2>3, <2>4 DEF HeadersAreAllotted
  <2> QED BY <1>a, <1>b, <1>c, <1>d, <2>1, <2>3, <2>5, <2>6
<1>3. ASSUME NEW i \in 1..Len(dict), CutAt(i)
      PROVE  Inductive' /\ ~Open /\ ~Open'
  <2>1. /\ dict' \in Seq(Header) /\ Len(dict') = i - 1 /\ here' \in Nat
        /\ \A j \in 1..(i - 1) : dict'[j] = dict[j]
    BY <1>a, <1>3, CutRemoves
  <2>2. Quiet'
    BY <1>a, <1>c, <2>1 DEF Quiet
  <2>3. HeadersAreAllotted'
    BY <1>a, <1>3, CutIsAllotted
  <2> QED BY <1>b, <1>c, <1>d, <2>1, <2>2, <2>3
<1>4. CASE Forget
  BY <1>a, <1>3, <1>4 DEF Forget
<1>5. CASE RunMarker
  <2>1. dict # <<>> => Len(dict) \in 1..Len(dict)
    BY <1>a, Headers
  <2>2. dict # <<>> => ~top.compiling
    BY <1>c, <2>1 DEF Quiet, top
  <2>3. Visible = dict
    BY <2>2 DEF Visible
  <2> QED BY <1>a, <1>3, <1>5, <2>3 DEF RunMarker
<1> QED BY <1>1, <1>2, <1>4, <1>5

\* Every step, by programs that keep to both rules.
LEMMA NextIsInductive ==
  ASSUME Inductive, [Next]_vars, ~NestedColon, ~DefinesWhileOpen
  PROVE  Inductive'
<1>1. CASE Colon \/ ColonNoname \/ DoesInterpreted
  BY <1>1, BeginIsInductive
<1>2. CASE CompileCell \/ OpenControl \/ LeftBracket \/ RightBracket \/ DataWord
  BY <1>2, SpaceIsInductive
<1>7. CASE UNCHANGED vars
  BY <1>7, SpaceIsInductive
<1>3. CASE CloseControl
  <2>1. CASE depth # 0
    BY <1>3, <2>1, SpaceIsInductive
  <2>2. CASE depth = 0
    BY <1>3, <2>2, Parts, CancelIsInductive DEF CloseControl
  <2> QED BY <2>1, <2>2
<1>4. CASE Finish
  BY <1>4, FinishIsInductive
<1>5. CASE Abandon
  BY <1>5, CancelIsInductive, BoundsAssumption DEF Abandon
<1>6. CASE Define \/ LitDoes \/ Forget \/ RunMarker
  BY <1>6, ChainIsInductive
<1> QED BY <1>1, <1>2, <1>3, <1>4, <1>5, <1>6, <1>7 DEF Next

\* A task starts with the builtins only.
LEMMA InitIsInductive == Init => Inductive
<1> SUFFICES ASSUME Init PROVE Inductive
  OBVIOUS
<1>1. /\ here = 0 /\ dict = <<>> /\ depth = 0 /\ state = NotCompiling
      /\ sus_state = NotCompiling /\ s0 = 0 /\ here0 = 0 /\ xt = 0
  BY DEF Init
<1>2. CompilerTypeOK
  BY <1>1, BoundsAssumption DEF CompilerTypeOK
<1>3. ~Open
  BY <1>1 DEF Open, Named, NotCompiling
<1>4. HeadersAreAllotted /\ OnlyTheOpenWordIsHidden
  BY <1>1, <1>3 DEF HeadersAreAllotted, OnlyTheOpenWordIsHidden
<1>5. OpenIsOnTop /\ OneIsOpen
  BY <1>1, <1>3 DEF OpenIsOnTop, OneIsOpen, Named, NotCompiling
<1> QED BY <1>2, <1>4, <1>5 DEF Inductive, CompilerInv

\* The invariant holds from the start on.
LEMMA SpecIsInductive == ASSUME ~NestedColon, ~DefinesWhileOpen PROVE Spec => []Inductive
<1>1. Inductive /\ [Next]_vars => Inductive'
  BY NextIsInductive
<1> QED BY InitIsInductive, <1>1, PTL DEF Spec

(* Whatever a program suspends, resumes, cancels, forgets or abandons, the *)
(* chain of headers stays in allotted memory, only the word of the open    *)
(* colon definition is half made, and the open definition lies above every *)
(* other word.                                                             *)
THEOREM ChainIsSound ==
  ASSUME ~NestedColon, ~DefinesWhileOpen PROVE Spec => []CompilerInv
<1>1. Inductive => CompilerInv
  BY DEF Inductive
<1> QED BY <1>1, SpecIsInductive, PTL

\* What lookups see of a sound chain can be executed.
LEMMA VisibleRuns == ASSUME Inductive PROVE FoundWordsRun
<1>a. /\ dict \in Seq(Header) /\ OnlyTheOpenWordIsHidden
      /\ Len(dict) \in Nat /\ DOMAIN dict = 1..Len(dict)
      /\ (dict # <<>> <=> Len(dict) > 0)
  BY Parts, Headers
<1>1. CASE dict # <<>> /\ top.compiling
  <2>1. Visible = SubSeq(dict, 1, Len(dict) - 1)
    BY <1>1 DEF Visible
  <2>2. /\ Visible \in Seq(Header) /\ Len(Visible) = Len(dict) - 1
        /\ \A i \in 1..(Len(dict) - 1) : Visible[i] = dict[i]
    BY <1>a, <1>1, <2>1, SubSeqProperties
  <2>3. DOMAIN Visible = 1..(Len(dict) - 1)
    BY <2>2, Headers
  <2>4. \A i \in 1..(Len(dict) - 1) : ~dict[i].compiling /\ dict[i].code # "null"
    BY OnlyTheTop
  <2> QED BY <2>2, <2>3, <2>4 DEF FoundWordsRun
<1>2. CASE ~(dict # <<>> /\ top.compiling)
  <2>1. Visible = dict
    BY <1>2 DEF Visible
  <2>2. \A i \in 1..Len(dict) : ~dict[i].compiling /\ dict[i].code # "null"
    BY <1>a, <1>2 DEF OnlyTheOpenWordIsHidden, top
  <2> QED BY <1>a, <2>1, <2>2 DEF FoundWordsRun
<1> QED BY <1>1, <1>2

(* A word that is being compiled is not found, and every word that is      *)
(* found has its semantics.                                                *)
THEOREM HiddenWordsAreNotFound ==
  ASSUME ~NestedColon, ~DefinesWhileOpen PROVE Spec => []FoundWordsRun
<1>1. Inductive => FoundWordsRun
  BY VisibleRuns
<1> QED BY <1>1, SpecIsInductive, PTL

-----------------------------------------------------------------------------
\* The actions of Definitions, in terms of Words and Begun.
LEMMA AbstractBegin ==
  ASSUME ~Begun.is, Begun' = [at |-> here, is |-> TRUE],
         here' \in Nat, here' >= here, Words' = Words
  PROVE  Transactions!Begin
BY DEF Transactions!Begin, Transactions!Opened, Words, Begun

\* Space is taken.
LEMMA AbstractTakeSpace ==
  ASSUME here' \in Nat, here' > here, Words' = Words, Begun' = Begun
  PROVE  Transactions!TakeSpace
BY DEF Transactions!TakeSpace, Words, Begun

\* A definition takes effect.
LEMMA AbstractCommit ==
  ASSUME Begun.is, Begun' = [at |-> 0, is |-> FALSE], here' \in Nat, here' >= here,
         NEW s \in Code \ {"null"},
         \/ Words' = Append(Words, [at |-> Begun.at, code |-> s])
         \/ Words # <<>> /\ Words' = [Words EXCEPT ![Len(Words)].code = s]
         \/ Words' = Words
  PROVE  Transactions!Commit
BY DEF Transactions!Commit, Transactions!Closed, Transactions!Added, Transactions!Redone,
       Words, Begun

\* A definition leaves no trace.
LEMMA AbstractRollBack ==
  ASSUME Begun.is, Begun' = [at |-> 0, is |-> FALSE], here' = Begun.at, Words' = Words
  PROVE  Transactions!RollBack
BY DEF Transactions!RollBack, Transactions!Closed, Words, Begun

\* A word is added.
LEMMA AbstractDefine ==
  ASSUME ~Begun.is, Begun' = Begun, here' \in Nat, here' > here,
         NEW s \in Code \ {"null"}, Words' = Append(Words, [at |-> here, code |-> s])
  PROVE  Transactions!Define
BY DEF Transactions!Define, Words, Begun

\* The last word gets new semantics.
LEMMA AbstractChange ==
  ASSUME ~Begun.is, Begun' = Begun, here' = here,
         NEW s \in Code \ {"null"},
         Words # <<>> /\ Words' = [Words EXCEPT ![Len(Words)].code = s]
  PROVE  Transactions!Change
BY DEF Transactions!Change, Transactions!Redone, Words, Begun

\* Words are forgotten.
LEMMA AbstractForget ==
  ASSUME ~Begun.is, Begun' = Begun, NEW i \in 1..Len(Words),
         Words' = SubSeq(Words, 1, i - 1), here' = Words[i].at
  PROVE  Transactions!Forget
BY DEF Transactions!Forget, Words, Begun

\* Nothing changes.
LEMMA AbstractStutter ==
  ASSUME Words' = Words, Begun' = Begun, here' = here
  PROVE  UNCHANGED Transactions!vars
BY DEF Transactions!vars, Words, Begun

-----------------------------------------------------------------------------
\* How many headers, from the oldest on, show as words.
Seen == IF Open /\ OpenMode = "COLON" THEN Len(dict) - 1 ELSE Len(dict)

\* The words are the headers that show.
WordsAreSeen ==
  /\ Seen \in Nat /\ Seen <= Len(dict)
  /\ Words = [i \in 1..Seen |-> [at |-> dict[i].at, code |-> dict[i].code]]

\* The abstract words, header by header.
LEMMA WordsAreHeaders == Inductive => WordsAreSeen
<1> SUFFICES ASSUME Inductive PROVE WordsAreSeen
  OBVIOUS
<1>a. /\ dict \in Seq(Header) /\ OnlyTheOpenWordIsHidden
      /\ Len(dict) \in Nat /\ DOMAIN dict = 1..Len(dict)
      /\ (dict # <<>> <=> Len(dict) > 0)
      /\ \A i \in 1..Len(dict) : dict[i] \in Header
  BY Parts, Headers
<1>1. CASE Open /\ OpenMode = "COLON"
  <2>1. dict # <<>> /\ top.compiling
    BY <1>a, <1>1 DEF OnlyTheOpenWordIsHidden
  <2>2. Visible = SubSeq(dict, 1, Len(dict) - 1)
    BY <2>1 DEF Visible
  <2>3. /\ Visible \in Seq(Header) /\ Len(Visible) = Len(dict) - 1
        /\ \A i \in 1..(Len(dict) - 1) : Visible[i] = dict[i]
    BY <1>a, <2>1, <2>2, SubSeqProperties
  <2>4. DOMAIN Visible = 1..(Len(dict) - 1)
    BY <2>3, Headers
  <2> QED BY <1>1, <1>a, <2>1, <2>3, <2>4 DEF WordsAreSeen, Seen, Words
<1>2. CASE ~(Open /\ OpenMode = "COLON")
  <2>1. dict # <<>> => Len(dict) \in 1..Len(dict)
    BY <1>a
  <2>2. dict # <<>> => ~top.compiling
    BY <1>a, <1>2, <2>1 DEF OnlyTheOpenWordIsHidden, top
  <2>3. Visible = dict
    BY <2>2 DEF Visible
  <2>4. Seen = Len(dict)
    BY <1>2 DEF Seen
  <2>5. Words = [i \in 1..Len(dict) |-> [at |-> dict[i].at, code |-> dict[i].code]]
    BY <1>a, <2>3 DEF Words
  <2> QED BY <1>a, <2>4, <2>5 DEF WordsAreSeen
<1> QED BY <1>1, <1>2

\* ... before and after every step.
LEMMA WordsAreHeadersAfter == Inductive' => WordsAreSeen'
BY WordsAreHeaders, PTL

\* All but the last of a sequence.
LEMMA BelowTop == ASSUME NEW n \in Nat PROVE \A i \in 1..n : i # n => i \in 1..(n - 1)
OBVIOUS

\* Two functions that agree on a prefix: one is the other with a member
\* more.
LEMMA Grown ==
  ASSUME NEW S, NEW n \in Nat, n > 0, NEW f \in [1..(n - 1) -> S], NEW g \in [1..n -> S],
         \A i \in 1..(n - 1) : g[i] = f[i]
  PROVE  g = Append(f, g[n])
<1>1. f \in Seq(S) /\ Len(f) = n - 1 /\ g \in Seq(S) /\ Len(g) = n /\ g[n] \in S
  OBVIOUS
<1>2. /\ Append(f, g[n]) \in Seq(S) /\ Len(Append(f, g[n])) = n
      /\ \A i \in 1..(n - 1) : Append(f, g[n])[i] = f[i]
      /\ Append(f, g[n])[n] = g[n]
  BY <1>1, AppendProperties
<1>3. \A i \in 1..n : g[i] = Append(f, g[n])[i]
  BY <1>2
<1> QED BY <1>1, <1>2, <1>3, SeqEqual

\* ... is cut.
LEMMA Cut ==
  ASSUME NEW S, NEW n \in Nat, NEW f \in [1..n -> S], NEW i \in 1..n,
         NEW g \in [1..(i - 1) -> S], \A j \in 1..(i - 1) : g[j] = f[j]
  PROVE  g = SubSeq(f, 1, i - 1)
<1>1. g \in Seq(S) /\ Len(g) = i - 1
  OBVIOUS
<1>2. i - 1 \in Int /\ \A j \in 1..(i - 1) : f[j] \in S
  OBVIOUS
<1>3. /\ SubSeq(f, 1, i - 1) \in Seq(S) /\ Len(SubSeq(f, 1, i - 1)) = i - 1
      /\ \A j \in 1..(i - 1) : SubSeq(f, 1, i - 1)[j] = f[j]
  BY <1>2, SubSeqProperties
<1> QED BY <1>1, <1>3, SeqEqual

\* ... is changed.
LEMMA Changed ==
  ASSUME NEW n \in Nat, n > 0,
         NEW f \in [1..n -> [at : Nat, code : Code]], NEW g \in [1..n -> [at : Nat, code : Code]],
         \A i \in 1..n : g[i].at = f[i].at /\ (i # n => g[i].code = f[i].code)
  PROVE  g = [f EXCEPT ![n].code = g[n].code]
<1>1. \A i \in 1..n : g[i] = [at |-> g[i].at, code |-> g[i].code]
  OBVIOUS
<1>2. \A i \in 1..n : f[i] = [at |-> f[i].at, code |-> f[i].code]
  OBVIOUS
<1>3. \A i \in 1..n : g[i] = [f EXCEPT ![n].code = g[n].code][i]
  BY <1>1, <1>2
<1> QED BY <1>3

\* The words of a chain with nothing open are all of its headers.
LEMMA ClosedWords ==
  Inductive /\ ~Open =>
    /\ Words = [i \in 1..Len(dict) |-> [at |-> dict[i].at, code |-> dict[i].code]]
    /\ Begun = [at |-> 0, is |-> FALSE]
BY WordsAreHeaders DEF WordsAreSeen, Seen, Begun

\* ... and after a step that leaves nothing open.
LEMMA ClosedWordsAfter ==
  Inductive' /\ ~Open' =>
    /\ Words' = [i \in 1..Len(dict') |-> [at |-> dict'[i].at, code |-> dict'[i].code]]
    /\ Begun' = [at |-> 0, is |-> FALSE]
BY WordsAreHeadersAfter DEF WordsAreSeen, Seen, Begun

\* Where the open definition began.
LEMMA OpenBegun ==
  ASSUME Inductive, Open
  PROVE  /\ Begun.is
         /\ Begun.at = IF Resumed = "DOES" THEN here0 ELSE xt
         /\ Resumed \in Named
BY OpenStates DEF Begun, Mode, Named

\* A definition begins, and no word changes.
LEMMA BeginMaps ==
  ASSUME Inductive, ~NestedColon, ~DefinesWhileOpen, Colon \/ ColonNoname \/ DoesInterpreted
  PROVE  Transactions!Begin
<1>a. /\ Inductive' /\ ~Open /\ here' \in Nat /\ here' >= here
      /\ Begun' = [at |-> here, is |-> TRUE]
  BY BeginIsInductive
<1>b. ~Begun.is
  BY <1>a DEF Begun
<1>1. CASE ColonNoname \/ DoesInterpreted
  <2>1. dict' = dict
    BY <1>1 DEF ColonNoname, DoesInterpreted
  <2>2. Words' = Words
    BY <2>1 DEF Words, Visible, top
  <2> QED BY <1>a, <1>b, <2>2, AbstractBegin
<1>2. CASE Colon
  <2>1. dict \in Seq(Header) /\ Len(dict) \in Nat /\ here \in Nat
    BY Parts, Headers
  <2>2. Entry(TRUE, "null") /\ state' = "COLON"
    BY <1>2, <1>a DEF Colon, MayOpen, Start
  <2>3. Len(dict') = Len(dict) + 1 /\ \A i \in 1..Len(dict) : dict'[i] = dict[i]
    BY <2>1, <2>2, EntryAdds DEF Code
  <2>4. Open' /\ OpenMode' = "COLON"
    BY <2>2 DEF Open, OpenMode, Named
  <2>5. Seen' = Len(dict)
    BY <2>1, <2>3, <2>4 DEF Seen
  <2>6. Words' = [i \in 1..Len(dict) |-> [at |-> dict'[i].at, code |-> dict'[i].code]]
    BY <1>a, <2>5, WordsAreHeadersAfter DEF WordsAreSeen
  <2>7. Words' = Words
    BY <1>a, <2>3, <2>6, ClosedWords
  <2> QED BY <1>a, <1>b, <2>7, AbstractBegin
<1> QED BY <1>1, <1>2

\* A cancelled definition is rolled back; cancelling none changes nothing.
LEMMA CancelMaps ==
  ASSUME Inductive, Cancel, depth' \in 0..MaxDepth
  PROVE  Transactions!RollBack \/ UNCHANGED Transactions!vars
<1>a. Inductive' /\ ~Open' /\ Begun' = [at |-> 0, is |-> FALSE]
  BY CancelIsInductive, ClosedWordsAfter
<1>1. CASE ~Open
  <2>1. dict' = dict /\ here' = here
    BY <1>1, OpenStates DEF Cancel
  <2>2. Words' = Words /\ Begun' = Begun
    BY <1>1, <1>a, <2>1, ClosedWords DEF Words, Visible, top
  <2> QED BY <2>1, <2>2, AbstractStutter
<1>2. CASE Open /\ Resumed # "COLON"
  <2>1. Resumed \in {"NONAME", "DOES"} /\ Begun.is
        /\ Begun.at = IF Resumed = "DOES" THEN here0 ELSE xt
    BY <1>2, OpenBegun DEF Named
  <2>2. dict' = dict /\ here' = Begun.at
    BY <2>1 DEF Cancel
  <2>3. Words' = Words
    BY <2>2 DEF Words, Visible, top
  <2> QED BY <1>a, <2>1, <2>2, <2>3, AbstractRollBack
<1>3. CASE Open /\ Resumed = "COLON"
  <2>1. /\ dict \in Seq(Header) /\ OnlyTheOpenWordIsHidden
        /\ Len(dict) \in Nat /\ DOMAIN dict = 1..Len(dict)
        /\ Begun.is /\ Begun.at = xt /\ OpenMode = "COLON"
    BY <1>3, Parts, Headers, OpenBegun, OpenStates
  <2>2. dict # <<>> /\ top.compiling
    BY <1>3, <2>1 DEF OnlyTheOpenWordIsHidden
  <2>3. Len(dict) \in 1..Len(dict)
    BY <2>1, <2>2, Headers
  <2>4. top.at = xt
    BY <2>1, <2>2, <2>3 DEF OnlyTheOpenWordIsHidden, top
  <2>5. CutAt(Len(dict))
    BY <1>3, <2>2 DEF Cancel
  <2>6. /\ Len(dict') = Len(dict) - 1 /\ \A j \in 1..(Len(dict) - 1) : dict'[j] = dict[j]
        /\ here' = Begun.at
    BY <2>1, <2>3, <2>4, <2>5, CutRemoves DEF top
  <2>7. Words = [i \in 1..(Len(dict) - 1) |-> [at |-> dict[i].at, code |-> dict[i].code]]
    BY <1>3, <2>1, WordsAreHeaders DEF WordsAreSeen, Seen
  <2>8. Words' = [i \in 1..(Len(dict) - 1) |-> [at |-> dict'[i].at, code |-> dict'[i].code]]
    BY <1>a, <2>6, ClosedWordsAfter
  <2>9. Words' = Words
    BY <2>6, <2>7, <2>8
  <2> QED BY <1>a, <2>1, <2>6, <2>9, AbstractRollBack
<1> QED BY <1>1, <1>2, <1>3

\* `;' commits the definition, or rolls it back.
LEMMA FinishMaps ==
  ASSUME Inductive, Finish
  PROVE  \/ Transactions!Commit \/ Transactions!RollBack
         \/ UNCHANGED Transactions!vars
<1>a. Inductive' /\ ~Open' /\ Begun' = [at |-> 0, is |-> FALSE]
  BY FinishIsInductive, ClosedWordsAfter
<1>b. /\ here \in Nat /\ dict \in Seq(Header) /\ depth \in 0..MaxDepth
      /\ HeadersAreAllotted /\ OnlyTheOpenWordIsHidden /\ OpenIsOnTop /\ OneIsOpen
      /\ Len(dict) \in Nat /\ DOMAIN dict = 1..Len(dict)
      /\ \A i \in 1..Len(dict) : dict[i].at \in Nat /\ dict[i].code \in Code
  BY Parts, Headers
<1>1. CASE Resumed = "ANONYMOUS"
  <2>1. dict' = dict /\ here' = here /\ ~Open
    BY <1>1, OpenStates DEF Finish
  <2>2. Words' = Words /\ Begun' = Begun
    BY <1>a, <2>1, ClosedWords DEF Words, Visible, top
  <2> QED BY <2>1, <2>2, AbstractStutter
<1>2. CASE Resumed # "ANONYMOUS" /\ s0 # depth
  BY <1>b, <1>2, CancelMaps DEF Finish
<1>3. CASE Resumed # "ANONYMOUS" /\ s0 = depth
  <2>1. /\ Open /\ OpenMode = Resumed /\ Begun.is
        /\ Begun.at = IF Resumed = "DOES" THEN here0 ELSE xt
        /\ here' \in Nat /\ here' >= here /\ dict' = Finished
    BY <1>3, <1>b, OpenStates, OpenBegun DEF Finish
  <2>2. /\ Len(dict') = Len(dict) /\ dict' \in Seq(Header)
        /\ \A i \in 1..Len(dict) :
             /\ dict'[i].at = dict[i].at /\ dict'[i].code # "null"
             /\ dict'[i].code = IF dict[i].at # xt THEN dict[i].code
                                ELSE IF Resumed = "DOES" THEN "doesthunk" ELSE "threaded"
    BY <2>1, FinishedIsQuiet
  <2>3. Words' = [i \in 1..Len(dict) |-> [at |-> dict'[i].at, code |-> dict'[i].code]]
    BY <1>a, <2>2, ClosedWordsAfter
  <2>4. \A i \in 1..Len(dict) : dict'[i].at \in Nat /\ dict'[i].code \in Code
    BY <2>2, Headers
  <2>5. Words' \in [1..Len(dict) -> [at : Nat, code : Code]]
    BY <2>3, <2>4
  <2>6. CASE Resumed = "COLON"
    <3>1. /\ Len(dict) > 0 /\ top.at = xt
      BY <1>b, <2>1, <2>6, Headers DEF OnlyTheOpenWordIsHidden, top
    <3>2. Words = [i \in 1..(Len(dict) - 1) |-> [at |-> dict[i].at, code |-> dict[i].code]]
      BY <2>1, <2>6, WordsAreHeaders DEF WordsAreSeen, Seen
    <3>3. Words \in [1..(Len(dict) - 1) -> [at : Nat, code : Code]]
      BY <1>b, <3>2
    <3>4. \A i \in 1..(Len(dict) - 1) : dict[i].at # xt
      BY <1>b, <3>1 DEF HeadersAreAllotted, top
    <3>5. \A i \in 1..(Len(dict) - 1) : Words'[i] = Words[i]
      BY <1>b, <2>2, <2>3, <3>2, <3>4
    <3>6. Words'[Len(dict)] = [at |-> Begun.at, code |-> "threaded"]
      BY <1>b, <2>1, <2>2, <2>3, <2>6, <3>1 DEF top
    <3>7. Len(dict) \in Nat /\ "threaded" \in Code \ {"null"}
      BY <1>b DEF Code
    <3>8. Words' = Append(Words, Words'[Len(dict)])
      BY <2>5, <3>1, <3>3, <3>5, <3>7, Grown
    <3> QED BY <1>a, <2>1, <3>6, <3>7, <3>8, AbstractCommit
  <2>7. Resumed # "COLON" =>
          Words = [i \in 1..Len(dict) |-> [at |-> dict[i].at, code |-> dict[i].code]]
    BY <2>1, WordsAreHeaders DEF WordsAreSeen, Seen
  <2>8. CASE Resumed = "NONAME"
    <3>1. \A i \in 1..Len(dict) : dict[i].at # xt
      BY <1>b, <2>1, <2>8, Parts DEF OpenIsOnTop
    <3>2. Words' = Words
      BY <2>2, <2>3, <2>7, <2>8, <3>1
    <3> QED BY <1>a, <2>1, <3>2, AbstractCommit DEF Code
  <2>9. CASE Resumed = "DOES"
    <3>1. /\ Len(dict) > 0 /\ top.at = xt
      BY <1>b, <2>1, <2>9, Headers DEF OneIsOpen
    <3>2. Words \in [1..Len(dict) -> [at : Nat, code : Code]]
      BY <1>b, <2>7, <2>9
    <3>3. \A i \in 1..(Len(dict) - 1) : dict[i].at # xt
      BY <1>b, <3>1 DEF HeadersAreAllotted, top
    <3>4. \A i \in 1..Len(dict) :
             Words'[i].at = Words[i].at /\ (i # Len(dict) => Words'[i].code = Words[i].code)
      <4>1. \A i \in 1..Len(dict) : /\ Words'[i].at = dict'[i].at /\ Words[i].at = dict[i].at
                                    /\ Words'[i].code = dict'[i].code
                                    /\ Words[i].code = dict[i].code
        BY <2>3, <2>7, <2>9
      <4>2. \A i \in 1..Len(dict) : i # Len(dict) => i \in 1..(Len(dict) - 1)
        BY <1>b, BelowTop
      <4> QED BY <2>2, <3>3, <4>1, <4>2
    <3>8. Len(dict) \in Nat /\ "doesthunk" \in Code \ {"null"}
      BY <1>b DEF Code
    <3>5. Words' = [Words EXCEPT ![Len(dict)].code = Words'[Len(dict)].code]
      BY <3>8, <2>5, <3>1, <3>2, <3>4, Changed
    <3>6. Words'[Len(dict)].code = "doesthunk"
      BY <1>b, <2>2, <2>3, <2>9, <3>1 DEF top
    <3>7. Len(Words) = Len(dict) /\ Words # <<>>
      BY <1>b, <3>1, <3>2
    <3> QED BY <1>a, <2>1, <3>5, <3>6, <3>7, <3>8, AbstractCommit
  <2> QED BY <2>1, <2>6, <2>8, <2>9, OpenBegun DEF Named
<1> QED BY <1>1, <1>2, <1>3

\* Defining, changing and forgetting words, with nothing open.
LEMMA ChainMaps ==
  ASSUME Inductive, ~DefinesWhileOpen, Define \/ LitDoes \/ Forget \/ RunMarker
  PROVE  Transactions!Define \/ Transactions!Change \/ Transactions!Forget
<1>a. /\ Inductive' /\ ~Open /\ ~Open' /\ Begun = [at |-> 0, is |-> FALSE] /\ Begun' = Begun
      /\ Words = [i \in 1..Len(dict) |-> [at |-> dict[i].at, code |-> dict[i].code]]
      /\ Words' = [i \in 1..Len(dict') |-> [at |-> dict'[i].at, code |-> dict'[i].code]]
  BY ChainIsInductive, ClosedWords, ClosedWordsAfter
<1>b. /\ here \in Nat /\ dict \in Seq(Header)
      /\ HeadersAreAllotted /\ Quiet
      /\ Len(dict) \in Nat /\ DOMAIN dict = 1..Len(dict)
      /\ \A i \in 1..Len(dict) : dict[i].at \in Nat /\ dict[i].code \in Code
  BY <1>a, Parts, Headers, ClosedIsQuiet
<1>c. Words \in [1..Len(dict) -> [at : Nat, code : Code]] /\ Len(Words) = Len(dict)
  <2>1. Words \in [1..Len(dict) -> [at : Nat, code : Code]]
    BY <1>a, <1>b
  <2> QED BY <1>b, <2>1
<1>1. CASE Define
  <2>1. PICK code \in {"variable", "marker"}, body \in 0..1 :
          Entry(FALSE, code) /\ here' = here + 1 + body
    BY <1>1 DEF Define
  <2>2. code \in Code /\ code # "null" /\ here' \in Nat /\ here' > here
    BY <1>b, <2>1 DEF Code
  <2>3. /\ dict' \in Seq(Header) /\ Len(dict') = Len(dict) + 1
        /\ \A i \in 1..Len(dict) : dict'[i] = dict[i]
        /\ dict'[Len(dict) + 1] = [at |-> here, compiling |-> FALSE, code |-> code]
    BY <1>b, <2>1, <2>2, EntryAdds
  <2> DEFINE n == Len(dict) + 1
  <2>4. /\ n \in Nat /\ n > 0 /\ Len(dict) = n - 1 /\ Len(dict') = n
        /\ dict'[n] = [at |-> here, compiling |-> FALSE, code |-> code]
    BY <1>b, <2>3
  <2> HIDE DEF n
  <2>5. \A i \in 1..n : dict'[i].at \in Nat /\ dict'[i].code \in Code
    BY <2>3, <2>4, Headers
  <2>6. Words' \in [1..n -> [at : Nat, code : Code]]
    BY <1>a, <2>4, <2>5
  <2>7. Words \in [1..(n - 1) -> [at : Nat, code : Code]]
    BY <1>c, <2>4
  <2>8. ASSUME NEW i \in 1..(n - 1)
        PROVE  Words'[i] = Words[i]
    <3>1. i \in 1..Len(dict) /\ i \in 1..Len(dict')
      BY <2>4, SMT
    <3>2. dict'[i] = dict[i]
      BY <2>3, <3>1
    <3>3. Words[i] = [at |-> dict[i].at, code |-> dict[i].code]
      BY ONLY <1>a, <3>1
    <3>4. Words'[i] = [at |-> dict'[i].at, code |-> dict'[i].code]
      BY ONLY <1>a, <3>1
    <3> QED BY ONLY <3>2, <3>3, <3>4
  <2>9. Words' = Append(Words, Words'[n])
    BY <2>4, <2>6, <2>7, <2>8, Grown
  <2>10. Words'[n] = [at |-> here, code |-> code]
    BY <1>a, <2>4
  <2> QED BY <1>a, <2>2, <2>9, <2>10, AbstractDefine
<1>2. CASE LitDoes
  <2>1. dict' = SetCode(dict, top.at, "doesthunk") /\ here' = here /\ dict # <<>>
    BY <1>2 DEF LitDoes
  <2>2. Len(dict) > 0 /\ "doesthunk" \in Code \ {"null"}
    BY <1>b, <2>1, Headers DEF Code
  <2>3. /\ dict' \in Seq(Header) /\ Len(dict') = Len(dict)
        /\ \A i \in 1..Len(dict) :
             /\ dict'[i].at = dict[i].at
             /\ dict'[i].code = IF dict[i].at = top.at THEN "doesthunk" ELSE dict[i].code
    BY <1>b, <2>1, <2>2, SetCodeKeeps
  <2>4. \A i \in 1..Len(dict) : dict'[i].at \in Nat /\ dict'[i].code \in Code
    BY <2>3, Headers
  <2>5. Words' \in [1..Len(dict) -> [at : Nat, code : Code]]
    BY <1>a, <2>3, <2>4
  <2>6. \A i \in 1..(Len(dict) - 1) : dict[i].at # top.at
    BY <1>b, <2>2 DEF HeadersAreAllotted, top
  <2>7. \A i \in 1..Len(dict) :
           Words'[i].at = Words[i].at /\ (i # Len(dict) => Words'[i].code = Words[i].code)
    <3>1. \A i \in 1..Len(dict) : /\ Words'[i].at = dict'[i].at /\ Words[i].at = dict[i].at
                                  /\ Words'[i].code = dict'[i].code
                                  /\ Words[i].code = dict[i].code
      BY <1>a, <2>3
    <3>2. \A i \in 1..Len(dict) : i # Len(dict) => i \in 1..(Len(dict) - 1)
      BY <1>b, BelowTop
    <3> QED BY <2>3, <2>6, <3>1, <3>2
  <2>8. Len(dict) \in Nat
    BY <1>b
  <2>9. Words' = [Words EXCEPT ![Len(dict)].code = Words'[Len(dict)].code]
    BY <1>c, <2>2, <2>5, <2>7, <2>8, Changed
  <2>10. Words'[Len(dict)].code = "doesthunk"
    BY <1>a, <1>b, <2>2, <2>3 DEF top
  <2>11. Words # <<>>
    BY <1>b, <1>c, <2>2
  <2> QED BY <1>a, <1>c, <2>1, <2>2, <2>9, <2>10, <2>11, AbstractChange
<1>3. ASSUME NEW i \in 1..Len(dict), CutAt(i)
      PROVE  Transactions!Forget
  <2>1. /\ dict' \in Seq(Header) /\ Len(dict') = i - 1 /\ here' = dict[i].at
        /\ \A j \in 1..(i - 1) : dict'[j] = dict[j]
    BY <1>b, <1>3, CutRemoves
  <2>2. \A j \in 1..(i - 1) : dict'[j].at \in Nat /\ dict'[j].code \in Code
    BY <1>b, <2>1
  <2>3. Words' \in [1..(i - 1) -> [at : Nat, code : Code]]
    BY <1>a, <2>1, <2>2
  <2>4. \A j \in 1..(i - 1) : Words'[j] = Words[j]
    BY <1>a, <1>b, <2>1
  <2>5. Len(dict) \in Nat
    BY <1>b
  <2>6. Words' = SubSeq(Words, 1, i - 1)
    BY <1>c, <2>3, <2>4, <2>5, Cut
  <2>7. here' = Words[i].at
    BY <1>a, <2>1
  <2> QED BY <1>a, <1>c, <2>6, <2>7, AbstractForget
<1>4. CASE Forget
  BY <1>b, <1>3, <1>4 DEF Forget
<1>5. CASE RunMarker
  <2>1. dict # <<>> => Len(dict) \in 1..Len(dict)
    BY <1>b, Headers
  <2>2. dict # <<>> => ~top.compiling
    BY <1>b, <2>1 DEF Quiet, top
  <2>3. Visible = dict
    BY <2>2 DEF Visible
  <2> QED BY <1>b, <1>3, <1>5, <2>3 DEF RunMarker
<1> QED BY <1>1, <1>2, <1>4, <1>5

\* Space is taken, or nothing the abstract specification sees has changed.
LEMMA SpaceMaps ==
  ASSUME Inductive,
         \/ CompileCell \/ OpenControl \/ (CloseControl /\ depth # 0)
         \/ LeftBracket \/ RightBracket \/ DataWord \/ UNCHANGED vars
  PROVE  Transactions!TakeSpace \/ UNCHANGED Transactions!vars
<1>1. dict' = dict /\ Begun' = Begun /\ here \in Nat
  BY SpaceIsInductive, Parts
<1>2. Words' = Words
  BY <1>1 DEF Words, Visible, top
<1>3. here' \in {here, here + 1}
  BY DEF CompileCell, OpenControl, CloseControl, LeftBracket, RightBracket, DataWord, vars
<1>4. CASE here' = here
  BY <1>1, <1>2, <1>4, AbstractStutter
<1>5. CASE here' = here + 1
  <2>1. here' \in Nat /\ here' > here
    BY <1>1, <1>5
  <2> QED BY <1>1, <1>2, <2>1, AbstractTakeSpace
<1> QED BY <1>3, <1>4, <1>5

\* Every step of the compiler is a step of Definitions or a stutter.
LEMMA StepMaps ==
  ASSUME Inductive, [Next]_vars, ~NestedColon, ~DefinesWhileOpen
  PROVE  [Transactions!Next]_(Transactions!vars)
<1> USE DEF Transactions!Next
<1>1. CASE Colon \/ ColonNoname \/ DoesInterpreted
  BY <1>1, BeginMaps
<1>2. CASE CompileCell \/ OpenControl \/ LeftBracket \/ RightBracket \/ DataWord
  BY <1>2, SpaceMaps
<1>3. CASE CloseControl
  <2>1. CASE depth # 0
    BY <1>3, <2>1, SpaceMaps
  <2>2. CASE depth = 0
    BY <1>3, <2>2, Parts, CancelMaps DEF CloseControl
  <2> QED BY <2>1, <2>2
<1>4. CASE Finish
  BY <1>4, FinishMaps
<1>5. CASE Abandon
  BY <1>5, CancelMaps, BoundsAssumption DEF Abandon
<1>6. CASE Define \/ LitDoes \/ Forget \/ RunMarker
  BY <1>6, ChainMaps
<1>7. CASE UNCHANGED vars
  BY <1>7, SpaceMaps
<1> QED BY <1>1, <1>2, <1>3, <1>4, <1>5, <1>6, <1>7 DEF Next

\* No words, no definition.
LEMMA InitMaps == Init => Transactions!Init
<1> SUFFICES ASSUME Init PROVE Transactions!Init
  OBVIOUS
<1>1. here = 0 /\ dict = <<>> /\ state = NotCompiling /\ sus_state = NotCompiling
  BY DEF Init
<1>2. ~Open
  BY <1>1 DEF Open, Named, NotCompiling
<1>3. Visible = <<>>
  BY <1>1 DEF Visible
<1>4. Words = <<>> /\ Begun = [at |-> 0, is |-> FALSE]
  BY <1>2, <1>3 DEF Words, Begun
<1> QED BY <1>1, <1>4 DEF Transactions!Init, Transactions!Closed, Words, Begun

(* A definition is a transaction: it is finished with all of its effect,   *)
(* or cancelled with none, whatever was suspended in between.              *)
THEOREM DefinitionsAreImplemented ==
  ASSUME ~NestedColon, ~DefinesWhileOpen PROVE Spec => DefinitionsAreTransactions
<1>1. Inductive /\ [Next]_vars => [Transactions!Next]_(Transactions!vars)
  BY StepMaps
<1> QED BY <1>1, InitMaps, SpecIsInductive, PTL
       DEF Spec, DefinitionsAreTransactions, Transactions!Spec

-----------------------------------------------------------------------------
(* Numbers and dates (module NumericWords).  PowersOfTwo, the laws of the  *)
(* powers of two that the provers do not know, is a hypothesis: TLC        *)
(* evaluates it.                                                           *)

\* A sum of exponents.
LEMMA SumOfExponents ==
  ASSUME PowersOfTwo, NEW i \in 0..W, NEW j \in 0..W, i + j <= W
  PROVE  2^i \in Nat \ {0} /\ 2^j \in Nat \ {0} /\ 2^(i + j) = 2^i * 2^j
<1>1. W \in Nat
  BY WordAssumption, SMT
<1>2. i + 0 <= W /\ j + 0 <= W
  BY <1>1, SMT
<1> QED BY <1>2, Zenon DEF PowersOfTwo

\* The halves of a word.
LEMMA HalvesAre ==
  ASSUME PowersOfTwo
  PROVE  Half \in Nat /\ Half >= 2 /\ Half % 2 = 0 /\ Base = Half * Half
<1>1. PICK w \in Nat : w = W \div 2 /\ W = w + w /\ w >= 1
  <2>1. \A v \in {2, 4, 8, 16, 32, 64} : v \div 2 \in Nat /\ v = (v \div 2) + (v \div 2) /\ v \div 2 >= 1
    BY SMT
  <2> QED BY <2>1, WordAssumption
<1>2. PICK u \in Nat : w = 1 + u
  BY <1>1, SMT
<1>3. w \in 0..W /\ u \in 0..W /\ 1 \in 0..W /\ 1 + u <= W /\ w + w <= W
  BY <1>1, <1>2, SMT
<1>4. 2^(1 + u) = 2^1 * 2^u /\ 2^u \in Nat \ {0} /\ 2^1 = 2
  BY <1>3, SumOfExponents, Zenon DEF PowersOfTwo
<1>5. 2^(w + w) = 2^w * 2^w
  BY <1>3, SumOfExponents, Zenon
<1>6. PICK g \in Nat \ {0} : g = 2^u
  BY <1>4
<1>7. Half = 2 * g /\ Base = Half * Half
  BY <1>1, <1>2, <1>4, <1>5, <1>6, Zenon DEF Half, Base
<1>8. (2 * g) % 2 = 0 /\ 2 * g >= 2 /\ 2 * g \in Nat
  BY SMT
<1> QED BY <1>7, <1>8

\* A number that is off by the modulus at most.
LEMMA RestIs ==
  ASSUME NEW b \in Nat \ {0}, NEW r \in 0..(b - 1), NEW a \in Int, a = r \/ a = r + b \/ a = r - b
  PROVE  a % b = r
<1>1. CASE a = r
  BY <1>1, SMT
<1>2. CASE a = r + b
  BY <1>2, SMT
<1>3. CASE a = r - b
  BY <1>3, SMT
<1> QED BY <1>1, <1>2, <1>3

\* Half of the numbers of a word.
LEMMA BaseIs ==
  ASSUME PowersOfTwo
  PROVE  \E h \in Nat : h >= 2 /\ Base = h + h /\ Base \div 2 = h /\ (Base - 1) \div 2 = h - 1
<1>1. PICK g \in Nat : Half = g + g /\ g >= 1
  <2>1. Half = (Half \div 2) + (Half \div 2)
    BY HalvesAre, SMT
  <2> QED BY <2>1, HalvesAre, SMT
<1>2. PICK h \in Nat : h = g * Half
  BY <1>1, HalvesAre, SMT
<1>3. Base = h + h
  BY <1>1, <1>2, HalvesAre, SMT
<1>4. h >= 2
  BY <1>1, <1>2, HalvesAre, SMT
<1>5. (h + h) \div 2 = h /\ (h + h - 1) \div 2 = h - 1
  BY SMT
<1> QED BY <1>3, <1>4, <1>5

\* The number a cell stands for.
LEMMA CellIs ==
  ASSUME NEW h \in Nat, h >= 2, Base = h + h, (Base - 1) \div 2 = h - 1, NEW u \in Word
  PROVE  /\ Cell(u, TRUE) = (IF u >= h THEN u - (h + h) ELSE u)
         /\ IsNegative(u) <=> u >= h
BY SMT DEF Cell, IsNegative, Word

\* A sum of an index and a limit wraps once at most.
Stepped(h, b, inc, index, limit, u, x, z, distance, next) ==
  /\ b = h + h /\ inc \in 0..(b - 1) /\ index \in 0..(b - 1) /\ limit \in 0..(b - 1)
  /\ u = (index - limit) % b /\ x = (index - limit + h) % b /\ z = (x + inc) % b
  /\ distance = IF u >= h THEN u - b ELSE u
  /\ next = distance + (IF inc >= h THEN inc - b ELSE inc)

\* The step of a loop, counted from the boundary that it looks for.
LEMMA CrossesIs ==
  ASSUME NEW h \in Nat, h >= 2, NEW b \in Nat \ {0}, NEW inc, NEW index, NEW limit,
         NEW u, NEW x, NEW z, NEW distance, NEW next, next \in (-h)..(h - 1),
         Stepped(h, b, inc, index, limit, u, x, z, distance, next)
  PROVE  u \in 0..(b - 1) /\ distance \in Int /\ x = distance + h /\ z = next + h
<1>0. /\ b = h + h /\ inc \in 0..(b - 1) /\ index \in 0..(b - 1) /\ limit \in 0..(b - 1)
      /\ u = (index - limit) % b /\ x = (index - limit + h) % b /\ z = (x + inc) % b
      /\ distance = IF u >= h THEN u - b ELSE u
      /\ next = distance + (IF inc >= h THEN inc - b ELSE inc)
  BY DEF Stepped
<1>1. PICK i \in Int : i = index - limit
  BY <1>0, SMT
<1>2. u = IF i >= 0 THEN i ELSE i + b
  <2>1. CASE i >= 0
    <3>1. i \in 0..(b - 1)
      BY <1>0, <1>1, <2>1, SMT
    <3>2. i % b = i
      BY <3>1, RestIs
    <3> QED BY <1>0, <3>2, <1>1, <2>1
  <2>2. CASE i < 0
    <3>1. i + b \in 0..(b - 1) /\ i = (i + b) - b
      BY <1>0, <1>1, <2>2, SMT
    <3>2. i % b = i + b
      BY <3>1, <1>1, RestIs
    <3> QED BY <1>0, <3>2, <1>1, <2>2, SMT
  <2> QED BY <1>0, <2>1, <2>2, <1>1, SMT
<1>3. u \in 0..(b - 1)
  BY <1>0, <1>1, <1>2, SMT
<1>4. PICK s \in Int : s = distance
  BY <1>0, <1>3, SMT
<1>5. x = s + h
  <2>1. s + h \in 0..(b - 1)
    BY <1>0, <1>3, <1>4, SMT
  <2>2. i + h = s + h \/ i + h = s + h + b \/ i + h = s + h - b
    BY <1>0, <1>1, <1>2, <1>4, SMT
  <2>3. i + h \in Int
    BY <1>0, SMT
  <2>4. (i + h) % b = s + h
    BY ONLY <2>1, <2>2, <2>3, RestIs, b \in Nat \ {0}
  <2> QED BY <1>0, <2>4, <1>1
<1>6. z = next + h
  <2>1. PICK r \in 0..(b - 1) : r = next + h
    BY <1>0, SMT
  <2>2. PICK a \in Int : a = x + inc
    BY <1>0, <1>4, <1>5, SMT
  <2>3. a = r \/ a = r + b \/ a = r - b
    BY <1>0, <1>4, <1>5, <2>1, <2>2, SMT
  <2>4. a % b = r
    BY ONLY <2>3, RestIs, b \in Nat \ {0}, r \in 0..(b - 1), a \in Int
  <2> QED BY <1>0, <2>1, <2>2, <2>4
<1> QED BY <1>0, <1>3, <1>4, <1>5, <1>6

\* A loop ends with the step that crosses the boundary below its limit.
LEMMA LoopEnds ==
  ASSUME PowersOfTwo, NEW inc \in Word, NEW index \in Word, NEW limit \in Word
  PROVE  LET distance == Cell((index - limit) % Base, TRUE)
             next     == distance + Cell(inc, TRUE)
         IN  next \in MostNegative..(-MostNegative - 1) =>
               Crosses(inc, index, limit) = ((distance < 0) # (next < 0))
<1>1. PICK h \in Nat : h >= 2 /\ Base = h + h /\ Base \div 2 = h /\ (Base - 1) \div 2 = h - 1
  BY BaseIs
<1>2. PICK b \in Nat \ {0} : b = Base /\ b = h + h
  BY <1>1, SMT
<1>3. inc \in 0..(b - 1) /\ index \in 0..(b - 1) /\ limit \in 0..(b - 1)
  BY <1>2 DEF Word
<1>4. PICK u : u = (index - limit) % b
  OBVIOUS
<1>5. PICK x : x = (index - limit + h) % b
  OBVIOUS
<1>6. PICK z : z = (x + inc) % b
  OBVIOUS
<1>7. PICK distance : distance = IF u >= h THEN u - b ELSE u
  OBVIOUS
<1>8. PICK next : next = distance + (IF inc >= h THEN inc - b ELSE inc)
  OBVIOUS
<1>9. ASSUME next \in (-h)..(h - 1)
      PROVE  u \in 0..(b - 1) /\ distance \in Int /\ x = distance + h /\ z = next + h
  <2>1. Stepped(h, b, inc, index, limit, u, x, z, distance, next)
    BY <1>2, <1>3, <1>4, <1>5, <1>6, <1>7, <1>8 DEF Stepped
  <2> QED BY ONLY <1>1, <1>9, <2>1, CrossesIs, h \in Nat, b \in Nat \ {0}
<1>10. u \in 0..(b - 1)
  <2>1. PICK i \in Int : i = index - limit
    BY <1>2, <1>3, SMT
  <2>2. i % b \in 0..(b - 1)
    BY SMT
  <2> QED BY <2>1, <2>2, <1>4
<1>11. Cell(u, TRUE) = distance
  BY <1>1, <1>2, <1>7, <1>10, CellIs DEF Word
<1>12. Cell(inc, TRUE) = IF inc >= h THEN inc - b ELSE inc
  BY <1>1, <1>2, CellIs
<1>13. MostNegative..(-MostNegative - 1) = (-h)..(h - 1)
  BY <1>1, SMT DEF MostNegative
<1>14. ASSUME next \in (-h)..(h - 1)
       PROVE  Crosses(inc, index, limit) = ((distance < 0) # (next < 0))
  <2>1. distance \in Int /\ x = distance + h /\ z = next + h
    BY <1>9, <1>14
  <2>2. u \in 0..(b - 1) /\ distance >= -h /\ distance < h
    BY <1>7, <1>10, <1>1, <1>2, SMT
  <2>3. x \in Word /\ z \in Word
    <3>1. Word = 0..(b - 1)
      BY <1>2 DEF Word
    <3>2. x \in 0..(b - 1) /\ z \in 0..(b - 1)
      BY <2>1, <2>2, <1>14, <1>2, SMT
    <3> QED BY <3>1, <3>2
  <2>4. IsNegative(x) <=> distance >= 0
    <3>1. IsNegative(x) <=> x >= h
      BY <2>3, <1>1, CellIs
    <3> QED BY <3>1, <2>1, SMT
  <2>5. IsNegative(z) <=> next >= 0
    <3>1. IsNegative(z) <=> z >= h
      BY <2>3, <1>1, CellIs
    <3> QED BY <3>1, <2>1, <1>14, SMT
  <2>6. Crosses(inc, index, limit) = (IsNegative(x) # IsNegative(z))
    BY <1>1, <1>2, <1>5, <1>6 DEF Crosses
  <2>7. distance < 0 <=> ~(distance >= 0)
    BY <2>1, SMT
  <2>8. next < 0 <=> ~(next >= 0)
    BY <1>14, SMT
  <2>9. IsNegative(x) \in BOOLEAN /\ IsNegative(z) \in BOOLEAN /\ (distance < 0) \in BOOLEAN /\ (next < 0) \in BOOLEAN
        /\ (distance >= 0) \in BOOLEAN /\ (next >= 0) \in BOOLEAN
    BY <2>1, <2>3, <1>14, SMT DEF IsNegative
  <2>10. (IsNegative(x) # IsNegative(z)) = ((distance < 0) # (next < 0))
    BY ONLY <2>4, <2>5, <2>7, <2>8, <2>9, Zenon
  <2> QED BY <2>6, <2>10
<1> QED BY <1>2, <1>4, <1>8, <1>11, <1>12, <1>13, <1>14

\* +LOOP stores whether the boundary is crossed, and no other word is +LOOP.
LEMMA LoopsNext ==
  ASSUME PowersOfTwo, LoopsEndAtTheLimit, [NumericNext]_numericVars
  PROVE  LoopsEndAtTheLimit'
<1>1. CASE LOOP_INC
  <2>1. PICK inc, index, limit \in Operands :
          /\ word' = "+LOOP" /\ args' = <<inc, index, limit>>
          /\ out' = [done |-> Crosses(inc, index, limit), index |-> (index + inc) % Base]
    BY <1>1 DEF LOOP_INC, Execute
  <2>2. inc \in Word /\ index \in Word /\ limit \in Word
    BY OperandsAssumption
  <2>3. args'[1] = inc /\ args'[2] = index /\ args'[3] = limit /\ out'.done = Crosses(inc, index, limit)
    BY <2>1
  <2> QED BY <2>2, <2>3, LoopEnds, ZenonT(40) DEF LoopsEndAtTheLimit
<1>2. CASE ~LOOP_INC /\ NumericNext
  <2>1. word' # "+LOOP"
    BY <1>2 DEF NumericNext, Call, Return, Execute, UM_STAR, M_STAR, UM_SLASH_MOD, SM_SLASH_REM, FM_SLASH_MOD,
       STAR_SLASH_MOD, SLASH_MOD, DoubleDiv, TIME_AND_DATE, Interpret, TO_NUMBER, NUMBER_SIGN_S, FormatCell
  <2> QED BY <2>1 DEF LoopsEndAtTheLimit
<1>3. CASE UNCHANGED numericVars
  BY <1>3 DEF numericVars, LoopsEndAtTheLimit
<1> QED BY <1>1, <1>2, <1>3

\* +LOOP ends a loop with the step that crosses the boundary between limit - 1 and
\* limit, and with no other, for every size of the cells (LOOP+ of CORE.def.inc).
THEOREM LoopsEndInTime == PowersOfTwo => (NumericSpec => []LoopsEndAtTheLimit)
<1> SUFFICES ASSUME PowersOfTwo PROVE NumericSpec => []LoopsEndAtTheLimit
  OBVIOUS
<1>1. NumericInit => LoopsEndAtTheLimit
  BY DEF NumericInit, LoopsEndAtTheLimit
<1>2. LoopsEndAtTheLimit /\ [NumericNext]_numericVars => LoopsEndAtTheLimit'
  BY LoopsNext
<1> QED BY <1>1, <1>2, PTL DEF NumericSpec

\* Quotient and remainder of natural numbers.
LEMMA DivIs ==
  ASSUME NEW x \in Nat, NEW h \in Nat \ {0}, NEW q, q = x \div h, NEW r, r = x % h
  PROVE  q \in Nat /\ r \in 0..(h - 1) /\ x = q * h + r
<1>1. q \in Nat /\ r \in 0..(h - 1)
  BY SMT
<1>2. x = q * h + r
  BY SMT
<1> QED BY <1>1, <1>2

\* ... as numbers to name.
LEMMA DivExists ==
  ASSUME NEW x \in Nat, NEW h \in Nat \ {0}
  PROVE  \E q \in Nat, r \in 0..(h - 1) : q = x \div h /\ r = x % h /\ x = q * h + r
<1>1. PICK q, r : q = x \div h /\ r = x % h
  OBVIOUS
<1> QED BY <1>1, DivIs

\* A quotient is below what bounds the dividend.
LEMMA QuotientBelow ==
  ASSUME NEW h \in Nat \ {0}, NEW q \in Nat, NEW r \in Nat, NEW m \in Nat, q * h + r < m * h
  PROVE  q < m
<1>1. SUFFICES ASSUME q >= m PROVE FALSE
  BY SMT
<1>2. PICK k \in Nat : q = m + k
  BY <1>1, SMT
<1>3. q * h = m * h + k * h /\ k * h >= 0
  BY <1>2, SMT
<1>4. q * h \in Int /\ m * h \in Int /\ k * h \in Int
  BY SMT
<1> QED BY <1>3, <1>4, SMT

\* Two halves multiply without a carry to spare.
LEMMA ProductOfHalves ==
  ASSUME NEW h \in Nat, h >= 2, NEW x \in 0..(h - 1), NEW y \in 0..(h - 1)
  PROVE  x * y \in Nat /\ x * y + h + h <= h * h + 1
<1>1. x * y \in Nat
  BY SMT
<1>2. PICK i \in Nat, j \in Nat : i = h - 1 - x /\ j = h - 1 - y
  BY SMT
<1>3. x * y = (h - 1) * y - i * y
  BY <1>2, SMT
<1>4. (h - 1) * y = (h - 1) * (h - 1) - (h - 1) * j
  BY <1>2, SMT
<1>5. i * y >= 0 /\ (h - 1) * j >= 0
  BY SMT
<1>6. (h - 1) * (h - 1) = h * h - h - h + 1
  BY SMT
<1> QED BY <1>1, <1>3, <1>4, <1>5, <1>6, SMT

\* The product of two words, from the four products of their halves.
Multiplied(h, b, a1, a0, b1, b0, p0, p1, p2, sum, low, high) ==
  /\ b = h * h /\ p0 = a0 * b0 /\ p1 = (a0 * b1 + p0 \div h) % b /\ p2 = a1 * b0
  /\ sum = (p1 % h) * h + (p0 % h)
  /\ low = (sum + (p2 % h) * h) % b
  /\ high = (p1 \div h + p2 \div h + a1 * b1 + (IF low < sum THEN 1 ELSE 0)) % b

\* The multiplication by halves of e4__usize_mul, with its carries.
LEMMA LongProduct ==
  ASSUME NEW h \in Nat, h >= 2, NEW b \in Nat, NEW a1 \in 0..(h - 1), NEW a0 \in 0..(h - 1),
         NEW b1 \in 0..(h - 1), NEW b0 \in 0..(h - 1), NEW p0, NEW p1, NEW p2, NEW sum, NEW low, NEW high,
         Multiplied(h, b, a1, a0, b1, b0, p0, p1, p2, sum, low, high)
  PROVE  /\ low \in 0..(b - 1) /\ high \in 0..(b - 1)
         /\ high * b + low = (a1 * h + a0) * (b1 * h + b0)
<1>0. /\ b = h * h /\ p0 = a0 * b0 /\ p1 = (a0 * b1 + p0 \div h) % b /\ p2 = a1 * b0
      /\ sum = (p1 % h) * h + (p0 % h)
      /\ low = (sum + (p2 % h) * h) % b
      /\ high = (p1 \div h + p2 \div h + a1 * b1 + (IF low < sum THEN 1 ELSE 0)) % b
  BY DEF Multiplied
<1>1. /\ a0 * b0 \in Nat /\ a0 * b0 + h + h <= h * h + 1
      /\ a0 * b1 \in Nat /\ a0 * b1 + h + h <= h * h + 1
      /\ a1 * b0 \in Nat /\ a1 * b0 + h + h <= h * h + 1
      /\ a1 * b1 \in Nat /\ a1 * b1 + h + h <= h * h + 1
  BY ProductOfHalves
<1>2. PICK A \in Nat : A = a1 * b1 /\ A + h + h <= b + 1
  BY <1>0, <1>1
<1>3. PICK C \in Nat : C = a0 * b1 /\ C + h + h <= b + 1
  BY <1>0, <1>1
<1>4. p0 \in Nat /\ p0 + h + h <= b + 1 /\ p2 \in Nat /\ p2 + h + h <= b + 1
  BY <1>0, <1>1
<1>a. h \in Nat \ {0} /\ h \in Int /\ a1 \in Int /\ a0 \in Int /\ b1 \in Int /\ b0 \in Int /\ p0 \in Nat /\ p2 \in Nat
  BY <1>4, SMT
<1>5. PICK h0 \in Nat, k0 \in 0..(h - 1) : h0 = p0 \div h /\ k0 = p0 % h /\ p0 = h0 * h + k0
  BY ONLY <1>a, DivExists, Zenon
<1>6. h0 < h
  <2>1. h0 * h + k0 < h * h
    BY <1>0, <1>4, <1>5, SMT
  <2> QED BY ONLY <2>1, QuotientBelow, h \in Nat, h >= 2, h0 \in Nat, k0 \in 0..(h - 1), SMT
<1>7. p1 = C + h0 /\ p1 \in Nat
  <2>1. C + h0 \in 0..(b - 1) /\ b \in Nat \ {0}
    BY <1>3, <1>6, SMT
  <2>2. (C + h0) % b = C + h0
    BY <2>1, SMT
  <2> QED BY <1>0, <1>3, <1>5, <2>1, <2>2, SMT
<1>8. PICK h1 \in Nat, k1 \in 0..(h - 1) : h1 = p1 \div h /\ k1 = p1 % h /\ p1 = h1 * h + k1
  BY ONLY <1>a, <1>7, DivExists, Zenon
<1>9. PICK h2 \in Nat, k2 \in 0..(h - 1) : h2 = p2 \div h /\ k2 = p2 % h /\ p2 = h2 * h + k2
  BY ONLY <1>a, DivExists, Zenon
<1>10. sum = k1 * h + k0 /\ sum \in Nat /\ sum < b
  <2>1. sum = k1 * h + k0
    <3>1. sum = (p1 % h) * h + (p0 % h)
      BY <1>0
    <3>2. k1 = p1 % h /\ k0 = p0 % h
      BY <1>5, <1>8
    <3> QED BY ONLY <3>1, <3>2
  <2>2. k1 * h \in Nat /\ k1 * h + h <= h * h
    <3>1. PICK i \in Nat : k1 = h - 1 - i
      BY SMT
    <3>2. k1 * h = h * h - h - i * h /\ i * h \in Nat
      BY <3>1, SMT
    <3> QED BY <3>2, SMT
  <2> QED BY <1>0, <2>1, <2>2, SMT
<1>11. PICK m \in Nat : m = k2 * h /\ m < b
  <2>1. k2 * h \in Nat
    BY SMT
  <2>2. PICK i \in Nat : k2 = h - 1 - i
    BY SMT
  <2>3. k2 * h = h * h - h - i * h /\ i * h \in Nat
    BY <2>2, SMT
  <2> QED BY <1>0, <2>1, <2>3, SMT
<1>12. low = (sum + m) % b
  BY <1>0, <1>9, <1>11
<1>13. PICK e \in {0, 1} : low \in 0..(b - 1) /\ sum + m = e * b + low /\ e = (IF low < sum THEN 1 ELSE 0)
  <2>1. CASE sum + m < b
    <3>1. (sum + m) % b = sum + m
      BY <2>1, <1>10, SMT
    <3> QED BY <3>1, <1>10, <1>12, <2>1, SMT
  <2>2. CASE sum + m >= b
    <3>1. PICK l \in 0..(b - 1) : sum + m = l + b
      BY <2>2, <1>10, <1>11, SMT
    <3>2. (l + b) % b = l
      BY SMT
    <3> QED BY <3>1, <3>2, <1>10, <1>11, <1>12, <2>2, SMT
  <2> QED BY <2>1, <2>2, <1>10, SMT
<1>14. PICK T \in Nat : T = h1 + h2 + A + e
  BY SMT
<1>15. T * b + low = (a1 * h + a0) * (b1 * h + b0)
  <2>1. (a1 * h + a0) * (b1 * h + b0) = A * (h * h) + C * h + p2 * h + p0
    <3>1. (a1 * h + a0) * (b1 * h + b0) = (a1 * b1) * (h * h) + (a0 * b1) * h + (a1 * b0) * h + a0 * b0
      BY ONLY SMT, <1>a
    <3> QED BY ONLY <3>1, <1>0, <1>2, <1>3, Zenon
  <2>2. C * h + p0 = p1 * h + k0
    <3>1. C \in Int /\ h0 \in Int /\ k0 \in Int
      BY SMT
    <3>2. (C + h0) * h + k0 = C * h + (h0 * h + k0)
      BY ONLY SMT, <1>a, <3>1
    <3> QED BY ONLY <3>2, <1>5, <1>7, Zenon
  <2>3. p1 * h + k0 = h1 * (h * h) + sum
    <3>1. h1 \in Int /\ k1 \in Int /\ k0 \in Int
      BY SMT
    <3>2. (h1 * h + k1) * h + k0 = h1 * (h * h) + (k1 * h + k0)
      BY ONLY SMT, <1>a, <3>1
    <3> QED BY ONLY <3>2, <1>8, <1>10, Zenon
  <2>4. p2 * h = h2 * (h * h) + m
    <3>1. h2 \in Int /\ k2 \in Int
      BY SMT
    <3>2. (h2 * h + k2) * h = h2 * (h * h) + k2 * h
      BY ONLY SMT, <1>a, <3>1
    <3> QED BY ONLY <3>2, <1>9, <1>11, Zenon
  <2>5. T * b + low = h1 * b + h2 * b + A * b + (e * b + low)
    BY <1>14, <1>13, SMT
  <2>6. A * (h * h) \in Int /\ C * h \in Int /\ p2 * h \in Int /\ p1 * h \in Int /\ h1 * (h * h) \in Int /\ h2 * (h * h) \in Int
    BY <1>4, <1>7, SMT
  <2>7. PICK g1 \in Int, g2 \in Int, g3 \in Int : g1 = A * (h * h) /\ g2 = C * h /\ g3 = h1 * (h * h) + sum
    BY <2>6, <1>10, SMT
  <2>8. PICK g4 \in Int, g5 \in Int : g4 = h1 * (h * h) /\ g5 = h2 * (h * h)
    BY <2>6, SMT
  <2>9. (a1 * h + a0) * (b1 * h + b0) = g1 + g4 + g5 + (sum + m)
    BY ONLY SMT, <2>1, <2>2, <2>3, <2>4, <2>6, <2>7, <2>8, <1>10, <1>a, m \in Nat
  <2>10. T * b + low = g4 + g5 + g1 + (sum + m)
    BY ONLY <2>5, <2>7, <2>8, <1>0, <1>13, Zenon
  <2> QED BY ONLY SMT, <2>9, <2>10, <1>10, m \in Nat, <2>7, <2>8
<1>16. T < b
  <2>1. PICK i \in Nat, j \in Nat : i = a1 * h + a0 /\ j = b1 * h + b0 /\ i < b /\ j < b
    <3>1. \A x, y \in 0..(h - 1) : x * h + y \in Nat /\ x * h + y < h * h
      <4>1. SUFFICES ASSUME NEW x \in 0..(h - 1), NEW y \in 0..(h - 1) PROVE x * h + y \in Nat /\ x * h + y < h * h
        OBVIOUS
      <4>2. PICK z \in Nat : x = h - 1 - z
        BY SMT
      <4>3. x * h = h * h - h - z * h /\ z * h \in Nat /\ x * h \in Nat
        BY <4>2, SMT
      <4> QED BY <4>3, SMT
    <3> QED BY <3>1, <1>0
  <2>2. i * j < b * b
    <3>1. PICK x \in Nat, y \in Nat : i = b - 1 - x /\ j = b - 1 - y
      BY <2>1, SMT
    <3>2. i * j = (b - 1) * j - x * j /\ (b - 1) * j = (b - 1) * (b - 1) - (b - 1) * y
      BY <3>1, SMT
    <3>3. x * j >= 0 /\ (b - 1) * y >= 0 /\ (b - 1) * (b - 1) = b * b - b - b + 1 /\ b >= 1
      BY <2>1, SMT
    <3> QED BY <3>2, <3>3, <2>1, SMT
  <2>3. T * b + low < b * b
    BY <1>15, <2>1, <2>2
  <2> QED BY <2>3, <1>13, QuotientBelow, SMT
<1>17. high = T
  <2>1. T % b = T
    BY <1>16, SMT
  <2>2. high = (h1 + h2 + A + e) % b
    BY <1>0, <1>2, <1>8, <1>9, <1>13
  <2> QED BY <2>1, <2>2, <1>14
<1> QED BY <1>13, <1>15, <1>16, <1>17, SMT

\* The size of a cell's number: its distance from 0.
LEMMA MagnitudeIs ==
  ASSUME NEW h \in Nat, h >= 2, Base = h + h, (Base - 1) \div 2 = h - 1, NEW u \in Word, NEW signed \in BOOLEAN
  PROVE  /\ Magnitude(u, signed) \in Word
         /\ signed => Magnitude(u, signed) <= h
         /\ signed => Cell(u, signed) = (IF IsNegative(u) THEN -Magnitude(u, signed) ELSE Magnitude(u, signed))
         /\ ~signed => Cell(u, signed) = Magnitude(u, signed)
         /\ signed /\ IsNegative(u) => Magnitude(u, signed) >= 1
<1>1. Word = 0..(h + h - 1) /\ u \in 0..(h + h - 1)
  BY DEF Word
<1>2. IsNegative(u) <=> u >= h
  BY <1>1, SMT DEF IsNegative
<1>3. CASE signed /\ u >= h
  <2>0. signed = TRUE /\ IsNegative(u) /\ u >= h
    BY <1>2, <1>3
  <2>1. PICK v \in 0..(h + h - 1) : v = ((h + h) - 1 - u) + 1 /\ v >= 1 /\ v <= h
    BY ONLY SMT, <1>1, <2>0, h \in Nat
  <2>2. v % (h + h) = v
    BY SMT
  <2>3. Magnitude(u, signed) = v
    <3>1. Negate(u) = v
      <4>1. Negate(u) = (((h + h) - 1 - u) + 1) % (h + h)
        BY Zenon DEF Negate
      <4> QED BY ONLY <4>1, <2>1, <2>2
    <3> QED BY <2>0, <3>1 DEF Magnitude
  <2>4. Cell(u, signed) = u - (h + h)
    BY <1>2, <1>3 DEF Cell
  <2>5. v \in Word /\ u - (h + h) = -v
    BY ONLY SMT, <1>1, <2>1, h \in Nat
  <2> QED BY <2>0, <2>1, <2>3, <2>4, <2>5
<1>4. CASE ~signed \/ u < h
  <2>1. ~(signed /\ IsNegative(u))
    BY <1>1, <1>2, <1>4, SMT
  <2>2. Magnitude(u, signed) = u /\ Cell(u, signed) = u
    BY <2>1 DEF Magnitude, Cell
  <2> QED BY <1>1, <1>2, <1>4, <2>1, <2>2, SMT
<1> QED BY <1>1, <1>3, <1>4, SMT

\* The negative of a number of two cells that is at most half of them.
LEMMA DoubleNegateIs ==
  ASSUME NEW h \in Nat, h >= 2, Base = h + h, NEW low \in Word, NEW high \in Word
  PROVE  LET d == double_negate([low |-> low, high |-> high])
         IN  /\ d.low \in Word /\ d.high \in Word
             /\ d.high * Base + d.low = IF high = 0 /\ low = 0 THEN 0 ELSE Base * Base - (high * Base + low)
<1>1. PICK b \in Nat : b = Base /\ b = h + h /\ b >= 4
  BY SMT
<1>2. Word = 0..(b - 1) /\ low \in 0..(b - 1) /\ high \in 0..(b - 1)
  BY <1>1 DEF Word
<1>3. PICK d : d = double_negate([low |-> low, high |-> high])
  OBVIOUS
<1>4. PICK l : l = (b - low) % b
  OBVIOUS
<1>5. l = IF low = 0 THEN 0 ELSE b - low
  <2>1. CASE low = 0
    <3>1. b % b = 0
      BY <1>1, SMT
    <3> QED BY <2>1, <3>1, <1>1, <1>4, SMT
  <2>2. CASE low # 0
    <3>1. PICK v \in 0..(b - 1) : v = b - low
      BY <2>2, <1>2, SMT
    <3>2. v % b = v
      BY <1>1, SMT
    <3> QED BY <3>1, <3>2, <2>2, <1>4
  <2> QED BY <2>1, <2>2
<1>6. PICK e \in {0, 1} : e = IF l = 0 THEN 1 ELSE 0
  OBVIOUS
<1>7. PICK g : g = (b - 1 - high + e) % b
  OBVIOUS
<1>8. d = [low |-> l, high |-> g]
  <2>1. (b - 1 - low) + 1 = b - low
    BY <1>1, <1>2, SMT
  <2> QED BY <1>1, <1>3, <1>4, <1>6, <1>7, <2>1 DEF double_negate, double_u, Negate
<1>9. CASE high = 0 /\ low = 0
  <2>1. l = 0 /\ e = 1
    BY <1>5, <1>6, <1>9
  <2>2. b - 1 - high + e = b
    BY <2>1, <1>1, <1>9, SMT
  <2>3. b % b = 0
    BY <1>1, SMT
  <2>4. g = 0
    BY <2>2, <2>3, <1>7
  <2>5. 0 * b + 0 = 0 /\ 0 \in 0..(b - 1)
    BY <1>1, SMT
  <2> QED BY <2>1, <2>4, <2>5, <1>1, <1>2, <1>3, <1>8, <1>9
<1>10. CASE ~(high = 0 /\ low = 0)
  <2>1. PICK v \in 0..(b - 1) : v = b - 1 - high + e
    BY <1>1, <1>2, <1>5, <1>6, <1>10, SMT
  <2>2. v % b = v
    BY <1>1, SMT
  <2>3. g = v
    BY <2>1, <2>2, <1>7
  <2>4. l \in 0..(b - 1) /\ e * b + l = b - low
    BY <1>1, <1>2, <1>5, <1>6, SMT
  <2>5. (b - 1 - high + e) * b + l = b * b - b - high * b + (e * b + l)
    BY ONLY SMT, <1>2, <2>4, b \in Nat, e \in {0, 1}
  <2>6. v * b + l = b * b - (high * b + low)
    <3>1. b * b \in Int /\ high * b \in Int
      BY <1>2, SMT
    <3>2. v * b + l = b * b - b - high * b + (b - low)
      BY <2>1, <2>4, <2>5, Zenon
    <3> QED BY ONLY SMT, <3>1, <3>2, <1>2, b \in Nat
  <2>7. d.low = l /\ d.high = v
    BY <1>8, <2>3
  <2>8. l \in Word /\ v \in Word
    BY <2>1, <2>4, <1>2
  <2>9. d.high * Base + d.low = Base * Base - (high * Base + low)
    BY <2>6, <2>7, <1>1
  <2> QED BY <2>7, <2>8, <2>9, <1>3, <1>10
<1> QED BY <1>9, <1>10

\* The product of magnitudes, as the code computes it.
Product(ml, mr) ==
  LET p0 == LH(ml) * LH(mr)
      p1 == (LH(ml) * HH(mr) + HH(p0)) % Base
      p2 == HH(ml) * LH(mr)
      sum == U(p1, p0)
      low == (sum + U(p2, 0)) % Base
  IN  double_u(low, (HH(p1) + HH(p2) + HH(ml) * HH(mr) + Carry(low, sum)) % Base)

\* e4__usize_mul multiplies magnitudes and then gives the product its sign.
LEMMA MulIs ==
  ASSUME NEW l, NEW r, NEW signed
  PROVE  usize_mul(l, r, signed) =
           LET p == Product(Magnitude(l, signed), Magnitude(r, signed))
           IN  IF signed /\ IsNegative(l) # IsNegative(r) THEN double_negate(p) ELSE p
BY DEF usize_mul, Product

\* The product of two words, in two words.
LEMMA ProductIs ==
  ASSUME PowersOfTwo, NEW x \in Word, NEW y \in Word
  PROVE  \E low, high \in Word : Product(x, y) = [low |-> low, high |-> high] /\ high * Base + low = x * y
<1>1. PICK h \in Nat : h = Half /\ h >= 2
  BY HalvesAre
<1>2. PICK b \in Nat : b = Base /\ b = h * h
  BY <1>1, HalvesAre, SMT
<1>3. Word = 0..(b - 1) /\ x \in Nat /\ y \in Nat /\ x < b /\ y < b /\ h \in Nat \ {0}
  <2>1. Word = 0..(b - 1)
    BY <1>2 DEF Word
  <2> QED BY ONLY SMT, <2>1, x \in Word, y \in Word, <1>1, h \in Nat, b \in Nat
<1>4. PICK x1 \in Nat, x0 \in 0..(h - 1) : x1 = x \div h /\ x0 = x % h /\ x = x1 * h + x0
  BY ONLY <1>3, DivExists, h \in Nat, Zenon
<1>5. PICK y1 \in Nat, y0 \in 0..(h - 1) : y1 = y \div h /\ y0 = y % h /\ y = y1 * h + y0
  BY ONLY <1>3, DivExists, h \in Nat, Zenon
<1>6. x1 \in 0..(h - 1) /\ y1 \in 0..(h - 1)
  <2>1. x1 * h + x0 < h * h /\ y1 * h + y0 < h * h
    BY <1>2, <1>3, <1>4, <1>5, Zenon
  <2>2. x0 \in Nat /\ y0 \in Nat
    BY ONLY SMT, x0 \in 0..(h - 1), y0 \in 0..(h - 1), h \in Nat
  <2>3. x1 < h /\ y1 < h
    BY ONLY <2>1, <2>2, <1>3, x1 \in Nat, y1 \in Nat, h \in Nat, QuotientBelow
  <2> QED BY <2>3, <1>1, SMT
<1>7. PICK p0 : p0 = LH(x) * LH(y)
  OBVIOUS
<1>8. PICK p1 : p1 = (LH(x) * HH(y) + HH(p0)) % Base
  OBVIOUS
<1>9. PICK p2 : p2 = HH(x) * LH(y)
  OBVIOUS
<1>10. PICK sum : sum = U(p1, p0)
  OBVIOUS
<1>11. PICK low : low = (sum + U(p2, 0)) % Base
  OBVIOUS
<1>12. PICK high : high = (HH(p1) + HH(p2) + HH(x) * HH(y) + Carry(low, sum)) % Base
  OBVIOUS
<1>13. Product(x, y) = [low |-> low, high |-> high]
  BY <1>7, <1>8, <1>9, <1>10, <1>11, <1>12 DEF Product, double_u
<1>14. HH(x) = x1 /\ LH(x) = x0 /\ HH(y) = y1 /\ LH(y) = y0
  BY <1>1, <1>4, <1>5 DEF HH, LH
<1>15. U(p2, 0) = (p2 % h) * h
  <2>1. U(p2, 0) = (p2 % h) * h + (0 % h)
    BY <1>1 DEF U, LH
  <2>2. 0 % h = 0
    BY <1>3, SMT
  <2>3. (p2 % h) * h \in Int
    <3>1. p2 = x1 * y0
      BY <1>9, <1>14
    <3>2. p2 \in Nat
      BY ONLY SMT, <3>1, x1 \in Nat, <1>5, h \in Nat
    <3>3. p2 % h \in Nat
      BY ONLY SMT, <3>2, <1>3
    <3> QED BY ONLY SMT, <3>3, h \in Nat
  <2> QED BY ONLY SMT, <2>1, <2>2, <2>3
<1>16. Multiplied(h, b, x1, x0, y1, y0, p0, p1, p2, sum, low, high)
  <2>1. b = h * h /\ p0 = x0 * y0 /\ p1 = (x0 * y1 + p0 \div h) % b /\ p2 = x1 * y0
    BY <1>1, <1>2, <1>7, <1>8, <1>9, <1>14 DEF HH
  <2>2. sum = (p1 % h) * h + (p0 % h)
    BY <1>1, <1>10 DEF U, LH
  <2>3. low = (sum + (p2 % h) * h) % b
    BY <1>2, <1>11, <1>15
  <2>4. high = (p1 \div h + p2 \div h + x1 * y1 + (IF low < sum THEN 1 ELSE 0)) % b
    BY <1>1, <1>2, <1>12, <1>14 DEF HH, Carry
  <2> QED BY ONLY <2>1, <2>2, <2>3, <2>4 DEF Multiplied
<1>17. /\ low \in 0..(b - 1) /\ high \in 0..(b - 1)
       /\ high * b + low = (x1 * h + x0) * (y1 * h + y0)
  BY ONLY <1>1, <1>6, <1>16, LongProduct, h \in Nat, b \in Nat, x0 \in 0..(h - 1), y0 \in 0..(h - 1)
<1> QED BY <1>13, <1>17, <1>2, <1>3, <1>4, <1>5, Zenon

\* What the two cells of a product stand for, by the halves h of a cell.
LEMMA SmallIsItself ==
  ASSUME NEW h \in Nat, h >= 2, NEW b \in Nat, b = h + h, NEW low \in 0..(b - 1), NEW high \in 0..(b - 1),
         NEW x \in Nat, NEW y \in Nat, x <= h, y <= h, high * b + low = x * y
  PROVE  high < h
<1>1. x * y <= h * h
  <2>1. PICK i \in Nat, j \in Nat : x = h - i /\ y = h - j
    BY SMT
  <2>2. x * y = h * y - i * y /\ h * y = h * h - h * j /\ i * y >= 0 /\ h * j >= 0
    BY <2>1, SMT
  <2> QED BY <2>2, SMT
<1>2. h * h < h * b
  <2>1. h * b = h * h + h * h /\ h * h >= h
    BY SMT
  <2> QED BY <2>1, SMT
<1>3. high * b + low < h * b
  BY <1>1, <1>2, SMT
<1> QED BY ONLY SMT, <1>3, QuotientBelow, b \in Nat, b = h + h, h >= 2, h \in Nat, low \in 0..(b - 1), high \in 0..(b - 1)

\* ... and the product of opposite signs as one that is not 0.
LEMMA LargeIsNegative ==
  ASSUME NEW h \in Nat, h >= 2, NEW b \in Nat, b = h + h, NEW low \in 0..(b - 1), NEW high \in 0..(b - 1),
         NEW x \in Nat, NEW y \in Nat, x <= h, y <= h, high * b + low = b * b - x * y
  PROVE  high >= h
<1>1. x * y <= h * h
  <2>1. PICK i \in Nat, j \in Nat : x = h - i /\ y = h - j
    BY SMT
  <2>2. x * y = h * y - i * y /\ h * y = h * h - h * j /\ i * y >= 0 /\ h * j >= 0
    BY <2>1, SMT
  <2> QED BY <2>2, SMT
<1>2. SUFFICES ASSUME high < h PROVE FALSE
  BY SMT
<1>3. PICK k \in Nat : high = h - 1 - k
  BY <1>2, SMT
<1>4. high * b = h * b - b - k * b /\ k * b >= 0
  BY <1>3, SMT
<1>5. h * b = h * h + h * h /\ b * b = h * h + h * h + h * h + h * h /\ h * h >= 1
  BY SMT
<1> QED BY <1>1, <1>4, <1>5, SMT

\* The product of the words is the product of the numbers they stand for.
LEMMA MulIsExact ==
  ASSUME PowersOfTwo, NEW l \in Word, NEW r \in Word, NEW signed \in BOOLEAN
  PROVE  LET d == usize_mul(l, r, signed)
         IN  d.low \in Word /\ d.high \in Word /\ TwoCells(d, signed) = Cell(l, signed) * Cell(r, signed)
<1>1. PICK h \in Nat : h >= 2 /\ Base = h + h /\ (Base - 1) \div 2 = h - 1
  BY BaseIs
<1>2. PICK b \in Nat : b = Base /\ b = h + h
  BY <1>1, SMT
<1>3. Word = 0..(b - 1)
  BY <1>2 DEF Word
<1>4. PICK x : x = Magnitude(l, signed)
  OBVIOUS
<1>5. PICK y : y = Magnitude(r, signed)
  OBVIOUS
<1>6. /\ x \in Word /\ (signed => x <= h)
      /\ signed => Cell(l, signed) = (IF IsNegative(l) THEN -x ELSE x)
      /\ ~signed => Cell(l, signed) = x
  BY <1>1, <1>4, MagnitudeIs
<1>7. /\ y \in Word /\ (signed => y <= h)
      /\ signed => Cell(r, signed) = (IF IsNegative(r) THEN -y ELSE y)
      /\ ~signed => Cell(r, signed) = y
  BY <1>1, <1>5, MagnitudeIs
<1>8. PICK low \in Word, high \in Word : Product(x, y) = [low |-> low, high |-> high] /\ high * Base + low = x * y
  BY <1>6, <1>7, ProductIs
<1>9. x \in Nat /\ y \in Nat
  BY <1>1, <1>3, <1>6, <1>7, SMT
<1>10. low \in 0..(b - 1) /\ high \in 0..(b - 1) /\ high * b + low = x * y
  BY <1>2, <1>3, <1>8
<1>11. CASE ~signed
  <2>1. usize_mul(l, r, signed) = [low |-> low, high |-> high]
    BY <1>4, <1>5, <1>8, <1>11, MulIs
  <2>2. Cell(high, signed) = high
    BY <1>11 DEF Cell
  <2>3. Cell(l, signed) * Cell(r, signed) = x * y
    BY <1>6, <1>7, <1>11
  <2> QED BY <2>1, <2>2, <2>3, <1>8 DEF TwoCells
<1>12. CASE signed /\ ~(IsNegative(l) # IsNegative(r))
  <2>1. usize_mul(l, r, signed) = [low |-> low, high |-> high]
    BY <1>4, <1>5, <1>8, <1>12, MulIs
  <2>2. high < h
    BY ONLY <1>1, <1>2, <1>6, <1>7, <1>9, <1>10, <1>12, SmallIsItself, h \in Nat, b \in Nat
  <2>3. Cell(high, signed) = high
    <3>1. Cell(high, TRUE) = IF high >= h THEN high - (h + h) ELSE high
      BY ONLY <1>1, <1>8, CellIs, h \in Nat, high \in Word
    <3>2. ~(high >= h)
      BY ONLY SMT, <2>2, <1>10, h \in Nat, b \in Nat
    <3> QED BY <3>1, <3>2, <1>12
  <2>4. Cell(l, signed) * Cell(r, signed) = x * y
    <3>1. (-x) * (-y) = x * y
      BY ONLY SMT, <1>9
    <3>2. CASE IsNegative(l)
      <4>1. Cell(l, signed) = -x /\ Cell(r, signed) = -y
        BY <1>6, <1>7, <1>12, <3>2
      <4> QED BY <3>1, <4>1
    <3>3. CASE ~IsNegative(l)
      <4>1. Cell(l, signed) = x /\ Cell(r, signed) = y
        BY <1>6, <1>7, <1>12, <3>3
      <4> QED BY <4>1
    <3> QED BY <3>2, <3>3
  <2> QED BY <2>1, <2>3, <2>4, <1>8 DEF TwoCells
<1>13. CASE signed /\ IsNegative(l) # IsNegative(r)
  <2>1. PICK d : d = double_negate([low |-> low, high |-> high])
    OBVIOUS
  <2>2. usize_mul(l, r, signed) = d
    BY <2>1, <1>4, <1>5, <1>8, <1>13, MulIs
  <2>3. d.low \in Word /\ d.high \in Word
        /\ d.high * Base + d.low = IF high = 0 /\ low = 0 THEN 0 ELSE Base * Base - (high * Base + low)
    BY <1>1, <1>8, <2>1, DoubleNegateIs
  <2>4. PICK dl \in 0..(b - 1), dh \in 0..(b - 1) : dl = d.low /\ dh = d.high
    BY <2>3, <1>3
  <2>5. Cell(dh, TRUE) = IF dh >= h THEN dh - (h + h) ELSE dh
    <3>1. dh \in Word
      BY <1>3
    <3> QED BY ONLY <3>1, <1>1, CellIs, h \in Nat
  <2>6. Cell(l, signed) * Cell(r, signed) = -(x * y)
    <3>1. (-x) * y = -(x * y) /\ x * (-y) = -(x * y)
      BY ONLY SMT, <1>9
    <3>2. CASE IsNegative(l)
      <4>1. Cell(l, signed) = -x /\ Cell(r, signed) = y
        BY <1>6, <1>7, <1>13, <3>2
      <4> QED BY <3>1, <4>1
    <3>3. CASE ~IsNegative(l)
      <4>1. Cell(l, signed) = x /\ Cell(r, signed) = -y
        <5>1. IsNegative(l) \in BOOLEAN /\ IsNegative(r) \in BOOLEAN
          BY <1>3, SMT DEF IsNegative
        <5>2. IsNegative(r)
          BY ONLY <5>1, <1>13, <3>3, Zenon
        <5> QED BY <1>6, <1>7, <1>13, <3>3, <5>2
      <4> QED BY <3>1, <4>1
    <3> QED BY <3>2, <3>3
  <2>7. Cell(dh, TRUE) * b + dl = -(x * y)
    <3>1. CASE high = 0 /\ low = 0
      <4>1. dh * b + dl = 0 /\ x * y = 0
        <5>1. 0 * b + 0 = 0
          BY ONLY SMT, b \in Nat
        <5> QED BY <2>3, <2>4, <3>1, <1>2, <1>10, <5>1
      <4>2. dh = 0
        <5>1. dh * b >= dh
          BY ONLY SMT, <1>1, <1>2, h \in Nat, b \in Nat, dh \in 0..(b - 1)
        <5> QED BY ONLY SMT, <4>1, <5>1, dh \in 0..(b - 1), dl \in 0..(b - 1), b \in Nat
      <4>3. Cell(dh, TRUE) = dh
        <5>1. ~(dh >= h)
          BY ONLY SMT, <4>2, <1>1, h \in Nat
        <5> QED BY ONLY <5>1, <2>5
      <4>4. Cell(dh, TRUE) * b + dl = 0
        BY ONLY <4>1, <4>3
      <4>5. -(x * y) = 0
        BY ONLY SMT, <4>1
      <4> QED BY ONLY <4>4, <4>5
    <3>2. CASE ~(high = 0 /\ low = 0)
      <4>1. dh * b + dl = b * b - x * y
        BY <2>3, <2>4, <3>2, <1>2, <1>10
      <4>2. dh >= h
        BY ONLY <4>1, <1>1, <1>2, <1>6, <1>7, <1>9, <1>13, LargeIsNegative, h \in Nat, b \in Nat, dl \in 0..(b - 1), dh \in 0..(b - 1)
      <4>3. Cell(dh, TRUE) = dh - b
        BY <2>5, <4>2, <1>2
      <4>4. (dh - b) * b + dl = (dh * b + dl) - b * b
        BY ONLY SMT, b \in Nat, dl \in 0..(b - 1), dh \in 0..(b - 1)
      <4>5. (b * b - x * y) - b * b = -(x * y)
        BY ONLY SMT, b \in Nat, <1>9
      <4> QED BY <4>1, <4>3, <4>4, <4>5
    <3> QED BY <3>1, <3>2
  <2>8. TwoCells(d, signed) = Cell(dh, TRUE) * b + dl
    BY <1>2, <1>13, <2>4 DEF TwoCells
  <2> QED BY <2>2, <2>3, <2>6, <2>7, <2>8
<1> QED BY <1>11, <1>12, <1>13

\* UM* and M* store the product, and no other word has their names.
LEMMA ProductsNext ==
  ASSUME PowersOfTwo, ProductsAreExact, [NumericNext]_numericVars
  PROVE  ProductsAreExact'
<1>1. ASSUME NEW l \in Operands, NEW r \in Operands, NEW signed \in BOOLEAN,
             word' = (IF signed THEN "M*" ELSE "UM*"), args' = <<l, r>>, out' = usize_mul(l, r, signed)
      PROVE  ProductsAreExact'
  <2>1. l \in Word /\ r \in Word
    BY OperandsAssumption
  <2>2. TwoCells(out', signed) = Cell(l, signed) * Cell(r, signed)
    BY <1>1, <2>1, MulIsExact
  <2>3. args'[1] = l /\ args'[2] = r /\ ((word' = "M*") = signed)
    BY <1>1
  <2> QED BY <2>2, <2>3 DEF ProductsAreExact, TwoCells, Cell
<1>2. CASE UM_STAR
  BY <1>1, <1>2 DEF UM_STAR, Execute
<1>3. CASE M_STAR
  BY <1>1, <1>3 DEF M_STAR, Execute
<1>4. CASE ~UM_STAR /\ ~M_STAR /\ NumericNext
  <2>1. word' \notin {"UM*", "M*"}
    BY <1>4 DEF NumericNext, Call, Return, Execute, LOOP_INC, UM_SLASH_MOD, SM_SLASH_REM, FM_SLASH_MOD,
       STAR_SLASH_MOD, SLASH_MOD, DoubleDiv, TIME_AND_DATE, Interpret, TO_NUMBER, NUMBER_SIGN_S, FormatCell
  <2> QED BY <2>1 DEF ProductsAreExact
<1>5. CASE UNCHANGED numericVars
  BY <1>5 DEF numericVars, ProductsAreExact
<1> QED BY <1>2, <1>3, <1>4, <1>5


\* The days before each month, added up.
LEMMA BeforeIs ==
  /\ Before[1] = 0 /\ Before[2] = 31 /\ Before[3] = 61 /\ Before[4] = 92 /\ Before[5] = 122
  /\ Before[6] = 153 /\ Before[7] = 184 /\ Before[8] = 214 /\ Before[9] = 245 /\ Before[10] = 275
  /\ Before[11] = 306 /\ Before[12] = 337 /\ Before[13] = 366
<1> DEFINE Is(g) == g = [k \in 1..13 |-> IF k = 1 THEN 0 ELSE g[k - 1] + month_days[k - 1]]
           table == <<0, 31, 61, 92, 122, 153, 184, 214, 245, 275, 306, 337, 366>>
           f == [k \in 1..13 |-> table[k]]
<1>1. Is(f)
  <2>1. ASSUME NEW k \in 1..13 PROVE f[k] = IF k = 1 THEN 0 ELSE f[k - 1] + month_days[k - 1]
    BY DEF month_days
  <2> QED BY <2>1
<1>2. Before = CHOOSE g : Is(g)
  BY DEF Before
<1>3. Is(Before)
  <2> HIDE DEF Is, f
  <2> QED BY <1>1, <1>2
<1>4. Before[1] = 0 /\ \A k \in 2..13 : Before[k] = Before[k - 1] + month_days[k - 1]
  BY <1>3
<1>5. Before[2] = 31 /\ Before[3] = 61 /\ Before[4] = 92 /\ Before[5] = 122
  BY <1>4 DEF month_days
<1>6. Before[6] = 153 /\ Before[7] = 184 /\ Before[8] = 214 /\ Before[9] = 245
  BY <1>4, <1>5 DEF month_days
<1>7. Before[10] = 275 /\ Before[11] = 306 /\ Before[12] = 337 /\ Before[13] = 366
  BY <1>4, <1>6 DEF month_days
<1> QED BY <1>4, <1>5, <1>6, <1>7

\* The month a day falls in.
LEMMA MonthIs ==
  ASSUME NEW day \in 0..366
  PROVE  /\ MonthOf(day) \in 1..13 /\ Before[MonthOf(day)] <= day
         /\ MonthOf(day) <= 12 => day < Before[MonthOf(day) + 1]
<1> DEFINE In(k) == Before[k] <= day /\ (k <= 12 => day < Before[k + 1])
<1>1. \E k \in 1..13 : In(k)
  <2>1. CASE day < 153
    <3>1. In(1) \/ In(2) \/ In(3) \/ In(4) \/ In(5)
      BY <2>1, BeforeIs
    <3> QED BY <3>1
  <2>2. CASE day >= 153 /\ day < 306
    <3>1. In(6) \/ In(7) \/ In(8) \/ In(9) \/ In(10)
      BY <2>2, BeforeIs
    <3> QED BY <3>1
  <2>3. CASE day >= 306
    <3>1. In(11) \/ In(12) \/ In(13)
      BY <2>3, BeforeIs
    <3> QED BY <3>1
  <2> QED BY <2>1, <2>2, <2>3
<1>2. MonthOf(day) = CHOOSE k \in 1..13 : In(k)
  BY DEF MonthOf
<1> HIDE DEF In
<1>3. MonthOf(day) \in 1..13 /\ In(MonthOf(day))
  BY <1>1, <1>2
<1> QED BY <1>3 DEF In

\* The leap days between 1970 and the beginning of a year.
LeapDays(y) == (y - 1969) \div 4 - (y - 1901) \div 100 + (y - 1601) \div 400
March(y) == DayNumber(y, 3, 1)

\* Division of the next number.
LEMMA NextQuotient ==
  ASSUME NEW x \in Int, NEW d \in {4, 100, 400}
  PROVE  (x + 1) \div d = x \div d + (IF (x + 1) % d = 0 THEN 1 ELSE 0)
OBVIOUS

\* Leap days, counted from one year to the next.
LEMMA LeapDaysOfNext ==
  ASSUME NEW y \in Int
  PROVE  /\ LeapDays(y) \in Int
         /\ LeapDays(y + 1) = LeapDays(y) + (IF Leap(y) THEN 1 ELSE 0)
<1>1. /\ (y - 1968) \div 4 = (y - 1969) \div 4 + (IF (y - 1968) % 4 = 0 THEN 1 ELSE 0)
      /\ (y - 1900) \div 100 = (y - 1901) \div 100 + (IF (y - 1900) % 100 = 0 THEN 1 ELSE 0)
      /\ (y - 1600) \div 400 = (y - 1601) \div 400 + (IF (y - 1600) % 400 = 0 THEN 1 ELSE 0)
  OBVIOUS
<1>2. /\ (y - 1968) % 4 = 0 <=> y % 4 = 0
      /\ (y - 1900) % 100 = 0 <=> y % 100 = 0
      /\ (y - 1600) % 400 = 0 <=> y % 400 = 0
  OBVIOUS
<1>3. y % 400 = 0 => y % 100 = 0
  OBVIOUS
<1>4. y % 100 = 0 => y % 4 = 0
  OBVIOUS
<1> QED BY <1>1, <1>2, <1>3, <1>4 DEF LeapDays, Leap

\* The first of March, counted from that of 2000.
LEMMA MarchIs ==
  ASSUME NEW s \in Int
  PROVE  March(2000 + s) = 11017 + 365 * s + s \div 4 - s \div 100 + s \div 400
<1> DEFINE y == 2000 + s
<1>1. March(y) = 365 * (s + 30) + LeapDays(y) + 59 + (IF Leap(y) THEN 1 ELSE 0)
  BY DEF March, DayNumber, DaysBefore, LeapDays
<1>2. March(y) = 365 * (s + 30) + LeapDays(y + 1) + 59
  BY <1>1, LeapDaysOfNext
<1>3. LeapDays(y + 1) = (s + 32) \div 4 - (s + 100) \div 100 + (s + 400) \div 400
  BY DEF LeapDays
<1>4. (s + 32) \div 4 = s \div 4 + 8 /\ (s + 100) \div 100 = s \div 100 + 1 /\ (s + 400) \div 400 = s \div 400 + 1
  OBVIOUS
<1> QED BY <1>2, <1>3, <1>4

\* A day of a year from March on is a date of that year, or of the next.
LEMMA DateIs ==
  ASSUME NEW y \in Int, NEW day \in 0..365, day = 365 => Leap(y + 1), NEW k, k = MonthOf(day), NEW date,
         date = [year |-> IF k > 10 THEN y + 1 ELSE y, mon |-> ((k + 1) % 12) + 1, mday |-> day - Before[k] + 1]
  PROVE  IsDateOf(date, March(y) + day)
<1>0. \A j \in 1..13 : Before[j] \in Int
  BY BeforeIs
<1>1. k \in 1..12 /\ Before[k] <= day /\ day < Before[k + 1]
  <2>1. day \in 0..366
    OBVIOUS
  <2>2. k \in 1..13 /\ Before[k] <= day /\ (k <= 12 => day < Before[k + 1])
    BY <2>1, MonthIs
  <2>3. k # 13
    BY <2>2, BeforeIs
  <2> QED BY <2>2, <2>3
<1>2. March(y) = 365 * (y - 1970) + LeapDays(y + 1) + 59
  <2>1. March(y) = 365 * (y - 1970) + LeapDays(y) + 59 + (IF Leap(y) THEN 1 ELSE 0)
    BY DEF March, DayNumber, DaysBefore, LeapDays
  <2> QED BY <2>1, LeapDaysOfNext
<1>3. LeapDays(y) \in Int /\ LeapDays(y + 1) \in Int
  BY LeapDaysOfNext
<1>4. CASE k <= 10
  <2>1. date.year = y /\ date.mon = k + 2 /\ date.mday = day - Before[k] + 1
    BY <1>1, <1>4, <1>0
  <2>2. MonthLengths(y)[k + 2] = Before[k + 1] - Before[k] /\ DaysBefore(k + 2) = Before[k] + 59
    BY <1>1, <1>4, BeforeIs DEF MonthLengths, DaysBefore
  <2>3. date.mday \in 1..MonthLengths(y)[k + 2] /\ date.mon \in 1..12
    BY <2>1, <2>2, <1>1, <1>4, <1>0
  <2>4. DayNumber(y, k + 2, date.mday)
          = 365 * (y - 1970) + LeapDays(y) + DaysBefore(k + 2) + (IF Leap(y) THEN 1 ELSE 0) + date.mday - 1
    <3>1. (k + 2 > 2 /\ Leap(y)) <=> Leap(y)
      BY <1>1
    <3> QED BY <3>1 DEF DayNumber, LeapDays
  <2>5. 365 * (y - 1970) + LeapDays(y) + DaysBefore(k + 2) + (IF Leap(y) THEN 1 ELSE 0) + date.mday - 1
          = 365 * (y - 1970) + LeapDays(y + 1) + DaysBefore(k + 2) + date.mday - 1
    <3>1. PICK b \in {0, 1} : b = IF Leap(y) THEN 1 ELSE 0
      OBVIOUS
    <3>2. LeapDays(y + 1) = LeapDays(y) + b
      BY <3>1, LeapDaysOfNext
    <3>3. DaysBefore(k + 2) \in Int /\ date.mday \in Int
      BY <2>1, <2>2, <1>1, <1>0
    <3>4. 365 * (y - 1970) + LeapDays(y) + DaysBefore(k + 2) + b + date.mday - 1
            = 365 * (y - 1970) + LeapDays(y + 1) + DaysBefore(k + 2) + date.mday - 1
      BY <3>2, <3>3, <1>3
    <3> QED BY <3>1, <3>4
  <2>6. DayNumber(y, k + 2, date.mday) = March(y) + day
    BY <2>1, <2>2, <2>4, <2>5, <1>2, <1>3, <1>0, <1>1
  <2> QED BY <2>1, <2>3, <2>6 DEF IsDateOf
<1>5. CASE k > 10
  <2>1. date.year = y + 1 /\ date.mon = k - 10 /\ date.mday = day - Before[k] + 1 /\ k \in {11, 12}
    BY <1>1, <1>5, <1>0
  <2>2. DaysBefore(k - 10) = Before[k] - 306 /\ date.mday >= 1
    BY <2>1, <1>1, BeforeIs DEF DaysBefore
  <2>3. date.mday <= MonthLengths(y + 1)[k - 10]
    <3>1. CASE k = 11
      BY <3>1, <2>1, <1>1, BeforeIs DEF MonthLengths
    <3>2. CASE k = 12 /\ Leap(y + 1)
      BY <3>2, <2>1, <1>1, BeforeIs DEF MonthLengths
    <3>3. CASE k = 12 /\ ~Leap(y + 1)
      BY <3>3, <2>1, <1>1, BeforeIs DEF MonthLengths
    <3> QED BY <2>1, <3>1, <3>2, <3>3
  <2>4. DayNumber(y + 1, k - 10, date.mday) = 365 * (y - 1969) + LeapDays(y + 1) + DaysBefore(k - 10) + date.mday - 1
    <3>1. ~(k - 10 > 2) /\ k - 10 \in Int
      BY <2>1
    <3>2. DaysBefore(k - 10) \in Int /\ date.mday \in Int
      BY <2>1, <2>2, <1>1, <1>0
    <3> QED BY <3>1, <3>2 DEF DayNumber, LeapDays
  <2>5. DayNumber(y + 1, k - 10, date.mday) = March(y) + day
    BY <2>1, <2>2, <2>4, <1>2, <1>3, <1>0, <1>1
  <2>6. MonthLengths(y + 1)[k - 10] \in Int /\ date.mday \in Int
    <3>1. PICK b \in {28, 29} : b = IF Leap(y + 1) THEN 29 ELSE 28
      OBVIOUS
    <3>2. MonthLengths(y + 1)[1] = 31 /\ MonthLengths(y + 1)[2] = b
      BY <3>1 DEF MonthLengths
    <3>3. k - 10 = 1 \/ k - 10 = 2
      BY <2>1
    <3> QED BY <3>1, <3>2, <3>3, <2>1, <1>1, <1>0
  <2> QED BY <2>1, <2>2, <2>3, <2>5, <2>6 DEF IsDateOf
<1> QED BY <1>1, <1>4, <1>5

\* The first of March of the year q quarters, c centuries, f times four and y
\* years after 2000.
LEMMA MarchOfCycle ==
  ASSUME NEW q \in Int, NEW c \in 0..3, NEW f \in 0..24, NEW y \in 0..3
  PROVE  March(2000 + (y + 4 * f + 100 * c + 400 * q)) = 11017 + 146097 * q + 36524 * c + 1461 * f + 365 * y
<1> DEFINE s == y + 4 * f + 100 * c + 400 * q
<1>1. s \div 4 = f + 25 * c + 100 * q
  OBVIOUS
<1>2. s \div 100 = c + 4 * q
  OBVIOUS
<1>3. s \div 400 = q
  OBVIOUS
<1>4. s \in Int
  OBVIOUS
<1>5. March(2000 + s) = 11017 + 365 * s + s \div 4 - s \div 100 + s \div 400
  BY <1>4, MarchIs
<1> QED BY <1>1, <1>2, <1>3, <1>5

\* The day before the first of March of a leap year.
LEMMA LeapDayIs ==
  ASSUME NEW y \in Int, Leap(y)
  PROVE  /\ DayNumber(y, 2, 29) = March(y) - 1
         /\ IsDateOf([year |-> y, mon |-> 2, mday |-> 29], March(y) - 1)
<1>1. DayNumber(y, 2, 29) = 365 * (y - 1970) + LeapDays(y) + 31 + 29 - 1
  BY DEF DayNumber, DaysBefore, LeapDays
<1>2. March(y) = 365 * (y - 1970) + LeapDays(y) + 59 + 1
  BY DEF March, DayNumber, DaysBefore, LeapDays
<1>3. DayNumber(y, 2, 29) = March(y) - 1
  BY <1>1, <1>2, LeapDaysOfNext
<1>4. MonthLengths(y)[2] = 29
  BY DEF MonthLengths
<1> QED BY <1>3, <1>4 DEF IsDateOf

\* What the conversion computes, of a day n and by the cycles it lies in.
Cycles(n, q, c, f, d, y, k) ==
  /\ n = 146097 * q + 36524 * c + 1461 * f + 365 * y + k
  /\ d = 365 * y + k
  /\ q \in Nat /\ c \in Nat /\ f \in Nat /\ d \in Nat /\ y \in Nat /\ k \in Nat
  /\ c <= 4 /\ f <= 24 /\ d <= 1460 /\ y <= 4 /\ k <= 364
  /\ c = 4 => f = 0 /\ d = 0
  /\ f = 24 => d < 1460

Divided(n, q, rest, c, r, f, d, y, k) ==
  /\ q = n \div 146097 /\ rest = n % 146097
  /\ c = rest \div 36524 /\ r = rest % 36524
  /\ f = r \div 1461 /\ d = r % 1461
  /\ y = d \div 365 /\ k = d % 365

\* ... from the divisions of the code.
LEMMA CyclesAre ==
  ASSUME NEW n \in Nat, NEW q, NEW rest, NEW c, NEW r, NEW f, NEW d, NEW y, NEW k,
         Divided(n, q, rest, c, r, f, d, y, k)
  PROVE  Cycles(n, q, c, f, d, y, k)
<1>0. /\ q = n \div 146097 /\ rest = n % 146097
      /\ c = rest \div 36524 /\ r = rest % 36524
      /\ f = r \div 1461 /\ d = r % 1461
      /\ y = d \div 365 /\ k = d % 365
  BY SMT DEF Divided
<1>1. q \in Nat /\ rest \in Nat /\ rest <= 146096 /\ n = 146097 * q + rest
  <2>1. q \in Nat /\ rest \in Nat /\ rest <= 146096
    BY <1>0, SMT
  <2>2. n = 146097 * q + rest
    BY ONLY SMT, n \in Nat, <1>0
  <2> QED BY <2>1, <2>2, SMT
<1>2. c \in Nat /\ r \in Nat /\ r <= 36523 /\ rest = 36524 * c + r
  <2>1. rest \in Nat
    BY <1>1, SMT
  <2>2. c \in Nat /\ r \in Nat /\ r <= 36523
    BY ONLY SMT, <2>1, <1>0
  <2>3. rest = 36524 * c + r
    BY ONLY SMT, <2>1, <1>0
  <2> QED BY ONLY SMT, <2>2, <2>3
<1>3. f \in Nat /\ d \in Nat /\ d <= 1460 /\ r = 1461 * f + d
  <2>1. r \in Nat
    BY <1>2, SMT
  <2>2. f \in Nat /\ d \in Nat /\ d <= 1460
    BY ONLY SMT, <2>1, <1>0
  <2>3. r = 1461 * f + d
    BY ONLY SMT, <2>1, <1>0
  <2> QED BY ONLY SMT, <2>2, <2>3
<1>4. y \in Nat /\ k \in Nat /\ k <= 364 /\ d = 365 * y + k
  <2>1. d \in Nat
    BY <1>3, SMT
  <2>2. y \in Nat /\ k \in Nat /\ k <= 364
    BY ONLY SMT, <2>1, <1>0
  <2>3. d = 365 * y + k
    BY ONLY SMT, <2>1, <1>0
  <2> QED BY ONLY SMT, <2>2, <2>3
<1>5. n = 146097 * q + 36524 * c + 1461 * f + 365 * y + k
  BY ONLY SMT, <1>1, <1>2, <1>3, <1>4, n \in Nat
<1>6. c <= 4 /\ (c = 4 => r = 0)
  BY ONLY SMT, <1>1, <1>2
<1>7. f <= 24 /\ (f = 24 => d < 1460) /\ (r = 0 => f = 0 /\ d = 0)
  BY ONLY SMT, <1>2, <1>3
<1>8. y <= 4
  BY ONLY SMT, <1>3, <1>4
<1> QED BY ONLY SMT, <1>1, <1>2, <1>3, <1>4, <1>5, <1>6, <1>7, <1>8 DEF Cycles

\* What the conversion yields for a day of a year from March, and for the leap
\* day before it.
LeapDay(y) == [year |-> y, mon |-> 2, mday |-> 29]
DayOf(y, day) ==
  LET k == MonthOf(day)
  IN  [year |-> IF k > 10 THEN y + 1 ELSE y, mon |-> ((k + 1) % 12) + 1, mday |-> day - Before[k] + 1]
Years(q, c, f, y) == y + 4 * f + 100 * c + 400 * q

\* A date that is right, or one of those that DatesAreCivil excepts.
Dated(date, t) ==
  \/ IsDateOf(date, t)
  \/ \E y \in (date.year - 1)..(date.year + 1), d \in 1..2 : t = DayNumber(y, 3, d)
  \/ date.year % 100 = 4 /\ date.year % 400 # 4 /\ t = DayNumber(date.year, 2, 29)

\* The conversion from March 2000 on.
LEMMA LaterDays ==
  ASSUME NEW t \in Nat, t >= 11017
  PROVE  \E q, c, f, d, y, k :
           /\ Cycles(t - 11017, q, c, f, d, y, k)
           /\ togmt(t) = IF k = 0 /\ (f # 0 \/ c % 4 = 0) THEN LeapDay(2000 + Years(q, c, f, y))
                         ELSE DayOf(2000 + Years(q, c, f, y), k)
<1>1. PICK n \in Nat : n = t - 11017
  BY SMT
<1>2. PICK q, rest, c, r, f, d, y, k : Divided(n, q, rest, c, r, f, d, y, k)
  BY SMT DEF Divided
<1>3. /\ q = n \div 146097 /\ rest = n % 146097
      /\ c = rest \div 36524 /\ r = rest % 36524
      /\ f = r \div 1461 /\ d = r % 1461
      /\ y = d \div 365 /\ k = d % 365
  BY <1>2, SMT DEF Divided
<1>10. Cycles(n, q, c, f, d, y, k)
  BY <1>2, CyclesAre, SMT
<1>11. days_per_fyear = 1461 /\ days_per_cent = 36524 /\ days_per_qcent = 146097
  BY SMT DEF days_per_fyear, days_per_cent, days_per_qcent
<1>12. ~(t < 11017)
  BY SMT
<1>13. togmt(t) = IF k = 0 /\ (f # 0 \/ c % 4 = 0) THEN LeapDay(2000 + Years(q, c, f, y))
                  ELSE DayOf(2000 + Years(q, c, f, y), k)
  BY <1>1, <1>3, <1>11, <1>12, SMT DEF togmt, LeapDay, DayOf, Years
<1> QED BY <1>1, <1>10, <1>13, SMT

\* The conversion before March 2000.
LEMMA EarlierDays ==
  ASSUME NEW t \in Nat, t < 11017
  PROVE  \E q, c, f, d, y, k :
           /\ Cycles(11017 - t, q, c, f, d, y, k)
           /\ togmt(t) = DayOf(2000 - (Years(q, c, f, y) + 1), 366 - k)
<1>1. PICK n \in Nat : n = 11017 - t
  BY SMT
<1>2. PICK q, rest, c, r, f, d, y, k : Divided(n, q, rest, c, r, f, d, y, k)
  BY SMT DEF Divided
<1>3. /\ q = n \div 146097 /\ rest = n % 146097
      /\ c = rest \div 36524 /\ r = rest % 36524
      /\ f = r \div 1461 /\ d = r % 1461
      /\ y = d \div 365 /\ k = d % 365
  BY <1>2, SMT DEF Divided
<1>10. Cycles(n, q, c, f, d, y, k)
  BY <1>2, CyclesAre, SMT
<1>11. days_per_fyear = 1461 /\ days_per_cent = 36524 /\ days_per_qcent = 146097
  BY SMT DEF days_per_fyear, days_per_cent, days_per_qcent
<1>12. k \in Nat /\ k <= 364
  BY <1>10, SMT DEF Cycles
<1>13. 366 - k # 0
  BY <1>12, SMT
<1>14. \A x \in Int : 2000 + -(x + 1) = 2000 - (x + 1)
  BY SMT
<1>16. Years(q, c, f, y) \in Int
  BY <1>10, SMT DEF Years, Cycles
<1>15. togmt(t) = DayOf(2000 - (Years(q, c, f, y) + 1), 366 - k)
  BY <1>1, <1>3, <1>11, <1>13, <1>14, <1>16, SMT DEF togmt, DayOf, Years
<1> QED BY <1>1, <1>10, <1>15, SMT

\* A leap year after 2000: it is neither the first of its century, nor it is the
\* first of four centuries.
LEMMA LeapYearIs ==
  ASSUME NEW q \in Int, NEW c \in 0..3, NEW f \in 0..24, f # 0 \/ c = 0
  PROVE  Leap(2000 + Years(q, c, f, 0))
<1>1. PICK s \in Int : s = 2000 + Years(q, c, f, 0)
  BY SMT DEF Years
<1>2. s = 2000 + 4 * f + 100 * c + 400 * q
  BY <1>1, SMT DEF Years
<1>3. s % 4 = 0
  BY <1>2, SMT
<1>4. CASE f # 0
  <2>1. s = 4 * f + 100 * (20 + c + 4 * q)
    BY <1>2, SMT
  <2>2. s % 100 # 0
    BY <2>1, <1>4, SMT
  <2> QED BY <1>1, <1>3, <2>2, SMT DEF Leap
<1>5. CASE f = 0 /\ c = 0
  <2>1. s = 400 * (5 + q)
    BY <1>2, <1>5, SMT
  <2>2. s % 400 = 0
    BY <2>1, SMT
  <2> QED BY <1>1, <1>3, <2>2, SMT DEF Leap
<1> QED BY <1>4, <1>5

\* The first day of a year from March is in March.
LEMMA FirstDayIs ==
  ASSUME NEW y \in Int
  PROVE  DayOf(y, 0) = [year |-> y, mon |-> 3, mday |-> 1]
<1>1. PICK k : k = MonthOf(0)
  OBVIOUS
<1>2. k \in 1..13 /\ Before[k] <= 0 /\ (k <= 12 => 0 < Before[k + 1])
  BY <1>1, MonthIs, SMT
<1>3. k = 1 /\ Before[1] = 0
  BY <1>2, BeforeIs, SMT
<1> QED BY <1>1, <1>3, SMT DEF DayOf

\* From March 2000 on, only the days that DatesAreCivil names are wrong.
LEMMA LaterDates ==
  ASSUME NEW t \in Nat, t >= 11017, NEW q, NEW c, NEW f, NEW d, NEW y, NEW k,
         Cycles(t - 11017, q, c, f, d, y, k)
  PROVE  Dated(IF k = 0 /\ (f # 0 \/ c % 4 = 0) THEN LeapDay(2000 + Years(q, c, f, y))
               ELSE DayOf(2000 + Years(q, c, f, y), k), t)
<1>1. /\ t = 11017 + 146097 * q + 36524 * c + 1461 * f + 365 * y + k
      /\ q \in Nat /\ c \in 0..4 /\ f \in 0..24 /\ y \in 0..4 /\ k \in 0..364 /\ d = 365 * y + k /\ d <= 1460
      /\ c = 4 => f = 0 /\ d = 0
      /\ f = 24 => d < 1460
  BY SMT DEF Cycles
<1>2. PICK x \in Int : x = 2000 + Years(q, c, f, y)
  BY <1>1, SMT DEF Years
<1> DEFINE leaps == k = 0 /\ (f # 0 \/ c % 4 = 0)
<1>3. CASE y = 4
  <2>1. k = 0 /\ c \in 0..3 /\ f + 1 \in 0..24 /\ f + 1 # 0
    BY <1>1, <1>3, SMT
  <2>2. Years(q, c, f, 4) = Years(q, c, f + 1, 0)
    BY <1>1, SMT DEF Years
  <2>3. Leap(x)
    BY <1>1, <1>2, <1>3, <2>1, <2>2, LeapYearIs, SMT
  <2>4. March(x) - 1 = t
    <3>1. March(2000 + (0 + 4 * (f + 1) + 100 * c + 400 * q)) = 11017 + 146097 * q + 36524 * c + 1461 * (f + 1) + 365 * 0
      BY <1>1, <2>1, MarchOfCycle, SMT
    <3>2. x = 2000 + (0 + 4 * (f + 1) + 100 * c + 400 * q)
      BY <1>1, <1>2, <1>3, SMT DEF Years
    <3>3. March(x) = 11017 + 146097 * q + 36524 * c + 1461 * (f + 1) + 365 * 0
      BY <3>1, <3>2
    <3> QED BY <3>3, <1>1, <1>3, <2>1, SMT
  <2>5. CASE leaps
    <3>1. IsDateOf(LeapDay(x), t)
      BY <2>3, <2>4, LeapDayIs DEF LeapDay
    <3> QED BY <3>1, <2>5, <1>2, <1>3 DEF Dated
  <2>6. CASE ~leaps
    <3>1. f = 0 /\ c \in 1..3
      BY <2>6, <2>1, <1>1, SMT
    <3>2. x = 2004 + 100 * c + 400 * q
      BY <3>1, <1>1, <1>2, <1>3, SMT DEF Years
    <3>3. x % 100 = 4
      BY <3>2, <3>1, <1>1, SMT
    <3>4. x % 400 # 4
      <4>1. PICK p \in Int : p = 5 + q
        BY <1>1, SMT
      <4>2. x = 104 + 400 * p \/ x = 204 + 400 * p \/ x = 304 + 400 * p
        BY <4>1, <3>2, <3>1, <1>1, SMT
      <4>3. PICK a \in Nat : x = a + 400 * p /\ 4 < a /\ a < 400
        BY <4>1, <4>2, SMT
      <4>4. x % 400 = a
        BY <4>1, <4>3, SMT
      <4> QED BY <4>3, <4>4, SMT
    <3>5. t = DayNumber(x, 2, 29)
      <4>1. DayNumber(x, 2, 29) = March(x) - 1
        BY ONLY <2>3, x \in Int, LeapDayIs
      <4> QED BY <4>1, <2>4
    <3>6. DayOf(x, 0).year = x
      BY FirstDayIs
    <3>7. Dated(DayOf(x, 0), t)
      BY <3>3, <3>4, <3>5, <3>6 DEF Dated
    <3> QED BY <3>7, <2>6, <2>1, <1>2, <1>3
  <2> QED BY <2>5, <2>6
<1>4. CASE y # 4 /\ c = 4
  <2>1. k = 0 /\ y = 0 /\ f = 0 /\ q + 1 \in Int /\ leaps
    BY <1>1, <1>4, SMT
  <2>2. x = 2000 + (0 + 4 * 0 + 100 * 0 + 400 * (q + 1))
    BY <1>1, <1>2, <1>4, <2>1, SMT DEF Years
  <2>3. Leap(x)
    BY <2>1, <2>2, LeapYearIs, SMT DEF Years
  <2>4. March(2000 + (0 + 4 * 0 + 100 * 0 + 400 * (q + 1))) = 11017 + 146097 * (q + 1) + 36524 * 0 + 1461 * 0 + 365 * 0
    BY <2>1, MarchOfCycle, SMT
  <2>5. March(x) = 11017 + 146097 * (q + 1) + 36524 * 0 + 1461 * 0 + 365 * 0
    BY <2>2, <2>4
  <2>6. March(x) - 1 = t
    BY <2>5, <1>1, <1>4, <2>1, SMT
  <2>7. IsDateOf(LeapDay(x), t)
    BY <2>3, <2>6, LeapDayIs DEF LeapDay
  <2> QED BY <2>1, <2>7, <1>2 DEF Dated
<1>5. CASE y # 4 /\ c # 4
  <2>1. y \in 0..3 /\ c \in 0..3
    BY <1>1, <1>5, SMT
  <2>2. March(2000 + (y + 4 * f + 100 * c + 400 * q)) = 11017 + 146097 * q + 36524 * c + 1461 * f + 365 * y
    BY <1>1, <2>1, MarchOfCycle, SMTT(30)
  <2>3. March(x) = 11017 + 146097 * q + 36524 * c + 1461 * f + 365 * y
    BY <2>2, <1>2, SMT DEF Years
  <2>4. t = March(x) + k
    BY <2>3, <1>1, SMT
  <2>5. CASE leaps
    <3>1. t = DayNumber(x, 3, 1)
      BY <2>3, <2>5, <1>1, SMT DEF March
    <3>2. LeapDay(x).year = x
      BY DEF LeapDay
    <3>3. \E z \in (x - 1)..(x + 1), e \in 1..2 : t = DayNumber(z, 3, e)
      <4>1. x \in (x - 1)..(x + 1)
        BY SMT
      <4>2. 1 \in 1..2
        BY SMT
      <4> WITNESS x \in (x - 1)..(x + 1), 1 \in 1..2
      <4> QED BY <3>1
    <3>4. Dated(LeapDay(x), t)
      BY <3>2, <3>3 DEF Dated
    <3> QED BY <3>4, <2>5, <1>2
  <2>6. CASE ~leaps
    <3>1. PICK m : m = MonthOf(k)
      OBVIOUS
    <3>2. k \in 0..365 /\ k # 365
      BY <1>1, SMT
    <3>3. DayOf(x, k) = [year |-> IF m > 10 THEN x + 1 ELSE x, mon |-> ((m + 1) % 12) + 1, mday |-> k - Before[m] + 1]
      BY <3>1 DEF DayOf
    <3>4. PICK date : date = DayOf(x, k)
      OBVIOUS
    <3>6. date = [year |-> IF m > 10 THEN x + 1 ELSE x, mon |-> ((m + 1) % 12) + 1, mday |-> k - Before[m] + 1]
      BY <3>3, <3>4
    <3>7. IsDateOf(date, March(x) + k)
      BY ONLY <3>1, <3>2, <3>6, x \in Int, DateIs
    <3>5. Dated(DayOf(x, k), t)
      BY <3>4, <3>7, <2>4 DEF Dated
    <3> QED BY <3>5, <2>6, <1>2
  <2> QED BY <2>5, <2>6
<1> QED BY <1>3, <1>4, <1>5

\* The first of March of the years before 2000, every fourth of which is leap.
LEMMA MarchBefore ==
  ASSUME NEW f \in 0..7, NEW y \in 0..4
  PROVE  March(2000 - (4 * f + y)) = 11017 - 1461 * f - 365 * y - (IF y = 0 THEN 0 ELSE 1)
<1>1. PICK s \in Int : s = -(4 * f + y)
  BY SMT
<1>2. March(2000 + s) = 11017 + 365 * s + s \div 4 - s \div 100 + s \div 400
  BY MarchIs, SMT
<1>3. s >= -32 /\ s <= 0
  BY <1>1, SMT
<1>4. s \div 100 = s \div 400
  BY <1>3, SMT
<1>5. s \div 4 = IF y = 0 THEN -f ELSE -f - 1
  <2>1. CASE y = 0
    BY <1>1, <2>1, SMT
  <2>2. CASE y # 0
    BY <1>1, <2>2, SMT
  <2> QED BY <2>1, <2>2
<1>6. 2000 + s = 2000 - (4 * f + y)
  BY <1>1, SMT
<1>7. March(2000 + s) = 11017 - 1461 * f - 365 * y - (IF y = 0 THEN 0 ELSE 1)
  BY <1>1, <1>2, <1>4, <1>5, SMT
<1> QED BY <1>6, <1>7

\* The last days of a year from March are in the next year.
LEMMA LastDaysAre ==
  ASSUME NEW x \in Int, NEW day \in 365..366
  PROVE  DayOf(x, day).year = x + 1
<1>1. PICK k : k = MonthOf(day)
  OBVIOUS
<1>2. k \in 1..13 /\ Before[k] <= day /\ (k <= 12 => day < Before[k + 1])
  BY <1>1, MonthIs, SMT
<1>3. k > 10
  BY <1>2, BeforeIs, SMT
<1> QED BY <1>1, <1>3 DEF DayOf

\* The first two days of March are excepted.
LEMMA MarchDaysAre ==
  ASSUME NEW x \in Int, NEW day \in 365..366, NEW t, NEW e \in 1..2, t = DayNumber(x + 1, 3, e)
  PROVE  Dated(DayOf(x, day), t)
<1>1. DayOf(x, day).year = x + 1
  BY LastDaysAre
<1>2. \E z \in ((x + 1) - 1)..((x + 1) + 1), e2 \in 1..2 : t = DayNumber(z, 3, e2)
  <2>1. x + 1 \in ((x + 1) - 1)..((x + 1) + 1)
    BY SMT
  <2> WITNESS x + 1 \in ((x + 1) - 1)..((x + 1) + 1), e \in 1..2
  <2> QED OBVIOUS
<1> QED BY <1>1, <1>2 DEF Dated

\* Before March 2000, only the first two days of March may be wrong.
LEMMA EarlierDates ==
  ASSUME NEW t \in Nat, t < 11017, NEW q, NEW c, NEW f, NEW d, NEW y, NEW k,
         Cycles(11017 - t, q, c, f, d, y, k)
  PROVE  Dated(DayOf(2000 - (Years(q, c, f, y) + 1), 366 - k), t)
<1>1. /\ 11017 - t = 146097 * q + 36524 * c + 1461 * f + 365 * y + k
      /\ q \in Nat /\ c \in Nat /\ f \in Nat /\ y \in 0..4 /\ k \in 0..364 /\ d = 365 * y + k /\ d <= 1460
  BY SMT DEF Cycles
<1>2. q = 0 /\ c = 0 /\ f \in 0..7
  BY <1>1, SMT
<1>3. t = 11017 - 1461 * f - 365 * y - k
  BY <1>1, <1>2, SMT
<1>4. PICK x \in Int : x = 2000 - (Years(q, c, f, y) + 1)
  BY <1>1, SMT DEF Years
<1>5. x + 1 = 2000 - (4 * f + y)
  BY <1>1, <1>2, <1>4, SMT DEF Years
<1>6. March(x + 1) = 11017 - 1461 * f - 365 * y - (IF y = 0 THEN 0 ELSE 1)
  BY <1>1, <1>2, <1>5, MarchBefore
<1>7. DayNumber(x + 1, 3, 1) = March(x + 1) /\ DayNumber(x + 1, 3, 2) = March(x + 1) + 1
  <2>1. LeapDays(x + 1) \in Int
    BY LeapDaysOfNext, SMT
  <2>2. PICK b \in {0, 1} : b = IF Leap(x + 1) THEN 1 ELSE 0
    OBVIOUS
  <2>3. \A e \in {1, 2} : DayNumber(x + 1, 3, e) = 365 * (x + 1 - 1970) + LeapDays(x + 1) + 59 + b + e - 1
    BY <2>2, SMT DEF DayNumber, LeapDays, DaysBefore
  <2> QED BY <2>1, <2>2, <2>3, SMT DEF March
<1>8. CASE k = 0 \/ (k = 1 /\ y # 0)
  <2>1. PICK e \in 1..2 : t = DayNumber(x + 1, 3, e)
    <3>1. CASE y = 0
      BY <3>1, <1>8, <1>3, <1>6, <1>7, SMT
    <3>2. CASE y # 0 /\ k = 0
      <4>1. March(x + 1) = 11017 - 1461 * f - 365 * y - 1
        BY <3>2, <1>6
      <4>2. t = DayNumber(x + 1, 3, 2)
        BY <4>1, <3>2, <1>1, <1>2, <1>3, <1>7, SMT
      <4>3. 2 \in 1..2
        BY SMT
      <4> QED BY <4>2, <4>3
    <3>3. CASE y # 0 /\ k = 1
      BY <3>3, <1>8, <1>3, <1>6, <1>7, SMT
    <3> QED BY <3>1, <3>2, <3>3, <1>8
  <2>2. 366 - k \in 365..366
    BY <1>8, SMT
  <2>3. Dated(DayOf(x, 366 - k), t)
    BY ONLY <2>1, <2>2, x \in Int, MarchDaysAre
  <2> QED BY <2>3, <1>4
<1>9. CASE k >= 2 \/ (k = 1 /\ y = 0)
  <2>1. PICK day \in 0..365 : day = 366 - k
    BY <1>9, <1>1, SMT
  <2>2. y <= 3
    BY <1>9, <1>1, SMT
  <2>3. day = 365 => Leap(x + 1)
    <3>1. SUFFICES ASSUME day = 365 PROVE Leap(x + 1)
      OBVIOUS
    <3>2. y = 0
      BY <3>1, <2>1, <1>1, <1>9, SMT
    <3>3. x + 1 = 2000 - 4 * f
      BY <3>2, <1>5, <1>2, SMT
    <3>4. (x + 1) % 4 = 0
      BY <3>3, <1>2, SMT
    <3>5. f = 0 \/ (x + 1) % 100 # 0
      BY <3>3, <1>2, SMT
    <3>6. f = 0 => (x + 1) % 400 = 0
      BY <3>3, <1>2, SMT
    <3> QED BY <3>4, <3>5, <3>6 DEF Leap
  <2>4. March(x) = 11017 - 1461 * f - 365 * (y + 1) - 1
    <3>1. x = 2000 - (4 * f + (y + 1)) /\ y + 1 \in 0..4 /\ y + 1 # 0
      BY <1>5, <1>1, <1>2, <2>2, SMT
    <3>2. March(2000 - (4 * f + (y + 1))) = 11017 - 1461 * f - 365 * (y + 1) - (IF y + 1 = 0 THEN 0 ELSE 1)
      BY <3>1, <1>2, MarchBefore
    <3> QED BY <3>1, <3>2
  <2>5. t = March(x) + day
    BY <2>4, <2>1, <1>3, <1>1, <1>2, SMT
  <2>6. PICK m : m = MonthOf(day)
    OBVIOUS
  <2>7. PICK date : date = DayOf(x, day)
    OBVIOUS
  <2>8. date = [year |-> IF m > 10 THEN x + 1 ELSE x, mon |-> ((m + 1) % 12) + 1, mday |-> day - Before[m] + 1]
    BY <2>6, <2>7 DEF DayOf
  <2>9. IsDateOf(date, March(x) + day)
    BY ONLY <2>3, <2>6, <2>8, x \in Int, day \in 0..365, DateIs
  <2>10. Dated(DayOf(x, day), t)
    BY <2>5, <2>7, <2>9 DEF Dated
  <2> QED BY <2>10, <2>1, <1>4
<1> QED BY <1>1, <1>8, <1>9, SMT

\* Every step but TIME&DATE stores the name of another word.
LEMMA DatedNext ==
  ASSUME DatesAreCivil, [NumericNext]_numericVars
  PROVE  DatesAreCivil'
<1>1. CASE TIME_AND_DATE
  <2>1. PICK t \in Days : word' = "TIME&DATE" /\ args' = <<t>> /\ out' = togmt(t)
    BY <1>1 DEF TIME_AND_DATE, Execute
  <2>2. t \in Nat
    BY OperandsAssumption
  <2>3. Dated(togmt(t), t)
    <3>1. CASE t >= 11017
      BY <2>2, <3>1, LaterDays, LaterDates
    <3>2. CASE t < 11017
      BY <2>2, <3>2, EarlierDays, EarlierDates
    <3> QED BY <2>2, <3>1, <3>2, SMT
  <2>4. out' = togmt(t) /\ args'[1] = t
    BY <2>1
  <2>5. Dated(out', args'[1])
    BY <2>3, <2>4
  <2> QED BY <2>5 DEF Dated, DatesAreCivil
<1>2. CASE ~TIME_AND_DATE /\ NumericNext
  <2>1. word' # "TIME&DATE"
    BY <1>2 DEF NumericNext, Call, Return, Execute, UM_STAR, M_STAR, UM_SLASH_MOD, SM_SLASH_REM, FM_SLASH_MOD,
       STAR_SLASH_MOD, SLASH_MOD, DoubleDiv, LOOP_INC, Interpret, TO_NUMBER, NUMBER_SIGN_S, FormatCell
  <2> QED BY <2>1 DEF DatesAreCivil
<1>3. CASE UNCHANGED numericVars
  BY <1>3 DEF numericVars, DatesAreCivil
<1> QED BY <1>1, <1>2, <1>3

\* TIME&DATE gives the day, month and year of every day there will be, but for the
\* days that DatesAreCivil excepts (e4__usize_togmt).
THEOREM DatesAreRight == NumericSpec => []DatesAreCivil
<1>1. NumericInit => DatesAreCivil
  BY DEF NumericInit, DatesAreCivil
<1> QED BY <1>1, DatedNext, PTL DEF NumericSpec

\* The binary search of clz, as the result of at most seven halvings.
Halving(g) ==
  [w \in 0..W |->
     [u \in Word |-> IF w = 0 THEN 0
                     ELSE IF u \div 2^(W - w) = 0 THEN w + g[w \div 2][(u * 2^w) % Base]
                     ELSE g[w \div 2][u]]]
Agree(f, g, m) == \A w \in 0..W, u \in Word : w < m => f[w][u] = g[w][u]

\* Two searches that halve in the same way agree up to any width.
LEMMA HalvingsAgree ==
  ASSUME PowersOfTwo, NEW f, NEW g, NEW m \in Nat \ {0}, Agree(f, g, m)
  PROVE  Agree(Halving(f), Halving(g), 2 * m)
<1>1. SUFFICES ASSUME NEW w \in 0..W, NEW u \in Word, w < 2 * m
               PROVE  Halving(f)[w][u] = Halving(g)[w][u]
  BY DEF Agree
<1>2. W \in Nat
  BY WordAssumption, SMT
<1>3. Base \in Nat \ {0}
  <2>1. W \in 0..W /\ 0 \in 0..W /\ W + 0 <= W
    BY <1>2, SMT
  <2> QED BY <2>1, SumOfExponents DEF Base
<1>4. CASE w = 0
  BY <1>4 DEF Halving
<1>5. CASE w # 0
  <2>1. w > 0 /\ w \div 2 \in 0..W /\ w \div 2 < m
    BY <1>1, <1>2, <1>5, SMT
  <2>2. (u * 2^w) % Base \in Word
    <3>1. PICK p \in Nat \ {0} : p = 2^w
      <4>1. 0 \in 0..W /\ w + 0 <= W
        BY <1>2, SMT
      <4> QED BY <4>1, SumOfExponents
    <3>2. PICK b \in Nat \ {0} : b = Base
      BY <1>3
    <3>3. u \in Nat
      BY <3>2, SMT DEF Word
    <3>4. PICK v \in Nat : v = u * p
      BY <3>3, SMT
    <3>5. v % b \in 0..(b - 1)
      BY SMT
    <3> QED BY <3>1, <3>2, <3>4, <3>5 DEF Word
  <2>3. f[w \div 2][(u * 2^w) % Base] = g[w \div 2][(u * 2^w) % Base] /\ f[w \div 2][u] = g[w \div 2][u]
    BY <2>1, <2>2, Zenon DEF Agree
  <2>4. \A e : Halving(e)[w][u] = IF u \div 2^(W - w) = 0 THEN w + e[w \div 2][(u * 2^w) % Base] ELSE e[w \div 2][u]
    BY <1>5, <2>1, Zenon DEF Halving
  <2> QED BY <2>3, <2>4, Zenon
<1> QED BY <1>4, <1>5

Nothing == [w \in 0..W |-> [u \in Word |-> 0]]
\* The search is what its halvings say: the recursion ends.
LEMMA SearchIs ==
  ASSUME PowersOfTwo
  PROVE  Search = Halving(Search)
<1>1. W \in Nat /\ W < 128
  BY WordAssumption, SMT
<1>2. Agree(Nothing, Halving(Nothing), 1)
  <2>1. \A w \in 0..W : w < 1 => w = 0
    BY <1>1, SMT
  <2>2. \A u \in Word : 0 \in 0..W => Nothing[0][u] = 0 /\ Halving(Nothing)[0][u] = 0
    BY DEF Nothing, Halving
  <2> QED BY <2>1, <2>2, <1>1 DEF Agree
<1>3. \A f, g, m, n : m \in Nat \ {0} /\ n = 2 * m /\ Agree(f, g, m) => Agree(Halving(f), Halving(g), n)
  BY HalvingsAgree
<1> DEFINE f1 == Halving(Nothing)
           f2 == Halving(f1)
           f3 == Halving(f2)
           f4 == Halving(f3)
           f5 == Halving(f4)
           f6 == Halving(f5)
           f7 == Halving(f6)
           f8 == Halving(f7)
<1>4. 2 = 2 * 1 /\ 4 = 2 * 2 /\ 8 = 2 * 4 /\ 16 = 2 * 8 /\ 32 = 2 * 16 /\ 64 = 2 * 32 /\ 128 = 2 * 64
      /\ {1, 2, 4, 8, 16, 32, 64} \subseteq Nat \ {0}
  BY SMT
<1>5. Agree(f1, f2, 2)
  BY <1>2, <1>3, <1>4
<1> HIDE DEF f1
<1>6. Agree(f2, f3, 4)
  BY <1>5, <1>3, <1>4
<1> HIDE DEF f2
<1>7. Agree(f3, f4, 8)
  BY <1>6, <1>3, <1>4
<1> HIDE DEF f3
<1>8. Agree(f4, f5, 16)
  BY <1>7, <1>3, <1>4
<1> HIDE DEF f4
<1>9. Agree(f5, f6, 32)
  BY <1>8, <1>3, <1>4
<1> HIDE DEF f5
<1>10. Agree(f6, f7, 64)
  BY <1>9, <1>3, <1>4
<1> HIDE DEF f6
<1>11. Agree(f7, f8, 128)
  BY <1>10, <1>3, <1>4
<1>12. f7 = Halving(f7)
  <2>1. \A w \in 0..W : w < 128
    BY <1>1, SMT
  <2>2. \A w \in 0..W, u \in Word : f7[w][u] = f8[w][u]
    BY <1>11, <2>1 DEF Agree
  <2>3. f7 = [w \in 0..W |-> [u \in Word |-> f7[w][u]]]
    BY DEF Halving
  <2>4. f8 = [w \in 0..W |-> [u \in Word |-> f8[w][u]]]
    BY SMTT(20) DEF Halving
  <2> HIDE DEF f7, f8
  <2>5. f7 = f8
    BY <2>2, <2>3, <2>4
  <2> QED BY <2>5 DEF f8
<1> HIDE DEF f7
<1>13. Search = CHOOSE g : g = Halving(g)
  BY DEF Search, Halving
<1> QED BY <1>12, <1>13

\* The search over a bits finds how far a word has to be shifted for its highest
\* bit to be set, if a bits are enough for that.
Leads(a) ==
  \A u \in Word : u * 2^a >= Base =>
    /\ Search[a \div 2][u] \in 0..(a - 1)
    /\ u * 2^(Search[a \div 2][u]) < Base /\ Base <= 2 * (u * 2^(Search[a \div 2][u]))

\* One step of the search finds one bit.
LEMMA LeadsOne ==
  ASSUME PowersOfTwo
  PROVE  Leads(1)
<1>1. SUFFICES ASSUME NEW u \in Word, u * 2^1 >= Base
               PROVE  /\ Search[1 \div 2][u] \in 0..(1 - 1)
                      /\ u * 2^(Search[1 \div 2][u]) < Base /\ Base <= 2 * (u * 2^(Search[1 \div 2][u]))
  BY DEF Leads
<1>2. 1 \div 2 = 0 /\ 0 \in 0..W /\ 0 \in 0..(1 - 1)
  BY WordAssumption, SMT
<1>3. Search[0][u] = 0
  BY SearchIs, <1>2 DEF Halving
<1>4. 2^1 = 2 /\ 2^0 = 1
  BY DEF PowersOfTwo
<1>5. PICK b \in Nat : b = Base
  BY HalvesAre, SMT
<1>6. u \in 0..(b - 1) /\ u * 2 >= b
  BY <1>1, <1>4, <1>5 DEF Word
<1>7. u * 1 < b /\ b <= 2 * (u * 1)
  BY <1>6, SMT
<1> QED BY <1>2, <1>3, <1>4, <1>5, <1>7

\* A step of the search skips w zeros, or looks for them in the first half.
LEMMA LeadsTwice ==
  ASSUME PowersOfTwo, NEW w \in Nat \ {0}, 2 * w <= W, Leads(w)
  PROVE  Leads(2 * w)
<1>1. SUFFICES ASSUME NEW u \in Word, u * 2^(2 * w) >= Base
               PROVE  /\ Search[w][u] \in 0..(2 * w - 1)
                      /\ u * 2^(Search[w][u]) < Base /\ Base <= 2 * (u * 2^(Search[w][u]))
  <2>1. (2 * w) \div 2 = w
    BY SMT
  <2> QED BY <2>1 DEF Leads
<1>2. W \in Nat
  BY WordAssumption, SMT
<1>3. w \in 0..W /\ w > 0 /\ W - w \in 0..W /\ w + w <= W /\ w + (W - w) <= W /\ w + (W - w) = W /\ w + w = 2 * w
  BY <1>2, SMT
<1>4. PICK p \in Nat \ {0}, r \in Nat \ {0} : p = 2^w /\ r = 2^(W - w) /\ Base = p * r /\ 2^(2 * w) = p * p
  <2>1. 2^w \in Nat \ {0} /\ 2^(w + w) = 2^w * 2^w
    BY <1>3, SumOfExponents
  <2>2. 2^(W - w) \in Nat \ {0} /\ 2^(w + (W - w)) = 2^w * 2^(W - w)
    BY <1>3, SumOfExponents
  <2> QED BY <1>3, <2>1, <2>2 DEF Base
<1>5. PICK b \in Nat : b = Base /\ b = p * r
  BY <1>4, SMT
<1>6. u \in 0..(b - 1) /\ u * (p * p) >= b
  BY <1>1, <1>4, <1>5 DEF Word
<1>7. Search[w][u] = IF u \div r = 0 THEN w + Search[w \div 2][(u * p) % b] ELSE Search[w \div 2][u]
  <2>1. ~(w = 0)
    OBVIOUS
  <2>2. Search[w] = [v \in Word |-> IF w = 0 THEN 0
                         ELSE IF v \div 2^(W - w) = 0 THEN w + Search[w \div 2][(v * 2^w) % Base]
                         ELSE Search[w \div 2][v]]
    BY SearchIs, <1>3 DEF Halving
  <2> QED BY <2>1, <2>2, <1>4, <1>5
<1>8. CASE u \div r = 0
  <2>1. u < r
    BY <1>6, <1>8, SMT
  <2>2. PICK v \in 0..(b - 1) : v = u * p /\ v = (u * p) % b
    <3>1. u * p < b /\ u * p \in Nat
      <4>1. PICK k \in Nat : r = u + 1 + k
        BY <1>6, <2>1, SMT
      <4>2. p * r = u * p + p + k * p /\ k * p >= 0 /\ k * p \in Int /\ u * p \in Nat
        BY ONLY SMT, <4>1, <1>6, k \in Nat, p \in Nat \ {0}, r \in Nat \ {0}, b \in Nat
      <4> QED BY ONLY SMT, <4>2, <1>5, p \in Nat \ {0}, b \in Nat
    <3>2. PICK v \in Nat : v = u * p /\ v < b
      BY <3>1
    <3>3. v % b = v
      BY ONLY SMT, <3>2, v \in Nat, b \in Nat
    <3> QED BY <3>2, <3>3, SMT
  <2>3. v \in Word /\ v * 2^w >= Base
    <3>1. u * (p * p) = (u * p) * p
      BY <1>6, SMT
    <3> QED BY <3>1, <2>2, <1>4, <1>5, <1>6 DEF Word
  <2>4. PICK s \in 0..(w - 1) : s = Search[w \div 2][v] /\ v * 2^s < Base /\ Base <= 2 * (v * 2^s)
    BY <2>3 DEF Leads
  <2>5. Search[w][u] = w + s /\ w + s \in 0..(2 * w - 1)
    <3>1. w + s \in 0..(2 * w - 1)
      BY SMT
    <3> QED BY <3>1, <1>7, <1>8, <2>2, <2>4
  <2>6. 2^(w + s) = 2^w * 2^s /\ 2^s \in Nat \ {0}
    <3>1. s \in 0..W /\ w + s <= W
      BY <1>2, <1>3, SMT
    <3> QED BY <3>1, <1>3, SumOfExponents
  <2>7. u * 2^(w + s) = v * 2^s
    <3>1. PICK e \in Nat \ {0} : e = 2^s
      BY <2>6
    <3>2. u * (p * e) = (u * p) * e
      BY <1>6, SMT
    <3> QED BY <3>1, <3>2, <2>2, <2>6, <1>4
  <2> QED BY <2>4, <2>5, <2>7
<1>9. CASE u \div r # 0
  <2>1. u >= r
    BY <1>6, <1>9, SMT
  <2>2. u * p >= b
    <3>1. PICK k \in Nat : u = r + k
      BY <1>6, <2>1, SMT
    <3>2. u * p = p * r + k * p /\ k * p >= 0 /\ k * p \in Int
      BY ONLY SMT, <3>1, k \in Nat, p \in Nat \ {0}, r \in Nat \ {0}
    <3> QED BY ONLY SMT, <3>2, <1>5, b \in Nat
  <2>3. PICK s \in 0..(w - 1) : s = Search[w \div 2][u] /\ u * 2^s < Base /\ Base <= 2 * (u * 2^s)
    BY <2>2, <1>4, <1>5 DEF Leads
  <2>4. s \in 0..(2 * w - 1)
    BY SMT
  <2> QED BY <2>3, <2>4, <1>7, <1>9
<1> QED BY <1>8, <1>9

\* A divisor is shifted until its highest bit is set.
LEMMA ClzIs ==
  ASSUME PowersOfTwo, NEW u \in Word, u # 0
  PROVE  /\ usize_clz(u) \in 0..(W - 1)
         /\ u * 2^(usize_clz(u)) < Base /\ Base <= 2 * (u * 2^(usize_clz(u)))
<1>1. \A w, v : w \in Nat \ {0} /\ v = 2 * w /\ v <= W /\ Leads(w) => Leads(v)
  BY LeadsTwice
<1>2. 2 = 2 * 1 /\ 4 = 2 * 2 /\ 8 = 2 * 4 /\ 16 = 2 * 8 /\ 32 = 2 * 16 /\ 64 = 2 * 32
      /\ {1, 2, 4, 8, 16, 32} \subseteq Nat \ {0}
  BY SMT
<1>3. 2 <= W /\ Leads(2)
  <2>1. 2 <= W
    BY WordAssumption, SMT
  <2> QED BY <2>1, <1>1, <1>2, LeadsOne
<1>4. W = 2 \/ (4 <= W /\ Leads(4))
  <2>1. W = 2 \/ 4 <= W
    BY WordAssumption, SMT
  <2> QED BY <2>1, <1>1, <1>2, <1>3
<1>5. W \in {2, 4} \/ (8 <= W /\ Leads(8))
  <2>1. W \in {2, 4} \/ 8 <= W
    BY WordAssumption, SMT
  <2>2. 8 <= W => W # 2
    BY SMT
  <2> QED BY <2>1, <2>2, <1>1, <1>2, <1>4
<1>6. W \in {2, 4, 8} \/ (16 <= W /\ Leads(16))
  <2>1. W \in {2, 4, 8} \/ 16 <= W
    BY WordAssumption, SMT
  <2>2. 16 <= W => W \notin {2, 4}
    BY SMT
  <2> QED BY <2>1, <2>2, <1>1, <1>2, <1>5
<1>7. W \in {2, 4, 8, 16} \/ (32 <= W /\ Leads(32))
  <2>1. W \in {2, 4, 8, 16} \/ 32 <= W
    BY WordAssumption, SMT
  <2>2. 32 <= W => W \notin {2, 4, 8}
    BY SMT
  <2> QED BY <2>1, <2>2, <1>1, <1>2, <1>6
<1>8. W \in {2, 4, 8, 16, 32} \/ (64 <= W /\ Leads(64))
  <2>1. W \in {2, 4, 8, 16, 32} \/ 64 <= W
    BY WordAssumption, SMT
  <2>2. 64 <= W => W \notin {2, 4, 8, 16}
    BY SMT
  <2> QED BY <2>1, <2>2, <1>1, <1>2, <1>7
<1>9. Leads(W)
  <2>1. 4 <= W => W # 2
    BY SMT
  <2>2. 8 <= W => W \notin {2, 4}
    BY SMT
  <2>3. 16 <= W => W \notin {2, 4, 8}
    BY SMT
  <2>4. 32 <= W => W \notin {2, 4, 8, 16}
    BY SMT
  <2>5. 64 <= W => W \notin {2, 4, 8, 16, 32}
    BY SMT
  <2> QED BY WordAssumption, <2>1, <2>2, <2>3, <2>4, <2>5, <1>3, <1>4, <1>5, <1>6, <1>7, <1>8
<1>10. u * 2^W >= Base
  <2>1. PICK b \in Nat : b = Base
    BY HalvesAre, SMT
  <2>2. u \in 0..(b - 1)
    BY <2>1 DEF Word
  <2>3. u * b >= b
    <3>1. PICK k \in Nat : u = 1 + k
      BY <2>2, SMT
    <3>2. u * b = b + k * b /\ k * b >= 0
      BY <3>1, SMT
    <3> QED BY <3>2, SMT
  <2> QED BY <2>1, <2>3 DEF Base
<1> QED BY <1>9, <1>10 DEF Leads, usize_clz

\* Quotients are what their divisor times them says.
LEMMA DigitBelow ==
  ASSUME NEW d \in Nat \ {0}, NEW x \in Int, NEW m \in Int, x * d < m * d
  PROVE  x < m
<1>1. SUFFICES ASSUME x >= m PROVE FALSE
  BY SMT
<1>2. PICK k \in Nat : x = m + k
  BY <1>1, SMT
<1>3. x * d = m * d + k * d /\ k * d >= 0
  BY <1>2, SMT
<1>4. x * d \in Int /\ m * d \in Int /\ k * d \in Int
  BY SMT
<1> QED BY <1>3, <1>4, SMT

\* One step of the estimate: quotient x and remainder y of n by the upper half
\* of the divisor, and what the code compares.
Estimate(h, d1, d0, n, low, x, y) ==
  /\ h \in Nat /\ h >= 2 /\ d1 \in Nat /\ h <= 2 * d1 /\ d1 < h /\ d0 \in 0..(h - 1)
  /\ n \in Nat /\ n < d1 * h + d0 /\ low \in 0..(h - 1)
  /\ x \in Nat /\ y \in Nat /\ n = x * d1 + y

\* The estimate of a digit exceeds it by two at most, and is lowered until it agrees.
LEMMA EstimateIs ==
  ASSUME NEW h, NEW d1, NEW d0, NEW n, NEW low, NEW x, NEW y, Estimate(h, d1, d0, n, low, x, y)
  PROVE  /\ x * d0 > y * h + low => x * (d1 * h + d0) > n * h + low
         /\ x * d0 <= y * h + low => x * (d1 * h + d0) <= n * h + low
         /\ y >= h => x < h /\ x * d0 <= y * h + low
         /\ x < h => x * d0 < h * h /\ x * d0 >= 0
<1>0. /\ h \in Nat /\ h >= 2 /\ d1 \in Nat /\ h <= 2 * d1 /\ d1 < h /\ d0 \in 0..(h - 1)
      /\ n \in Nat /\ n < d1 * h + d0 /\ low \in 0..(h - 1)
      /\ x \in Nat /\ y \in Nat /\ n = x * d1 + y
  BY DEF Estimate
<1>1. n * h = x * (d1 * h) + y * h /\ x * (d1 * h + d0) = x * (d1 * h) + x * d0
  BY ONLY SMT, <1>0
<1>2. PICK a \in Int, b \in Int, c \in Int : a = x * (d1 * h) /\ b = y * h /\ c = x * d0
  BY ONLY SMT, <1>0
<1>3. low \in Int
  BY ONLY SMT, <1>0
<1>4. /\ x * d0 > y * h + low => x * (d1 * h + d0) > n * h + low
      /\ x * d0 <= y * h + low => x * (d1 * h + d0) <= n * h + low
  BY ONLY SMT, <1>1, <1>2, <1>3
<1>5. ASSUME x < h PROVE x * d0 < h * h /\ x * d0 >= 0
  <2>1. x \in 0..(h - 1)
    BY ONLY SMT, <1>0, <1>5
  <2>2. x * d0 \in Nat /\ x * d0 + h + h <= h * h + 1
    BY ONLY ProductOfHalves, <1>0, <2>1
  <2> QED BY ONLY SMT, <2>2, <1>0
<1>6. ASSUME y >= h PROVE x < h /\ x * d0 <= y * h + low
  <2>1. x * d1 < h * d1
    <3>1. x * d1 \in Int /\ d1 * h \in Int /\ d1 * h = h * d1
      BY ONLY SMT, <1>0
    <3> QED BY ONLY SMT, <1>0, <1>6, <3>1
  <2>2. x < h
    <3>1. d1 \in Nat \ {0} /\ x \in Int /\ h \in Int
      BY ONLY SMT, <1>0
    <3> QED BY ONLY <2>1, <3>1, DigitBelow
  <2>3. x * d0 < h * h /\ x * d0 >= 0
    BY <2>2, <1>5
  <2>4. y * h >= h * h
    <3>1. PICK k \in Nat : y = h + k
      BY ONLY SMT, <1>0, <1>6
    <3>2. y * h = h * h + k * h /\ k * h >= 0 /\ k * h \in Int /\ h * h \in Int
      BY ONLY SMT, <1>0, <3>1
    <3> QED BY ONLY SMT, <3>2
  <2>5. h * h \in Int /\ y * h \in Int /\ x * d0 \in Int
    BY ONLY SMT, <1>0
  <2> QED BY ONLY SMT, <2>2, <2>3, <2>4, <2>5, <1>0
<1> QED BY <1>4, <1>5, <1>6

\* The upper half of a divisor whose highest bit is set.
LEMMA HighHalfIs ==
  ASSUME PowersOfTwo, NEW d \in Word, d >= Base \div 2
  PROVE  /\ HH(d) \in Nat \ {0} /\ LH(d) \in 0..(Half - 1) /\ d = HH(d) * Half + LH(d)
         /\ HH(d) < Half /\ Half <= 2 * HH(d)
<1>1. PICK h \in Nat : h = Half /\ h >= 2
  BY HalvesAre
<1>2. PICK g \in Nat : h = g + g /\ g >= 1
  <2>1. h = (h \div 2) + (h \div 2)
    BY <1>1, HalvesAre, SMT
  <2> QED BY <2>1, <1>1, SMT
<1>3. Base = h * h /\ Base \div 2 = g * h /\ d \in Nat /\ d < h * h
  <2>1. Base = h * h
    BY <1>1, HalvesAre
  <2>2. h * h = g * h + g * h /\ g * h \in Nat
    BY <1>2, SMT
  <2>3. (g * h + g * h) \div 2 = g * h
    <3>1. PICK m \in Nat : m = g * h
      BY <2>2
    <3>2. (m + m) \div 2 = m
      BY SMT
    <3> QED BY <3>1, <3>2
  <2>4. d \in 0..(h * h - 1)
    BY <2>1 DEF Word
  <2>5. d \in Nat /\ d < h * h
    BY <2>4, <1>1, SMT
  <2> QED BY <2>1, <2>2, <2>3, <2>5
<1>4. PICK x \in Nat, y \in 0..(h - 1) : x = d \div h /\ y = d % h /\ d = x * h + y
  <2>1. h \in Nat \ {0}
    BY <1>1, SMT
  <2> QED BY ONLY <1>3, <2>1, DivExists, Zenon
<1>5. x < h
  <2>1. x * h + y < h * h /\ y \in Nat /\ h \in Nat \ {0}
    BY <1>1, <1>3, <1>4, SMT
  <2> QED BY <2>1, QuotientBelow, Zenon
<1>6. g <= x
  <2>1. g * h < (x + 1) * h
    <3>1. g * h <= x * h + y
      BY <1>3, <1>4
    <3>2. (x + 1) * h = x * h + h /\ x * h \in Int /\ g * h \in Int
      BY SMT
    <3> QED BY <3>1, <3>2, SMT
  <2>2. g \in Int /\ x + 1 \in Int /\ h \in Nat \ {0}
    BY <1>1, SMT
  <2>3. g < x + 1
    BY <2>1, <2>2, DigitBelow
  <2> QED BY <2>3, SMT
<1> QED BY <1>1, <1>2, <1>4, <1>5, <1>6, SMT DEF HH, LH

\* A digit of a quotient, as the estimate finds it: after two corrections at
\* most.
LEMMA DigitIs ==
  ASSUME PowersOfTwo, NEW d \in Word, d >= Base \div 2, NEW n \in Nat, n < d, NEW low \in 0..(Half - 1)
  PROVE  /\ Digit(n, d, low) \in 0..(Half - 1)
         /\ Digit(n, d, low) * d <= n * Half + low /\ n * Half + low < Digit(n, d, low) * d + d
<1>1. PICK h \in Nat : h = Half /\ h >= 2 /\ Base = h * h
  BY HalvesAre
<1>2. PICK d1 \in Nat \ {0}, d0 \in 0..(h - 1) :
        d1 = HH(d) /\ d0 = LH(d) /\ d = d1 * h + d0 /\ d1 < h /\ h <= 2 * d1
  BY <1>1, HighHalfIs
<1>3. PICK q0 \in Nat, r0 \in 0..(d1 - 1) : q0 = n \div d1 /\ r0 = n % d1 /\ n = q0 * d1 + r0
  BY ONLY DivExists, n \in Nat, d1 \in Nat \ {0}, Zenon
<1> DEFINE q(k) == n \div HH(d) - k
           rem(k) == (n % HH(d)) + k * HH(d)
           TooBig(k) == q(k) >= Half \/ (q(k) * LH(d)) % Base > U(rem(k), low)
           Done(k) == (k > 0 /\ rem(k) >= Half) \/ ~TooBig(k)
           First(k) == Done(k) /\ \A j \in 0..(k - 1) : ~Done(j)
<1>4. Digit(n, d, low) = q(CHOOSE k \in 0..Half : First(k))
  BY DEF Digit
<1>5. \A k \in {0, 1, 2} : q(k) = q0 - k /\ rem(k) = r0 + k * d1 /\ n = q(k) * d1 + rem(k) /\ rem(k) \in Nat /\ q(k) \in Int
  <2>1. q0 = n \div HH(d) /\ r0 = n % HH(d) /\ HH(d) = d1
    BY <1>2, <1>3
  <2>2. \A k \in {0, 1, 2} : q(k) = q0 - k /\ rem(k) = r0 + k * d1
    BY <2>1
  <2>3. \A k \in {0, 1, 2} : (q0 - k) * d1 + (r0 + k * d1) = q0 * d1 + r0 /\ r0 + k * d1 \in Nat /\ q0 - k \in Int
    BY ONLY SMT, <1>3, q0 \in Nat, r0 \in 0..(d1 - 1), d1 \in Nat \ {0}
  <2> HIDE DEF q, rem
  <2> QED BY <2>2, <2>3, <1>3
<1>6. PICK N \in Nat : N = n * h + low
  BY <1>1, SMT
<1>7. ASSUME NEW k \in {0, 1, 2}, q(k) \in Nat
      PROVE  /\ rem(k) >= h => q(k) * d <= N
             /\ rem(k) < h => (TooBig(k) <=> q(k) * d > N)
  <2>1. Estimate(h, d1, d0, n, low, q(k), rem(k))
    <3>1. n < d1 * h + d0 /\ low \in 0..(h - 1)
      BY <1>1, <1>2
    <3> HIDE DEF q, rem
    <3> QED BY ONLY <3>1, <1>1, <1>2, <1>5, <1>7, n \in Nat, k \in {0, 1, 2}, h \in Nat, d0 \in 0..(h - 1), d1 \in Nat \ {0} DEF Estimate
  <2>2. PICK x \in Nat, y \in Nat : x = q(k) /\ y = rem(k)
    BY <1>5, <1>7
  <2>3. /\ x * d0 > y * h + low => x * d > N
        /\ x * d0 <= y * h + low => x * d <= N
        /\ y >= h => x < h /\ x * d0 <= y * h + low
        /\ x < h => x * d0 < h * h /\ x * d0 >= 0
    <3>1. Estimate(h, d1, d0, n, low, x, y)
      BY <2>1, <2>2
    <3> QED BY ONLY <3>1, EstimateIs, <1>2, <1>6, Zenon
  <2>4. TooBig(k) <=> x >= h \/ (x * d0) % (h * h) > U(y, low)
    <3> HIDE DEF q, rem
    <3> QED BY <1>1, <1>2, <2>2
  <2>5. ASSUME y < h PROVE U(y, low) = y * h + low
    <3>1. U(y, low) = (y % h) * h + (low % h)
      BY <1>1 DEF U, LH
    <3>2. y % h = y /\ low % h = low
      BY ONLY SMT, <1>1, <2>5, low \in 0..(Half - 1), y \in Nat, h \in Nat
    <3> QED BY <3>1, <3>2
  <2>6. ASSUME x < h PROVE (x * d0) % (h * h) = x * d0
    <3>1. PICK m \in Nat, b \in Nat : m = x * d0 /\ b = h * h /\ m < b
      <4>1. x * d0 \in Nat /\ h * h \in Nat
        BY ONLY SMT, x \in Nat, d0 \in 0..(h - 1), h \in Nat
      <4> QED BY <4>1, <2>3, <2>6
    <3>2. m % b = m
      BY ONLY SMT, <3>1, m \in Nat, b \in Nat
    <3> QED BY <3>1, <3>2
  <2>7. CASE y >= h
    <3>1. x * d <= N
      BY <2>3, <2>7
    <3>2. ~(y < h)
      BY ONLY SMT, <2>7, y \in Nat, h \in Nat
    <3> QED BY <3>1, <3>2, <2>2
  <2>8. CASE y < h /\ x < h
    <3>1. TooBig(k) <=> x * d0 > y * h + low
      <4>1. ~(x >= h)
        BY ONLY SMT, <2>8, x \in Nat, h \in Nat
      <4>2. (x * d0) % (h * h) = x * d0 /\ U(y, low) = y * h + low
        BY <2>5, <2>6, <2>8
      <4> HIDE DEF TooBig
      <4> QED BY ONLY <4>1, <4>2, <2>4
    <3>2. x * d \in Int /\ N \in Int /\ x * d0 \in Int /\ y * h + low \in Int
      <4>1. d \in Int
        BY <1>1, SMT DEF Word
      <4> QED BY ONLY SMT, <4>1, x \in Nat, y \in Nat, N \in Nat, d0 \in 0..(h - 1), h \in Nat, low \in 0..(Half - 1), <1>1
    <3>3. ~(y >= h)
      BY ONLY SMT, <2>8, y \in Nat, h \in Nat
    <3>4. x * d0 > y * h + low <=> x * d > N
      BY ONLY SMT, <2>3, <3>2
    <3> HIDE DEF TooBig
    <3> QED BY <3>1, <3>3, <3>4, <2>2
  <2>9. CASE y < h /\ x >= h
    <3>1. TooBig(k)
      BY <2>4, <2>9
    <3>2. x * d > N
      <4>1. n + 1 <= d /\ d \in Nat
        BY <1>1, SMT DEF Word
      <4>2. PICK i \in Nat, j \in Nat : x = h + i /\ d = n + 1 + j
        BY ONLY SMT, <4>1, <2>9, x \in Nat, h \in Nat, n \in Nat
      <4>3. x * d = h * d + i * d /\ h * d = n * h + h + j * h /\ i * d >= 0 /\ j * h >= 0
        BY ONLY SMT, <4>1, <4>2, i \in Nat, j \in Nat, x \in Nat, h \in Nat, n \in Nat
      <4>4. i * d \in Int /\ j * h \in Int /\ n * h \in Int
        BY ONLY SMT, <4>1, i \in Nat, j \in Nat, h \in Nat, n \in Nat
      <4> QED BY ONLY SMT, <4>3, <4>4, <1>1, <1>6, low \in 0..(Half - 1)
    <3>3. ~(y >= h)
      BY ONLY SMT, <2>9, y \in Nat, h \in Nat
    <3> HIDE DEF TooBig
    <3> QED BY <3>1, <3>2, <3>3, <2>2
  <2>10. y >= h \/ (y < h /\ x < h) \/ (y < h /\ x >= h)
    BY ONLY SMT, x \in Nat, y \in Nat, h \in Nat
  <2> QED BY <2>7, <2>8, <2>9, <2>10
<1>8. ~(rem(0) >= Half) /\ rem(0) < h /\ rem(2) >= Half /\ rem(2) >= h /\ (rem(1) >= Half <=> ~(rem(1) < h))
  <2>1. rem(0) = r0 + 0 * d1 /\ rem(2) = r0 + 2 * d1 /\ rem(1) \in Nat
    BY <1>5
  <2>2. r0 + 0 * d1 < h /\ r0 + 2 * d1 >= h
    BY ONLY SMT, <1>2, r0 \in 0..(d1 - 1), d1 \in Nat \ {0}, h \in Nat
  <2>3. r0 + 0 * d1 \in Nat
    BY ONLY SMT, r0 \in 0..(d1 - 1), d1 \in Nat \ {0}
  <2>4. ~(r0 + 0 * d1 >= h)
    BY ONLY SMT, <2>2, <2>3, h \in Nat
  <2>5. PICK y \in Nat : y = rem(1)
    BY <2>1
  <2>6. y >= h <=> ~(y < h)
    BY ONLY SMT, y \in Nat, h \in Nat
  <2> HIDE DEF rem
  <2> QED BY <2>1, <2>2, <2>4, <2>5, <2>6, <1>1
<1>9. d \in Nat \ {0}
  BY <1>1, <1>2, SMT DEF Word
<1>10. N < q0 * d + d
  <2>1. n + 1 <= q0 * d1 + d1
    BY ONLY SMT, <1>3, r0 \in 0..(d1 - 1), d1 \in Nat \ {0}, q0 \in Nat
  <2>2. PICK i \in Nat : q0 * d1 + d1 = n + 1 + i
    <3>1. q0 * d1 + d1 \in Nat
      BY ONLY SMT, d1 \in Nat \ {0}, q0 \in Nat
    <3> QED BY ONLY SMT, <2>1, <3>1, n \in Nat
  <2>3. (q0 * d1 + d1) * h = n * h + h + i * h /\ i * h >= 0 /\ i * h \in Int /\ n * h \in Int
    BY ONLY SMT, <2>2, i \in Nat, n \in Nat, h \in Nat
  <2>4. q0 * d + d = (q0 * d1 + d1) * h + q0 * d0 + d0 /\ q0 * d0 >= 0 /\ q0 * d0 \in Int
    BY ONLY SMT, <1>2, q0 \in Nat, d1 \in Nat \ {0}, d0 \in 0..(h - 1), h \in Nat
  <2> QED BY ONLY SMT, <2>3, <2>4, <1>1, <1>6, low \in 0..(Half - 1), d0 \in 0..(h - 1), h \in Nat
<1>11. /\ q(0) = q0 /\ q(1) = q0 - 1 /\ q(2) = q0 - 2
       /\ 0 \in {0, 1, 2} /\ 1 \in {0, 1, 2} /\ 2 \in {0, 1, 2}
  <2>1. q(0) = q0 - 0 /\ q(1) = q0 - 1 /\ q(2) = q0 - 2
    BY <1>5
  <2>2. q0 - 0 = q0
    BY SMT
  <2> QED BY <2>1, <2>2
<1>12. Done(2) /\ (Done(0) <=> ~TooBig(0)) /\ (Done(1) <=> rem(1) >= Half \/ ~TooBig(1))
  <2>1. 2 > 0 /\ 1 > 0 /\ ~(0 > 0)
    BY SMT
  <2> HIDE DEF TooBig, rem
  <2> QED BY <2>1, <1>8
\* The digit of a correction that was made because the digit before was too large.
<1>13. ASSUME NEW k \in {0, 1}, q(k) \in Nat, q(k) * d > N
       PROVE  q(k + 1) \in Nat /\ N < q(k + 1) * d + d
  <2>1. k + 1 \in {0, 1, 2} /\ k \in {0, 1, 2}
    BY SMT
  <2>2. q(k + 1) = q0 - (k + 1) /\ q(k) = q0 - k
    BY <1>5, <2>1
  <2>3. PICK x \in Nat : x = q(k)
    BY <1>13
  <2>4. x # 0
    <3>1. 0 * d = 0
      BY <1>9, SMT
    <3>2. ~(0 > N)
      BY SMT
    <3> HIDE DEF q
    <3> QED BY <3>1, <3>2, <2>3, <1>13
  <2>5. q(k + 1) = x - 1
    <3>1. x = q0 - k /\ q(k + 1) = q0 - (k + 1)
      BY <2>2, <2>3
    <3> HIDE DEF q
    <3> QED BY ONLY SMT, <3>1, k \in {0, 1}, q0 \in Nat
  <2>6. (x - 1) * d + d = x * d /\ x - 1 \in Nat
    BY <2>4, <1>9, SMT
  <2>7. x * d > N
    BY <2>3, <1>13
  <2>8. N < x * d
    <3>1. x * d \in Int
      BY <1>9, SMT
    <3> QED BY ONLY SMT, <2>7, <3>1, N \in Nat
  <2> HIDE DEF q
  <2> QED BY <2>5, <2>6, <2>8
<1>14. \E k \in {0, 1, 2} : First(k) /\ q(k) \in Nat /\ q(k) * d <= N /\ N < q(k) * d + d
  <2>1. q(0) \in Nat
    BY <1>11
  <2>2. CASE Done(0)
    <3>1. q(0) * d <= N
      <4>1. ~(q(0) * d > N)
        BY <1>7, <1>8, <1>11, <1>12, <2>1, <2>2
      <4>2. q(0) * d \in Int
        BY <1>9, <2>1, SMT
      <4> HIDE DEF q
      <4> QED BY ONLY SMT, <4>1, <4>2, N \in Nat
    <3>2. N < q(0) * d + d
      BY <1>10, <1>11
    <3>3. First(0)
      <4>1. 0..(0 - 1) = {}
        BY SMT
      <4> HIDE DEF Done
      <4> QED BY <4>1, <2>2
    <3> HIDE DEF First, q
    <3> QED BY <2>1, <3>1, <3>2, <3>3, <1>11
  <2>3. CASE ~Done(0)
    <3>1. q(0) * d > N
      BY <1>7, <1>8, <1>11, <1>12, <2>1, <2>3
    <3>2. q(1) \in Nat /\ N < q(1) * d + d
      <4>1. q(0 + 1) \in Nat /\ N < q(0 + 1) * d + d
        BY <1>13, <3>1, <2>1
      <4>2. 0 + 1 = 1
        BY SMT
      <4> HIDE DEF q
      <4> QED BY <4>1, <4>2
    <3>3. CASE Done(1)
      <4>1. q(1) * d <= N
        <5>1. CASE rem(1) >= Half
          <6>1. rem(1) >= h
            BY <5>1, <1>1
          <6> HIDE DEF q, rem, TooBig
          <6> QED BY <6>1, <1>7, <1>11, <3>2
        <5>2. CASE ~(rem(1) >= Half)
          <6>1. ~(q(1) * d > N)
            <7> HIDE DEF q, rem, TooBig, Done
            <7> QED BY <5>2, <1>7, <1>8, <1>11, <1>12, <3>2, <3>3
          <6>2. q(1) * d \in Int
            BY <1>9, <3>2, SMT
          <6> HIDE DEF q
          <6> QED BY ONLY SMT, <6>1, <6>2, N \in Nat
        <5> QED BY <5>1, <5>2
      <4>2. First(1)
        <5>1. 0..(1 - 1) = {0}
          BY SMT
        <5> HIDE DEF Done
        <5> QED BY <5>1, <2>3, <3>3
      <4> HIDE DEF First, q
      <4> QED BY <3>2, <4>1, <4>2, <1>11
    <3>4. CASE ~Done(1)
      <4>1. q(1) * d > N
        <5> HIDE DEF q, rem, TooBig, Done
        <5> QED BY <1>7, <1>8, <1>11, <1>12, <3>2, <3>4
      <4>2. q(2) \in Nat /\ N < q(2) * d + d
        <5>1. q(1 + 1) \in Nat /\ N < q(1 + 1) * d + d
          BY <1>13, <4>1, <3>2
        <5>2. 1 + 1 = 2
          BY SMT
        <5> HIDE DEF q
        <5> QED BY <5>1, <5>2
      <4>3. q(2) * d <= N
        <5> HIDE DEF q, rem, TooBig
        <5> QED BY <1>7, <1>8, <1>11, <4>2
      <4>4. First(2)
        <5>1. 0..(2 - 1) = {0, 1}
          BY SMT
        <5> HIDE DEF Done
        <5> QED BY <5>1, <2>3, <3>4, <1>12
      <4> HIDE DEF First, q
      <4> QED BY <4>2, <4>3, <4>4, <1>11
    <3> QED BY <3>3, <3>4
  <2> QED BY <2>2, <2>3
<1>15. PICK k \in {0, 1, 2} : First(k) /\ q(k) \in Nat /\ q(k) * d <= N /\ N < q(k) * d + d
  BY <1>14
<1>16. (CHOOSE j \in 0..Half : First(j)) = k
  <2>1. k \in 0..Half /\ Half \in Nat
    BY <1>1, SMT
  <2>2. ASSUME NEW j \in 0..Half, First(j) PROVE j = k
    <3>1. ~(j < k)
      <4>1. j < k => j \in 0..(k - 1)
        BY <2>1, SMT
      <4> HIDE DEF Done
      <4> QED BY <4>1, <2>2, <1>15
    <3>2. ~(k < j)
      <4>1. k < j => k \in 0..(j - 1)
        BY <2>1, SMT
      <4> HIDE DEF Done
      <4> QED BY <4>1, <2>2, <1>15
    <3> QED BY ONLY SMT, <3>1, <3>2, <2>1, j \in 0..Half
  <2> HIDE DEF First
  <2> QED BY <2>1, <2>2, <1>15, Zenon
<1>17. Digit(n, d, low) = q(k)
  BY <1>4, <1>16
<1>18. q(k) < h
  <2>1. N < h * d
    <3>1. PICK i \in Nat : d = n + 1 + i
      BY <1>9, SMT
    <3>2. h * d = n * h + h + i * h /\ i * h >= 0 /\ i * h \in Int /\ n * h \in Int
      BY ONLY SMT, <3>1, i \in Nat, n \in Nat, h \in Nat
    <3> QED BY ONLY SMT, <3>2, <1>1, <1>6, low \in 0..(Half - 1), h \in Nat
  <2>2. q(k) * d < h * d
    <3>1. PICK x \in Nat : x = q(k)
      BY <1>15
    <3>2. x * d \in Int /\ h * d \in Int
      BY <1>9, SMT
    <3>3. x * d <= N
      BY <1>15, <3>1
    <3>4. x * d < h * d
      BY ONLY SMT, <2>1, <3>2, <3>3, N \in Nat
    <3> QED BY <3>1, <3>4
  <2>3. q(k) \in Int /\ h \in Int
    BY <1>15, SMT
  <2> HIDE DEF q
  <2> QED BY ONLY <2>2, <2>3, <1>9, DigitBelow, Zenon
<1> HIDE DEF q, First
<1>19. q(k) \in 0..(Half - 1)
  BY <1>1, <1>15, <1>18, SMT
<1> QED BY <1>1, <1>6, <1>15, <1>17, <1>19

\* A multiple of the modulus makes no difference.
LEMMA RestOfSum ==
  ASSUME NEW b \in Nat \ {0}, NEW m \in Int, NEW x \in 0..(b - 1)
  PROVE  (m * b + x) % b = x
<1>1. PICK y \in Int : y = m * b + x
  BY SMT
<1>2. PICK q \in Int, r \in 0..(b - 1) : q = y \div b /\ r = y % b /\ y = q * b + r
  BY SMT
<1>3. q = m
  <2>1. q * b < (m + 1) * b /\ m * b < (q + 1) * b
    <3>1. (m + 1) * b = m * b + b /\ (q + 1) * b = q * b + b /\ m * b \in Int /\ q * b \in Int
      BY SMT
    <3> QED BY <1>1, <1>2, <3>1, SMT
  <2>2. q < m + 1 /\ m < q + 1
    BY <2>1, DigitBelow, SMT
  <2> QED BY <2>2, SMT
<1>4. x = r
  BY <1>1, <1>2, <1>3, SMT
<1> QED BY <1>1, <1>2, <1>4

\* The divisor and the dividend are shifted: the dividend is then below a
\* multiple of the divisor that has one word.
Shift(b, p, r, nd, hi, lo, d, n32, n10) ==
  /\ p \in Nat \ {0} /\ r \in Nat \ {0} /\ b = p * r /\ nd \in Nat /\ hi \in Nat /\ hi < nd
  /\ lo \in 0..(b - 1) /\ nd * p < b
  /\ d = (nd * p) % b /\ n32 = ((hi * p) % b) + lo \div r /\ n10 = (lo * p) % b

\* A dividend and a divisor, normalised by the leading zeros of the divisor.
LEMMA ShiftIs ==
  ASSUME NEW b, NEW p, NEW r, NEW nd, NEW hi, NEW lo, NEW d, NEW n32, NEW n10,
         Shift(b, p, r, nd, hi, lo, d, n32, n10)
  PROVE  /\ d = nd * p /\ n32 \in Nat /\ n32 < d /\ n10 \in 0..(b - 1)
         /\ n32 * b + n10 = p * (hi * b + lo)
<1>0. /\ p \in Nat \ {0} /\ r \in Nat \ {0} /\ b = p * r /\ nd \in Nat /\ hi \in Nat /\ hi < nd
      /\ lo \in 0..(b - 1) /\ nd * p < b
      /\ d = (nd * p) % b /\ n32 = ((hi * p) % b) + lo \div r /\ n10 = (lo * p) % b
  BY DEF Shift
<1>1. b \in Nat \ {0} /\ lo \in Nat /\ lo < p * r
  <2>1. p * r \in Nat \ {0}
    BY ONLY SMT, <1>0
  <2> QED BY ONLY SMT, <1>0, <2>1
<1>2. d = nd * p
  <2>1. PICK x \in Nat : x = nd * p /\ x < b
    BY ONLY SMT, <1>0
  <2>2. x % b = x
    BY ONLY SMT, <2>1, <1>1, x \in Nat
  <2> QED BY <1>0, <2>1, <2>2
<1>3. PICK a \in Nat, c \in 0..(r - 1) : a = lo \div r /\ c = lo % r /\ lo = a * r + c
  BY <1>0, <1>1, DivExists
<1>4. a < p
  <2>1. a * r + c < p * r /\ c \in Nat
    BY ONLY SMT, <1>1, <1>3, <1>0, c \in 0..(r - 1)
  <2> QED BY ONLY <2>1, <1>0, a \in Nat, QuotientBelow
<1>5. PICK k \in Nat : nd = hi + 1 + k
  BY ONLY SMT, <1>0
<1>6. nd * p = hi * p + p + k * p /\ k * p \in Nat /\ hi * p \in Nat
  BY ONLY SMT, <1>0, <1>5, k \in Nat
<1>7. (hi * p) % b = hi * p
  <2>1. PICK x \in Nat : x = hi * p /\ x < b
    BY ONLY SMT, <1>0, <1>6, <1>1
  <2>2. x % b = x
    BY ONLY SMT, <2>1, <1>1, x \in Nat
  <2> QED BY <2>1, <2>2
<1>8. n32 = hi * p + a
  BY <1>0, <1>3, <1>7
<1>9. n32 \in Nat /\ n32 < d
  BY ONLY SMT, <1>0, <1>2, <1>4, <1>6, <1>8, a \in Nat
<1>10. PICK x \in 0..(b - 1) : x = c * p
  <2>1. PICK j \in Nat : r = c + 1 + j
    BY ONLY SMT, <1>0, c \in 0..(r - 1)
  <2>2. p * r = c * p + p + j * p /\ j * p \in Nat /\ c * p \in Nat
    BY ONLY SMT, <1>0, <2>1, j \in Nat, c \in 0..(r - 1)
  <2> QED BY ONLY SMT, <2>2, <1>0
<1>11. lo * p = a * b + x
  BY ONLY SMT, <1>0, <1>3, <1>10, a \in Nat, c \in 0..(r - 1)
<1>12. n10 = x
  <2>1. (a * b + x) % b = x
    <3>1. a \in Int
      BY SMT
    <3> QED BY <1>1, <3>1, RestOfSum
  <2> QED BY <2>1, <1>0, <1>11
<1>13. n32 * b + n10 = p * (hi * b + lo)
  <2>1. (hi * p + a) * b + x = (hi * p) * b + (a * b + x)
    BY ONLY SMT, <1>0, <1>1, a \in Nat, x \in 0..(b - 1)
  <2>2. p * (hi * b + lo) = (hi * p) * b + lo * p
    BY ONLY SMT, <1>0, <1>1
  <2> QED BY <2>1, <2>2, <1>8, <1>11, <1>12
<1> QED BY <1>2, <1>9, <1>12, <1>13

\* One digit more: what is left is what the code computes with words.
LEMMA RemainderIs ==
  ASSUME NEW h \in Nat, h >= 2, NEW b, b = h * h, NEW n \in Nat, NEW low \in 0..(h - 1), NEW d \in Nat, d < b,
         NEW q \in Nat, q * d <= n * h + low, n * h + low < q * d + d
  PROVE  (((n % h) * h + (low % h)) - q * d) % b = (n * h + low) - q * d /\ (n * h + low) - q * d \in 0..(d - 1)
<1>1. PICK x \in 0..(d - 1) : x = (n * h + low) - q * d
  <2>1. n * h + low \in Int /\ q * d \in Int
    BY SMT
  <2> QED BY <2>1, SMT
<1>2. b \in Nat \ {0} /\ x \in 0..(b - 1)
  <2>1. h * h \in Nat \ {0}
    BY SMT
  <2> QED BY <2>1, SMT
<1>3. PICK a \in Nat, c \in 0..(h - 1) : c = n % h /\ n = a * h + c
  <2>1. h \in Nat \ {0}
    BY SMT
  <2> QED BY <2>1, DivExists
<1>4. low % h = low
  BY SMT
<1>5. ((n % h) * h + (low % h)) - q * d = (c * h + low) - q * d
  BY <1>3, <1>4
<1>6. (c * h + low) - q * d = (-a) * b + x
  <2>1. n * h = a * (h * h) + c * h /\ (-a) * (h * h) = -(a * (h * h))
    BY <1>3, SMT
  <2>2. a * (h * h) \in Int /\ c * h \in Int /\ q * d \in Int /\ n * h \in Int
    BY SMT
  <2> QED BY <1>1, <2>1, <2>2, SMT
<1>7. ((-a) * b + x) % b = x
  <2>1. -a \in Int
    BY SMT
  <2> QED BY <1>2, <2>1, RestOfSum
<1> QED BY <1>1, <1>5, <1>6, <1>7

\* Quotient and remainder of the magnitudes, as the code computes them.
LongDivision(hi, lo, nd) ==
  LET s   == usize_clz(nd)
      d   == (nd * 2^s) % Base
      n32 == ((hi * 2^s) % Base) + lo \div 2^(W - s)
      n10 == (lo * 2^s) % Base
      q1  == Digit(n32, d, HH(n10))
      n21 == (U(n32, HH(n10)) - q1 * d) % Base
      q0  == Digit(n21, d, LH(n10))
  IN  [q |-> U(q1, q0), r |-> ((U(n21, LH(n10)) - q0 * d) % Base) \div 2^s]

\* A digit and what it leaves.
LEMMA DigitAndRest ==
  ASSUME PowersOfTwo, NEW d \in Word, d >= Base \div 2, NEW n \in Nat, n < d, NEW low \in 0..(Half - 1)
  PROVE  /\ Digit(n, d, low) \in 0..(Half - 1)
         /\ (U(n, low) - Digit(n, d, low) * d) % Base \in 0..(d - 1)
         /\ n * Half + low = Digit(n, d, low) * d + ((U(n, low) - Digit(n, d, low) * d) % Base)
<1>1. PICK h \in Nat : h = Half /\ h >= 2 /\ Base = h * h
  BY HalvesAre
<1>2. PICK q : q = Digit(n, d, low)
  OBVIOUS
<1>3. q \in 0..(h - 1) /\ q * d <= n * h + low /\ n * h + low < q * d + d
  BY <1>1, <1>2, DigitIs
<1>4. d \in Nat /\ d < h * h
  <2>1. d \in 0..(h * h - 1) /\ h * h \in Int
    BY <1>1, SMT DEF Word
  <2> QED BY <2>1, SMT
<1>5. U(n, low) = (n % h) * h + (low % h)
  BY <1>1 DEF U, LH
<1>6. PICK x : x = (((n % h) * h + (low % h)) - q * d) % (h * h)
  OBVIOUS
<1>7. x = (n * h + low) - q * d /\ x \in 0..(d - 1)
  <2>1. q \in Nat /\ low \in 0..(h - 1)
    BY <1>1, <1>3, SMT
  <2>2. /\ (((n % h) * h + (low % h)) - q * d) % (h * h) = (n * h + low) - q * d
        /\ (n * h + low) - q * d \in 0..(d - 1)
    <3>1. q \in Nat /\ q * d <= n * h + low /\ n * h + low < q * d + d /\ h \in Nat /\ h >= 2
      BY ONLY <1>1, <1>3, <2>1
    <3>2. PICK hh : hh = h * h
      OBVIOUS
    <3>3. d < hh /\ d \in Nat
      BY ONLY <1>4, <3>2
    <3> QED BY ONLY <3>1, <3>2, <3>3, <2>1, n \in Nat, RemainderIs, Zenon
  <2> QED BY <2>2, <1>6
<1>8. n * h + low = q * d + x
  <2>1. low \in Nat
    BY ONLY SMT, <1>1, low \in 0..(Half - 1)
  <2>2. PICK y \in Nat : y = q * d
    BY ONLY SMT, <1>3, <1>1, <1>4
  <2>3. PICK z \in Nat : z = n * h + low
    BY ONLY SMT, <1>1, <2>1, n \in Nat
  <2>4. x = z - y
    BY ONLY <1>7, <2>2, <2>3
  <2>5. z = y + x
    BY ONLY SMT, <2>4, y \in Nat, z \in Nat
  <2> QED BY ONLY <2>2, <2>3, <2>5
<1>9. (U(n, low) - Digit(n, d, low) * d) % Base = x
  BY ONLY <1>1, <1>2, <1>5, <1>6
<1>10. q \in 0..(Half - 1)
  BY ONLY <1>1, <1>3
<1>11. n * Half + low = q * d + x
  BY ONLY <1>1, <1>8
<1> QED BY ONLY <1>2, <1>7, <1>9, <1>10, <1>11

\* The two digits of e4__double_ndiv are the quotient, and what is left the remainder.
LEMMA LongDivisionIs ==
  ASSUME PowersOfTwo, NEW hi \in Word, NEW lo \in Word, NEW nd \in Word, hi < nd
  PROVE  /\ LongDivision(hi, lo, nd).q \in Word
         /\ LongDivision(hi, lo, nd).r \in 0..(nd - 1)
         /\ hi * Base + lo = LongDivision(hi, lo, nd).q * nd + LongDivision(hi, lo, nd).r
<1>1. PICK h \in Nat : h = Half /\ h >= 2 /\ Base = h * h
  BY HalvesAre
<1>2. PICK b \in Nat : b = Base /\ b = h * h /\ b >= 4 /\ Base \div 2 = b \div 2 /\ b = 2 * (b \div 2)
  <2>1. PICK m \in Nat : Base = m + m /\ m >= 2
    BY BaseIs
  <2>2. (m + m) \div 2 = m
    BY SMT
  <2> QED BY <2>1, <2>2, <1>1, SMT
<1>3. Word = 0..(b - 1)
  BY <1>2 DEF Word
<1>4. hi \in Nat /\ lo \in 0..(b - 1) /\ nd \in Nat /\ nd # 0 /\ hi < nd
  BY <1>3, SMT
<1>5. PICK s \in 0..(W - 1) : s = usize_clz(nd) /\ nd * 2^s < b /\ b <= 2 * (nd * 2^s)
  BY <1>2, <1>4, ClzIs
<1>6. PICK p \in Nat \ {0}, r \in Nat \ {0} : p = 2^s /\ r = 2^(W - s) /\ b = p * r
  <2>1. W \in Nat
    BY WordAssumption, SMT
  <2>2. s \in 0..W /\ W - s \in 0..W /\ s + (W - s) <= W /\ s + (W - s) = W
    BY <2>1, SMT
  <2>3. 2^s \in Nat \ {0} /\ 2^(W - s) \in Nat \ {0} /\ 2^(s + (W - s)) = 2^s * 2^(W - s)
    BY <2>2, SumOfExponents
  <2> QED BY <2>2, <2>3, <1>2 DEF Base
<1>7. PICK d : d = (nd * p) % b
  OBVIOUS
<1>8. PICK n32 : n32 = ((hi * p) % b) + lo \div r
  OBVIOUS
<1>9. PICK n10 : n10 = (lo * p) % b
  OBVIOUS
<1>10. d = nd * p /\ n32 \in Nat /\ n32 < d /\ n10 \in 0..(b - 1) /\ n32 * b + n10 = p * (hi * b + lo)
  <2>1. Shift(b, p, r, nd, hi, lo, d, n32, n10)
    BY <1>4, <1>5, <1>6, <1>7, <1>8, <1>9 DEF Shift
  <2> QED BY <2>1, ShiftIs
<1>11. d \in Nat /\ d < b /\ d \in Word /\ d >= Base \div 2
  <2>1. d \in Nat /\ d < b
    BY <1>4, <1>5, <1>6, <1>10, SMT
  <2>2. b <= 2 * d
    BY <1>5, <1>6, <1>10
  <2> QED BY <2>1, <2>2, <1>2, <1>3, SMT
<1>12. PICK l1 \in Nat, l0 \in 0..(h - 1) : l1 = n10 \div h /\ l0 = n10 % h /\ n10 = l1 * h + l0
  <2>1. n10 \in Nat /\ h \in Nat \ {0}
    BY <1>1, <1>2, <1>10, SMT
  <2> QED BY <2>1, DivExists
<1>13. l1 \in 0..(Half - 1) /\ l0 \in 0..(Half - 1) /\ HH(n10) = l1 /\ LH(n10) = l0
  <2>1. l1 * h + l0 < h * h /\ l0 \in Nat /\ h \in Nat \ {0}
    BY <1>1, <1>2, <1>10, <1>12, SMT
  <2>2. l1 < h
    BY <2>1, QuotientBelow
  <2> QED BY <2>2, <1>1, <1>12, SMT DEF HH, LH
<1>14. PICK q1 : q1 = Digit(n32, d, l1)
  OBVIOUS
<1>15. PICK n21 : n21 = (U(n32, l1) - q1 * d) % Base
  OBVIOUS
<1>16. q1 \in 0..(h - 1) /\ n21 \in 0..(d - 1) /\ n32 * h + l1 = q1 * d + n21
  <2>1. h = Half /\ n32 \in Nat /\ n32 < d
    BY ONLY <1>1, <1>10
  <2>2. /\ Digit(n32, d, l1) \in 0..(Half - 1)
        /\ (U(n32, l1) - Digit(n32, d, l1) * d) % Base \in 0..(d - 1)
        /\ n32 * Half + l1 = Digit(n32, d, l1) * d + ((U(n32, l1) - Digit(n32, d, l1) * d) % Base)
    BY ONLY PowersOfTwo, <2>1, <1>11, <1>13, DigitAndRest, ZenonT(40)
  <2> QED BY ONLY <2>1, <2>2, <1>14, <1>15
<1>17. PICK q0 : q0 = Digit(n21, d, l0)
  OBVIOUS
<1>18. PICK n0 : n0 = (U(n21, l0) - q0 * d) % Base
  OBVIOUS
<1>19. q0 \in 0..(h - 1) /\ n0 \in 0..(d - 1) /\ n21 * h + l0 = q0 * d + n0
  <2>1. n21 \in Nat /\ n21 < d
    <3>1. d \in Nat /\ n21 \in 0..(d - 1)
      BY ONLY <1>11, <1>16
    <3> QED BY ONLY SMT, <3>1
  <2>2. /\ Digit(n21, d, l0) \in 0..(Half - 1)
        /\ (U(n21, l0) - Digit(n21, d, l0) * d) % Base \in 0..(d - 1)
        /\ n21 * Half + l0 = Digit(n21, d, l0) * d + ((U(n21, l0) - Digit(n21, d, l0) * d) % Base)
    BY ONLY PowersOfTwo, <2>1, <1>11, <1>13, DigitAndRest, Zenon
  <2>3. h = Half
    BY ONLY <1>1
  <2> QED BY ONLY <2>2, <2>3, <1>17, <1>18
<1>20. LongDivision(hi, lo, nd) = [q |-> U(q1, q0), r |-> n0 \div p]
  <2>1. d = (nd * 2^usize_clz(nd)) % Base
    BY ONLY <1>2, <1>5, <1>6, <1>7
  <2>2. n32 = ((hi * 2^usize_clz(nd)) % Base) + lo \div 2^(W - usize_clz(nd))
    BY ONLY <1>2, <1>5, <1>6, <1>8
  <2>3. n10 = (lo * 2^usize_clz(nd)) % Base
    BY ONLY <1>2, <1>5, <1>6, <1>9
  <2>4. q1 = Digit(n32, d, HH(n10)) /\ n21 = (U(n32, HH(n10)) - q1 * d) % Base
    BY ONLY <1>13, <1>14, <1>15
  <2>5. q0 = Digit(n21, d, LH(n10)) /\ n0 = (U(n21, LH(n10)) - q0 * d) % Base
    BY ONLY <1>13, <1>17, <1>18
  <2>6. LongDivision(hi, lo, nd) = [q |-> U(q1, q0), r |-> n0 \div (2^usize_clz(nd))]
    BY ONLY <2>1, <2>2, <2>3, <2>4, <2>5, Zenon DEF LongDivision
  <2> QED BY ONLY <2>6, <1>5, <1>6
<1>21. U(q1, q0) = q1 * h + q0
  <2>1. q1 % h = q1 /\ q0 % h = q0
    BY <1>1, <1>16, <1>19, SMT
  <2> QED BY <2>1, <1>1 DEF U, LH
<1>22. PICK q \in Nat : q = q1 * h + q0 /\ q < b
  <2>1. PICK k \in Nat : h = q1 + 1 + k
    BY <1>16, SMT
  <2>2. h * h = q1 * h + h + k * h /\ k * h \in Nat /\ q1 * h \in Nat
    BY <1>16, <2>1, SMT
  <2>3. PICK y \in Nat : y = q1 * h
    BY ONLY <2>2
  <2>4. PICK z \in Nat : z = k * h
    BY ONLY <2>2
  <2>5. b = y + h + z
    BY ONLY <1>2, <2>2, <2>3, <2>4
  <2>6. q0 \in Nat /\ q0 < h
    <3>1. q0 \in 0..(h - 1)
      BY ONLY <1>19
    <3> QED BY ONLY SMT, <3>1, h \in Nat
  <2>7. y + q0 \in Nat /\ y + q0 < b
    BY ONLY SMT, <2>5, <2>6, y \in Nat, z \in Nat, h \in Nat
  <2> QED BY ONLY <2>3, <2>7
<1>23. p * (hi * b + lo) = q * d + n0
  <2>1. n32 * b + n10 = (n32 * h + l1) * h + l0
    <3>1. n32 * (h * h) = (n32 * h) * h /\ (n32 * h + l1) * h = (n32 * h) * h + l1 * h /\ (n32 * h) * h \in Nat
          /\ l1 * h \in Nat
      BY ONLY SMT, <1>10, l1 \in Nat, h \in Nat
    <3>2. l0 \in Nat
      BY ONLY SMT, l0 \in 0..(h - 1), h \in Nat
    <3>3. PICK y \in Nat, z \in Nat : y = (n32 * h) * h /\ z = l1 * h
      BY ONLY <3>1
    <3>4. y + (z + l0) = (y + z) + l0
      BY ONLY SMT, <3>2, y \in Nat, z \in Nat
    <3> QED BY ONLY <1>2, <1>12, <3>1, <3>3, <3>4
  <2>2. (q1 * d + n21) * h + l0 = (q1 * h) * d + (n21 * h + l0)
    BY ONLY SMT, <1>11, <1>16, h \in Nat, l0 \in 0..(h - 1)
  <2>3. (q1 * h) * d + (q0 * d + n0) = (q1 * h + q0) * d + n0
    BY ONLY SMT, <1>11, <1>16, <1>19, h \in Nat
  <2> QED BY <2>1, <2>2, <2>3, <1>10, <1>16, <1>19, <1>22
<1>24. n0 \div p = hi * b + lo - q * nd /\ hi * b + lo - q * nd \in 0..(nd - 1)
  <2>1. PICK x \in Int : x = hi * b + lo - q * nd
    BY <1>4, SMT
  <2>2. n0 = x * p
    <3>1. p * (hi * b + lo) = p * x + q * (nd * p)
      BY ONLY SMT, <2>1, <1>4, b \in Nat, p \in Nat \ {0}, q \in Nat, x \in Int
    <3>2. q * (nd * p) \in Int /\ p * x = x * p /\ p * x \in Int
      BY ONLY SMT, <1>4, p \in Nat \ {0}, q \in Nat, x \in Int
    <3>3. p * x + q * (nd * p) = q * (nd * p) + n0
      BY <3>1, <1>10, <1>23
    <3> QED BY ONLY SMT, <3>2, <3>3, <1>19, <1>11
  <2>3. -1 * p < x * p /\ x * p < nd * p
    BY <2>2, <1>10, <1>11, <1>19, SMT
  <2>4. -1 < x /\ x < nd
    BY <2>3, <1>4, DigitBelow, SMT
  <2>5. (x * p) \div p = x
    <3>1. PICK y \in Nat : y = x * p
      BY <2>2, <1>11, <1>19, SMT
    <3>2. PICK i \in Nat, j \in 0..(p - 1) : i = y \div p /\ y = i * p + j
      BY DivExists
    <3>3. i * p < (x + 1) * p /\ x * p < (i + 1) * p
      <4>1. (x + 1) * p = x * p + p /\ (i + 1) * p = i * p + p /\ i * p \in Int
        BY SMT
      <4> QED BY <3>1, <3>2, <4>1, SMT
    <3>4. i < x + 1 /\ x < i + 1
      BY <3>3, DigitBelow, SMT
    <3>5. i = x
      BY <3>4, SMT
    <3> QED BY <3>1, <3>2, <3>5
  <2> QED BY <2>1, <2>2, <2>4, <2>5, <1>4, SMT
<1>25. q \in Word
  BY <1>3, <1>22, SMT
<1>26. hi * b + lo = q * nd + (hi * b + lo - q * nd)
  BY <1>4, SMT
<1> QED BY <1>2, <1>20, <1>21, <1>22, <1>24, <1>25, <1>26

\* Half of the cells stand for negative numbers.
Halved(h) ==
  /\ h \in Nat /\ h >= 2 /\ Base = h + h /\ Base \div 2 = h /\ MostNegative = -h /\ Word = 0..(h + h - 1)
  /\ \A u \in Word : /\ IsNegative(u) <=> u >= h
                     /\ Cell(u, TRUE) = (IF u >= h THEN u - (h + h) ELSE u)
                     /\ Cell(u, FALSE) = u
                     /\ Negate(u) = IF u = 0 THEN 0 ELSE (h + h) - u

\* The halves of a word exist.
LEMMA HalvedIs ==
  ASSUME PowersOfTwo
  PROVE  \E h \in Nat : Halved(h)
<1>1. PICK h \in Nat : h >= 2 /\ Base = h + h /\ Base \div 2 = h /\ (Base - 1) \div 2 = h - 1
  BY BaseIs
<1>2. Word = 0..(h + h - 1)
  BY <1>1 DEF Word
<1>3. MostNegative = -h
  BY <1>1 DEF MostNegative
<1>4. ASSUME NEW u \in Word
      PROVE  /\ IsNegative(u) <=> u >= h
             /\ Cell(u, TRUE) = (IF u >= h THEN u - (h + h) ELSE u)
             /\ Cell(u, FALSE) = u
             /\ Negate(u) = IF u = 0 THEN 0 ELSE (h + h) - u
  <2>1. (IsNegative(u) <=> u >= h) /\ Cell(u, TRUE) = (IF u >= h THEN u - (h + h) ELSE u)
    BY <1>1, CellIs
  <2>2. Cell(u, FALSE) = u
    BY DEF Cell
  <2>3. u \in 0..(h + h - 1)
    BY <1>2
  <2>4. PICK a \in Nat : a = (h + h) - u /\ a = ((h + h) - 1 - u) + 1
    <3>1. (h + h) - u \in Nat /\ ((h + h) - 1 - u) + 1 = (h + h) - u
      BY ONLY SMT, <2>3, h \in Nat
    <3> QED BY ONLY <3>1
  <2>5. Negate(u) = a % (h + h)
    BY ONLY <1>1, <2>4 DEF Negate
  <2>6. u = 0 => a % (h + h) = 0
    <3>1. u = 0 => a = h + h
      BY ONLY SMT, <2>4, h \in Nat
    <3>2. (h + h) % (h + h) = 0
      BY ONLY SMT, <1>1, h \in Nat
    <3> QED BY ONLY <3>1, <3>2
  <2>7. u # 0 => a % (h + h) = a
    BY ONLY SMT, <2>3, <2>4, a \in Nat, h \in Nat
  <2> QED BY ONLY <2>1, <2>2, <2>4, <2>5, <2>6, <2>7
<1> QED BY <1>1, <1>2, <1>3, <1>4 DEF Halved

\* The cell of a number that a cell can hold.
LEMMA MinusZero == \A z \in Int : z = 0 => -z = 0
<1>1. \A z \in Int : z <= 0 /\ z >= 0 => -z = 0
  BY SMT
<1>2. \A z \in Int : z = 0 => z <= 0 /\ z >= 0
  BY SMT
<1> QED BY ONLY <1>1, <1>2, Zenon

\* A number that a cell can hold is in the cell of its residue.
LEMMA CellOf ==
  ASSUME NEW h \in Nat, Halved(h), NEW x \in Int, -h <= x, x < h, NEW a \in Int,
         a = x \/ a = x + (h + h) \/ (x < 0 /\ a = x + (h + h) + (h + h))
  PROVE  a % Base \in Word /\ Cell(a % Base, TRUE) = x
<1>0. h \in Nat /\ h >= 2 /\ Base = h + h /\ Word = 0..(h + h - 1)
  BY DEF Halved
<1>1. PICK r \in Nat : r = IF x < 0 THEN x + (h + h) ELSE x
  BY <1>0, SMT
<1>2. r \in 0..(h + h - 1) /\ (IF r >= h THEN r - (h + h) ELSE r) = x
  BY <1>0, <1>1, SMT
<1>3. PICK b \in Nat \ {0} : b = h + h
  BY <1>0, SMT
<1>4. a = r \/ a = r + b \/ a = r - b
  <2>1. a = x \/ a = x + (h + h) \/ (x < 0 /\ a = x + (h + h) + (h + h))
    OBVIOUS
  <2> QED BY ONLY SMT, <2>1, <1>0, <1>1, <1>3, a \in Int, x \in Int, r \in Nat, b \in Nat \ {0}
<1>5. a % b = r
  <2>1. r \in 0..(b - 1)
    BY ONLY SMT, <1>2, <1>3, h \in Nat, b \in Nat \ {0}, r \in Nat
  <2> QED BY ONLY <2>1, <1>4, a \in Int, b \in Nat \ {0}, RestIs, Zenon
<1>6. r \in Word /\ Cell(r, TRUE) = x
  BY <1>0, <1>2 DEF Halved
<1> QED BY <1>0, <1>3, <1>5, <1>6

Sum(h, u, v, x) ==
  /\ h \in Nat /\ Halved(h) /\ u \in Word /\ v \in Word /\ x \in Int /\ -h <= x /\ x < h
  /\ x = Cell(u, TRUE) + Cell(v, TRUE)

\* ... as the sum of two cells is, when a cell can hold it.
LEMMA CellOfSum ==
  ASSUME NEW h, NEW u, NEW v, NEW x, Sum(h, u, v, x)
  PROVE  (u + v) % Base \in Word /\ Cell((u + v) % Base, TRUE) = x
<1>a. /\ h \in Nat /\ Halved(h) /\ u \in Word /\ v \in Word /\ x \in Int /\ -h <= x /\ x < h
      /\ x = Cell(u, TRUE) + Cell(v, TRUE)
  BY DEF Sum
<1>a0. h \in Nat /\ x \in Int
  BY <1>a
<1>0. h \in Nat /\ h >= 2 /\ Word = 0..(h + h - 1)
  BY <1>a DEF Halved
<1>1. /\ Cell(u, TRUE) = (IF u >= h THEN u - (h + h) ELSE u)
      /\ Cell(v, TRUE) = (IF v >= h THEN v - (h + h) ELSE v)
  BY <1>a DEF Halved
<1>2. u \in 0..(h + h - 1) /\ v \in 0..(h + h - 1) /\ x = Cell(u, TRUE) + Cell(v, TRUE)
  BY <1>a, <1>0
<1>3. PICK a \in Int : a = u + v
  <2>1. u + v \in Int
    BY ONLY SMT, <1>0, <1>2
  <2> QED BY ONLY <2>1
<1>4. a = x \/ a = x + (h + h) \/ (x < 0 /\ a = x + (h + h) + (h + h))
  <2>1. PICK c \in Int : c = Cell(u, TRUE) /\ (c = u \/ (c = u - (h + h) /\ u >= h))
    <3>1. u \in Int /\ u - (h + h) \in Int
      BY ONLY SMT, <1>2, <1>a0
    <3> QED BY ONLY <1>1, <3>1
  <2>2. PICK e \in Int : e = Cell(v, TRUE) /\ (e = v \/ (e = v - (h + h) /\ v >= h))
    <3>1. v \in Int /\ v - (h + h) \in Int
      BY ONLY SMT, <1>2, <1>a0
    <3> QED BY ONLY <1>1, <3>1
  <2>3. x = c + e
    BY ONLY <1>2, <2>1, <2>2
  <2>4. u \in 0..(h + h - 1) /\ v \in 0..(h + h - 1)
    BY ONLY <1>2
  <2>5. (c = u \/ (c = u - (h + h) /\ u >= h)) /\ (e = v \/ (e = v - (h + h) /\ v >= h))
    BY ONLY <2>1, <2>2
  <2> QED BY ONLY SMT, <1>3, <2>3, <2>4, <2>5, <1>a0, a \in Int, c \in Int, e \in Int, <1>a0
<1>5. a % Base \in Word /\ Cell(a % Base, TRUE) = x
  <2>1. Halved(h) /\ -h <= x /\ x < h
    BY <1>a
  <2> QED BY ONLY <2>1, <1>a0, <1>4, a \in Int, CellOf
<1> QED BY ONLY <1>3, <1>5

\* ... and the number before one, when it is not the most negative.
LEMMA CellBelow ==
  ASSUME NEW h \in Nat, Halved(h), NEW u \in Word, -h < Cell(u, TRUE)
  PROVE  (u - 1) % Base \in Word /\ Cell((u - 1) % Base, TRUE) = Cell(u, TRUE) - 1
<1>0. h \in Nat /\ h >= 2 /\ Word = 0..(h + h - 1)
  BY DEF Halved
<1>1. Cell(u, TRUE) = (IF u >= h THEN u - (h + h) ELSE u)
  BY DEF Halved
<1>2. u \in 0..(h + h - 1) /\ -h < Cell(u, TRUE)
  BY <1>0
<1>3. PICK c \in Int : c = Cell(u, TRUE) /\ (u = c \/ u = c + (h + h)) /\ c < h /\ -h < c
  <2>1. CASE u >= h
    <3>1. Cell(u, TRUE) = u - (h + h)
      BY ONLY <1>1, <2>1
    <3>2. u - (h + h) \in Int /\ u = (u - (h + h)) + (h + h) /\ u - (h + h) < h
      BY ONLY SMT, <1>0, <1>2
    <3> QED BY ONLY <1>2, <3>1, <3>2
  <2>2. CASE ~(u >= h)
    <3>1. Cell(u, TRUE) = u
      BY ONLY <1>1, <2>2
    <3>2. u \in Int /\ u < h
      BY ONLY SMT, <1>0, <1>2, <2>2
    <3> QED BY ONLY <1>2, <3>1, <3>2
  <2> QED BY ONLY <2>1, <2>2
<1>4. PICK a \in Int, x \in Int : a = u - 1 /\ x = c - 1
  <2>1. u - 1 \in Int /\ c - 1 \in Int
    BY ONLY SMT, <1>0, <1>2, c \in Int
  <2> QED BY ONLY <2>1
<1>5. -h <= x /\ x < h /\ (a = x \/ a = x + (h + h))
  <2>1. (u = c \/ u = c + (h + h)) /\ c < h /\ -h < c
    BY ONLY <1>3
  <2> QED BY ONLY SMT, <1>4, <2>1, c \in Int, a \in Int, x \in Int, h \in Nat
<1>6. a % Base \in Word /\ Cell(a % Base, TRUE) = x
  <2>1. Halved(h)
    OBVIOUS
  <2> QED BY ONLY <2>1, <1>5, x \in Int, a \in Int, CellOf
<1> QED BY ONLY <1>3, <1>4, <1>6

\* The cell of a negative number.
LEMMA NegativeCell ==
  ASSUME NEW h \in Nat, Halved(h), NEW u \in Word, u <= h
  PROVE  Negate(u) \in Word /\ Cell(Negate(u), TRUE) = -u
<1>0. h \in Nat /\ h >= 2 /\ Word = 0..(h + h - 1)
  BY DEF Halved
<1>1. Negate(u) = IF u = 0 THEN 0 ELSE (h + h) - u
  BY DEF Halved
<1>2. Negate(u) \in Word
  BY <1>0, <1>1, SMT
<1>3. Cell(Negate(u), TRUE) = (IF Negate(u) >= h THEN Negate(u) - (h + h) ELSE Negate(u))
  BY <1>2 DEF Halved
<1>4. u \in 0..(h + h - 1) /\ u <= h
  BY <1>0
<1>5. CASE u = 0
  <2>1. Negate(u) = 0 /\ ~(0 >= h) /\ -u = 0
    <3>1. ~(0 >= h) /\ -u = 0
      <4>1. ~(0 >= h) /\ 0 \in Int
        BY ONLY SMT, <1>0, h \in Nat
      <4> QED BY ONLY <4>1, <1>5, MinusZero
    <3> QED BY ONLY <1>1, <1>5, <3>1
  <2> QED BY ONLY <1>2, <1>3, <2>1
<1>6. CASE u # 0
  <2>1. (h + h) - u >= h /\ ((h + h) - u) - (h + h) = -u
    BY ONLY SMT, <1>0, <1>4
  <2>2. Negate(u) = (h + h) - u
    BY ONLY <1>1, <1>6
  <2> QED BY ONLY <1>2, <1>3, <2>1, <2>2
<1> QED BY ONLY <1>5, <1>6

-----------------------------------------------------------------------------
\* A quotient and a remainder of n by d, the sign of the remainder as asked for.
Divides(n, d, q, r, floored) ==
  /\ n = q * d + r
  /\ Abs(r) < Abs(d)
  /\ r # 0 => (r < 0) = ((IF floored THEN d ELSE n) < 0)

\* The magnitudes of n and d are divided.
Magnitudes(a, e, q, r, n, d, minus, negD) ==
  /\ a \in Nat /\ e \in Nat /\ q \in Nat /\ r \in Nat /\ a = q * e + r /\ r < e
  /\ n \in Int /\ d \in Int /\ minus \in BOOLEAN /\ negD \in BOOLEAN
  /\ n = (IF minus THEN -a ELSE a) /\ d = (IF negD THEN -e ELSE e)

SignedMagnitudes(a, e, q, r, n, d, minus, negD, sq, sr) ==
  /\ Magnitudes(a, e, q, r, n, d, minus, negD)
  /\ sq = (IF minus # negD THEN -q ELSE q) /\ sr = (IF minus THEN -r ELSE r)

\* The signs of a quotient, and the floor.
LEMMA SignsAre ==
  ASSUME NEW a, NEW e, NEW q, NEW r, NEW n, NEW d, NEW minus, NEW negD, NEW sq, NEW sr,
         SignedMagnitudes(a, e, q, r, n, d, minus, negD, sq, sr)
  PROVE  /\ Divides(n, d, sq, sr, FALSE)
         /\ ~(r # 0 /\ minus # negD) => Divides(n, d, sq, sr, TRUE)
         /\ r # 0 /\ minus # negD => Divides(n, d, sq - 1, sr + d, TRUE)
<1>0. /\ a \in Nat /\ e \in Nat /\ q \in Nat /\ r \in Nat /\ a = q * e + r /\ r < e
      /\ n \in Int /\ d \in Int /\ minus \in BOOLEAN /\ negD \in BOOLEAN
      /\ n = (IF minus THEN -a ELSE a) /\ d = (IF negD THEN -e ELSE e)
      /\ sq = (IF minus # negD THEN -q ELSE q) /\ sr = (IF minus THEN -r ELSE r)
  BY DEF SignedMagnitudes, Magnitudes
<1>a. a \in Nat /\ e \in Nat /\ q \in Nat /\ r \in Nat /\ n \in Int /\ d \in Int
  BY ONLY <1>0
<1>1. PICK p \in Nat : p = q * e /\ a = p + r /\ r < e
  <2>1. q * e \in Nat
    BY ONLY SMT, <1>a
  <2> QED BY ONLY <2>1, <1>0
<1>2. CASE minus /\ negD
  <2>1. n = -a /\ d = -e /\ ~(minus # negD)
    BY <1>0, <1>2
  <2>2. q * (-e) = -p
    BY ONLY SMT, <1>1, <1>a
  <2>3. n = q * d + (-r)
    BY ONLY SMT, <2>1, <2>2, <1>1, p \in Nat, <1>a
  <2>4. Abs(-r) < Abs(d) /\ (-r # 0 => ((-r < 0) /\ d < 0 /\ n < 0))
    BY ONLY SMT, <1>1, <2>1, <1>a DEF Abs
  <2>5. Divides(n, d, q, -r, FALSE) /\ Divides(n, d, q, -r, TRUE)
    BY <2>3, <2>4 DEF Divides
  <2>6. sq = q /\ sr = -r
    BY <1>0, <1>2
  <2> QED BY ONLY <2>1, <2>5, <2>6
<1>3. CASE minus /\ ~negD
  <2>1. n = -a /\ d = e /\ minus # negD
    BY <1>0, <1>3
  <2>2. (-q) * e = -p /\ (-q - 1) * e = -p - e
    BY ONLY SMT, <1>1, <1>a
  <2>3. n = (-q) * d + (-r) /\ n = (-q - 1) * d + (-r + d)
    BY ONLY SMT, <2>1, <2>2, <1>1, p \in Nat, <1>a
  <2>4. Abs(-r) < Abs(d) /\ (-r # 0 => ((-r < 0) /\ n < 0))
    BY ONLY SMT, <1>1, <2>1, <1>a DEF Abs
  <2>5. r # 0 => Abs(-r + d) < Abs(d) /\ ~(-r + d < 0) /\ ~(d < 0)
    BY ONLY SMT, <1>1, <2>1, <1>a DEF Abs
  <2>6. r = 0 => ~(-r # 0)
    <3>1. r \in Int
      BY ONLY SMT, <1>a
    <3> QED BY ONLY <3>1, MinusZero
  <2>7. Divides(n, d, -q, -r, FALSE) /\ (r = 0 => Divides(n, d, -q, -r, TRUE))
    BY <2>3, <2>4, <2>6 DEF Divides
  <2>8. r # 0 => Divides(n, d, -q - 1, -r + d, TRUE)
    BY <2>3, <2>5 DEF Divides
  <2>9. sq = -q /\ sr = -r
    BY <1>0, <1>3
  <2> QED BY ONLY <2>1, <2>7, <2>8, <2>9
<1>4. CASE ~minus /\ negD
  <2>1. n = a /\ d = -e /\ minus # negD
    BY <1>0, <1>4
  <2>2. (-q) * (-e) = p /\ (-q - 1) * (-e) = p + e
    BY ONLY SMT, <1>1, <1>a
  <2>3. n = (-q) * d + r /\ n = (-q - 1) * d + (r + d)
    BY ONLY SMT, <2>1, <2>2, <1>1, p \in Nat, <1>a
  <2>4. Abs(r) < Abs(d) /\ ~(r < 0) /\ ~(n < 0)
    BY ONLY SMT, <1>1, <2>1, <1>a DEF Abs
  <2>5. r # 0 => Abs(r + d) < Abs(d) /\ r + d < 0 /\ d < 0
    BY ONLY SMT, <1>1, <2>1, <1>a DEF Abs
  <2>7. Divides(n, d, -q, r, FALSE) /\ (r = 0 => Divides(n, d, -q, r, TRUE))
    BY <2>3, <2>4 DEF Divides
  <2>8. r # 0 => Divides(n, d, -q - 1, r + d, TRUE)
    BY <2>3, <2>5 DEF Divides
  <2>9. sq = -q /\ sr = r
    BY <1>0, <1>4
  <2> QED BY ONLY <2>1, <2>7, <2>8, <2>9
<1>5. CASE ~minus /\ ~negD
  <2>1. n = a /\ d = e /\ ~(minus # negD)
    BY <1>0, <1>5
  <2>3. n = q * d + r
    BY <1>0, <2>1
  <2>4. Abs(r) < Abs(d) /\ ~(r < 0) /\ ~(n < 0) /\ ~(d < 0)
    BY ONLY SMT, <1>1, <2>1, <1>a DEF Abs
  <2>5. Divides(n, d, q, r, FALSE) /\ Divides(n, d, q, r, TRUE)
    BY <2>3, <2>4 DEF Divides
  <2>6. sq = q /\ sr = r
    BY <1>0, <1>5
  <2> QED BY ONLY <2>1, <2>5, <2>6
<1> QED BY <1>0, <1>2, <1>3, <1>4, <1>5

\* A division with a remainder determines its quotient.
LEMMA QuotientOfSum ==
  ASSUME NEW e \in Nat, NEW q \in Nat, NEW r \in Nat, r < e, NEW a \in Nat, a = q * e + r
  PROVE  a \div e = q
<1>1. e \in Nat \ {0}
  BY SMT
<1>2. PICK i \in Nat, j \in 0..(e - 1) : i = a \div e /\ j = a % e /\ a = i * e + j
  BY <1>1, DivExists
<1>3. j \in Nat /\ j < e
  BY ONLY SMT, <1>1, j \in 0..(e - 1)
<1>4. i < q + 1
  <2>1. (q + 1) * e = q * e + e /\ q * e \in Nat /\ q + 1 \in Nat
    BY SMT
  <2>2. i * e + j < (q + 1) * e
    <3>1. PICK y \in Nat : y = q * e
      BY <2>1
    <3>2. y + r < y + e
      BY SMT
    <3> QED BY <1>2, <2>1, <3>1, <3>2
  <2> QED BY ONLY <1>1, <1>3, <2>1, <2>2, i \in Nat, QuotientBelow
<1>5. q < i + 1
  <2>1. (i + 1) * e = i * e + e /\ i * e \in Nat /\ i + 1 \in Nat
    BY SMT
  <2>2. q * e + r < (i + 1) * e
    <3>1. PICK y \in Nat : y = i * e
      BY <2>1
    <3>2. y + j < y + e
      BY ONLY SMT, <1>3, y \in Nat, e \in Nat
    <3> QED BY <1>2, <2>1, <3>1, <3>2
  <2> QED BY ONLY <1>1, <2>1, <2>2, q \in Nat, r \in Nat, QuotientBelow
<1>6. i = q
  BY ONLY SMT, <1>4, <1>5, i \in Nat, q \in Nat
<1> QED BY <1>2, <1>6

\* The quotient that a division is asked for.
QuotientOf(n, d, floored) ==
  LET q == Abs(n) \div Abs(d)
      exact == q * Abs(d) = Abs(n)
  IN  IF (n < 0) = (d < 0) THEN q
      ELSE IF floored /\ ~exact THEN -q - 1 ELSE -q

\* A number without its sign.
LEMMA SizeIs ==
  ASSUME NEW a \in Nat, NEW minus \in BOOLEAN, NEW n \in Int, n = (IF minus THEN -a ELSE a)
  PROVE  Abs(n) = a
<1>1. CASE minus
  <2>1. n = -a
    BY <1>1
  <2>2. CASE a = 0
    <3>1. n = 0
      <4>1. 0 \in Int
        BY SMT
      <4>2. -0 = 0
        BY ONLY <4>1, MinusZero, Zenon
      <4> QED BY ONLY <2>1, <2>2, <4>2, Zenon
    <3>2. ~(0 < 0)
      BY SMT
    <3> QED BY <2>2, <3>1, <3>2 DEF Abs
  <2>3. CASE a # 0
    BY <2>1, <2>3, SMT DEF Abs
  <2> QED BY <2>2, <2>3
<1>2. CASE ~minus
  <2>1. n = a
    BY <1>2
  <2> QED BY <2>1, SMT DEF Abs
<1> QED BY <1>1, <1>2

\* The quotient of two numbers by that of their magnitudes.
LEMMA QuotientOfIs ==
  ASSUME NEW a, NEW e, NEW q, NEW r, NEW n, NEW d, NEW minus, NEW negD, Magnitudes(a, e, q, r, n, d, minus, negD),
         NEW floored \in BOOLEAN
  PROVE  /\ d # 0
         /\ QuotientOf(n, d, floored) = q \/ QuotientOf(n, d, floored) = -q \/ QuotientOf(n, d, floored) = -q - 1
         /\ ~minus /\ ~negD => QuotientOf(n, d, floored) = q
<1>0. /\ a \in Nat /\ e \in Nat /\ q \in Nat /\ r \in Nat /\ a = q * e + r /\ r < e
      /\ n \in Int /\ d \in Int /\ minus \in BOOLEAN /\ negD \in BOOLEAN
      /\ n = (IF minus THEN -a ELSE a) /\ d = (IF negD THEN -e ELSE e)
  BY DEF Magnitudes
<1>a. a \in Nat /\ e \in Nat /\ q \in Nat /\ r \in Nat /\ n \in Int /\ d \in Int /\ r < e
  BY ONLY <1>0
<1>1. Abs(n) = a /\ Abs(d) = e
  BY ONLY <1>0, SizeIs
<1>2. a \div e = q
  BY ONLY <1>0, QuotientOfSum
<1>3. d # 0
  <2>1. -e # 0 /\ e # 0
    BY ONLY SMT, <1>a
  <2> QED BY ONLY <1>0, <2>1
<1>4. QuotientOf(n, d, floored) = q \/ QuotientOf(n, d, floored) = -q \/ QuotientOf(n, d, floored) = -q - 1
  BY <1>1, <1>2 DEF QuotientOf
<1>5. ASSUME ~minus, ~negD PROVE QuotientOf(n, d, floored) = q
  <2>1. n = a /\ d = e
    BY <1>0, <1>5
  <2>2. (n < 0) = (d < 0)
    <3>1. ~(a < 0) /\ ~(e < 0)
      BY ONLY SMT, <1>a
    <3> QED BY ONLY <2>1, <3>1
  <2> QED BY <1>1, <1>2, <2>2 DEF QuotientOf
<1> QED BY <1>3, <1>4, <1>5

\* What a division without result says of its operands.
OutOfRange(n, d, signed, floored) ==
  IF signed THEN QuotientOf(n, d, floored) <= MostNegative \/ QuotientOf(n, d, floored) >= Base \div 2
  ELSE QuotientOf(n, d, floored) >= Base

\* The outcome of a division of n by d.
Right(o, n, d, signed, floored) ==
  /\ o.res \in {"OK", "DIVBYZERO", "RSLTOUTORANGE"} /\ o.r \in Word
  /\ o.res = "OK" => Divides(n, d, Cell(o.q, signed), Cell(o.r, signed), floored)
  /\ o.res # "OK" => IF d = 0 THEN o.res = "DIVBYZERO"
                     ELSE o.res = "RSLTOUTORANGE" /\ OutOfRange(n, d, signed, floored)

\* The end of e4__double_ndiv, given quotient and remainder of the magnitudes.
Ended(uq, ur, nd, signed, floored, minus, negD) ==
  LET q == IF minus # negD THEN Negate(uq) ELSE uq
      r == IF minus THEN Negate(ur) ELSE ur
  IN  IF signed /\ IsNegative(uq) THEN Failed("RSLTOUTORANGE")
      ELSE IF signed /\ floored /\ r # 0 /\ minus # negD
      THEN [res |-> "OK", q |-> (q - 1) % Base, r |-> (r + (IF negD THEN Negate(nd) ELSE nd)) % Base]
      ELSE [res |-> "OK", q |-> q, r |-> r]

\* e4__double_ndiv gives the quotient its sign and floors it, or refuses it.
LEMMA EndedIs ==
  ASSUME NEW h \in Nat, Halved(h), NEW uq \in Word, NEW ur \in Nat, NEW nd \in Word, ur < nd,
         NEW a \in Nat, a = uq * nd + ur,
         NEW signed \in BOOLEAN, NEW floored \in BOOLEAN, NEW minus \in BOOLEAN, NEW negD \in BOOLEAN,
         ~signed => ~minus /\ ~negD /\ ~floored, signed => nd <= h, signed /\ ~negD => nd < h,
         NEW n \in Int, NEW d \in Int, n = (IF minus THEN -a ELSE a), d = (IF negD THEN -nd ELSE nd)
  PROVE  Right(Ended(uq, ur, nd, signed, floored, minus, negD), n, d, signed, floored)
<1>0. h \in Nat /\ h >= 2 /\ Word = 0..(h + h - 1) /\ Base = h + h /\ Base \div 2 = h /\ MostNegative = -h
  BY DEF Halved
<1>1. /\ uq \in Nat /\ nd \in Nat /\ uq < h + h /\ nd < h + h /\ ur \in Word
      /\ ur \in 0..(h + h - 1)
  <2>1. uq \in 0..(h + h - 1) /\ nd \in 0..(h + h - 1)
    BY <1>0
  <2>2. ur < nd
    OBVIOUS
  <2>3. ur \in 0..(h + h - 1)
    BY ONLY SMT, <2>1, <2>2, h \in Nat, ur \in Nat
  <2> QED BY ONLY SMT, <2>1, <2>3, <1>0, h \in Nat
<1>b. Magnitudes(a, nd, uq, ur, n, d, minus, negD)
  BY <1>1 DEF Magnitudes
<1>2. /\ d # 0
      /\ QuotientOf(n, d, floored) = uq \/ QuotientOf(n, d, floored) = -uq \/ QuotientOf(n, d, floored) = -uq - 1
      /\ ~minus /\ ~negD => QuotientOf(n, d, floored) = uq
  BY <1>b, QuotientOfIs
<1>3. PICK o : o = Ended(uq, ur, nd, signed, floored, minus, negD)
  OBVIOUS
<1>4. CASE signed /\ uq >= h
  <2>1. IsNegative(uq)
    BY <1>4 DEF Halved
  <2>2. o = Failed("RSLTOUTORANGE")
    BY <1>3, <1>4, <2>1 DEF Ended
  <2>3. o.res = "RSLTOUTORANGE" /\ o.r = 0
    BY <2>2 DEF Failed
  <2>4. 0 \in Word
    BY ONLY SMT, <1>0
  <2>5. QuotientOf(n, d, floored) <= -h \/ QuotientOf(n, d, floored) >= h
    <3>1. uq >= h /\ -uq <= -h /\ -uq - 1 <= -h
      BY ONLY SMT, <1>1, <1>4, h \in Nat
    <3> QED BY ONLY <1>2, <3>1
  <2>6. OutOfRange(n, d, signed, floored)
    BY <2>5, <1>0, <1>4 DEF OutOfRange
  <2> QED BY <1>2, <1>3, <2>3, <2>4, <2>6 DEF Right
<1>5. CASE signed /\ uq < h
  <2>0. nd <= h /\ (~negD => nd < h) /\ uq <= h /\ ur < h /\ ur <= h /\ uq < h
    <3>1. nd <= h /\ (~negD => nd < h) /\ uq < h /\ ur < nd
      BY <1>5
    <3> QED BY ONLY SMT, <3>1, <1>1, h \in Nat, ur \in Nat
  <2>1. ~IsNegative(uq) /\ Cell(uq, TRUE) = uq /\ Cell(ur, TRUE) = ur /\ signed = TRUE
    <3>1. ~(uq >= h) /\ ~(ur >= h)
      BY ONLY SMT, <2>0, <1>1, h \in Nat
    <3> QED BY <3>1, <1>1, <1>5 DEF Halved
  <2>2. PICK q \in Word, sq \in Int :
          /\ q = IF minus # negD THEN Negate(uq) ELSE uq
          /\ sq = (IF minus # negD THEN -uq ELSE uq) /\ Cell(q, TRUE) = sq
    <3>1. CASE minus # negD
      <4>1. -uq \in Int
        BY ONLY SMT, <1>1
      <4> QED BY <3>1, <4>1, <2>0, NegativeCell
    <3>2. CASE ~(minus # negD)
      <4>1. uq \in Int
        BY ONLY SMT, <1>1
      <4> QED BY <3>2, <4>1, <2>1
    <3> QED BY <3>1, <3>2
  <2>3. PICK r \in Word, sr \in Int :
          /\ r = IF minus THEN Negate(ur) ELSE ur
          /\ sr = (IF minus THEN -ur ELSE ur) /\ Cell(r, TRUE) = sr /\ (r # 0 <=> ur # 0)
    <3>1. CASE minus
      <4>1. -ur \in Int
        BY ONLY SMT, <1>1
      <4>2. Negate(ur) \in Word /\ Cell(Negate(ur), TRUE) = -ur
        BY <2>0, <1>1, NegativeCell
      <4>3. Negate(ur) = IF ur = 0 THEN 0 ELSE (h + h) - ur
        BY <1>1 DEF Halved
      <4>4. (h + h) - ur # 0
        BY ONLY SMT, <2>0, <1>1, h \in Nat
      <4>5. Negate(ur) # 0 <=> ur # 0
        BY ONLY <4>3, <4>4
      <4> QED BY <3>1, <4>1, <4>2, <4>5
    <3>2. CASE ~minus
      <4>1. ur \in Int
        BY ONLY SMT, <1>1
      <4> QED BY <3>2, <4>1, <2>1, <1>1
    <3> QED BY <3>1, <3>2
  <2>4. /\ Divides(n, d, sq, sr, FALSE)
        /\ ~(ur # 0 /\ minus # negD) => Divides(n, d, sq, sr, TRUE)
        /\ ur # 0 /\ minus # negD => Divides(n, d, sq - 1, sr + d, TRUE)
    <3>1. sq = (IF minus # negD THEN -uq ELSE uq) /\ sr = (IF minus THEN -ur ELSE ur)
      BY ONLY <2>2, <2>3
    <3>2. SignedMagnitudes(a, nd, uq, ur, n, d, minus, negD, sq, sr)
      BY ONLY <1>b, <3>1 DEF SignedMagnitudes
    <3> QED BY ONLY <3>2, SignsAre
  <2>5. CASE floored /\ r # 0 /\ minus # negD
    <3>1. o = [res |-> "OK", q |-> (q - 1) % Base, r |-> (r + (IF negD THEN Negate(nd) ELSE nd)) % Base]
      BY <1>3, <1>5, <2>1, <2>2, <2>3, <2>5 DEF Ended
    <3>2. (q - 1) % Base \in Word /\ Cell((q - 1) % Base, TRUE) = sq - 1
      <4>1. -h < sq
        <5>1. -h < -uq /\ -h < uq
          BY ONLY SMT, <2>0, <1>1, h \in Nat
        <5> QED BY ONLY <2>2, <5>1
      <4> QED BY <4>1, <2>2, CellBelow
    <3>3. PICK v \in Word : v = (IF negD THEN Negate(nd) ELSE nd) /\ Cell(v, TRUE) = d
      <4>1. CASE negD
        BY <4>1, <2>0, NegativeCell
      <4>2. CASE ~negD
        <5>1. ~(nd >= h)
          BY ONLY SMT, <4>2, <2>0, <1>1, h \in Nat
        <5>2. Cell(nd, TRUE) = nd
          BY <5>1 DEF Halved
        <5> QED BY <4>2, <5>2
      <4> QED BY <4>1, <4>2
    <3>4. Divides(n, d, sq - 1, sr + d, TRUE)
      BY <2>3, <2>4, <2>5
    <3>5. PICK x \in Int : x = sr + d /\ -h <= x /\ x < h
      <4>1. Abs(sr + d) < Abs(d) /\ Abs(d) = nd
        BY <3>4, <1>1, SizeIs DEF Divides
      <4>2. sr + d \in Int
        BY ONLY SMT, sr \in Int, d \in Int
      <4>3. PICK x \in Int : x = sr + d
        BY ONLY <4>2
      <4>4. Abs(x) < nd /\ nd <= h
        BY ONLY <4>1, <4>3, <2>0
      <4>5. -h <= x /\ x < h
        BY ONLY SMT, <4>4, <1>1, h \in Nat, x \in Int DEF Abs
      <4> QED BY ONLY <4>3, <4>5
    <3>6. (r + v) % Base \in Word /\ Cell((r + v) % Base, TRUE) = sr + d
      <4>1. Halved(h)
        OBVIOUS
      <4>2. x = Cell(r, TRUE) + Cell(v, TRUE) /\ -h <= x /\ x < h
        BY ONLY <2>3, <3>3, <3>5
      <4>3. (r + v) % Base \in Word /\ Cell((r + v) % Base, TRUE) = x
        <5>1. Sum(h, r, v, x)
          BY ONLY <4>1, <4>2, h \in Nat, r \in Word, v \in Word, x \in Int DEF Sum
        <5> QED BY ONLY <5>1, CellOfSum
      <4> QED BY ONLY <4>3, <3>5
    <3>7. o.res = "OK" /\ o.q = (q - 1) % Base /\ o.r = (r + v) % Base
      BY <3>1, <3>3
    <3> QED BY <1>3, <2>1, <2>5, <3>2, <3>4, <3>6, <3>7 DEF Right
  <2>6. CASE ~(floored /\ r # 0 /\ minus # negD)
    <3>1. o = [res |-> "OK", q |-> q, r |-> r]
      BY <1>3, <1>5, <2>1, <2>2, <2>3, <2>6 DEF Ended
    <3>2. Divides(n, d, sq, sr, floored)
      BY <2>3, <2>4, <2>6
    <3>3. o.res = "OK" /\ o.q = q /\ o.r = r
      BY <3>1
    <3> QED BY <1>3, <2>1, <2>2, <2>3, <3>2, <3>3, Zenon DEF Right
  <2> QED BY <2>5, <2>6
<1>6. CASE ~signed
  <2>1. ~minus /\ ~negD /\ ~floored
    BY <1>6
  <2>2. o = [res |-> "OK", q |-> uq, r |-> ur]
    BY <1>3, <1>6, <2>1 DEF Ended
  <2>3. uq = (IF minus # negD THEN -uq ELSE uq) /\ ur = (IF minus THEN -ur ELSE ur)
    BY <2>1
  <2>4. Divides(n, d, uq, ur, FALSE)
    <3>1. SignedMagnitudes(a, nd, uq, ur, n, d, minus, negD, uq, ur)
      BY ONLY <1>b, <2>3 DEF SignedMagnitudes
    <3> QED BY ONLY <3>1, SignsAre
  <2>5. Cell(uq, FALSE) = uq /\ Cell(ur, FALSE) = ur
    BY <1>1 DEF Halved
  <2>6. signed = FALSE /\ floored = FALSE
    BY <1>6, <2>1
  <2>7. o.res = "OK" /\ o.q = uq /\ o.r = ur
    BY <2>2
  <2> QED BY <1>1, <1>3, <2>4, <2>5, <2>6, <2>7, Zenon DEF Right
<1>7. uq < h \/ uq >= h
  BY ONLY SMT, <1>1, h \in Nat
<1> QED BY <1>4, <1>5, <1>6, <1>7

-----------------------------------------------------------------------------
\* The magnitude of a cell, and of two.
LEMMA SizeOfCell ==
  ASSUME NEW h \in Nat, Halved(h), NEW u \in Word, NEW signed \in BOOLEAN
  PROVE  /\ Magnitude(u, signed) \in Word
         /\ Cell(u, signed) = (IF signed /\ IsNegative(u) THEN -Magnitude(u, signed) ELSE Magnitude(u, signed))
         /\ signed => Magnitude(u, signed) <= h
         /\ signed /\ ~IsNegative(u) => Magnitude(u, signed) < h
         /\ Magnitude(u, signed) = 0 <=> u = 0
         /\ Cell(u, signed) \in Int
<1>0. /\ h \in Nat /\ h >= 2 /\ Word = 0..(h + h - 1)
      /\ IsNegative(u) <=> u >= h
      /\ Cell(u, TRUE) = (IF u >= h THEN u - (h + h) ELSE u)
      /\ Cell(u, FALSE) = u
      /\ Negate(u) = IF u = 0 THEN 0 ELSE (h + h) - u
  BY DEF Halved
<1>1. u \in 0..(h + h - 1)
  BY <1>0
<1>2. CASE signed /\ IsNegative(u)
  <2>1. u >= h /\ u # 0
    <3>1. u >= h
      BY <1>0, <1>2
    <3> QED BY ONLY SMT, <1>0, <1>1, <3>1, h \in Nat
  <2>2. PICK v \in Nat : v = (h + h) - u /\ v \in 0..(h + h - 1) /\ v <= h /\ v # 0 /\ u - (h + h) = -v
    <3>1. (h + h) - u \in Nat /\ (h + h) - u \in 0..(h + h - 1) /\ (h + h) - u <= h /\ (h + h) - u # 0
          /\ u - (h + h) = -((h + h) - u)
      BY ONLY SMT, <1>0, <1>1, <2>1, h \in Nat
    <3> QED BY ONLY <3>1
  <2>3. signed = TRUE /\ Magnitude(u, signed) = v /\ Cell(u, signed) = -v
    BY <1>0, <1>2, <2>1, <2>2 DEF Magnitude
  <2>4. -v \in Int
    BY ONLY SMT, v \in Nat
  <2> QED BY ONLY <1>0, <1>2, <2>1, <2>2, <2>3, <2>4
<1>3. CASE ~(signed /\ IsNegative(u))
  <2>1. Magnitude(u, signed) = u
    BY <1>3 DEF Magnitude
  <2>2. Cell(u, signed) = u
    BY <1>0, <1>3
  <2>3. signed => u < h /\ u <= h
    <3>1. signed => ~(u >= h)
      BY <1>0, <1>3
    <3>2. ~(u >= h) => u < h /\ u <= h
      BY ONLY SMT, <1>0, <1>1, h \in Nat
    <3> QED BY <3>1, <3>2
  <2>4. u \in Int
    BY ONLY SMT, <1>0, <1>1
  <2> QED BY <1>3, <2>1, <2>2, <2>3, <2>4
<1> QED BY <1>2, <1>3

Double == [low : Word, high : Word]

\* The magnitude of two cells.
LEMMA SizeOfDouble ==
  ASSUME NEW h \in Nat, Halved(h), NEW n \in Double, NEW signed \in BOOLEAN, NEW minus,
         minus = (signed /\ IsNegative(n.high))
  PROVE  \E nn \in Double, a \in Nat, b \in Nat :
           /\ nn = IF minus THEN double_negate(n) ELSE n
           /\ b = Base /\ b = h + h /\ a = nn.high * b + nn.low
           /\ TwoCells(n, signed) = (IF minus THEN -a ELSE a)
           /\ signed => a <= h * b
           /\ signed /\ ~minus => a < h * b
           /\ a < b * b
<1>0. h \in Nat /\ h >= 2 /\ Word = 0..(h + h - 1) /\ Base = h + h
  BY DEF Halved
<1>1. PICK b \in Nat : b = Base /\ b = h + h
  <2>1. h + h \in Nat
    BY ONLY SMT, h \in Nat
  <2> QED BY ONLY <1>0, <2>1
<1>2. PICK low \in Word, high \in Word : low = n.low /\ high = n.high /\ n = [low |-> low, high |-> high]
  BY DEF Double
<1>3. low \in 0..(b - 1) /\ high \in 0..(b - 1)
  <2>1. low \in 0..(h + h - 1) /\ high \in 0..(h + h - 1)
    BY <1>0
  <2> QED BY ONLY SMT, <2>1, <1>1, h \in Nat, b \in Nat
<1>4. PICK v \in Nat : v = high * b + low
  <2>1. high * b + low \in Nat
    BY ONLY SMT, <1>3, b \in Nat
  <2> QED BY ONLY <2>1
<1>5. v < b * b
  <2>1. PICK k \in Nat : b = high + 1 + k
    <3>1. b - high - 1 \in Nat /\ b = high + 1 + (b - high - 1)
      BY ONLY SMT, <1>3, b \in Nat
    <3> QED BY ONLY <3>1
  <2>2. b * b = high * b + b + k * b /\ k * b \in Nat
    <3>1. (high + 1 + k) * b = high * b + b + k * b /\ k * b \in Nat
      BY ONLY SMT, <1>3, b \in Nat, k \in Nat
    <3> QED BY ONLY <2>1, <3>1
  <2> QED BY ONLY SMT, <1>3, <1>4, <2>2, b \in Nat, v \in Nat
<1>6. (IsNegative(high) <=> high >= h)
      /\ Cell(high, TRUE) = (IF high >= h THEN high - (h + h) ELSE high) /\ Cell(high, FALSE) = high
  BY DEF Halved
<1>7. CASE minus
  <2>1. signed = TRUE /\ high >= h /\ Cell(high, signed) = high - b
    BY <1>1, <1>2, <1>6, <1>7
  <2>2. PICK nn : nn = double_negate(n)
    OBVIOUS
  <2>3. nn.low \in Word /\ nn.high \in Word
        /\ nn.high * Base + nn.low = IF high = 0 /\ low = 0 THEN 0 ELSE Base * Base - (high * Base + low)
    <3>1. LET d == double_negate([low |-> low, high |-> high])
          IN  /\ d.low \in Word /\ d.high \in Word
              /\ d.high * Base + d.low = IF high = 0 /\ low = 0 THEN 0 ELSE Base * Base - (high * Base + low)
      BY ONLY <1>0, low \in Word, high \in Word, h \in Nat, DoubleNegateIs
    <3>2. nn = double_negate([low |-> low, high |-> high])
      BY ONLY <1>2, <2>2
    <3> QED BY ONLY <3>1, <3>2
  <2>4. nn \in Double
    <3>1. nn = [low |-> nn.low, high |-> nn.high]
      BY <2>2 DEF double_negate, double_u
    <3> QED BY <2>3, <3>1 DEF Double
  <2>5. high # 0
    BY ONLY SMT, <2>1, <1>0, <1>3, b \in Nat
  <2>6. nn.high * b + nn.low = b * b - v
    BY ONLY <2>3, <2>5, <1>1, <1>4
  <2>7. PICK a \in Nat : a = b * b - v
    <3>1. b * b - v \in Nat
      BY ONLY SMT, <1>5, b \in Nat, v \in Nat
    <3> QED BY ONLY <3>1
  <2>8. TwoCells(n, signed) = -a
    <3>1. TwoCells(n, signed) = (high - b) * b + low
      BY <2>1, <1>1, <1>2 DEF TwoCells
    <3>2. (high - b) * b = high * b - b * b /\ high * b \in Int /\ b * b \in Int
      BY ONLY SMT, <1>3, b \in Nat
    <3> QED BY ONLY SMT, <3>1, <3>2, <2>7, <1>3, <1>4, b \in Nat, a \in Nat
  <2>9. a <= h * b /\ a < b * b
    <3>1. PICK k \in Nat : high = h + k
      <4>1. high - h \in Nat /\ high = h + (high - h)
        BY ONLY SMT, <2>1, <1>3, b \in Nat, h \in Nat
      <4> QED BY ONLY <4>1
    <3>2. high * b = h * b + k * b /\ k * b \in Nat /\ h * b \in Nat /\ b * b = h * b + h * b
      <4>1. (h + k) * b = h * b + k * b /\ k * b \in Nat /\ h * b \in Nat /\ (h + h) * b = h * b + h * b
        BY ONLY SMT, b \in Nat, h \in Nat, k \in Nat
      <4> QED BY ONLY <4>1, <3>1, <1>1
    <3>3. h * b >= 1
      <4>1. PICK j \in Nat : h = 1 + j
        <5>1. h - 1 \in Nat /\ h = 1 + (h - 1)
          BY ONLY SMT, <1>0, h \in Nat
        <5> QED BY ONLY <5>1
      <4>2. (1 + j) * b = b + j * b /\ j * b \in Nat
        BY ONLY SMT, j \in Nat, b \in Nat
      <4>3. b >= 1
        BY ONLY SMT, <1>0, <1>1, b \in Nat
      <4>4. h * b = b + j * b
        BY ONLY <4>1, <4>2
      <4> QED BY ONLY SMT, <4>2, <4>3, <4>4, b \in Nat
    <3> QED BY ONLY SMT, <3>2, <3>3, <2>7, <1>3, <1>4, a \in Nat, v \in Nat
  <2> QED BY ONLY <2>2, <2>4, <2>6, <2>7, <2>8, <2>9, <1>1, <1>7, b \in Nat, a \in Nat
<1>8. CASE ~minus
  <2>1. Cell(high, signed) = high /\ (signed => high < h)
    <3>1. signed => ~(high >= h)
      BY <1>2, <1>6, <1>8
    <3>2. ~(high >= h) => high < h
      BY ONLY SMT, <1>3, b \in Nat, h \in Nat
    <3> QED BY <1>6, <3>1, <3>2
  <2>2. TwoCells(n, signed) = v
    BY <1>1, <1>2, <1>4, <2>1 DEF TwoCells
  <2>3. high < h => v < h * b /\ v <= h * b
    <3>1. SUFFICES ASSUME high < h PROVE v < h * b /\ v <= h * b
      OBVIOUS
    <3>2. PICK k \in Nat : h = high + 1 + k
      <4>1. h - high - 1 \in Nat /\ h = high + 1 + (h - high - 1)
        BY ONLY SMT, <1>3, <3>1, b \in Nat, h \in Nat
      <4> QED BY ONLY <4>1
    <3>3. h * b = high * b + b + k * b /\ k * b \in Nat
      <4>1. (high + 1 + k) * b = high * b + b + k * b /\ k * b \in Nat
        BY ONLY SMT, <1>3, b \in Nat, k \in Nat
      <4> QED BY ONLY <3>2, <4>1
    <3> QED BY ONLY SMT, <1>3, <1>4, <3>3, b \in Nat, v \in Nat
  <2> QED BY <1>1, <1>2, <1>4, <1>5, <1>8, <2>1, <2>2, <2>3
<1> QED BY <1>7, <1>8

\* A division of two cells by one is right, or refused for a reason.
LEMMA NdivIs ==
  ASSUME PowersOfTwo, NEW h \in Nat, Halved(h), NEW n \in Double, NEW d \in Word,
         NEW signed \in BOOLEAN, NEW floored \in BOOLEAN, floored => signed
  PROVE  Right(double_ndiv(n, d, signed, floored, TRUE), TwoCells(n, signed), Cell(d, signed), signed, floored)
<1>0. h \in Nat /\ h >= 2 /\ Word = 0..(h + h - 1) /\ Base = h + h /\ Base \div 2 = h /\ MostNegative = -h
  BY DEF Halved
<1>1. PICK minus \in BOOLEAN, negD \in BOOLEAN :
        minus = (signed /\ IsNegative(n.high)) /\ negD = (signed /\ IsNegative(d))
  BY DEF IsNegative
<1>2. PICK nn \in Double, a \in Nat, b \in Nat :
        /\ nn = IF minus THEN double_negate(n) ELSE n
        /\ b = Base /\ b = h + h /\ a = nn.high * b + nn.low
        /\ TwoCells(n, signed) = (IF minus THEN -a ELSE a)
  BY <1>1, SizeOfDouble
<1>3. PICK nd \in Word :
        /\ nd = Magnitude(d, signed)
        /\ Cell(d, signed) = (IF negD THEN -nd ELSE nd)
        /\ signed => nd <= h
        /\ signed /\ ~negD => nd < h
        /\ nd = 0 <=> d = 0
        /\ Cell(d, signed) \in Int
  BY <1>1, SizeOfCell
<1>4. PICK N \in Int, D \in Int : N = TwoCells(n, signed) /\ D = Cell(d, signed)
  <2>1. -a \in Int /\ a \in Int
    BY ONLY SMT, a \in Nat
  <2> QED BY ONLY <1>2, <1>3, <2>1
<1>5. nn.high \in 0..(b - 1) /\ nn.low \in 0..(b - 1) /\ nd \in 0..(b - 1)
  <2>1. nn.high \in Word /\ nn.low \in Word
    BY DEF Double
  <2>2. nn.high \in 0..(h + h - 1) /\ nn.low \in 0..(h + h - 1) /\ nd \in 0..(h + h - 1)
    BY <2>1, <1>0
  <2> QED BY ONLY SMT, <2>2, <1>2, h \in Nat, b \in Nat
<1>6. PICK hi \in Word, lo \in Word : hi = nn.high /\ lo = nn.low /\ hi \in 0..(b - 1) /\ lo \in 0..(b - 1)
  BY <1>5 DEF Double
<1>7. PICK o : o = double_ndiv(n, d, signed, floored, TRUE)
  OBVIOUS
<1>8. 0 \in Word
  BY ONLY SMT, <1>0
<1>9. CASE d = 0
  <2>1. o = Failed("DIVBYZERO")
    BY <1>7, <1>9 DEF double_ndiv
  <2>2. o.res = "DIVBYZERO" /\ o.r = 0
    BY <2>1 DEF Failed
  <2>3. D = 0
    <3>1. nd = 0 /\ 0 \in Int
      BY <1>3, <1>9, SMT
    <3>2. -0 = 0
      BY ONLY <3>1, MinusZero, Zenon
    <3> QED BY ONLY <1>3, <1>4, <3>1, <3>2
  <2> QED BY <1>4, <1>7, <1>8, <2>2, <2>3, Zenon DEF Right
<1>10. CASE d # 0 /\ hi >= nd
  <2>1. o = Failed("RSLTOUTORANGE")
    BY <1>1, <1>2, <1>3, <1>6, <1>7, <1>10, Zenon DEF double_ndiv
  <2>2. o.res = "RSLTOUTORANGE" /\ o.r = 0
    BY <2>1 DEF Failed
  <2>3. nd \in Nat \ {0}
    BY ONLY SMT, <1>3, <1>5, <1>10, b \in Nat
  <2>4. PICK k \in Nat, j \in 0..(nd - 1) : a = k * nd + j
    BY ONLY <2>3, DivExists, a \in Nat
  <2>5. j \in Nat /\ j < nd
    BY ONLY SMT, <2>3, j \in 0..(nd - 1)
  <2>6. k >= b
    <3>1. ASSUME k < b PROVE FALSE
      <4>2. PICK i \in Nat : b = k + 1 + i
        <5>1. b - k - 1 \in Nat /\ b = k + 1 + (b - k - 1)
          BY ONLY SMT, <3>1, b \in Nat, k \in Nat
        <5> QED BY ONLY <5>1
      <4>3. PICK m \in Nat : hi = nd + m
        <5>1. hi - nd \in Nat /\ hi = nd + (hi - nd)
          BY ONLY SMT, <1>5, <1>6, <1>10, b \in Nat
        <5> QED BY ONLY <5>1
      <4>4. hi * b = nd * b + m * b /\ m * b \in Nat /\ nd * b \in Nat
        <5>1. (nd + m) * b = nd * b + m * b /\ m * b \in Nat /\ nd * b \in Nat
          BY ONLY SMT, <2>3, b \in Nat, m \in Nat
        <5> QED BY ONLY <4>3, <5>1
      <4>5. nd * b = k * nd + nd + i * nd /\ k * nd \in Nat /\ i * nd \in Nat
        <5>1. nd * (k + 1 + i) = k * nd + nd + i * nd /\ k * nd \in Nat /\ i * nd \in Nat
          BY ONLY SMT, <2>3, k \in Nat, i \in Nat
        <5> QED BY ONLY <4>2, <5>1
      <4>6. a = hi * b + lo
        BY ONLY <1>2, <1>6
      <4>7. lo \in Nat
        BY ONLY SMT, <1>6, b \in Nat
      <4> QED BY ONLY SMT, <4>4, <4>5, <4>6, <4>7, <2>3, <2>4, <2>5, a \in Nat
    <3> QED BY ONLY SMT, <3>1, b \in Nat, k \in Nat
  <2>7. Magnitudes(a, nd, k, j, N, D, minus, negD)
    BY ONLY <1>2, <1>3, <1>4, <2>3, <2>4, <2>5, N \in Int, D \in Int, minus \in BOOLEAN, negD \in BOOLEAN,
            a \in Nat, k \in Nat DEF Magnitudes
  <2>8. /\ D # 0
        /\ QuotientOf(N, D, floored) = k \/ QuotientOf(N, D, floored) = -k \/ QuotientOf(N, D, floored) = -k - 1
        /\ ~minus /\ ~negD => QuotientOf(N, D, floored) = k
    BY <2>7, QuotientOfIs
  <2>9. OutOfRange(N, D, signed, floored)
    <3>1. k >= h /\ -k <= -h /\ -k - 1 <= -h
      BY ONLY SMT, <1>2, <2>6, h \in Nat, k \in Nat, b \in Nat
    <3>2. CASE signed
      <4>1. QuotientOf(N, D, floored) <= -h \/ QuotientOf(N, D, floored) >= h
        BY ONLY <2>8, <3>1
      <4> QED BY <1>0, <3>2, <4>1 DEF OutOfRange
    <3>3. CASE ~signed
      <4>1. QuotientOf(N, D, floored) >= Base
        BY <1>1, <1>2, <2>6, <2>8, <3>3
      <4> QED BY <3>3, <4>1 DEF OutOfRange
    <3> QED BY <3>2, <3>3
  <2> QED BY <1>4, <1>7, <1>8, <2>2, <2>8, <2>9, Zenon DEF Right
<1>11. CASE d # 0 /\ ~(hi >= nd)
  <2>1. hi < nd
    BY ONLY SMT, <1>5, <1>6, <1>11, b \in Nat
  <2>2. o = Narrow(nn, nd, signed, floored, TRUE, minus, negD)
    BY <1>1, <1>2, <1>3, <1>6, <1>7, <1>11, Zenon DEF double_ndiv
  <2>3. PICK uq \in Word, ur \in 0..(nd - 1) :
          /\ uq = LongDivision(hi, lo, nd).q /\ ur = LongDivision(hi, lo, nd).r
          /\ hi * Base + lo = uq * nd + ur
    BY <2>1, LongDivisionIs
  <2>4. o = Ended(uq, ur, nd, signed, floored, minus, negD)
    <3>1. Narrow(nn, nd, signed, floored, TRUE, minus, negD) =
            Ended(LongDivision(nn.high, nn.low, nd).q, LongDivision(nn.high, nn.low, nd).r,
                  nd, signed, floored, minus, negD)
      BY ONLY TRUE DEF Narrow, Ended, LongDivision, Overflow
    <3> QED BY ONLY <1>6, <2>2, <2>3, <3>1, Zenon
  <2>5. ur \in Nat /\ ur < nd
    BY ONLY SMT, <2>3, <1>5, b \in Nat
  <2>6. a = uq * nd + ur
    BY ONLY <1>2, <1>6, <2>3
  <2>7. Right(o, N, D, signed, floored)
    <3>1. ~signed => ~minus /\ ~negD /\ ~floored
      BY <1>1
    <3>2. N = (IF minus THEN -a ELSE a) /\ D = (IF negD THEN -nd ELSE nd)
      BY <1>2, <1>3, <1>4
    <3> QED BY <2>4, <2>5, <2>6, <3>1, <3>2, <1>3, EndedIs
  <2> QED BY <1>4, <1>7, <2>7
<1> QED BY <1>9, <1>10, <1>11

-----------------------------------------------------------------------------
\* /MOD: the quotient of the most negative number by -1 wraps.
DividesOrWraps(n, d, q, r, floored, least) ==
  Divides(n, d, q, r, floored) \/ (d = -1 /\ q = n /\ r = 0 /\ n = least)

\* ... which e4__usize_sdiv lets happen.
LEMMA SdivIs ==
  ASSUME NEW h \in Nat, Halved(h), NEW n \in Word, NEW d \in Word, d # 0
  PROVE  LET o == usize_sdiv(n, d)
         IN  /\ o.res = "OK" /\ o.r \in Word
             /\ DividesOrWraps(Cell(n, TRUE), Cell(d, TRUE), Cell(o.q, TRUE), Cell(o.r, TRUE), FALSE, MostNegative)
<1>0. h \in Nat /\ h >= 2 /\ Word = 0..(h + h - 1) /\ Base = h + h
  BY DEF Halved
<1>1. PICK minus \in BOOLEAN, negD \in BOOLEAN : minus = IsNegative(n) /\ negD = IsNegative(d)
  <2>1. IsNegative(n) \in BOOLEAN /\ IsNegative(d) \in BOOLEAN
    BY DEF IsNegative
  <2> QED BY ONLY <2>1
<1>2. PICK a \in Word, N \in Int :
        /\ a = Magnitude(n, TRUE) /\ N = Cell(n, TRUE) /\ N = (IF minus THEN -a ELSE a)
        /\ a <= h /\ (~minus => a < h)
  BY <1>1, SizeOfCell
<1>3. PICK e \in Word, D \in Int :
        /\ e = Magnitude(d, TRUE) /\ D = Cell(d, TRUE) /\ D = (IF negD THEN -e ELSE e)
        /\ e <= h /\ e # 0
  BY <1>1, SizeOfCell
<1>4. a \in Nat /\ e \in Nat \ {0} /\ e <= h
  <2>1. a \in 0..(h + h - 1) /\ e \in 0..(h + h - 1)
    BY <1>0
  <2>2. e # 0 /\ e <= h
    BY ONLY <1>3
  <2> QED BY ONLY SMT, <2>1, <2>2, h \in Nat
<1>5. PICK q \in Nat, r \in 0..(e - 1) : q = a \div e /\ r = a % e /\ a = q * e + r
  BY ONLY <1>4, DivExists
<1>6. r \in Nat /\ r < e /\ r < h /\ r <= h
  BY ONLY SMT, <1>4, r \in 0..(e - 1), h \in Nat
<1>7. q <= h /\ q * e <= h
  <2>1. PICK m \in Nat : e = 1 + m
    <3>1. e - 1 \in Nat /\ e = 1 + (e - 1)
      BY ONLY SMT, <1>4
    <3> QED BY ONLY <3>1
  <2>2. q * e = q + q * m /\ q * m \in Nat
    <3>1. q * (1 + m) = q + q * m /\ q * m \in Nat
      BY ONLY SMT, q \in Nat, m \in Nat
    <3> QED BY ONLY <2>1, <3>1
  <2>3. PICK y \in Nat, z \in Nat : y = q * e /\ z = q * m
    <3>1. q * e \in Nat
      BY ONLY SMT, <1>4, q \in Nat
    <3> QED BY ONLY <2>2, <3>1
  <2>4. a <= h /\ a = y + r /\ y = q + z
    BY ONLY <1>2, <1>5, <2>2, <2>3
  <2>5. q <= h /\ y <= h
    BY ONLY SMT, <1>4, <1>6, <2>4, q \in Nat, y \in Nat, z \in Nat, h \in Nat
  <2> QED BY ONLY <2>3, <2>5
<1>8. q \in Word /\ r \in Word
  <2>1. q \in 0..(h + h - 1) /\ r \in 0..(h + h - 1)
    BY ONLY SMT, <1>0, <1>6, <1>7, q \in Nat, h \in Nat
  <2> QED BY ONLY <2>1, <1>0
<1>9. PICK o : o = usize_sdiv(n, d)
  OBVIOUS
<1>10. /\ o.res = "OK"
       /\ o.q = (IF minus # negD THEN Negate(q) ELSE q)
       /\ o.r = (IF minus THEN Negate(r) ELSE r)
  BY <1>1, <1>2, <1>3, <1>5, <1>9 DEF usize_sdiv
<1>11. PICK sr \in Int : o.r \in Word /\ Cell(o.r, TRUE) = sr /\ sr = (IF minus THEN -r ELSE r)
  <2>1. CASE minus
    <3>1. -r \in Int
      BY ONLY SMT, <1>6
    <3>2. Negate(r) \in Word /\ Cell(Negate(r), TRUE) = -r
      BY <1>6, <1>8, NegativeCell
    <3> QED BY ONLY <1>10, <2>1, <3>1, <3>2
  <2>2. CASE ~minus
    <3>1. r \in Int /\ ~(r >= h)
      BY ONLY SMT, <1>6, h \in Nat
    <3>2. Cell(r, TRUE) = r
      BY <1>8, <3>1 DEF Halved
    <3> QED BY ONLY <1>8, <1>10, <2>2, <3>1, <3>2
  <2> QED BY <2>1, <2>2
<1>12. Magnitudes(a, e, q, r, N, D, minus, negD)
  BY ONLY <1>2, <1>3, <1>4, <1>5, <1>6, N \in Int, D \in Int, minus \in BOOLEAN, negD \in BOOLEAN,
          q \in Nat DEF Magnitudes
<1>13. CASE minus # negD \/ q < h
  <2>1. PICK sq \in Int : Cell(o.q, TRUE) = sq /\ sq = (IF minus # negD THEN -q ELSE q)
    <3>1. CASE minus # negD
      <4>1. -q \in Int
        BY ONLY SMT, q \in Nat
      <4>2. Cell(Negate(q), TRUE) = -q
        BY <1>7, <1>8, NegativeCell
      <4> QED BY ONLY <1>10, <3>1, <4>1, <4>2
    <3>2. CASE ~(minus # negD)
      <4>0. q < h
        BY <1>13, <3>2
      <4>1. q \in Int /\ ~(q >= h)
        BY ONLY SMT, <4>0, q \in Nat, h \in Nat
      <4>2. Cell(q, TRUE) = q
        BY <1>8, <4>1 DEF Halved
      <4> QED BY ONLY <1>10, <3>2, <4>1, <4>2
    <3> QED BY <3>1, <3>2
  <2>2. SignedMagnitudes(a, e, q, r, N, D, minus, negD, sq, sr)
    BY ONLY <1>11, <1>12, <2>1 DEF SignedMagnitudes
  <2>3. Divides(N, D, sq, sr, FALSE)
    BY ONLY <2>2, SignsAre
  <2> QED BY <1>2, <1>3, <1>9, <1>10, <1>11, <2>1, <2>3 DEF DividesOrWraps
<1>14. CASE ~(minus # negD) /\ ~(q < h)
  <2>1. q = h
    BY ONLY SMT, <1>7, <1>14, q \in Nat, h \in Nat
  <2>2. e = 1 /\ r = 0 /\ a = h
    <3>1. PICK m \in Nat : e = 1 + m
      <4>1. e - 1 \in Nat /\ e = 1 + (e - 1)
        BY ONLY SMT, <1>4
      <4> QED BY ONLY <4>1
    <3>2. h * e = h + h * m /\ h * m \in Nat
      <4>1. h * (1 + m) = h + h * m /\ h * m \in Nat
        BY ONLY SMT, h \in Nat, m \in Nat
      <4> QED BY ONLY <3>1, <4>1
    <3>3. h * m = 0 /\ r = 0 /\ a = h
      <4>1. PICK y \in Nat, z \in Nat : y = h * e /\ z = h * m
        <5>1. h * e \in Nat
          BY ONLY SMT, <1>4, h \in Nat
        <5> QED BY ONLY <3>2, <5>1
      <4>2. a <= h /\ a = y + r /\ y = h + z
        BY ONLY <1>2, <1>5, <2>1, <3>2, <4>1
      <4>3. z = 0 /\ r = 0 /\ a = h
        BY ONLY SMT, <1>4, <1>6, <4>2, y \in Nat, z \in Nat, h \in Nat
      <4> QED BY ONLY <4>1, <4>3
    <3>4. m = 0
      <4>1. ASSUME m # 0 PROVE FALSE
        <5>1. PICK i \in Nat : m = 1 + i
          <6>1. m - 1 \in Nat /\ m = 1 + (m - 1)
            BY ONLY SMT, <4>1, m \in Nat
          <6> QED BY ONLY <6>1
        <5>2. h * (1 + i) = h + h * i /\ h * i \in Nat
          BY ONLY SMT, h \in Nat, i \in Nat
        <5> QED BY ONLY SMT, <5>1, <5>2, <3>3, <1>0, h \in Nat
      <4> QED BY <4>1
    <3> QED BY ONLY SMT, <3>1, <3>3, <3>4
  <2>3. minus /\ negD
    <3>1. ~(a < h)
      BY ONLY SMT, <2>2, h \in Nat
    <3>2. minus
      BY ONLY <1>2, <3>1, minus \in BOOLEAN
    <3> QED BY ONLY <1>14, <3>2, minus \in BOOLEAN, negD \in BOOLEAN
  <2>4. D = -1 /\ N = -h
    BY ONLY <1>2, <1>3, <2>2, <2>3
  <2>5. Cell(o.q, TRUE) = -h
    <3>1. h - (h + h) = -h /\ h >= h
      BY ONLY SMT, h \in Nat
    <3>2. Cell(q, TRUE) = (IF q >= h THEN q - (h + h) ELSE q)
      BY <1>8 DEF Halved
    <3>3. o.q = q
      BY ONLY <1>10, <1>14
    <3> QED BY ONLY <2>1, <3>1, <3>2, <3>3
  <2>6. sr = 0
    <3>1. 0 \in Int
      BY SMT
    <3>2. -0 = 0
      BY ONLY <3>1, MinusZero, Zenon
    <3> QED BY ONLY <1>11, <2>2, <2>3, <3>2
  <2>7. MostNegative = -h
    BY DEF Halved
  <2> QED BY ONLY <1>2, <1>3, <1>9, <1>10, <1>11, <2>4, <2>5, <2>6, <2>7 DEF DividesOrWraps
<1> QED BY <1>13, <1>14

\* The number that two cells stand for.
Stands(h, b, x, v) ==
  /\ h \in Nat /\ Halved(h) /\ b \in Nat /\ b = h + h /\ x \in Double /\ v \in Nat
  /\ v = x.high * b + x.low

\* ... signed, and unsigned.
LEMMA TwoCellsAre ==
  ASSUME NEW h, NEW b, NEW x, NEW v, Stands(h, b, x, v)
  PROVE  /\ v < h * b => TwoCells(x, TRUE) = v
         /\ v >= h * b => TwoCells(x, TRUE) = v - b * b
         /\ TwoCells(x, FALSE) = v
         /\ TwoCells(x, TRUE) = Cell(x.high, TRUE) * b + x.low
<1>a. h \in Nat /\ b \in Nat /\ v \in Nat /\ Halved(h) /\ b = h + h /\ x \in Double /\ v = x.high * b + x.low
  BY DEF Stands
<1>n. h \in Nat /\ b \in Nat /\ v \in Nat
  BY ONLY <1>a
<1>0. h \in Nat /\ h >= 2 /\ Word = 0..(h + h - 1) /\ b = Base
  BY <1>a DEF Halved
<1>1. PICK low \in Word, high \in Word : low = x.low /\ high = x.high
  BY <1>a DEF Double
<1>2. low \in 0..(b - 1) /\ high \in 0..(b - 1)
  <2>1. low \in 0..(h + h - 1) /\ high \in 0..(h + h - 1)
    BY <1>0
  <2>2. b = h + h
    BY <1>a
  <2> QED BY ONLY SMT, <2>1, <2>2, <1>n
<1>3. Cell(high, TRUE) = (IF high >= h THEN high - b ELSE high) /\ Cell(high, FALSE) = high
  <2>1. Cell(high, TRUE) = (IF high >= h THEN high - (h + h) ELSE high) /\ Cell(high, FALSE) = high
    BY <1>a DEF Halved
  <2> QED BY <1>a, <2>1
<1>4. TwoCells(x, TRUE) = Cell(high, TRUE) * b + low /\ TwoCells(x, FALSE) = high * b + low
  BY <1>0, <1>1, <1>3 DEF TwoCells
<1>5. v = high * b + low
  BY <1>a, <1>1
<1>6. CASE high >= h
  <2>1. PICK k \in Nat : high = h + k
    <3>1. high - h \in Nat /\ high = h + (high - h)
      BY ONLY SMT, <1>2, <1>6, <1>n
    <3> QED BY ONLY <3>1
  <2>2. high * b = h * b + k * b /\ k * b \in Nat /\ h * b \in Nat
    <3>1. (h + k) * b = h * b + k * b /\ k * b \in Nat /\ h * b \in Nat
      BY ONLY SMT, <1>n, k \in Nat
    <3> QED BY ONLY <2>1, <3>1
  <2>3. ~(v < h * b)
    <3>1. low \in Nat
      BY ONLY SMT, <1>2, <1>n
    <3> QED BY ONLY SMT, <1>5, <2>2, <3>1, <1>n
  <2>4. (high - b) * b + low = v - b * b
    <3>1. (high - b) * b = high * b - b * b /\ high * b \in Int /\ b * b \in Int /\ low \in Int
      BY ONLY SMT, <1>2, <1>n
    <3> QED BY ONLY SMT, <1>5, <3>1, <1>n
  <2> QED BY ONLY <1>1, <1>3, <1>4, <1>5, <1>6, <2>3, <2>4
<1>7. CASE ~(high >= h)
  <2>1. PICK k \in Nat : h = high + 1 + k
    <3>1. h - high - 1 \in Nat /\ h = high + 1 + (h - high - 1)
      BY ONLY SMT, <1>2, <1>7, <1>n
    <3> QED BY ONLY <3>1
  <2>2. h * b = high * b + b + k * b /\ k * b \in Nat /\ high * b \in Nat
    <3>1. (high + 1 + k) * b = high * b + b + k * b /\ k * b \in Nat /\ high * b \in Nat
      BY ONLY SMT, <1>2, <1>n, k \in Nat
    <3> QED BY ONLY <2>1, <3>1
  <2>3. ~(v >= h * b)
    BY ONLY SMT, <1>2, <1>5, <2>2, <1>n
  <2> QED BY ONLY <1>1, <1>3, <1>4, <1>5, <1>7, <2>3
<1> QED BY <1>6, <1>7

\* Two cells with the sign changed.
LEMMA NegativeDouble ==
  ASSUME NEW h \in Nat, Halved(h), NEW b \in Nat, b = h + h, NEW x \in Double, NEW v \in Nat, v = x.high * b + x.low,
         v <= h * b
  PROVE  double_negate(x) \in Double /\ TwoCells(double_negate(x), TRUE) = -v
<1>0. h \in Nat /\ h >= 2 /\ Word = 0..(h + h - 1) /\ b = Base /\ Base = h + h
  BY DEF Halved
<1>1. PICK low \in Word, high \in Word : low = x.low /\ high = x.high /\ x = [low |-> low, high |-> high]
  BY DEF Double
<1>2. low \in 0..(b - 1) /\ high \in 0..(b - 1)
  <2>1. low \in 0..(h + h - 1) /\ high \in 0..(h + h - 1)
    BY <1>0
  <2>2. b = h + h
    OBVIOUS
  <2> QED BY ONLY SMT, <2>1, <2>2, h \in Nat, b \in Nat
<1>3. PICK y : y = double_negate(x)
  OBVIOUS
<1>4. y.low \in Word /\ y.high \in Word
      /\ y.high * Base + y.low = IF high = 0 /\ low = 0 THEN 0 ELSE Base * Base - (high * Base + low)
  <2>1. LET d == double_negate([low |-> low, high |-> high])
        IN  /\ d.low \in Word /\ d.high \in Word
            /\ d.high * Base + d.low = IF high = 0 /\ low = 0 THEN 0 ELSE Base * Base - (high * Base + low)
    BY ONLY <1>0, low \in Word, high \in Word, h \in Nat, DoubleNegateIs
  <2>2. y = double_negate([low |-> low, high |-> high])
    BY ONLY <1>1, <1>3
  <2> QED BY ONLY <2>1, <2>2
<1>5. y \in Double
  <2>1. y = [low |-> y.low, high |-> y.high]
    BY <1>3 DEF double_negate, double_u
  <2> QED BY <1>4, <2>1 DEF Double
<1>6. v = high * b + low /\ b * b = h * b + h * b /\ h * b \in Nat /\ h * b > 0
  <2>1. b * b = h * b + h * b /\ h * b \in Nat
    <3>1. (h + h) * b = h * b + h * b /\ h * b \in Nat
      BY ONLY SMT, b \in Nat, h \in Nat
    <3> QED BY ONLY <1>0, <3>1
  <2>2. h * b > 0
    <3>1. PICK j \in Nat : h = 1 + j
      <4>1. h - 1 \in Nat /\ h = 1 + (h - 1)
        BY ONLY SMT, <1>0, h \in Nat
      <4> QED BY ONLY <4>1
    <3>2. (1 + j) * b = b + j * b /\ j * b \in Nat
      BY ONLY SMT, j \in Nat, b \in Nat
    <3>3. b > 0
      <4>1. b = h + h /\ h >= 2
        BY ONLY <1>0
      <4> QED BY ONLY SMT, <4>1, b \in Nat, h \in Nat
    <3>4. h * b = b + j * b
      BY ONLY <3>1, <3>2
    <3> QED BY ONLY SMT, <3>2, <3>3, <3>4, b \in Nat
  <2> QED BY ONLY <1>1, <2>1, <2>2, v = x.high * b + x.low
<1>7. CASE high = 0 /\ low = 0
  <2>1. y.high * b + y.low = 0
    BY ONLY <1>0, <1>4, <1>7
  <2>2. v = 0
    <3>1. 0 * b + 0 = 0
      BY ONLY SMT, b \in Nat
    <3> QED BY ONLY <1>6, <1>7, <3>1
  <2>3. 0 \in Nat /\ 0 < h * b
    BY ONLY SMT, <1>6
  <2>4. TwoCells(y, TRUE) = 0
    <3>1. Stands(h, b, y, 0)
      BY <1>5, <2>1, <2>3 DEF Stands
    <3> QED BY ONLY <2>3, <3>1, TwoCellsAre, Zenon
  <2>5. -0 = 0
    <3>1. 0 \in Int
      BY SMT
    <3> QED BY ONLY <3>1, MinusZero, Zenon
  <2> QED BY ONLY <1>3, <1>5, <2>2, <2>4, <2>5
<1>8. CASE ~(high = 0 /\ low = 0)
  <2>1. y.high * b + y.low = b * b - v
    BY ONLY <1>0, <1>4, <1>6, <1>8
  <2>2. v <= h * b
    OBVIOUS
  <2>3. PICK w \in Nat : w = b * b - v /\ w >= h * b /\ w - b * b = -v
    <3>1. b * b - v \in Nat /\ b * b - v >= h * b /\ (b * b - v) - b * b = -v
      BY ONLY SMT, <1>6, <2>2, v \in Nat, b \in Nat
    <3> QED BY ONLY <3>1
  <2>4. w = y.high * b + y.low
    BY ONLY <2>1, <2>3
  <2>5. TwoCells(y, TRUE) = w - b * b
    <3>1. Stands(h, b, y, w)
      BY <1>5, <2>4 DEF Stands
    <3>2. w >= h * b
      BY ONLY <2>3
    <3>3. /\ w < h * b => TwoCells(y, TRUE) = w
          /\ w >= h * b => TwoCells(y, TRUE) = w - b * b
          /\ TwoCells(y, FALSE) = w
          /\ TwoCells(y, TRUE) = Cell(y.high, TRUE) * b + y.low
      BY ONLY <3>1, TwoCellsAre, Zenon
    <3> QED BY ONLY <3>2, <3>3
  <2> QED BY ONLY <1>3, <1>5, <2>3, <2>5
<1> QED BY <1>7, <1>8

\* What the floor subtracts from the quotient.
LEMMA DoubleBelow ==
  ASSUME NEW h \in Nat, Halved(h), NEW b \in Nat, b = h + h, NEW x \in Double, NEW v \in Int, v = TwoCells(x, TRUE),
         -(h * b) < v
  PROVE  TwoCells(double_u((x.low - 1) % Base, IF x.low = 0 THEN (x.high - 1) % Base ELSE x.high), TRUE) = v - 1
<1>0. h \in Nat /\ h >= 2 /\ Word = 0..(h + h - 1) /\ b = Base /\ Base = h + h
  BY DEF Halved
<1>1. PICK low \in Word, high \in Word : low = x.low /\ high = x.high
  BY DEF Double
<1>2. low \in 0..(b - 1) /\ high \in 0..(b - 1) /\ b \in Nat \ {0}
  <2>1. low \in 0..(h + h - 1) /\ high \in 0..(h + h - 1)
    BY <1>0
  <2>2. b = h + h
    OBVIOUS
  <2> QED BY ONLY SMT, <2>1, <2>2, <1>0, h \in Nat, b \in Nat
<1>3. PICK c \in Int : c = Cell(high, TRUE)
  <2>1. Cell(high, TRUE) = (IF high >= h THEN high - (h + h) ELSE high)
    BY DEF Halved
  <2>2. high - (h + h) \in Int /\ high \in Int
    BY ONLY SMT, <1>2, h \in Nat
  <2> QED BY ONLY <2>1, <2>2
<1>4. v = c * b + low
  BY <1>0, <1>1, <1>3 DEF TwoCells
<1>5. CASE low # 0
  <2>1. (low - 1) % b = low - 1
    BY ONLY SMT, <1>2, <1>5
  <2>2. TwoCells(double_u(low - 1, high), TRUE) = c * b + (low - 1)
    BY <1>0, <1>3 DEF TwoCells, double_u
  <2>3. c * b + (low - 1) = v - 1
    <3>1. c * b \in Int
      BY ONLY SMT, c \in Int, b \in Nat
    <3> QED BY ONLY SMT, <1>2, <1>4, <3>1, v \in Int
  <2> QED BY ONLY <1>0, <1>1, <1>5, <2>1, <2>2, <2>3
<1>6. CASE low = 0
  <2>1. (low - 1) % b = b - 1
    BY ONLY SMT, <1>2, <1>6
  <2>2. -h < c
    <3>1. -(h * b) < v
      OBVIOUS
    <3>2. (-h) * b = -(h * b) /\ h * b \in Int /\ c * b \in Int
      BY ONLY SMT, h \in Nat, b \in Nat, c \in Int
    <3>3. v = c * b
      <4>1. c * b + 0 = c * b
        BY ONLY SMT, <3>2
      <4> QED BY ONLY <1>4, <1>6, <4>1
    <3>4. (-h) * b < c * b
      BY ONLY <3>1, <3>2, <3>3
    <3>5. -h \in Int
      BY ONLY SMT, h \in Nat
    <3> QED BY ONLY <1>2, <3>4, <3>5, c \in Int, DigitBelow
  <2>3. (high - 1) % Base \in Word /\ Cell((high - 1) % Base, TRUE) = c - 1
    BY <1>3, <2>2, CellBelow
  <2>4. TwoCells(double_u(b - 1, (high - 1) % b), TRUE) = (c - 1) * b + (b - 1)
    BY <1>0, <2>3 DEF TwoCells, double_u
  <2>5. (c - 1) * b + (b - 1) = v - 1
    <3>1. (c - 1) * b = c * b - b /\ c * b \in Int
      BY ONLY SMT, c \in Int, b \in Nat
    <3> QED BY ONLY SMT, <1>4, <1>6, <3>1, v \in Int, b \in Nat
  <2> QED BY ONLY <1>0, <1>1, <1>6, <2>1, <2>4, <2>5
<1> QED BY <1>5, <1>6

\* A division whose quotient fits is the long division.
LEMMA LowIs ==
  ASSUME NEW hi \in Word, NEW lo \in Word, NEW d \in Word, d # 0, ~(hi >= d)
  PROVE  double_ndiv(double_u(lo, hi), d, FALSE, FALSE, TRUE)
           = [res |-> "OK", q |-> LongDivision(hi, lo, d).q, r |-> LongDivision(hi, lo, d).r]
<1>1. PICK n : n = double_u(lo, hi) /\ n.low = lo /\ n.high = hi
  <2>1. double_u(lo, hi).low = lo /\ double_u(lo, hi).high = hi
    BY DEF double_u
  <2> QED BY ONLY <2>1
<1>2. Magnitude(d, FALSE) = d
  BY DEF Magnitude
<1>3. double_ndiv(n, d, FALSE, FALSE, TRUE) = Narrow(n, d, FALSE, FALSE, TRUE, FALSE, FALSE)
  BY <1>1, <1>2, Zenon DEF double_ndiv
<1>4. Narrow(n, d, FALSE, FALSE, TRUE, FALSE, FALSE)
        = Ended(LongDivision(n.high, n.low, d).q, LongDivision(n.high, n.low, d).r, d, FALSE, FALSE, FALSE, FALSE)
  BY DEF Narrow, Ended, LongDivision, Overflow
<1>5. \A x, y : Ended(x, y, d, FALSE, FALSE, FALSE, FALSE) = [res |-> "OK", q |-> x, r |-> y]
  BY DEF Ended
<1> QED BY ONLY <1>1, <1>3, <1>4, <1>5

\* The outcome of a division of magnitudes.
HasQuotient(u, n, d, b, q) ==
  /\ u.res = "OK" /\ u.q \in Double /\ u.r \in Nat /\ u.r < d
  /\ q \in Nat /\ q = u.q.high * b + u.q.low
  /\ n.high * b + n.low = q * d + u.r

\* The two divisions of e4__double_div are one of two words by one.
LEMMA DivideIs ==
  ASSUME PowersOfTwo, NEW h \in Nat, Halved(h), NEW b \in Nat, b = h + h, NEW n \in Double, NEW d \in Word, d # 0
  PROVE  \E q \in Nat : HasQuotient(DivideHigh(n, d), n, d, b, q)
<1>0. h \in Nat /\ h >= 2 /\ Word = 0..(h + h - 1) /\ b = Base /\ Base = h + h
  BY DEF Halved
<1>1. PICK low \in Word, high \in Word : low = n.low /\ high = n.high
  BY DEF Double
<1>2. low \in 0..(b - 1) /\ high \in 0..(b - 1) /\ d \in 0..(b - 1)
  <2>1. low \in 0..(h + h - 1) /\ high \in 0..(h + h - 1) /\ d \in 0..(h + h - 1)
    BY <1>0
  <2>2. b = h + h
    OBVIOUS
  <2> QED BY ONLY SMT, <2>1, <2>2, h \in Nat, b \in Nat
<1>3. d \in Nat /\ d > 0 /\ low \in Nat /\ high \in Nat
  <2>1. d # 0
    OBVIOUS
  <2> QED BY ONLY SMT, <1>2, <2>1, b \in Nat
<1>n. d \in Nat /\ low \in Nat /\ high \in Nat /\ b \in Nat
  BY ONLY <1>3, b \in Nat
<1>4. 0 \in Word /\ ~(0 >= d)
  <2>1. 0 \in 0..(h + h - 1) /\ ~(0 >= d)
    BY ONLY SMT, <1>0, <1>3, h \in Nat
  <2> QED BY ONLY <1>0, <2>1
<1>5. PICK upper : upper = IF high < d THEN [res |-> "OK", q |-> 0, r |-> high]
                       ELSE double_ndiv(double_u(high, 0), d, FALSE, FALSE, TRUE)
  OBVIOUS
<1>6. PICK tq \in Word, tr \in 0..(d - 1) :
        upper.res = "OK" /\ upper.q = tq /\ upper.r = tr /\ high = tq * d + tr
  <2>1. CASE high < d
    <3>1. upper = [res |-> "OK", q |-> 0, r |-> high]
      BY ONLY <1>5, <2>1
    <3>2. upper.res = "OK" /\ upper.q = 0 /\ upper.r = high
      BY ONLY <3>1
    <3>3. high \in 0..(d - 1) /\ high = 0 * d + high
      BY ONLY SMT, <1>n, <2>1
    <3> QED BY ONLY <1>4, <3>2, <3>3
  <2>2. CASE ~(high < d)
    <3>1. upper = [res |-> "OK", q |-> LongDivision(0, high, d).q, r |-> LongDivision(0, high, d).r]
      BY <1>4, <1>5, <2>2, LowIs
    <3>2. 0 < d
      BY ONLY <1>3
    <3>3. /\ LongDivision(0, high, d).q \in Word
          /\ LongDivision(0, high, d).r \in 0..(d - 1)
          /\ 0 * Base + high = LongDivision(0, high, d).q * d + LongDivision(0, high, d).r
      BY <1>4, <3>2, LongDivisionIs
    <3>4. 0 * Base + high = high
      <4>1. 0 * b + high = high
        BY ONLY SMT, <1>n
      <4> QED BY ONLY <1>0, <4>1
    <3>5. upper.res = "OK" /\ upper.q = LongDivision(0, high, d).q /\ upper.r = LongDivision(0, high, d).r
      BY ONLY <3>1
    <3> QED BY ONLY <3>3, <3>4, <3>5
  <2> QED BY <2>1, <2>2
<1>7. tr \in Word /\ tr < d /\ ~(tr >= d) /\ tr \in Nat
  <2>1. tr \in 0..(h + h - 1) /\ tr < d /\ ~(tr >= d) /\ tr \in Nat
    <3>1. b = h + h
      OBVIOUS
    <3> QED BY ONLY SMT, <1>2, <1>n, <3>1, h \in Nat, tr \in 0..(d - 1)
  <2> QED BY ONLY <1>0, <2>1
<1>8. PICK lq \in Word, lr \in 0..(d - 1) :
        /\ lq = LongDivision(tr, low, d).q /\ lr = LongDivision(tr, low, d).r
        /\ tr * Base + low = lq * d + lr
  <2>1. /\ LongDivision(tr, low, d).q \in Word
        /\ LongDivision(tr, low, d).r \in 0..(d - 1)
        /\ tr * Base + low = LongDivision(tr, low, d).q * d + LongDivision(tr, low, d).r
    BY <1>7, LongDivisionIs
  <2> QED BY ONLY <2>1
<1>9. double_ndiv(double_u(low, tr), d, FALSE, FALSE, TRUE) = [res |-> "OK", q |-> lq, r |-> lr]
  BY <1>7, <1>8, LowIs, ZenonT(40)
<1>10. PICK u : u = DivideHigh(n, d)
  OBVIOUS
<1>11. u = [res |-> "OK", q |-> [low |-> lq, high |-> tq], r |-> lr]
  <2>1. u = DivideLow(upper, low, d)
    BY ONLY <1>1, <1>5, <1>10, Zenon DEF DivideHigh
  <2>2. DivideLow(upper, low, d) = [res |-> "OK", q |-> double_u(lq, tq), r |-> lr]
    <3>1. double_ndiv(double_u(low, upper.r), d, FALSE, FALSE, TRUE) = [res |-> "OK", q |-> lq, r |-> lr]
      BY ONLY <1>6, <1>9
    <3>2. DivideLow(upper, low, d) =
            [res |-> upper.res,
             q |-> double_u([res |-> "OK", q |-> lq, r |-> lr].q, upper.q), r |-> [res |-> "OK", q |-> lq, r |-> lr].r]
      BY ONLY <3>1 DEF DivideLow
    <3> QED BY ONLY <1>6, <3>2
  <2> QED BY ONLY <2>1, <2>2 DEF double_u
<1>12. u.res = "OK" /\ u.q = [low |-> lq, high |-> tq] /\ u.r = lr /\ u.q.low = lq /\ u.q.high = tq
  BY ONLY <1>11
<1>13. u.q \in Double
  BY <1>12 DEF Double
<1>14. lq \in Nat /\ tq \in Nat /\ lr \in Nat /\ lr < d
  <2>1. lq \in 0..(h + h - 1) /\ tq \in 0..(h + h - 1)
    BY <1>0
  <2> QED BY ONLY SMT, <1>n, <2>1, h \in Nat, lr \in 0..(d - 1)
<1>15. PICK q \in Nat : q = tq * b + lq
  <2>1. tq * b + lq \in Nat
    BY ONLY SMT, <1>n, <1>14
  <2> QED BY ONLY <2>1
<1>16. high * b + low = q * d + lr
  <2>1. (tq * d + tr) * b = (tq * b) * d + tr * b /\ (tq * b) * d \in Nat /\ tr * b \in Nat
    BY ONLY SMT, <1>n, <1>7, <1>14
  <2>2. (tq * b + lq) * d = (tq * b) * d + lq * d /\ lq * d \in Nat
    BY ONLY SMT, <1>n, <1>14
  <2>3. tr * b + low = lq * d + lr
    BY ONLY <1>0, <1>8
  <2>4. high * b = (tq * b) * d + tr * b
    BY ONLY <1>6, <2>1
  <2>5. q * d = (tq * b) * d + lq * d
    BY ONLY <1>15, <2>2
  <2> QED BY ONLY SMT, <1>n, <1>14, <2>1, <2>2, <2>3, <2>4, <2>5
<1>17. HasQuotient(u, n, d, b, q)
  <2>1. u.r \in Nat /\ u.r < d
    BY ONLY <1>12, <1>14
  <2>2. q = u.q.high * b + u.q.low
    BY ONLY <1>12, <1>15
  <2>3. n.high * b + n.low = q * d + u.r
    BY ONLY <1>1, <1>12, <1>16
  <2> QED BY ONLY <1>12, <1>13, <2>1, <2>2, <2>3, q \in Nat DEF HasQuotient
<1> QED BY ONLY <1>10, <1>17, q \in Nat

\* e4__double_div, when the divisor is 0.
LEMMA DivideByZeroIs ==
  ASSUME NEW n \in Double, n.high \in Nat
  PROVE  DivideHigh(n, 0).res = "DIVBYZERO"
<1>1. ~(n.high < 0)
  BY SMT
<1>2. double_ndiv(double_u(n.high, 0), 0, FALSE, FALSE, TRUE) = Failed("DIVBYZERO")
  BY DEF double_ndiv
<1>3. DivideHigh(n, 0) = DivideLow(Failed("DIVBYZERO"), n.low, 0)
  BY ONLY <1>1, <1>2, Zenon DEF DivideHigh
<1>4. DivideLow(Failed("DIVBYZERO"), n.low, 0).res = Failed("DIVBYZERO").res
  BY DEF DivideLow
<1> QED BY ONLY <1>3, <1>4 DEF Failed

\* The end of e4__double_div, given the division of the magnitudes.
DivRight(o, n, d, signed, floored) ==
  /\ o.res \in {"OK", "DIVBYZERO", "RSLTOUTORANGE"} /\ o.r \in Word
  /\ o.res = "OK" => DividesOrWraps(n, d, TwoCells(o.q, signed), Cell(o.r, signed), floored, MostNegativeDouble)
  /\ o.res # "OK" => d = 0 /\ o.res = "DIVBYZERO"

\* What the signs and the floor of e4__double_div are given: u is the division of
\* the magnitudes a and e of N and D.
Signing(h, b, u, q, a, e, d, N, D, minus, negD) ==
  /\ h \in Nat /\ Halved(h) /\ b \in Nat /\ b = h + h
  /\ u.res = "OK" /\ u.q \in Double /\ u.r \in Word /\ q = u.q.high * b + u.q.low
  /\ d \in Word /\ D = Cell(d, TRUE) /\ e <= h
  /\ a <= h * b /\ (~minus => a < h * b)
  /\ Magnitudes(a, e, q, u.r, N, D, minus, negD)

Fitting(h, b, a, e, q, r) ==
  /\ h \in Nat /\ b \in Nat /\ h * b > 0 /\ a \in Nat /\ e \in Nat /\ q \in Nat /\ r \in Nat
  /\ a = q * e + r /\ r < e /\ a <= h * b

\* A quotient is as large as its dividend only for the divisor 1.
LEMMA QuotientFits ==
  ASSUME NEW h, NEW b, NEW a, NEW e, NEW q, NEW r, Fitting(h, b, a, e, q, r)
  PROVE  /\ q <= h * b
         /\ r # 0 => q < h * b
         /\ q = h * b => e = 1 /\ r = 0 /\ a = h * b
<1>a. /\ h \in Nat /\ b \in Nat /\ h * b > 0 /\ a \in Nat /\ e \in Nat /\ q \in Nat /\ r \in Nat
      /\ a = q * e + r /\ r < e /\ a <= h * b
  BY DEF Fitting
<1>b. h \in Nat /\ b \in Nat /\ a \in Nat /\ e \in Nat /\ q \in Nat /\ r \in Nat
  BY ONLY <1>a
<1>1. PICK m \in Nat : e = 1 + m
  <2>1. r < e
    BY ONLY <1>a
  <2>2. e - 1 \in Nat /\ e = 1 + (e - 1)
    BY ONLY SMT, <2>1, <1>b
  <2> QED BY ONLY <2>2
<1>2. PICK y \in Nat, p \in Nat, z \in Nat : y = h * b /\ p = q * e /\ z = q * m /\ p = q + z
  <2>1. q * (1 + m) = q + q * m /\ q * m \in Nat /\ q * e \in Nat /\ h * b \in Nat
    BY ONLY SMT, m \in Nat, <1>b
  <2> QED BY ONLY <1>1, <2>1
<1>3. a = p + r /\ a <= y /\ y > 0 /\ r < e
  BY ONLY <1>a, <1>2
<1>n. a \in Nat /\ e \in Nat /\ q \in Nat /\ r \in Nat /\ y \in Nat /\ p \in Nat /\ z \in Nat /\ m \in Nat
  BY ONLY <1>b, y \in Nat, p \in Nat, z \in Nat, m \in Nat
<1>4. q <= y
  BY ONLY SMT, <1>2, <1>3, <1>n
<1>5. m # 0 => z >= q
  <2>1. ASSUME m # 0 PROVE z >= q
    <3>1. PICK i \in Nat : m = 1 + i
      <4>1. m - 1 \in Nat /\ m = 1 + (m - 1)
        BY ONLY SMT, <2>1, <1>n
      <4> QED BY ONLY <4>1
    <3>2. q * (1 + i) = q + q * i /\ q * i \in Nat
      BY ONLY SMT, <1>n, i \in Nat
    <3>3. z = q + q * i
      BY ONLY <1>2, <3>1, <3>2
    <3> QED BY ONLY SMT, <3>2, <3>3, <1>n
  <2> QED BY <2>1
<1>6. r # 0 => m # 0
  BY ONLY SMT, <1>1, <1>3, <1>n
<1>7. m # 0 => q < y
  BY ONLY SMT, <1>2, <1>3, <1>5, <1>n
<1>8. q = y => e = 1 /\ r = 0 /\ a = y
  BY ONLY SMT, <1>1, <1>2, <1>3, <1>7, <1>n
<1> QED BY ONLY <1>2, <1>4, <1>6, <1>7, <1>8

\* e4__double_div gives the quotient its sign and floors it; nothing overflows but the one that wraps.
LEMMA WithSignsIs ==
  ASSUME NEW h, NEW b, NEW u, NEW q, NEW a, NEW e, NEW d, NEW N, NEW D, NEW minus, NEW negD,
         Signing(h, b, u, q, a, e, d, N, D, minus, negD), NEW floored \in BOOLEAN
  PROVE  DivRight(WithSigns(u, d, floored, minus, negD), N, D, TRUE, floored)
<1>a. /\ h \in Nat /\ Halved(h) /\ b \in Nat /\ b = h + h
      /\ u.res = "OK" /\ u.q \in Double /\ u.r \in Word /\ q = u.q.high * b + u.q.low
      /\ d \in Word /\ D = Cell(d, TRUE) /\ e <= h
      /\ a <= h * b /\ (~minus => a < h * b)
      /\ Magnitudes(a, e, q, u.r, N, D, minus, negD)
  BY DEF Signing
<1>0. h \in Nat /\ h >= 2 /\ Word = 0..(h + h - 1) /\ Base = h + h
  BY <1>a DEF Halved
<1>1. PICK uq \in Double, ur \in Word : uq = u.q /\ ur = u.r
  BY ONLY <1>a
<1>b. /\ a \in Nat /\ e \in Nat /\ q \in Nat /\ ur \in Nat /\ a = q * e + ur /\ ur < e
      /\ N \in Int /\ D \in Int /\ minus \in BOOLEAN /\ negD \in BOOLEAN
      /\ N = (IF minus THEN -a ELSE a) /\ D = (IF negD THEN -e ELSE e)
  BY <1>a, <1>1 DEF Magnitudes
<1>n. a \in Nat /\ e \in Nat /\ q \in Nat /\ ur \in Nat /\ h \in Nat /\ b \in Nat /\ N \in Int /\ D \in Int
  BY ONLY <1>a, <1>b
<1>2. h * b > 0 /\ h * b \in Nat /\ b * b = h * b + h * b
  <2>1. PICK j \in Nat : h = 1 + j
    <3>1. h - 1 \in Nat /\ h = 1 + (h - 1)
      BY ONLY SMT, <1>0, <1>n
    <3> QED BY ONLY <3>1
  <2>2. (1 + j) * b = b + j * b /\ j * b \in Nat
    BY ONLY SMT, j \in Nat, <1>n
  <2>3. b > 0
    <3>1. b = h + h /\ h >= 2
      BY ONLY <1>a, <1>0
    <3> QED BY ONLY SMT, <3>1, <1>n
  <2>4. h * b = b + j * b
    BY ONLY <2>1, <2>2
  <2>5. h * b > 0
    BY ONLY SMT, <2>2, <2>3, <2>4, <1>n
  <2>6. (h + h) * b = h * b + h * b /\ h * b \in Nat
    BY ONLY SMT, <1>n
  <2> QED BY ONLY <1>a, <2>5, <2>6
<1>3. /\ q <= h * b
      /\ ur # 0 => q < h * b
      /\ q = h * b => e = 1 /\ ur = 0 /\ a = h * b
  <2>1. a = q * e + ur /\ ur < e /\ a <= h * b /\ h * b > 0
    BY ONLY <1>a, <1>b, <1>2
  <2>2. a \in Nat /\ e \in Nat /\ q \in Nat /\ ur \in Nat /\ h \in Nat /\ b \in Nat
    BY ONLY <1>n
  <2>3. Fitting(h, b, a, e, q, ur)
    BY ONLY <2>1, <2>2 DEF Fitting
  <2> QED BY ONLY <2>3, QuotientFits
<1>4. ur < h /\ ur <= h /\ ~(ur >= h)
  <2>1. ur < e /\ e <= h
    BY ONLY <1>a, <1>b
  <2> QED BY ONLY SMT, <2>1, <1>n
<1>5. PICK sr \in Int, r \in Word :
        /\ r = (IF minus THEN Negate(ur) ELSE ur) /\ Cell(r, TRUE) = sr /\ sr = (IF minus THEN -ur ELSE ur)
        /\ (r # 0 <=> ur # 0)
  <2>1. CASE minus
    <3>1. -ur \in Int
      BY ONLY SMT, <1>n
    <3>2. Negate(ur) \in Word /\ Cell(Negate(ur), TRUE) = -ur
      BY <1>a, <1>4, NegativeCell
    <3>3. Negate(ur) = IF ur = 0 THEN 0 ELSE (h + h) - ur
      BY <1>a DEF Halved
    <3>4. (h + h) - ur # 0
      BY ONLY SMT, <1>0, <1>4, <1>n
    <3>5. Negate(ur) # 0 <=> ur # 0
      BY ONLY <3>3, <3>4
    <3> QED BY ONLY <2>1, <3>1, <3>2, <3>5
  <2>2. CASE ~minus
    <3>1. ur \in Int
      BY ONLY SMT, <1>n
    <3>2. Cell(ur, TRUE) = ur
      BY <1>a, <1>4 DEF Halved
    <3> QED BY ONLY <2>2, <3>1, <3>2, ur \in Word
  <2> QED BY <2>1, <2>2
<1>6. PICK sq \in Int, x \in Double :
        /\ x = (IF minus # negD THEN double_negate(uq) ELSE uq)
        /\ minus # negD \/ q < h * b => TwoCells(x, TRUE) = sq /\ sq = (IF minus # negD THEN -q ELSE q)
        /\ ~(minus # negD) /\ ~(q < h * b) => TwoCells(x, TRUE) = q - b * b
  <2>0. Stands(h, b, uq, q)
    BY ONLY <1>a, <1>1, <1>n DEF Stands
  <2>1. CASE minus # negD
    <3>1. -q \in Int
      BY ONLY SMT, <1>n
    <3>2. q = uq.high * b + uq.low /\ Halved(h) /\ b = h + h /\ q <= h * b
      BY ONLY <1>a, <1>1, <1>3
    <3>3. double_negate(uq) \in Double /\ TwoCells(double_negate(uq), TRUE) = -q
      BY ONLY <1>n, <3>2, uq \in Double, NegativeDouble
    <3> QED BY ONLY <2>1, <3>1, <3>3
  <2>2. CASE ~(minus # negD) /\ q < h * b
    <3>1. TwoCells(uq, TRUE) = q
      BY ONLY <2>0, <2>2, TwoCellsAre
    <3>2. q \in Int
      BY ONLY SMT, <1>n
    <3> QED BY ONLY <2>2, <3>1, <3>2, uq \in Double
  <2>3. CASE ~(minus # negD) /\ ~(q < h * b)
    <3>1. q >= h * b
      BY ONLY SMT, <1>2, <1>n, <2>3
    <3>2. /\ q < h * b => TwoCells(uq, TRUE) = q
          /\ q >= h * b => TwoCells(uq, TRUE) = q - b * b
          /\ TwoCells(uq, FALSE) = q
          /\ TwoCells(uq, TRUE) = Cell(uq.high, TRUE) * b + uq.low
      BY ONLY <2>0, TwoCellsAre, Zenon
    <3>3. TwoCells(uq, TRUE) = q - b * b
      BY ONLY <3>1, <3>2
    <3>4. 0 \in Int
      BY SMT
    <3> QED BY ONLY <2>3, <3>3, <3>4, uq \in Double
  <2> QED BY <2>1, <2>2, <2>3
<1>7. PICK o : o = WithSigns(u, d, floored, minus, negD)
  OBVIOUS
<1>8. CASE floored /\ r # 0 /\ minus # negD
  <2>0. minus # negD /\ ur # 0
    BY ONLY <1>5, <1>8
  <2>1. o = [res |-> "OK", r |-> (r + d) % Base,
             q |-> double_u((x.low - 1) % Base, IF x.low = 0 THEN (x.high - 1) % Base ELSE x.high)]
    BY ONLY <1>a, <1>1, <1>5, <1>6, <1>7, <1>8, Zenon DEF WithSigns
  <2>2. o.res = "OK" /\ o.r = (r + d) % Base
        /\ o.q = double_u((x.low - 1) % Base, IF x.low = 0 THEN (x.high - 1) % Base ELSE x.high)
    BY ONLY <2>1
  <2>3. TwoCells(o.q, TRUE) = sq - 1
    <3>1. sq = TwoCells(x, TRUE) /\ sq = -q
      BY ONLY <1>6, <2>0
    <3>2. -(h * b) < sq
      <4>1. q < h * b
        BY ONLY <1>3, <2>0
      <4>2. PICK z \in Nat : z = h * b
        BY ONLY <1>2
      <4>3. q < z /\ sq = -q
        BY ONLY <3>1, <4>1, <4>2
      <4>4. -z < sq
        BY ONLY SMT, <1>n, <4>3, z \in Nat, sq \in Int
      <4> QED BY ONLY <4>2, <4>4
    <3>3. Halved(h) /\ b = h + h
      BY ONLY <1>a
    <3>4. TwoCells(double_u((x.low - 1) % Base, IF x.low = 0 THEN (x.high - 1) % Base ELSE x.high), TRUE) = sq - 1
      BY ONLY <1>n, <3>1, <3>2, <3>3, x \in Double, sq \in Int, DoubleBelow, ZenonT(40)
    <3> QED BY ONLY <2>2, <3>4
  <2>4. Divides(N, D, sq - 1, sr + D, TRUE)
    <3>1. sq = (IF minus # negD THEN -q ELSE q) /\ sr = (IF minus THEN -ur ELSE ur)
      BY ONLY <1>5, <1>6, <2>0
    <3>2. SignedMagnitudes(a, e, q, ur, N, D, minus, negD, sq, sr)
      BY ONLY <1>a, <1>1, <3>1 DEF SignedMagnitudes
    <3> QED BY ONLY <2>0, <3>2, SignsAre
  <2>5. PICK y \in Int : y = sr + D /\ -h <= y /\ y < h
    <3>1. Abs(sr + D) < Abs(D)
      BY ONLY <2>4 DEF Divides
    <3>2. Abs(D) = e
      BY ONLY <1>b, <1>n, SizeIs
    <3>3. PICK y \in Int : y = sr + D
      <4>1. sr + D \in Int
        BY ONLY SMT, sr \in Int, <1>n
      <4> QED BY ONLY <4>1
    <3>4. Abs(y) < e /\ e <= h
      BY ONLY <1>a, <3>1, <3>2, <3>3
    <3>5. -h <= y /\ y < h
      BY ONLY SMT, <3>4, <1>n, y \in Int DEF Abs
    <3> QED BY ONLY <3>3, <3>5
  <2>6. (r + d) % Base \in Word /\ Cell((r + d) % Base, TRUE) = y
    <3>1. y = Cell(r, TRUE) + Cell(d, TRUE)
      BY ONLY <1>a, <1>5, <2>5
    <3>2. Sum(h, r, d, y)
      BY ONLY <1>a, <2>5, <3>1, r \in Word, y \in Int DEF Sum
    <3> QED BY ONLY <3>2, CellOfSum
  <2>7. floored = TRUE /\ DividesOrWraps(N, D, TwoCells(o.q, TRUE), Cell(o.r, TRUE), TRUE, MostNegativeDouble)
    <3>1. Divides(N, D, TwoCells(o.q, TRUE), Cell(o.r, TRUE), TRUE)
      BY ONLY <2>2, <2>3, <2>4, <2>5, <2>6
    <3> QED BY ONLY <1>8, <3>1, floored \in BOOLEAN DEF DividesOrWraps
  <2> QED BY ONLY <1>7, <2>2, <2>6, <2>7, Zenon DEF DivRight
<1>9. CASE ~(floored /\ r # 0 /\ minus # negD)
  <2>1. o = [res |-> "OK", q |-> x, r |-> r]
    BY ONLY <1>a, <1>1, <1>5, <1>6, <1>7, <1>9, Zenon DEF WithSigns
  <2>2. o.res = "OK" /\ o.q = x /\ o.r = r
    BY ONLY <2>1
  <2>3. CASE minus # negD \/ q < h * b
    <3>1. TwoCells(o.q, TRUE) = sq /\ sq = (IF minus # negD THEN -q ELSE q) /\ sr = (IF minus THEN -ur ELSE ur)
      BY ONLY <1>5, <1>6, <2>2, <2>3
    <3>2. SignedMagnitudes(a, e, q, ur, N, D, minus, negD, sq, sr)
      BY ONLY <1>a, <1>1, <3>1 DEF SignedMagnitudes
    <3>3. /\ Divides(N, D, sq, sr, FALSE)
          /\ ~(ur # 0 /\ minus # negD) => Divides(N, D, sq, sr, TRUE)
      BY ONLY <3>2, SignsAre
    <3>4. Divides(N, D, sq, sr, floored)
      BY ONLY <1>5, <1>9, <3>3, floored \in BOOLEAN
    <3>5. DividesOrWraps(N, D, TwoCells(o.q, TRUE), Cell(o.r, TRUE), floored, MostNegativeDouble)
      BY ONLY <1>5, <2>2, <3>1, <3>4 DEF DividesOrWraps
    <3> QED BY ONLY <1>7, <2>2, <3>5, r \in Word, Zenon DEF DivRight
  <2>4. CASE ~(minus # negD) /\ ~(q < h * b)
    <3>1. q = h * b
      <4>1. q <= h * b
        BY ONLY <1>3
      <4> QED BY ONLY SMT, <1>2, <1>n, <2>4, <4>1
    <3>2. e = 1 /\ ur = 0 /\ a = h * b
      BY ONLY <1>3, <3>1
    <3>3. minus
      <4>1. ~(a < h * b)
        BY ONLY SMT, <3>2, <1>2, <1>n
      <4> QED BY ONLY <1>a, <1>b, <4>1
    <3>4. negD
      BY ONLY <1>b, <2>4, <3>3
    <3>5. N = -(h * b) /\ D = -1
      BY ONLY <1>b, <3>2, <3>3, <3>4
    <3>6. TwoCells(o.q, TRUE) = N
      <4>1. TwoCells(o.q, TRUE) = q - b * b
        BY ONLY <1>6, <2>2, <2>4
      <4>2. q - b * b = -(h * b)
        <5>1. PICK z \in Nat, s \in Nat : z = h * b /\ s = b * b /\ s = z + z /\ q = z
          <6>1. b * b \in Nat
            BY ONLY SMT, <1>n
          <6> QED BY ONLY <1>2, <3>1, <6>1
        <5>2. q - s = -z
          BY ONLY SMT, <5>1, <1>n
        <5> QED BY ONLY <5>1, <5>2
      <4> QED BY ONLY <3>5, <4>1, <4>2
    <3>7. Cell(o.r, TRUE) = 0
      <4>1. 0 \in Int
        BY SMT
      <4>2. -0 = 0
        BY ONLY <4>1, MinusZero, Zenon
      <4> QED BY ONLY <1>5, <2>2, <3>2, <3>3, <4>2
    <3>8. MostNegativeDouble = -(h * b)
      <4>1. Base \div 2 = h /\ Base = b
        BY <1>a DEF Halved
      <4> QED BY ONLY <4>1 DEF MostNegativeDouble
    <3>9. DividesOrWraps(N, D, TwoCells(o.q, TRUE), Cell(o.r, TRUE), floored, MostNegativeDouble)
      BY ONLY <3>5, <3>6, <3>7, <3>8 DEF DividesOrWraps
    <3> QED BY ONLY <1>7, <2>2, <3>9, r \in Word, Zenon DEF DivRight
  <2> QED BY <2>3, <2>4
<1> QED BY <1>8, <1>9

\* A division of two cells by one with a quotient of two cells is right.
LEMMA DdivIs ==
  ASSUME PowersOfTwo, NEW h \in Nat, Halved(h), NEW n \in Double, NEW d \in Word,
         NEW signed \in BOOLEAN, NEW floored \in BOOLEAN, floored => signed
  PROVE  DivRight(double_div(n, d, signed, floored), TwoCells(n, signed), Cell(d, signed), signed, floored)
<1>0. h \in Nat /\ h >= 2 /\ Word = 0..(h + h - 1) /\ Base = h + h
  BY DEF Halved
<1>1. PICK minus \in BOOLEAN, negD \in BOOLEAN :
        minus = (signed /\ IsNegative(n.high)) /\ negD = (signed /\ IsNegative(d))
  BY DEF IsNegative
<1>2. PICK nn \in Double, a \in Nat, b \in Nat :
        /\ nn = IF minus THEN double_negate(n) ELSE n
        /\ b = Base /\ b = h + h /\ a = nn.high * b + nn.low
        /\ TwoCells(n, signed) = (IF minus THEN -a ELSE a)
        /\ signed => a <= h * b
        /\ signed /\ ~minus => a < h * b
        /\ a < b * b
  BY <1>1, SizeOfDouble
<1>3. PICK nd \in Word :
        /\ nd = Magnitude(d, signed)
        /\ Cell(d, signed) = (IF negD THEN -nd ELSE nd)
        /\ signed => nd <= h
        /\ signed /\ ~negD => nd < h
        /\ nd = 0 <=> d = 0
        /\ Cell(d, signed) \in Int
  BY <1>1, SizeOfCell
<1>4. PICK N \in Int, D \in Int : N = TwoCells(n, signed) /\ D = Cell(d, signed)
  <2>1. -a \in Int /\ a \in Int
    BY ONLY SMT, a \in Nat
  <2> QED BY ONLY <1>2, <1>3, <2>1
<1>5. PICK u, o : u = DivideHigh(nn, nd) /\ o = double_div(n, d, signed, floored)
  OBVIOUS
<1>6. o = WithSigns(u, d, signed /\ floored, minus, negD)
  BY ONLY <1>1, <1>2, <1>3, <1>5, Zenon DEF double_div
<1>7. nd \in Nat /\ 0 \in Word
  <2>1. nd \in 0..(h + h - 1) /\ 0 \in 0..(h + h - 1)
    BY ONLY SMT, <1>0, nd \in Word
  <2> QED BY ONLY SMT, <1>0, <2>1
<1>8. CASE d = 0
  <2>1. nd = 0 /\ nn.high \in Nat
    <3>1. nn.high \in Word
      BY DEF Double
    <3>2. nn.high \in 0..(h + h - 1)
      BY ONLY <1>0, <3>1
    <3>3. nn.high \in Nat
      BY ONLY SMT, <3>2, h \in Nat
    <3> QED BY ONLY <1>3, <1>8, <3>3
  <2>2. u.res = "DIVBYZERO"
    BY <1>5, <2>1, DivideByZeroIs
  <2>3. o = Failed("DIVBYZERO")
    BY ONLY <1>6, <2>2 DEF WithSigns
  <2>4. o.res = "DIVBYZERO" /\ o.r = 0
    BY ONLY <2>3 DEF Failed
  <2>5. D = 0
    <3>1. 0 \in Int
      BY SMT
    <3>2. -0 = 0
      BY ONLY <3>1, MinusZero, Zenon
    <3> QED BY ONLY <1>3, <1>4, <2>1, <3>2
  <2> QED BY ONLY <1>4, <1>5, <1>7, <2>4, <2>5, Zenon DEF DivRight
<1>9. CASE d # 0
  <2>1. nd # 0
    BY ONLY <1>3, <1>9
  <2>2. PICK q \in Nat : HasQuotient(u, nn, nd, b, q)
    BY <1>2, <1>5, <2>1, DivideIs
  <2>3. /\ u.res = "OK" /\ u.q \in Double /\ u.r \in Nat /\ u.r < nd
        /\ q = u.q.high * b + u.q.low /\ a = q * nd + u.r
    BY ONLY <1>2, <2>2 DEF HasQuotient
  <2>4. u.r \in Word
    <3>1. nd \in 0..(h + h - 1)
      BY ONLY <1>0, nd \in Word
    <3>2. u.r \in Nat /\ u.r < nd
      BY ONLY <2>3
    <3>3. u.r \in 0..(h + h - 1)
      BY ONLY SMT, <3>1, <3>2, h \in Nat
    <3> QED BY ONLY <1>0, <3>3
  <2>5. Magnitudes(a, nd, q, u.r, N, D, minus, negD)
    BY ONLY <1>2, <1>3, <1>4, <1>7, <2>3, N \in Int, D \in Int, minus \in BOOLEAN, negD \in BOOLEAN,
            a \in Nat, q \in Nat DEF Magnitudes
  <2>6. CASE signed
    <3>1. Halved(h) /\ d \in Word /\ signed = TRUE
      BY <2>6
    <3>2. Signing(h, b, u, q, a, nd, d, N, D, minus, negD)
      BY ONLY <1>2, <1>3, <1>4, <2>3, <2>4, <2>5, <3>1, h \in Nat, b \in Nat DEF Signing
    <3>3. DivRight(WithSigns(u, d, floored, minus, negD), N, D, TRUE, floored)
      BY ONLY <3>2, floored \in BOOLEAN, WithSignsIs
    <3>4. (signed /\ floored) = floored
      BY ONLY <3>1, floored \in BOOLEAN
    <3> QED BY ONLY <1>4, <1>5, <1>6, <3>1, <3>3, <3>4
  <2>7. CASE ~signed
    <3>1. ~minus /\ ~negD /\ ~floored /\ signed = FALSE /\ floored = FALSE
      <4>1. ~floored
        BY <2>7
      <4> QED BY ONLY <1>1, <2>7, <4>1, signed \in BOOLEAN, floored \in BOOLEAN
    <3>2. o = [res |-> "OK", q |-> u.q, r |-> u.r]
      BY ONLY <1>6, <2>3, <3>1 DEF WithSigns
    <3>3. o.res = "OK" /\ o.q = u.q /\ o.r = u.r
      BY ONLY <3>2
    <3>4. TwoCells(o.q, FALSE) = q
      <4>1. Halved(h)
        OBVIOUS
      <4>2. Stands(h, b, u.q, q)
        BY ONLY <1>2, <2>3, <4>1, h \in Nat, b \in Nat, q \in Nat DEF Stands
      <4>3. /\ q < h * b => TwoCells(u.q, TRUE) = q
            /\ q >= h * b => TwoCells(u.q, TRUE) = q - b * b
            /\ TwoCells(u.q, FALSE) = q
            /\ TwoCells(u.q, TRUE) = Cell(u.q.high, TRUE) * b + u.q.low
        BY ONLY <4>2, TwoCellsAre, Zenon
      <4> QED BY ONLY <3>3, <4>3
    <3>5. Cell(o.r, FALSE) = u.r
      BY ONLY <3>3 DEF Cell
    <3>6. Divides(N, D, q, u.r, FALSE)
      <4>1. q = (IF minus # negD THEN -q ELSE q) /\ u.r = (IF minus THEN -u.r ELSE u.r)
        BY ONLY <3>1
      <4>2. SignedMagnitudes(a, nd, q, u.r, N, D, minus, negD, q, u.r)
        BY ONLY <2>5, <4>1 DEF SignedMagnitudes
      <4> QED BY ONLY <4>2, SignsAre
    <3>7. DividesOrWraps(N, D, TwoCells(o.q, FALSE), Cell(o.r, FALSE), FALSE, MostNegativeDouble)
      BY ONLY <3>4, <3>5, <3>6 DEF DividesOrWraps
    <3> QED BY ONLY <1>4, <1>5, <2>4, <3>1, <3>3, <3>7, Zenon DEF DivRight
  <2> QED BY <2>6, <2>7
<1> QED BY <1>8, <1>9

\* The outcome of a product is two cells.
LEMMA NegatedIs == \A d : double_negate(d) = [low |-> double_negate(d).low, high |-> double_negate(d).high]
BY DEF double_negate, double_u

\* e4__usize_mul gives two cells, of the product.
LEMMA MulIsDouble ==
  ASSUME PowersOfTwo, NEW l \in Word, NEW r \in Word, NEW signed \in BOOLEAN
  PROVE  usize_mul(l, r, signed) \in Double /\ TwoCells(usize_mul(l, r, signed), signed) = Cell(l, signed) * Cell(r, signed)
<1>1. PICK p, d : p = Product(Magnitude(l, signed), Magnitude(r, signed)) /\ d = usize_mul(l, r, signed)
  OBVIOUS
<1>2. d = IF signed /\ IsNegative(l) # IsNegative(r) THEN double_negate(p) ELSE p
  BY ONLY <1>1, MulIs
<1>3. p = [low |-> p.low, high |-> p.high]
  BY <1>1 DEF Product, double_u
<1>4. d = [low |-> d.low, high |-> d.high]
  BY ONLY <1>2, <1>3, NegatedIs
<1>5. d.low \in Word /\ d.high \in Word /\ TwoCells(d, signed) = Cell(l, signed) * Cell(r, signed)
  BY <1>1, MulIsExact
<1>6. d \in Double
  BY ONLY <1>4, <1>5 DEF Double
<1> QED BY ONLY <1>1, <1>5, <1>6

-----------------------------------------------------------------------------
\* What a step that divides stores, of the numbers N and D it divides.
IsRight ==
  /\ word \in Divisions => out.res \in {"OK", "DIVBYZERO", "RSLTOUTORANGE"} /\ out.r \in Word
  /\ DivisionIsExact
  /\ RangeErrorsAreJustified

\* The most negative number has no quotient by -1.
Wraps(w, N, D, q, r) ==
  /\ w \in {"/MOD", "double_div"} /\ D = -1 /\ q = N /\ r = 0
  /\ N = IF w = "/MOD" THEN MostNegative ELSE MostNegativeDouble

Outcome(w, o, N, D, signed, floored) ==
  LET q == IF w = "double_div" THEN TwoCells(o.q, signed) ELSE Cell(o.q, signed)
      r == Cell(o.r, signed)
  IN  /\ w \in Divisions /\ N \in Int /\ D \in Int
      /\ o.res \in {"OK", "DIVBYZERO", "RSLTOUTORANGE"} /\ o.r \in Word
      /\ o.res = "OK" => \/ Divides(N, D, q, r, floored)
                         \/ Wraps(w, N, D, q, r)
      /\ o.res # "OK" => IF D = 0 THEN o.res = "DIVBYZERO"
                         ELSE o.res = "RSLTOUTORANGE" /\ OutOfRange(N, D, signed, floored)

\* An outcome that is right for the operands of its word is what the properties ask for.
LEMMA OutcomeIs ==
  ASSUME NEW N, NEW D, NEW signed \in BOOLEAN, NEW floored \in BOOLEAN,
         IsSigned' = signed, IsFloored' = floored, Dividend' = N, Divisor' = D,
         Outcome(word', out', N, D, signed, floored)
  PROVE  IsRight'
<1> DEFINE q == IF word' = "double_div" THEN TwoCells(out'.q, signed) ELSE Cell(out'.q, signed)
           r == Cell(out'.r, signed)
<1>0. /\ word' \in Divisions /\ N \in Int /\ D \in Int
      /\ out'.res \in {"OK", "DIVBYZERO", "RSLTOUTORANGE"} /\ out'.r \in Word
      /\ out'.res = "OK" => \/ Divides(N, D, q, r, floored)
                            \/ Wraps(word', N, D, q, r)
      /\ out'.res # "OK" => IF D = 0 THEN out'.res = "DIVBYZERO"
                            ELSE out'.res = "RSLTOUTORANGE" /\ OutOfRange(N, D, signed, floored)
  BY Zenon DEF Outcome
<1> HIDE DEF q, r
<1>1. out'.res = "OK" =>
        /\ Wraps(word', N, D, q, r) \/ N = q * D + r
        /\ Abs(r) < Abs(D)
        /\ r # 0 => (r < 0) = ((IF floored THEN D ELSE N) < 0)
  <2>1. CASE Divides(N, D, q, r, floored)
    BY ONLY <2>1, Zenon DEF Divides
  <2>2. CASE Wraps(word', N, D, q, r)
    <3>1. Abs(0) < Abs(-1)
      BY ONLY SMT DEF Abs
    <3> QED BY ONLY <2>2, <3>1 DEF Wraps
  <2> QED BY ONLY <1>0, <2>1, <2>2, Zenon
<1>2. DivisionIsExact'
  BY ONLY <1>1, IsSigned' = signed, IsFloored' = floored, Dividend' = N, Divisor' = D, Zenon
     DEF DivisionIsExact, Wraps, q, r, TwoCells, Cell, Abs
<1>3. Quotient' = QuotientOf(N, D, floored)
  BY ONLY IsFloored' = floored, Dividend' = N, Divisor' = D DEF Quotient, QuotientOf, Abs
<1>4. RangeErrorsAreJustified'
  <2>1. out'.res # "OK" =>
          IF D = 0 THEN out'.res = "DIVBYZERO"
          ELSE out'.res = "RSLTOUTORANGE" /\ OutOfRange(N, D, signed, floored)
    BY ONLY <1>0
  <2> QED BY ONLY <1>3, <2>1, IsSigned' = signed, Divisor' = D, Zenon DEF RangeErrorsAreJustified, OutOfRange
<1> QED BY <1>0, <1>2, <1>4 DEF IsRight

\* A division of two cells by one, with the flags of its word.
LEMMA NdivStep ==
  ASSUME PowersOfTwo, NEW n \in Double, NEW d \in Word, NEW signed \in BOOLEAN, NEW floored \in BOOLEAN, floored => signed,
         word' \in Divisions, word' # "double_div", IsSigned' = signed, IsFloored' = floored,
         Dividend' = TwoCells(n, signed), Divisor' = Cell(d, signed),
         out' = double_ndiv(n, d, signed, floored, TRUE)
  PROVE  IsRight'
<1>1. PICK h \in Nat : Halved(h)
  BY HalvedIs
<1>2. PICK N, D, o : N = TwoCells(n, signed) /\ D = Cell(d, signed) /\ o = double_ndiv(n, d, signed, floored, TRUE)
  OBVIOUS
<1>3. Right(o, N, D, signed, floored)
  BY <1>1, <1>2, NdivIs
<1>4. N \in Int /\ D \in Int
  <2>1. D \in Int
    BY <1>1, <1>2, SizeOfCell
  <2>2. PICK a \in Nat, minus \in BOOLEAN : N = (IF minus THEN -a ELSE a)
    <3>1. PICK minus \in BOOLEAN : minus = (signed /\ IsNegative(n.high))
      BY DEF IsNegative
    <3>2. PICK nn \in Double, a \in Nat, b \in Nat :
            /\ nn = IF minus THEN double_negate(n) ELSE n
            /\ b = Base /\ b = h + h /\ a = nn.high * b + nn.low
            /\ TwoCells(n, signed) = (IF minus THEN -a ELSE a)
            /\ signed => a <= h * b
            /\ signed /\ ~minus => a < h * b
            /\ a < b * b
      BY <1>1, <3>1, SizeOfDouble
    <3> QED BY ONLY <1>2, <3>2, minus \in BOOLEAN, a \in Nat
  <2>3. -a \in Int /\ a \in Int
    BY ONLY SMT, a \in Nat
  <2> QED BY ONLY <2>1, <2>2, <2>3
<1>5. Outcome(word', out', N, D, signed, floored)
  <2>1. out' = o /\ word' \in Divisions /\ word' # "double_div"
    BY <1>2
  <2> QED BY ONLY <1>3, <1>4, <2>1, Zenon DEF Outcome, Right
<1>6. IsSigned' = signed /\ IsFloored' = floored /\ Dividend' = N /\ Divisor' = D
  BY <1>2
<1> QED BY ONLY <1>5, <1>6, signed \in BOOLEAN, floored \in BOOLEAN, OutcomeIs

\* Every word that divides stores what is right, for its operands and its flags.
LEMMA DivisionsNext ==
  ASSUME PowersOfTwo, NumericNext
  PROVE  IsRight'
<1>0. \A u \in Operands : u \in Word
  BY OperandsAssumption
<1>00. \A d \in Doubles : d \in Double
  BY <1>0 DEF Doubles, Double
<1>1. CASE UM_SLASH_MOD
  <2>1. PICK d \in Doubles, n \in Operands :
          word' = "UM/MOD" /\ args' = <<d, n>> /\ out' = double_ndiv(d, n, FALSE, FALSE, TRUE)
    BY <1>1 DEF UM_SLASH_MOD, Execute
  <2>2. word' \in Divisions /\ word' # "double_div" /\ IsSigned' = FALSE /\ IsFloored' = FALSE
    BY <2>1 DEF Divisions, IsSigned, IsFloored
  <2>3. args'[1] = d /\ args'[2] = n
    BY <2>1
  <2>4. Dividend' = TwoCells(d, FALSE) /\ Divisor' = Cell(n, FALSE)
    BY ONLY <2>1, <2>2, <2>3 DEF Dividend, Divisor, TwoCells, Cell
  <2> QED BY <1>0, <1>00, <2>1, <2>2, <2>4, NdivStep
<1>2. CASE SM_SLASH_REM
  <2>1. PICK d \in Doubles, n \in Operands :
          word' = "SM/REM" /\ args' = <<d, n>> /\ out' = double_ndiv(d, n, TRUE, FALSE, TRUE)
    BY <1>2 DEF SM_SLASH_REM, Execute
  <2>2. word' \in Divisions /\ word' # "double_div" /\ IsSigned' = TRUE /\ IsFloored' = FALSE
    BY <2>1 DEF Divisions, IsSigned, IsFloored
  <2>3. args'[1] = d /\ args'[2] = n
    BY <2>1
  <2>4. Dividend' = TwoCells(d, TRUE) /\ Divisor' = Cell(n, TRUE)
    BY ONLY <2>1, <2>2, <2>3 DEF Dividend, Divisor, TwoCells, Cell
  <2> QED BY <1>0, <1>00, <2>1, <2>2, <2>4, NdivStep
<1>3. CASE FM_SLASH_MOD
  <2>1. PICK d \in Doubles, n \in Operands :
          word' = "FM/MOD" /\ args' = <<d, n>> /\ out' = double_ndiv(d, n, TRUE, TRUE, TRUE)
    BY <1>3 DEF FM_SLASH_MOD, Execute
  <2>2. word' \in Divisions /\ word' # "double_div" /\ IsSigned' = TRUE /\ IsFloored' = TRUE
    BY <2>1 DEF Divisions, IsSigned, IsFloored
  <2>3. args'[1] = d /\ args'[2] = n
    BY <2>1
  <2>4. Dividend' = TwoCells(d, TRUE) /\ Divisor' = Cell(n, TRUE)
    BY ONLY <2>1, <2>2, <2>3 DEF Dividend, Divisor, TwoCells, Cell
  <2> QED BY <1>0, <1>00, <2>1, <2>2, <2>4, NdivStep
<1>4. CASE STAR_SLASH_MOD
  <2>1. PICK l \in Operands, r \in Operands, d \in Operands :
          word' = "*/MOD" /\ args' = <<l, r, d>> /\ out' = double_ndiv(usize_mul(l, r, TRUE), d, TRUE, FALSE, TRUE)
    BY <1>4 DEF STAR_SLASH_MOD, Execute
  <2>2. word' \in Divisions /\ word' # "double_div" /\ IsSigned' = TRUE /\ IsFloored' = FALSE
    BY <2>1 DEF Divisions, IsSigned, IsFloored
  <2>3. args'[1] = l /\ args'[2] = r /\ args'[3] = d
    BY <2>1
  <2>4. usize_mul(l, r, TRUE) \in Double /\ TwoCells(usize_mul(l, r, TRUE), TRUE) = Cell(l, TRUE) * Cell(r, TRUE)
    BY <1>0, MulIsDouble
  <2>5. Dividend' = TwoCells(usize_mul(l, r, TRUE), TRUE) /\ Divisor' = Cell(d, TRUE)
    <3>1. Dividend' = Cell(l, TRUE) * Cell(r, TRUE) /\ Divisor' = Cell(d, TRUE)
      BY ONLY <2>1, <2>2, <2>3 DEF Dividend, Divisor, Cell
    <3> QED BY ONLY <2>4, <3>1
  <2> QED BY <1>0, <2>1, <2>2, <2>4, <2>5, NdivStep
<1>5. CASE SLASH_MOD
  <2>1. PICK n \in Operands, d \in Operands :
          word' = "/MOD" /\ args' = <<n, d>> /\ out' = IF d = 0 THEN Failed("DIVBYZERO") ELSE usize_sdiv(n, d)
    BY <1>5 DEF SLASH_MOD, Execute
  <2>2. word' \in Divisions /\ word' # "double_div" /\ IsSigned' = TRUE /\ IsFloored' = FALSE
    BY <2>1 DEF Divisions, IsSigned, IsFloored
  <2>3. args'[1] = n /\ args'[2] = d
    BY <2>1
  <2>4. PICK N, D, o : N = Cell(n, TRUE) /\ D = Cell(d, TRUE) /\ o = out'
    OBVIOUS
  <2>5. Dividend' = N /\ Divisor' = D
    BY ONLY <2>1, <2>2, <2>3, <2>4 DEF Dividend, Divisor, Cell
  <2>6. PICK h \in Nat : Halved(h)
    BY HalvedIs
  <2>7. N \in Int /\ D \in Int
    BY <1>0, <2>4, <2>6, SizeOfCell
  <2>8. Outcome(word', o, N, D, TRUE, FALSE)
    <3>1. CASE d = 0
      <4>1. o = Failed("DIVBYZERO")
        BY ONLY <2>1, <2>4, <3>1
      <4>2. o.res = "DIVBYZERO" /\ o.r = 0
        BY ONLY <4>1 DEF Failed
      <4>3. D = 0 /\ 0 \in Word
        <5>1. /\ Word = 0..(h + h - 1) /\ h >= 2
              /\ \A u \in Word : Cell(u, TRUE) = (IF u >= h THEN u - (h + h) ELSE u)
          BY ONLY <2>6 DEF Halved
        <5>2. 0 \in 0..(h + h - 1) /\ ~(0 >= h)
          BY ONLY SMT, <5>1, h \in Nat
        <5> QED BY ONLY <2>4, <3>1, <5>1, <5>2
      <4> QED BY ONLY <2>2, <2>7, <4>2, <4>3, Zenon DEF Outcome
    <3>2. CASE d # 0
      <4>1. o = usize_sdiv(n, d)
        BY ONLY <2>1, <2>4, <3>2
      <4>2. o.res = "OK" /\ o.r \in Word
            /\ DividesOrWraps(N, D, Cell(o.q, TRUE), Cell(o.r, TRUE), FALSE, MostNegative)
        <5>1. LET p == usize_sdiv(n, d)
              IN  /\ p.res = "OK" /\ p.r \in Word
                  /\ DividesOrWraps(Cell(n, TRUE), Cell(d, TRUE), Cell(p.q, TRUE), Cell(p.r, TRUE), FALSE, MostNegative)
          BY <1>0, <2>6, <3>2, SdivIs
        <5> QED BY ONLY <2>4, <4>1, <5>1
      <4> QED BY ONLY <2>1, <2>2, <2>7, <4>2, Zenon DEF Outcome, DividesOrWraps, Wraps
    <3> QED BY <3>1, <3>2
  <2>9. Outcome(word', out', N, D, TRUE, FALSE)
    BY ONLY <2>4, <2>8
  <2> QED BY ONLY <2>2, <2>5, <2>9, OutcomeIs
<1>6. CASE DoubleDiv
  <2>1. PICK d \in Doubles, n \in Operands, signed \in BOOLEAN, floored \in BOOLEAN :
          /\ floored => signed
          /\ word' = "double_div" /\ args' = <<d, n, <<signed, floored>>>> /\ out' = double_div(d, n, signed, floored)
    <3>1. PICK d \in Doubles, n \in Operands, flags \in {<<FALSE, FALSE>>, <<TRUE, FALSE>>, <<TRUE, TRUE>>} :
            word' = "double_div" /\ args' = <<d, n, flags>> /\ out' = double_div(d, n, flags[1], flags[2])
      BY <1>6 DEF DoubleDiv, Execute
    <3>2. PICK signed \in BOOLEAN, floored \in BOOLEAN : flags = <<signed, floored>> /\ (floored => signed)
      <4>1. flags = <<FALSE, FALSE>> \/ flags = <<TRUE, FALSE>> \/ flags = <<TRUE, TRUE>>
        OBVIOUS
      <4> QED BY ONLY <4>1, Zenon
    <3>3. flags[1] = signed /\ flags[2] = floored
      BY ONLY <3>2
    <3> QED BY ONLY <3>1, <3>2, <3>3, Zenon
  <2>2. args'[1] = d /\ args'[2] = n /\ args'[3][1] = signed /\ args'[3][2] = floored
    BY <2>1
  <2>3. word' \in Divisions /\ IsSigned' = signed /\ IsFloored' = floored
    BY <2>1, <2>2 DEF Divisions, IsSigned, IsFloored
  <2>4. PICK N, D, o : N = TwoCells(d, signed) /\ D = Cell(n, signed) /\ o = out'
    OBVIOUS
  <2>5. Dividend' = N /\ Divisor' = D
    BY ONLY <2>1, <2>2, <2>3, <2>4 DEF Dividend, Divisor, TwoCells, Cell
  <2>6. PICK h \in Nat : Halved(h)
    BY HalvedIs
  <2>7. N \in Int /\ D \in Int
    <3>1. D \in Int
      BY <1>0, <2>4, <2>6, SizeOfCell
    <3>2. PICK minus \in BOOLEAN : minus = (signed /\ IsNegative(d.high))
      BY DEF IsNegative
    <3>3. PICK nn \in Double, a \in Nat, b \in Nat :
            /\ nn = IF minus THEN double_negate(d) ELSE d
            /\ b = Base /\ b = h + h /\ a = nn.high * b + nn.low
            /\ TwoCells(d, signed) = (IF minus THEN -a ELSE a)
            /\ signed => a <= h * b
            /\ signed /\ ~minus => a < h * b
            /\ a < b * b
      BY <1>00, <2>6, <3>2, SizeOfDouble
    <3>4. -a \in Int /\ a \in Int
      BY ONLY SMT, a \in Nat
    <3> QED BY ONLY <2>4, <3>1, <3>3, <3>4
  <2>8. DivRight(o, N, D, signed, floored)
    BY <1>0, <1>00, <2>1, <2>4, <2>6, DdivIs
  <2>9. Outcome(word', out', N, D, signed, floored)
    <3>1. out' = o /\ word' = "double_div" /\ word' \in Divisions
      BY ONLY <2>1, <2>3, <2>4
    <3> QED BY ONLY <2>7, <2>8, <3>1, Zenon DEF Outcome, DivRight, DividesOrWraps, Wraps
  <2> QED BY ONLY <2>3, <2>5, <2>9, signed \in BOOLEAN, floored \in BOOLEAN, OutcomeIs
<1>7. CASE ~(UM_SLASH_MOD \/ SM_SLASH_REM \/ FM_SLASH_MOD \/ STAR_SLASH_MOD \/ SLASH_MOD \/ DoubleDiv)
  <2>1. word' \notin Divisions
    BY <1>7 DEF NumericNext, Call, Return, Execute, Divisions, UM_STAR, M_STAR, LOOP_INC, TIME_AND_DATE, Interpret,
       TO_NUMBER, NUMBER_SIGN_S, FormatCell
  <2> QED BY ONLY <2>1 DEF IsRight, DivisionIsExact, RangeErrorsAreJustified
<1> QED BY <1>1, <1>2, <1>3, <1>4, <1>5, <1>6, <1>7

\* A set of numbers has a smallest.
LEMMA SmallestIs ==
  ASSUME NEW T, T \subseteq Nat, T # {}
  PROVE  \E x \in T : \A y \in T : ~(y < x)
<1>1. IsWellFoundedOn({ss \in Nat \X Nat : ss[1] < ss[2]}, Nat)
  BY NatLessThanWellFounded DEF OpToRel
<1>2. PICK x \in T : \A y \in T : <<y, x>> \notin {ss \in Nat \X Nat : ss[1] < ss[2]}
  BY <1>1, WFMin
<1>3. \A y \in T : ~(y < x)
  BY <1>2
<1> QED BY <1>3

\* e4__mem_number consumes no more than the text.
LEMMA CountIs ==
  ASSUME NEW n \in Nat, n >= 1, NEW buf, NEW base, NEW flags
  PROVE  mem_number(buf, n, base, flags).count \in 0..n
<1> DEFINE negate == "NEG_PREFIX" \in flags /\ buf[1] = "-"
           first  == IF negate THEN 2 ELSE 1
           prefix == IF "BASE_PREFIX" \in flags /\ n > 1
                     THEN Prefix(buf, n, first, Clamp(base)) ELSE <<0, Clamp(base)>>
           start  == first + prefix[1]
           Ends(e) == /\ \A i \in start..(e - 1) : IsDigit(buf[i], prefix[2])
                      /\ e <= n => ~IsDigit(buf[e], prefix[2])
           end    == CHOOSE e \in start..(n + 1) : Ends(e)
           number == Value(SubSeq(buf, start, end - 1), prefix[2])
<1>1. mem_number(buf, n, base, flags) =
        IF "CHAR_LITERAL" \in flags /\ n > 2 /\ buf[1] = "'" /\ buf[3] = "'"
        THEN [count |-> 3, out |-> buf[2]]
        ELSE IF end = start THEN [count |-> 0, out |-> 0]
        ELSE [count |-> end - 1, out |-> IF negate THEN Negate(number) ELSE number]
  BY DEF mem_number
<1> HIDE DEF number
<1>2. first \in 1..2
  <2> HIDE DEF negate
  <2> QED BY SMT
<1> HIDE DEF negate, first
<1>3. prefix[1] \in 0..2 /\ (prefix[1] = 2 => n > 2) /\ (prefix[1] = 1 => n > 1)
  <2>1. CASE "BASE_PREFIX" \in flags /\ n > 1
    <3>1. prefix = Prefix(buf, n, first, Clamp(base))
      BY <2>1
    <3> HIDE DEF prefix
    <3>2. \/ n > 2 /\ prefix = <<2, Radix[buf[first + 1]]>>
          \/ prefix = <<1, Sigil[buf[first]]>>
          \/ prefix = <<0, Clamp(base)>>
      BY <3>1 DEF Prefix
    <3>3. (n > 2 /\ prefix[1] = 2) \/ prefix[1] = 1 \/ prefix[1] = 0
      BY ONLY <3>2
    <3> QED BY ONLY SMT, <2>1, <3>3, n \in Nat
  <2>2. CASE ~("BASE_PREFIX" \in flags /\ n > 1)
    <3>1. prefix[1] = 0
      BY <2>2
    <3> HIDE DEF prefix
    <3> QED BY ONLY SMT, <3>1
  <2> QED BY <2>1, <2>2
<1> HIDE DEF prefix
<1>4. start \in 1..(n + 1)
  <2>1. PICK x \in 0..2 : x = prefix[1]
    BY ONLY <1>3
  <2>2. (x = 2 => n > 2) /\ (x = 1 => n > 1) /\ n >= 1
    BY <1>3, <2>1
  <2>3. PICK y \in 1..2 : y = first
    BY ONLY <1>2
  <2>4. y + x \in 1..(n + 1)
    BY ONLY SMT, <2>2, x \in 0..2, y \in 1..2, n \in Nat
  <2> QED BY ONLY <2>1, <2>3, <2>4 DEF start
<1> HIDE DEF start
<1>5. \E e \in start..(n + 1) : Ends(e)
  <2> DEFINE T == {e \in start..(n + 1) : e = n + 1 \/ ~IsDigit(buf[e], prefix[2])}
  <2>1. T \subseteq Nat /\ n + 1 \in T
    BY <1>4, SMT
  <2> HIDE DEF T
  <2>2. PICK x \in T : \A y \in T : ~(y < x)
    BY <2>1, SmallestIs
  <2>3. x \in start..(n + 1) /\ (x = n + 1 \/ ~IsDigit(buf[x], prefix[2]))
    BY <2>2 DEF T
  <2>4. ASSUME NEW i \in start..(x - 1) PROVE IsDigit(buf[i], prefix[2])
    <3>1. i \in start..(n + 1) /\ i < x /\ i # n + 1
      BY ONLY SMT, <1>4, <2>3, i \in start..(x - 1), n \in Nat
    <3>2. i \notin T
      BY ONLY <2>2, <3>1
    <3> QED BY <3>1, <3>2 DEF T
  <2>5. x <= n => ~IsDigit(buf[x], prefix[2])
    <3>1. x <= n => x # n + 1
      BY ONLY SMT, <1>4, <2>3, n \in Nat
    <3> QED BY ONLY <2>3, <3>1
  <2> QED BY <2>3, <2>4, <2>5
<1> HIDE DEF Ends
<1>6. end \in start..(n + 1)
  BY <1>5
<1> HIDE DEF end
<1>7. 0 \in 0..n /\ (n > 2 => 3 \in 0..n) /\ end - 1 \in 0..n
  BY ONLY SMT, <1>4, <1>6, n \in Nat
<1>8. \/ mem_number(buf, n, base, flags).count = 3 /\ n > 2
      \/ mem_number(buf, n, base, flags).count = 0
      \/ mem_number(buf, n, base, flags).count = end - 1
  BY ONLY <1>1
<1> QED BY ONLY <1>7, <1>8

-----------------------------------------------------------------------------
\* The month and the day that e4__usize_togmt gives are ones of a calendar.
LEMMA DayOfIs ==
  ASSUME NEW y, NEW day \in 0..366
  PROVE  DayOf(y, day).mon \in 1..12 /\ DayOf(y, day).mday \in 1..31
<1>1. PICK k \in 1..13 : k = MonthOf(day) /\ Before[k] <= day /\ (k <= 12 => day < Before[k + 1])
  BY MonthIs
<1>2. DayOf(y, day).mon = ((k + 1) % 12) + 1 /\ DayOf(y, day).mday = day - Before[k] + 1
  BY ONLY <1>1 DEF DayOf
<1>3. ((k + 1) % 12) + 1 \in 1..12
  BY ONLY SMT, k \in 1..13
<1>4. day - Before[k] + 1 \in 1..31
  <2>1. Before[k] \in Int /\ (k <= 12 => Before[k + 1] \in Int /\ Before[k + 1] <= Before[k] + 31) /\ (k = 13 => Before[k] = 366)
    BY BeforeIs, SMT
  <2>2. PICK x \in Int : x = Before[k]
    BY ONLY <2>1
  <2>3. CASE k <= 12
    <3>1. PICK z \in Int : z = Before[k + 1]
      BY ONLY <2>1, <2>3
    <3>2. x <= day /\ day < z /\ z <= x + 31
      BY ONLY <1>1, <2>1, <2>2, <2>3, <3>1
    <3>3. day - x + 1 \in 1..31
      BY ONLY SMT, <3>2, x \in Int, z \in Int, day \in 0..366
    <3> QED BY ONLY <2>2, <3>3
  <2>4. CASE ~(k <= 12)
    <3>1. k = 13
      BY ONLY SMT, <2>4, k \in 1..13
    <3>2. x = 366 /\ x <= day
      BY ONLY <1>1, <2>1, <2>2, <3>1
    <3>3. day - x + 1 \in 1..31
      BY ONLY SMT, <3>2, x \in Int, day \in 0..366
    <3> QED BY ONLY <2>2, <3>3
  <2> QED BY <2>3, <2>4
<1> QED BY ONLY <1>2, <1>3, <1>4

\* ... as e4__usize_togmt finds them.
LEMMA GmtIs ==
  ASSUME NEW t \in Nat
  PROVE  togmt(t).mon \in 1..12 /\ togmt(t).mday \in 1..31
<1>1. CASE t >= 11017
  <2>1. PICK q, c, f, d, y, k :
           /\ Cycles(t - 11017, q, c, f, d, y, k)
           /\ togmt(t) = IF k = 0 /\ (f # 0 \/ c % 4 = 0) THEN LeapDay(2000 + Years(q, c, f, y))
                         ELSE DayOf(2000 + Years(q, c, f, y), k)
    BY <1>1, LaterDays
  <2>2. k \in 0..366
    <3>1. k \in Nat /\ k <= 364
      BY ONLY <2>1 DEF Cycles
    <3> QED BY ONLY SMT, <3>1
  <2>3. CASE togmt(t) = LeapDay(2000 + Years(q, c, f, y))
    <3>1. togmt(t).mon = 2 /\ togmt(t).mday = 29
      BY ONLY <2>3 DEF LeapDay
    <3>2. 2 \in 1..12 /\ 29 \in 1..31
      BY SMT
    <3> QED BY ONLY <3>1, <3>2
  <2>4. CASE togmt(t) = DayOf(2000 + Years(q, c, f, y), k)
    <3>1. PICK z : z = 2000 + Years(q, c, f, y)
      OBVIOUS
    <3>2. togmt(t) = DayOf(z, k)
      BY ONLY <2>4, <3>1
    <3>3. DayOf(z, k).mon \in 1..12 /\ DayOf(z, k).mday \in 1..31
      BY ONLY <2>2, DayOfIs
    <3> QED BY ONLY <3>2, <3>3
  <2> QED BY ONLY <2>1, <2>3, <2>4
<1>2. CASE t < 11017
  <2>1. PICK q, c, f, d, y, k :
           /\ Cycles(11017 - t, q, c, f, d, y, k)
           /\ togmt(t) = DayOf(2000 - (Years(q, c, f, y) + 1), 366 - k)
    BY <1>2, EarlierDays
  <2>2. 366 - k \in 0..366
    <3>1. k \in Nat /\ k <= 364
      BY ONLY <2>1 DEF Cycles
    <3> QED BY ONLY SMT, <3>1
  <2>3. PICK z, x : z = 2000 - (Years(q, c, f, y) + 1) /\ x = 366 - k
    OBVIOUS
  <2>4. togmt(t) = DayOf(z, x) /\ x \in 0..366
    BY ONLY <2>1, <2>2, <2>3
  <2>5. DayOf(z, x).mon \in 1..12 /\ DayOf(z, x).mday \in 1..31
    BY ONLY <2>4, DayOfIs
  <2> QED BY ONLY <2>4, <2>5
<1>3. t >= 11017 \/ t < 11017
  BY SMT
<1> QED BY <1>1, <1>2, <1>3

-----------------------------------------------------------------------------
\* Every word stores an outcome of its type.
LEMMA NumericTypesNext ==
  ASSUME PowersOfTwo, NumericNext
  PROVE  NumericTypeOK'
<1>0. \A u \in Operands : u \in Word
  BY OperandsAssumption
<1>1. word' \in Divisions => out'.res \in {"OK", "DIVBYZERO", "RSLTOUTORANGE"} /\ out'.r \in Word
  BY DivisionsNext DEF IsRight
<1>2. word' \in {"UM*", "M*"} => out' \in [low : Word, high : Word]
  <2>1. ASSUME word' \in {"UM*", "M*"}
        PROVE  \E l, r \in Operands, signed \in BOOLEAN : out' = usize_mul(l, r, signed)
    <3>1. CASE UM_STAR
      BY <3>1 DEF UM_STAR, Execute
    <3>2. CASE M_STAR
      BY <3>2 DEF M_STAR, Execute
    <3>3. CASE ~UM_STAR /\ ~M_STAR
      BY <2>1, <3>3 DEF NumericNext, Call, Return, Execute, LOOP_INC, UM_SLASH_MOD, SM_SLASH_REM, FM_SLASH_MOD,
         STAR_SLASH_MOD, SLASH_MOD, DoubleDiv, TIME_AND_DATE, Interpret, TO_NUMBER, NUMBER_SIGN_S, FormatCell
    <3> QED BY <3>1, <3>2, <3>3
  <2> QED BY <1>0, <2>1, MulIsDouble DEF Double
<1>3. word' \in {"print", "format"} => out'.res \in {"OK", "PNOOVERFLOW"}
  <2>1. CASE NUMBER_SIGN_S
    <3>1. PICK d, base, signed, n : out' = pno_digits(n, base, signed, d)
      BY <2>1 DEF NUMBER_SIGN_S, Execute
    <3>2. PICK digits, negative : out' = Shown(n, digits, negative)
      BY ONLY <3>1 DEF pno_digits
    <3> QED BY ONLY <3>2 DEF Shown
  <2>2. CASE FormatCell
    <3>1. PICK text : out' = [res |-> "OK", text |-> text]
      BY <2>2 DEF FormatCell, Execute
    <3> QED BY ONLY <3>1
  <2>3. CASE ~NUMBER_SIGN_S /\ ~FormatCell
    BY <2>3 DEF NumericNext, Call, Return, Execute, LOOP_INC, UM_SLASH_MOD, SM_SLASH_REM, FM_SLASH_MOD,
       STAR_SLASH_MOD, SLASH_MOD, DoubleDiv, TIME_AND_DATE, Interpret, TO_NUMBER, UM_STAR, M_STAR
  <2> QED BY <2>1, <2>2, <2>3
<1>4. word' \in {"number", ">NUMBER"} => out'.count \in 0..(Len(args'[1]) - 1)
  <2>0. ASSUME NEW t \in Texts, NEW base, NEW flags
        PROVE  mem_number(t, Len(t) - 1, base, flags).count \in 0..(Len(t) - 1)
    <3>1. Len(t) \in Nat /\ Len(t) >= 2
      BY OperandsAssumption
    <3>2. Len(t) - 1 \in Nat /\ Len(t) - 1 >= 1
      BY ONLY SMT, <3>1
    <3> QED BY ONLY <3>2, CountIs
  <2>1. CASE Interpret
    <3>1. PICK t \in Texts, base \in Bases : args' = <<t, base>> /\ out' = mem_number(t, Len(t) - 1, base, AllFlags)
      BY <2>1 DEF Interpret, Execute
    <3>2. args'[1] = t
      BY ONLY <3>1
    <3> QED BY ONLY <2>0, <3>1, <3>2
  <2>2. CASE TO_NUMBER
    <3>1. PICK t \in Texts, base \in Bases, initial \in Initials :
            /\ args' = <<t, base, initial>>
            /\ out' = [mem_number(t, Len(t) - 1, base, {}) EXCEPT !.out = (@ + initial * base) % Base]
      BY <2>2 DEF TO_NUMBER, Execute
    <3>2. args'[1] = t /\ out'.count = mem_number(t, Len(t) - 1, base, {}).count
      BY ONLY <3>1
    <3> QED BY ONLY <2>0, <3>2, t \in Texts
  <2>3. CASE ~Interpret /\ ~TO_NUMBER
    BY <2>3 DEF NumericNext, Call, Return, Execute, LOOP_INC, UM_SLASH_MOD, SM_SLASH_REM, FM_SLASH_MOD,
       STAR_SLASH_MOD, SLASH_MOD, DoubleDiv, TIME_AND_DATE, NUMBER_SIGN_S, FormatCell, UM_STAR, M_STAR
  <2> QED BY <2>1, <2>2, <2>3
<1>5. word' = "TIME&DATE" => out'.mon \in 1..12 /\ out'.mday \in 1..31
  <2>1. CASE TIME_AND_DATE
    <3>1. PICK t \in Days : out' = togmt(t)
      BY <2>1 DEF TIME_AND_DATE, Execute
    <3>2. t \in Nat
      BY OperandsAssumption
    <3> QED BY ONLY <3>1, <3>2, GmtIs
  <2>2. CASE ~TIME_AND_DATE
    BY <2>2 DEF NumericNext, Call, Return, Execute, LOOP_INC, UM_SLASH_MOD, SM_SLASH_REM, FM_SLASH_MOD,
       STAR_SLASH_MOD, SLASH_MOD, DoubleDiv, NUMBER_SIGN_S, FormatCell, UM_STAR, M_STAR, Interpret, TO_NUMBER
  <2> QED BY <2>1, <2>2
<1> QED BY <1>1, <1>2, <1>3, <1>4, <1>5 DEF NumericTypeOK

\* Products and divisions are exact, or refused for a reason, for every size of the
\* cells: the carries, the digits of the long division, the signs, the floor and the
\* overflows are right for all operands (e4__usize_mul, e4__double_ndiv,
\* e4__double_div, e4__usize_sdiv); and every outcome is of its type.
THEOREM ResultsAreRight == PowersOfTwo => (NumericSpec => []ResultsAreExact)
<1> SUFFICES ASSUME PowersOfTwo PROVE NumericSpec => []ResultsAreExact
  OBVIOUS
<1>1. NumericInit => ResultsAreExact
  BY DEF NumericInit, ResultsAreExact, NumericTypeOK, ProductsAreExact, DivisionIsExact, RangeErrorsAreJustified, Divisions
<1>2. ResultsAreExact /\ [NumericNext]_numericVars => ResultsAreExact'
  <2>1. CASE NumericNext
    <3>1. NumericTypeOK'
      BY <2>1, NumericTypesNext
    <3>2. DivisionIsExact' /\ RangeErrorsAreJustified'
      BY <2>1, DivisionsNext DEF IsRight
    <3>3. ResultsAreExact => ProductsAreExact'
      BY <2>1, ProductsNext DEF ResultsAreExact
    <3> QED BY ONLY <3>1, <3>2, <3>3 DEF ResultsAreExact
  <2>2. CASE UNCHANGED numericVars
    <3>1. word' = word /\ args' = args /\ out' = out
      BY <2>2 DEF numericVars
    <3>2. IsSigned' = IsSigned /\ IsFloored' = IsFloored /\ Dividend' = Dividend /\ Divisor' = Divisor
      BY ONLY <3>1 DEF IsSigned, IsFloored, Dividend, Divisor, TwoCells, Cell
    <3>3. Quotient' = Quotient
      BY ONLY <3>2 DEF Quotient, Abs
    <3>4. NumericTypeOK => NumericTypeOK'
      BY ONLY <3>1 DEF NumericTypeOK, Divisions
    <3>5. ProductsAreExact => ProductsAreExact'
      BY ONLY <3>1 DEF ProductsAreExact, TwoCells, Cell
    <3>6. DivisionIsExact => DivisionIsExact'
      BY ONLY <3>1, <3>2, Zenon DEF DivisionIsExact, TwoCells, Cell, Abs, Divisions
    <3>7. RangeErrorsAreJustified => RangeErrorsAreJustified'
      BY ONLY <3>1, <3>2, <3>3, Zenon DEF RangeErrorsAreJustified, Divisions
    <3> QED BY ONLY <3>4, <3>5, <3>6, <3>7 DEF ResultsAreExact
  <2> QED BY <2>1, <2>2
<1> QED BY <1>1, <1>2, PTL DEF NumericSpec

=============================================================================
