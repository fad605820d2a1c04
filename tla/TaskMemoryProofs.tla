-------------------------- MODULE TaskMemoryProofs --------------------------
(***************************************************************************)
(* A task keeps its regions apart and its reserve for pictured numeric     *)
(* output, and what it reports about its memory is exact, for every size   *)
(* of cells, addresses, tasks and buffers that leaves room for the reserve *)
(* between the task structure and PAD.  And the input of a task: every     *)
(* piece of a text is parsed once and in order, and the words that are     *)
(* executed are those of the branches that were chosen.                    *)
(***************************************************************************)
EXTENDS TaskMemory, Input, SequenceTheorems, FiniteSetTheorems, WellFoundedInduction, TLAPS

\* Every buffer that is accepted has that room.  e4__TASK_MIN_SZ alone does
\* not give it: on a 64 bit machine a task is larger than its minimal size.
Roomy ==
  \A n \in Sizes :
    LET size == CELL * (n \div CELL) IN
      size >= TASK_MIN_SZ =>
        Base + TASK + PNO_MIN_SZ <= Base + CELL * ((70 * size) \div (100 * CELL))

\* The size is one that e4__task_create accepts; it never changes.
Sized == sz \in {CELL * (n \div CELL) : n \in Sizes} /\ sz >= TASK_MIN_SZ

\* `here' stays in the buffer, above the task structure.
HereIsInBuffer == here \in Nat /\ LowerBound <= here /\ here <= Base + sz

\* The PNO buffer may have been written below `here', but not below this.
Lowest == LowerBound - 2 * MaxDigits - 1
Known(p) ==
  /\ p \in [end : {NULL, pad - 1}, offset : Nat]
  /\ p.end = NULL <=> p.offset = NULL
  /\ p.offset # NULL => Lowest <= p.offset /\ p.offset <= pad - 1

Inductive ==
  /\ Sized /\ HereIsInBuffer /\ Known(pno)
  /\ checked \in BOOLEAN
  /\ ReserveIsKept /\ DotIsPrinted

-----------------------------------------------------------------------------
\* Division by a positive number, as a bound from both sides.
LEMMA Quotient ==
  ASSUME NEW a \in Nat, NEW d \in Nat, d > 0
  PROVE  /\ a \div d \in Nat
         /\ d * (a \div d) <= a
         /\ a < d * (a \div d) + d
OBVIOUS

\* ... is monotonic.
LEMMA QuotientGrows ==
  ASSUME NEW a \in Nat, NEW b \in Nat, NEW d \in Nat, d > 0, a <= b
  PROVE  a \div d <= b \div d
<1> DEFINE q == a \div d
           r == b \div d
<1>1. q \in Nat /\ r \in Nat /\ d * q <= a /\ b < d * r + d
  BY Quotient
<1> HIDE DEF q, r
<1>2. SUFFICES ASSUME q > r PROVE FALSE
  BY <1>1 DEF q, r
<1>3. d * q >= d * (r + 1)
  BY <1>1, <1>2
<1>4. d * (r + 1) = d * r + d
  BY <1>1
<1> QED BY <1>1, <1>3, <1>4

\* Unsigned arithmetic that does not leave the address space.
LEMMA WrapKeeps ==
  ASSUME NEW n \in Int
  PROVE  Wrap(n) \in 0..(Modulus - 1) /\ (n \in 0..(Modulus - 1) => Wrap(n) = n)
BY MachineAssumption DEF Wrap

\* The constants are numbers.
LEMMA Numbers ==
  /\ Base \in Nat /\ CELL \in Nat /\ TASK \in Nat /\ PNO_MIN_SZ \in Nat /\ Modulus \in Nat
  /\ MaxDigits \in Nat /\ MaxLen \in Nat /\ TASK_MIN_SZ \in Nat
  /\ Base > 0 /\ CELL > 0 /\ TASK > 0 /\ PNO_MIN_SZ > 0 /\ Modulus > 0
  /\ MaxDigits >= 2 /\ MaxLen > 0
  /\ 2 * MaxDigits + 2 <= PNO_MIN_SZ
  /\ MaxLen + 2 * MaxDigits + 1 < Base + TASK
BY MachineAssumption, SizesAssumption

\* Where a region starts that is cut off at a percentage of the buffer.
Share(s, p) == CELL * ((p * s) \div (100 * CELL))

\* It lies inside, and further up for a larger percentage.
LEMMA Shares ==
  ASSUME NEW s \in Nat, NEW p \in 0..100, NEW q \in 0..100, p <= q
  PROVE  Share(s, p) \in Nat /\ Share(s, p) <= Share(s, q) /\ Share(s, p) <= s
<1> DEFINE d == 100 * CELL
<1>1. d \in Nat /\ d > 0 /\ p * s \in Nat /\ q * s \in Nat
  BY Numbers
<1>2. p * s <= q * s /\ p * s <= 100 * s
  OBVIOUS
<1> HIDE DEF d
<1> DEFINE a == (p * s) \div d
           b == (q * s) \div d
<1>3. a \in Nat /\ b \in Nat /\ d * a <= p * s /\ a <= b
  BY <1>1, <1>2, Quotient, QuotientGrows
<1> HIDE DEF a, b
<1>4. CELL * a <= CELL * b /\ CELL * a \in Nat
  BY <1>3, Numbers
<1>5. d * a = 100 * (CELL * a)
  BY <1>3, Numbers DEF d
<1>6. CELL * a <= s
  BY <1>2, <1>3, <1>4, <1>5
<1> QED BY <1>4, <1>6 DEF a, b, d, Share

\* The regions of a task of an accepted size.
LEMMA Regions ==
  ASSUME Sized, Roomy
  PROVE  /\ sz \in Nat /\ pad \in Nat /\ sl \in Nat /\ tib \in Nat /\ rl \in Nat
         /\ s0 \in Int /\ r0 \in Int
         /\ LowerBound \in Nat /\ UpperBound \in Nat /\ LayoutIsOrdered
         /\ LowerBound + PNO_MIN_SZ <= pad /\ UpperBound = pad - PNO_MIN_SZ
         /\ pad <= Base + sz /\ Base + sz + MaxLen < Modulus
<1>1. PICK n \in Sizes : sz = CELL * (n \div CELL)
  BY DEF Sized
<1>2. n \in Nat /\ n \div CELL \in Nat /\ CELL * (n \div CELL) <= n
  BY MachineAssumption, Numbers, Quotient
<1>3. sz \in Nat /\ sz <= n /\ sz >= TASK_MIN_SZ
  BY <1>1, <1>2, Numbers DEF Sized
<1>4. Base + sz + MaxLen < Modulus
  BY <1>2, <1>3, Numbers, SizesAssumption
<1>5. LowerBound + PNO_MIN_SZ <= pad
  BY <1>1, <1>3 DEF Roomy, pad, At, LowerBound
<1>6. /\ Share(sz, 70) \in Nat /\ Share(sz, 70) <= Share(sz, 75) /\ Share(sz, 70) <= sz
      /\ Share(sz, 75) \in Nat /\ Share(sz, 75) <= Share(sz, 85)
      /\ Share(sz, 85) \in Nat /\ Share(sz, 85) <= Share(sz, 90)
      /\ Share(sz, 90) \in Nat /\ Share(sz, 90) <= sz
  BY SMTT(40), <1>3, Shares
<1>7. /\ pad = Base + Share(sz, 70) /\ sl = Base + Share(sz, 75)
      /\ tib = Base + Share(sz, 85) /\ rl = Base + Share(sz, 90)
      /\ s0 = Base + Share(sz, 85) - CELL /\ r0 = Base + sz - CELL
  BY <1>6, Numbers DEF pad, sl, tib, rl, s0, r0, At, Share
<1>8. LowerBound \in Nat /\ LowerBound = Base + TASK /\ UpperBound = pad - PNO_MIN_SZ
  BY Numbers DEF LowerBound, UpperBound
<1>9. LayoutIsOrdered
  BY <1>3, <1>5, <1>6, <1>7, <1>8, Numbers DEF LayoutIsOrdered
<1> QED BY <1>3, <1>4, <1>5, <1>6, <1>7, <1>8, <1>9, Numbers

\* They stay where they are while the size does.
LEMMA RegionsStay ==
  ASSUME sz' = sz
  PROVE  /\ pad' = pad /\ sl' = sl /\ tib' = tib /\ rl' = rl /\ s0' = s0 /\ r0' = r0
         /\ LowerBound' = LowerBound /\ UpperBound' = UpperBound
         /\ LayoutIsOrdered' = LayoutIsOrdered /\ Lowest' = Lowest
         /\ Sized' = Sized
BY DEF pad, sl, tib, rl, s0, r0, At, LowerBound, UpperBound, LayoutIsOrdered, Lowest, Sized

\* What the invariant says of the addresses, with their bounds.
LEMMA Facts ==
  ASSUME Inductive, Roomy
  PROVE  /\ here \in Nat /\ sz \in Nat /\ pad \in Nat /\ Lowest \in Nat
         /\ LowerBound \in Nat /\ UpperBound \in Nat /\ UpperBound = pad - PNO_MIN_SZ
         /\ LowerBound <= here /\ here <= Base + sz /\ pad <= Base + sz
         /\ LowerBound + PNO_MIN_SZ <= pad /\ Base + sz + MaxLen < Modulus
         /\ Lowest > MaxLen /\ Lowest = LowerBound - 2 * MaxDigits - 1
         /\ LowerBound = Base + TASK
         /\ pno \in [end : {NULL, pad - 1}, offset : Nat] /\ pno.offset \in Nat
         /\ (pno.end = NULL <=> pno.offset = NULL) /\ pno.end \in {NULL, pad - 1}
         /\ pno.offset # NULL => Lowest <= pno.offset /\ pno.offset <= pad - 1
         /\ checked \in BOOLEAN
<1>1. /\ here \in Nat /\ sz \in Nat /\ pad \in Nat
      /\ LowerBound \in Nat /\ UpperBound \in Nat /\ UpperBound = pad - PNO_MIN_SZ
      /\ LowerBound <= here /\ here <= Base + sz /\ pad <= Base + sz
      /\ LowerBound + PNO_MIN_SZ <= pad /\ Base + sz + MaxLen < Modulus
  BY Regions DEF Inductive, HereIsInBuffer
<1>2. /\ Lowest \in Nat /\ Lowest > MaxLen /\ LowerBound = Base + TASK
      /\ Lowest = LowerBound - 2 * MaxDigits - 1
  BY Numbers DEF Lowest, LowerBound
<1>3. /\ pno \in [end : {NULL, pad - 1}, offset : Nat]
      /\ (pno.end = NULL <=> pno.offset = NULL)
      /\ pno.offset # NULL => Lowest <= pno.offset /\ pno.offset <= pad - 1
      /\ checked \in BOOLEAN
  BY DEF Inductive, Known
<1>4. pno.offset \in Nat /\ pno.end \in {NULL, pad - 1}
  BY <1>3
<1> QED BY <1>1, <1>2, <1>3, <1>4

\* A step that leaves the dictionary alone, and is not `.'.
LEMMA PnoIsInductive ==
  ASSUME Inductive, Known(pno'), UNCHANGED <<sz, here, checked>>, last'.op # "dot"
  PROVE  Inductive'
<1>1. sz' = sz /\ here' = here /\ checked' = checked
  OBVIOUS
<1>2. Sized' /\ HereIsInBuffer' /\ ReserveIsKept'
  BY <1>1, RegionsStay DEF Inductive, HereIsInBuffer, ReserveIsKept
<1>3. DotIsPrinted' /\ checked' \in BOOLEAN
  BY <1>1 DEF DotIsPrinted, Inductive
<1>4. Known(pno)'
  BY <1>1, RegionsStay DEF Known
<1> QED BY <1>2, <1>3, <1>4 DEF Inductive

\* The characters that are written next lie below the others.
LEMMA OffsetMoves ==
  ASSUME Inductive, Roomy, NEW p, Known(p), p.offset # NULL,
         NEW k \in Nat, Lowest <= p.offset - k
  PROVE  Known([p EXCEPT !.offset = @ - k])
<1> DEFINE q == [p EXCEPT !.offset = @ - k]
<1>1. /\ p \in [end : {NULL, pad - 1}, offset : Nat] /\ p.offset \in Nat /\ Lowest \in Nat
      /\ Lowest > MaxLen /\ MaxLen \in Nat /\ pad \in Nat /\ p.offset <= pad - 1
      /\ p.end \in {NULL, pad - 1} /\ p.end # NULL
  BY Facts, Numbers DEF Known
<1>2. q = [end |-> p.end, offset |-> p.offset - k]
  BY <1>1
<1>3. p.offset - k \in Nat /\ p.offset - k # NULL /\ p.offset - k <= pad - 1
  BY <1>1 DEF NULL
<1> HIDE DEF q
<1>4. Known(q)
  BY <1>1, <1>2, <1>3 DEF Known
<1> QED BY <1>4 DEF q

\* The buffer begins just below PAD, or there is none.
LEMMA PnoBegins ==
  ASSUME Inductive, Roomy
  PROVE  Known(Started) /\ Known([end |-> NULL, offset |-> NULL])
<1>1. /\ pad \in Nat /\ LowerBound \in Nat /\ LowerBound + PNO_MIN_SZ <= pad
      /\ Lowest \in Nat /\ Lowest = LowerBound - 2 * MaxDigits - 1
  BY Facts
<1>2. pad - 1 \in Nat /\ pad - 1 # NULL /\ Lowest <= pad - 1
  BY <1>1, Numbers DEF NULL
<1> QED BY <1>1, <1>2 DEF Started, Known, NULL

-----------------------------------------------------------------------------
\* One character.
LEMMA HoldKeeps ==
  ASSUME Inductive, Roomy, NEW p, Known(p)
  PROVE  Known(Hold(p).pno)
<1>1. CASE p.offset = NULL \/ p.offset < here
  BY <1>1 DEF Hold, Gives
<1>2. CASE p.offset # NULL /\ ~(p.offset < here)
  <2>1. Hold(p).pno = [p EXCEPT !.offset = @ - 1]
    BY <1>2 DEF Hold, Gives
  <2>2. Lowest <= p.offset - 1 /\ 1 \in Nat
    BY <1>2, Facts, Numbers DEF Known
  <2> QED BY ZenonT(20), <1>2, <2>1, <2>2, OffsetMoves
<1> QED BY <1>1, <1>2

\* A string: an address that wrapped around would not be below `here'.
LEMMA HoldsKeeps ==
  ASSUME Inductive, Roomy, NEW p, Known(p), NEW len \in 0..MaxLen
  PROVE  Known(Holds(p, len).pno)
<1>1. CASE p.offset = NULL \/ Wrap(p.offset - len) < here - 1
  BY <1>1 DEF Holds, Gives
<1>2. CASE p.offset # NULL /\ ~(Wrap(p.offset - len) < here - 1)
  <2>1. Holds(p, len).pno = [p EXCEPT !.offset = @ - len]
    BY <1>2 DEF Holds, Gives
  <2>2. p.offset \in Nat /\ Lowest <= p.offset /\ p.offset <= pad - 1
    BY <1>2 DEF Known
  <2>3. p.offset - len \in 0..(Modulus - 1) /\ len \in Nat
    BY <2>2, Facts, Numbers
  <2>4. Wrap(p.offset - len) = p.offset - len
    BY <2>3, WrapKeeps
  <2>5. Lowest <= p.offset - len
    BY <1>2, <2>3, <2>4, Facts, Numbers
  <2> QED BY <1>2, <2>1, <2>3, <2>5, OffsetMoves
<1> QED BY <1>1, <1>2

\* Digits and a sign, even when the space for them is miscounted.
LEMMA DigitsKeep ==
  ASSUME Inductive, Roomy, NEW p, Known(p),
         NEW n \in 1..(2 * MaxDigits), NEW negative \in BOOLEAN,
         negative => n <= MaxDigits
  PROVE  Known(Digits(p, n, negative).pno)
<1>1. CASE p.offset = NULL \/ p.offset < here
  BY <1>1 DEF Digits, Gives
<1>2. CASE p.offset # NULL /\ ~(p.offset < here)
  <2> DEFINE avail == Wrap(p.offset - here - 1)
             wrote == IF n <= avail THEN n ELSE avail
             sign  == IF negative /\ avail > wrote THEN 1 ELSE 0
  <2>1. p.offset \in Nat /\ here \in Nat
    BY Facts DEF Known
  <2>2. avail \in Nat
    BY <2>1, WrapKeeps
  <2>3. wrote \in 0..n /\ sign \in 0..1 /\ (sign = 1 => n <= MaxDigits)
    BY <2>2
  <2>4. Digits(p, n, negative).pno = [p EXCEPT !.offset = @ - (wrote + sign)]
    BY <1>2 DEF Digits, Gives
  <2> HIDE DEF wrote, sign
  <2>5. wrote + sign \in Nat /\ wrote + sign <= 2 * MaxDigits
    BY <2>3, Numbers
  <2>6. Lowest <= p.offset - (wrote + sign)
    BY <1>2, <2>1, <2>5, Facts, Numbers
  <2> QED BY <1>2, <2>4, <2>5, <2>6, OffsetMoves
<1> QED BY <1>1, <1>2

\* The words that write into the buffer, and those that begin and end it.
LEMMA WordsAreInductive ==
  ASSUME Inductive, Roomy, PnoStart \/ PnoHold \/ PnoHolds \/ PnoDigits \/ PnoFinish
  PROVE  Inductive'
<1>a. Known(pno)
  BY DEF Inductive
<1>1. CASE PnoStart \/ PnoFinish
  <2>1. /\ UNCHANGED <<sz, here, checked>> /\ last'.op \in {"start", "finish"}
        /\ pno' = Started \/ pno' = [end |-> NULL, offset |-> NULL]
    BY <1>1 DEF PnoStart, PnoFinish, Did, Finish, Gives
  <2>2. Known(pno')
    BY <2>1, PnoBegins
  <2> QED BY <2>1, <2>2, PnoIsInductive
<1>2. CASE PnoHold
  <2>1. UNCHANGED <<sz, here, checked>> /\ last'.op = "write" /\ pno' = Hold(pno).pno
    BY <1>2 DEF PnoHold, Writes, Did
  <2> QED BY <1>a, <2>1, HoldKeeps, PnoIsInductive
<1>3. CASE PnoHolds
  <2>1. PICK len \in 0..MaxLen :
          UNCHANGED <<sz, here, checked>> /\ last'.op = "write" /\ pno' = Holds(pno, len).pno
    BY <1>3 DEF PnoHolds, Writes, Did
  <2> QED BY <1>a, <2>1, HoldsKeeps, PnoIsInductive
<1>4. CASE PnoDigits
  <2>1. PICK n \in 1..(2 * MaxDigits) : Writes("write", Digits(pno, n, FALSE))
    BY <1>4 DEF PnoDigits
  <2>2. /\ UNCHANGED <<sz, here, checked>> /\ last'.op = "write"
        /\ pno' = Digits(pno, n, FALSE).pno
    BY <2>1 DEF Writes, Did
  <2> QED BY <1>a, <2>2, DigitsKeep, PnoIsInductive
<1> QED BY <1>1, <1>2, <1>3, <1>4

\* `.' finds room for a blank, the digits and a sign above the reserve.
LEMMA DotFits ==
  ASSUME Inductive, Roomy, checked, NEW n \in 1..MaxDigits, NEW negative \in BOOLEAN
  PROVE  LET held   == Hold(Started)
             signed == Then(held, LAMBDA p : Digits(p, n, negative))
         IN  Then(signed, Finish).res = "OK"
<1>a. /\ here \in Nat /\ pad \in Nat /\ LowerBound \in Nat /\ LowerBound <= here
      /\ here + PNO_MIN_SZ <= pad /\ 2 * MaxDigits + 2 <= PNO_MIN_SZ /\ MaxDigits >= 2
      /\ MaxDigits \in Nat /\ PNO_MIN_SZ \in Nat /\ n \in Nat /\ n <= MaxDigits
      /\ Base \in Nat /\ sz \in Nat /\ MaxLen \in Nat /\ Modulus \in Nat
      /\ pad <= Base + sz /\ Base + sz + MaxLen < Modulus
  BY Facts, Numbers DEF Inductive, ReserveIsKept
<1> DEFINE p1 == [end |-> pad - 1, offset |-> (pad - 1) - 1]
           sign == IF negative THEN 1 ELSE 0
           p2 == [end |-> pad - 1, offset |-> ((pad - 1) - 1) - (n + sign)]
<1>1. Hold(Started) = [res |-> "OK", pno |-> p1]
  BY <1>a DEF Hold, Started, Gives, NULL
<1>2. Digits(p1, n, negative) = [res |-> "OK", pno |-> p2]
  <2> DEFINE avail == Wrap(p1.offset - here - 1)
  <2>1. p1.offset - here - 1 \in 0..(Modulus - 1) /\ p1.offset - here - 1 = pad - here - 3
    BY <1>a
  <2>2. avail = pad - here - 3
    BY <2>1, WrapKeeps
  <2>3. avail \in Int /\ n < avail
    BY <1>a, <2>2
  <2>4. p1.offset # NULL /\ ~(p1.offset < here)
    BY <1>a DEF NULL
  <2> HIDE DEF avail
  <2>5. /\ (IF n <= avail THEN n ELSE avail) = n
        /\ (IF negative /\ avail > n THEN 1 ELSE 0) = sign
    BY <1>a, <2>3
  <2>6. [p1 EXCEPT !.offset = @ - (n + sign)] = p2
    OBVIOUS
  <2>7. n <= avail /\ (negative => sign = 1)
    BY <1>a, <2>3
  <2> HIDE DEF p1, p2, sign
  <2> QED BY <2>4, <2>5, <2>6, <2>7 DEF Digits, Gives, avail
<1>3. Finish(p2).res = "OK"
  BY <1>a DEF Finish, Gives, NULL
<1> HIDE DEF p1, p2, sign
<1> QED BY <1>1, <1>2, <1>3 DEF Then

\* Whatever comes of it, `.' leaves a buffer that is known, or none.
LEMMA DotIsInductive == ASSUME Inductive, Roomy, Dot PROVE Inductive'
<1>a. Known(pno) /\ checked \in BOOLEAN
  BY Facts DEF Inductive
<1>1. PICK n \in 1..MaxDigits, negative \in BOOLEAN :
        LET held   == Hold(Started)
            signed == Then(held, LAMBDA p : Digits(p, n, negative))
            done   == Then(signed, Finish)
        IN /\ pno' = done.pno
           /\ Did("dot", done.res, signed.pno.offset + 1, pad - 1)
  BY DEF Dot
<1> DEFINE held   == Hold(Started)
           signed == Then(held, LAMBDA p : Digits(p, n, negative))
           done   == Then(signed, Finish)
<1>2. sz' = sz /\ here' = here /\ checked' = checked
  BY DEF Dot
<1>3. pno' = done.pno /\ last'.res = done.res
  BY <1>1 DEF Did
<1>4. Known(held.pno)
  BY PnoBegins, HoldKeeps
<1>5. Known(signed.pno)
  <2>1. n \in 1..(2 * MaxDigits) /\ n <= MaxDigits
    BY Numbers
  <2>2. signed = held \/ signed = Digits(held.pno, n, negative)
    BY DEF Then
  <2> HIDE DEF held, signed
  <2> QED BY <1>4, <2>1, <2>2, DigitsKeep
<1>6. Known(done.pno)
  <2>1. done = signed \/ done.pno = [end |-> NULL, offset |-> NULL]
    BY DEF Then, Finish, Gives
  <2> HIDE DEF signed, done
  <2> QED BY <1>5, <2>1, PnoBegins
<1>7. checked => last'.res = "OK"
  BY <1>3, DotFits
<1> HIDE DEF done
<1>8. Sized' /\ HereIsInBuffer' /\ ReserveIsKept'
  BY <1>2, RegionsStay DEF Inductive, HereIsInBuffer, ReserveIsKept
<1>9. DotIsPrinted' /\ checked' \in BOOLEAN
  BY <1>a, <1>2, <1>7 DEF DotIsPrinted
<1>10. Known(pno)'
  BY <1>2, <1>3, <1>6, RegionsStay DEF Known
<1> QED BY <1>8, <1>9, <1>10 DEF Inductive

-----------------------------------------------------------------------------
\* A step of the dictionary that stays in the buffer.
LEMMA HereIsInductive ==
  ASSUME Inductive, Roomy, UNCHANGED <<sz, pno, last>>, here' \in Nat,
         LowerBound <= here', here' <= Base + sz,
         checked' \in BOOLEAN, checked' => checked /\ here' + PNO_MIN_SZ <= pad
  PROVE  Inductive'
<1>1. sz' = sz /\ pno' = pno /\ last' = last
  OBVIOUS
<1>2. Sized' /\ HereIsInBuffer' /\ ReserveIsKept'
  BY <1>1, RegionsStay DEF Inductive, HereIsInBuffer, ReserveIsKept
<1>3. DotIsPrinted'
  BY <1>1 DEF DotIsPrinted, Inductive
<1>4. Known(pno)'
  BY <1>1, RegionsStay DEF Known, Inductive
<1> QED BY <1>2, <1>3, <1>4 DEF Inductive

\* ALLOT looks at where it has got to; the others trust the program.
LEMMA DictionaryIsInductive ==
  ASSUME Inductive, Roomy, Allot \/ Compile \/ Release
  PROVE  Inductive'
<1>a. /\ here \in Nat /\ sz \in Nat /\ pad \in Nat /\ Base \in Nat /\ PNO_MIN_SZ \in Nat
      /\ LowerBound \in Nat /\ UpperBound \in Nat /\ UpperBound = pad - PNO_MIN_SZ
      /\ LowerBound <= here /\ here <= Base + sz /\ pad <= Base + sz
      /\ checked \in BOOLEAN /\ MaxLen \in Nat
      /\ checked => here + PNO_MIN_SZ <= pad
  BY Facts, Numbers DEF Inductive, ReserveIsKept
<1>1. CASE Allot
  <2>a. PICK n \in 0..MaxLen : \E a \in {n, Wrap(-n)} :
          here' = IF AllotResult(a) = "OK" THEN Wrap(here + a) ELSE here
    BY <1>1 DEF Allot
  <2>1. PICK a \in {n, Wrap(-n)} :
          here' = IF AllotResult(a) = "OK" THEN Wrap(here + a) ELSE here
    BY <2>a
  <2>2. UNCHANGED <<sz, pno, last, checked>>
    BY <1>1 DEF Allot
  <2>3. -n \in Int /\ n \in Int
    BY <1>a, <2>1
  <2>4. a \in Int
    BY <2>1, <2>3, WrapKeeps
  <2>5. Wrap(here + a) \in Nat
    BY <1>a, <2>4, WrapKeeps
  <2>6. CASE AllotResult(a) = "OK"
    <3>1. here' = Wrap(here + a) /\ here' <= UpperBound /\ LowerBound <= here'
      BY <1>a, <2>1, <2>5, <2>6 DEF AllotResult
    <3> QED BY <1>a, <2>2, <2>5, <3>1, HereIsInductive
  <2>7. CASE AllotResult(a) # "OK"
    BY <1>a, <2>1, <2>2, <2>7, HereIsInductive
  <2> QED BY <2>6, <2>7
<1>2. CASE Compile
  <2>1. /\ here' \in Nat /\ LowerBound <= here' /\ here' <= Base + sz
        /\ checked' = FALSE /\ UNCHANGED <<sz, pno, last>>
    BY <1>a, <1>2 DEF Compile
  <2> QED BY <2>1, HereIsInductive
<1>3. CASE Release
  <2>1. /\ here' \in Nat /\ LowerBound <= here' /\ here' <= here
        /\ UNCHANGED <<sz, pno, last, checked>>
    BY <1>a, <1>3 DEF Release
  <2>a. /\ here \in Nat /\ here' \in Nat /\ sz \in Nat /\ pad \in Nat /\ Base \in Nat
        /\ PNO_MIN_SZ \in Nat /\ here <= Base + sz /\ here' <= here
    BY <1>a, <2>1
  <2>b. here' <= Base + sz
    BY <2>a
  <2>c. ASSUME here + PNO_MIN_SZ <= pad PROVE here' + PNO_MIN_SZ <= pad
    BY <2>a, <2>c, \A p, q, r, s \in Nat : q <= p /\ p + r <= s => q + r <= s
  <2>2. here' <= Base + sz /\ (here + PNO_MIN_SZ <= pad => here' + PNO_MIN_SZ <= pad)
    BY <2>b, <2>c
  <2>3. checked' \in BOOLEAN /\ (checked' => checked /\ here' + PNO_MIN_SZ <= pad)
    BY <1>a, <2>1, <2>2
  <2> QED BY <2>1, <2>2, <2>3, HereIsInductive
<1> QED BY <1>1, <1>2, <1>3

\* Every step of a task.
LEMMA NextIsInductive == ASSUME Inductive, Roomy, [Next]_vars PROVE Inductive'
<1>1. CASE UNCHANGED vars
  <2>1. UNCHANGED <<sz, here, pno, last, checked>>
    BY <1>1 DEF vars
  <2>2. LowerBound <= here /\ here <= Base + sz /\ here \in Nat /\ checked \in BOOLEAN
    BY Facts
  <2> QED BY <2>1, <2>2, HereIsInductive DEF Inductive, ReserveIsKept
<1>2. CASE Allot \/ Compile \/ Release
  BY <1>2, DictionaryIsInductive
<1>3. CASE PnoStart \/ PnoHold \/ PnoHolds \/ PnoDigits \/ PnoFinish
  BY <1>3, WordsAreInductive
<1>4. CASE Dot
  BY <1>4, DotIsInductive
<1> QED BY <1>1, <1>2, <1>3, <1>4 DEF Next

\* e4__task_create leaves room for the reserve.
LEMMA InitIsInductive == ASSUME Init, Roomy PROVE Inductive
<1>1. /\ Sized /\ here = dp0 /\ pno = [end |-> NULL, offset |-> NULL]
      /\ last.op = "none" /\ checked = TRUE
  BY DEF Init, Sized
<1>2. CELL * (TASK \div CELL) = TASK
  BY Numbers, SizesAssumption
<1>3. here = LowerBound
  BY <1>1, <1>2, Numbers DEF dp0, LowerBound
<1>4. /\ LowerBound \in Nat /\ LowerBound + PNO_MIN_SZ <= pad /\ pad <= Base + sz
      /\ pad \in Nat /\ sz \in Nat /\ Base \in Nat /\ PNO_MIN_SZ \in Nat
  BY <1>1, Regions, Numbers
<1>5. HereIsInBuffer /\ ReserveIsKept
  BY <1>3, <1>4 DEF HereIsInBuffer, ReserveIsKept
<1>6. Known(pno)
  BY <1>1 DEF Known, NULL
<1>7. DotIsPrinted
  BY <1>1 DEF DotIsPrinted
<1> QED BY <1>1, <1>5, <1>6, <1>7 DEF Inductive

\* The invariant holds from the start on.
LEMMA SpecIsInductive == ASSUME Roomy PROVE Spec => []Inductive
<1>1. Init => Inductive
  BY InitIsInductive
<1>2. Inductive /\ [Next]_vars => Inductive'
  BY NextIsInductive
<1> QED BY <1>1, <1>2, PTL DEF Spec

(* The regions of a task never overlap, every address stays in its region, *)
(* and the reserve below PAD is kept as long as space is only taken with   *)
(* e4__task_allot.                                                         *)
THEOREM MemoryIsLaidOut == ASSUME Roomy PROVE Spec => []MemoryInv
<1>1. Inductive => MemoryInv
  <2> SUFFICES ASSUME Inductive PROVE MemoryInv
    OBVIOUS
  <2>1. MemoryTypeOK
    <3>1. here \in 0..(Modulus - 1)
      BY Facts, Numbers
    <3>2. pno.offset \in 0..(pad - 1)
      BY Facts, Numbers DEF NULL
    <3> QED BY <3>1, <3>2, Facts DEF MemoryTypeOK
  <2>2. LayoutIsOrdered /\ ReserveIsKept
    BY Regions DEF Inductive
  <2> QED BY <2>1, <2>2 DEF MemoryInv
<1> QED BY <1>1, SpecIsInductive, PTL

(* UNUSED tells exactly what ALLOT will give, wherever the dictionary got. *)
THEOREM UnusedIsExact == ASSUME Roomy PROVE Spec => []UnusedIsWhatAllotGives
<1>1. Inductive => UnusedIsWhatAllotGives
  <2> SUFFICES ASSUME Inductive, Unused > 0, NEW n \in 0..MaxLen
               PROVE  AllotResult(n) = "OK" <=> n <= Unused
    BY DEF UnusedIsWhatAllotGives
  <2>1. /\ here \in Nat /\ pad \in Nat /\ sz \in Nat /\ Base \in Nat /\ PNO_MIN_SZ \in Nat
        /\ MaxLen \in Nat /\ Modulus \in Nat /\ LowerBound \in Nat /\ LowerBound <= here
        /\ here <= Base + sz /\ Base + sz + MaxLen < Modulus
        /\ UpperBound = pad - PNO_MIN_SZ
    BY Facts, Numbers
  <2>2. pad - PNO_MIN_SZ > here /\ Unused = (pad - here) - PNO_MIN_SZ
    BY <2>1 DEF Unused
  <2>3. here + n \in 0..(Modulus - 1)
    BY <2>1
  <2>4. Wrap(here + n) = here + n
    BY <2>3, WrapKeeps
  <2>5. here + n >= LowerBound /\ (here + n > UpperBound <=> n > Unused)
    BY <2>1, <2>2
  <2> QED BY <2>1, <2>2, <2>4, <2>5 DEF AllotResult
<1> QED BY <1>1, SpecIsInductive, PTL

(* `.' cannot fail while the reserve is kept: two characters more than     *)
(* twice the bits of a cell are room for a blank, every digit and a sign.  *)
THEOREM NumbersArePrinted == ASSUME Roomy PROVE Spec => []DotIsPrinted
<1>1. Inductive => DotIsPrinted
  BY DEF Inductive
<1> QED BY <1>1, SpecIsInductive, PTL

\* The string that `#>' hands out lies between `here' and PAD.
LEMMA FinishedIsMutable ==
  ASSUME Inductive, Roomy, [Next]_vars
  PROVE  [(last'.op = "finish" /\ last'.res = "OK" /\ UNCHANGED here) =>
            here <= last'.from /\ last'.to < pad]_vars
<1> SUFFICES ASSUME Next, ~UNCHANGED vars, last'.op = "finish", last'.res = "OK", here' = here
             PROVE  here <= last'.from /\ last'.to < pad
  OBVIOUS
<1>1. CASE PnoFinish
  <2>1. /\ last'.res = Finish(pno).res /\ last'.from = pno.offset + 1 /\ last'.to = pno.end
    BY <1>1 DEF PnoFinish, Did
  <2>2. pno.offset # NULL /\ ~(pno.offset < here - 1)
    BY <2>1 DEF Finish, Gives
  <2>3. pno.end = pad - 1 /\ pno.offset \in Nat /\ here \in Nat /\ pad \in Nat
    BY <2>2, Facts
  <2> QED BY <2>1, <2>2, <2>3
<1>2. CASE PnoStart \/ PnoHold \/ PnoHolds \/ PnoDigits
  <2>1. CASE PnoStart
    BY <2>1 DEF PnoStart, Did
  <2>2. CASE PnoHold
    BY <2>2 DEF PnoHold, Writes, Did
  <2>3. CASE PnoHolds
    BY <2>3 DEF PnoHolds, Writes, Did
  <2>4. CASE PnoDigits
    BY <2>4 DEF PnoDigits, Writes, Did
  <2> QED BY <1>2, <2>1, <2>2, <2>3, <2>4
<1>3. CASE Dot
  BY <1>3 DEF Dot, Did
<1>4. CASE Allot
  BY <1>4 DEF Allot, vars
<1>5. CASE Compile \/ Release
  <2>1. here' # here
    BY <1>5, Facts, Numbers DEF Compile, Release
  <2> QED BY <2>1
<1> QED BY <1>1, <1>2, <1>3, <1>4, <1>5 DEF Next

(* The string `#>' returns may be changed freely, whatever was allotted or *)
(* released since `<#'.                                                    *)
THEOREM StringsAreMutable == ASSUME Roomy PROVE Spec => BufferIsMutable
<1>1. Inductive /\ [Next]_vars =>
        [(last'.op = "finish" /\ last'.res = "OK" /\ UNCHANGED here) =>
           here <= last'.from /\ last'.to < pad]_vars
  BY FinishedIsMutable
<1> QED BY <1>1, SpecIsInductive, PTL DEF Spec, BufferIsMutable

-----------------------------------------------------------------------------
(* Input.  Conditionals in a sequence N of names: the nesting from the      *)
(* j-th name to the i-th, whether the [IF] at j is open there, its [ELSE]s, *)
(* how many of them it needs to be in the branch its flag chose, and        *)
(* whether it is in that.                                                   *)

Nest(N, j, i) == Cardinality({k \in j..i : N[k] \in IFs}) - Cardinality({k \in j..i : N[k] = THEN_})
Open(N, j, i) == N[j] \in IFs /\ \A k \in j..i : Nest(N, j, k) >= 1
Elses(N, j, i) == {k \in (j + 1)..i : N[k] = ELSE_ /\ Nest(N, j, k) = 1}
Wanted(name) == IF name = <<"true[IF]">> THEN 0 ELSE 1
Taken(N, j, i) == Cardinality(Elses(N, j, i)) = Wanted(N[j])
\* Executing: all open structures are in their branch.
AllTaken(N, i) == \A j \in 1..i : Open(N, j, i) => Taken(N, j, i)
\* Skipping: the [IF] at j is the outermost one that is not, and depth counts
\* from there.
Skips(N, i, j, depth, elseEnds) ==
  /\ j \in 1..i /\ Open(N, j, i) /\ Nest(N, j, i) = depth
  /\ \A o \in 1..(j - 1) : Open(N, o, i) => Taken(N, o, i)
  /\ IF elseEnds THEN Cardinality(Elses(N, j, i)) < Wanted(N[j])
     ELSE Cardinality(Elses(N, j, i)) > Wanted(N[j])

\* A set of places has a highest one.
LEMMA LastOfSome ==
  ASSUME NEW m \in Nat, NEW S, S \subseteq 1..m, S # {}
  PROVE  \E i \in S : \A j \in S : j <= i
<1> DEFINE D == {m - i : i \in S}
           less == OpToRel(<, Nat)
<1>1. IsWellFoundedOn(less, Nat)
  BY NatLessThanWellFounded
<1>2. \A i, j \in Nat : i < j => <<i, j>> \in less
  BY DEF OpToRel
<1> HIDE DEF less
<1>3. D \subseteq Nat /\ D # {}
  <2>1. \A i \in S : m - i \in Nat
    OBVIOUS
  <2> QED BY <2>1
<1>4. PICK least \in D : \A e \in D : ~(<<e, least>> \in less)
  BY <1>1, <1>3, WFMin
<1>5. PICK i \in S : least = m - i
  OBVIOUS
<1>6. ASSUME NEW j \in S PROVE j <= i
  <2>1. m - j \in D /\ m - j \in Nat /\ m - i \in Nat /\ i \in Nat /\ j \in Nat
    BY <1>3, <1>5
  <2>2. ~(m - j < m - i)
    BY <2>1, <1>2, <1>4, <1>5
  <2> QED BY <2>1, <2>2
<1> QED BY <1>6

\* The places of a set within bounds.
Count(S, j, i) == Cardinality({k \in j..i : k \in S})

\* One place more in a count.
LEMMA CountStep ==
  ASSUME NEW S, NEW j \in Int, NEW i \in Int, j <= i + 1
  PROVE  /\ Count(S, j, i) \in Nat
         /\ Count(S, j, i + 1)
              = Count(S, j, i) + IF i + 1 \in S THEN 1 ELSE 0
<1> DEFINE T == {k \in j..i : k \in S}
<1>1. IsFiniteSet(T) /\ Cardinality(T) \in Nat
  <2>1. IsFiniteSet(j..i) /\ T \in SUBSET (j..i)
    BY FS_Interval
  <2> HIDE DEF T
  <2> QED BY <2>1, FS_Subset, FS_CardinalityType
<1>2. i + 1 \notin T
  OBVIOUS
<1>3. {k \in j..(i + 1) : k \in S} = IF i + 1 \in S THEN T \cup {i + 1} ELSE T
  <2>1. j..(i + 1) = (j..i) \cup {i + 1}
    OBVIOUS
  <2> QED BY <2>1
<1> HIDE DEF T
<1>4. Cardinality(T \cup {i + 1}) = Cardinality(T) + 1
  BY <1>1, <1>2, FS_AddElement
<1>5. Cardinality(T) + 0 = Cardinality(T)
  BY <1>1
<1>6. Count(S, j, i) = Cardinality(T) /\ Count(S, j, i + 1) = Cardinality(IF i + 1 \in S THEN T \cup {i + 1} ELSE T)
  BY <1>3 DEF Count, T
<1> QED BY <1>1, <1>4, <1>5, <1>6

\* A count in two parts.
LEMMA CountSum ==
  ASSUME NEW S, NEW j \in Int, NEW m \in Int, NEW i \in Int, j <= m + 1, m <= i
  PROVE  Count(S, j, i)
           = Count(S, j, m) + Count(S, m + 1, i)
<1> DEFINE T == {k \in j..m : k \in S}
           U == {k \in (m + 1)..i : k \in S}
<1>1. IsFiniteSet(T) /\ IsFiniteSet(U) /\ Cardinality(T) \in Nat /\ Cardinality(U) \in Nat
  <2>1. IsFiniteSet(j..m) /\ T \in SUBSET (j..m) /\ IsFiniteSet((m + 1)..i) /\ U \in SUBSET ((m + 1)..i)
    BY FS_Interval
  <2> HIDE DEF T, U
  <2> QED BY <2>1, FS_Subset, FS_CardinalityType
<1>2. T \cap U = {}
  OBVIOUS
<1>3. {k \in j..i : k \in S} = T \cup U
  <2>1. j..i = (j..m) \cup ((m + 1)..i)
    OBVIOUS
  <2> QED BY <2>1
<1> HIDE DEF T, U
<1>4. Cardinality(T \cup U) = Cardinality(T) + Cardinality(U) - Cardinality(T \cap U)
  BY <1>1, FS_Union
<1>5. Cardinality(T \cap U) = 0
  BY <1>2, FS_EmptySet
<1>6. Count(S, j, i) = Cardinality(T \cup U) /\ Count(S, j, m) = Cardinality(T) /\ Count(S, m + 1, i) = Cardinality(U)
  BY <1>3 DEF Count, T, U
<1> QED BY <1>1, <1>4, <1>5, <1>6

\* What one more name does to the nesting.
LEMMA NestStep ==
  ASSUME NEW N, NEW j \in Int, NEW i \in Int, j <= i + 1
  PROVE  /\ Nest(N, j, i) \in Int
         /\ Nest(N, j, i + 1) = Nest(N, j, i) + (IF N[i + 1] \in IFs THEN 1 ELSE 0)
                                  - (IF N[i + 1] = THEN_ THEN 1 ELSE 0)
<1> DEFINE S == {k \in Int : N[k] \in IFs}
           T == {k \in Int : N[k] = THEN_}
<1>1. \A a \in Int : {k \in j..a : N[k] \in IFs} = {k \in j..a : k \in S}
                     /\ {k \in j..a : N[k] = THEN_} = {k \in j..a : k \in T}
  OBVIOUS
<1>2. (i + 1 \in S <=> N[i + 1] \in IFs) /\ (i + 1 \in T <=> N[i + 1] = THEN_)
  OBVIOUS
<1> HIDE DEF S, T
<1>3. \A a \in Int : Nest(N, j, a) = Count(S, j, a) - Count(T, j, a)
  BY <1>1 DEF Nest, Count
<1>4. /\ Count(S, j, i) \in Nat /\ Count(T, j, i) \in Nat
      /\ Count(S, j, i + 1) = Count(S, j, i) + IF i + 1 \in S THEN 1 ELSE 0
      /\ Count(T, j, i + 1) = Count(T, j, i) + IF i + 1 \in T THEN 1 ELSE 0
  BY CountStep
<1>5. i + 1 \in Int
  OBVIOUS
<1> QED BY <1>2, <1>3, <1>4, <1>5

\* The nesting of two parts one after the other.
LEMMA NestSum ==
  ASSUME NEW N, NEW j \in Int, NEW m \in Int, NEW i \in Int, j <= m + 1, m <= i
  PROVE  Nest(N, j, i) = Nest(N, j, m) + Nest(N, m + 1, i)
<1> DEFINE S == {k \in Int : N[k] \in IFs}
           T == {k \in Int : N[k] = THEN_}
<1>1. \A a, b \in Int : {k \in a..b : N[k] \in IFs} = {k \in a..b : k \in S}
                     /\ {k \in a..b : N[k] = THEN_} = {k \in a..b : k \in T}
  OBVIOUS
<1> HIDE DEF S, T
<1>2. \A a, b \in Int : Nest(N, a, b) = Count(S, a, b) - Count(T, a, b)
  BY <1>1 DEF Nest, Count
<1>3. /\ Count(S, j, m) \in Nat /\ Count(T, j, m) \in Nat
      /\ Count(S, m + 1, i) \in Nat /\ Count(T, m + 1, i) \in Nat
  <2>1. m + 1 \in Int /\ m + 1 <= i + 1
    OBVIOUS
  <2> QED BY <2>1, CountStep
<1>4. /\ Count(S, j, i) = Count(S, j, m) + Count(S, m + 1, i)
      /\ Count(T, j, i) = Count(T, j, m) + Count(T, m + 1, i)
  BY CountSum
<1>5. m + 1 \in Int
  OBVIOUS
<1> QED BY <1>2, <1>3, <1>4, <1>5

\* The names of the structures are three different ones.
LEMMA NamesDiffer == ELSE_ \notin IFs /\ THEN_ \notin IFs /\ ELSE_ # THEN_
BY DEF IFs, ELSE_, THEN_

\* The nesting depends on the places that are counted only.
LEMMA NestSame ==
  ASSUME NEW N, NEW M, NEW j \in Int, NEW i \in Int, \A k \in j..i : M[k] = N[k]
  PROVE  Nest(M, j, i) = Nest(N, j, i)
<1>1. {k \in j..i : M[k] \in IFs} = {k \in j..i : N[k] \in IFs}
      /\ {k \in j..i : M[k] = THEN_} = {k \in j..i : N[k] = THEN_}
  OBVIOUS
<1> QED BY <1>1 DEF Nest

\* Structures depend on the names up to the place only.
LEMMA StructuresSame ==
  ASSUME NEW N, NEW M, NEW i \in Int, NEW j \in 1..i, \A k \in 1..i : M[k] = N[k]
  PROVE  (Open(M, j, i) <=> Open(N, j, i)) /\ Elses(M, j, i) = Elses(N, j, i) /\ (Taken(M, j, i) <=> Taken(N, j, i))
<1>1. \A k \in j..i : Nest(M, j, k) = Nest(N, j, k)
  <2> TAKE k \in j..i
  <2>1. k \in Int /\ j \in Int /\ \A l \in j..k : l \in 1..i
    OBVIOUS
  <2>2. \A l \in j..k : M[l] = N[l]
    BY <2>1
  <2> QED BY <2>1, <2>2, NestSame
<1>2. M[j] = N[j]
  OBVIOUS
<1>3. Open(M, j, i) <=> Open(N, j, i)
  BY <1>1, <1>2 DEF Open
<1>4. Elses(M, j, i) = Elses(N, j, i)
  <2>1. \A k \in (j + 1)..i : k \in j..i /\ k \in 1..i
    OBVIOUS
  <2>2. \A k \in (j + 1)..i : Nest(M, j, k) = Nest(N, j, k) /\ M[k] = N[k]
    BY <2>1, <1>1
  <2> QED BY <2>2 DEF Elses
<1> QED BY <1>2, <1>3, <1>4 DEF Taken

\* The branches of a structure are counted.
LEMMA ElsesCounted ==
  ASSUME NEW N, NEW j \in Int, NEW i \in Int
  PROVE  IsFiniteSet(Elses(N, j, i)) /\ Cardinality(Elses(N, j, i)) \in Nat
<1>1. IsFiniteSet((j + 1)..i) /\ Elses(N, j, i) \in SUBSET ((j + 1)..i)
  BY FS_Interval DEF Elses
<1> QED BY <1>1, FS_Subset, FS_CardinalityType

\* One name more: what becomes of a structure that was open.
LEMMA OneMore ==
  ASSUME NEW N, NEW i \in Nat, NEW j \in 1..i
  PROVE  /\ Open(N, j, i + 1) <=> Open(N, j, i) /\ Nest(N, j, i + 1) >= 1
         /\ Cardinality(Elses(N, j, i + 1))
              = Cardinality(Elses(N, j, i)) + IF N[i + 1] = ELSE_ /\ Nest(N, j, i + 1) = 1 THEN 1 ELSE 0
<1>1. j \in Int /\ i + 1 \in Int /\ j..(i + 1) = (j..i) \cup {i + 1}
      /\ (j + 1)..(i + 1) = ((j + 1)..i) \cup {i + 1} /\ i + 1 \notin (j + 1)..i
  OBVIOUS
<1>2. Open(N, j, i + 1) <=> Open(N, j, i) /\ Nest(N, j, i + 1) >= 1
  BY <1>1 DEF Open
<1>3. Elses(N, j, i + 1) = IF N[i + 1] = ELSE_ /\ Nest(N, j, i + 1) = 1
                           THEN Elses(N, j, i) \cup {i + 1} ELSE Elses(N, j, i)
  BY <1>1 DEF Elses
<1>4. IsFiniteSet(Elses(N, j, i)) /\ Cardinality(Elses(N, j, i)) \in Nat
  BY <1>1, ElsesCounted
<1>5. i + 1 \notin Elses(N, j, i)
  BY <1>1 DEF Elses
<1>6. Cardinality(Elses(N, j, i) \cup {i + 1}) = Cardinality(Elses(N, j, i)) + 1
  BY <1>4, <1>5, FS_AddElement
<1>7. Cardinality(Elses(N, j, i)) + 0 = Cardinality(Elses(N, j, i))
  BY <1>4
<1> QED BY <1>2, <1>3, <1>6, <1>7

\* A structure that has just begun.
LEMMA JustBegun ==
  ASSUME NEW N, NEW i \in Nat, N[i + 1] \in IFs
  PROVE  /\ Open(N, i + 1, i + 1) /\ Nest(N, i + 1, i + 1) = 1
         /\ Cardinality(Elses(N, i + 1, i + 1)) = 0
<1> DEFINE q == i + 1
<1>1. q \in Int /\ i \in Int /\ q <= i + 1 /\ (q + 1)..q = {} /\ q..q = {q} /\ q..i = {}
  OBVIOUS
<1>2. Nest(N, q, i) = 0
  <2>1. Nest(N, q, i) = Cardinality({}) - Cardinality({})
    BY <1>1 DEF Nest
  <2> QED BY <2>1, FS_EmptySet
<1>3. Nest(N, q, q) = 1
  <2> HIDE DEF q
  <2>1. Nest(N, q, i + 1) = Nest(N, q, i) + (IF N[i + 1] \in IFs THEN 1 ELSE 0)
                                  - (IF N[i + 1] = THEN_ THEN 1 ELSE 0)
    BY <1>1, NestStep
  <2>2. N[i + 1] # THEN_
    BY NamesDiffer
  <2> QED BY <2>1, <2>2, <1>2 DEF q
<1>4. Elses(N, q, q) = {}
  BY <1>1 DEF Elses
<1> HIDE DEF q
<1>5. Open(N, q, q)
  BY <1>1, <1>3 DEF Open, q
<1> QED BY <1>3, <1>4, <1>5, FS_EmptySet DEF q

\* A structure around another is open one deeper.
LEMMA AroundIsDeeper ==
  ASSUME NEW N, NEW i \in Nat, NEW j \in 1..i, NEW o \in 1..(j - 1), NEW k \in j..(i + 1), Open(N, o, i)
  PROVE  Nest(N, o, k) \in Int /\ Nest(N, j, k) \in Int /\ Nest(N, o, k) >= 1 + Nest(N, j, k)
<1>1. PICK m \in Int : m = j - 1
  OBVIOUS
<1>2. m \in o..i /\ o \in Int /\ j \in Int /\ k \in Int /\ o <= m + 1 /\ m <= k /\ m + 1 = j /\ j <= k + 1 /\ o <= k + 1
  BY <1>1
<1>3. Nest(N, o, m) >= 1
  BY <1>2 DEF Open
<1>4. Nest(N, o, k) = Nest(N, o, m) + Nest(N, j, k)
  BY <1>2, NestSum
<1>5. Nest(N, o, m) \in Int /\ Nest(N, j, k) \in Int /\ Nest(N, o, k) \in Int
  BY <1>2, NestStep
<1> QED BY <1>3, <1>4, <1>5

\* The innermost open structure is open once.
LEMMA InnermostIsOnce ==
  ASSUME NEW N, NEW i \in Nat, NEW j \in 1..i, Open(N, j, i), \A o \in 1..i : Open(N, o, i) => o <= j
  PROVE  Nest(N, j, i) = 1
<1> DEFINE low == {k \in j..i : Nest(N, j, k) <= 1}
<1>1. j \in Int /\ i \in Int /\ j <= i + 1 /\ j - 1 \in Nat /\ (j - 1) + 1 = j
  OBVIOUS
<1>2. \A k \in Int : j <= k + 1 => Nest(N, j, k) \in Int
  BY <1>1, NestStep
<1>3. j \in low
  <2>1. Nest(N, j, j) = 1
    BY <1>1, JustBegun DEF Open
  <2> QED BY <2>1
<1>4. PICK k \in low : \A l \in low : l <= k
  <2>1. low \subseteq 1..i
    OBVIOUS
  <2> HIDE DEF low
  <2> QED BY <2>1, <1>3, LastOfSome
<1>5. k \in j..i /\ Nest(N, j, k) <= 1
  BY <1>4
<1>6. CASE k = i
  BY <1>5, <1>6, <1>2, <1>1 DEF Open
<1>7. CASE k # i
  <2>1. k + 1 \in j..i /\ k + 1 \in 1..i /\ k \in Int /\ k + 1 \in Int /\ j <= k + 1 /\ ~(k + 1 <= k) /\ ~(k + 1 <= j)
    BY <1>5, <1>7
  <2>2. ~(Nest(N, j, k + 1) <= 1)
    BY <2>1, <1>4
  <2>3. Nest(N, j, k + 1) = Nest(N, j, k) + (IF N[k + 1] \in IFs THEN 1 ELSE 0)
                              - (IF N[k + 1] = THEN_ THEN 1 ELSE 0)
    BY <2>1, <1>1, NestStep
  <2>4. Nest(N, j, k) \in Int /\ Nest(N, j, k + 1) \in Int
    BY <2>1, <1>2
  <2>5. N[k + 1] \in IFs /\ N[k + 1] # THEN_
    BY <2>2, <2>3, <2>4, <1>5, NamesDiffer
  <2>6. ASSUME NEW l \in (k + 1)..i PROVE Nest(N, k + 1, l) >= 1
    <3>1. l \in j..i /\ l \in Int /\ ~(l <= k) /\ k <= l /\ k + 1 <= l + 1 /\ j <= l + 1
      BY <2>1, <1>5
    <3>2. ~(Nest(N, j, l) <= 1)
      BY <3>1, <1>4
    <3>3. Nest(N, j, l) = Nest(N, j, k) + Nest(N, k + 1, l)
      BY <2>1, <3>1, <1>1, NestSum
    <3>4. Nest(N, k + 1, l) \in Int /\ Nest(N, j, l) \in Int
      BY <2>1, <3>1, <1>2, NestStep
    <3> QED BY <3>2, <3>3, <3>4, <2>4, <1>5
  <2>7. Open(N, k + 1, i)
    BY <2>5, <2>6 DEF Open
  <2> QED BY <2>1, <2>7
<1> QED BY <1>6, <1>7

\* Words that are executed, when all that is open was chosen.
LEMMA OrdinaryExecuted ==
  ASSUME NEW N, NEW i \in Nat, AllTaken(N, i), N[i + 1] \notin IFs \cup {ELSE_}
  PROVE  AllTaken(N, i + 1)
<1> SUFFICES ASSUME NEW j \in 1..(i + 1), Open(N, j, i + 1) PROVE Taken(N, j, i + 1)
  BY DEF AllTaken
<1>1. j # i + 1
  BY DEF Open
<1>2. j \in 1..i
  BY <1>1
<1>3. Open(N, j, i) /\ Cardinality(Elses(N, j, i + 1)) = Cardinality(Elses(N, j, i)) + 0
  BY <1>2, OneMore
<1>4. Cardinality(Elses(N, j, i)) \in Nat
  BY ElsesCounted
<1> QED BY <1>2, <1>3, <1>4 DEF AllTaken, Taken

\* What is open and chosen stays chosen, unless a branch of its own ends.
LEMMA ChosenStays ==
  ASSUME NEW N, NEW i \in Nat, NEW o \in 1..i, Open(N, o, i) => Taken(N, o, i),
         N[i + 1] = ELSE_ => Nest(N, o, i + 1) # 1
  PROVE  Open(N, o, i + 1) => Taken(N, o, i + 1)
<1>1. Open(N, o, i + 1) => Open(N, o, i)
  BY OneMore
<1>2. Cardinality(Elses(N, o, i + 1)) = Cardinality(Elses(N, o, i)) + 0
  BY OneMore
<1>3. Cardinality(Elses(N, o, i)) \in Nat
  BY ElsesCounted
<1> QED BY <1>1, <1>2, <1>3 DEF Taken

\* An [IF] after a true flag: its first branch is the one that is wanted.
LEMMA TrueIf ==
  ASSUME NEW N, NEW i \in Nat, AllTaken(N, i), N[i + 1] = <<"true[IF]">>
  PROVE  AllTaken(N, i + 1)
<1> SUFFICES ASSUME NEW j \in 1..(i + 1), Open(N, j, i + 1) PROVE Taken(N, j, i + 1)
  BY DEF AllTaken
<1>1. N[i + 1] \in IFs
  BY DEF IFs
<1>2. CASE j = i + 1
  BY <1>1, <1>2, JustBegun DEF Taken, Wanted
<1>3. CASE j # i + 1
  <2>1. j \in 1..i
    BY <1>3
  <2>2. N[i + 1] # ELSE_
    BY <1>1, NamesDiffer
  <2> QED BY <2>1, <2>2, ChosenStays DEF AllTaken
<1> QED BY <1>2, <1>3

\* An [IF] after a false flag: words are skipped up to its [ELSE].
LEMMA FalseIf ==
  ASSUME NEW N, NEW i \in Nat, AllTaken(N, i), N[i + 1] = <<"false[IF]">>
  PROVE  Skips(N, i + 1, i + 1, 1, TRUE)
<1>1. N[i + 1] \in IFs /\ Wanted(N[i + 1]) = 1
  BY DEF IFs, Wanted
<1>2. Open(N, i + 1, i + 1) /\ Nest(N, i + 1, i + 1) = 1 /\ Cardinality(Elses(N, i + 1, i + 1)) = 0
  BY <1>1, JustBegun
<1>3. ASSUME NEW o \in 1..((i + 1) - 1) PROVE Open(N, o, i + 1) => Taken(N, o, i + 1)
  <2>1. o \in 1..i
    OBVIOUS
  <2>2. N[i + 1] # ELSE_
    BY <1>1, NamesDiffer
  <2> QED BY <2>1, <2>2, ChosenStays DEF AllTaken
<1>4. i + 1 \in 1..(i + 1) /\ 0 < 1
  OBVIOUS
<1> QED BY <1>1, <1>2, <1>3, <1>4 DEF Skips

\* An [ELSE] that is executed belongs to the innermost open [IF], whose wanted
\* branch it ends.
LEMMA ElseExecuted ==
  ASSUME NEW N, NEW i \in Nat, AllTaken(N, i), N[i + 1] = ELSE_, \E o \in 1..i : Open(N, o, i)
  PROVE  \E j \in 1..(i + 1) : Skips(N, i + 1, j, 1, FALSE)
<1> DEFINE open == {o \in 1..i : Open(N, o, i)}
<1>1. PICK j \in open : \A o \in open : o <= j
  <2>1. open \subseteq 1..i /\ open # {}
    OBVIOUS
  <2> HIDE DEF open
  <2> QED BY <2>1, LastOfSome
<1>2. j \in 1..i /\ Open(N, j, i) /\ j \in Int /\ i \in Int /\ j <= i + 1 /\ j \in 1..(i + 1) /\ i + 1 \in j..(i + 1)
  BY <1>1
<1>3. Nest(N, j, i) = 1
  BY <1>1, <1>2, InnermostIsOnce
<1>4. Nest(N, j, i + 1) = 1
  <2>1. N[i + 1] \notin IFs /\ N[i + 1] # THEN_
    BY NamesDiffer
  <2> QED BY <2>1, <1>2, <1>3, NestStep
<1>5. Open(N, j, i + 1) /\ Cardinality(Elses(N, j, i + 1)) = Cardinality(Elses(N, j, i)) + 1
  BY <1>2, <1>4, OneMore
<1>6. Cardinality(Elses(N, j, i)) = Wanted(N[j]) /\ Wanted(N[j]) \in Nat
  BY <1>2 DEF AllTaken, Taken, Wanted
<1>7. ASSUME NEW o \in 1..(j - 1) PROVE Open(N, o, i + 1) => Taken(N, o, i + 1)
  <2>1. o \in 1..i
    BY <1>2
  <2>2. CASE Open(N, o, i)
    <3>1. Nest(N, o, i + 1) \in Int /\ Nest(N, o, i + 1) >= 1 + 1
      BY <2>2, <1>2, <1>4, AroundIsDeeper
    <3>2. Nest(N, o, i + 1) # 1
      BY <3>1
    <3> QED BY <2>1, <3>2, ChosenStays DEF AllTaken
  <2>3. CASE ~Open(N, o, i)
    BY <2>1, <2>3, OneMore
  <2> QED BY <2>2, <2>3
<1> QED BY <1>2, <1>4, <1>5, <1>6, <1>7 DEF Skips

\* While a branch is skipped, those around it stay chosen.
LEMMA AroundStays ==
  ASSUME NEW N, NEW i \in Nat, NEW j \in 1..i, Nest(N, j, i + 1) >= 1,
         \A o \in 1..(j - 1) : Open(N, o, i) => Taken(N, o, i)
  PROVE  \A o \in 1..(j - 1) : Open(N, o, i + 1) => Taken(N, o, i + 1)
<1> TAKE o \in 1..(j - 1)
<1>1. o \in 1..i /\ i + 1 \in j..(i + 1)
  OBVIOUS
<1>2. CASE Open(N, o, i)
  <2>1. Nest(N, o, i + 1) >= 1 + Nest(N, j, i + 1) /\ Nest(N, o, i + 1) \in Int /\ Nest(N, j, i + 1) \in Int
    BY <1>1, <1>2, AroundIsDeeper
  <2>2. Nest(N, o, i + 1) # 1
    BY <2>1
  <2> QED BY <1>1, <2>2, ChosenStays
<1>3. CASE ~Open(N, o, i)
  BY <1>1, <1>3, OneMore
<1> QED BY <1>2, <1>3

\* A name is skipped, and the structure is still open.
LEMMA SkipGoesOn ==
  ASSUME NEW N, NEW i \in Nat, NEW j, NEW depth \in Nat, NEW elseEnds \in BOOLEAN, Skips(N, i, j, depth, elseEnds),
         NEW next \in Nat, next > 0,
         next = depth + (IF N[i + 1] \in IFs THEN 1 ELSE 0) - (IF N[i + 1] = THEN_ THEN 1 ELSE 0),
         ~(N[i + 1] = ELSE_ /\ elseEnds /\ next = 1)
  PROVE  Skips(N, i + 1, j, next, elseEnds)
<1>1. j \in 1..i /\ j \in Int /\ i \in Int /\ j <= i + 1 /\ j \in 1..(i + 1) /\ Open(N, j, i) /\ Nest(N, j, i) = depth
  BY DEF Skips
<1>2. Nest(N, j, i + 1) = next
  BY <1>1, NestStep
<1>3. Open(N, j, i + 1) /\ Nest(N, j, i + 1) >= 1
  BY <1>1, <1>2, OneMore
<1>4. \A o \in 1..(j - 1) : Open(N, o, i + 1) => Taken(N, o, i + 1)
  BY <1>1, <1>3, AroundStays DEF Skips
<1>5. Cardinality(Elses(N, j, i + 1))
        = Cardinality(Elses(N, j, i)) + IF N[i + 1] = ELSE_ /\ next = 1 THEN 1 ELSE 0
  BY <1>1, <1>2, OneMore
<1>6. Cardinality(Elses(N, j, i)) \in Nat /\ Wanted(N[j]) \in Nat
  BY ElsesCounted, <1>1 DEF Wanted
<1>7. IF elseEnds THEN Cardinality(Elses(N, j, i + 1)) < Wanted(N[j])
      ELSE Cardinality(Elses(N, j, i + 1)) > Wanted(N[j])
  BY <1>5, <1>6 DEF Skips
<1> QED BY <1>1, <1>2, <1>3, <1>4, <1>7 DEF Skips

\* The structure or its branch ends.
LEMMA SkipEnds ==
  ASSUME NEW N, NEW i \in Nat, NEW j, NEW elseEnds \in BOOLEAN, Skips(N, i, j, 1, elseEnds),
         N[i + 1] = THEN_ \/ (N[i + 1] = ELSE_ /\ elseEnds)
  PROVE  AllTaken(N, i + 1)
<1>1. j \in 1..i /\ j \in Int /\ i \in Int /\ j <= i + 1 /\ j \in 1..(i + 1) /\ Open(N, j, i) /\ Nest(N, j, i) = 1
      /\ i + 1 \in Int
  BY DEF Skips
<1>2. N[i + 1] \notin IFs
  BY NamesDiffer
<1>3. Nest(N, j, i + 1) = IF N[i + 1] = THEN_ THEN 0 ELSE 1
  BY <1>1, <1>2, NestStep
<1> SUFFICES ASSUME NEW k \in 1..(i + 1), Open(N, k, i + 1) PROVE Taken(N, k, i + 1)
  BY DEF AllTaken
<1>4. k # i + 1
  BY <1>2 DEF Open
<1>5. k \in 1..i /\ k \in Int
  BY <1>4
<1>6. CASE k > j
  <2>1. j \in 1..(k - 1) /\ i + 1 \in k..(i + 1)
    BY <1>1, <1>5, <1>6
  <2>2. Nest(N, k, i + 1) >= 1
    BY <1>5, OneMore
  <2>3. Nest(N, j, i + 1) >= 1 + Nest(N, k, i + 1) /\ Nest(N, k, i + 1) \in Int
    BY <1>1, <1>5, <2>1, AroundIsDeeper
  <2> QED BY <2>2, <2>3, <1>3
<1>7. CASE k = j
  <2>1. N[i + 1] # THEN_ /\ N[i + 1] = ELSE_ /\ elseEnds /\ Nest(N, j, i + 1) = 1
    BY <1>1, <1>3, <1>7, OneMore
  <2>2. Cardinality(Elses(N, j, i + 1)) = Cardinality(Elses(N, j, i)) + 1
    BY <1>1, <2>1, OneMore
  <2>3. Cardinality(Elses(N, j, i)) < Wanted(N[j])
    BY <2>1 DEF Skips
  <2>4. Cardinality(Elses(N, j, i)) \in Nat /\ Wanted(N[j]) \in {0, 1}
    BY ElsesCounted, <1>1 DEF Wanted
  <2> QED BY <2>2, <2>3, <2>4, <1>7 DEF Taken
<1>8. CASE k < j
  <2>1. k \in 1..(j - 1) /\ i + 1 \in j..(i + 1)
    BY <1>1, <1>5, <1>8
  <2>2. Open(N, k, i) => Taken(N, k, i)
    BY <2>1 DEF Skips
  <2>3. Open(N, k, i)
    BY <1>5, OneMore
  <2>4. Nest(N, k, i + 1) >= 1 + Nest(N, j, i + 1) /\ Nest(N, k, i + 1) \in Int
    BY <1>1, <2>1, <2>3, AroundIsDeeper
  <2>5. N[i + 1] = ELSE_ => Nest(N, k, i + 1) # 1
    BY <2>4, <1>3, NamesDiffer
  <2> QED BY <1>5, <2>2, <2>5, ChosenStays
<1> QED BY <1>1, <1>5, <1>6, <1>7, <1>8

\* What memory may hold.
Symbol == Letters \cup {"junk"}

\* A set of places has a lowest one.
LEMMA FirstOfSome ==
  ASSUME NEW S, S \subseteq Nat, S # {}
  PROVE  \E i \in S : \A j \in S : i <= j
<1> DEFINE less == OpToRel(<, Nat)
<1>1. IsWellFoundedOn(less, Nat)
  BY NatLessThanWellFounded
<1>2. \A i, j \in Nat : i < j => <<i, j>> \in less
  BY DEF OpToRel
<1> HIDE DEF less
<1>3. PICK i \in S : \A j \in S : ~(<<j, i>> \in less)
  BY <1>1, WFMin
<1>4. ASSUME NEW j \in S PROVE i <= j
  <2>1. i \in Nat /\ j \in Nat /\ ~(j < i)
    BY <1>2, <1>3
  <2> QED BY <2>1
<1> QED BY <1>4

\* What Min is.
LEMMA MinIsFirst ==
  ASSUME NEW S, S \subseteq Nat, S # {}
  PROVE  Min(S) \in S /\ \A j \in S : Min(S) <= j
<1>1. PICK i \in S : \A j \in S : i <= j
  BY FirstOfSome
<1> QED BY <1>1 DEF Min

\* Characters written into memory.
LEMMA WrittenIsText ==
  ASSUME NEW m \in Seq(Symbol), NEW at \in Nat, NEW text \in Seq(Symbol)
  PROVE  /\ Written(m, at, text) \in Seq(Symbol) /\ Len(Written(m, at, text)) = Len(m)
         /\ \A i \in 1..Len(m) :
              Written(m, at, text)[i] = IF i > at /\ i - at <= Len(text) THEN text[i - at] ELSE m[i]
<1>1. Len(m) \in Nat /\ DOMAIN m = 1..Len(m) /\ Len(text) \in Nat /\ DOMAIN text = 1..Len(text)
  OBVIOUS
<1>2. \A i \in 1..Len(m) : i - at \in DOMAIN text <=> i > at /\ i - at <= Len(text)
  BY <1>1
<1>3. \A i \in 1..Len(m) : Written(m, at, text)[i] = IF i > at /\ i - at <= Len(text) THEN text[i - at] ELSE m[i]
  BY <1>1, <1>2 DEF Written
<1>4. \A i \in 1..Len(m) : (IF i - at \in DOMAIN text THEN text[i - at] ELSE m[i]) \in Symbol
  BY <1>1
<1>5. Written(m, at, text) \in [1..Len(m) -> Symbol]
  BY <1>1, <1>4 DEF Written
<1> QED BY <1>1, <1>3, <1>5

\* A piece of a text.
LEMMA PartOfText ==
  ASSUME NEW t \in Seq(Symbol), NEW a \in Nat \ {0}, NEW b \in Nat, b <= Len(t)
  PROVE  /\ SubSeq(t, a, b) \in Seq(Symbol)
         /\ Len(SubSeq(t, a, b)) = IF a <= b THEN b - a + 1 ELSE 0
         /\ \A k \in 1..Len(SubSeq(t, a, b)) : SubSeq(t, a, b)[k] = t[a + k - 1]
<1>1. a \in Int /\ b \in Int /\ \A k \in a..b : t[k] \in Symbol
  OBVIOUS
<1>2. SubSeq(t, a, b) \in Seq(Symbol) /\ Len(SubSeq(t, a, b)) = IF a <= b THEN b - a + 1 ELSE 0
  BY <1>1, SubSeqProperties
<1>3. \A k \in 1..(b - a + 1) : SubSeq(t, a, b)[k] = t[a + k - 1]
  BY <1>1, SubSeqProperties
<1> QED BY <1>2, <1>3

\* Where e4__mem_parse begins and ends its piece.
LEMMA ParseFacts ==
  ASSUME NEW chars \in Seq(Symbol), NEW delim, NEW skipLeading \in BOOLEAN, NEW ignoreEsc \in BOOLEAN
  PROVE  LET r == mem_parse(chars, delim, skipLeading, ignoreEsc)
         IN  /\ r.lead \in Nat /\ r.size \in Nat /\ r.lead + r.size <= Len(chars)
             /\ \A j \in 1..r.lead : chars[j] = delim
             /\ r.lead + r.size < Len(chars) => chars[r.lead + r.size + 1] \in {delim, NL}
<1> DEFINE n == Len(chars)
           led(k) == /\ \A j \in 1..k : skipLeading /\ chars[j] = delim
                     /\ k < n /\ skipLeading => chars[k + 1] # delim
           lead == CHOOSE k \in 0..n : led(k)
           Escapes_(i) == {k \in (lead + 1)..(i - 1) : \A j \in k..(i - 1) : chars[j] = ESC}
           Stop(i) == /\ chars[i] \in {delim, NL}
                      /\ ~(ignoreEsc /\ Cardinality(Escapes_(i)) % 2 = 1)
           stops == {i \in (lead + 1)..n : [x \in 1..n |-> Stop(x)][i]}
           stop == IF stops # {} THEN Min(stops) ELSE 0
           r == mem_parse(chars, delim, skipLeading, ignoreEsc)
<1>1. r = [lead |-> lead, size |-> (IF stop = 0 THEN n + 1 ELSE stop) - lead - 1]
  BY DEF mem_parse, SelectInSubSeq
<1>2. n \in Nat
  OBVIOUS
<1>3. \E k \in 0..n : led(k)
  <2>1. CASE ~skipLeading
    <3>1. led(0) /\ 0 \in 0..n
      BY <2>1, <1>2
    <3> QED BY <3>1
  <2>2. CASE skipLeading
    <3> DEFINE S == {k \in 0..n : k = n \/ chars[k + 1] # delim}
    <3>1. S \subseteq Nat /\ n \in S
      BY <1>2
    <3>2. PICK k \in S : \A j \in S : k <= j
      <4> HIDE DEF S
      <4> QED BY <3>1, FirstOfSome
    <3>3. ASSUME NEW j \in 1..k PROVE chars[j] = delim
      <4>1. j - 1 \in 0..n /\ ~(k <= j - 1) /\ (j - 1) + 1 = j /\ j - 1 # n
        BY <1>2
      <4>2. j - 1 \notin S
        BY <3>2, <4>1
      <4> QED BY <4>1, <4>2
    <3>4. led(k) /\ k \in 0..n
      BY <3>2, <3>3, <2>2
    <3> QED BY <3>4
  <2> QED BY <2>1, <2>2
<1>4. lead \in 0..n /\ led(lead)
  <2> HIDE DEF led
  <2> QED BY <1>3
<1> HIDE DEF lead
<1>5. stops # {} => stop \in stops
  <2>1. stops \subseteq Nat
    BY <1>4
  <2> HIDE DEF stops
  <2> QED BY <2>1, MinIsFirst
<1> HIDE DEF stop
<1>6. stop = 0 \/ (stop \in (lead + 1)..n /\ chars[stop] \in {delim, NL})
  <2>1. CASE stops = {}
    BY <2>1 DEF stop
  <2>2. CASE stops # {}
    <3>1. stop \in (lead + 1)..n /\ [x \in 1..n |-> Stop(x)][stop]
      BY <1>5, <2>2
    <3>2. stop \in 1..n
      BY <3>1, <1>4
    <3>3. Stop(stop)
      <4> HIDE DEF Stop
      <4> QED BY <3>1, <3>2
    <3> QED BY <3>1, <3>3
  <2> QED BY <2>1, <2>2
<1>7. /\ r.lead = lead /\ r.size = (IF stop = 0 THEN n + 1 ELSE stop) - lead - 1
  <2> HIDE DEF r, n
  <2> QED BY <1>1
<1>8. r.lead \in Nat /\ r.size \in Nat /\ r.lead + r.size <= n
  <2> HIDE DEF r, n
  <2> QED BY <1>2, <1>4, <1>6, <1>7
<1>9. \A j \in 1..r.lead : chars[j] = delim
  <2> HIDE DEF r
  <2> QED BY <1>4, <1>7
<1>10. r.lead + r.size < n => chars[r.lead + r.size + 1] \in {delim, NL}
  <2> HIDE DEF r, n
  <2>1. CASE stop = 0
    BY <2>1, <1>2, <1>4, <1>7
  <2>2. CASE stop # 0
    <3>1. r.lead + r.size + 1 = stop
      BY <2>2, <1>2, <1>4, <1>6, <1>7
    <3> QED BY <2>2, <3>1, <1>6
  <2> QED BY <2>1, <2>2
<1> QED BY <1>8, <1>9, <1>10

Pieces == [at : Nat, text : Seq(Symbol), how : {"executed", "skipped", "parsed"}]

\* What the variables hold, except for the string buffer.
InputTypes ==
  /\ program \in Programs
  /\ source \in [buffer : Seq(Symbol), length : Nat, in : Nat]
  /\ source.length <= Len(source.buffer)
  /\ IF IsString THEN source.buffer = program.text /\ source.length = Len(program.text) /\ pos = 0 /\ from = 0
     ELSE Len(source.buffer) = program.sz
  /\ pos \in Nat /\ pos <= Len(program.text) /\ from \in Nat /\ from <= pos
  /\ mode \in {"refill", "words", "skip", "ended"}
  /\ skip \in [depth : Nat, elseEnds : BOOLEAN] /\ (mode = "skip" => skip.depth > 0)
  /\ seen \in Seq(Pieces)

\* A text of a program is a text.
LEMMA TextOfMore ==
  ASSUME NEW A, NEW B, A \subseteq B, NEW t \in Seq(A)
  PROVE  t \in Seq(B)
<1>1. Len(t) \in Nat /\ DOMAIN t = 1..Len(t) /\ \A k \in 1..Len(t) : t[k] \in A
  OBVIOUS
<1>2. t = [k \in 1..Len(t) |-> t[k]]
  BY <1>1
<1>3. t \in [1..Len(t) -> B]
  BY <1>1, <1>2
<1> QED BY <1>1, <1>3

\* What the texts of programs are.
LEMMA ProgramsAreTexts ==
  ASSUME NEW p \in Programs
  PROVE  p.text \in Seq(Symbol) /\ p.sid \in {"file", "string"} /\ p.sz \in Nat \ {0}
<1>1. p \in [sid : {"file", "string"}, text : Seq(Letters), sz : Nat \ {0}]
  BY InputAssumption
<1>2. p.text \in Seq(Letters) /\ p.sid \in {"file", "string"} /\ p.sz \in Nat \ {0}
  BY <1>1
<1>3. Letters \subseteq Symbol
  BY DEF Symbol
<1> QED BY <1>2, <1>3, TextOfMore

\* What holds before every word.
LEMMA InputContext ==
  ASSUME InputTypes
  PROVE  /\ source.buffer \in Seq(Symbol) /\ source.length \in Nat /\ source.in \in Nat
         /\ Len(source.buffer) \in Nat /\ source.length <= Len(source.buffer)
         /\ program.text \in Seq(Symbol) /\ Len(program.text) \in Nat
         /\ program.sid \in {"file", "string"} /\ program.sz \in Nat \ {0}
         /\ pos \in Nat /\ from \in Nat /\ pos <= Len(program.text) /\ from <= pos
         /\ seen \in Seq(Pieces) /\ Len(seen) \in Nat
         /\ CountedMax \in Nat /\ CountedMax >= 2
<1>1. program \in Programs
  BY DEF InputTypes
<1>2. program.text \in Seq(Symbol) /\ program.sid \in {"file", "string"} /\ program.sz \in Nat \ {0}
      /\ CountedMax \in Nat /\ CountedMax >= 2
  BY <1>1, ProgramsAreTexts, InputAssumption
<1>3. Len(program.text) \in Nat
  BY <1>2
<1>4. source.buffer \in Seq(Symbol) /\ source.length \in Nat /\ source.in \in Nat /\ seen \in Seq(Pieces)
  BY DEF InputTypes
<1>5. Len(source.buffer) \in Nat /\ Len(seen) \in Nat
  BY <1>4
<1> QED BY <1>2, <1>3, <1>4, <1>5 DEF InputTypes

\* A piece of the line: what is skipped before it, what it is, and what ends it.
IsPiece(p, in, delim, l, z) ==
  /\ p.at = from + in + l /\ p.end = in + l + z + 1
  /\ p.text \in Seq(Symbol) /\ Len(p.text) = z
  /\ IF in < source.length THEN in + l + z <= source.length ELSE l = 0 /\ z = 0
  /\ \A k \in 1..l : source.buffer[in + k] = delim
  /\ \A k \in 1..z : p.text[k] = source.buffer[in + l + k]
  /\ in + l + z < source.length => source.buffer[in + l + z + 1] \in {delim, NL}

\* Whatever is parsed, from wherever, is a piece of the buffer.
LEMMA PieceFacts ==
  ASSUME InputTypes, NEW in \in Nat, NEW delim, NEW skipLeading \in BOOLEAN, NEW ignoreEsc \in BOOLEAN
  PROVE  \E l, z \in Nat : IsPiece(Piece(in, delim, skipLeading, ignoreEsc), in, delim, l, z)
<1> DEFINE chars == SubSeq(source.buffer, in + 1, source.length)
           r == mem_parse(chars, delim, skipLeading, ignoreEsc)
           p == Piece(in, delim, skipLeading, ignoreEsc)
           n == source.length
<1>1. source.buffer \in Seq(Symbol) /\ n \in Nat /\ from \in Nat /\ Len(source.buffer) \in Nat /\ n <= Len(source.buffer)
  BY InputContext
<1>2. PICK a \in Nat \ {0} : a = in + 1
  OBVIOUS
<1>3. /\ chars \in Seq(Symbol) /\ Len(chars) = IF a <= n THEN n - a + 1 ELSE 0
      /\ \A k \in 1..Len(chars) : chars[k] = source.buffer[a + k - 1]
  BY <1>1, <1>2, PartOfText
<1> HIDE DEF chars
<1>4. /\ r.lead \in Nat /\ r.size \in Nat /\ r.lead + r.size <= Len(chars)
      /\ \A j \in 1..r.lead : chars[j] = delim
      /\ r.lead + r.size < Len(chars) => chars[r.lead + r.size + 1] \in {delim, NL}
  BY <1>3, ParseFacts
<1>5. p = [at |-> from + in + r.lead, end |-> in + r.lead + r.size + 1,
           text |-> SubSeq(chars, r.lead + 1, r.lead + r.size)]
  BY DEF Piece, chars
<1> HIDE DEF r, n
<1>6. PICK l, z \in Nat : l = r.lead /\ z = r.size
  BY <1>4
<1>7. PICK b \in Nat \ {0}, c \in Nat : b = l + 1 /\ c = l + z
  OBVIOUS
<1>8. Len(chars) \in Nat /\ c <= Len(chars) /\ Len(chars) = IF in < n THEN n - in ELSE 0
  BY <1>1, <1>2, <1>3, <1>4, <1>6, <1>7
<1>9. /\ SubSeq(chars, b, c) \in Seq(Symbol) /\ Len(SubSeq(chars, b, c)) = IF b <= c THEN c - b + 1 ELSE 0
      /\ \A k \in 1..Len(SubSeq(chars, b, c)) : SubSeq(chars, b, c)[k] = chars[b + k - 1]
  BY <1>3, <1>7, <1>8, PartOfText
<1>10. p.at = from + in + l /\ p.end = in + l + z + 1 /\ p.text = SubSeq(chars, b, c)
  <2> HIDE DEF p
  <2>1. p.at = from + in + r.lead /\ p.end = in + r.lead + r.size + 1
        /\ p.text = SubSeq(chars, r.lead + 1, r.lead + r.size)
    BY ONLY <1>5
  <2>2. r.lead + 1 = b /\ r.lead + r.size = c
    BY <1>6, <1>7
  <2> QED BY <2>1, <2>2, <1>6
<1>11. (IF b <= c THEN c - b + 1 ELSE 0) = z
  BY <1>7
<1> HIDE DEF p
<1>12. p.text \in Seq(Symbol) /\ Len(p.text) = z
  BY <1>9, <1>10, <1>11
<1>13. IF in < n THEN in + l + z <= n ELSE l = 0 /\ z = 0
  BY <1>1, <1>7, <1>8
<1>14. ASSUME NEW k \in 1..l PROVE source.buffer[in + k] = delim
  <2>1. k \in 1..Len(chars) /\ a + k - 1 = in + k
    BY <1>2, <1>7, <1>8
  <2> QED BY <2>1, <1>3, <1>4, <1>6
<1>15. ASSUME NEW k \in 1..z PROVE p.text[k] = source.buffer[in + l + k]
  <2>1. l + k \in 1..Len(chars) /\ a + (l + k) - 1 = in + l + k /\ b + k - 1 = l + k
    BY <1>2, <1>7, <1>8
  <2>2. p.text[k] = chars[b + k - 1]
    BY <1>9, <1>10, <1>12
  <2> QED BY <2>1, <2>2, <1>3
<1>16. in + l + z < n => source.buffer[in + l + z + 1] \in {delim, NL}
  <2> SUFFICES ASSUME in + l + z < n PROVE source.buffer[in + l + z + 1] \in {delim, NL}
    OBVIOUS
  <2>1. l + z + 1 \in 1..Len(chars) /\ l + z < Len(chars) /\ a + (l + z + 1) - 1 = in + l + z + 1
    BY <1>1, <1>2, <1>7, <1>8
  <2>2. chars[l + z + 1] \in {delim, NL}
    BY <2>1, <1>4, <1>6
  <2> QED BY <2>1, <2>2, <1>3
<1>17. IsPiece(p, in, delim, l, z)
  BY <1>10, <1>12, <1>13, <1>14, <1>15, <1>16 DEF IsPiece, n
<1> QED BY <1>17 DEF p

\* A name of one character is found as it is written.
LEMMA ShortNames ==
  ASSUME NEW t \in Seq(Symbol), NEW w, CountedMax \in Nat, CountedMax >= 2
  PROVE  Counted(t) = <<w>> <=> t = <<w>>
<1>1. Len(t) \in Nat
  OBVIOUS
<1>2. PICK m \in Nat : m = IF Len(t) < CountedMax THEN Len(t) ELSE CountedMax
  BY <1>1
<1>3. Counted(t) = SubSeq(t, 1, m)
  BY <1>2 DEF Counted
<1>4. 1 \in Nat \ {0} /\ m <= Len(t)
  BY <1>1, <1>2
<1>5. SubSeq(t, 1, m) \in Seq(Symbol) /\ Len(SubSeq(t, 1, m)) = (IF 1 <= m THEN m - 1 + 1 ELSE 0)
      /\ \A k \in 1..Len(SubSeq(t, 1, m)) : SubSeq(t, 1, m)[k] = t[1 + k - 1]
  BY <1>4, PartOfText
<1>6. Len(SubSeq(t, 1, m)) = m /\ \A k \in 1..m : SubSeq(t, 1, m)[k] = t[k]
  BY <1>4, <1>5
<1>7. CASE Len(t) < CountedMax
  <2>1. m = Len(t)
    BY <1>2, <1>7
  <2>2. SubSeq(t, 1, m) = t
    BY <2>1, <1>5, <1>6, SeqEqual
  <2> QED BY <2>2, <1>3
<1>8. CASE ~(Len(t) < CountedMax)
  <2>1. m >= 2 /\ Len(t) >= 2
    BY <1>1, <1>2, <1>8
  <2>2. \A s : s = <<w>> => Len(s) = 1
    <3>1. Len(<<w>>) = 1
      OBVIOUS
    <3> QED BY <3>1, Zenon
  <2>3. t # <<w>>
    <3>1. SUFFICES ASSUME t = <<w>> PROVE FALSE
      OBVIOUS
    <3>2. Len(t) = 1
      BY <3>1, <2>2
    <3> QED BY <3>2, <2>1
  <2>4. SubSeq(t, 1, m) # <<w>>
    <3>1. SUFFICES ASSUME SubSeq(t, 1, m) = <<w>> PROVE FALSE
      OBVIOUS
    <3>2. m = 1
      BY <3>1, <2>2, <1>6
    <3> QED BY <3>2, <2>1
  <2> QED BY <2>3, <2>4, <1>3
<1> QED BY <1>7, <1>8

\* What is parsed is a piece of text, and >IN goes on behind it.
LEMMA NextFacts ==
  ASSUME InputTypes, NEW in \in Nat, NEW delim, NEW skipLeading \in BOOLEAN, NEW ignoreEsc \in BOOLEAN
  PROVE  /\ Piece(in, delim, skipLeading, ignoreEsc).end \in Nat
         /\ Piece(in, delim, skipLeading, ignoreEsc).end > in
         /\ Piece(in, delim, skipLeading, ignoreEsc).text \in Seq(Symbol)
         /\ \A how \in {"executed", "skipped", "parsed"} :
              Seen(Piece(in, delim, skipLeading, ignoreEsc), how) \in Pieces
<1> DEFINE p == Piece(in, delim, skipLeading, ignoreEsc)
<1>0. PICK l, z \in Nat : IsPiece(p, in, delim, l, z)
  BY PieceFacts
<1> HIDE DEF p
<1>1. l \in Nat /\ z \in Nat /\ p.at = from + in + l /\ p.end = in + l + z + 1 /\ p.text \in Seq(Symbol)
  BY <1>0 DEF IsPiece
<1>2. from \in Nat
  BY InputContext
<1>3. p.at \in Nat /\ p.end \in Nat /\ p.end > in
  BY <1>1, <1>2
<1>4. \A how \in {"executed", "skipped", "parsed"} : Seen(p, how) \in Pieces
  BY <1>1, <1>3 DEF Seen, Pieces
<1> QED BY <1>1, <1>3, <1>4 DEF p

\* Pieces that are noted are pieces.
LEMMA NotedIs ==
  ASSUME NEW pieces \in Seq(Pieces), NEW p \in Pieces
  PROVE  Noted(pieces, p) \in Seq(Pieces)
BY DEF Noted

\* The rest of the file, and the line at its beginning.
LEMMA ReadFacts ==
  ASSUME InputTypes
  PROVE  /\ Rest \in Seq(Symbol) /\ Len(Rest) = Len(program.text) - pos /\ Len(Rest) \in Nat
         /\ \A k \in 1..Len(Rest) : Rest[k] = program.text[pos + k]
         /\ LineLength \in Nat /\ LineLength <= Len(Rest) /\ (Rest # <<>> => LineLength > 0)
         /\ \A n \in Nat : n <= Len(Rest) =>
              LET kept == SubSeq(Rest, 1, Kept(n))
              IN  /\ Kept(n) \in Nat /\ Kept(n) <= n /\ Kept(n) <= program.sz
                  /\ kept \in Seq(Symbol) /\ Len(kept) = Kept(n)
                  /\ \A k \in 1..Kept(n) : kept[k] = program.text[pos + k]
<1>1. program.text \in Seq(Symbol) /\ Len(program.text) \in Nat /\ pos \in Nat /\ pos <= Len(program.text)
      /\ program.sz \in Nat \ {0}
  BY InputContext
<1>2. PICK a \in Nat \ {0}, m \in Nat : a = pos + 1 /\ m = Len(program.text)
  BY <1>1
<1>3. /\ Rest \in Seq(Symbol) /\ Len(Rest) = IF a <= m THEN m - a + 1 ELSE 0
      /\ \A k \in 1..Len(Rest) : Rest[k] = program.text[a + k - 1]
  BY <1>1, <1>2, PartOfText DEF Rest
<1>4. Len(Rest) = Len(program.text) - pos /\ Len(Rest) \in Nat
  BY <1>1, <1>2, <1>3
<1>5. \A k \in 1..Len(Rest) : Rest[k] = program.text[pos + k]
  <2>1. \A k \in 1..Len(Rest) : a + k - 1 = pos + k
    BY <1>1, <1>2, <1>4
  <2> QED BY <2>1, <1>3
<1>6. Line \in 0..Len(Rest)
  <2> DEFINE S == {i \in 1..Len(Rest) : Rest[i] = NL}
  <2>1. Line = IF S # {} THEN Min(S) ELSE 0
    BY DEF Line, SelectInSeq
  <2>2. S \subseteq Nat /\ S \subseteq 1..Len(Rest)
    BY <1>4
  <2> HIDE DEF S
  <2>3. S # {} => Min(S) \in 1..Len(Rest)
    BY <2>2, MinIsFirst
  <2> QED BY <2>1, <2>3, <1>4
<1>7. LineLength \in Nat /\ LineLength <= Len(Rest)
  BY <1>4, <1>6 DEF LineLength
<1>8. Rest # <<>> => LineLength > 0
  <2>1. Rest # <<>> => Len(Rest) # 0
    BY <1>3, EmptySeq
  <2> QED BY <2>1, <1>4, <1>6 DEF LineLength
<1>9. ASSUME NEW n \in Nat, n <= Len(Rest)
      PROVE  /\ Kept(n) \in Nat /\ Kept(n) <= n /\ Kept(n) <= program.sz
             /\ SubSeq(Rest, 1, Kept(n)) \in Seq(Symbol) /\ Len(SubSeq(Rest, 1, Kept(n))) = Kept(n)
             /\ \A k \in 1..Kept(n) : SubSeq(Rest, 1, Kept(n))[k] = program.text[pos + k]
  <2>1. PICK c \in Nat : c = Kept(n)
    BY <1>1 DEF Kept
  <2>2. c <= n /\ c <= program.sz /\ c <= Len(Rest)
    BY <2>1, <1>9, <1>1, <1>4 DEF Kept
  <2>3. 1 \in Nat \ {0}
    OBVIOUS
  <2>4. /\ SubSeq(Rest, 1, c) \in Seq(Symbol) /\ Len(SubSeq(Rest, 1, c)) = IF 1 <= c THEN c - 1 + 1 ELSE 0
        /\ \A k \in 1..Len(SubSeq(Rest, 1, c)) : SubSeq(Rest, 1, c)[k] = Rest[1 + k - 1]
    BY <2>2, <2>3, <1>3, PartOfText
  <2>5. Len(SubSeq(Rest, 1, c)) = c
    BY <2>1, <2>4
  <2>6. \A k \in 1..c : 1 + k - 1 = k /\ k \in 1..Len(Rest)
    BY <2>1, <2>2, <1>4
  <2>7. \A k \in 1..c : SubSeq(Rest, 1, c)[k] = program.text[pos + k]
    BY <2>4, <2>5, <2>6, <1>5
  <2> QED BY <2>1, <2>2, <2>4, <2>5, <2>7
<1> QED BY <1>3, <1>4, <1>5, <1>7, <1>8, <1>9

\* What a read leaves in the buffer.
LEMMA BufferFacts ==
  ASSUME InputTypes, NEW n \in Nat, n <= Len(Rest)
  PROVE  LET buffer == Written(source.buffer, 0, SubSeq(Rest, 1, Kept(n)))
         IN  /\ buffer \in Seq(Symbol) /\ Len(buffer) = Len(source.buffer)
             /\ ~IsString => \A k \in 1..Kept(n) : buffer[k] = program.text[pos + k]
             /\ n = 0 => buffer = source.buffer
<1> DEFINE kept == SubSeq(Rest, 1, Kept(n))
           buffer == Written(source.buffer, 0, kept)
<1>1. /\ Kept(n) \in Nat /\ Kept(n) <= n /\ Kept(n) <= program.sz
      /\ kept \in Seq(Symbol) /\ Len(kept) = Kept(n)
      /\ \A k \in 1..Kept(n) : kept[k] = program.text[pos + k]
  BY ReadFacts
<1> HIDE DEF kept
<1>2. source.buffer \in Seq(Symbol) /\ Len(source.buffer) \in Nat /\ 0 \in Nat /\ program.sz \in Nat
  BY InputContext
<1>3. /\ buffer \in Seq(Symbol) /\ Len(buffer) = Len(source.buffer)
      /\ \A i \in 1..Len(source.buffer) :
           buffer[i] = IF i > 0 /\ i - 0 <= Len(kept) THEN kept[i - 0] ELSE source.buffer[i]
  BY <1>1, <1>2, WrittenIsText
<1> HIDE DEF buffer
<1>4. ASSUME ~IsString, NEW k \in 1..Kept(n) PROVE buffer[k] = program.text[pos + k]
  <2>1. Len(source.buffer) = program.sz
    BY <1>4 DEF InputTypes
  <2>2. k \in 1..Len(source.buffer) /\ k > 0 /\ k - 0 <= Len(kept) /\ k - 0 = k
    BY <2>1, <1>1, <1>2
  <2> QED BY <2>2, <1>1, <1>3
<1>5. ASSUME n = 0 PROVE buffer = source.buffer
  <2>1. \A i \in 1..Len(source.buffer) : ~(i > 0 /\ i - 0 <= Len(kept))
    BY <1>1, <1>2, <1>5
  <2>2. \A i \in 1..Len(source.buffer) : buffer[i] = source.buffer[i]
    BY <2>1, <1>3
  <2> QED BY <2>2, <1>2, <1>3, SeqEqual
<1> QED BY <1>3, <1>4, <1>5 DEF buffer, kept

\* A word that moves >IN.
LEMMA MovingKeeps ==
  ASSUME InputTypes, NEW e \in Nat, source' = [source EXCEPT !.in = e], UNCHANGED <<program, pos, from>>,
         mode' \in {"refill", "words", "skip", "ended"}, skip' \in [depth : Nat, elseEnds : BOOLEAN],
         mode' = "skip" => skip'.depth > 0, seen' \in Seq(Pieces)
  PROVE  InputTypes'
<1>1. source' \in [buffer : Seq(Symbol), length : Nat, in : Nat]
      /\ source'.buffer = source.buffer /\ source'.length = source.length
  BY DEF InputTypes
<1>2. IsString' = IsString
  BY DEF IsString
<1> QED BY <1>1, <1>2 DEF InputTypes

\* A read that changes the buffer.
LEMMA ReadingKeeps ==
  ASSUME InputTypes, ~IsString, NEW n \in Nat, n <= Len(Rest), NEW length \in Nat, length <= Kept(n), NEW e \in Nat,
         source' = [buffer |-> Written(source.buffer, 0, SubSeq(Rest, 1, Kept(n))), length |-> length, in |-> e],
         pos' = pos + n, from' \in {from, pos}, UNCHANGED program,
         mode' \in {"refill", "words", "skip", "ended"}, skip' \in [depth : Nat, elseEnds : BOOLEAN],
         mode' = "skip" => skip'.depth > 0, seen' \in Seq(Pieces)
  PROVE  InputTypes'
<1> DEFINE buffer == Written(source.buffer, 0, SubSeq(Rest, 1, Kept(n)))
<1>1. buffer \in Seq(Symbol) /\ Len(buffer) = Len(source.buffer)
  BY BufferFacts
<1>2. Len(source.buffer) = program.sz /\ Kept(n) <= program.sz /\ Kept(n) \in Nat
  BY ReadFacts DEF InputTypes
<1>3. source' = [buffer |-> buffer, length |-> length, in |-> e]
  OBVIOUS
<1> HIDE DEF buffer
<1>4. source' \in [buffer : Seq(Symbol), length : Nat, in : Nat] /\ source'.buffer = buffer /\ source'.length = length
  BY <1>1, <1>3
<1>5. program.sz \in Nat /\ pos \in Nat /\ from \in Nat /\ from <= pos /\ pos <= Len(program.text) /\ Len(program.text) \in Nat
      /\ Len(Rest) = Len(program.text) - pos
  BY InputContext, ReadFacts
<1>6. length <= Len(buffer)
  BY <1>1, <1>2, <1>5
<1>7. pos' \in Nat /\ pos' <= Len(program'.text) /\ from' \in Nat /\ from' <= pos'
  BY <1>5
<1>8. ~IsString' /\ Len(source'.buffer) = program'.sz
  BY <1>1, <1>2, <1>4 DEF IsString
<1>9. program' \in Programs /\ source'.length <= Len(source'.buffer)
  BY <1>4, <1>6 DEF InputTypes
<1> QED BY <1>4, <1>7, <1>8, <1>9 DEF InputTypes

\* e4__io_file_readline.
LEMMA ReadLineKeeps ==
  ASSUME InputTypes, ReadLine, UNCHANGED <<program, skip>>, mode' \in {"words", "skip"},
         mode' = "skip" => skip.depth > 0, seen' \in Seq(Pieces)
  PROVE  InputTypes'
<1>1. /\ ~IsString /\ Rest # <<>> /\ pos' = pos + LineLength /\ from' = pos
      /\ source' = [buffer |-> Written(source.buffer, 0, SubSeq(Rest, 1, Kept(LineLength))),
                    length |-> Kept(LineLength), in |-> 0]
  BY DEF ReadLine, InAfterRefill
<1>2. LineLength \in Nat /\ LineLength <= Len(Rest)
  BY ReadFacts
<1>3. Kept(LineLength) \in Nat /\ Kept(LineLength) <= Kept(LineLength) /\ 0 \in Nat
  BY <1>2, ReadFacts
<1>4. skip' \in [depth : Nat, elseEnds : BOOLEAN] /\ (mode' = "skip" => skip'.depth > 0)
  BY DEF InputTypes
<1>5. mode' \in {"refill", "words", "skip", "ended"} /\ from' \in {from, pos}
  BY <1>1
<1> QED BY <1>1, <1>2, <1>3, <1>4, <1>5, ReadingKeeps

\* A read that fails leaves an empty line and a place in the file.
LEMMA ReadFailsKeeps ==
  ASSUME InputTypes, ReadFails, UNCHANGED <<program, skip>>, mode' = "ended", seen' \in Seq(Pieces)
  PROVE  InputTypes'
<1>1. PICK n \in PartialReads :
        /\ source' = [buffer |-> Written(source.buffer, 0, SubSeq(Rest, 1, Kept(n))), length |-> 0, in |-> 0]
        /\ pos' = pos + n
  BY DEF ReadFails
<1>2. ~IsString /\ from' = from
  BY DEF ReadFails
<1>3. LineLength \in Nat /\ LineLength <= Len(Rest) /\ Len(Rest) \in Nat
  BY ReadFacts
<1>4. n \in Nat /\ n <= Len(Rest)
  <2>1. n \in 0..LineLength
    BY <1>1, <1>3 DEF PartialReads
  <2> QED BY <2>1, <1>3
<1>5. Kept(n) \in Nat /\ 0 <= Kept(n) /\ 0 \in Nat
  BY <1>4, ReadFacts
<1>6. skip' \in [depth : Nat, elseEnds : BOOLEAN] /\ (mode' = "skip" => skip'.depth > 0)
  BY DEF InputTypes
<1>7. mode' \in {"refill", "words", "skip", "ended"} /\ from' \in {from, pos}
  BY <1>2
<1> QED BY <1>1, <1>2, <1>4, <1>5, <1>6, <1>7, ReadingKeeps

\* The pieces that are noted.
LEMMA NoteKeeps ==
  ASSUME InputTypes, NEW how \in {"executed", "skipped", "parsed"}, Note(Seen(Next_, how))
  PROVE  seen' \in Seq(Pieces) /\ Next_.end \in Nat
<1>1. Seen(Next_, how) \in Pieces /\ Next_.end \in Nat
  BY NextFacts, InputContext DEF Next_
<1>2. seen \in Seq(Pieces)
  BY InputContext
<1> QED BY <1>1, <1>2, NotedIs DEF Note

\* A word that parses text behind its name.
LEMMA TakeKeeps ==
  ASSUME InputTypes, NEW delim, NEW skipLeading \in BOOLEAN, NEW ignoreEsc \in BOOLEAN,
         NEW text, text = Piece(Next_.end, delim, skipLeading, ignoreEsc),
         source' = [source EXCEPT !.in = text.end], NoteBoth(Seen(Next_, "executed"), Seen(text, "parsed")),
         UNCHANGED <<program, pos, from, skip>>, mode' \in {"words", "ended"}
  PROVE  InputTypes'
<1>1. Seen(Next_, "executed") \in Pieces /\ Next_.end \in Nat
  BY NextFacts, InputContext DEF Next_
<1>2. Seen(text, "parsed") \in Pieces /\ text.end \in Nat
  BY <1>1, NextFacts
<1>3. seen' \in Seq(Pieces)
  <2>1. seen \in Seq(Pieces)
    BY InputContext
  <2>2. Noted(seen, Seen(Next_, "executed")) \in Seq(Pieces)
    BY <2>1, <1>1, NotedIs
  <2> QED BY <2>2, <1>2, NotedIs DEF NoteBoth
<1>4. skip' \in [depth : Nat, elseEnds : BOOLEAN] /\ mode' # "skip"
  BY DEF InputTypes
<1> QED BY <1>2, <1>3, <1>4, MovingKeeps

\* Words that read nothing.
LEMMA WordsKeepTypes ==
  InputTypes /\ (Ordinary \/ Comment \/ S_QUOTE \/ S_BACKSLASH_QUOTE \/ BRACKET_IF \/ BRACKET_ELSE) => InputTypes'
<1> SUFFICES ASSUME InputTypes, Ordinary \/ Comment \/ S_QUOTE \/ S_BACKSLASH_QUOTE \/ BRACKET_IF \/ BRACKET_ELSE
             PROVE  InputTypes'
  OBVIOUS
<1>1. skip \in [depth : Nat, elseEnds : BOOLEAN]
  BY DEF InputTypes
<1>2. CASE Ordinary
  <2>1. Note(Seen(Next_, "executed")) /\ source' = [source EXCEPT !.in = Next_.end]
        /\ UNCHANGED <<program, pos, from, skip>> /\ mode' = "words"
    BY <1>2 DEF Ordinary
  <2>2. seen' \in Seq(Pieces) /\ Next_.end \in Nat
    BY <2>1, NoteKeeps
  <2> QED BY <2>1, <2>2, <1>1, MovingKeeps
<1>3. CASE Comment
  <2>1. PICK text : /\ text = Piece(Next_.end, IF Name = <<ESC>> THEN NL ELSE ")", TRUE, FALSE)
                    /\ source' = [source EXCEPT !.in = text.end]
                    /\ NoteBoth(Seen(Next_, "executed"), Seen(text, "parsed"))
    BY <1>3 DEF Comment
  <2>2. UNCHANGED <<program, pos, from, skip>> /\ mode' = "words"
    BY <1>3 DEF Comment, Execute
  <2> QED BY <2>1, <2>2, TakeKeeps
<1>4. CASE S_QUOTE
  <2>1. PICK quoted : /\ quoted = Quoted(FALSE) /\ Take(quoted) /\ mode' \in {mode, "ended"}
    BY <1>4 DEF S_QUOTE
  <2>2. mode = "words"
    BY <1>4 DEF S_QUOTE, Execute
  <2> QED BY <2>1, <2>2, TakeKeeps DEF Take, Quoted
<1>5. CASE S_BACKSLASH_QUOTE
  <2>1. PICK quoted : /\ quoted = Quoted(TRUE) /\ Take(quoted) /\ mode' \in {mode, "ended"}
    BY <1>5 DEF S_BACKSLASH_QUOTE
  <2>2. mode = "words"
    BY <1>5 DEF S_BACKSLASH_QUOTE, Execute
  <2> QED BY <2>1, <2>2, TakeKeeps DEF Take, Quoted
<1>6. CASE BRACKET_IF
  <2>1. Note(Seen(Next_, "executed")) /\ source' = [source EXCEPT !.in = Next_.end] /\ UNCHANGED <<program, pos, from>>
    BY <1>6 DEF BRACKET_IF
  <2>2. seen' \in Seq(Pieces) /\ Next_.end \in Nat
    BY <2>1, NoteKeeps
  <2>3. (mode' = "words" /\ skip' = skip) \/ (mode' = "skip" /\ skip' = [depth |-> 1, elseEnds |-> TRUE])
    BY <1>6 DEF BRACKET_IF, Execute
  <2>4. skip' \in [depth : Nat, elseEnds : BOOLEAN] /\ (mode' = "skip" => skip'.depth > 0)
        /\ mode' \in {"refill", "words", "skip", "ended"}
    <3>1. CASE mode' = "words" /\ skip' = skip
      BY <3>1, <1>1
    <3>2. CASE mode' = "skip" /\ skip' = [depth |-> 1, elseEnds |-> TRUE]
      BY <3>2
    <3> QED BY <2>3, <3>1, <3>2
  <2> QED BY <2>1, <2>2, <2>4, MovingKeeps
<1>7. CASE BRACKET_ELSE
  <2>1. Note(Seen(Next_, "executed")) /\ source' = [source EXCEPT !.in = Next_.end] /\ UNCHANGED <<program, pos, from>>
    BY <1>7 DEF BRACKET_ELSE
  <2>2. seen' \in Seq(Pieces) /\ Next_.end \in Nat
    BY <2>1, NoteKeeps
  <2>3. mode' = "skip" /\ skip' = [depth |-> 1, elseEnds |-> FALSE]
    BY <1>7 DEF BRACKET_ELSE
  <2>4. skip' \in [depth : Nat, elseEnds : BOOLEAN] /\ skip'.depth > 0
    BY <2>3
  <2> QED BY <2>1, <2>2, <2>3, <2>4, MovingKeeps
<1> QED BY <1>2, <1>3, <1>4, <1>5, <1>6, <1>7

\* Steps that read, or skip.
LEMMA ReadingKeepsTypes ==
  InputTypes /\ (REFILL \/ CATCH \/ LineEnds \/ Refill \/ SkipWord \/ SkipRefill) => InputTypes'
<1> SUFFICES ASSUME InputTypes, REFILL \/ CATCH \/ LineEnds \/ Refill \/ SkipWord \/ SkipRefill PROVE InputTypes'
  OBVIOUS
<1>1. skip \in [depth : Nat, elseEnds : BOOLEAN] /\ skip.depth \in Nat /\ seen \in Seq(Pieces)
      /\ (mode = "skip" => skip.depth > 0)
  BY DEF InputTypes
<1>2. CASE REFILL
  <2>1. Note(Seen(Next_, "executed")) /\ UNCHANGED <<program, skip>> /\ mode = "words"
    BY <1>2 DEF REFILL, Execute
  <2>2. seen' \in Seq(Pieces) /\ Next_.end \in Nat
    BY <2>1, NoteKeeps
  <2>3. CASE source' = [source EXCEPT !.in = Next_.end] /\ UNCHANGED <<pos, from, mode>>
    BY <2>1, <2>2, <2>3, <1>1, MovingKeeps
  <2>4. CASE ReadLine /\ UNCHANGED mode
    BY <2>1, <2>2, <2>4, ReadLineKeeps
  <2>5. CASE ReadFails /\ mode' = "ended"
    BY <2>1, <2>2, <2>5, ReadFailsKeeps
  <2> QED BY <2>3, <2>4, <2>5, <1>2 DEF REFILL
<1>3. CASE CATCH
  <2>1. PICK n \in IF IsString THEN {0} ELSE PartialReads \cup {LineLength} :
          /\ source' = [source EXCEPT !.in = Next_.end, !.buffer = Written(@, 0, SubSeq(Rest, 1, Kept(n)))]
          /\ pos' = pos + n
    BY <1>3 DEF CATCH
  <2>2. Note(Seen(Next_, "executed")) /\ UNCHANGED <<program, from, mode, skip>> /\ mode = "words"
    BY <1>3 DEF CATCH, Execute
  <2>3. seen' \in Seq(Pieces) /\ Next_.end \in Nat
    BY <2>2, NoteKeeps
  <2>4. LineLength \in Nat /\ LineLength <= Len(Rest) /\ Len(Rest) \in Nat
    BY ReadFacts
  <2>5. n \in Nat /\ n <= Len(Rest) /\ (IsString => n = 0)
    <3>1. n \in 0..LineLength
      BY <2>1, <2>4 DEF PartialReads
    <3>2. n \in Nat /\ n <= Len(Rest)
      BY <3>1, <2>4
    <3> QED BY <3>2, <2>1
  <2> DEFINE buffer == Written(source.buffer, 0, SubSeq(Rest, 1, Kept(n)))
  <2>6. buffer \in Seq(Symbol) /\ Len(buffer) = Len(source.buffer) /\ (n = 0 => buffer = source.buffer)
    BY <2>5, BufferFacts
  <2>7. source' = [source EXCEPT !.in = Next_.end, !.buffer = buffer]
    BY <2>1
  <2> HIDE DEF buffer
  <2>8. source' \in [buffer : Seq(Symbol), length : Nat, in : Nat] /\ source'.buffer = buffer /\ source'.length = source.length
    BY <2>3, <2>6, <2>7 DEF InputTypes
  <2>9. pos' \in Nat /\ pos' <= Len(program.text) /\ from <= pos' /\ (n = 0 => pos' = pos)
    <3>1. pos \in Nat /\ from \in Nat /\ from <= pos /\ pos <= Len(program.text) /\ Len(program.text) \in Nat
          /\ Len(Rest) = Len(program.text) - pos
      BY InputContext, ReadFacts
    <3>2. pos' = pos + n
      BY <2>1
    <3> QED BY <3>1, <3>2, <2>5
  <2>10. IsString' = IsString
    BY <2>2 DEF IsString
  <2>11. IF IsString THEN buffer = program.text /\ source.length = Len(program.text) /\ pos' = 0 /\ from = 0
         ELSE Len(buffer) = program.sz
    BY <2>5, <2>6, <2>9 DEF InputTypes
  <2> QED BY <2>2, <2>3, <2>6, <2>8, <2>9, <2>10, <2>11 DEF InputTypes
<1>4. CASE LineEnds
  <2>1. UNCHANGED <<program, pos, source, from, skip, seen>> /\ mode' \in {"ended", "refill"}
    BY <1>4 DEF LineEnds
  <2> QED BY <2>1 DEF InputTypes, IsString
<1>5. CASE Refill
  <2>1. UNCHANGED <<program, skip, seen>> /\ ((ReadLine /\ mode' = "words") \/ (ReadFails /\ mode' = "ended"))
    BY <1>5 DEF Refill
  <2>2. UNCHANGED <<program, skip>> /\ seen' \in Seq(Pieces)
    BY <1>1, <1>5 DEF Refill
  <2> QED BY <2>1, <2>2, ReadLineKeeps, ReadFailsKeeps
<1>6. CASE SkipWord
  <2>1. Note(Seen(Next_, "skipped")) /\ UNCHANGED <<program, pos, from>>
    BY <1>6 DEF SkipWord
  <2>2. seen' \in Seq(Pieces) /\ Next_.end \in Nat
    BY <2>1, NoteKeeps
  <2>3. PICK e \in Nat : source' = [source EXCEPT !.in = e]
    <3>1. source.in \in Nat
      BY InputContext
    <3> QED BY <3>1, <2>2, <1>6 DEF SkipWord
  <2> DEFINE depth == DepthAfter(Name)
  <2>4. depth \in Nat
    <3>1. skip.depth > 0
      BY <1>1, <1>6 DEF SkipWord
    <3> QED BY <3>1, <1>1 DEF DepthAfter
  <2>5. skip' = (IF depth = 0 THEN NoSkip ELSE [skip EXCEPT !.depth = depth])
        /\ mode' = IF depth = 0 THEN "words" ELSE "skip"
    BY <1>6 DEF SkipWord
  <2> HIDE DEF depth
  <2>6. skip' \in [depth : Nat, elseEnds : BOOLEAN] /\ (mode' = "skip" => skip'.depth > 0)
        /\ mode' \in {"refill", "words", "skip", "ended"}
    BY <2>4, <2>5, <1>1 DEF NoSkip
  <2> QED BY <2>1, <2>2, <2>3, <2>6, MovingKeeps
<1>7. CASE SkipRefill
  <2>1. UNCHANGED <<program, skip>> /\ seen' \in Seq(Pieces) /\ mode = "skip"
    BY <1>1, <1>7 DEF SkipRefill
  <2>2. (ReadLine /\ mode' = mode) \/ (ReadFails /\ mode' = "ended")
    BY <1>7 DEF SkipRefill, AfterFailure
  <2> QED BY <2>1, <2>2, <1>1, ReadLineKeeps, ReadFailsKeeps
<1> QED BY <1>2, <1>3, <1>4, <1>5, <1>6, <1>7

\* InputTypes is inductive.
LEMMA TypesKept == InputTypes /\ [InputNext]_inputVars => InputTypes'
<1> SUFFICES ASSUME InputTypes, [InputNext]_inputVars PROVE InputTypes'
  OBVIOUS
<1>1. CASE UNCHANGED inputVars
  BY <1>1 DEF inputVars, InputTypes, IsString
<1>2. CASE InputNext /\ ~UNCHANGED inputVars
  BY <1>2, WordsKeepTypes, ReadingKeepsTypes DEF InputNext, Skip, Ended
<1> QED BY <1>1, <1>2

\* It holds at first.
LEMMA InitTypes == InputInit => InputTypes
<1> SUFFICES ASSUME InputInit PROVE InputTypes
  OBVIOUS
<1>1. program \in Programs /\ pos = 0 /\ from = 0 /\ skip = NoSkip /\ seen = <<>>
      /\ mode \in {"words", "refill"}
  BY DEF InputInit
<1>2. program.text \in Seq(Symbol) /\ program.sz \in Nat \ {0} /\ Len(program.text) \in Nat
  BY <1>1, ProgramsAreTexts
<1>3. source \in [buffer : Seq(Symbol), length : Nat, in : Nat] /\ source.length <= Len(source.buffer)
      /\ IF IsString THEN source.buffer = program.text /\ source.length = Len(program.text)
         ELSE Len(source.buffer) = program.sz
  <2>1. CASE IsString
    <3>1. source = [buffer |-> program.text, length |-> Len(program.text), in |-> 0]
      BY <2>1 DEF InputInit
    <3> QED BY <2>1, <3>1, <1>2
  <2>2. CASE ~IsString
    <3> DEFINE junk == [i \in 1..program.sz |-> "junk"]
    <3>1. source = [buffer |-> junk, length |-> 0, in |-> 0]
      BY <2>2 DEF InputInit
    <3>2. junk \in Seq(Symbol) /\ Len(junk) = program.sz
      <4>1. "junk" \in Symbol
        BY DEF Symbol
      <4> QED BY <4>1, <1>2
    <3> HIDE DEF junk
    <3> QED BY <2>2, <3>1, <3>2, <1>2
  <2> QED BY <2>1, <2>2
<1>4. skip \in [depth : Nat, elseEnds : BOOLEAN]
  BY <1>1 DEF NoSkip
<1>5. seen \in Seq(Pieces)
  BY <1>1
<1> QED BY <1>1, <1>2, <1>3, <1>4, <1>5 DEF InputTypes

(* The names among pieces that were parsed. *)
NamesOf(s) == [i \in DOMAIN s |-> IF s[i].how = "parsed" THEN <<>> ELSE s[i].text]
StructuredIn(s) == \A i \in DOMAIN s : NamesOf(s)[i] \in {ELSE_, THEN_} => \E j \in 1..(i - 1) : Open(NamesOf(s), j, i - 1)
\* Where the interpreter is says whether all that is open was chosen.
ChoiceIn(s, m, sk) ==
  StructuredIn(s) =>
    /\ m \in {"words", "refill"} => AllTaken(NamesOf(s), Len(s))
    /\ m = "skip" => \E j \in 1..Len(s) : Skips(NamesOf(s), Len(s), j, sk.depth, sk.elseEnds)
ExecutedIn(s) ==
  Len(s) > 0 /\ s[Len(s)].how # "parsed" /\ NamesOf(s)[Len(s)] \notin {ELSE_, THEN_} /\ StructuredIn(s) =>
    (s[Len(s)].how = "executed") = \A j \in 1..(Len(s) - 1) : Open(NamesOf(s), j, Len(s) - 1) => Taken(NamesOf(s), j, Len(s) - 1)

\* The pieces t are those of s and p.
OnePieceMore(s, p, t, i) ==
  /\ i \in Nat /\ i = Len(s) /\ DOMAIN s = 1..i
  /\ t \in Seq(Pieces) /\ Len(t) = i + 1 /\ DOMAIN t = 1..(i + 1) /\ t[i + 1] = p
  /\ NamesOf(t)[i + 1] = IF p.how = "parsed" THEN <<>> ELSE p.text
  /\ \A k \in 1..i : t[k] = s[k] /\ NamesOf(t)[k] = NamesOf(s)[k]

\* The names after one more piece.
LEMMA NamesAppend ==
  ASSUME NEW s \in Seq(Pieces), NEW p \in Pieces
  PROVE  \E i \in Nat : OnePieceMore(s, p, Append(s, p), i)
<1>0. PICK i \in Nat : i = Len(s)
  OBVIOUS
<1>t. PICK t : t = Append(s, p)
  OBVIOUS
<1>1. /\ t \in Seq(Pieces) /\ Len(t) = i + 1 /\ DOMAIN t = 1..(i + 1) /\ t[i + 1] = p
      /\ \A k \in 1..i : t[k] = s[k]
      /\ DOMAIN s = 1..i
  BY <1>0, <1>t
<1>2. i + 1 \in 1..(i + 1) /\ \A k \in 1..i : k \in 1..(i + 1)
  OBVIOUS
<1>3. OnePieceMore(s, p, t, i)
  BY <1>0, <1>1, <1>2 DEF NamesOf, OnePieceMore
<1> QED BY <1>3, <1>t

\* What is known of the first i names is known after one more.
LEMMA AppendSame ==
  ASSUME NEW s, NEW p, NEW t, NEW i \in Nat, OnePieceMore(s, p, t, i)
  PROVE  /\ StructuredIn(t) => StructuredIn(s)
         /\ StructuredIn(t) /\ NamesOf(t)[i + 1] \in {ELSE_, THEN_} => \E o \in 1..i : Open(NamesOf(t), o, i)
         /\ AllTaken(NamesOf(s), i) <=> AllTaken(NamesOf(t), i)
         /\ \A j \in 1..i, depth \in Nat, elseEnds \in BOOLEAN :
              Skips(NamesOf(s), i, j, depth, elseEnds) <=> Skips(NamesOf(t), i, j, depth, elseEnds)
<1> DEFINE N == NamesOf(s)
           M == NamesOf(t)
<1>1. Len(t) = i + 1 /\ DOMAIN t = 1..(i + 1) /\ DOMAIN s = 1..i /\ \A k \in 1..i : M[k] = N[k]
  BY DEF OnePieceMore
<1> HIDE DEF N, M
<1>2. \A j \in 1..i : /\ Open(M, j, i) <=> Open(N, j, i)
                      /\ Elses(M, j, i) = Elses(N, j, i)
                      /\ Taken(M, j, i) <=> Taken(N, j, i)
  BY <1>1, StructuresSame
<1>3. StructuredIn(t) => StructuredIn(s)
  <2> SUFFICES ASSUME StructuredIn(t), NEW k \in 1..i, N[k] \in {ELSE_, THEN_} PROVE \E j \in 1..(k - 1) : Open(N, j, k - 1)
    BY <1>1 DEF StructuredIn, N
  <2>1. k \in 1..(i + 1) /\ M[k] \in {ELSE_, THEN_}
    BY <1>1
  <2>2. PICK j \in 1..(k - 1) : Open(M, j, k - 1)
    BY <2>1, <1>1 DEF StructuredIn, M
  <2>3. k - 1 \in Int /\ \A l \in 1..(k - 1) : l \in 1..i
    OBVIOUS
  <2>4. \A l \in 1..(k - 1) : M[l] = N[l]
    BY <2>3, <1>1
  <2>5. Open(N, j, k - 1)
    BY <2>2, <2>3, <2>4, StructuresSame
  <2> QED BY <2>5
<1>4. StructuredIn(t) /\ M[i + 1] \in {ELSE_, THEN_} => \E o \in 1..i : Open(M, o, i)
  <2>1. i + 1 \in 1..(i + 1) /\ (i + 1) - 1 = i
    OBVIOUS
  <2> QED BY <2>1, <1>1 DEF StructuredIn, M
<1>5. AllTaken(N, i) <=> AllTaken(M, i)
  BY <1>2 DEF AllTaken
<1>6. ASSUME NEW j \in 1..i, NEW depth \in Nat, NEW elseEnds \in BOOLEAN
      PROVE  Skips(N, i, j, depth, elseEnds) <=> Skips(M, i, j, depth, elseEnds)
  <2>1. Nest(M, j, i) = Nest(N, j, i) /\ M[j] = N[j]
    <3>1. j \in Int /\ i \in Int /\ \A k \in j..i : k \in 1..i
      OBVIOUS
    <3>2. \A k \in j..i : M[k] = N[k]
      BY <3>1, <1>1
    <3> QED BY <3>1, <3>2, <1>1, NestSame
  <2>2. \A o \in 1..(j - 1) : o \in 1..i
    OBVIOUS
  <2>3. \A o \in 1..(j - 1) : (Open(M, o, i) <=> Open(N, o, i)) /\ (Taken(M, o, i) <=> Taken(N, o, i))
    BY <2>2, <1>2
  <2>4. (Open(M, j, i) <=> Open(N, j, i)) /\ Elses(M, j, i) = Elses(N, j, i)
    BY <1>2
  <2> QED BY <2>1, <2>3, <2>4 DEF Skips
<1> QED BY <1>3, <1>4, <1>5, <1>6 DEF N, M

\* A word is executed, or a piece of text is taken.
LEMMA ExecutedAppend ==
  ASSUME NEW s, NEW p, NEW t, NEW i \in Nat, OnePieceMore(s, p, t, i), NEW sk, NEW m \in {"words", "refill", "ended"}, NEW sk2,
         ChoiceIn(s, "words", sk), p.how = "parsed" \/ (p.how = "executed" /\ p.text \notin IFs \cup {ELSE_})
           \/ (p.how = "executed" /\ p.text = <<"true[IF]">>)
  PROVE  ChoiceIn(t, m, sk2) /\ ExecutedIn(t)
<1> DEFINE M == NamesOf(t)
<1>0. i = Len(s)
  BY DEF OnePieceMore
<1>1. Len(t) = i + 1 /\ t[i + 1] = p /\ M[i + 1] = IF p.how = "parsed" THEN <<>> ELSE p.text
  BY DEF OnePieceMore
<1>2. (StructuredIn(t) => StructuredIn(s)) /\ (AllTaken(NamesOf(s), i) <=> AllTaken(M, i))
  BY AppendSame
<1>3. StructuredIn(t) => AllTaken(M, i)
  BY <1>0, <1>2 DEF ChoiceIn
<1> HIDE DEF M
<1>4. M[i + 1] \notin IFs \cup {ELSE_} \/ M[i + 1] = <<"true[IF]">>
  <2>1. <<>> \notin IFs \cup {ELSE_}
    BY DEF IFs, ELSE_
  <2> QED BY <2>1, <1>1
<1>5. StructuredIn(t) => AllTaken(M, i + 1)
  BY <1>3, <1>4, OrdinaryExecuted, TrueIf
<1>6. ChoiceIn(t, m, sk2)
  BY <1>1, <1>5 DEF ChoiceIn, M
<1>7. ExecutedIn(t)
  <2> SUFFICES ASSUME t[Len(t)].how # "parsed", StructuredIn(t)
               PROVE  (t[Len(t)].how = "executed") = \A j \in 1..(Len(t) - 1) : Open(M, j, Len(t) - 1) => Taken(M, j, Len(t) - 1)
    BY DEF ExecutedIn, M
  <2>1. Len(t) - 1 = i /\ t[Len(t)] = p
    BY <1>1
  <2>2. p.how = "executed"
    BY <2>1
  <2>3. \A j \in 1..i : Open(M, j, i) => Taken(M, j, i)
    BY <1>3 DEF AllTaken
  <2> QED BY <2>1, <2>2, <2>3
<1> QED BY <1>6, <1>7

\* [IF] and [ELSE] begin to skip.
LEMMA SkippingBegins ==
  ASSUME NEW s, NEW p, NEW t, NEW i \in Nat, OnePieceMore(s, p, t, i), NEW sk, NEW sk2,
         ChoiceIn(s, "words", sk), p.how = "executed",
         \/ p.text = <<"false[IF]">> /\ sk2 = [depth |-> 1, elseEnds |-> TRUE]
         \/ p.text = ELSE_ /\ sk2 = [depth |-> 1, elseEnds |-> FALSE]
  PROVE  ChoiceIn(t, "skip", sk2) /\ ExecutedIn(t)
<1> DEFINE M == NamesOf(t)
<1>0. i = Len(s)
  BY DEF OnePieceMore
<1>1. Len(t) = i + 1 /\ t[i + 1] = p /\ M[i + 1] = p.text
  BY DEF OnePieceMore
<1>2. (StructuredIn(t) => StructuredIn(s)) /\ (AllTaken(NamesOf(s), i) <=> AllTaken(M, i))
      /\ (StructuredIn(t) /\ M[i + 1] \in {ELSE_, THEN_} => \E o \in 1..i : Open(M, o, i))
  BY AppendSame
<1>3. StructuredIn(t) => AllTaken(M, i)
  BY <1>0, <1>2 DEF ChoiceIn
<1> HIDE DEF M
<1>4. ASSUME StructuredIn(t) PROVE \E j \in 1..(i + 1) : Skips(M, i + 1, j, sk2.depth, sk2.elseEnds)
  <2>1. CASE p.text = <<"false[IF]">> /\ sk2 = [depth |-> 1, elseEnds |-> TRUE]
    <3>1. Skips(M, i + 1, i + 1, 1, TRUE)
      BY <2>1, <1>1, <1>3, <1>4, FalseIf
    <3>2. sk2.depth = 1 /\ sk2.elseEnds = TRUE /\ i + 1 \in 1..(i + 1)
      BY <2>1
    <3> QED BY <3>1, <3>2
  <2>2. CASE p.text = ELSE_ /\ sk2 = [depth |-> 1, elseEnds |-> FALSE]
    <3>1. \E o \in 1..i : Open(M, o, i)
      BY <2>2, <1>1, <1>2, <1>4
    <3>2. \E j \in 1..(i + 1) : Skips(M, i + 1, j, 1, FALSE)
      BY <2>2, <3>1, <1>1, <1>3, <1>4, ElseExecuted
    <3>3. sk2.depth = 1 /\ sk2.elseEnds = FALSE
      BY <2>2
    <3> QED BY <3>2, <3>3
  <2> QED BY <2>1, <2>2
<1>5. ChoiceIn(t, "skip", sk2)
  BY <1>1, <1>4 DEF ChoiceIn, M
<1>6. ExecutedIn(t)
  <2> SUFFICES ASSUME StructuredIn(t)
               PROVE  (t[Len(t)].how = "executed") = \A j \in 1..(Len(t) - 1) : Open(M, j, Len(t) - 1) => Taken(M, j, Len(t) - 1)
    BY DEF ExecutedIn, M
  <2>1. Len(t) - 1 = i /\ t[Len(t)] = p
    BY <1>1
  <2>3. \A j \in 1..i : Open(M, j, i) => Taken(M, j, i)
    BY <1>3 DEF AllTaken
  <2> QED BY <2>1, <2>3
<1> QED BY <1>5, <1>6

\* What the loop of [IF] and [ELSE] makes of a name.
Deeper(name, sk) ==
  CASE name \in IFs -> sk.depth + 1
    [] name = THEN_ -> sk.depth - 1
    [] name = ELSE_ /\ sk.elseEnds /\ sk.depth = 1 -> 0
    [] OTHER -> sk.depth

\* A word that is skipped, whether it ends the skipping or not.
LEMMA SkippingGoesOn ==
  ASSUME NEW s, NEW p, NEW t, NEW i \in Nat, OnePieceMore(s, p, t, i), NEW sk \in [depth : Nat, elseEnds : BOOLEAN],
         sk.depth > 0, ChoiceIn(s, "skip", sk), p.how = "skipped", NEW d, d = Deeper(p.text, sk), NEW sk2,
         d # 0 => sk2 = [sk EXCEPT !.depth = d], NEW m, m = IF d = 0 THEN "words" ELSE "skip"
  PROVE  ChoiceIn(t, m, sk2) /\ ExecutedIn(t)
<1> DEFINE M == NamesOf(t)
<1>0. i = Len(s)
  BY DEF OnePieceMore
<1>1. Len(t) = i + 1 /\ t[i + 1] = p /\ M[i + 1] = p.text
  BY DEF OnePieceMore
<1>2. /\ StructuredIn(t) => StructuredIn(s)
      /\ \A j \in 1..i, depth \in Nat, elseEnds \in BOOLEAN : Skips(NamesOf(s), i, j, depth, elseEnds) <=> Skips(M, i, j, depth, elseEnds)
  BY AppendSame
<1>3. StructuredIn(t) => \E j \in 1..i : Skips(M, i, j, sk.depth, sk.elseEnds)
  BY <1>0, <1>2 DEF ChoiceIn
<1> HIDE DEF M
<1>4. PICK depth \in Nat, elseEnds \in BOOLEAN : depth = sk.depth /\ elseEnds = sk.elseEnds /\ depth > 0
  OBVIOUS
<1>5. d = CASE M[i + 1] \in IFs -> depth + 1
            [] M[i + 1] = THEN_ -> depth - 1
            [] M[i + 1] = ELSE_ /\ elseEnds /\ depth = 1 -> 0
            [] OTHER -> depth
  BY <1>1, <1>4 DEF Deeper
<1>6. ASSUME StructuredIn(t), d # 0 PROVE \E j \in 1..(i + 1) : Skips(M, i + 1, j, d, elseEnds)
  <2>1. PICK j \in 1..i : Skips(M, i, j, depth, elseEnds)
    BY <1>3, <1>4, <1>6
  <2>2. d \in Nat /\ d > 0
        /\ d = depth + (IF M[i + 1] \in IFs THEN 1 ELSE 0) - (IF M[i + 1] = THEN_ THEN 1 ELSE 0)
    <3>1. CASE M[i + 1] \in IFs
      BY <3>1, <1>4, <1>5, NamesDiffer
    <3>2. CASE M[i + 1] \notin IFs
      BY <3>2, <1>4, <1>5, <1>6
    <3> QED BY <3>1, <3>2
  <2>3. ~(M[i + 1] = ELSE_ /\ elseEnds /\ d = 1)
    <3>1. SUFFICES ASSUME M[i + 1] = ELSE_, elseEnds, d = 1 PROVE FALSE
      OBVIOUS
    <3>2. M[i + 1] \notin IFs /\ M[i + 1] # THEN_
      BY <3>1, NamesDiffer
    <3>3. depth = 1
      BY <2>2, <3>1, <3>2
    <3> QED BY <3>1, <3>2, <3>3, <1>5
  <2>4. Skips(M, i + 1, j, d, elseEnds)
    BY <2>1, <2>2, <2>3, SkipGoesOn
  <2> QED BY <2>4
<1>7. ASSUME StructuredIn(t), d = 0 PROVE AllTaken(M, i + 1)
  <2>1. PICK j \in 1..i : Skips(M, i, j, depth, elseEnds)
    BY <1>3, <1>4, <1>7
  <2>2. depth = 1 /\ (M[i + 1] = THEN_ \/ (M[i + 1] = ELSE_ /\ elseEnds))
    BY <1>4, <1>5, <1>7
  <2> QED BY <2>1, <2>2, SkipEnds
<1>8. ChoiceIn(t, m, sk2)
  <2>1. CASE d = 0
    BY <2>1, <1>1, <1>7 DEF ChoiceIn, M
  <2>2. CASE d # 0
    <3>1. sk2.depth = d /\ sk2.elseEnds = elseEnds
      BY <2>2, <1>4
    <3> QED BY <2>2, <3>1, <1>1, <1>6 DEF ChoiceIn, M
  <2> QED BY <2>1, <2>2
<1>9. ExecutedIn(t)
  <2> SUFFICES ASSUME StructuredIn(t)
               PROVE  (t[Len(t)].how = "executed") = \A j \in 1..(Len(t) - 1) : Open(M, j, Len(t) - 1) => Taken(M, j, Len(t) - 1)
    BY DEF ExecutedIn, M
  <2>1. Len(t) - 1 = i /\ t[Len(t)] = p
    BY <1>1
  <2>2. p.how # "executed"
    OBVIOUS
  <2>3. PICK j \in 1..i : Skips(M, i, j, depth, elseEnds)
    BY <1>3, <1>4
  <2>4. Open(M, j, i) /\ ~Taken(M, j, i)
    <3>1. Cardinality(Elses(M, j, i)) \in Nat /\ Wanted(M[j]) \in Nat
      BY ElsesCounted DEF Wanted
    <3> QED BY <2>3, <3>1 DEF Skips, Taken
  <2> QED BY <2>1, <2>2, <2>4
<1> QED BY <1>8, <1>9

Choice == ChoiceIn(seen, mode, skip) /\ ExecutedIn(seen)

\* The property of the run is ExecutedIn.
LEMMA ChosenIs == ChosenWordsAreExecuted <=> ExecutedIn(seen)
<1>1. Names = NamesOf(seen) /\ Newest = Len(seen)
  BY DEF Names, NamesOf, Newest
<1>2. \A j, i : Nesting(j, i) = Nest(NamesOf(seen), j, i)
  BY <1>1 DEF Nesting, Nest
<1>3. \A j : /\ Encloses(j) <=> Open(NamesOf(seen), j, Len(seen) - 1)
             /\ Chosen(j) <=> Taken(NamesOf(seen), j, Len(seen) - 1)
  BY <1>1, <1>2 DEF Encloses, Open, Chosen, Taken, ElsesOf, Elses, Wanted
<1>4. Structured <=> StructuredIn(seen)
  BY <1>1, <1>2 DEF Structured, StructuredIn, Open
<1>5. (\A j \in 1..(Newest - 1) : Encloses(j) => Chosen(j))
        <=> \A j \in 1..(Len(seen) - 1) : Open(NamesOf(seen), j, Len(seen) - 1) => Taken(NamesOf(seen), j, Len(seen) - 1)
  BY <1>1, <1>3
<1> QED BY <1>1, <1>4, <1>5 DEF ChosenWordsAreExecuted, ExecutedIn

\* A piece is noted unless it is empty.
LEMMA NotedOrNot ==
  ASSUME NEW s \in Seq(Pieces), NEW p \in Pieces
  PROVE  \/ Noted(s, p) = s /\ p.text = <<>>
         \/ p.text # <<>> /\ \E i \in Nat : OnePieceMore(s, p, Noted(s, p), i)
BY NamesAppend DEF Noted

\* Names are told apart by their first characters.
LEMMA NameIs ==
  ASSUME InputTypes, NEW w
  PROVE  Name = <<w>> <=> Next_.text = <<w>>
<1>1. Next_.text \in Seq(Symbol)
  BY NextFacts, InputContext DEF Next_
<1>2. CountedMax \in Nat /\ CountedMax >= 2
  BY InputContext
<1> QED BY <1>1, <1>2, ShortNames DEF Name

\* The names of structures are too short to be cut to a counted string.
LEMMA StructuresAreNamed ==
  ASSUME InputTypes
  PROVE  /\ Name \in IFs <=> Next_.text \in IFs
         /\ Name = <<"true[IF]">> <=> Next_.text = <<"true[IF]">>
         /\ Name = ELSE_ <=> Next_.text = ELSE_
         /\ Name = THEN_ <=> Next_.text = THEN_
<1>1. \A w : Name = <<w>> <=> Next_.text = <<w>>
  BY NameIs
<1> QED BY <1>1, Zenon DEF IFs, ELSE_, THEN_

\* What is noted about a name.
LEMMA SeenIs ==
  ASSUME InputTypes, NEW how \in {"executed", "skipped", "parsed"}
  PROVE  /\ Seen(Next_, how) \in Pieces /\ Seen(Next_, how).how = how /\ Seen(Next_, how).text = Next_.text
         /\ seen \in Seq(Pieces) /\ Next_.end \in Nat
<1>1. Seen(Next_, how) \in Pieces /\ Next_.end \in Nat
  BY NextFacts, InputContext DEF Next_
<1> QED BY <1>1, InputContext DEF Seen

\* Without a new piece, what was chosen stays so.
LEMMA ChoiceSame ==
  ASSUME NEW s, NEW m \in {"words", "refill"}, NEW sk, ChoiceIn(s, m, sk), NEW n \in {"words", "refill", "ended"}, NEW sk2
  PROVE  ChoiceIn(s, n, sk2)
BY DEF ChoiceIn

\* Nothing is asked once interpretation has ended.
LEMMA EndedIsChosen ==
  ASSUME NEW s, NEW sk PROVE ChoiceIn(s, "ended", sk)
BY DEF ChoiceIn

\* Words that begin no branch.
LEMMA WordIsChosen ==
  ASSUME NEW s \in Seq(Pieces), NEW p \in Pieces, NEW sk, NEW sk2, NEW n \in {"words", "refill", "ended"},
         ChoiceIn(s, "words", sk), ExecutedIn(s),
         p.how = "parsed" \/ (p.how = "executed" /\ p.text \notin IFs \cup {ELSE_})
           \/ (p.how = "executed" /\ p.text = <<"true[IF]">>)
  PROVE  ChoiceIn(Noted(s, p), n, sk2) /\ ExecutedIn(Noted(s, p))
<1>1. CASE Noted(s, p) = s
  BY <1>1, ChoiceSame
<1>2. CASE Noted(s, p) # s
  <2>1. PICK i \in Nat : OnePieceMore(s, p, Noted(s, p), i)
    BY <1>2, NotedOrNot
  <2>2. PICK t : t = Noted(s, p)
    OBVIOUS
  <2>3. OnePieceMore(s, p, t, i)
    BY <2>1, <2>2
  <2>4. ChoiceIn(t, n, sk2) /\ ExecutedIn(t)
    BY <2>3, ExecutedAppend
  <2> QED BY <2>2, <2>4
<1> QED BY <1>1, <1>2

\* A word is executed that is not the beginning of a skipped branch.
LEMMA ExecutedWord ==
  ASSUME InputTypes, Choice, mode = "words", Name \notin IFs \cup {ELSE_} \/ Name = <<"true[IF]">>,
         Note(Seen(Next_, "executed")), mode' \in {"words", "ended"}
  PROVE  Choice'
<1>1. /\ Seen(Next_, "executed") \in Pieces /\ Seen(Next_, "executed").how = "executed"
      /\ Seen(Next_, "executed").text = Next_.text /\ seen \in Seq(Pieces)
  BY SeenIs
<1>2. Next_.text \notin IFs \cup {ELSE_} \/ Next_.text = <<"true[IF]">>
  BY StructuresAreNamed
<1>3. ChoiceIn(seen, "words", skip) /\ ExecutedIn(seen) /\ mode' \in {"words", "refill", "ended"}
  BY DEF Choice
<1>4. ChoiceIn(Noted(seen, Seen(Next_, "executed")), mode', skip') /\ ExecutedIn(Noted(seen, Seen(Next_, "executed")))
  BY <1>1, <1>2, <1>3, WordIsChosen
<1> QED BY <1>4 DEF Choice, Note

\* A word that takes the text behind it.
LEMMA TakingWord ==
  ASSUME InputTypes, Choice, mode = "words", Name \notin IFs \cup {ELSE_},
         NEW delim, NEW skipLeading \in BOOLEAN, NEW ignoreEsc \in BOOLEAN,
         NEW text, text = Piece(Next_.end, delim, skipLeading, ignoreEsc),
         NoteBoth(Seen(Next_, "executed"), Seen(text, "parsed")), mode' \in {"words", "ended"}
  PROVE  Choice'
<1> DEFINE p == Seen(Next_, "executed")
           q == Seen(text, "parsed")
<1>1. p \in Pieces /\ p.how = "executed" /\ p.text = Next_.text /\ seen \in Seq(Pieces) /\ Next_.end \in Nat
  BY SeenIs
<1>2. q \in Pieces /\ q.how = "parsed"
  BY <1>1, NextFacts DEF Seen
<1>3. Next_.text \notin IFs \cup {ELSE_}
  BY StructuresAreNamed
<1>4. ChoiceIn(seen, "words", skip) /\ ExecutedIn(seen) /\ mode' \in {"words", "refill", "ended"} /\ "words" \in {"words", "refill", "ended"}
  BY DEF Choice
<1>5. seen' = Noted(Noted(seen, p), q)
  BY DEF NoteBoth
<1> HIDE DEF p, q
<1>6. Noted(seen, p) \in Seq(Pieces)
  BY <1>1, NotedIs
<1>7. ChoiceIn(Noted(seen, p), "words", skip) /\ ExecutedIn(Noted(seen, p))
  BY <1>1, <1>3, <1>4, WordIsChosen
<1>8. ChoiceIn(seen', mode', skip') /\ ExecutedIn(seen')
  BY <1>2, <1>4, <1>5, <1>6, <1>7, WordIsChosen
<1> QED BY <1>8 DEF Choice

\* The names of words that matter differ from those of structures.
LEMMA OtherNames ==
  ASSUME NEW name, name \in {<<"(">>, <<ESC>>, <<"S_QUOTE">>, <<"S_ESC_QUOTE">>, <<"REFILL">>, <<"CATCH">>}
  PROVE  name \notin IFs \cup {ELSE_}
BY DEF IFs, ELSE_, ESC

\* The words that begin to skip.
LEMMA BranchBegins ==
  ASSUME InputTypes, Choice, mode = "words", Note(Seen(Next_, "executed")), mode' = "skip",
         (Name = <<"false[IF]">> /\ skip' = [depth |-> 1, elseEnds |-> TRUE])
           \/ (Name = ELSE_ /\ skip' = [depth |-> 1, elseEnds |-> FALSE])
  PROVE  Choice'
<1> DEFINE p == Seen(Next_, "executed")
<1>1. p \in Pieces /\ p.how = "executed" /\ p.text = Next_.text /\ seen \in Seq(Pieces)
  BY SeenIs
<1>2. (p.text = <<"false[IF]">> /\ skip' = [depth |-> 1, elseEnds |-> TRUE])
        \/ (p.text = ELSE_ /\ skip' = [depth |-> 1, elseEnds |-> FALSE])
  BY <1>1, NameIs DEF ELSE_
<1>3. p.text # <<>>
  BY <1>2 DEF ELSE_
<1>4. seen' = Noted(seen, p)
  BY DEF Note
<1> HIDE DEF p
<1>5. PICK i \in Nat : OnePieceMore(seen, p, seen', i)
  BY <1>1, <1>3, <1>4, NotedOrNot
<1>6. ChoiceIn(seen, "words", skip)
  BY DEF Choice
<1>7. ChoiceIn(seen', "skip", skip') /\ ExecutedIn(seen')
  BY <1>1, <1>2, <1>5, <1>6, SkippingBegins
<1> QED BY <1>7 DEF Choice

\* A word that is skipped.
LEMMA SkippedWord ==
  ASSUME InputTypes, Choice, SkipWord
  PROVE  Choice'
<1> DEFINE p == Seen(Next_, "skipped")
           d == DepthAfter(Name)
<1>1. p \in Pieces /\ p.how = "skipped" /\ p.text = Next_.text /\ seen \in Seq(Pieces)
  BY SeenIs
<1>2. skip \in [depth : Nat, elseEnds : BOOLEAN] /\ skip.depth > 0 /\ mode = "skip"
  BY DEF SkipWord, InputTypes
<1>3. skip' = (IF d = 0 THEN NoSkip ELSE [skip EXCEPT !.depth = d]) /\ mode' = (IF d = 0 THEN "words" ELSE "skip")
      /\ seen' = Noted(seen, p)
  BY DEF SkipWord, Note
<1>4. d = Deeper(Next_.text, skip)
  BY StructuresAreNamed DEF DepthAfter, Deeper
<1>5. ChoiceIn(seen, "skip", skip) /\ ExecutedIn(seen)
  BY <1>2 DEF Choice
<1> HIDE DEF p, d
<1>6. CASE seen' = seen
  <2>1. p.text = <<>> \/ \E i \in Nat : OnePieceMore(seen, p, seen', i)
    BY <1>1, <1>3, NotedOrNot
  <2>2. p.text = <<>>
    <3>1. SUFFICES ASSUME NEW i \in Nat, OnePieceMore(seen, p, seen', i) PROVE FALSE
      BY <2>1
    <3>2. Len(seen) = i /\ Len(seen) = i + 1
      BY <3>1, <1>6 DEF OnePieceMore
    <3> QED BY <3>2
  <2>3. d = skip.depth
    <3>1. <<>> \notin IFs /\ <<>> # ELSE_ /\ <<>> # THEN_
      BY DEF IFs, ELSE_, THEN_
    <3> QED BY <3>1, <2>2, <1>1, <1>4 DEF Deeper
  <2>4. skip' = skip /\ mode' = "skip"
    BY <2>3, <1>2, <1>3
  <2> QED BY <2>4, <1>5, <1>6 DEF Choice
<1>7. CASE seen' # seen
  <2>1. PICK i \in Nat : OnePieceMore(seen, p, seen', i)
    BY <1>1, <1>3, <1>7, NotedOrNot
  <2>2. d # 0 => skip' = [skip EXCEPT !.depth = d]
    BY <1>3
  <2>3. d = Deeper(p.text, skip)
    BY <1>1, <1>4
  <2>a. skip \in [depth : Nat, elseEnds : BOOLEAN] /\ skip.depth > 0 /\ ChoiceIn(seen, "skip", skip) /\ p.how = "skipped"
    BY <1>1, <1>2, <1>5
  <2>b. mode' = IF d = 0 THEN "words" ELSE "skip"
    BY <1>3
  <2>4. ChoiceIn(seen', mode', skip') /\ ExecutedIn(seen')
    BY ONLY <2>1, <2>2, <2>3, <2>a, <2>b, SkippingGoesOn
  <2> QED BY <2>4 DEF Choice
<1> QED BY <1>6, <1>7

\* Choice is inductive.
LEMMA ChoiceKept == InputTypes /\ Choice /\ [InputNext]_inputVars => Choice'
<1> SUFFICES ASSUME InputTypes, Choice, [InputNext]_inputVars PROVE Choice'
  OBVIOUS
<1>0. mode = "words" => ChoiceIn(seen, "words", skip)
  BY DEF Choice
<1>1. CASE UNCHANGED inputVars
  BY <1>1 DEF inputVars, Choice
<1>2. CASE Ordinary
  BY <1>2, ExecutedWord DEF Ordinary
<1>3. CASE Comment
  <2>1. PICK text : /\ text = Piece(Next_.end, IF Name = <<ESC>> THEN NL ELSE ")", TRUE, FALSE)
                    /\ NoteBoth(Seen(Next_, "executed"), Seen(text, "parsed"))
    BY <1>3 DEF Comment
  <2>2. mode = "words" /\ mode' = "words" /\ Name \notin IFs \cup {ELSE_}
    BY <1>3, OtherNames DEF Comment, Execute
  <2> QED BY <2>1, <2>2, TakingWord
<1>4. CASE S_QUOTE
  <2>1. PICK quoted : quoted = Quoted(FALSE) /\ Take(quoted) /\ mode' \in {mode, "ended"}
    BY <1>4 DEF S_QUOTE
  <2>2. mode = "words" /\ Name \notin IFs \cup {ELSE_}
    BY <1>4, OtherNames DEF S_QUOTE, Execute
  <2> QED BY <2>1, <2>2, TakingWord DEF Take, Quoted
<1>5. CASE S_BACKSLASH_QUOTE
  <2>1. PICK quoted : quoted = Quoted(TRUE) /\ Take(quoted) /\ mode' \in {mode, "ended"}
    BY <1>5 DEF S_BACKSLASH_QUOTE
  <2>2. mode = "words" /\ Name \notin IFs \cup {ELSE_}
    BY <1>5, OtherNames DEF S_BACKSLASH_QUOTE, Execute
  <2> QED BY <2>1, <2>2, TakingWord DEF Take, Quoted
<1>6. CASE REFILL
  <2>1. mode = "words" /\ Name \notin IFs \cup {ELSE_} /\ Note(Seen(Next_, "executed")) /\ mode' \in {"words", "ended"}
    BY <1>6, OtherNames DEF REFILL, Execute
  <2> QED BY <2>1, ExecutedWord
<1>7. CASE CATCH
  <2>1. mode = "words" /\ Name \notin IFs \cup {ELSE_} /\ Note(Seen(Next_, "executed")) /\ mode' = "words"
    BY <1>7, OtherNames DEF CATCH, Execute
  <2> QED BY <2>1, ExecutedWord
<1>8. CASE BRACKET_IF
  <2>1. mode = "words" /\ Name \in IFs /\ Note(Seen(Next_, "executed"))
    BY <1>8 DEF BRACKET_IF, Execute
  <2>2. CASE Name = <<"true[IF]">>
    <3>1. mode' = "words"
      BY <2>1, <2>2, <1>8 DEF BRACKET_IF
    <3> QED BY <2>1, <2>2, <3>1, ExecutedWord
  <2>3. CASE Name # <<"true[IF]">>
    <3>1. Name = <<"false[IF]">> /\ mode' = "skip" /\ skip' = [depth |-> 1, elseEnds |-> TRUE]
      BY <2>1, <2>3, <1>8 DEF BRACKET_IF, IFs
    <3> QED BY <2>1, <3>1, BranchBegins
  <2> QED BY <2>2, <2>3
<1>9. CASE BRACKET_ELSE
  <2>1. mode = "words" /\ Name = ELSE_ /\ Note(Seen(Next_, "executed"))
        /\ mode' = "skip" /\ skip' = [depth |-> 1, elseEnds |-> FALSE]
    BY <1>9 DEF BRACKET_ELSE, Execute
  <2> QED BY <2>1, BranchBegins
<1>10. CASE LineEnds
  BY <1>10, ChoiceSame DEF LineEnds, Choice
<1>11. CASE Refill
  BY <1>11, ChoiceSame DEF Refill, Choice
<1>12. CASE SkipWord
  BY <1>12, SkippedWord
<1>13. CASE SkipRefill
  <2>1. seen' = seen /\ skip' = skip /\ mode' \in {mode, "ended"}
    BY <1>13 DEF SkipRefill, AfterFailure
  <2> QED BY <2>1, EndedIsChosen DEF Choice
<1> QED BY <1>1, <1>2, <1>3, <1>4, <1>5, <1>6, <1>7, <1>8, <1>9, <1>10, <1>11, <1>12, <1>13 DEF InputNext, Skip, Ended

\* It holds at first.
LEMMA InitChoice == InputInit => Choice
<1> SUFFICES ASSUME InputInit PROVE Choice
  OBVIOUS
<1>1. seen = <<>> /\ mode \in {"words", "refill"}
  BY DEF InputInit
<1>2. Len(seen) = 0
  BY <1>1
<1>3. AllTaken(NamesOf(seen), Len(seen))
  BY <1>2 DEF AllTaken
<1> QED BY <1>1, <1>2, <1>3 DEF Choice, ChoiceIn, ExecutedIn

(* A word is executed exactly if every [IF] around it chose the branch it  *)
(* is in, and skipped otherwise: whatever the text is, however deep [IF],  *)
(* [ELSE] and [THEN] nest, and over any lines, comments and strings.       *)
THEOREM BranchesAreChosen == InputSpec => []ChosenWordsAreExecuted
<1>1. InputInit => InputTypes /\ Choice
  BY InitTypes, InitChoice
<1>2. InputTypes /\ Choice /\ [InputNext]_inputVars => (InputTypes /\ Choice)'
  BY TypesKept, ChoiceKept
<1>3. InputTypes /\ Choice => ChosenWordsAreExecuted
  BY ChosenIs DEF Choice
<1> QED BY <1>1, <1>2, <1>3, PTL DEF InputSpec

(* The pieces and the text they are pieces of. *)
EndOf(s, i) == s[i].at + Len(s[i].text)
Reach(s) == IF s = <<>> THEN 0 ELSE EndOf(s, Len(s))
LeftIn(s, i, p) == /\ ~IsString /\ s[i].how = "executed" /\ s[i].text = <<"REFILL">>
                   /\ LineStart(p) <= s[i].at
PassedIn(s, i, p) == Skippable(p) \/ LeftIn(s, i, p)
PassedAfter(s, p) == Skippable(p) \/ (s # <<>> /\ LeftIn(s, Len(s), p))
InOrder(s) ==
  /\ \A i \in 1..Len(s) : s[i].text # <<>> /\ SubSeq(program.text, s[i].at + 1, EndOf(s, i)) = s[i].text
  /\ \A i \in 2..Len(s) :
       /\ s[i].at > EndOf(s, i - 1) \/ (s[i].at = EndOf(s, i - 1) /\ program.text[s[i].at] = NL)
       /\ \A p \in (EndOf(s, i - 1) + 1)..s[i].at : PassedIn(s, i - 1, p)
\* The n characters in the buffer are those of the text behind the first f, a
\* line or the beginning of one; q characters are read.
Lined(buffer, f, n, q) ==
  /\ \A k \in 1..n : buffer[k] = program.text[f + k]
  /\ f + n <= Len(program.text)
  /\ ~IsString =>
       /\ f + n <= q
       /\ 0 < q /\ q < Len(program.text) => program.text[q] = NL
       /\ \A p \in (f + 1)..(q - 1) : program.text[p] # NL
       /\ \A p \in (f + n + 1)..q : Skippable(p)
\* Of this line, e characters are passed.
OnLine(s, e, f, n) ==
  /\ Reach(s) <= f + n
  /\ s # <<>> => Reach(s) < f + e \/ (Reach(s) = f + e /\ program.text[Reach(s)] = NL)
  /\ \A p \in 1..(f + n) : Reach(s) < p /\ p <= f + e => PassedAfter(s, p)
\* The line is passed, with what is not in the buffer.
AtEnd(s, f, n, q) == Reach(s) <= f + n /\ \A p \in 1..q : Reach(s) < p => PassedAfter(s, p)
OrderOf(s, m, line, f, q) ==
  /\ InOrder(s)
  /\ m \in {"words", "skip"} => Lined(line.buffer, f, line.length, q) /\ OnLine(s, line.in, f, line.length)
  /\ m = "refill" => Lined(line.buffer, f, line.length, q) /\ AtEnd(s, f, line.length, q)
Order == OrderOf(seen, mode, source, from, pos)

\* Where the line of a character begins.
LEMMA LineStartIs ==
  ASSUME NEW p \in Nat, p > 0, NEW b \in Nat, \A i \in 1..(p - 1) : program.text[i] = NL => i <= b
  PROVE  LineStart(p) \in Nat /\ LineStart(p) <= b
<1> DEFINE T == {i \in 1..(p - 1) : program.text[i] = NL}
           S == {0} \cup T
<1>1. \E m \in S : \A i \in S : m >= i
  <2>1. CASE T = {}
    <3>1. S = {0}
      BY <2>1
    <3> HIDE DEF S
    <3> QED BY <3>1
  <2>2. CASE T # {}
    <3>1. p - 1 \in Nat /\ T \subseteq 1..(p - 1)
      OBVIOUS
    <3> HIDE DEF T
    <3>2. PICK m \in T : \A i \in T : i <= m
      BY <3>1, <2>2, LastOfSome
    <3>3. m \in Nat /\ m >= 0 /\ m \in S /\ \A i \in T : i \in Nat
      BY <3>1
    <3> QED BY <3>2, <3>3
  <2> QED BY <2>1, <2>2
<1>2. LineStart(p) = Max(S)
  BY DEF LineStart
<1>3. \A i \in S : i \in Nat /\ i <= b
  OBVIOUS
<1> HIDE DEF S
<1>4. Max(S) \in S
  BY <1>1 DEF Max
<1> QED BY <1>2, <1>3, <1>4

\* Characters are left to REFILL or passed over whatever else is seen.
LEMMA PassedSame ==
  ASSUME NEW s, NEW t, NEW i, NEW p, t[i] = s[i]
  PROVE  PassedIn(t, i, p) <=> PassedIn(s, i, p)
BY DEF PassedIn, LeftIn

\* A piece behind those of s.
Follows(s, p) ==
  /\ p.text # <<>> /\ SubSeq(program.text, p.at + 1, p.at + Len(p.text)) = p.text
  /\ s # <<>> =>
       /\ p.at > Reach(s) \/ (p.at = Reach(s) /\ program.text[p.at] = NL)
       /\ \A q \in (Reach(s) + 1)..p.at : PassedAfter(s, q)

\* One piece more of the text.
LEMMA PieceInOrder ==
  ASSUME NEW s \in Seq(Pieces), NEW p \in Pieces, NEW t, NEW i \in Nat, OnePieceMore(s, p, t, i), InOrder(s),
         Follows(s, p)
  PROVE  InOrder(t) /\ Reach(t) = p.at + Len(p.text) /\ t # <<>> /\ t[Len(t)] = p
<1>1. /\ i = Len(s) /\ Len(t) = i + 1 /\ t[i + 1] = p /\ t \in Seq(Pieces)
      /\ \A k \in 1..i : t[k] = s[k]
  BY DEF OnePieceMore
<1>2. EndOf(t, i + 1) = p.at + Len(p.text) /\ \A k \in 1..i : EndOf(t, k) = EndOf(s, k)
  BY <1>1 DEF EndOf
<1>3. t # <<>> /\ Reach(t) = p.at + Len(p.text)
  <2>1. t # <<>>
    <3>1. Len(<<>>) = 0
      OBVIOUS
    <3>2. i + 1 # 0
      OBVIOUS
    <3> QED BY <3>1, <3>2, <1>1, Zenon
  <2> QED BY <2>1, <1>1, <1>2 DEF Reach
<1>4. ASSUME NEW k \in 1..Len(t)
      PROVE  t[k].text # <<>> /\ SubSeq(program.text, t[k].at + 1, EndOf(t, k)) = t[k].text
  <2>1. CASE k = i + 1
    BY <2>1, <1>1, <1>2 DEF Follows
  <2>2. CASE k # i + 1
    <3>1. k \in 1..i
      BY <2>2, <1>1
    <3> QED BY <3>1, <1>1, <1>2 DEF InOrder
  <2> QED BY <2>1, <2>2
<1>5. ASSUME NEW k \in 2..Len(t)
      PROVE  /\ t[k].at > EndOf(t, k - 1) \/ (t[k].at = EndOf(t, k - 1) /\ program.text[t[k].at] = NL)
             /\ \A q \in (EndOf(t, k - 1) + 1)..t[k].at : PassedIn(t, k - 1, q)
  <2>1. k - 1 \in 1..i
    BY <1>1
  <2>2. t[k - 1] = s[k - 1] /\ EndOf(t, k - 1) = EndOf(s, k - 1)
    BY <2>1, <1>1, <1>2
  <2>3. \A q : PassedIn(t, k - 1, q) <=> PassedIn(s, k - 1, q)
    BY <2>2, PassedSame
  <2>4. CASE k = i + 1
    <3>1. k - 1 = Len(s) /\ Len(s) > 0 /\ t[k] = p
      BY <2>4, <2>1, <1>1
    <3>2. s # <<>>
      <4>1. SUFFICES ASSUME s = <<>> PROVE FALSE
        OBVIOUS
      <4>2. Len(s) = 0
        BY <4>1
      <4> QED BY <4>2, <3>1
    <3>3. Reach(s) = EndOf(s, k - 1)
      BY <3>1, <3>2 DEF Reach
    <3>4. \A q : PassedAfter(s, q) => PassedIn(s, k - 1, q)
      BY <3>1 DEF PassedAfter, PassedIn
    <3> QED BY <2>2, <2>3, <3>1, <3>2, <3>3, <3>4 DEF Follows
  <2>5. CASE k # i + 1
    <3>1. k \in 2..i /\ k \in 1..i
      BY <2>5, <1>1
    <3>2. t[k] = s[k]
      BY <3>1, <1>1
    <3> QED BY <2>2, <2>3, <3>1, <3>2, <1>1 DEF InOrder
  <2> QED BY <2>4, <2>5
<1> QED BY <1>1, <1>3, <1>4, <1>5 DEF InOrder

\* The end of what was parsed is a place in the text.
LEMMA ReachIs ==
  ASSUME NEW s \in Seq(Pieces)
  PROVE  Reach(s) \in Nat
<1>1. CASE s = <<>>
  BY <1>1 DEF Reach
<1>2. CASE s # <<>>
  <2>1. Len(s) \in 1..Len(s)
    BY <1>2, EmptySeq
  <2>2. s[Len(s)] \in Pieces
    BY <2>1
  <2>3. s[Len(s)].at \in Nat /\ Len(s[Len(s)].text) \in Nat
    BY <2>2 DEF Pieces
  <2> QED BY <2>3, <1>2 DEF Reach, EndOf
<1> QED BY <1>1, <1>2

\* What a piece takes of the line.
TakesOfLine(p, e, l, z, f, n) ==
  /\ \A q \in 1..(f + n) : f + e < q /\ q <= f + e + l => Skippable(q)
  /\ e + l + z < n => Skippable(f + e + l + z + 1)
  /\ z > 0 => /\ e < n /\ e + l + z <= n
              /\ SubSeq(program.text, f + e + l + 1, f + e + l + z) = p.text

\* A piece of the buffer is a piece of the text, and what was passed before and
\* behind it are delimiters.
LEMMA PieceOfLine ==
  ASSUME InputTypes, Lined(source.buffer, from, source.length, pos), NEW e \in Nat, NEW delim \in Separators, NEW p, NEW l \in Nat, NEW z \in Nat, IsPiece(p, e, delim, l, z),
         NEW f \in Nat, f = from, NEW n \in Nat, n = source.length
  PROVE  TakesOfLine(p, e, l, z, f, n)
<1>1. /\ \A k \in 1..n : source.buffer[k] = program.text[f + k]
      /\ f + n <= Len(program.text) /\ Len(program.text) \in Nat /\ program.text \in Seq(Symbol)
  BY InputContext DEF Lined
<1>2. /\ p.text \in Seq(Symbol) /\ Len(p.text) = z
      /\ IF e < n THEN e + l + z <= n ELSE l = 0 /\ z = 0
      /\ \A k \in 1..l : source.buffer[e + k] = delim
      /\ \A k \in 1..z : p.text[k] = source.buffer[e + l + k]
      /\ e + l + z < n => source.buffer[e + l + z + 1] \in {delim, NL}
  BY DEF IsPiece
<1>3. ASSUME NEW q \in 1..(f + n), f + e < q, q <= f + e + l PROVE Skippable(q)
  <2>1. PICK k \in 1..l : q = f + (e + k) /\ e + k \in 1..n
    <3>1. PICK k \in Int : k = q - f - e
      OBVIOUS
    <3>2. k >= 1 /\ k <= l /\ q = f + (e + k)
      BY <3>1, <1>3
    <3>3. e + l <= n
      BY <3>2, <1>2
    <3> QED BY <3>1, <3>2, <3>3
  <2>2. program.text[q] = delim
    BY <2>1, <1>1, <1>2
  <2> QED BY <2>2 DEF Skippable
<1>4. ASSUME e + l + z < n PROVE Skippable(f + e + l + z + 1)
  <2>1. PICK k \in 1..n : k = e + l + z + 1 /\ f + k = f + e + l + z + 1
    BY <1>4
  <2>2. program.text[f + k] \in {delim, NL}
    BY <2>1, <1>1, <1>2, <1>4
  <2>3. program.text[f + k] \in Separators
    BY <2>2 DEF Separators
  <2> QED BY <2>1, <2>3 DEF Skippable
<1>5. ASSUME z > 0 PROVE e < n /\ e + l + z <= n /\ SubSeq(program.text, f + e + l + 1, f + e + l + z) = p.text
  <2>1. e < n /\ e + l + z <= n
    BY <1>2, <1>5
  <2>2. PICK a \in Nat \ {0}, b \in Nat : a = f + e + l + 1 /\ b = f + e + l + z
    OBVIOUS
  <2>3. b <= Len(program.text)
    BY SMTT(20), <2>1, <2>2, <1>1
  <2>4. /\ SubSeq(program.text, a, b) \in Seq(Symbol) /\ Len(SubSeq(program.text, a, b)) = IF a <= b THEN b - a + 1 ELSE 0
        /\ \A k \in 1..Len(SubSeq(program.text, a, b)) : SubSeq(program.text, a, b)[k] = program.text[a + k - 1]
    BY <2>3, <1>1, PartOfText
  <2>5. (IF a <= b THEN b - a + 1 ELSE 0) = z
    BY <2>2, <1>5
  <2>6. \A k \in 1..z : e + l + k \in 1..n /\ a + k - 1 = f + (e + l + k)
    BY <2>1, <2>2
  <2>7. \A k \in 1..z : SubSeq(program.text, a, b)[k] = p.text[k]
    <3> TAKE k \in 1..z
    <3>1. SubSeq(program.text, a, b)[k] = program.text[a + k - 1]
      BY <2>4, <2>5
    <3>2. PICK j \in 1..n : j = e + l + k /\ a + k - 1 = f + j
      BY <2>6
    <3>3. source.buffer[j] = program.text[f + j] /\ p.text[k] = source.buffer[j]
      BY <3>2, <1>1, <1>2
    <3> QED BY <3>1, <3>2, <3>3
  <2>8. SubSeq(program.text, a, b) = p.text
    <3>1. PICK u : u = SubSeq(program.text, a, b)
      OBVIOUS
    <3>2. u \in Seq(Symbol) /\ p.text \in Seq(Symbol) /\ Len(u) = Len(p.text) /\ Len(u) = z /\ \A k \in 1..z : u[k] = p.text[k]
      BY <3>1, <2>4, <2>5, <2>7, <1>2
    <3>3. u = p.text
      BY ONLY <3>2, SeqEqual
    <3> QED BY <3>1, <3>3
  <2> QED BY <2>1, <2>2, <2>8
<1> QED BY <1>3, <1>4, <1>5 DEF TakesOfLine

\* A piece that is parsed from the line in the buffer comes next in the text.
LEMMA PieceOnLine ==
  ASSUME InputTypes, Lined(source.buffer, from, source.length, pos), NEW s \in Seq(Pieces), InOrder(s), NEW e \in Nat, OnLine(s, e, from, source.length),
         NEW delim \in Separators, NEW skipLeading \in BOOLEAN, NEW ignoreEsc \in BOOLEAN,
         NEW how \in {"executed", "skipped", "parsed"},
         NEW p, p = Piece(e, delim, skipLeading, ignoreEsc), NEW t, t = Noted(s, Seen(p, how))
  PROVE  /\ t \in Seq(Pieces) /\ InOrder(t) /\ OnLine(t, p.end, from, source.length)
         /\ p.text # <<>> => t # <<>> /\ t[Len(t)] = Seen(p, how) /\ p.at >= from
<1> DEFINE r == Seen(p, how)
<1>1. PICK l, z \in Nat : IsPiece(p, e, delim, l, z)
  BY PieceFacts
<1>2. PICK f \in Nat, n \in Nat : f = from /\ n = source.length
  BY InputContext
<1>3. /\ \A q \in 1..(f + n) : f + e < q /\ q <= f + e + l => Skippable(q)
      /\ e + l + z < n => Skippable(f + e + l + z + 1)
      /\ z > 0 => /\ e < n /\ e + l + z <= n
                  /\ SubSeq(program.text, f + e + l + 1, f + e + l + z) = p.text
  <2>1. TakesOfLine(p, e, l, z, f, n)
    BY <1>1, <1>2, PieceOfLine
  <2> QED BY <2>1 DEF TakesOfLine
<1>4. /\ p.at = f + e + l /\ p.end = e + l + z + 1 /\ p.text \in Seq(Symbol) /\ Len(p.text) = z
      /\ r.at = p.at /\ r.text = p.text /\ r \in Pieces
  <2>1. p.at = f + e + l /\ p.end = e + l + z + 1 /\ p.text \in Seq(Symbol) /\ Len(p.text) = z
    BY <1>1, <1>2 DEF IsPiece
  <2>2. r \in Pieces
    BY NextFacts
  <2>3. r.at = p.at /\ r.text = p.text
    BY DEF Seen
  <2> QED BY <2>1, <2>2, <2>3
<1>5. PICK R \in Nat : R = Reach(s)
  BY ReachIs
<1>6. /\ R <= f + n
      /\ s # <<>> => R < f + e \/ (R = f + e /\ program.text[R] = NL)
      /\ \A q \in 1..(f + n) : R < q /\ q <= f + e => PassedAfter(s, q)
  BY <1>2, <1>5 DEF OnLine
<1>7. \A x, q : Skippable(q) => PassedAfter(x, q)
  BY DEF PassedAfter
<1> HIDE DEF r
<1>8. CASE z = 0
  <2>1. p.text = <<>>
    BY <1>4, <1>8, EmptySeq
  <2>2. t = s
    BY <2>1, <1>4 DEF Noted, r
  <2>3. s # <<>> => R < f + p.end
    BY <1>4, <1>6
  <2>4. ASSUME NEW q \in 1..(f + n), R < q, q <= f + p.end PROVE PassedAfter(s, q)
    <3>1. CASE q <= f + e
      BY <3>1, <2>4, <1>6
    <3>2. CASE f + e < q /\ q <= f + e + l
      BY <3>2, <1>3, <1>7
    <3>3. CASE q > f + e + l
      <4>1. q = f + e + l + z + 1 /\ e + l + z < n
        BY <3>3, <2>4, <1>4, <1>8
      <4> QED BY <4>1, <1>3, <1>7
    <3> QED BY <3>1, <3>2, <3>3
  <2>5. OnLine(s, p.end, from, source.length)
    <3>1. s # <<>> => Reach(s) < from + p.end \/ (Reach(s) = from + p.end /\ program.text[Reach(s)] = NL)
      BY <2>3, <1>2, <1>5
    <3> QED BY <3>1, <2>4, <1>2, <1>5, <1>6 DEF OnLine
  <2> QED BY <2>1, <2>2, <2>5
<1>9. CASE z # 0
  <2>0. z > 0
    BY <1>9
  <2>1. p.text # <<>>
    <3>1. Len(<<>>) = 0
      OBVIOUS
    <3> QED BY <3>1, <1>4, <1>9, Zenon
  <2>2. PICK i \in Nat : OnePieceMore(s, r, t, i)
    BY <2>1, <1>4, NotedOrNot DEF r
  <2>3. SubSeq(program.text, r.at + 1, r.at + Len(r.text)) = r.text
    BY <2>0, <1>3, <1>4
  <2>4. s # <<>> => r.at > R \/ (r.at = R /\ program.text[r.at] = NL)
    <3>1. SUFFICES ASSUME s # <<>> PROVE r.at > R \/ (r.at = R /\ program.text[r.at] = NL)
      OBVIOUS
    <3>2. R < f + e \/ (R = f + e /\ program.text[R] = NL)
      BY <3>1, <1>6
    <3>3. CASE R < f + e
      BY <3>3, <1>4
    <3>4. CASE R = f + e /\ program.text[R] = NL
      <4>1. CASE l = 0
        <5>1. r.at = R
          BY <4>1, <3>4, <1>4
        <5> QED BY <5>1, <3>4
      <4>2. CASE l # 0
        BY <4>2, <3>4, <1>4
      <4> QED BY <4>1, <4>2
    <3> QED BY <3>2, <3>3, <3>4
  <2>5. ASSUME NEW q \in (R + 1)..r.at PROVE PassedAfter(s, q)
    <3>1. q \in 1..(f + n)
      BY <2>0, <1>3, <1>4
    <3>2. CASE q <= f + e
      BY <3>1, <3>2, <1>6
    <3>3. CASE ~(q <= f + e)
      <4>1. f + e < q /\ q <= f + e + l
        BY <3>3, <1>4
      <4> QED BY <3>1, <4>1, <1>3, <1>7
    <3> QED BY <3>2, <3>3
  <2>6. InOrder(t) /\ Reach(t) = r.at + Len(r.text) /\ t # <<>> /\ t[Len(t)] = r
    <3>1. r.text # <<>>
      BY <2>1, <1>4
    <3>2. Follows(s, r)
      BY <3>1, <2>3, <2>4, <2>5, <1>5 DEF Follows
    <3> QED BY <3>2, <2>2, <1>4, PieceInOrder
  <2>7. t \in Seq(Pieces)
    BY <2>2 DEF OnePieceMore
  <2>8. PICK Q \in Nat : Q = Reach(t) /\ Q = f + e + l + z
    <3>1. r.at = f + e + l /\ Len(r.text) = z
      BY <1>4
    <3>2. Reach(t) = r.at + Len(r.text)
      BY <2>6
    <3>3. Reach(t) = f + e + l + z
      BY <3>1, <3>2
    <3>4. f + e + l + z \in Nat
      OBVIOUS
    <3> QED BY <3>3, <3>4
  <2>9. Q <= f + n /\ Q < f + p.end
    BY <2>0, <2>8, <1>3, <1>4
  <2>10. ASSUME NEW q \in 1..(f + n), Q < q, q <= f + p.end PROVE PassedAfter(t, q)
    <3>1. q = f + e + l + z + 1 /\ e + l + z < n
      BY <2>8, <2>10, <1>4
    <3> QED BY <3>1, <1>3, <1>7
  <2>11. OnLine(t, p.end, from, source.length)
    BY <2>8, <2>9, <2>10, <1>2 DEF OnLine
  <2>12. p.at >= from
    BY <1>2, <1>4
  <2> QED BY <2>6, <2>7, <2>11, <2>12 DEF r
<1> QED BY <1>8, <1>9

\* Order in the next state.
LEMMA OrderNext ==
  ASSUME UNCHANGED program
  PROVE  Order' <=> OrderOf(seen', mode', source', from', pos')
<1>1. \A p : Skippable(p)' <=> Skippable(p)
  BY DEF Skippable, LineStart, IsString
<1>2. \A s, i, p : PassedIn(s, i, p)' <=> PassedIn(s, i, p)
  BY <1>1 DEF PassedIn, LeftIn, LineStart, IsString
<1>3. \A s, p : PassedAfter(s, p)' <=> PassedAfter(s, p)
  BY <1>1 DEF PassedAfter, LeftIn, LineStart, IsString
<1>4. \A s : InOrder(s)' <=> InOrder(s)
  BY <1>2 DEF InOrder, EndOf
<1>5. \A b, f, n, q : Lined(b, f, n, q)' <=> Lined(b, f, n, q)
  BY <1>1 DEF Lined, IsString
<1>6. \A s, e, f, n, q : (OnLine(s, e, f, n)' <=> OnLine(s, e, f, n)) /\ (AtEnd(s, f, n, q)' <=> AtEnd(s, f, n, q))
  BY <1>3 DEF OnLine, AtEnd, Reach, EndOf
<1>7. \A s, m, line, f, q : OrderOf(s, m, line, f, q)' <=> OrderOf(s, m, line, f, q)
  BY <1>4, <1>5, <1>6 DEF OrderOf
<1> QED BY <1>7 DEF Order

\* The line at the beginning of the rest ends with its only newline.
LEMMA LineIs ==
  ASSUME InputTypes
  PROVE  /\ \A k \in 1..(LineLength - 1) : Rest[k] # NL
         /\ LineLength < Len(Rest) => Rest[LineLength] = NL
<1>1. Rest \in Seq(Symbol) /\ Len(Rest) \in Nat
  BY ReadFacts
<1> DEFINE S == {i \in 1..Len(Rest) : Rest[i] = NL}
<1>2. Line = IF S # {} THEN Min(S) ELSE 0
  BY DEF Line, SelectInSeq
<1>3. CASE S = {}
  <2>1. LineLength = Len(Rest)
    BY <1>2, <1>3 DEF LineLength
  <2>2. \A k \in 1..Len(Rest) : Rest[k] # NL
    BY <1>3
  <2> QED BY <2>1, <2>2, <1>1
<1>4. CASE S # {}
  <2>1. Min(S) \in S /\ \A j \in S : Min(S) <= j
    <3>1. S \subseteq Nat
      OBVIOUS
    <3> HIDE DEF S
    <3> QED BY <3>1, <1>4, MinIsFirst
  <2>2. PICK m \in 1..Len(Rest) : m = LineLength /\ Rest[m] = NL /\ \A j \in S : m <= j
    <3>1. Line = Min(S)
      BY <1>2, <1>4
    <3>2. Min(S) \in 1..Len(Rest) /\ Rest[Min(S)] = NL
      BY <2>1
    <3>3. LineLength = Min(S)
      BY <3>1, <3>2 DEF LineLength
    <3> HIDE DEF S
    <3> QED BY <2>1, <3>2, <3>3
  <2>3. ASSUME NEW k \in 1..(m - 1) PROVE Rest[k] # NL
    <3>1. k \in 1..Len(Rest) /\ ~(m <= k)
      BY <1>1
    <3> QED BY <3>1, <2>2
  <2> QED BY <2>2, <2>3
<1> QED BY <1>3, <1>4

\* >IN moves on.
LEMMA MovedOn ==
  ASSUME InputTypes, NEW s, InOrder(s), Lined(source.buffer, from, source.length, pos), NEW e, OnLine(s, e, from, source.length),
         seen' = s, UNCHANGED <<program, pos, from>>, source' = [source EXCEPT !.in = e], mode' \in {"words", "skip", "ended"}
  PROVE  Order'
<1>1. source'.buffer = source.buffer /\ source'.length = source.length /\ source'.in = e
  BY DEF InputTypes
<1>2. OrderOf(seen', mode', source', from', pos')
  BY <1>1 DEF OrderOf
<1> QED BY <1>2, OrderNext

\* The rest of a line that does not fit.
LEMMA LongLines ==
  ASSUME NEW f \in Nat, NEW p \in Nat, p > f, p - f > program.sz, program.sz \in Nat, ~IsString,
         \A i \in (f + 1)..(p - 1) : program.text[i] # NL
  PROVE  Skippable(p)
<1>1. \A i \in 1..(p - 1) : program.text[i] = NL => i <= f
  <2> SUFFICES ASSUME NEW i \in 1..(p - 1), program.text[i] = NL, ~(i <= f) PROVE FALSE
    OBVIOUS
  <2>1. i \in (f + 1)..(p - 1)
    OBVIOUS
  <2> QED BY <2>1
<1>2. LineStart(p) \in Nat /\ LineStart(p) <= f
  BY <1>1, LineStartIs
<1>3. p - LineStart(p) > program.sz
  BY <1>2
<1> QED BY <1>3 DEF Skippable

\* e4__io_file_readline goes on where the line before ended.
LEMMA NewLine ==
  ASSUME InputTypes, NEW s \in Seq(Pieces), InOrder(s), Lined(source.buffer, from, source.length, pos),
         AtEnd(s, from, source.length, pos), ReadLine, seen' = s, UNCHANGED program, mode' \in {"words", "skip", "ended"}
  PROVE  Order'
<1>1. /\ ~IsString /\ Rest # <<>> /\ pos' = pos + LineLength /\ from' = pos
      /\ source' = [buffer |-> Written(source.buffer, 0, SubSeq(Rest, 1, Kept(LineLength))),
                    length |-> Kept(LineLength), in |-> 0]
  BY DEF ReadLine, InAfterRefill
<1>2. PICK L \in Nat, c \in Nat, q \in Nat, T \in Nat : L = LineLength /\ c = Kept(LineLength) /\ q = pos /\ T = Len(program.text)
  BY ReadFacts, InputContext
<1>3. /\ Len(Rest) = T - q /\ L <= T - q /\ L > 0 /\ c <= L /\ c <= program.sz /\ q <= T /\ program.sz \in Nat \ {0}
      /\ \A k \in 1..(T - q) : Rest[k] = program.text[q + k]
  BY <1>1, <1>2, ReadFacts, InputContext
<1>4. c < L => c = program.sz
  BY <1>2, <1>3 DEF Kept
<1>5. \A k \in 1..c : source'.buffer[k] = program.text[q + k]
  <2>1. L \in Nat /\ L <= Len(Rest)
    BY <1>3
  <2>2. \A k \in 1..Kept(L) : Written(source.buffer, 0, SubSeq(Rest, 1, Kept(L)))[k] = program.text[pos + k]
    BY <2>1, <1>1, BufferFacts
  <2> QED BY <2>2, <1>1, <1>2
<1>6. \A p \in (q + 1)..(q + L - 1) : program.text[p] # NL
  <2> TAKE p \in (q + 1)..(q + L - 1)
  <2>1. PICK k \in 1..(L - 1) : p = q + k
    <3>1. PICK k \in Int : k = p - q
      OBVIOUS
    <3>2. k \in 1..(L - 1) /\ p = q + k
      BY <3>1
    <3> QED BY <3>2
  <2>2. k \in 1..(T - q) /\ k \in 1..(LineLength - 1)
    BY <1>2, <1>3
  <2>3. Rest[k] # NL
    BY <2>2, LineIs
  <2> QED BY <2>1, <2>2, <2>3, <1>3
<1>7. q + L < T => program.text[q + L] = NL
  <2> SUFFICES ASSUME q + L < T PROVE program.text[q + L] = NL
    OBVIOUS
  <2>1. LineLength < Len(Rest) /\ L \in 1..(T - q)
    BY <1>2, <1>3
  <2>2. Rest[L] = NL
    BY <2>1, <1>2, LineIs
  <2> QED BY <2>1, <2>2, <1>3
<1>8. \A p \in (q + c + 1)..(q + L) : Skippable(p)
  <2> TAKE p \in (q + c + 1)..(q + L)
  <2>1. p \in Nat /\ p > q /\ c < L
    OBVIOUS
  <2>2. p - q > program.sz /\ program.sz \in Nat
    BY <2>1, <1>3, <1>4
  <2>3. \A i \in (q + 1)..(p - 1) : i \in (q + 1)..(q + L - 1)
    OBVIOUS
  <2> QED BY <2>1, <2>2, <2>3, <1>1, <1>6, LongLines
<1>9. Lined(source'.buffer, q, c, q + L)
  <2>1. q + c <= T /\ q + c <= q + L
    BY <1>3
  <2> QED BY <2>1, <1>2, <1>5, <1>6, <1>7, <1>8 DEF Lined
<1>10. PICK R \in Nat : R = Reach(s)
  BY ReachIs
<1>11. OnLine(s, 0, q, c)
  <2>1. PICK f \in Nat, n \in Nat : f = from /\ n = source.length
    BY InputContext
  <2>2. R <= f + n /\ f + n <= q /\ \A p \in 1..q : R < p => PassedAfter(s, p)
    BY <2>1, <1>1, <1>2, <1>10 DEF AtEnd, Lined
  <2>3. R <= q + c /\ R <= q
    BY <2>1, <2>2
  <2>4. \A p \in 1..(q + c) : R < p /\ p <= q + 0 => PassedAfter(s, p)
    <3> TAKE p \in 1..(q + c)
    <3>1. p <= q + 0 => p \in 1..q
      OBVIOUS
    <3> QED BY <3>1, <2>2
  <2>5. s # <<>> => R < q + 0 \/ (R = q + 0 /\ program.text[R] = NL)
    <3> SUFFICES ASSUME s # <<>>, ~(R < q) PROVE R = q + 0 /\ program.text[R] = NL
      BY <2>3
    <3>1. R = q
      BY <2>3
    <3>2. R > 0
      <4>1. Len(s) \in 1..Len(s)
        BY EmptySeq
      <4>2. s[Len(s)] \in Pieces /\ s[Len(s)].text # <<>>
        BY <4>1 DEF InOrder
      <4>3. s[Len(s)].at \in Nat /\ s[Len(s)].text \in Seq(Symbol)
        BY <4>2 DEF Pieces
      <4>4. Len(s[Len(s)].text) \in Nat /\ Len(s[Len(s)].text) # 0
        BY <4>2, <4>3, EmptySeq
      <4> QED BY <4>3, <4>4, <1>10 DEF Reach, EndOf
    <3>3. q < T
      BY <1>3
    <3>4. program.text[q] = NL
      BY <3>1, <3>2, <3>3, <1>1, <1>2 DEF Lined
    <3> QED BY <3>1, <3>4
  <2> QED BY <2>3, <2>4, <2>5, <1>10 DEF OnLine
<1>12. source'.length = c /\ source'.in = 0 /\ from' = q /\ pos' = q + L
  BY <1>1, <1>2
<1>13. OrderOf(seen', mode', source', from', pos')
  BY <1>9, <1>11, <1>12 DEF OrderOf
<1> QED BY <1>13, OrderNext

\* A line that is parsed to its end.
LEMMA LineIsPassed ==
  ASSUME InputTypes, NEW s \in Seq(Pieces), ~IsString, Lined(source.buffer, from, source.length, pos), NEW e \in Nat, e >= source.length,
         OnLine(s, e, from, source.length)
  PROVE  AtEnd(s, from, source.length, pos)
<1>1. PICK f \in Nat, n \in Nat, q \in Nat : f = from /\ n = source.length /\ q = pos
  BY InputContext
<1>2. PICK R \in Nat : R = Reach(s)
  BY ReachIs
<1>3. R <= f + n /\ \A p \in 1..(f + n) : R < p /\ p <= f + e => PassedAfter(s, p)
  BY <1>1, <1>2 DEF OnLine
<1>4. \A p \in (f + n + 1)..q : PassedAfter(s, p)
  BY <1>1 DEF Lined, PassedAfter
<1>5. ASSUME NEW p \in 1..q, R < p PROVE PassedAfter(s, p)
  <2>1. CASE p \in 1..(f + n)
    <3>1. p <= f + e
      BY <2>1, <1>1
    <3> QED BY <2>1, <3>1, <1>3, <1>5
  <2>2. CASE p \notin 1..(f + n)
    <3>1. p \in (f + n + 1)..q
      BY <2>2
    <3> QED BY <3>1, <1>4
  <2> QED BY <2>1, <2>2
<1> QED BY <1>1, <1>2, <1>3, <1>5 DEF AtEnd

\* A line that REFILL leaves.
LEMMA LineIsLeft ==
  ASSUME InputTypes, NEW s \in Seq(Pieces), ~IsString, Lined(source.buffer, from, source.length, pos), NEW e \in Nat,
         OnLine(s, e, from, source.length), NEW p, p = Seen(Next_, "executed"), p.at \in Nat, p.at >= from, p.text = <<"REFILL">>,
         s # <<>>, s[Len(s)] = p
  PROVE  AtEnd(s, from, source.length, pos)
<1>1. PICK f \in Nat, n \in Nat, q \in Nat, a \in Nat : f = from /\ n = source.length /\ q = pos /\ a = p.at
  BY InputContext
<1>2. PICK R \in Nat : R = Reach(s) /\ R <= f + n /\ R >= a
  <2>1. Len(<<"REFILL">>) = 1
    OBVIOUS
  <2>2. Len(p.text) \in Nat
    BY <2>1
  <2>3. Reach(s) = a + Len(p.text)
    BY <1>1 DEF Reach, EndOf
  <2>4. Reach(s) <= f + n
    BY <1>1 DEF OnLine
  <2> QED BY <2>2, <2>3, <2>4
<1>3. \A i \in (f + 1)..(q - 1) : program.text[i] # NL
  BY <1>1 DEF Lined
<1>4. p.how = "executed"
  BY DEF Seen
<1>5. ASSUME NEW x \in 1..q, R < x PROVE PassedAfter(s, x)
  <2>1. x \in Nat /\ x > 0
    OBVIOUS
  <2>2. \A i \in 1..(x - 1) : program.text[i] = NL => i <= f
    <3> SUFFICES ASSUME NEW i \in 1..(x - 1), program.text[i] = NL, ~(i <= f) PROVE FALSE
      OBVIOUS
    <3>1. i \in (f + 1)..(q - 1)
      OBVIOUS
    <3> QED BY <3>1, <1>3
  <2>3. LineStart(x) \in Nat /\ LineStart(x) <= f
    BY <2>1, <2>2, LineStartIs
  <2>4. LineStart(x) <= p.at
    BY <2>3, <1>1
  <2>5. LeftIn(s, Len(s), x)
    BY <2>4, <1>4 DEF LeftIn
  <2> QED BY <2>5 DEF PassedAfter
<1> QED BY <1>1, <1>2, <1>5 DEF AtEnd

\* A word that refills and then throws, on a line of a file, is on its last.
CatchesOnLastLines ==
  \A p \in Programs : p.sid = "file" =>
    \A i \in 1..Len(p.text) : p.text[i] = "CATCH" => \A j \in i..Len(p.text) : p.text[j] # NL

\* Words parse up to separators.
LEMMA DelimsSeparate == " " \in Separators /\ NL \in Separators /\ ")" \in Separators /\ QUOTE \in Separators
BY DEF Separators

\* The next name.
LEMMA NameOnLine ==
  ASSUME InputTypes, Order, mode \in {"words", "skip"}, NEW how \in {"executed", "skipped", "parsed"},
         NEW s, s = Noted(seen, Seen(Next_, how))
  PROVE  /\ s \in Seq(Pieces) /\ InOrder(s) /\ OnLine(s, Next_.end, from, source.length)
         /\ Next_.end \in Nat /\ Next_.end > source.in
         /\ Next_.text # <<>> => s # <<>> /\ s[Len(s)] = Seen(Next_, how) /\ Next_.at >= from
<1>1. /\ Lined(source.buffer, from, source.length, pos) /\ OnLine(seen, source.in, from, source.length) /\ InOrder(seen)
      /\ seen \in Seq(Pieces) /\ source.in \in Nat
  BY InputContext DEF Order, OrderOf
<1>2. Next_ = Piece(source.in, " ", TRUE, FALSE)
  BY DEF Next_
<1>3. Next_.end \in Nat /\ Next_.end > source.in
  BY <1>1, <1>2, NextFacts
<1>4. /\ s \in Seq(Pieces) /\ InOrder(s) /\ OnLine(s, Next_.end, from, source.length)
      /\ Next_.text # <<>> => s # <<>> /\ s[Len(s)] = Seen(Next_, how) /\ Next_.at >= from
  <2>1. ASSUME NEW delim \in Separators, NEW a \in BOOLEAN, NEW b \in BOOLEAN, Next_ = Piece(source.in, delim, a, b)
        PROVE  /\ s \in Seq(Pieces) /\ InOrder(s) /\ OnLine(s, Next_.end, from, source.length)
               /\ Next_.text # <<>> => s # <<>> /\ s[Len(s)] = Seen(Next_, how) /\ Next_.at >= from
    <3>1. PICK p : p = Next_
      OBVIOUS
    <3>2. p = Piece(source.in, delim, a, b) /\ s = Noted(seen, Seen(p, how))
      BY <3>1, <2>1
    <3>3. /\ s \in Seq(Pieces) /\ InOrder(s) /\ OnLine(s, p.end, from, source.length)
          /\ p.text # <<>> => s # <<>> /\ s[Len(s)] = Seen(p, how) /\ p.at >= from
      BY SMTT(20), <1>1, <3>2, PieceOnLine
    <3> QED BY <3>1, <3>3
  <2>2. TRUE \in BOOLEAN /\ FALSE \in BOOLEAN
    OBVIOUS
  <2> QED BY <2>1, <2>2, <1>2, DelimsSeparate, Zenon
<1> QED BY <1>3, <1>4

\* Steps that parse a name only.
LEMMA WordKeepsOrder ==
  ASSUME InputTypes, Order, mode \in {"words", "skip"}, NEW how \in {"executed", "skipped", "parsed"}, Note(Seen(Next_, how)),
         source' = [source EXCEPT !.in = Next_.end], UNCHANGED <<program, pos, from>>, mode' \in {"words", "skip", "ended"}
  PROVE  Order'
<1>1. PICK s : s = Noted(seen, Seen(Next_, how)) /\ seen' = s
  BY DEF Note
<1>2. InOrder(s) /\ OnLine(s, Next_.end, from, source.length)
  BY <1>1, NameOnLine
<1>3. Lined(source.buffer, from, source.length, pos)
  BY DEF Order, OrderOf
<1> QED BY <1>1, <1>2, <1>3, MovedOn

\* Steps that parse text behind the name.
LEMMA TextKeepsOrder ==
  ASSUME InputTypes, Order, mode = "words", NEW delim \in Separators, NEW skipLeading \in BOOLEAN, NEW ignoreEsc \in BOOLEAN,
         NEW text, text = Piece(Next_.end, delim, skipLeading, ignoreEsc),
         source' = [source EXCEPT !.in = text.end], NoteBoth(Seen(Next_, "executed"), Seen(text, "parsed")),
         UNCHANGED <<program, pos, from>>, mode' \in {"words", "ended"}
  PROVE  Order'
<1>1. PICK s : s = Noted(seen, Seen(Next_, "executed"))
  OBVIOUS
<1>2. PICK t : t = Noted(s, Seen(text, "parsed")) /\ seen' = t
  BY <1>1 DEF NoteBoth
<1>3. s \in Seq(Pieces) /\ InOrder(s) /\ OnLine(s, Next_.end, from, source.length) /\ Next_.end \in Nat
  BY <1>1, NameOnLine
<1>4. Lined(source.buffer, from, source.length, pos)
  BY DEF Order, OrderOf
<1>5. InOrder(t) /\ OnLine(t, text.end, from, source.length)
  BY <1>2, <1>3, <1>4, PieceOnLine
<1>6. mode' \in {"words", "skip", "ended"}
  OBVIOUS
<1> QED BY <1>2, <1>4, <1>5, <1>6, MovedOn

\* Nothing is left to read behind a word that refills and throws.
LEMMA CaughtAtTheEnd ==
  ASSUME InputTypes, Order, CatchesOnLastLines, mode = "words", Name = <<"CATCH">>, ~IsString
  PROVE  Rest = <<>>
<1> SUFFICES ASSUME Rest # <<>> PROVE FALSE
  OBVIOUS
<1>1. Next_.text = <<"CATCH">>
  BY NameIs
<1>2. Lined(source.buffer, from, source.length, pos)
  BY DEF Order, OrderOf
<1>3. PICK f \in Nat, n \in Nat, q \in Nat, e \in Nat, T \in Nat : f = from /\ n = source.length /\ q = pos /\ e = source.in /\ T = Len(program.text)
  BY InputContext
<1>4. PICK l, z \in Nat : IsPiece(Next_, e, " ", l, z)
  BY <1>3, PieceFacts DEF Next_
<1>5. /\ z = 1 /\ Next_.text[1] = "CATCH"
      /\ IF e < n THEN e + l + z <= n ELSE l = 0 /\ z = 0
      /\ \A k \in 1..z : Next_.text[k] = source.buffer[e + l + k]
  <2>1. Len(<<"CATCH">>) = 1 /\ <<"CATCH">>[1] = "CATCH"
    OBVIOUS
  <2>2. Len(Next_.text) = z
    BY <1>4 DEF IsPiece
  <2>3. z = 1 /\ Next_.text[1] = "CATCH"
    BY <2>1, <2>2, <1>1
  <2> QED BY <2>3, <1>3, <1>4 DEF IsPiece
<1>6. PICK k \in 1..n : k = e + l + 1
  BY <1>5
<1>7. program.text[f + k] = "CATCH" /\ f + n <= q /\ q < T /\ f + k \in 1..q
  <2>1. 1 \in 1..z
    BY <1>5
  <2>2. source.buffer[k] = "CATCH"
    BY <2>1, <1>5, <1>6
  <2>3. source.buffer[k] = program.text[f + k] /\ f + n <= q
    BY <1>2, <1>3 DEF Lined
  <2>4. Len(Rest) # 0 /\ Len(Rest) = T - q
    <3>1. Rest \in Seq(Symbol) /\ Len(Rest) = T - q
      BY <1>3, ReadFacts
    <3> QED BY <3>1, EmptySeq
  <2>5. q <= T
    BY <1>3, InputContext
  <2> QED BY <2>2, <2>3, <2>4, <2>5
<1>8. program.text[q] = NL
  <2>1. 0 < q /\ q < T
    BY <1>7
  <2> QED BY <2>1, <1>2, <1>3 DEF Lined
<1>9. program \in Programs /\ program.sid = "file"
  <2>1. program \in Programs
    BY DEF InputTypes
  <2> QED BY <2>1, ProgramsAreTexts DEF IsString
<1>10. f + k \in 1..T /\ q \in (f + k)..T
  BY <1>7
<1> QED BY <1>3, <1>7, <1>8, <1>9, <1>10 DEF CatchesOnLastLines

\* Order is inductive, as long as no line follows a CATCH.
LEMMA OrderKept == CatchesOnLastLines /\ InputTypes /\ Order /\ [InputNext]_inputVars => Order'
<1> SUFFICES ASSUME CatchesOnLastLines, InputTypes, Order, [InputNext]_inputVars PROVE Order'
  OBVIOUS
<1>0. /\ InOrder(seen) /\ seen \in Seq(Pieces)
      /\ mode \in {"words", "skip"} => Lined(source.buffer, from, source.length, pos) /\ OnLine(seen, source.in, from, source.length)
      /\ mode = "refill" => Lined(source.buffer, from, source.length, pos) /\ AtEnd(seen, from, source.length, pos)
      /\ source.in \in Nat /\ source.length \in Nat
  BY InputContext DEF Order, OrderOf
<1>e. UNCHANGED <<program, seen>> /\ mode' = "ended" => Order'
  BY <1>0, OrderNext DEF OrderOf
<1>1. CASE UNCHANGED inputVars
  BY <1>1, OrderNext DEF inputVars, Order
<1>2. CASE Ordinary
  BY <1>2, WordKeepsOrder DEF Ordinary
<1>3. CASE Comment
  <2>1. PICK text : /\ text = Piece(Next_.end, IF Name = <<ESC>> THEN NL ELSE ")", TRUE, FALSE)
                    /\ source' = [source EXCEPT !.in = text.end]
                    /\ NoteBoth(Seen(Next_, "executed"), Seen(text, "parsed"))
    BY <1>3 DEF Comment
  <2>2. mode = "words" /\ mode' = "words" /\ UNCHANGED <<program, pos, from>>
    BY <1>3 DEF Comment, Execute
  <2>3. PICK delim \in Separators : delim = IF Name = <<ESC>> THEN NL ELSE ")"
    BY DelimsSeparate
  <2> QED BY <2>1, <2>2, <2>3, TextKeepsOrder
<1>4. CASE S_QUOTE
  <2>1. PICK quoted : quoted = Quoted(FALSE) /\ Take(quoted) /\ mode' \in {mode, "ended"}
    BY <1>4 DEF S_QUOTE
  <2>2. mode = "words"
    BY <1>4 DEF S_QUOTE, Execute
  <2> QED BY <2>1, <2>2, DelimsSeparate, TextKeepsOrder DEF Take, Quoted
<1>5. CASE S_BACKSLASH_QUOTE
  <2>1. PICK quoted : quoted = Quoted(TRUE) /\ Take(quoted) /\ mode' \in {mode, "ended"}
    BY <1>5 DEF S_BACKSLASH_QUOTE
  <2>2. mode = "words"
    BY <1>5 DEF S_BACKSLASH_QUOTE, Execute
  <2> QED BY <2>1, <2>2, DelimsSeparate, TextKeepsOrder DEF Take, Quoted
<1>6. CASE REFILL
  <2>1. mode = "words" /\ Name = <<"REFILL">> /\ Note(Seen(Next_, "executed")) /\ UNCHANGED program
    BY <1>6 DEF REFILL, Execute
  <2>2. CASE IsString /\ source' = [source EXCEPT !.in = Next_.end] /\ UNCHANGED <<pos, from, mode>>
    BY <2>1, <2>2, WordKeepsOrder
  <2>3. PICK s : s = Noted(seen, Seen(Next_, "executed")) /\ seen' = s
    BY <2>1 DEF Note
  <2>4. s \in Seq(Pieces) /\ InOrder(s) /\ OnLine(s, Next_.end, from, source.length) /\ Next_.end \in Nat
        /\ (Next_.text # <<>> => s # <<>> /\ s[Len(s)] = Seen(Next_, "executed") /\ Next_.at >= from)
    BY <2>1, <2>3, NameOnLine
  <2>5. CASE ReadLine /\ UNCHANGED mode
    <3>1. Next_.text = <<"REFILL">> /\ Next_.text # <<>>
      BY <2>1, NameIs
    <3>2. PICK p : p = Seen(Next_, "executed")
      OBVIOUS
    <3>3. p.at \in Nat /\ p.at >= from /\ p.text = <<"REFILL">> /\ s # <<>> /\ s[Len(s)] = p
      <4>1. p.at = Next_.at /\ p.text = Next_.text
        BY <3>2 DEF Seen
      <4>2. p.at \in Nat
        BY <3>2, SeenIs DEF Pieces
      <4> QED BY <4>1, <4>2, <2>4, <3>1, <3>2
    <3>4. ~IsString /\ Lined(source.buffer, from, source.length, pos)
      BY <2>1, <2>5, <1>0 DEF ReadLine
    <3>5. AtEnd(s, from, source.length, pos)
      BY <2>4, <3>2, <3>3, <3>4, LineIsLeft
    <3>6. mode' \in {"words", "skip", "ended"}
      BY <2>1, <2>5
    <3> QED BY <2>1, <2>3, <2>4, <2>5, <3>4, <3>5, <3>6, NewLine
  <2>6. CASE ReadFails /\ mode' = "ended"
    <3>1. OrderOf(seen', mode', source', from', pos')
      BY <2>3, <2>4, <2>6 DEF OrderOf
    <3> QED BY <3>1, <2>1, OrderNext
  <2> QED BY <2>2, <2>5, <2>6, <1>6 DEF REFILL
<1>7. CASE CATCH
  <2>1. PICK n \in IF IsString THEN {0} ELSE PartialReads \cup {LineLength} :
          /\ source' = [source EXCEPT !.in = Next_.end, !.buffer = Written(@, 0, SubSeq(Rest, 1, Kept(n)))]
          /\ pos' = pos + n
    BY <1>7 DEF CATCH
  <2>2. mode = "words" /\ Name = <<"CATCH">> /\ Note(Seen(Next_, "executed")) /\ UNCHANGED <<program, from, mode>>
    BY <1>7 DEF CATCH, Execute
  <2>3. n = 0
    <3>1. CASE IsString
      BY <3>1, <2>1
    <3>2. CASE ~IsString
      <4>1. Rest = <<>>
        BY <3>2, <2>2, CaughtAtTheEnd
      <4>2. LineLength = 0
        <5>1. Len(Rest) = 0
          BY <4>1
        <5> QED BY <5>1, ReadFacts
      <4> QED BY <3>2, <4>1, <4>2, <2>1 DEF PartialReads
    <3> QED BY <3>1, <3>2
  <2>4. Written(source.buffer, 0, SubSeq(Rest, 1, Kept(n))) = source.buffer
    <3>1. n \in Nat /\ n <= Len(Rest)
      BY <2>3, ReadFacts
    <3> QED BY <3>1, <2>3, BufferFacts
  <2>5. source' = [source EXCEPT !.in = Next_.end] /\ pos' = pos
    <3>1. source \in [buffer : Seq(Symbol), length : Nat, in : Nat] /\ pos \in Nat
      BY DEF InputTypes
    <3>2. [source EXCEPT !.in = Next_.end, !.buffer = Written(@, 0, SubSeq(Rest, 1, Kept(n)))]
            = [source EXCEPT !.in = Next_.end, !.buffer = source.buffer]
      BY <2>4
    <3>3. [source EXCEPT !.in = Next_.end, !.buffer = source.buffer] = [source EXCEPT !.in = Next_.end]
      BY <3>1
    <3> QED BY <2>1, <2>3, <3>1, <3>2, <3>3
  <2> QED BY <2>2, <2>5, WordKeepsOrder
<1>8. CASE BRACKET_IF
  <2>1. mode = "words" /\ Note(Seen(Next_, "executed")) /\ source' = [source EXCEPT !.in = Next_.end]
        /\ UNCHANGED <<program, pos, from>> /\ mode' \in {"words", "skip", "ended"}
    BY <1>8 DEF BRACKET_IF, Execute
  <2> QED BY <2>1, WordKeepsOrder
<1>9. CASE BRACKET_ELSE
  <2>1. mode = "words" /\ Note(Seen(Next_, "executed")) /\ source' = [source EXCEPT !.in = Next_.end]
        /\ UNCHANGED <<program, pos, from>> /\ mode' \in {"words", "skip", "ended"}
    BY <1>9 DEF BRACKET_ELSE, Execute
  <2> QED BY <2>1, WordKeepsOrder
<1>10. CASE LineEnds
  <2>1. mode = "words" /\ source.in >= source.length /\ UNCHANGED <<program, pos, source, from, seen>>
        /\ mode' = IF IsString THEN "ended" ELSE "refill"
    BY <1>10 DEF LineEnds
  <2>2. CASE IsString
    BY <2>1, <2>2, <1>e
  <2>3. CASE ~IsString
    <3>1. AtEnd(seen, from, source.length, pos) /\ Lined(source.buffer, from, source.length, pos)
      BY <2>1, <2>3, <1>0, LineIsPassed
    <3>2. OrderOf(seen', mode', source', from', pos')
      BY <2>1, <2>3, <3>1, <1>0 DEF OrderOf
    <3> QED BY <3>2, <2>1, OrderNext
  <2> QED BY <2>2, <2>3
<1>11. CASE Refill
  <2>1. mode = "refill" /\ UNCHANGED <<program, seen>> /\ ((ReadLine /\ mode' = "words") \/ (ReadFails /\ mode' = "ended"))
    BY <1>11 DEF Refill
  <2>2. CASE ReadLine /\ mode' = "words"
    <3>1. mode' \in {"words", "skip", "ended"}
      BY <2>2
    <3> QED BY <2>1, <2>2, <3>1, <1>0, NewLine
  <2> QED BY <2>1, <2>2, <1>e
<1>12. CASE SkipWord
  <2>1. mode = "skip" /\ Note(Seen(Next_, "skipped")) /\ UNCHANGED <<program, pos, from>> /\ mode' \in {"words", "skip", "ended"}
        /\ source' = [source EXCEPT !.in = IF @ > source.length THEN @ ELSE Next_.end]
    BY <1>12 DEF SkipWord
  <2>2. CASE ~(source.in > source.length)
    <3>1. source' = [source EXCEPT !.in = Next_.end]
      BY <2>1, <2>2
    <3> QED BY <2>1, <3>1, WordKeepsOrder
  <2>3. CASE source.in > source.length
    <3>1. source' = source
      <4>1. source \in [buffer : Seq(Symbol), length : Nat, in : Nat]
        BY DEF InputTypes
      <4> QED BY <4>1, <2>1, <2>3
    <3>2. Next_.text = <<>>
      <4>1. PICK l, z \in Nat : IsPiece(Next_, source.in, " ", l, z)
        BY <1>0, PieceFacts DEF Next_
      <4>2. z = 0
        <5>1. PICK e \in Nat, n \in Nat : e = source.in /\ n = source.length
          BY <1>0
        <5>2. IF e < n THEN e + l + z <= n ELSE l = 0 /\ z = 0
          BY <4>1, <5>1 DEF IsPiece
        <5> QED BY <5>1, <5>2, <2>3
      <4> QED BY <4>1, <4>2, EmptySeq DEF IsPiece
    <3>3. seen' = seen
      BY <3>2, <2>1 DEF Note, Noted, Seen
    <3>4. OrderOf(seen', mode', source', from', pos')
      BY <2>1, <3>1, <3>3, <1>0 DEF OrderOf
    <3> QED BY <3>4, <2>1, OrderNext
  <2> QED BY <2>2, <2>3
<1>13. CASE SkipRefill
  <2>1. mode = "skip" /\ source.in >= source.length /\ UNCHANGED <<program, seen>>
        /\ ((ReadLine /\ mode' = mode) \/ (ReadFails /\ mode' = "ended"))
    BY <1>13 DEF SkipRefill, AfterFailure
  <2>2. CASE ReadLine /\ mode' = mode
    <3>1. mode' \in {"words", "skip", "ended"} /\ ~IsString
      BY <2>1, <2>2 DEF ReadLine
    <3>2. AtEnd(seen, from, source.length, pos) /\ Lined(source.buffer, from, source.length, pos)
      BY <2>1, <3>1, <1>0, LineIsPassed
    <3> QED BY <2>1, <2>2, <3>1, <3>2, <1>0, NewLine
  <2> QED BY <2>1, <2>2, <1>e
<1> QED BY <1>1, <1>2, <1>3, <1>4, <1>5, <1>6, <1>7, <1>8, <1>9, <1>10, <1>11, <1>12, <1>13 DEF InputNext, Skip, Ended

\* It holds at first.
LEMMA InitOrder == InputInit => Order
<1> SUFFICES ASSUME InputInit PROVE Order
  OBVIOUS
<1>1. seen = <<>> /\ pos = 0 /\ from = 0 /\ mode \in {"words", "refill"} /\ program \in Programs
  BY DEF InputInit
<1>2. program.text \in Seq(Symbol) /\ Len(program.text) \in Nat
  BY <1>1, ProgramsAreTexts
<1>3. Len(seen) = 0 /\ Reach(seen) = 0
  BY <1>1 DEF Reach
<1>4. InOrder(seen)
  BY <1>3 DEF InOrder
<1>5. CASE IsString
  <2>1. source = [buffer |-> program.text, length |-> Len(program.text), in |-> 0] /\ mode = "words"
    BY <1>5 DEF InputInit
  <2>2. PICK T \in Nat : T = Len(program.text)
    BY <1>2
  <2>3. source.buffer = program.text /\ source.length = T /\ source.in = 0
    BY <2>1, <2>2
  <2>4. \A k \in 1..T : program.text[k] = program.text[0 + k]
    OBVIOUS
  <2>5. Lined(program.text, 0, T, 0)
    BY <2>2, <2>4, <1>5 DEF Lined
  <2>6. OnLine(seen, 0, 0, T)
    BY <1>1, <1>3 DEF OnLine
  <2> QED BY <2>1, <2>3, <2>5, <2>6, <1>1, <1>4 DEF Order, OrderOf
<1>6. CASE ~IsString
  <2>1. source.length = 0 /\ mode = "refill"
    BY <1>6 DEF InputInit
  <2>2. Lined(source.buffer, 0, 0, 0)
    BY <1>2 DEF Lined
  <2>3. AtEnd(seen, 0, 0, 0)
    BY <1>3 DEF AtEnd
  <2> QED BY <2>1, <2>2, <2>3, <1>1, <1>4 DEF Order, OrderOf
<1> QED BY <1>5, <1>6

\* The property of the run follows.
LEMMA OrderIsOfTheText == InputTypes /\ Order => PiecesAreOfTheText
<1> SUFFICES ASSUME InputTypes, Order PROVE PiecesAreOfTheText
  OBVIOUS
<1>1. /\ InOrder(seen) /\ seen \in Seq(Pieces) /\ DOMAIN seen = 1..Len(seen) /\ pos \in Nat
      /\ mode = "refill" => AtEnd(seen, from, source.length, pos)
  BY InputContext DEF Order, OrderOf
<1>2. \A i, p : Passed(i, p) <=> PassedIn(seen, i, p)
  BY DEF Passed, PassedIn, LeftBy, LeftIn
<1>3. \A i \in DOMAIN seen : SubSeq(program.text, seen[i].at + 1, seen[i].at + Len(seen[i].text)) = seen[i].text
  BY <1>1 DEF InOrder, EndOf
<1>4. \A i \in 2..Len(seen) :
        /\ seen[i].at > seen[i - 1].at + Len(seen[i - 1].text)
             \/ (seen[i].at = seen[i - 1].at + Len(seen[i - 1].text) /\ program.text[seen[i].at] = NL)
        /\ \A p \in (seen[i - 1].at + Len(seen[i - 1].text) + 1)..seen[i].at : Passed(i - 1, p)
  BY <1>1, <1>2 DEF InOrder, EndOf
<1>5. ASSUME mode = "refill"
      PROVE  IF seen = <<>> THEN \A p \in 1..pos : Skippable(p)
             ELSE \A p \in (seen[Len(seen)].at + Len(seen[Len(seen)].text) + 1)..pos : Passed(Len(seen), p)
  <2>0. PICK R \in Nat : R = Reach(seen)
    BY <1>1, ReachIs
  <2>1. \A p \in 1..pos : R < p => PassedAfter(seen, p)
    BY <2>0, <1>1, <1>5 DEF AtEnd
  <2>2. CASE seen = <<>>
    <3>1. R = 0
      BY <2>0, <2>2 DEF Reach
    <3>2. \A p \in 1..pos : R < p
      BY <3>1
    <3> QED BY <2>1, <2>2, <3>2 DEF PassedAfter
  <2>3. CASE seen # <<>>
    <3>1. R = seen[Len(seen)].at + Len(seen[Len(seen)].text)
      BY <2>0, <2>3 DEF Reach, EndOf
    <3>2. \A p \in (R + 1)..pos : p \in 1..pos /\ R < p
      OBVIOUS
    <3>3. \A p \in (R + 1)..pos : Passed(Len(seen), p)
      BY <2>1, <3>2, <1>2 DEF PassedAfter, PassedIn
    <3> QED BY <2>3, <3>1, <3>3
  <2> QED BY <2>2, <2>3
<1> QED BY <1>3, <1>4, <1>5 DEF PiecesAreOfTheText

\* What is read stays what the text is, in any program.
LEMMA InputStaysTyped == InputTypes => InputTypeOK
BY DEF InputTypes, InputTypeOK

(* Whatever the files and strings are, as long as no file has a line       *)
(* behind a word that refills and throws: the input buffer, its line and   *)
(* the place in the file agree, and every piece that is parsed, executed   *)
(* or skipped is the next piece of the text.                               *)
THEOREM PiecesAreParsedInOrder == CatchesOnLastLines => (InputSpec => []InputInv)
<1> SUFFICES ASSUME CatchesOnLastLines PROVE InputSpec => []InputInv
  OBVIOUS
<1>1. InputInit => InputTypes /\ Order
  BY InitTypes, InitOrder
<1>2. InputTypes /\ Order /\ [InputNext]_inputVars => (InputTypes /\ Order)'
  BY TypesKept, OrderKept
<1>3. InputTypes /\ Order => InputInv
  BY InputStaysTyped, OrderIsOfTheText DEF InputInv
<1> QED BY <1>1, <1>2, <1>3, PTL DEF InputSpec
=============================================================================
