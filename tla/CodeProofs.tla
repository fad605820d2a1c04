----------------------------- MODULE CodeProofs -----------------------------
(***************************************************************************)
(* What is compiled and what it does when it is executed.  No definition   *)
(* leaves the data stack, whatever its size, the words of the definition   *)
(* and what they are given (Code); and every branch of a definition goes   *)
(* where its own structure says, however many structures there are         *)
(* (Control).                                                              *)
(***************************************************************************)
EXTENDS Code, Control, SequenceTheorems, WellFoundedInduction, TLAPS

\* What the operations of stack.c do to the stack pointer.
LEMMA Pointers ==
  ASSUME NEW t, NEW v
  PROVE  /\ pop(t).sp = t.sp + 1 /\ drop(t).sp = t.sp + 1 /\ push(t, v).sp = t.sp - 1
         /\ dup(t).sp = t.sp - 1 /\ over(t).sp = t.sp - 1 /\ tuck(t).sp = t.sp - 1
         /\ swap(t).sp = t.sp /\ rot(t).sp = t.sp /\ roll(t).sp = t.sp + 1
BY DEF pop, drop, push, dup, over, tuck, swap, rot, roll, Stack

\* Two operations in a row.
LEMMA PointersOfTwo ==
  ASSUME NEW v, NEW w, StackIsInBounds
  PROVE  /\ pop(pop(s)).sp = s.sp + 2 /\ push(pop(s), v).sp = s.sp
         /\ push(pop(pop(s)), v).sp = s.sp + 1 /\ push(push(pop(pop(s)), v), w).sp = s.sp
         /\ push(push(s, v), w).sp = s.sp - 2
         /\ Replace(1, v).sp = s.sp /\ Replace(2, v).sp = s.sp + 1
<1>1. s.sp \in Int
  BY StackAssumption DEF StackIsInBounds
<1>2. pop(pop(s)).sp = s.sp + 2 /\ push(pop(s), v).sp = s.sp
  BY <1>1 DEF pop, push, Stack
<1>3. push(pop(pop(s)), v).sp = s.sp + 1 /\ push(push(pop(pop(s)), v), w).sp = s.sp
  BY <1>1 DEF pop, push, Stack
<1>4. push(push(s, v), w).sp = s.sp - 2
  BY <1>1 DEF push, Stack
<1> QED BY <1>2, <1>3, <1>4 DEF Replace

\* Items that are there can be taken, cells that are free can be filled.
LEMMA Room ==
  ASSUME StackIsInBounds
  PROVE  /\ s.sp \in 0..StackSize
         /\ \A k \in {1, 2} : ~(depth(s) < k) => s.sp + k \in 0..StackSize /\ s.sp + 1 \in 0..StackSize
         /\ \A k \in {1, 2} : ~(avail(s) < k) => s.sp - k \in 0..StackSize
BY StackAssumption DEF StackIsInBounds, depth, avail

\* A word fails and keeps the stack, or finds the items and the free cells that
\* it asks for.
LEMMA WordIsDone ==
  ASSUME NEW name, NEW taken, NEW cells, NEW after, Word_(name, taken, cells, after)
  PROVE  s' = s \/ (~(depth(s) < taken) /\ ~(avail(s) < cells) /\ s' = after)
BY DEF Word_, Expect, Fails, Done

-----------------------------------------------------------------------------
\* One step of a running definition.
LEMMA RunKeepsBounds == StackIsInBounds /\ Run => StackIsInBounds'
<1> SUFFICES ASSUME StackIsInBounds, Run PROVE s'.sp \in 0..StackSize
  BY DEF StackIsInBounds
<1>0. s.sp \in 0..StackSize
  BY Room
<1>1. CASE Call \/ EXIT \/ BRANCH
  BY <1>1, <1>0 DEF Call, EXIT, BRANCH
<1>2. CASE DEPTH
  <2>1. s' = s \/ (~(depth(s) < 0) /\ ~(avail(s) < 1) /\ s' = push(s, depth(s)))
    BY <1>2, WordIsDone DEF DEPTH
  <2>2. push(s, depth(s)).sp = s.sp - 1
    BY Pointers
  <2> QED BY <2>1, <2>2, <1>0, Room
<1>3. CASE DROP
  <2>1. s' = s \/ (~(depth(s) < 1) /\ ~(avail(s) < 0) /\ s' = drop(s))
    BY <1>3, WordIsDone DEF DROP
  <2>2. drop(s).sp = s.sp + 1
    BY Pointers
  <2> QED BY <2>1, <2>2, <1>0, Room
<1>4. CASE DUP
  <2>1. s' = s \/ (~(depth(s) < 1) /\ ~(avail(s) < 1) /\ s' = dup(s))
    BY <1>4, WordIsDone DEF DUP
  <2>2. dup(s).sp = s.sp - 1
    BY Pointers
  <2> QED BY <2>1, <2>2, <1>0, Room
<1>5. CASE OVER
  <2>1. s' = s \/ (~(depth(s) < 2) /\ ~(avail(s) < 1) /\ s' = over(s))
    BY <1>5, WordIsDone DEF OVER
  <2>2. over(s).sp = s.sp - 1
    BY Pointers
  <2> QED BY <2>1, <2>2, <1>0, Room
<1>6. CASE ROT
  <2>1. s' = s \/ (~(depth(s) < 3) /\ ~(avail(s) < 0) /\ s' = rot(s))
    BY <1>6, WordIsDone DEF ROT
  <2>2. rot(s).sp = s.sp
    BY Pointers
  <2> QED BY <2>1, <2>2, <1>0, Room
<1>7. CASE SWAP
  <2>1. s' = s \/ (~(depth(s) < 2) /\ ~(avail(s) < 0) /\ s' = swap(s))
    BY <1>7, WordIsDone DEF SWAP
  <2>2. swap(s).sp = s.sp
    BY Pointers
  <2> QED BY <2>1, <2>2, <1>0, Room
<1>8. CASE TUCK
  <2>1. s' = s \/ (~(depth(s) < 2) /\ ~(avail(s) < 1) /\ s' = tuck(s))
    BY <1>8, WordIsDone DEF TUCK
  <2>2. tuck(s).sp = s.sp - 1
    BY Pointers
  <2> QED BY <2>1, <2>2, <1>0, Room
<1>9. CASE BL
  <2>1. s' = s \/ (~(depth(s) < 0) /\ ~(avail(s) < 1) /\ s' = push(s, 32))
    BY <1>9, WordIsDone DEF BL
  <2>2. push(s, 32).sp = s.sp - 1
    BY Pointers
  <2> QED BY <2>1, <2>2, <1>0, Room
<1>10. CASE BASE
  <2>1. s' = s \/ (~(depth(s) < 0) /\ ~(avail(s) < 1) /\ s' = push(s, BaseAddress))
    BY <1>10, WordIsDone DEF BASE
  <2>2. push(s, BaseAddress).sp = s.sp - 1
    BY Pointers
  <2> QED BY <2>1, <2>2, <1>0, Room
<1>11. CASE NEGATE
  <2>1. s' = s \/ (~(depth(s) < 1) /\ ~(avail(s) < 0) /\ s' = Replace(1, Negate(R)))
    BY <1>11, WordIsDone DEF NEGATE
  <2>2. Replace(1, Negate(R)).sp = s.sp
    BY PointersOfTwo
  <2> QED BY <2>1, <2>2, <1>0, Room
<1>12. CASE INVERT
  <2>1. s' = s \/ (~(depth(s) < 1) /\ ~(avail(s) < 0) /\ s' = Replace(1, Base - 1 - R))
    BY <1>12, WordIsDone DEF INVERT
  <2>2. Replace(1, Base - 1 - R).sp = s.sp
    BY PointersOfTwo
  <2> QED BY <2>1, <2>2, <1>0, Room
<1>13. CASE PLUS
  <2>1. s' = s \/ (~(depth(s) < 2) /\ ~(avail(s) < 0) /\ s' = Replace(2, (L + R) % Base))
    BY <1>13, WordIsDone DEF PLUS
  <2>2. Replace(2, (L + R) % Base).sp = s.sp + 1
    BY PointersOfTwo
  <2> QED BY <2>1, <2>2, <1>0, Room
<1>14. CASE MINUS
  <2>1. s' = s \/ (~(depth(s) < 2) /\ ~(avail(s) < 0) /\ s' = Replace(2, (L - R) % Base))
    BY <1>14, WordIsDone DEF MINUS
  <2>2. Replace(2, (L - R) % Base).sp = s.sp + 1
    BY PointersOfTwo
  <2> QED BY <2>1, <2>2, <1>0, Room
<1>15. CASE STAR
  <2>1. s' = s \/ (~(depth(s) < 2) /\ ~(avail(s) < 0) /\ s' = Replace(2, (L * R) % Base))
    BY <1>15, WordIsDone DEF STAR
  <2>2. Replace(2, (L * R) % Base).sp = s.sp + 1
    BY PointersOfTwo
  <2> QED BY <2>1, <2>2, <1>0, Room
<1>16. CASE MAX
  <2>1. s' = s \/ (~(depth(s) < 2) /\ ~(avail(s) < 0) /\ s' = Replace(2, IF Less(L, R) THEN R ELSE L))
    BY <1>16, WordIsDone DEF MAX
  <2>2. Replace(2, IF Less(L, R) THEN R ELSE L).sp = s.sp + 1
    BY PointersOfTwo
  <2> QED BY <2>1, <2>2, <1>0, Room
<1>17. CASE MIN
  <2>1. s' = s \/ (~(depth(s) < 2) /\ ~(avail(s) < 0) /\ s' = Replace(2, IF Less(L, R) THEN L ELSE R))
    BY <1>17, WordIsDone DEF MIN
  <2>2. Replace(2, IF Less(L, R) THEN L ELSE R).sp = s.sp + 1
    BY PointersOfTwo
  <2> QED BY <2>1, <2>2, <1>0, Room
<1>18. CASE EQUALS
  <2>1. s' = s \/ (~(depth(s) < 2) /\ ~(avail(s) < 0) /\ s' = Replace(2, Flag(L = R)))
    BY <1>18, WordIsDone DEF EQUALS
  <2>2. Replace(2, Flag(L = R)).sp = s.sp + 1
    BY PointersOfTwo
  <2> QED BY <2>1, <2>2, <1>0, Room
<1>19. CASE LESS_THAN
  <2>1. s' = s \/ (~(depth(s) < 2) /\ ~(avail(s) < 0) /\ s' = Replace(2, Flag(Less(L, R))))
    BY <1>19, WordIsDone DEF LESS_THAN
  <2>2. Replace(2, Flag(Less(L, R))).sp = s.sp + 1
    BY PointersOfTwo
  <2> QED BY <2>1, <2>2, <1>0, Room
<1>20. CASE U_LESS_THAN
  <2>1. s' = s \/ (~(depth(s) < 2) /\ ~(avail(s) < 0) /\ s' = Replace(2, Flag(L < R)))
    BY <1>20, WordIsDone DEF U_LESS_THAN
  <2>2. Replace(2, Flag(L < R)).sp = s.sp + 1
    BY PointersOfTwo
  <2> QED BY <2>1, <2>2, <1>0, Room
<1>21. CASE Pick_
  <2>1. s' = s \/ s'.sp = s.sp
    BY <1>21, PointersOfTwo DEF Pick_, Picks, Expect, Fails, Done
  <2> QED BY <2>1, <1>0, Room
<1>22. CASE Roll_
  <2>1. s' = s \/ (~(depth(s) < 1) /\ s'.sp = s.sp + 1)
    BY <1>22, Pointers DEF Roll_, Expect, Fails, Done
  <2> QED BY <2>1, <1>0, Room
<1>23. CASE SLASH_MOD
  <2>1. s' = s \/ (~(depth(s) < 2) /\ s'.sp = s.sp + 2) \/ s'.sp = s.sp
    BY <1>23, PointersOfTwo DEF SLASH_MOD, Expect, Fails, Done
  <2> QED BY <2>1, <1>0, Room
<1>24. CASE TO_R
  <2>1. s' = s \/ (~(depth(s) < 1) /\ s'.sp = s.sp + 1)
    BY <1>24, Pointers DEF TO_R, Expect, Fails
  <2> QED BY <2>1, <1>0, Room
<1>25. CASE R_FROM
  <2>1. s' = s \/ (~(avail(s) < 1) /\ s'.sp = s.sp - 1)
    BY <1>25, Pointers DEF R_FROM, Expect, Fails
  <2> QED BY <2>1, <1>0, Room
<1>26. CASE FETCH
  <2>1. s' = s \/ s'.sp = s.sp
    BY <1>26, PointersOfTwo DEF FETCH, Expect, Fails, Done
  <2> QED BY <2>1, <1>0, Room
<1>27. CASE C_FETCH
  <2>1. s' = s \/ s'.sp = s.sp
    BY <1>27, PointersOfTwo DEF C_FETCH, Expect, Fails, Done
  <2> QED BY <2>1, <1>0, Room
<1>28. CASE STORE
  <2>1. s' = s \/ (~(depth(s) < 2) /\ s'.sp = s.sp + 2)
    BY <1>28, PointersOfTwo DEF STORE, Expect, Fails
  <2> QED BY <2>1, <1>0, Room
<1>29. CASE TYPE
  <2>1. s' = s \/ (~(depth(s) < 2) /\ s'.sp = s.sp + 2)
    BY <1>29, PointersOfTwo DEF TYPE, Expect, Fails, Types
  <2> QED BY <2>1, <1>0, Room
<1>30. CASE EMIT
  <2>1. s' = s \/ (~(depth(s) < 1) /\ s'.sp = s.sp + 1)
    BY <1>30, Pointers DEF EMIT, Expect, Fails, Types
  <2> QED BY <2>1, <1>0, Room
<1>31. CASE BRANCH0
  <2>1. s' = s \/ (~(depth(s) < 1) /\ s'.sp = s.sp + 1)
    BY <1>31, Pointers DEF BRANCH0, Expect, Fails
  <2> QED BY <2>1, <1>0, Room
<1>32. CASE LIT_CELL
  <2>1. s' = s \/ (~(avail(s) < 1) /\ s'.sp = s.sp - 1)
    BY <1>32, Pointers DEF LIT_CELL, Expect, Fails
  <2> QED BY <2>1, <1>0, Room
<1>33. CASE LIT_STR
  <2>1. s' = s \/ (~(avail(s) < 2) /\ s'.sp = s.sp - 2)
    BY <1>33, PointersOfTwo DEF LIT_STR, Expect, Fails
  <2> QED BY <2>1, <1>0, Room
<1>34. CASE LIT_CSTR
  <2>1. s' = s \/ (~(avail(s) < 1) /\ s'.sp = s.sp - 1)
    BY <1>34, Pointers DEF LIT_CSTR, Expect, Fails
  <2> QED BY <2>1, <1>0, Room
<1>35. CASE ABORTQ
  <2>1. s' = s \/ (~(depth(s) < 2) /\ s'.sp = s.sp + 2)
    BY <1>35, PointersOfTwo DEF ABORTQ, Expect, Fails
  <2> QED BY <2>1, <1>0, Room
<1> QED
  BY <1>1, <1>2, <1>3, <1>4, <1>5, <1>6, <1>7, <1>8, <1>9, <1>10, <1>11,
     <1>12, <1>13, <1>14, <1>15, <1>16, <1>17, <1>18, <1>19, <1>20, <1>21,
     <1>22, <1>23, <1>24, <1>25, <1>26, <1>27, <1>28, <1>29, <1>30, <1>31,
     <1>32, <1>33, <1>34, <1>35 DEF Run, StackWord

-----------------------------------------------------------------------------
\* No word leaves the data stack, for every stack size, definition and stack it
\* is executed with: the checks of the words are enough for what the operations
\* of stack.c use.
THEOREM StackStaysInBounds == Spec => []StackIsInBounds
<1>1. Init => StackIsInBounds
  <2> SUFFICES ASSUME Init PROVE StackIsInBounds
    OBVIOUS
  <2>1. PICK held \in Stacks : s.sp = StackSize - Len(held)
    BY DEF Init, Stack
  <2>2. Len(held) \in Nat /\ Len(held) <= StackSize
    BY CodeAssumption
  <2> QED BY <2>1, <2>2, StackAssumption DEF StackIsInBounds
<1>2. StackIsInBounds /\ [Next]_vars => StackIsInBounds'
  <2> SUFFICES ASSUME StackIsInBounds, [Next]_vars PROVE StackIsInBounds'
    OBVIOUS
  <2>1. CASE Run
    BY <2>1, RunKeepsBounds
  <2>2. CASE CompileWord \/ CompileNumber \/ S_QUOTE \/ S_BACKSLASH_QUOTE \/ C_QUOTE \/ DOT_QUOTE \/ ABORT_QUOTE
    BY <2>2 DEF CompileWord, CompileNumber, S_QUOTE, S_BACKSLASH_QUOTE, C_QUOTE, DOT_QUOTE, ABORT_QUOTE,
                Compile, StackIsInBounds
  <2>3. CASE Semicolon \/ UNCHANGED vars
    BY <2>3 DEF Semicolon, vars, StackIsInBounds
  <2> QED BY <2>1, <2>2, <2>3 DEF Next
<1> QED BY <1>1, <1>2, PTL DEF Spec

-----------------------------------------------------------------------------
(* The invariant of Control.  An item on the data stack stands for the      *)
(* branches of a structure that is not closed.  Such an item has a label   *)
(* without a place, and it is the one that finds them again: by the        *)
(* address of the operand (orig, of), or by a search for SENTINEL from its *)
(* ref on (do, case).  No other search may get to them first.              *)
Unplaced  == {"orig", "of", "do", "case"}
Searching == {"do", "case"}

\* With the cells c and the places g: the labels and the operand of an item.
ItemIsOpen(c, g, item) ==
  /\ item.kind \in Unplaced => item.label \in DOMAIN g /\ g[item.label] = 0
  /\ item.kind = "dest" => item.label \in DOMAIN g /\ g[item.label] = item.ref
  /\ item.kind = "do" => item.label + 1 \in DOMAIN g /\ g[item.label + 1] = item.ref
  /\ item.kind \in Searching \cup {"dest"} => item.ref \in 1..(Len(c) + 1)
  /\ item.kind \in {"orig", "of"} =>
       item.ref \in DOMAIN c /\ c[item.ref].by = item.label /\ c[item.ref].op \in Stale

\* No two items of the stack st wait for the same branches.
LabelsDiffer(st) ==
  \A i, j \in DOMAIN st :
    i # j /\ st[i].kind \in Unplaced /\ st[j].kind \in Unplaced => st[i].label # st[j].label

\* Item i will find the open branch at a, and none above it takes it before.
Owns(c, st, i, a) ==
  /\ st[i].kind \in Unplaced /\ st[i].label = c[a].by
  /\ c[a].op \in Stale
  /\ st[i].kind \in {"orig", "of"} => a = st[i].ref
  /\ st[i].kind \in Searching => a >= st[i].ref /\ c[a].op = "sentinel"
  /\ \A j \in (i + 1)..Len(st) : st[j].kind \in Searching => a < st[j].ref

\* A branch whose label has its place goes there; any other has an owner.
CellIsOwned(c, st, g, a) ==
  /\ c[a].by \in 0..Len(g)
  /\ c[a].op \in Stale => c[a].by # 0
  /\ c[a].by # 0 /\ g[c[a].by] # 0 => c[a].op = "to" /\ c[a].at = g[c[a].by]
  /\ c[a].by # 0 /\ g[c[a].by] = 0 => \E i \in DOMAIN st : Owns(c, st, i, a)

\* Cells, items and places that belong together.
Sound(c, st, g) ==
  /\ \A i \in DOMAIN st : ItemIsOpen(c, g, st[i])
  /\ LabelsDiffer(st)
  /\ \A a \in DOMAIN c : CellIsOwned(c, st, g, a)

-----------------------------------------------------------------------------
\* The cells that the words compile.
LEMMA CellsOfWords ==
  /\ \A o \in Ops \cup Operands : Op(o) \in Cell /\ Op(o).op = o /\ Op(o).by = 0
  /\ \A a, l \in Nat : To(a, l) \in Cell /\ To(a, l).op = "to" /\ To(a, l).at = a /\ To(a, l).by = l
  /\ \A raw \in Stale, l \in Nat : Open(raw, l) \in Cell /\ Open(raw, l).op = raw /\ Open(raw, l).by = l
BY DEF Op, To, Open, Cell, Ops, Operands, Stale

\* An item stays open as long as its operand and its labels are left alone.
LEMMA ItemStaysOpen ==
  ASSUME NEW c \in Seq(Cell), NEW g \in Seq(Nat), NEW c2 \in Seq(Cell), NEW g2 \in Seq(Nat),
         NEW item, ItemIsOpen(c, g, item), Len(c) <= Len(c2), Len(g) <= Len(g2),
         \A a \in 1..Len(c) : a = item.ref /\ item.kind \in {"orig", "of"} => c2[a] = c[a],
         \A k \in 1..Len(g) : k = item.label \/ (k = item.label + 1 /\ item.kind = "do") => g2[k] = g[k]
  PROVE  ItemIsOpen(c2, g2, item)
<1>0. DOMAIN c = 1..Len(c) /\ DOMAIN c2 = 1..Len(c2) /\ DOMAIN g = 1..Len(g) /\ DOMAIN g2 = 1..Len(g2)
      /\ Len(c) \in Nat /\ Len(c2) \in Nat /\ Len(g) \in Nat /\ Len(g2) \in Nat
  OBVIOUS
<1>1. \A k \in DOMAIN g : k \in DOMAIN g2
  BY <1>0
<1>2. \A a \in DOMAIN c : a \in DOMAIN c2
  BY <1>0
<1>3. \A a \in 1..(Len(c) + 1) : a \in 1..(Len(c2) + 1)
  BY <1>0
<1> QED BY <1>0, <1>1, <1>2, <1>3 DEF ItemIsOpen, Unplaced, Searching

\* A cell that is not written keeps its owner and the place of its label.
LEMMA CellStaysOwned ==
  ASSUME NEW c, NEW st, NEW g \in Seq(Nat), NEW c2, NEW st2, NEW g2 \in Seq(Nat), NEW a,
         CellIsOwned(c, st, g, a), c2[a] = c[a], Len(g) <= Len(g2),
         \A k \in 1..Len(g) : k = c[a].by => g2[k] = g[k],
         \A i \in DOMAIN st : Owns(c, st, i, a) => \E i2 \in DOMAIN st2 : Owns(c2, st2, i2, a)
  PROVE  CellIsOwned(c2, st2, g2, a)
<1> DEFINE k == c[a].by
<1>1. k \in 0..Len(g) /\ Len(g) \in Nat /\ Len(g2) \in Nat /\ c2[a].by = k
  BY DEF CellIsOwned
<1>2. k \in 0..Len(g2)
  BY <1>1
<1>3. k # 0 => g2[k] = g[k]
  BY <1>1
<1> QED BY <1>1, <1>2, <1>3 DEF CellIsOwned

\* Items above an owner take nothing from it that lies before their place.
LEMMA OwnerBelow ==
  ASSUME NEW c, NEW c2, NEW st \in Seq(Item), NEW st2 \in Seq(Item), NEW i \in DOMAIN st, NEW a, Owns(c, st, i, a),
         c2[a] = c[a], Len(st) <= Len(st2), \A j \in 1..Len(st) : st2[j] = st[j],
         \A j \in (Len(st) + 1)..Len(st2) : st2[j].kind \in Searching => a < st2[j].ref
  PROVE  i \in DOMAIN st2 /\ Owns(c2, st2, i, a)
<1>1. i \in 1..Len(st) /\ Len(st) \in Nat /\ Len(st2) \in Nat
  OBVIOUS
<1>2. i \in DOMAIN st2 /\ st2[i] = st[i]
  BY <1>1
<1>3. ASSUME NEW j \in (i + 1)..Len(st2), st2[j].kind \in Searching PROVE a < st2[j].ref
  <2>1. CASE j \in 1..Len(st)
    <3>1. st2[j] = st[j] /\ j \in (i + 1)..Len(st)
      BY <2>1, <1>1
    <3> QED BY <3>1, <1>3 DEF Owns
  <2>2. CASE j \notin 1..Len(st)
    <3>1. j \in (Len(st) + 1)..Len(st2)
      BY <2>2, <1>1
    <3> QED BY <3>1, <1>3
  <2> QED BY <2>1, <2>2
<1> QED BY <1>2, <1>3 DEF Owns

\* An item that is taken off takes nothing from the others.
LEMMA OwnerStays ==
  ASSUME NEW c, NEW c2, NEW st \in Seq(Item), NEW st2 \in Seq(Item), NEW i \in DOMAIN st2, NEW a, Owns(c, st, i, a),
         c2[a] = c[a], Len(st2) <= Len(st), \A j \in 1..Len(st2) : st2[j] = st[j]
  PROVE  Owns(c2, st2, i, a)
<1>1. i \in 1..Len(st2) /\ Len(st) \in Nat /\ Len(st2) \in Nat /\ st2[i] = st[i]
  OBVIOUS
<1>2. ASSUME NEW j \in (i + 1)..Len(st2) PROVE j \in (i + 1)..Len(st) /\ st2[j] = st[j]
  BY <1>1
<1> QED BY <1>1, <1>2 DEF Owns

\* Compiling cells that have owners themselves.
LEMMA CompiledIsSound ==
  ASSUME NEW c \in Seq(Cell), NEW st \in Seq(Item), NEW g \in Seq(Nat), Sound(c, st, g),
         NEW e \in Seq(Cell), Len(c) <= Len(e), \A a \in 1..Len(c) : e[a] = c[a],
         \A a \in (Len(c) + 1)..Len(e) : CellIsOwned(e, st, g, a)
  PROVE  Sound(e, st, g)
<1>1. Len(c) \in Nat /\ Len(e) \in Nat /\ Len(g) \in Nat /\ DOMAIN c = 1..Len(c) /\ DOMAIN e = 1..Len(e)
  OBVIOUS
<1>2. Len(g) <= Len(g) /\ \A k \in 1..Len(g) : g[k] = g[k]
  BY <1>1
<1>3. ASSUME NEW i \in DOMAIN st PROVE ItemIsOpen(e, g, st[i])
  <2>1. ItemIsOpen(c, g, st[i])
    BY DEF Sound
  <2> QED BY <2>1, <1>2, ItemStaysOpen
<1>4. ASSUME NEW a \in DOMAIN e PROVE CellIsOwned(e, st, g, a)
  <2>1. CASE a \in 1..Len(c)
    <3>1. CellIsOwned(c, st, g, a) /\ e[a] = c[a]
      BY <2>1, <1>1 DEF Sound
    <3>2. ASSUME NEW i \in DOMAIN st, Owns(c, st, i, a) PROVE Owns(e, st, i, a)
      BY <3>1, <3>2 DEF Owns
    <3> QED BY <3>1, <3>2 DEF CellIsOwned
  <2>2. CASE a \notin 1..Len(c)
    BY <2>2, <1>1
  <2> QED BY <2>1, <2>2
<1> QED BY <1>3, <1>4 DEF Sound

\* CellsOfWords of no structure are compiled.
LEMMA PlainIsSound ==
  ASSUME NEW c \in Seq(Cell), NEW st \in Seq(Item), NEW g \in Seq(Nat), Sound(c, st, g),
         NEW d \in Seq(Cell), \A b \in 1..Len(d) : d[b].by = 0 /\ d[b].op \notin Stale
  PROVE  c \o d \in Seq(Cell) /\ Sound(c \o d, st, g)
<1> DEFINE e == c \o d
<1>1. /\ e \in Seq(Cell) /\ Len(e) = Len(c) + Len(d)
      /\ \A a \in 1..Len(c) : e[a] = c[a]
      /\ \A a \in (Len(c) + 1)..Len(e) : a - Len(c) \in 1..Len(d) /\ e[a] = d[a - Len(c)]
  OBVIOUS
<1> HIDE DEF e
<1>2. Len(c) \in Nat /\ Len(d) \in Nat /\ Len(g) \in Nat /\ Len(c) <= Len(e)
  BY <1>1
<1>3. ASSUME NEW a \in (Len(c) + 1)..Len(e) PROVE CellIsOwned(e, st, g, a)
  <2>1. e[a].by = 0 /\ e[a].op \notin Stale
    BY <1>1
  <2> QED BY <2>1, <1>2 DEF CellIsOwned
<1>4. Sound(e, st, g)
  BY <1>1, <1>2, <1>3, CompiledIsSound
<1> QED BY <1>1, <1>4 DEF e

\* An item with a label of its own is put on the stack.
LEMMA PushIsSound ==
  ASSUME NEW c \in Seq(Cell), NEW st \in Seq(Item), NEW g \in Seq(Nat), Sound(c, st, g),
         NEW item \in Item, NEW g2 \in Seq(Nat), Len(g) <= Len(g2), \A k \in 1..Len(g) : g2[k] = g[k],
         ItemIsOpen(c, g2, item), item.kind \in Unplaced => item.label > Len(g),
         item.kind \in Searching => item.ref = Len(c) + 1
  PROVE  Append(st, item) \in Seq(Item) /\ Sound(c, Append(st, item), g2)
<1> DEFINE st2 == Append(st, item)
<1>0. Len(c) \in Nat /\ Len(g) \in Nat /\ Len(g2) \in Nat /\ Len(st) \in Nat
  OBVIOUS
<1>1. /\ st2 \in Seq(Item) /\ Len(st2) = Len(st) + 1 /\ st2[Len(st) + 1] = item
      /\ \A i \in 1..Len(st) : st2[i] = st[i]
  OBVIOUS
<1> HIDE DEF st2
<1>2. DOMAIN c = 1..Len(c) /\ DOMAIN st = 1..Len(st) /\ DOMAIN g = 1..Len(g)
      /\ DOMAIN st2 = 1..(Len(st) + 1) /\ DOMAIN g2 = 1..Len(g2)
  BY <1>1
<1>3. ASSUME NEW i \in DOMAIN st2 PROVE ItemIsOpen(c, g2, st2[i])
  <2>1. CASE i \in 1..Len(st)
    <3>1. ItemIsOpen(c, g, st[i]) /\ st2[i] = st[i]
      BY <2>1, <1>1, <1>2 DEF Sound
    <3>2. Len(c) <= Len(c)
      BY <1>0
    <3> QED BY <3>1, <3>2, ItemStaysOpen
  <2>2. CASE i \notin 1..Len(st)
    BY <2>2, <1>0, <1>1, <1>2
  <2> QED BY <2>1, <2>2
<1>4. LabelsDiffer(st2)
  <2> SUFFICES ASSUME NEW i \in DOMAIN st2, NEW j \in DOMAIN st2, i # j,
                      st2[i].kind \in Unplaced, st2[j].kind \in Unplaced
               PROVE  st2[i].label # st2[j].label
    BY DEF LabelsDiffer
  <2>1. \A k \in 1..Len(st) : st[k].kind \in Unplaced => st[k].label \in 1..Len(g)
    BY <1>2 DEF Sound, ItemIsOpen
  <2>2. CASE i \in 1..Len(st) /\ j \in 1..Len(st)
    BY <2>2, <1>1, <1>2 DEF Sound, LabelsDiffer
  <2>3. CASE i = Len(st) + 1 /\ j \in 1..Len(st)
    <3>1. st2[i] = item /\ st2[j] = st[j]
      BY <2>3, <1>1
    <3>2. item.label > Len(g) /\ st[j].label \in 1..Len(g)
      BY <3>1, <2>1, <2>3
    <3> QED BY <3>1, <3>2, <1>0
  <2>4. CASE i \in 1..Len(st) /\ j = Len(st) + 1
    <3>1. st2[j] = item /\ st2[i] = st[i]
      BY <2>4, <1>1
    <3>2. item.label > Len(g) /\ st[i].label \in 1..Len(g)
      BY <3>1, <2>1, <2>4
    <3> QED BY <3>1, <3>2, <1>0
  <2> QED BY <2>2, <2>3, <2>4, <1>0, <1>2
<1>5. ASSUME NEW a \in DOMAIN c PROVE CellIsOwned(c, st2, g2, a)
  <2>1. CellIsOwned(c, st, g, a) /\ a \in 1..Len(c)
    BY <1>2 DEF Sound
  <2>2. ASSUME NEW i \in DOMAIN st, Owns(c, st, i, a) PROVE i \in DOMAIN st2 /\ Owns(c, st2, i, a)
    <3>1. \A j \in (Len(st) + 1)..Len(st2) : st2[j].kind \in Searching => a < st2[j].ref
      <4>1. \A j \in (Len(st) + 1)..Len(st2) : st2[j] = item
        BY <1>0, <1>1
      <4>2. item.kind \in Searching => a < item.ref
        BY <1>0, <2>1
      <4> QED BY <4>1, <4>2
    <3>2. Len(st) <= Len(st2)
      BY <1>0, <1>1
    <3> QED BY <3>1, <3>2, <2>2, <1>1, OwnerBelow
  <2> QED BY <2>1, <2>2, CellStaysOwned
<1> QED BY <1>1, <1>3, <1>4, <1>5 DEF Sound, st2

\* The stack without its top item.
LEMMA Popped ==
  ASSUME NEW st \in Seq(Item), Len(st) > 0
  PROVE  LET st2 == SubSeq(st, 1, Len(st) - 1)
         IN  /\ st2 \in Seq(Item) /\ Len(st2) = Len(st) - 1 /\ Len(st) \in Nat
             /\ \A i \in 1..Len(st2) : st2[i] = st[i]
<1>1. Len(st) \in Nat /\ Len(st) - 1 \in Nat /\ \A i \in 1..(Len(st) - 1) : st[i] \in Item
  OBVIOUS
<1>2. PICK m \in Nat : m = Len(st) - 1
  BY <1>1
<1>3. 1 \in Int /\ m \in Int /\ 1 <= m + 1 /\ m <= Len(st) /\ \A i \in 1..m : st[i] \in Item
  BY <1>1, <1>2
<1>4. SubSeq(st, 1, m) \in Seq(Item)
  BY <1>3, SubSeqProperties
<1>5. Len(SubSeq(st, 1, m)) = m
  BY <1>2, <1>3, SubSeqProperties
<1>6. \A i \in 1..m : SubSeq(st, 1, m)[i] = st[i]
  BY <1>2, <1>3, SubSeqProperties
<1> QED BY <1>1, <1>2, <1>4, <1>5, <1>6

\* An item whose label has its place, or none, is taken off the stack.
LEMMA PopIsSound ==
  ASSUME NEW c \in Seq(Cell), NEW st \in Seq(Item), NEW g \in Seq(Nat), Sound(c, st, g),
         Len(st) > 0, st[Len(st)].kind \notin Unplaced
  PROVE  SubSeq(st, 1, Len(st) - 1) \in Seq(Item) /\ Sound(c, SubSeq(st, 1, Len(st) - 1), g)
<1> DEFINE st2 == SubSeq(st, 1, Len(st) - 1)
<1>1. /\ st2 \in Seq(Item) /\ Len(st2) = Len(st) - 1 /\ Len(st) \in Nat
      /\ \A i \in 1..Len(st2) : st2[i] = st[i]
  BY Popped
<1> HIDE DEF st2
<1>2. DOMAIN st = 1..Len(st) /\ DOMAIN st2 = 1..Len(st2)
      /\ \A i \in DOMAIN st2 : i \in DOMAIN st /\ st2[i] = st[i]
  BY SMTT(20), <1>1
<1>3. \A i \in DOMAIN st2 : ItemIsOpen(c, g, st2[i])
  BY <1>2 DEF Sound
<1>4. LabelsDiffer(st2)
  BY <1>2 DEF Sound, LabelsDiffer
<1>5. ASSUME NEW a \in DOMAIN c PROVE CellIsOwned(c, st2, g, a)
  <2>1. CellIsOwned(c, st, g, a)
    BY DEF Sound
  <2>2. ASSUME NEW i \in DOMAIN st, Owns(c, st, i, a) PROVE i \in DOMAIN st2 /\ Owns(c, st2, i, a)
    <3>1. i # Len(st)
      BY <2>2 DEF Owns
    <3>2. i \in DOMAIN st2
      BY <3>1, <1>1, <1>2
    <3>3. Len(st2) <= Len(st)
      BY <1>1
    <3> QED BY <3>2, <3>3, <2>2, <1>1, OwnerStays
  <2> QED BY <2>1, <2>2 DEF CellIsOwned
<1> QED BY <1>1, <1>3, <1>4, <1>5 DEF Sound, st2

\* A branch is compiled, and the address of its operand is pushed.
LEMMA ForwardIsSound ==
  ASSUME NEW c \in Seq(Cell), NEW st \in Seq(Item), NEW g \in Seq(Nat), Sound(c, st, g),
         NEW raw \in Stale, NEW item \in Item,
         item.kind \in {"orig", "of"}, item.ref = Len(c) + 1, item.label = Len(g) + 1
  PROVE  /\ Append(c, Open(raw, Len(g) + 1)) \in Seq(Cell) /\ Append(st, item) \in Seq(Item)
         /\ Append(g, 0) \in Seq(Nat)
         /\ Sound(Append(c, Open(raw, Len(g) + 1)), Append(st, item), Append(g, 0))
<1> DEFINE cell == Open(raw, Len(g) + 1)
           c2 == Append(c, cell)
           st2 == Append(st, item)
           g2 == Append(g, 0)
<1>0. Len(c) \in Nat /\ Len(g) \in Nat /\ Len(st) \in Nat
  OBVIOUS
<1>1. cell \in Cell /\ cell.op = raw /\ cell.by = Len(g) + 1
  BY <1>0, CellsOfWords
<1>2. item \in Item /\ item.kind \in {"orig", "of"} /\ item.ref = Len(c) + 1 /\ item.label = Len(g) + 1
  OBVIOUS
<1> HIDE DEF cell
<1>3. /\ c2 \in Seq(Cell) /\ Len(c2) = Len(c) + 1 /\ c2[Len(c) + 1] = cell
      /\ \A a \in 1..Len(c) : c2[a] = c[a]
  BY <1>1
<1>4. /\ st2 \in Seq(Item) /\ Len(st2) = Len(st) + 1 /\ st2[Len(st) + 1] = item
      /\ \A i \in 1..Len(st) : st2[i] = st[i]
  BY <1>2
<1>5. /\ g2 \in Seq(Nat) /\ Len(g2) = Len(g) + 1 /\ g2[Len(g) + 1] = 0
      /\ \A l \in 1..Len(g) : g2[l] = g[l]
  OBVIOUS
<1> HIDE DEF c2, st2, g2
<1>6. DOMAIN c = 1..Len(c) /\ DOMAIN st = 1..Len(st) /\ DOMAIN g = 1..Len(g)
      /\ DOMAIN c2 = 1..(Len(c) + 1) /\ DOMAIN st2 = 1..(Len(st) + 1) /\ DOMAIN g2 = 1..(Len(g) + 1)
  BY <1>3, <1>4, <1>5
<1>7. ASSUME NEW i \in DOMAIN st2 PROVE ItemIsOpen(c2, g2, st2[i])
  <2>1. CASE i \in 1..Len(st)
    <3>1. ItemIsOpen(c, g, st[i]) /\ st2[i] = st[i]
      BY <2>1, <1>4, <1>6 DEF Sound
    <3>2. Len(c) <= Len(c2) /\ Len(g) <= Len(g2)
      BY <1>0, <1>3, <1>5
    <3> QED BY <3>1, <3>2, <1>3, <1>5, ItemStaysOpen
  <2>2. CASE i \notin 1..Len(st)
    <3>1. st2[i] = item
      BY <2>2, <1>0, <1>4, <1>6
    <3>2. Len(c) + 1 \in DOMAIN c2 /\ Len(g) + 1 \in DOMAIN g2
      BY <1>0, <1>6
    <3> QED BY <3>1, <3>2, <1>1, <1>2, <1>3, <1>5 DEF ItemIsOpen, Unplaced, Searching
  <2> QED BY <2>1, <2>2
<1>8. LabelsDiffer(st2)
  <2> SUFFICES ASSUME NEW i \in DOMAIN st2, NEW j \in DOMAIN st2, i # j,
                      st2[i].kind \in Unplaced, st2[j].kind \in Unplaced
               PROVE  st2[i].label # st2[j].label
    BY DEF LabelsDiffer
  <2>1. \A k \in 1..Len(st) : st[k].kind \in Unplaced => st[k].label \in 1..Len(g)
    BY <1>6 DEF Sound, ItemIsOpen
  <2>2. CASE i \in 1..Len(st) /\ j \in 1..Len(st)
    BY <2>2, <1>4, <1>6 DEF Sound, LabelsDiffer
  <2>3. CASE i = Len(st) + 1 /\ j \in 1..Len(st)
    <3>1. st2[i].label = Len(g) + 1 /\ st2[j] = st[j]
      BY <2>3, <1>2, <1>4
    <3>2. st[j].label \in 1..Len(g)
      BY <3>1, <2>1, <2>3
    <3> QED BY <3>1, <3>2, <1>0
  <2>4. CASE i \in 1..Len(st) /\ j = Len(st) + 1
    <3>1. st2[j].label = Len(g) + 1 /\ st2[i] = st[i]
      BY <2>4, <1>2, <1>4
    <3>2. st[i].label \in 1..Len(g)
      BY <3>1, <2>1, <2>4
    <3> QED BY <3>1, <3>2, <1>0
  <2> QED BY <2>2, <2>3, <2>4, <1>0, <1>6
<1>9. ASSUME NEW a \in DOMAIN c2 PROVE CellIsOwned(c2, st2, g2, a)
  <2>1. CASE a \in 1..Len(c)
    <3>1. CellIsOwned(c, st, g, a) /\ c2[a] = c[a]
      BY <2>1, <1>3, <1>6 DEF Sound
    <3>2. ASSUME NEW i \in DOMAIN st, Owns(c, st, i, a) PROVE i \in DOMAIN st2 /\ Owns(c2, st2, i, a)
      <4>1. \A j \in (Len(st) + 1)..Len(st2) : st2[j].kind \in Searching => a < st2[j].ref
        BY <1>0, <1>2, <1>4 DEF Searching
      <4>2. Len(st) <= Len(st2)
        BY <1>0, <1>4
      <4> QED BY <4>1, <4>2, <3>1, <3>2, <1>4, OwnerBelow
    <3>3. Len(g) <= Len(g2) /\ \A k \in 1..Len(g) : g2[k] = g[k]
      BY <1>0, <1>5
    <3> QED BY <3>1, <3>2, <3>3, <1>5, CellStaysOwned
  <2>2. CASE a \notin 1..Len(c)
    <3>1. a = Len(c) + 1 /\ c2[a] = cell
      BY <2>2, <1>0, <1>3, <1>6
    <3>2. Owns(c2, st2, Len(st) + 1, a)
      <4>1. (Len(st) + 1 + 1)..Len(st2) = {}
        BY <1>0, <1>4
      <4> QED BY <3>1, <4>1, <1>1, <1>2, <1>4 DEF Owns, Unplaced, Searching
    <3>3. Len(st) + 1 \in DOMAIN st2
      BY <1>0, <1>6
    <3>4. cell.by \in 0..Len(g2) /\ cell.by # 0 /\ g2[cell.by] = 0
      BY <1>0, <1>1, <1>5
    <3> QED BY <3>1, <3>2, <3>3, <3>4 DEF CellIsOwned
  <2> QED BY <2>1, <2>2
<1>10. Sound(c2, st2, g2)
  BY <1>7, <1>8, <1>9 DEF Sound
<1> QED BY <1>3, <1>4, <1>5, <1>10 DEF c2, st2, g2, cell

\* The two items on top change places, as SWAP in WHILE does.
LEMMA SwapIsSound ==
  ASSUME NEW c \in Seq(Cell), NEW st \in Seq(Item), NEW g \in Seq(Nat), NEW x \in Item, NEW y \in Item,
         x.kind \notin Searching, y.kind \notin Searching,
         Sound(c, Append(Append(st, x), y), g)
  PROVE  Append(Append(st, y), x) \in Seq(Item) /\ Sound(c, Append(Append(st, y), x), g)
<1> DEFINE st1 == Append(Append(st, x), y)
           st2 == Append(Append(st, y), x)
           n0 == Len(st)
<1>1. /\ st1 \in Seq(Item) /\ st2 \in Seq(Item) /\ n0 \in Nat /\ Len(st1) = n0 + 2 /\ Len(st2) = n0 + 2
      /\ \A i \in 1..n0 : st1[i] = st[i] /\ st2[i] = st[i]
      /\ st1[n0 + 1] = x /\ st1[n0 + 2] = y /\ st2[n0 + 1] = y /\ st2[n0 + 2] = x
      /\ DOMAIN st1 = 1..Len(st1) /\ DOMAIN st2 = 1..Len(st2)
  OBVIOUS
<1>2. Sound(c, st1, g)
  OBVIOUS
<1> HIDE DEF st1, st2, n0
<1> DEFINE other(i) == IF i = n0 + 1 THEN n0 + 2 ELSE IF i = n0 + 2 THEN n0 + 1 ELSE i
<1>3. DOMAIN st1 = 1..(n0 + 2) /\ DOMAIN st2 = 1..(n0 + 2)
  BY <1>1
<1>4. \A i \in 1..(n0 + 2) : other(i) \in 1..(n0 + 2) /\ st2[i] = st1[other(i)] /\ st2[other(i)] = st1[i]
  <2> SUFFICES ASSUME NEW i \in 1..(n0 + 2)
               PROVE  other(i) \in 1..(n0 + 2) /\ st2[i] = st1[other(i)] /\ st2[other(i)] = st1[i]
    OBVIOUS
  <2>1. CASE i = n0 + 1
    <3>1. other(i) = n0 + 2
      BY <2>1
    <3> QED BY <2>1, <3>1, <1>1
  <2>2. CASE i = n0 + 2
    <3>1. other(i) = n0 + 1
      BY <2>2, <1>1
    <3> QED BY <2>2, <3>1, <1>1
  <2>3. CASE i \in 1..n0
    <3>1. other(i) = i
      BY <2>3, <1>1
    <3> QED BY <2>3, <3>1, <1>1
  <2> QED BY <2>1, <2>2, <2>3, <1>1
<1>5. \A i, j \in 1..(n0 + 2) : i # j => other(i) # other(j)
  BY <1>1
<1> HIDE DEF other
<1>6. \A i \in DOMAIN st2 : ItemIsOpen(c, g, st2[i])
  BY <1>2, <1>3, <1>4 DEF Sound
<1>7. LabelsDiffer(st2)
  BY <1>2, <1>3, <1>4, <1>5 DEF Sound, LabelsDiffer
<1>8. ASSUME NEW a \in DOMAIN c PROVE CellIsOwned(c, st2, g, a)
  <2>1. CellIsOwned(c, st1, g, a)
    BY <1>2 DEF Sound
  <2>2. ASSUME NEW i \in DOMAIN st1, Owns(c, st1, i, a)
        PROVE  other(i) \in DOMAIN st2 /\ Owns(c, st2, other(i), a)
    <3>1. ASSUME NEW j \in (other(i) + 1)..(n0 + 2), st2[j].kind \in Searching PROVE a < st2[j].ref
      <4>1. j \in 1..n0
        <5>1. j # n0 + 1 /\ j # n0 + 2
          BY <1>1, <3>1
        <5>2. other(i) \in 1..(n0 + 2)
          BY <1>3, <1>4
        <5>3. j \in 1..(n0 + 2)
          BY <5>2, <1>1
        <5> QED BY SMTT(20), <5>1, <5>3, <1>1
      <4>2. st2[j] = st1[j]
        BY <1>1, <4>1
      <4>3. i <= n0 /\ other(i) = i
        BY <1>1, <1>3, <3>1, <4>1 DEF other
      <4>4. j \in (i + 1)..Len(st1)
        BY <1>1, <1>3, <3>1, <4>1, <4>3
      <4> QED BY <4>2, <4>4, <2>2, <3>1 DEF Owns
    <3> QED BY <3>1, <2>2, <1>1, <1>3, <1>4 DEF Owns
  <2> QED BY <2>1, <2>2 DEF CellIsOwned
<1>9. Sound(c, st2, g)
  BY <1>6, <1>7, <1>8 DEF Sound
<1> QED BY <1>1, <1>9 DEF st1, st2

\* A structure ends here: its branches and no others are filled in.
LEMMA EndIsSound ==
  ASSUME NEW c \in Seq(Cell), NEW st \in Seq(Item), NEW g \in Seq(Nat), Sound(c, st, g),
         Len(st) > 0, st[Len(st)].kind \in Unplaced, NEW place \in Nat \ {0},
         NEW c2 \in Seq(Cell), Len(c2) = Len(c),
         \A a \in 1..Len(c) : IF c[a].by = st[Len(st)].label THEN c2[a] = To(place, c[a].by) ELSE c2[a] = c[a]
  PROVE  LET st2 == SubSeq(st, 1, Len(st) - 1)
             g2 == [g EXCEPT ![st[Len(st)].label] = place]
         IN  st2 \in Seq(Item) /\ g2 \in Seq(Nat) /\ Sound(c2, st2, g2)
<1> DEFINE st2 == SubSeq(st, 1, Len(st) - 1)
           top == st[Len(st)]
           k == top.label
           g2 == [g EXCEPT ![k] = place]
<1>1. /\ st2 \in Seq(Item) /\ Len(st2) = Len(st) - 1 /\ Len(st) \in Nat
      /\ \A i \in 1..Len(st2) : st2[i] = st[i]
  BY Popped
<1>2. /\ Len(st) \in DOMAIN st /\ DOMAIN st = 1..Len(st) /\ DOMAIN st2 = 1..Len(st2)
      /\ \A i \in DOMAIN st2 : i \in DOMAIN st /\ st2[i] = st[i] /\ i # Len(st)
  BY <1>1
<1> HIDE DEF st2
<1>3. k \in DOMAIN g /\ g[k] = 0
  BY <1>2 DEF Sound, ItemIsOpen
<1>4. k \in 1..Len(g) /\ Len(g) \in Nat /\ DOMAIN g = 1..Len(g)
  BY <1>3
<1>5. /\ g2 \in Seq(Nat) /\ Len(g2) = Len(g) /\ g2[k] = place
      /\ \A l \in 1..Len(g) : l # k => g2[l] = g[l]
  BY <1>4
<1> HIDE DEF g2
<1>6. /\ DOMAIN g2 = DOMAIN g /\ DOMAIN c = 1..Len(c) /\ DOMAIN c2 = 1..Len(c) /\ Len(c) \in Nat
      /\ Len(c) <= Len(c2) /\ Len(g) <= Len(g2)
  BY <1>5
<1>7. ASSUME NEW i \in DOMAIN st2 PROVE ItemIsOpen(c2, g2, st2[i])
  <2>1. ItemIsOpen(c, g, st[i]) /\ st2[i] = st[i] /\ i \in DOMAIN st /\ i # Len(st)
    BY <1>2 DEF Sound
  <2>2. st[i].kind \in Unplaced => st[i].label # k
    BY <1>2, <2>1 DEF Sound, LabelsDiffer
  <2>3. st[i].kind = "dest" => st[i].label # k
    <3>1. CASE st[i].kind = "dest"
      <4>1. g[st[i].label] = st[i].ref /\ st[i].ref \in 1..(Len(c) + 1)
        BY <2>1, <3>1 DEF ItemIsOpen
      <4> QED BY <4>1, <1>3, <1>6
    <3> QED BY <3>1
  <2>4. st[i].kind = "do" => st[i].label + 1 # k
    <3>1. CASE st[i].kind = "do"
      <4>1. g[st[i].label + 1] = st[i].ref /\ st[i].ref \in 1..(Len(c) + 1)
        BY <2>1, <3>1 DEF ItemIsOpen, Searching
      <4> QED BY <4>1, <1>3, <1>6
    <3> QED BY <3>1
  <2>5. st[i].kind \in {"orig", "of"} => c2[st[i].ref] = c[st[i].ref]
    <3>1. CASE st[i].kind \in {"orig", "of"}
      <4>1. st[i].ref \in DOMAIN c /\ c[st[i].ref].by = st[i].label
        BY <2>1, <3>1 DEF ItemIsOpen
      <4>2. c[st[i].ref].by # k
        BY <4>1, <2>2, <3>1 DEF Unplaced
      <4> QED BY <4>1, <4>2, <1>6
    <3> QED BY <3>1
  <2>6. \A l \in 1..Len(g) : l # k => g2[l] = g[l]
    BY <1>5
  <2>7. CASE st[i].kind \in Unplaced \cup {"dest"}
    <3>1. \A a \in 1..Len(c) : a = st[i].ref /\ st[i].kind \in {"orig", "of"} => c2[a] = c[a]
      BY <2>5
    <3>2. \A l \in 1..Len(g) : l = st[i].label \/ (l = st[i].label + 1 /\ st[i].kind = "do") => g2[l] = g[l]
      BY <2>2, <2>3, <2>4, <2>6, <2>7
    <3> QED BY <2>1, <3>1, <3>2, <1>5, <1>6, ItemStaysOpen
  <2>8. CASE st[i].kind \notin Unplaced \cup {"dest"}
    BY <2>1, <2>8 DEF ItemIsOpen, Unplaced, Searching
  <2> QED BY <2>7, <2>8
<1>8. LabelsDiffer(st2)
  BY <1>2 DEF Sound, LabelsDiffer
<1>9. ASSUME NEW a \in DOMAIN c2 PROVE CellIsOwned(c2, st2, g2, a)
  <2>1. CellIsOwned(c, st, g, a) /\ a \in 1..Len(c)
    BY <1>6 DEF Sound
  <2>2. CASE c[a].by = k
    <3>1. c2[a] = To(place, k)
      BY <2>1, <2>2
    <3>2. c2[a].op = "to" /\ c2[a].at = place /\ c2[a].by = k
      BY <3>1 DEF To
    <3>3. k \in 0..Len(g2)
      BY <1>4, <1>5
    <3> QED BY <3>2, <3>3, <1>5 DEF CellIsOwned, Stale
  <2>3. CASE c[a].by # k
    <3>1. c2[a] = c[a]
      BY <2>1, <2>3
    <3>2. ASSUME NEW i \in DOMAIN st, Owns(c, st, i, a) PROVE i \in DOMAIN st2 /\ Owns(c2, st2, i, a)
      <4>1. i # Len(st)
        BY <3>2, <2>3 DEF Owns
      <4>2. i \in DOMAIN st2
        BY <4>1, <1>1, <1>2
      <4>3. Len(st2) <= Len(st)
        BY <1>1
      <4> QED BY <4>2, <4>3, <3>1, <3>2, <1>1, OwnerStays
    <3>3. \A l \in 1..Len(g) : l = c[a].by => g2[l] = g[l]
      BY <2>3, <1>5
    <3> QED BY <2>1, <3>1, <3>2, <3>3, <1>5, <1>6, CellStaysOwned
  <2> QED BY <2>2, <2>3
<1>10. Sound(c2, st2, g2)
  BY <1>7, <1>8, <1>9 DEF Sound
<1> QED BY <1>1, <1>5, <1>10 DEF st2, g2

\* Only the cell that is patched has the label of its item.
LEMMA PatchIsSound ==
  ASSUME NEW c \in Seq(Cell), NEW st \in Seq(Item), NEW g \in Seq(Nat), Sound(c, st, g),
         Len(st) > 0, st[Len(st)].kind \in {"orig", "of"}
  PROVE  LET st2 == SubSeq(st, 1, Len(st) - 1)
             g2 == [g EXCEPT ![st[Len(st)].label] = Len(c) + 1]
             c2 == Patch(c, st[Len(st)].ref)
         IN  c2 \in Seq(Cell) /\ Len(c2) = Len(c) /\ st2 \in Seq(Item) /\ g2 \in Seq(Nat) /\ Sound(c2, st2, g2)
<1> DEFINE top == st[Len(st)]
           k == top.label
           c2 == Patch(c, top.ref)
<1>1. Len(c) \in Nat /\ Len(st) \in DOMAIN st /\ DOMAIN c = 1..Len(c) /\ Len(g) \in Nat /\ DOMAIN g = 1..Len(g)
  OBVIOUS
<1>2. /\ top.ref \in DOMAIN c /\ c[top.ref].by = k /\ k \in DOMAIN g /\ g[k] = 0
  BY <1>1 DEF Sound, ItemIsOpen, Unplaced
<1>3. \A a \in DOMAIN c : c[a].by = k => a = top.ref
  <2> SUFFICES ASSUME NEW a \in DOMAIN c, c[a].by = k PROVE a = top.ref
    OBVIOUS
  <2>1. CellIsOwned(c, st, g, a) /\ k # 0
    BY <1>1, <1>2 DEF Sound
  <2>2. PICK i \in DOMAIN st : Owns(c, st, i, a)
    BY <2>1, <1>2 DEF CellIsOwned
  <2>3. i = Len(st)
    BY <2>2, <1>1 DEF Sound, LabelsDiffer, Owns, Unplaced
  <2> QED BY <2>2, <2>3 DEF Owns
<1>4. To(Len(c) + 1, k) \in Cell
  BY <1>1, <1>2, CellsOfWords
<1>5. /\ c2 \in Seq(Cell) /\ Len(c2) = Len(c)
      /\ \A a \in DOMAIN c : c2[a] = IF a = top.ref THEN To(Len(c) + 1, k) ELSE c[a]
  BY <1>1, <1>2, <1>4 DEF Patch
<1> HIDE DEF c2
<1>6. \A a \in 1..Len(c) : IF c[a].by = k THEN c2[a] = To(Len(c) + 1, c[a].by) ELSE c2[a] = c[a]
  BY <1>1, <1>2, <1>3, <1>5
<1>7. Len(c) + 1 \in Nat \ {0} /\ top.kind \in Unplaced
  BY <1>1 DEF Unplaced
<1> QED BY <1>5, <1>6, <1>7, EndIsSound DEF c2

\* The search finds the branches of the structure that is closed, and no others.
LEMMA ResolveIsSound ==
  ASSUME NEW c \in Seq(Cell), NEW st \in Seq(Item), NEW g \in Seq(Nat), Sound(c, st, g),
         Len(st) > 0, st[Len(st)].kind \in Searching
  PROVE  LET st2 == SubSeq(st, 1, Len(st) - 1)
             g2 == [g EXCEPT ![st[Len(st)].label] = Len(c) + 1]
             c2 == Resolve(c, st[Len(st)].ref)
         IN  c2 \in Seq(Cell) /\ Len(c2) = Len(c) /\ st2 \in Seq(Item) /\ g2 \in Seq(Nat) /\ Sound(c2, st2, g2)
<1> DEFINE top == st[Len(st)]
           k == top.label
           c2 == Resolve(c, top.ref)
<1>1. Len(c) \in Nat /\ Len(st) \in DOMAIN st /\ DOMAIN c = 1..Len(c) /\ Len(g) \in Nat /\ DOMAIN g = 1..Len(g)
      /\ Len(st) \in Nat /\ DOMAIN st = 1..Len(st)
  OBVIOUS
<1>2. k \in DOMAIN g /\ g[k] = 0
  BY <1>1 DEF Sound, ItemIsOpen, Searching, Unplaced
<1>3. \A a \in DOMAIN c : (a >= top.ref /\ c[a].op = "sentinel" => c[a].by = k)
                          /\ (c[a].by = k => a >= top.ref /\ c[a].op = "sentinel")
  <2> SUFFICES ASSUME NEW a \in DOMAIN c
               PROVE  /\ a >= top.ref /\ c[a].op = "sentinel" => c[a].by = k
                      /\ c[a].by = k => a >= top.ref /\ c[a].op = "sentinel"
    OBVIOUS
  <2>1. CellIsOwned(c, st, g, a)
    BY DEF Sound
  <2>2. ASSUME NEW i \in DOMAIN st, Owns(c, st, i, a), c[a].by = k PROVE a >= top.ref /\ c[a].op = "sentinel"
    <3>1. i = Len(st)
      BY <2>2, <1>1 DEF Sound, LabelsDiffer, Owns, Searching, Unplaced
    <3> QED BY <3>1, <2>2 DEF Owns
  <2>3. ASSUME NEW i \in DOMAIN st, Owns(c, st, i, a), a >= top.ref PROVE c[a].by = k
    <3>1. CASE i = Len(st)
      BY <3>1, <2>3 DEF Owns
    <3>2. CASE i # Len(st)
      <4>1. Len(st) \in (i + 1)..Len(st)
        BY <3>2, <1>1
      <4>2. a < top.ref
        BY <4>1, <2>3 DEF Owns
      <4>3. top \in Item
        BY <1>1
      <4> QED BY <4>2, <4>3, <2>3, <1>1 DEF Item
    <3> QED BY <3>1, <3>2
  <2>4. ASSUME c[a].by = k PROVE a >= top.ref /\ c[a].op = "sentinel"
    <3>1. k # 0
      BY <1>1, <1>2
    <3> QED BY <3>1, <2>1, <2>2, <2>4, <1>2 DEF CellIsOwned
  <2>5. ASSUME a >= top.ref, c[a].op = "sentinel" PROVE c[a].by = k
    <3>1. c[a].by # 0 /\ g[c[a].by] = 0
      BY <2>1, <2>5 DEF CellIsOwned, Stale
    <3> QED BY <3>1, <2>1, <2>3, <2>5 DEF CellIsOwned
  <2> QED BY <2>4, <2>5
<1>4. \A a \in DOMAIN c : To(Len(c) + 1, c[a].by) \in Cell
  <2>0. \A a \in DOMAIN c : c[a] \in Cell
    OBVIOUS
  <2>1. \A a \in DOMAIN c : c[a].by \in Nat
    BY <2>0 DEF Cell
  <2> QED BY <2>1, <1>1, CellsOfWords
<1>5. /\ Len(c2) = Len(c) /\ DOMAIN c2 = DOMAIN c
      /\ \A a \in DOMAIN c : c2[a] = IF c[a].by = k THEN To(Len(c) + 1, c[a].by) ELSE c[a]
  BY <1>1, <1>3 DEF Resolve
<1>6. c2 \in Seq(Cell)
  BY <1>1, <1>4, <1>5 DEF Resolve
<1> HIDE DEF c2
<1>7. \A a \in 1..Len(c) : IF c[a].by = k THEN c2[a] = To(Len(c) + 1, c[a].by) ELSE c2[a] = c[a]
  BY <1>1, <1>5
<1>8. Len(c) + 1 \in Nat \ {0} /\ top.kind \in Unplaced
  BY <1>1 DEF Unplaced, Searching
<1> QED BY <1>5, <1>6, <1>7, <1>8, EndIsSound DEF c2

-----------------------------------------------------------------------------
\* A stack is its top items on those below them.
LEMMA TopItem ==
  ASSUME NEW st \in Seq(Item), Len(st) >= 1
  PROVE  /\ SubSeq(st, 1, Len(st) - 1) \in Seq(Item) /\ st[Len(st)] \in Item
         /\ st = Append(SubSeq(st, 1, Len(st) - 1), st[Len(st)])
<1> DEFINE t == SubSeq(st, 1, Len(st) - 1)
<1>1. /\ t \in Seq(Item) /\ Len(t) = Len(st) - 1 /\ Len(st) \in Nat /\ \A i \in 1..Len(t) : t[i] = st[i]
  BY Popped
<1> HIDE DEF t
<1>2. st[Len(st)] \in Item
  BY <1>1
<1>3. Append(t, st[Len(st)]) \in Seq(Item) /\ Len(Append(t, st[Len(st)])) = Len(st)
  BY <1>1, <1>2
<1>4. \A i \in 1..Len(st) : Append(t, st[Len(st)])[i] = st[i]
  BY <1>1, <1>2
<1>5. st = Append(t, st[Len(st)])
  BY <1>3, <1>4, SeqEqual
<1> QED BY <1>1, <1>2, <1>5 DEF t

\* What an item that is put on a stack leaves below it.
LEMMA ItemsBelow ==
  ASSUME NEW t \in Seq(Item), NEW x \in Item
  PROVE  LET st == Append(t, x)
         IN  st \in Seq(Item) /\ Len(st) = Len(t) + 1 /\ st[Len(st)] = x /\ SubSeq(st, 1, Len(st) - 1) = t
<1> DEFINE st == Append(t, x)
<1>1. st \in Seq(Item) /\ Len(st) = Len(t) + 1 /\ Len(t) \in Nat /\ st[Len(t) + 1] = x
      /\ \A i \in 1..Len(t) : st[i] = t[i]
  OBVIOUS
<1> HIDE DEF st
<1>2. Len(st) > 0
  BY <1>1
<1>3. /\ SubSeq(st, 1, Len(st) - 1) \in Seq(Item) /\ Len(SubSeq(st, 1, Len(st) - 1)) = Len(st) - 1
      /\ \A i \in 1..Len(SubSeq(st, 1, Len(st) - 1)) : SubSeq(st, 1, Len(st) - 1)[i] = st[i]
  BY <1>1, <1>2, Popped
<1>4. SubSeq(st, 1, Len(st) - 1) = t
  BY <1>1, <1>3, SeqEqual
<1> QED BY <1>1, <1>4 DEF st

\* The same for the two items on top.
LEMMA TwoTopItems ==
  ASSUME NEW st \in Seq(Item), Len(st) >= 2
  PROVE  LET t == SubSeq(st, 1, Len(st) - 2)
         IN  /\ t \in Seq(Item) /\ st[Len(st) - 1] \in Item /\ st[Len(st)] \in Item
             /\ st = Append(Append(t, st[Len(st) - 1]), st[Len(st)])
<1> DEFINE t == SubSeq(st, 1, Len(st) - 2)
           u == SubSeq(st, 1, Len(st) - 1)
<1>1. /\ u \in Seq(Item) /\ Len(u) = Len(st) - 1 /\ Len(st) \in Nat /\ \A i \in 1..Len(u) : u[i] = st[i]
  BY Popped
<1>2. /\ Len(u) >= 1 /\ Len(u) \in 1..Len(st) /\ Len(u) > 0
      /\ Len(st) - 2 \in Nat /\ Len(st) - 2 = Len(u) - 1
  BY <1>1
<1>3. st[Len(st) - 1] \in Item /\ st[Len(st)] \in Item /\ u[Len(u)] = st[Len(st) - 1]
  BY <1>1, <1>2
<1>4. st = Append(u, st[Len(st)])
  BY TopItem
<1>5. u = Append(SubSeq(u, 1, Len(u) - 1), u[Len(u)])
  BY <1>1, <1>2, TopItem
<1>6. SubSeq(u, 1, Len(u) - 1) = t /\ t \in Seq(Item)
  <2>0. PICK m \in Nat : m = Len(st) - 2 /\ m = Len(u) - 1
    BY <1>1, <1>2
  <2>1. /\ SubSeq(u, 1, m) \in Seq(Item) /\ Len(SubSeq(u, 1, m)) = m
        /\ \A i \in 1..m : SubSeq(u, 1, m)[i] = u[i]
    BY <1>1, <1>2, <2>0, Popped
  <2>2. 1 \in Int /\ m \in Int /\ 1 <= m + 1 /\ m <= Len(st) /\ \A i \in 1..m : st[i] \in Item
    BY <2>0, <1>1
  <2>3. SubSeq(st, 1, m) \in Seq(Item)
    BY <2>2, SubSeqProperties
  <2>4. Len(SubSeq(st, 1, m)) = m
    BY <2>0, <2>2, SubSeqProperties
  <2>5. \A i \in 1..m : SubSeq(st, 1, m)[i] = st[i]
    BY <2>0, <2>2, SubSeqProperties
  <2>6. \A i \in 1..m : u[i] = st[i]
    BY <2>0, <1>1
  <2>7. SubSeq(u, 1, m) = SubSeq(st, 1, m)
    BY <2>1, <2>3, <2>4, <2>5, <2>6, SeqEqual
  <2> QED BY <2>0, <2>3, <2>7
<1> QED BY <1>3, <1>4, <1>5, <1>6

\* What is compiled last comes after the rest.
LEMMA LastCell ==
  ASSUME NEW c \in Seq(Cell), NEW d \in Seq(Cell), NEW x \in Cell
  PROVE  c \o Append(d, x) = Append(c \o d, x)
OBVIOUS

\* The lemmas on items, for the item that is put on a stack.
LEMMA TakenOff ==
  ASSUME NEW c \in Seq(Cell), NEW t \in Seq(Item), NEW x \in Item, NEW g \in Seq(Nat), Sound(c, Append(t, x), g)
  PROVE  /\ x.kind \notin Unplaced => Sound(c, t, g)
         /\ x.kind \in {"orig", "of"} =>
              /\ Patch(c, x.ref) \in Seq(Cell) /\ Len(Patch(c, x.ref)) = Len(c)
              /\ [g EXCEPT ![x.label] = Len(c) + 1] \in Seq(Nat)
              /\ Sound(Patch(c, x.ref), t, [g EXCEPT ![x.label] = Len(c) + 1])
         /\ x.kind \in Searching =>
              /\ Resolve(c, x.ref) \in Seq(Cell) /\ Len(Resolve(c, x.ref)) = Len(c)
              /\ [g EXCEPT ![x.label] = Len(c) + 1] \in Seq(Nat)
              /\ Sound(Resolve(c, x.ref), t, [g EXCEPT ![x.label] = Len(c) + 1])
<1> DEFINE st == Append(t, x)
<1>1. st \in Seq(Item) /\ Len(st) = Len(t) + 1 /\ st[Len(st)] = x /\ SubSeq(st, 1, Len(st) - 1) = t /\ Len(t) \in Nat
  BY ItemsBelow
<1>2. Sound(c, st, g)
  OBVIOUS
<1> HIDE DEF st
<1>3. Len(st) > 0
  BY <1>1
<1>4. x.kind \notin Unplaced => Sound(c, t, g)
  BY <1>1, <1>2, <1>3, PopIsSound
<1>5. x.kind \in {"orig", "of"} =>
              /\ Patch(c, x.ref) \in Seq(Cell) /\ Len(Patch(c, x.ref)) = Len(c)
              /\ [g EXCEPT ![x.label] = Len(c) + 1] \in Seq(Nat)
              /\ Sound(Patch(c, x.ref), t, [g EXCEPT ![x.label] = Len(c) + 1])
  BY <1>1, <1>2, <1>3, PatchIsSound
<1>6. x.kind \in Searching =>
              /\ Resolve(c, x.ref) \in Seq(Cell) /\ Len(Resolve(c, x.ref)) = Len(c)
              /\ [g EXCEPT ![x.label] = Len(c) + 1] \in Seq(Nat)
              /\ Sound(Resolve(c, x.ref), t, [g EXCEPT ![x.label] = Len(c) + 1])
  BY <1>1, <1>2, <1>3, ResolveIsSound
<1> QED BY <1>4, <1>5, <1>6

-----------------------------------------------------------------------------
\* A mark is on top of the item it belongs to.
MarkMatches(st, i) ==
  /\ st[i].kind = "CASE" => i > 1 /\ st[i - 1].kind = "case"
  /\ st[i].kind = "OF"   => i > 3 /\ st[i - 1].kind = "of" /\ st[i - 2].kind = "CASE"
  /\ st[i].kind = "case" => i < Len(st) /\ st[i + 1].kind = "CASE"
  /\ st[i].kind = "of"   => i < Len(st) /\ st[i + 1].kind = "OF"

MarksMatch(st) == \A i \in DOMAIN st : MarkMatches(st, i)

Unmarked == {"orig", "dest", "do"}

\* Items without a mark change nothing for those that have one.
LEMMA UnmarkedItems ==
  ASSUME NEW t \in Seq(Item), NEW x \in Item, x.kind \in Unmarked
  PROVE  MarksMatch(Append(t, x)) <=> MarksMatch(t)
<1> DEFINE st == Append(t, x)
<1>1. st \in Seq(Item) /\ Len(st) = Len(t) + 1 /\ Len(t) \in Nat /\ st[Len(t) + 1] = x
      /\ (\A i \in 1..Len(t) : st[i] = t[i]) /\ DOMAIN st = 1..(Len(t) + 1) /\ DOMAIN t = 1..Len(t)
  OBVIOUS
<1> HIDE DEF st
<1>2. x.kind \notin {"CASE", "OF", "case", "of"}
  BY DEF Unmarked
<1>3. ASSUME MarksMatch(t), NEW i \in DOMAIN st PROVE MarkMatches(st, i)
  <2>1. CASE i = Len(t) + 1
    BY <2>1, <1>1, <1>2 DEF MarkMatches
  <2>2. CASE i \in 1..Len(t)
    <3>1. MarkMatches(t, i) /\ st[i] = t[i]
      BY <2>2, <1>1, <1>3 DEF MarksMatch
    <3>2. i > 1 => st[i - 1] = t[i - 1]
      BY <2>2, <1>1
    <3>3. i > 3 => st[i - 2] = t[i - 2]
      BY <2>2, <1>1
    <3>4. i < Len(t) => st[i + 1] = t[i + 1] /\ i < Len(st)
      BY <2>2, <1>1
    <3>5. st[i].kind = "CASE" => i > 1 /\ st[i - 1].kind = "case"
      BY <3>1, <3>2 DEF MarkMatches
    <3>6. st[i].kind = "OF" => i > 3 /\ st[i - 1].kind = "of" /\ st[i - 2].kind = "CASE"
      <4>1. i > 3 => i > 1
        BY <2>2, <1>1
      <4> QED BY <4>1, <3>1, <3>2, <3>3 DEF MarkMatches
    <3>7. /\ st[i].kind = "case" => i < Len(st) /\ st[i + 1].kind = "CASE"
          /\ st[i].kind = "of"   => i < Len(st) /\ st[i + 1].kind = "OF"
      BY <3>1, <3>4 DEF MarkMatches
    <3> QED BY <3>5, <3>6, <3>7 DEF MarkMatches
  <2> QED BY <2>1, <2>2, <1>1
<1>4. ASSUME MarksMatch(st), NEW i \in DOMAIN t PROVE MarkMatches(t, i)
  <2>1. MarkMatches(st, i) /\ st[i] = t[i] /\ i \in 1..Len(t)
    BY <1>1, <1>4 DEF MarksMatch
  <2>2. i > 1 => st[i - 1] = t[i - 1]
    BY <2>1, <1>1
  <2>3. i > 3 => st[i - 2] = t[i - 2]
    BY <2>1, <1>1
  <2>4. st[i + 1].kind \in {"CASE", "OF"} => i < Len(t) /\ st[i + 1] = t[i + 1]
    BY <2>1, <1>1, <1>2
  <2> QED BY <2>1, <2>2, <2>3, <2>4 DEF MarkMatches
<1>5. MarksMatch(t) => MarksMatch(st)
  BY <1>3 DEF MarksMatch
<1>6. MarksMatch(st) => MarksMatch(t)
  BY <1>4 DEF MarksMatch
<1> QED BY <1>5, <1>6 DEF st

\* CASE and OF put an item and its mark on the stack ...
LEMMA MarkedItems ==
  ASSUME NEW t \in Seq(Item), MarksMatch(t), NEW y \in Item, NEW x \in Item,
         \/ y.kind = "case" /\ x.kind = "CASE"
         \/ y.kind = "of" /\ x.kind = "OF" /\ Len(t) > 0 /\ t[Len(t)].kind = "CASE"
  PROVE  MarksMatch(Append(Append(t, y), x))
<1> DEFINE st == Append(Append(t, y), x)
           m == Len(t)
<1>1. st \in Seq(Item) /\ Len(st) = m + 2 /\ m \in Nat /\ st[m + 1] = y /\ st[m + 2] = x
      /\ (\A i \in 1..m : st[i] = t[i]) /\ DOMAIN st = 1..(m + 2) /\ DOMAIN t = 1..m
  OBVIOUS
<1> HIDE DEF st
<1> SUFFICES ASSUME NEW i \in DOMAIN st PROVE MarkMatches(st, i)
  BY DEF MarksMatch, st
<1>2. CASE i \in 1..m
  <2>1. MarkMatches(t, i) /\ st[i] = t[i]
    BY <1>1, <1>2 DEF MarksMatch
  <2>2. i > 1 => st[i - 1] = t[i - 1]
    BY <1>1, <1>2
  <2>3. i > 3 => st[i - 2] = t[i - 2] /\ i > 1
    BY <1>1, <1>2
  <2>4. i < m => st[i + 1] = t[i + 1] /\ i < Len(st)
    BY <1>1, <1>2
  <2>5. st[i].kind = "CASE" => i > 1 /\ st[i - 1].kind = "case"
    BY <2>1, <2>2 DEF MarkMatches
  <2>6. st[i].kind = "OF" => i > 3 /\ st[i - 1].kind = "of" /\ st[i - 2].kind = "CASE"
    BY <2>1, <2>2, <2>3 DEF MarkMatches
  <2>7. /\ st[i].kind = "case" => i < Len(st) /\ st[i + 1].kind = "CASE"
        /\ st[i].kind = "of"   => i < Len(st) /\ st[i + 1].kind = "OF"
    BY <2>1, <2>4 DEF MarkMatches
  <2> QED BY <2>5, <2>6, <2>7 DEF MarkMatches
<1>3. CASE i = m + 1
  <2>1. st[i] = y /\ st[i + 1] = x /\ i < Len(st)
    BY <1>1, <1>3
  <2> QED BY <2>1 DEF MarkMatches
<1>4. CASE i = m + 2
  <2>1. st[i] = x /\ st[i - 1] = y /\ i > 1
    BY <1>1, <1>4
  <2>2. CASE x.kind = "CASE"
    BY <2>1, <2>2 DEF MarkMatches
  <2>3. CASE x.kind = "OF"
    <3>1. m > 0 /\ t[m].kind = "CASE" /\ m \in DOMAIN t
      BY <2>3, <1>1
    <3>2. m > 1
      BY <3>1 DEF MarksMatch, MarkMatches
    <3>3. i > 3 /\ st[i - 2] = t[m]
      BY <3>1, <3>2, <1>1, <1>4
    <3> QED BY <2>1, <2>3, <3>1, <3>3 DEF MarkMatches
  <2> QED BY <2>2, <2>3
<1> QED BY <1>1, <1>2, <1>3, <1>4

\* ... and ENDCASE and ENDOF find them there.
LEMMA MarksAreFound ==
  ASSUME NEW t \in Seq(Item), NEW y \in Item, NEW x \in Item, MarksMatch(Append(Append(t, y), x)),
         x.kind \in {"CASE", "OF"}
  PROVE  /\ x.kind = "CASE" => y.kind = "case"
         /\ x.kind = "OF" => y.kind = "of" /\ Len(t) >= 2 /\ t[Len(t)].kind = "CASE" /\ t[Len(t) - 1].kind = "case"
         /\ MarksMatch(t)
<1> DEFINE st == Append(Append(t, y), x)
           m == Len(t)
<1>1. st \in Seq(Item) /\ Len(st) = m + 2 /\ m \in Nat /\ st[m + 1] = y /\ st[m + 2] = x
      /\ (\A i \in 1..m : st[i] = t[i]) /\ DOMAIN st = 1..(m + 2) /\ DOMAIN t = 1..m
  OBVIOUS
<1>2. MarksMatch(st)
  OBVIOUS
<1> HIDE DEF st
<1>3. MarkMatches(st, m + 2) /\ m + 2 - 1 = m + 1 /\ m + 2 - 2 = m
  BY <1>1, <1>2 DEF MarksMatch
<1>4. /\ x.kind = "CASE" => y.kind = "case"
      /\ x.kind = "OF" => y.kind = "of" /\ m + 2 > 3 /\ st[m].kind = "CASE"
  BY <1>1, <1>3 DEF MarkMatches
<1>5. x.kind = "OF" => m >= 2 /\ t[m].kind = "CASE" /\ t[m - 1].kind = "case"
  <2> SUFFICES ASSUME x.kind = "OF" PROVE m >= 2 /\ t[m].kind = "CASE" /\ t[m - 1].kind = "case"
    OBVIOUS
  <2>1. m >= 2 /\ m \in DOMAIN st /\ st[m] = t[m] /\ st[m - 1] = t[m - 1]
    BY <1>1, <1>4
  <2>2. MarkMatches(st, m)
    BY <2>1, <1>2 DEF MarksMatch
  <2>3. st[m - 1].kind = "case"
    BY <2>1, <2>2, <1>4 DEF MarkMatches
  <2> QED BY <2>1, <2>3, <1>4
<1>6. ASSUME NEW i \in DOMAIN t PROVE MarkMatches(t, i)
  <2>1. MarkMatches(st, i) /\ st[i] = t[i] /\ i \in 1..m
    BY <1>1, <1>2 DEF MarksMatch
  <2>2. i > 1 => st[i - 1] = t[i - 1]
    BY <2>1, <1>1
  <2>3. i > 3 => st[i - 2] = t[i - 2] /\ i > 1
    BY <2>1, <1>1
  <2>4. st[m + 1].kind \notin {"CASE", "OF"}
    BY <1>1, <1>4
  <2>5. st[i + 1].kind \in {"CASE", "OF"} => i < m /\ st[i + 1] = t[i + 1]
    BY <2>1, <2>4, <1>1
  <2>6. st[i].kind = "CASE" => i > 1 /\ t[i - 1].kind = "case"
    BY <2>1, <2>2 DEF MarkMatches
  <2>7. st[i].kind = "OF" => i > 3 /\ t[i - 1].kind = "of" /\ t[i - 2].kind = "CASE"
    BY <2>1, <2>2, <2>3 DEF MarkMatches
  <2>8. /\ st[i].kind = "case" => i < m /\ t[i + 1].kind = "CASE"
        /\ st[i].kind = "of"   => i < m /\ t[i + 1].kind = "OF"
    BY <2>1, <2>5 DEF MarkMatches
  <2> QED BY <2>1, <2>6, <2>7, <2>8 DEF MarkMatches
<1> QED BY <1>4, <1>5, <1>6 DEF MarksMatch

\* A branch whose operand is not known yet, after cells of any kind.
LEMMA OpenCells ==
  ASSUME NEW c \in Seq(Cell), NEW d \in Seq(Cell), NEW raw \in Stale, NEW k \in Nat
  PROVE  /\ c \o Append(d, Open(raw, k)) \in Seq(Cell)
         /\ Len(c \o Append(d, Open(raw, k))) = Len(c) + Len(d) + 1
<1>1. Open(raw, k) \in Cell
  BY CellsOfWords
<1> HIDE DEF Cell
<1> QED BY <1>1

\* CellsOfWords of no structure, then a branch whose operand is pushed.
LEMMA BranchIsSound ==
  ASSUME NEW c \in Seq(Cell), NEW st \in Seq(Item), NEW g \in Seq(Nat), Sound(c, st, g),
         NEW d \in Seq(Cell), \A b \in 1..Len(d) : d[b].by = 0 /\ d[b].op \notin Stale,
         NEW raw \in Stale, NEW c2, c2 = c \o Append(d, Open(raw, Len(g) + 1)),
         NEW item \in Item,
         item.kind \in {"orig", "of"}, item.ref = Len(c) + Len(d) + 1, item.label = Len(g) + 1
  PROVE  /\ c2 \in Seq(Cell) /\ Len(c2) = Len(c) + Len(d) + 1
         /\ Append(st, item) \in Seq(Item) /\ Append(g, 0) \in Seq(Nat)
         /\ Sound(c2, Append(st, item), Append(g, 0))
<1> DEFINE e == c \o d
           x == Open(raw, Len(g) + 1)
<1>1. e \in Seq(Cell) /\ Len(e) = Len(c) + Len(d) /\ Sound(e, st, g)
  BY PlainIsSound
<1>2. Len(g) + 1 \in Nat /\ Len(c) \in Nat /\ Len(d) \in Nat
  OBVIOUS
<1>3. x \in Cell
  BY <1>2, CellsOfWords
<1>4. c2 = Append(e, x)
  BY <1>3, LastCell
<1>6. item.ref = Len(e) + 1
  BY <1>1
<1> HIDE DEF e
<1>7. /\ Append(e, x) \in Seq(Cell) /\ Append(st, item) \in Seq(Item) /\ Append(g, 0) \in Seq(Nat)
      /\ Sound(Append(e, x), Append(st, item), Append(g, 0))
  BY <1>1, <1>6, ForwardIsSound
<1>8. Len(Append(e, x)) = Len(c) + Len(d) + 1
  BY <1>1, <1>2, <1>3
<1> QED BY <1>4, <1>7, <1>8

-----------------------------------------------------------------------------
\* The inductive invariant.
Structured ==
  /\ ControlTypeOK /\ BranchesBelong /\ FinishedIsResolved
  /\ state = "open" => Sound(code, items, goal) /\ MarksMatch(items)

\* A word that throws cancels the definition, with the structures in it.
LEMMA RefusedKeeps == Refused => Structured'
<1> SUFFICES ASSUME Refused PROVE Structured'
  OBVIOUS
<1>1. state' = "none" /\ code' = <<>> /\ items' = <<>> /\ goal' = <<>> /\ words' = 0
  BY DEF Refused, Empty
<1>2. ControlTypeOK'
  BY <1>1, SizeAssumption DEF ControlTypeOK, n
<1>3. BranchesBelong' /\ FinishedIsResolved'
  BY <1>1 DEF BranchesBelong, FinishedIsResolved
<1> QED BY <1>1, <1>2, <1>3 DEF Structured

\* A word keeps the invariant if what it compiles, pushes and places is sound.
LEMMA CompiledKeeps ==
  ASSUME Structured, Compiling, NEW c \in Seq(Cell), NEW st \in Seq(Item), NEW g \in Seq(Nat), Compiled(c, st, g),
         Sound(c, st, g), MarksMatch(st), Len(st) <= MaxDepth
  PROVE  Structured'
<1>1. state = "open" /\ state' = "open" /\ code' = c /\ items' = st /\ goal' = g /\ words' = words + 1
  BY DEF Compiling, Compiled
<1>2. words \in 0..MaxWords /\ words < MaxWords /\ MaxWords \in Nat
  BY SizeAssumption DEF Structured, ControlTypeOK, Compiling
<1>3. words' \in 0..MaxWords
  BY <1>1, <1>2
<1>4. ControlTypeOK'
  BY <1>1, <1>3 DEF ControlTypeOK, n
<1>5. BranchesBelong'
  <2> SUFFICES ASSUME NEW a \in DOMAIN c, c[a].by # 0
               PROVE  IF g[c[a].by] = 0 THEN c[a].op # "to" ELSE c[a].op = "to" /\ c[a].at = g[c[a].by]
    BY <1>1 DEF BranchesBelong
  <2>1. CellIsOwned(c, st, g, a)
    BY DEF Sound
  <2> QED BY <2>1 DEF CellIsOwned, Owns, Stale
<1>6. FinishedIsResolved'
  BY <1>1 DEF FinishedIsResolved
<1> QED BY <1>1, <1>4, <1>5, <1>6 DEF Structured

\* What a word of an open definition begins with.
LEMMA WordBegins ==
  ASSUME Structured, Compiling
  PROVE  /\ code \in Seq(Cell) /\ items \in Seq(Item) /\ goal \in Seq(Nat)
         /\ Sound(code, items, goal) /\ MarksMatch(items)
         /\ n = Len(items) /\ n \in Nat /\ n <= MaxDepth /\ MaxDepth \in Nat
         /\ here = Len(code) + 1 /\ label = Len(goal) + 1 /\ Len(code) \in Nat /\ Len(goal) \in Nat
         /\ here \in Nat /\ label \in Nat
BY SizeAssumption DEF Structured, Compiling, ControlTypeOK, n, here, label

\* A tuple grows by its last item.
LEMMA PairOf == \A x, y : <<x, y>> = Append(<<x>>, y)
OBVIOUS

\* What IF, ELSE and WHILE compile, with the item they push.
LEMMA ForwardBranch ==
  ASSUME Structured, Compiling, NEW o \in {"branch", "branch0"}, NEW raw \in Stale
  PROVE  LET c == code \o <<Op(o), Open(raw, label)>>
         IN  /\ c \in Seq(Cell) /\ Len(c) = Len(code) + 2 /\ Append(goal, 0) \in Seq(Nat)
             /\ Orig(here + 1) \in Item /\ Orig(here + 1).kind = "orig"
             /\ Sound(c, Append(items, Orig(here + 1)), Append(goal, 0))
<1>1. /\ code \in Seq(Cell) /\ items \in Seq(Item) /\ goal \in Seq(Nat)
      /\ Sound(code, items, goal)
      /\ here = Len(code) + 1 /\ label = Len(goal) + 1 /\ Len(code) \in Nat /\ Len(goal) \in Nat
      /\ here \in Nat /\ label \in Nat
  BY WordBegins
<1> DEFINE d == <<Op(o)>>
           item == Orig(here + 1)
           c == code \o <<Op(o), Open(raw, label)>>
<1>2. d \in Seq(Cell) /\ Len(d) = 1 /\ \A b \in 1..Len(d) : d[b].by = 0 /\ d[b].op \notin Stale
  BY CellsOfWords DEF Ops, Stale
<1>3. c = code \o Append(d, Open(raw, Len(goal) + 1))
  BY <1>1, PairOf
<1>4. item \in Item /\ item.kind = "orig" /\ item.ref = Len(code) + Len(d) + 1 /\ item.label = Len(goal) + 1
  BY <1>1, <1>2 DEF Orig, Item
<1> HIDE DEF d, item, c
<1>5. c \in Seq(Cell) /\ Len(c) = Len(code) + 2
  <2>1. c \in Seq(Cell) /\ Len(c) = Len(code) + Len(d) + 1
    BY <1>1, <1>2, <1>3, OpenCells
  <2> QED BY <2>1, <1>1, <1>2
<1>6. Append(goal, 0) \in Seq(Nat)
  BY <1>1
<1>7. item.kind \in {"orig", "of"}
  BY <1>4
<1>8. Sound(c, Append(items, item), Append(goal, 0))
  BY <1>1, <1>2, <1>3, <1>4, <1>7, BranchIsSound
<1> QED BY <1>4, <1>5, <1>6, <1>8 DEF c, item

\* IF compiles a branch and pushes the address of its operand.
LEMMA IfKeeps == Structured /\ If => Structured'
<1> SUFFICES ASSUME Structured, If, ~Refused PROVE Structured'
  BY RefusedKeeps
<1> DEFINE st2 == Append(items, Orig(here + 1))
<1>1. PICK raw \in Stale : Compiling /\ Avail(1) /\ Compiled(Forward(raw), st2, Append(goal, 0))
  BY DEF If
<1>2. items \in Seq(Item) /\ MarksMatch(items) /\ n = Len(items) /\ n \in Nat
  BY <1>1, WordBegins
<1>3. /\ Forward(raw) \in Seq(Cell) /\ Append(goal, 0) \in Seq(Nat)
      /\ Orig(here + 1) \in Item /\ Orig(here + 1).kind = "orig" /\ Sound(Forward(raw), st2, Append(goal, 0))
  BY <1>1, ForwardBranch DEF Forward
<1>4. st2 \in Seq(Item) /\ Len(st2) <= MaxDepth
  BY <1>1, <1>2, <1>3 DEF Avail
<1>5. MarksMatch(st2)
  BY <1>2, <1>3, UnmarkedItems DEF Unmarked
<1> HIDE DEF st2
<1> QED BY <1>1, <1>3, <1>4, <1>5, CompiledKeeps

\* The items a word takes off.
LEMMA OneItem ==
  ASSUME Structured, Compiling, ~(n < 1)
  PROVE  /\ Drop(1) \in Seq(Item) /\ Top \in Item /\ items = Append(Drop(1), Top)
         /\ Len(Drop(1)) = n - 1 /\ Len(Drop(1)) <= MaxDepth
<1>1. items \in Seq(Item) /\ n = Len(items) /\ n \in Nat /\ n <= MaxDepth /\ MaxDepth \in Nat
  BY WordBegins
<1>2. Len(items) >= 1
  BY <1>1
<1>3. Drop(1) = SubSeq(items, 1, Len(items) - 1) /\ Top = items[Len(items)]
  BY <1>1 DEF Drop, Top
<1>4. Drop(1) \in Seq(Item) /\ Top \in Item /\ items = Append(Drop(1), Top)
  BY <1>1, <1>2, <1>3, TopItem
<1>5. Len(Append(Drop(1), Top)) = Len(Drop(1)) + 1 /\ Len(Drop(1)) \in Nat
  BY <1>4
<1>6. Len(Drop(1)) = n - 1
  BY <1>1, <1>4, <1>5
<1> QED BY <1>1, <1>4, <1>6

\* The two items that REPEAT, ENDOF and ENDCASE take off.
LEMMA TwoItems ==
  ASSUME Structured, Compiling, ~(n < 2)
  PROVE  /\ Drop(2) \in Seq(Item) /\ Below \in Item /\ Top \in Item
         /\ items = Append(Append(Drop(2), Below), Top)
         /\ Len(Drop(2)) = n - 2 /\ Len(Drop(2)) <= MaxDepth
<1>1. items \in Seq(Item) /\ n = Len(items) /\ n \in Nat /\ n <= MaxDepth /\ MaxDepth \in Nat
  BY WordBegins
<1>2. Len(items) >= 2
  BY <1>1
<1>3. Drop(2) = SubSeq(items, 1, Len(items) - 2) /\ Top = items[Len(items)] /\ Below = items[Len(items) - 1]
  BY <1>1 DEF Drop, Top, Below
<1>4. Drop(2) \in Seq(Item) /\ Below \in Item /\ Top \in Item /\ items = Append(Append(Drop(2), Below), Top)
  BY <1>1, <1>2, <1>3, TwoTopItems
<1>5. Len(Append(Append(Drop(2), Below), Top)) = Len(Drop(2)) + 2 /\ Len(Drop(2)) \in Nat
  BY <1>4
<1>6. Len(Drop(2)) = n - 2
  BY <1>1, <1>4, <1>5
<1> QED BY <1>1, <1>4, <1>6

\* Words are used where the items on top are those they are meant for.
LEMMA MeantForOne ==
  ASSUME Structured, Compiling, ~Mismatched, ~(n < 1), NEW kind, Meant(<<kind>>)
  PROVE  Top.kind = kind
<1>1. n \in Nat /\ Len(<<kind>>) = 1
  BY WordBegins
<1>2. SubSeq(Kinds, n + 1 - Len(<<kind>>), n) = <<kind>>
  BY DEF Meant
<1>3. n + 1 - Len(<<kind>>) = n /\ n \in 1..n
  BY <1>1
<1>4. SubSeq(Kinds, n, n) = <<kind>>
  BY <1>2, <1>3
<1>5. SubSeq(Kinds, n, n)[1] = Kinds[n]
  <2>1. n \in Int /\ \A i \in n..n : Kinds[i] \in {Kinds[n]}
    BY <1>1
  <2>2. 1 \in 1..(n - n + 1) /\ n + 1 - 1 = n
    BY <1>1
  <2> QED BY <2>1, <2>2, SubSeqProperties
<1>6. <<kind>>[1] = kind
  OBVIOUS
<1>7. Kinds[n] = Top.kind
  BY <1>3 DEF Kinds, Top
<1> QED BY <1>4, <1>5, <1>6, <1>7

\* The same for two items.
LEMMA MeantForTwo ==
  ASSUME Structured, Compiling, ~Mismatched, ~(n < 2), NEW kind, NEW kind2, Meant(<<kind, kind2>>)
  PROVE  Below.kind = kind /\ Top.kind = kind2
<1>1. n \in Nat /\ Len(<<kind, kind2>>) = 2
  BY WordBegins
<1>2. SubSeq(Kinds, n + 1 - Len(<<kind, kind2>>), n) = <<kind, kind2>>
  BY DEF Meant
<1>3. PICK m \in Int : m = n - 1
  BY <1>1
<1>4. n + 1 - Len(<<kind, kind2>>) = m /\ n \in 1..n /\ m \in 1..n /\ n - m + 1 = 2 /\ m + 1 - 1 = m /\ m + 2 - 1 = n
  BY <1>1, <1>3
<1>5. SubSeq(Kinds, m, n) = <<kind, kind2>>
  BY <1>2, <1>4
<1>6. SubSeq(Kinds, m, n)[1] = Kinds[m] /\ SubSeq(Kinds, m, n)[2] = Kinds[n]
  <2>1. n \in Int /\ \A i \in m..n : Kinds[i] \in {Kinds[m], Kinds[n]}
    BY <1>1, <1>3
  <2>2. 1 \in 1..(n - m + 1) /\ 2 \in 1..(n - m + 1)
    BY <1>4
  <2> QED BY <2>1, <2>2, <1>4, SubSeqProperties
<1>7. <<kind, kind2>>[1] = kind /\ <<kind, kind2>>[2] = kind2
  OBVIOUS
<1>8. Kinds[m] = Below.kind /\ Kinds[n] = Top.kind
  BY <1>3, <1>4 DEF Kinds, Top, Below
<1> QED BY <1>5, <1>6, <1>7, <1>8

\* THEN fills in the branch of its IF, ELSE or WHILE.
LEMMA ThenKeeps == ~Mismatched /\ Structured /\ Then => Structured'
<1> SUFFICES ASSUME ~Mismatched, Structured, Then, ~Refused PROVE Structured'
  BY RefusedKeeps
<1>1. Compiling /\ ~(n < 1) /\ Meant(<<"orig">>)
      /\ Compiled(Patch(code, Top.ref), Drop(1), [goal EXCEPT ![Top.label] = here])
  BY DEF Then
<1>2. /\ Drop(1) \in Seq(Item) /\ Top \in Item /\ items = Append(Drop(1), Top) /\ Len(Drop(1)) <= MaxDepth
  BY <1>1, OneItem
<1>3. Top.kind = "orig"
  BY <1>1, MeantForOne
<1>4. /\ code \in Seq(Cell) /\ goal \in Seq(Nat) /\ here = Len(code) + 1
      /\ Sound(code, Append(Drop(1), Top), goal) /\ MarksMatch(Append(Drop(1), Top))
  BY <1>1, <1>2, WordBegins
<1>5. /\ Patch(code, Top.ref) \in Seq(Cell) /\ [goal EXCEPT ![Top.label] = here] \in Seq(Nat)
      /\ Sound(Patch(code, Top.ref), Drop(1), [goal EXCEPT ![Top.label] = here])
  BY <1>2, <1>3, <1>4, TakenOff
<1>6. MarksMatch(Drop(1))
  BY <1>2, <1>3, <1>4, UnmarkedItems DEF Unmarked
<1> QED BY <1>1, <1>2, <1>5, <1>6, CompiledKeeps

\* BEGIN pushes HERE, which is the place of its label.
LEMMA BeginLoopKeeps == Structured /\ BeginLoop => Structured'
<1> SUFFICES ASSUME Structured, BeginLoop, ~Refused PROVE Structured'
  BY RefusedKeeps
<1> DEFINE item == [kind |-> "dest", ref |-> here, label |-> label]
           st2 == Append(items, item)
           g2 == Append(goal, here)
<1>1. Compiling /\ Avail(1) /\ Compiled(code, st2, g2)
  BY DEF BeginLoop
<1>2. /\ code \in Seq(Cell) /\ items \in Seq(Item) /\ goal \in Seq(Nat)
      /\ Sound(code, items, goal) /\ MarksMatch(items)
      /\ n = Len(items) /\ n \in Nat
      /\ here = Len(code) + 1 /\ label = Len(goal) + 1 /\ Len(code) \in Nat /\ Len(goal) \in Nat
      /\ here \in Nat /\ label \in Nat
  BY <1>1, WordBegins
<1>3. item \in Item /\ item.kind = "dest" /\ item.ref = here /\ item.label = label
  BY <1>2 DEF Item
<1> HIDE DEF item
<1>4. /\ g2 \in Seq(Nat) /\ Len(g2) = Len(goal) + 1 /\ g2[label] = here /\ \A k \in 1..Len(goal) : g2[k] = goal[k]
  BY <1>2
<1> HIDE DEF g2
<1>5. ItemIsOpen(code, g2, item)
  <2>1. label \in DOMAIN g2 /\ here \in 1..(Len(code) + 1)
    BY <1>2, <1>4
  <2> QED BY <2>1, <1>3, <1>4 DEF ItemIsOpen, Unplaced, Searching
<1>6. item.kind \notin Unplaced /\ item.kind \notin Searching /\ item.kind \in Unmarked /\ Len(goal) <= Len(g2)
  BY <1>2, <1>3, <1>4 DEF Unplaced, Searching, Unmarked
<1>7. st2 \in Seq(Item) /\ Sound(code, st2, g2)
  BY <1>2, <1>3, <1>4, <1>5, <1>6, PushIsSound
<1>8. MarksMatch(st2)
  BY <1>2, <1>3, <1>6, UnmarkedItems
<1>9. Len(st2) <= MaxDepth
  BY <1>1, <1>2, <1>3 DEF Avail
<1> HIDE DEF st2
<1> QED BY <1>1, <1>2, <1>4, <1>7, <1>8, <1>9, CompiledKeeps DEF st2, g2, item

\* Two items are put on a stack one after the other.
LEMMA AppendedItems == \A st \in Seq(Item), x, y \in Item : st \o <<x, y>> = Append(Append(st, x), y)
OBVIOUS

\* A new label leaves the places of the others alone.
LEMMA OneLabelMore ==
  ASSUME NEW g \in Seq(Nat), NEW v \in Nat
  PROVE  /\ Append(g, v) \in Seq(Nat) /\ Len(Append(g, v)) = Len(g) + 1 /\ Append(g, v)[Len(g) + 1] = v
         /\ \A i \in 1..Len(g) : Append(g, v)[i] = g[i]
OBVIOUS

\* A label that is placed while another one is new.
LEMMA PlacedLabel ==
  ASSUME NEW g \in Seq(Nat), NEW k \in DOMAIN g, NEW place \in Nat
  PROVE  [Append(g, 0) EXCEPT ![k] = place] = Append([g EXCEPT ![k] = place], 0)
<1> DEFINE g0 == Append(g, 0)
           a == [g0 EXCEPT ![k] = place]
           h == [g EXCEPT ![k] = place]
           b == Append(h, 0)
<1>1. k \in 1..Len(g) /\ Len(g) \in Nat
  OBVIOUS
<1>0. g0 \in Seq(Nat) /\ Len(g0) = Len(g) + 1 /\ g0[Len(g) + 1] = 0 /\ \A i \in 1..Len(g) : g0[i] = g[i]
  BY <1>1
<1> HIDE DEF g0
<1>2. a \in Seq(Nat) /\ Len(a) = Len(g) + 1 /\ \A i \in 1..(Len(g) + 1) : a[i] = IF i = k THEN place ELSE g0[i]
  BY <1>0, <1>1
<1>3. h \in Seq(Nat) /\ Len(h) = Len(g) /\ \A i \in 1..Len(g) : h[i] = IF i = k THEN place ELSE g[i]
  BY <1>1
<1> HIDE DEF a, h
<1>4. b \in Seq(Nat) /\ Len(b) = Len(g) + 1 /\ \A i \in 1..(Len(g) + 1) : b[i] = IF i = k THEN place ELSE g0[i]
  <2>0. b \in Seq(Nat) /\ Len(b) = Len(h) + 1 /\ b[Len(h) + 1] = 0 /\ \A i \in 1..Len(h) : b[i] = h[i]
    <3>1. h \in Seq(Nat) /\ 0 \in Nat
      BY <1>3
    <3> QED BY ONLY <3>1, OneLabelMore
  <2> HIDE DEF b
  <2>1. b \in Seq(Nat) /\ Len(b) = Len(g) + 1 /\ b[Len(g) + 1] = 0 /\ \A i \in 1..Len(g) : b[i] = h[i]
    BY <2>0, <1>3
  <2>2. k # Len(g) + 1
    BY <1>1
  <2>3. \A i \in 1..(Len(g) + 1) : i = Len(g) + 1 \/ i \in 1..Len(g)
    BY <1>1
  <2> QED BY <2>1, <2>2, <2>3, <1>0, <1>3
<1> HIDE DEF b
<1>5. a = b
  BY <1>2, <1>4, SeqEqual
<1> QED BY <1>5 DEF a, b, h, g0

\* ELSE compiles a branch of its own before it fills in the one of IF.
LEMMA ElseKeeps == ~Mismatched /\ Structured /\ Else => Structured'
<1> SUFFICES ASSUME ~Mismatched, Structured, Else, ~Refused PROVE Structured'
  BY RefusedKeeps
<1> DEFINE orig == Orig(here + 1)
           st2 == Append(Drop(1), orig)
           g2 == Append([goal EXCEPT ![Top.label] = here + 2], 0)
<1>1. PICK raw \in Stale : Compiling /\ ~(n < 1) /\ Meant(<<"orig">>) /\ Compiled(ElseCode(Top.ref, raw), st2, g2)
  BY DEF Else
<1>2. /\ Drop(1) \in Seq(Item) /\ Top \in Item /\ items = Append(Drop(1), Top) /\ Len(Drop(1)) = n - 1
  BY <1>1, OneItem
<1>3. Top.kind = "orig"
  BY <1>1, MeantForOne
<1>4. /\ code \in Seq(Cell) /\ goal \in Seq(Nat) /\ items \in Seq(Item)
      /\ Len(code) \in Nat /\ here = Len(code) + 1
      /\ Sound(code, items, goal) /\ MarksMatch(items) /\ n \in Nat /\ n <= MaxDepth /\ n = Len(items)
  BY <1>1, WordBegins
<1> DEFINE c == code \o <<Op("branch"), Open(raw, label)>>
<1>5. /\ c \in Seq(Cell) /\ Len(c) = Len(code) + 2 /\ Append(goal, 0) \in Seq(Nat)
      /\ orig \in Item /\ orig.kind = "orig" /\ Sound(c, Append(items, orig), Append(goal, 0))
  BY <1>1, ForwardBranch
<1>6. ElseCode(Top.ref, raw) = Patch(c, Top.ref)
  BY DEF ElseCode
<1> HIDE DEF c, orig
<1>7. Sound(c, Append(st2, Top), Append(goal, 0))
  BY <1>2, <1>3, <1>5, SwapIsSound DEF Searching
<1>8. st2 \in Seq(Item) /\ Len(st2) <= MaxDepth
  BY <1>2, <1>4, <1>5
<1>9. MarksMatch(st2)
  <2>1. MarksMatch(Drop(1))
    BY <1>2, <1>3, <1>4, UnmarkedItems DEF Unmarked
  <2> QED BY <2>1, <1>2, <1>5, UnmarkedItems DEF Unmarked
<1>10. [Append(goal, 0) EXCEPT ![Top.label] = Len(c) + 1] = g2
  <2>1. Top.label \in DOMAIN goal
    <3>1. Len(items) \in DOMAIN items /\ Top = items[Len(items)]
      BY <1>1, <1>4 DEF Top
    <3> QED BY <3>1, <1>3, <1>4 DEF Sound, ItemIsOpen, Unplaced
  <2>2. Len(c) + 1 = here + 2 /\ here + 2 \in Nat
    BY <1>4, <1>5
  <2> QED BY <2>1, <2>2, <1>4, PlacedLabel
<1> HIDE DEF st2, g2
<1>11. Patch(c, Top.ref) \in Seq(Cell) /\ g2 \in Seq(Nat) /\ Sound(Patch(c, Top.ref), st2, g2)
  BY <1>2, <1>3, <1>5, <1>7, <1>8, <1>10, TakenOff
<1> QED BY <1>1, <1>6, <1>8, <1>9, <1>11, CompiledKeeps

\* WHILE puts its branch below the item of BEGIN.
LEMMA WhileKeeps == ~Mismatched /\ Structured /\ While => Structured'
<1> SUFFICES ASSUME ~Mismatched, Structured, While, ~Refused PROVE Structured'
  BY RefusedKeeps
<1> DEFINE orig == Orig(here + 1)
           st2 == Append(Append(Drop(1), orig), Top)
<1>1. PICK raw \in Stale : Compiling /\ Avail(1) /\ ~(n < 1) /\ Meant(<<"dest">>)
        /\ Compiled(Forward(raw), Drop(1) \o <<orig, Top>>, Append(goal, 0))
  BY DEF While
<1>2. /\ Drop(1) \in Seq(Item) /\ Top \in Item /\ items = Append(Drop(1), Top) /\ Len(Drop(1)) = n - 1
  BY <1>1, OneItem
<1>3. Top.kind = "dest"
  BY <1>1, MeantForOne
<1>4. /\ MarksMatch(items) /\ n \in Nat /\ n = Len(items) /\ MaxDepth \in Nat
  BY <1>1, WordBegins
<1>5. /\ Forward(raw) \in Seq(Cell) /\ Append(goal, 0) \in Seq(Nat)
      /\ orig \in Item /\ orig.kind = "orig" /\ Sound(Forward(raw), Append(items, orig), Append(goal, 0))
  BY <1>1, ForwardBranch DEF Forward
<1> HIDE DEF orig
<1>6. Sound(Forward(raw), st2, Append(goal, 0))
  BY <1>2, <1>3, <1>5, SwapIsSound DEF Searching
<1>7. st2 \in Seq(Item) /\ Len(st2) <= MaxDepth
  BY <1>1, <1>2, <1>4, <1>5 DEF Avail
<1>8. MarksMatch(st2)
  <2>1. MarksMatch(Drop(1))
    BY <1>2, <1>3, <1>4, UnmarkedItems DEF Unmarked
  <2>2. MarksMatch(Append(Drop(1), orig)) /\ Append(Drop(1), orig) \in Seq(Item)
    BY <2>1, <1>2, <1>5, UnmarkedItems DEF Unmarked
  <2> QED BY <2>2, <1>2, <1>3, UnmarkedItems DEF Unmarked
<1>9. Drop(1) \o <<orig, Top>> = st2
  BY <1>2, <1>5, AppendedItems
<1> HIDE DEF st2
<1> QED BY <1>1, <1>5, <1>6, <1>7, <1>8, <1>9, CompiledKeeps

\* A cell that is compiled leaves the others alone.
LEMMA OneCellMore ==
  ASSUME NEW c \in Seq(Cell), NEW x \in Cell
  PROVE  /\ Append(c, x) \in Seq(Cell) /\ Len(Append(c, x)) = Len(c) + 1 /\ Append(c, x)[Len(c) + 1] = x
         /\ Len(c) \in Nat /\ \A a \in 1..Len(c) : Append(c, x)[a] = c[a]
OBVIOUS

\* CellsOfWords of no structure, then a branch back to a label that has its place.
LEMMA BackIsSound ==
  ASSUME NEW c \in Seq(Cell), NEW st \in Seq(Item), NEW g \in Seq(Nat), Sound(c, st, g),
         NEW d \in Seq(Cell), \A b \in 1..Len(d) : d[b].by = 0 /\ d[b].op \notin Stale,
         NEW k \in DOMAIN g, g[k] # 0
  PROVE  /\ c \o Append(d, To(g[k], k)) \in Seq(Cell)
         /\ Len(c \o Append(d, To(g[k], k))) = Len(c) + Len(d) + 1
         /\ Sound(c \o Append(d, To(g[k], k)), st, g)
<1> DEFINE e == c \o d
           x == To(g[k], k)
<1>1. e \in Seq(Cell) /\ Len(e) = Len(c) + Len(d) /\ Sound(e, st, g)
  BY PlainIsSound
<1>2. k \in Nat /\ g[k] \in Nat /\ Len(c) \in Nat /\ Len(d) \in Nat /\ Len(g) \in Nat /\ k \in 1..Len(g)
  OBVIOUS
<1>3. x \in Cell /\ x.op = "to" /\ x.at = g[k] /\ x.by = k
  BY <1>2, CellsOfWords
<1>4. c \o Append(d, x) = Append(e, x)
  BY <1>3, LastCell
<1> HIDE DEF e, x
<1> DEFINE f == Append(e, x)
<1>5. /\ f \in Seq(Cell) /\ Len(f) = Len(e) + 1 /\ f[Len(e) + 1] = x /\ Len(e) \in Nat
      /\ \A a \in 1..Len(e) : f[a] = e[a]
  BY <1>1, <1>3, OneCellMore
<1> HIDE DEF f
<1>6. ASSUME NEW a \in (Len(e) + 1)..Len(f) PROVE CellIsOwned(f, st, g, a)
  <2>1. f[a] = x
    BY <1>5
  <2>2. k \in 0..Len(g)
    BY <1>2
  <2> QED BY <2>1, <2>2, <1>3 DEF CellIsOwned, Stale
<1>7. Len(e) <= Len(f)
  BY <1>5
<1>8. Sound(f, st, g)
  BY <1>1, <1>5, <1>6, <1>7, CompiledIsSound
<1> QED BY <1>1, <1>2, <1>4, <1>5, <1>8 DEF f, x

\* The label of a `dest' item is where the item points to.
LEMMA BackBranch ==
  ASSUME Structured, Compiling, ~(n < 1), Top.kind = "dest", NEW o \in {"branch", "branch0"}
  PROVE  Back(o) \in Seq(Cell) /\ Len(Back(o)) = Len(code) + 2 /\ Sound(Back(o), items, goal)
<1>1. /\ code \in Seq(Cell) /\ items \in Seq(Item) /\ goal \in Seq(Nat) /\ Sound(code, items, goal)
      /\ n = Len(items) /\ n \in Nat /\ Len(code) \in Nat
  BY WordBegins
<1> DEFINE d == <<Op(o)>>
           k == Top.label
<1>2. d \in Seq(Cell) /\ Len(d) = 1 /\ \A b \in 1..Len(d) : d[b].by = 0 /\ d[b].op \notin Stale
  BY CellsOfWords DEF Ops, Stale
<1>3. k \in DOMAIN goal /\ goal[k] = Top.ref /\ goal[k] # 0
  <2>1. Len(items) \in DOMAIN items /\ Top = items[Len(items)]
    BY <1>1 DEF Top
  <2>2. ItemIsOpen(code, goal, Top)
    BY <2>1, <1>1 DEF Sound
  <2>3. Top.ref \in 1..(Len(code) + 1)
    BY <2>2 DEF ItemIsOpen
  <2>4. Top.ref # 0
    BY <2>3
  <2> QED BY <2>2, <2>4 DEF ItemIsOpen
<1>4. Back(o) = code \o Append(d, To(goal[k], k))
  BY <1>3, PairOf DEF Back
<1> HIDE DEF d, k
<1>5. /\ code \o Append(d, To(goal[k], k)) \in Seq(Cell)
      /\ Len(code \o Append(d, To(goal[k], k))) = Len(code) + Len(d) + 1
      /\ Sound(code \o Append(d, To(goal[k], k)), items, goal)
  BY <1>1, <1>2, <1>3, BackIsSound
<1>6. Len(code) + Len(d) + 1 = Len(code) + 2
  BY <1>1, <1>2
<1> QED BY <1>4, <1>5, <1>6

\* UNTIL and AGAIN branch back to BEGIN.
LEMMA UntilKeeps == ~Mismatched /\ Structured /\ Until => Structured'
<1> SUFFICES ASSUME ~Mismatched, Structured, Until, ~Refused PROVE Structured'
  BY RefusedKeeps
<1>1. PICK branch \in {"branch0", "branch"} : Compiling /\ ~(n < 1) /\ Meant(<<"dest">>)
        /\ Compiled(Back(branch), Drop(1), goal)
  BY DEF Until
<1>2. /\ Drop(1) \in Seq(Item) /\ Top \in Item /\ items = Append(Drop(1), Top) /\ Len(Drop(1)) <= MaxDepth
  BY <1>1, OneItem
<1>3. Top.kind = "dest"
  BY <1>1, MeantForOne
<1>4. /\ Back(branch) \in Seq(Cell) /\ Sound(Back(branch), Append(Drop(1), Top), goal)
  BY <1>1, <1>2, <1>3, BackBranch
<1>5. goal \in Seq(Nat) /\ MarksMatch(Append(Drop(1), Top))
  BY <1>1, <1>2, WordBegins
<1>6. Sound(Back(branch), Drop(1), goal)
  BY <1>2, <1>3, <1>4, <1>5, TakenOff DEF Unplaced
<1>7. MarksMatch(Drop(1))
  BY <1>2, <1>3, <1>5, UnmarkedItems DEF Unmarked
<1> QED BY <1>1, <1>2, <1>4, <1>5, <1>6, <1>7, CompiledKeeps

\* REPEAT branches back to BEGIN and fills in the branch of WHILE.
LEMMA RepeatKeeps == ~Mismatched /\ Structured /\ Repeat => Structured'
<1> SUFFICES ASSUME ~Mismatched, Structured, Repeat, ~Refused PROVE Structured'
  BY RefusedKeeps
<1> DEFINE c == Back("branch")
           g2 == [goal EXCEPT ![Below.label] = here + 2]
<1>1. Compiling /\ ~(n < 2) /\ Meant(<<"orig", "dest">>) /\ Compiled(Patch(c, Below.ref), Drop(2), g2)
  BY DEF Repeat
<1>2. /\ Drop(2) \in Seq(Item) /\ Below \in Item /\ Top \in Item
      /\ items = Append(Append(Drop(2), Below), Top) /\ Len(Drop(2)) <= MaxDepth
  BY <1>1, TwoItems
<1>3. Below.kind = "orig" /\ Top.kind = "dest"
  BY <1>1, MeantForTwo
<1>4. /\ goal \in Seq(Nat) /\ MarksMatch(items) /\ n \in Nat /\ here = Len(code) + 1 /\ Len(code) \in Nat
  BY <1>1, WordBegins
<1>5. c \in Seq(Cell) /\ Len(c) = Len(code) + 2 /\ Sound(c, items, goal)
  <2>1. ~(n < 1)
    BY <1>1, <1>4
  <2> QED BY <2>1, <1>1, <1>3, BackBranch
<1> HIDE DEF c
<1> DEFINE t == Append(Drop(2), Below)
<1>6. t \in Seq(Item) /\ items = Append(t, Top)
  BY <1>2
<1>7. Sound(c, t, goal) /\ MarksMatch(t)
  <2> HIDE DEF t
  <2>1. Sound(c, t, goal)
    BY ZenonT(40), <1>2, <1>3, <1>4, <1>5, <1>6, TakenOff DEF Unplaced
  <2>2. MarksMatch(t)
    BY <1>2, <1>3, <1>4, <1>6, UnmarkedItems DEF Unmarked
  <2> QED BY <2>1, <2>2
<1>8. Len(c) + 1 = here + 2
  BY <1>4, <1>5
<1>9. Patch(c, Below.ref) \in Seq(Cell) /\ g2 \in Seq(Nat) /\ Sound(Patch(c, Below.ref), Drop(2), g2)
  BY <1>2, <1>3, <1>4, <1>5, <1>7, <1>8, TakenOff
<1>10. MarksMatch(Drop(2))
  BY <1>2, <1>3, <1>7, UnmarkedItems DEF Unmarked
<1> QED BY <1>1, <1>2, <1>9, <1>10, CompiledKeeps

-----------------------------------------------------------------------------
\* CellsOfWords of no structure, then a SENTINEL for the innermost search.
LEMMA SentinelIsSound ==
  ASSUME NEW c \in Seq(Cell), NEW st \in Seq(Item), NEW g \in Seq(Nat), Sound(c, st, g),
         NEW d \in Seq(Cell), \A b \in 1..Len(d) : d[b].by = 0 /\ d[b].op \notin Stale,
         NEW i \in DOMAIN st, st[i].kind \in Searching,
         \A j \in (i + 1)..Len(st) : st[j].kind \notin Searching
  PROVE  /\ c \o Append(d, Sentinel(st[i].label)) \in Seq(Cell)
         /\ Len(c \o Append(d, Sentinel(st[i].label))) = Len(c) + Len(d) + 1
         /\ Sound(c \o Append(d, Sentinel(st[i].label)), st, g)
<1> DEFINE e == c \o d
           k == st[i].label
           x == Sentinel(k)
<1>1. e \in Seq(Cell) /\ Len(e) = Len(c) + Len(d) /\ Sound(e, st, g)
  BY PlainIsSound
<1>2. Len(c) \in Nat /\ Len(d) \in Nat /\ Len(g) \in Nat /\ DOMAIN g = 1..Len(g) /\ st[i] \in Item
  OBVIOUS
<1>3. ItemIsOpen(c, g, st[i])
  BY DEF Sound
<1>4. k \in 1..Len(g) /\ g[k] = 0 /\ st[i].ref \in 1..(Len(c) + 1)
  BY <1>2, <1>3 DEF ItemIsOpen, Searching, Unplaced
<1>5. x \in Cell /\ x.op = "sentinel" /\ x.by = k
  BY <1>4, CellsOfWords DEF Sentinel, Stale
<1>6. c \o Append(d, x) = Append(e, x)
  BY <1>5, LastCell
<1> HIDE DEF e, x
<1> DEFINE f == Append(e, x)
<1>7. /\ f \in Seq(Cell) /\ Len(f) = Len(e) + 1 /\ f[Len(e) + 1] = x /\ Len(e) \in Nat
      /\ \A a \in 1..Len(e) : f[a] = e[a]
  BY <1>1, <1>5, OneCellMore
<1> HIDE DEF f
<1>8. ASSUME NEW a \in (Len(e) + 1)..Len(f) PROVE CellIsOwned(f, st, g, a)
  <2>1. f[a] = x /\ a = Len(e) + 1
    BY <1>7
  <2>2. k \in 0..Len(g) /\ k # 0
    BY <1>2, <1>4
  <2>3. a >= st[i].ref
    BY SMTT(20), <2>1, <1>1, <1>2, <1>4
  <2>4. Owns(f, st, i, a)
    BY <2>1, <2>3, <1>5 DEF Owns, Searching, Unplaced, Stale
  <2> QED BY <2>1, <2>2, <2>4, <1>4, <1>5 DEF CellIsOwned
<1>9. Len(e) <= Len(f)
  BY <1>7
<1>10. Sound(f, st, g)
  BY <1>1, <1>7, <1>8, <1>9, CompiledIsSound
<1> QED BY <1>1, <1>2, <1>6, <1>7, <1>10 DEF f, x

\* An item that waits for no branch yet is put on the stack with its mark.
LEMMA MarkIsSound ==
  ASSUME NEW c \in Seq(Cell), NEW st \in Seq(Item), NEW g \in Seq(Nat), Sound(c, st, g), NEW kind \in {"CASE", "OF"}
  PROVE  Mark(kind) \in Item /\ Mark(kind).kind = kind /\ Sound(c, Append(st, Mark(kind)), g)
<1> DEFINE item == Mark(kind)
<1>1. item \in Item /\ item.kind = kind
  BY DEF Mark, Item
<1> HIDE DEF item
<1>2. Len(g) \in Nat /\ Len(g) <= Len(g) /\ \A k \in 1..Len(g) : g[k] = g[k]
  OBVIOUS
<1>3. item.kind \notin Unplaced /\ item.kind \notin Searching
  BY <1>1 DEF Unplaced, Searching
<1>4. ItemIsOpen(c, g, item)
  BY <1>1 DEF ItemIsOpen, Unplaced, Searching
<1> QED BY <1>1, <1>2, <1>3, <1>4, PushIsSound DEF item

\* A new label and a new place, in numbers.
LEMMA NextLabel ==
  \A a, b, m \in Nat : a + 1 <= b => a + 1 > a /\ a + 1 \in 1..b /\ m + 1 \in 1..(m + 1) /\ a <= b
OBVIOUS

\* An item that will search for its branches is put on the stack before
\* any of them is compiled.
LEMMA SearchIsSound ==
  ASSUME NEW c \in Seq(Cell), NEW st \in Seq(Item), NEW g \in Seq(Nat), Sound(c, st, g),
         NEW item \in Item, item.kind \in Searching, item.ref = Len(c) + 1, item.label = Len(g) + 1,
         NEW g2 \in Seq(Nat), Len(g) + 1 <= Len(g2), \A k \in 1..Len(g) : g2[k] = g[k], g2[Len(g) + 1] = 0,
         item.kind = "do" => Len(g2) = Len(g) + 2 /\ g2[Len(g) + 2] = item.ref
  PROVE  Append(st, item) \in Seq(Item) /\ Sound(c, Append(st, item), g2)
<1>1. Len(g) \in Nat /\ Len(g2) \in Nat /\ Len(c) \in Nat /\ DOMAIN g2 = 1..Len(g2)
  OBVIOUS
<1>2. Len(g) <= Len(g2) /\ item.label > Len(g) /\ item.label \in DOMAIN g2 /\ item.ref \in 1..(Len(c) + 1)
  <2>1. item.label = Len(g) + 1 /\ Len(g) + 1 <= Len(g2) /\ item.ref = Len(c) + 1
    OBVIOUS
  <2>2. Len(g) + 1 > Len(g) /\ Len(g) + 1 \in 1..Len(g2) /\ Len(c) + 1 \in 1..(Len(c) + 1) /\ Len(g) <= Len(g2)
    BY <2>1, <1>1, NextLabel
  <2> QED BY <2>1, <2>2, <1>1
<1>3. item.kind = "do" => item.label + 1 = Len(g) + 2 /\ Len(g) + 2 \in DOMAIN g2
  BY <1>1
<1>4. ItemIsOpen(c, g2, item)
  BY <1>2, <1>3 DEF ItemIsOpen, Searching, Unplaced
<1> QED BY <1>2, <1>4, PushIsSound

\* CASE pushes HERE and its mark.
LEMMA CaseKeeps == Structured /\ Case => Structured'
<1> SUFFICES ASSUME Structured, Case, ~Refused PROVE Structured'
  BY RefusedKeeps
<1> DEFINE item == [kind |-> "case", ref |-> here, label |-> label]
           mark == Mark("CASE")
           st1 == Append(items, item)
           st2 == Append(st1, mark)
           g2 == Append(goal, 0)
<1>1. Compiling /\ Avail(2) /\ Compiled(code, items \o <<item, mark>>, g2)
  BY DEF Case
<1>2. /\ code \in Seq(Cell) /\ items \in Seq(Item) /\ goal \in Seq(Nat)
      /\ Sound(code, items, goal) /\ MarksMatch(items)
      /\ n = Len(items) /\ n \in Nat
      /\ here = Len(code) + 1 /\ label = Len(goal) + 1 /\ Len(goal) \in Nat
      /\ here \in Nat /\ label \in Nat
  BY <1>1, WordBegins
<1>3. item \in Item /\ item.kind = "case" /\ item.ref = Len(code) + 1 /\ item.label = Len(goal) + 1
  BY <1>2 DEF Item
<1> HIDE DEF item
<1>4. /\ g2 \in Seq(Nat) /\ Len(g2) = Len(goal) + 1 /\ g2[Len(goal) + 1] = 0
      /\ \A k \in 1..Len(goal) : g2[k] = goal[k]
  BY <1>2, OneLabelMore
<1> HIDE DEF g2
<1>5. Len(goal) + 1 <= Len(g2) /\ item.kind \in Searching /\ item.kind # "do"
  BY <1>2, <1>3, <1>4 DEF Searching
<1>6. st1 \in Seq(Item) /\ Sound(code, st1, g2)
  BY <1>2, <1>3, <1>4, <1>5, SearchIsSound
<1> HIDE DEF st1
<1>7. mark \in Item /\ mark.kind = "CASE" /\ Sound(code, st2, g2)
  BY <1>2, <1>4, <1>6, MarkIsSound
<1> HIDE DEF mark
<1>8. st2 \in Seq(Item) /\ Len(st2) <= MaxDepth
  BY <1>1, <1>2, <1>3, <1>6, <1>7 DEF Avail, st1
<1>9. MarksMatch(st2)
  BY <1>2, <1>3, <1>7, MarkedItems DEF st1
<1>10. items \o <<item, mark>> = st2
  BY <1>2, <1>3, <1>7, AppendedItems DEF st1
<1> HIDE DEF st2
<1> QED BY <1>1, <1>2, <1>4, <1>7, <1>8, <1>9, <1>10, CompiledKeeps

\* Code that is compiled in two parts.
LEMMA Joined ==
  ASSUME NEW c \in Seq(Cell), NEW d \in Seq(Cell), NEW e \in Seq(Cell)
  PROVE  c \o (d \o e) = (c \o d) \o e
BY SMTT(20), ConcatAssociative

\* OF compiles a branch behind the comparison and pushes its mark.
LEMMA OfKeeps == Structured /\ Of => Structured'
<1> SUFFICES ASSUME Structured, Of, ~Refused PROVE Structured'
  BY RefusedKeeps
<1> DEFINE item == [kind |-> "of", ref |-> here + 3, label |-> label]
           mark == Mark("OF")
           st1 == Append(items, item)
           st2 == Append(st1, mark)
           g2 == Append(goal, 0)
<1>1. PICK raw \in Stale : /\ Compiling /\ ~(n < 1) /\ Avail(2) /\ Top = Mark("CASE")
        /\ Compiled(code \o <<Op("word"), Op("word"), Op("branch0"), Open(raw, label), Op("word")>>,
                    items \o <<item, mark>>, g2)
  BY DEF Of
<1>2. /\ code \in Seq(Cell) /\ items \in Seq(Item) /\ goal \in Seq(Nat)
      /\ Sound(code, items, goal) /\ MarksMatch(items)
      /\ n = Len(items) /\ n \in Nat
      /\ here = Len(code) + 1 /\ label = Len(goal) + 1 /\ Len(goal) \in Nat /\ Len(code) \in Nat
      /\ here \in Nat /\ label \in Nat
  BY <1>1, WordBegins
<1> DEFINE d == <<Op("word"), Op("word"), Op("branch0")>>
           e == <<Op("word")>>
           c1 == code \o Append(d, Open(raw, Len(goal) + 1))
           c2 == c1 \o e
<1>3. d \in Seq(Cell) /\ Len(d) = 3 /\ \A b \in 1..Len(d) : d[b].by = 0 /\ d[b].op \notin Stale
  BY CellsOfWords DEF Ops, Stale
<1>4. e \in Seq(Cell) /\ Len(e) = 1 /\ \A b \in 1..Len(e) : e[b].by = 0 /\ e[b].op \notin Stale
  BY CellsOfWords DEF Ops, Stale
<1>5. /\ item \in Item /\ item.kind \in {"orig", "of"} /\ item.kind = "of"
      /\ item.ref = Len(code) + Len(d) + 1 /\ item.label = Len(goal) + 1
  BY <1>2, <1>3 DEF Item
<1>6. code \o <<Op("word"), Op("word"), Op("branch0"), Open(raw, label), Op("word")>> = c2
  <2>1. Open(raw, label) \in Cell /\ Op("word") \in Cell /\ Op("branch0") \in Cell
    BY <1>2, CellsOfWords DEF Ops
  <2>2. <<Op("word"), Op("word"), Op("branch0"), Open(raw, label), Op("word")>>
          = Append(d, Open(raw, label)) \o e
    OBVIOUS
  <2>3. Append(d, Open(raw, label)) \in Seq(Cell)
    BY <2>1, <1>3
  <2> HIDE DEF d, e
  <2>4. code \o (Append(d, Open(raw, label)) \o e) = (code \o Append(d, Open(raw, label))) \o e
    BY <2>3, <1>2, <1>4, Joined
  <2> QED BY <2>2, <2>4, <1>2
<1> HIDE DEF d, e, item
<1>7. c1 \in Seq(Cell)
  BY <1>2, <1>3, OpenCells
<1>8. st1 \in Seq(Item) /\ g2 \in Seq(Nat)
  BY <1>2, <1>5
<1>9. Sound(c1, st1, g2)
  BY <1>2, <1>3, <1>5, BranchIsSound
<1> HIDE DEF c1, st1, g2
<1>10. c2 \in Seq(Cell) /\ Sound(c2, st1, g2)
  BY <1>4, <1>7, <1>8, <1>9, PlainIsSound
<1>11. mark \in Item /\ mark.kind = "OF" /\ Sound(c2, st2, g2)
  BY <1>8, <1>10, MarkIsSound
<1> HIDE DEF mark, c2
<1>12. st2 \in Seq(Item) /\ Len(st2) <= MaxDepth
  BY <1>1, <1>2, <1>5, <1>8, <1>11 DEF Avail, st1
<1>13. MarksMatch(st2)
  <2>1. Len(items) > 0 /\ items[Len(items)].kind = "CASE"
    BY <1>1, <1>2 DEF Top, Mark
  <2> QED BY <2>1, <1>2, <1>5, <1>11, MarkedItems DEF st1
<1>14. items \o <<item, mark>> = st2
  BY <1>2, <1>5, <1>11, AppendedItems DEF st1
<1> HIDE DEF st2
<1> QED BY <1>1, <1>6, <1>8, <1>10, <1>11, <1>12, <1>13, <1>14, CompiledKeeps

\* A set of places on the stack has a highest one.
LEMMA LastOfSome ==
  ASSUME NEW m \in Nat, NEW S, S \subseteq 1..m, S # {}
  PROVE  \E i \in S : \A j \in S : j <= i
<1> DEFINE D == {m - i : i \in S}
           less == OpToRel(<, Nat)
<1>1. IsWellFoundedOn(less, Nat)
  BY NatLessThanWellFounded
<1>2. \A i, j \in Nat : i < j => <<i, j>> \in less
  BY DEF OpToRel
<1> HIDE DEF less
<1>3. D \subseteq Nat /\ D # {}
  <2>1. \A i \in S : m - i \in Nat
    OBVIOUS
  <2> QED BY <2>1
<1>4. PICK least \in D : \A e \in D : ~(<<e, least>> \in less)
  BY <1>1, <1>3, WFMin
<1>5. PICK i \in S : least = m - i
  OBVIOUS
<1>6. ASSUME NEW j \in S PROVE j <= i
  <2>1. m - j \in D /\ m - j \in Nat /\ m - i \in Nat /\ i \in Nat /\ j \in Nat
    BY <1>3, <1>5
  <2>2. ~(m - j < m - i)
    BY <2>1, <1>2, <1>4, <1>5
  <2> QED BY <2>1, <2>2
<1> QED BY <1>6

\* The loop that a LEAVE belongs to is the innermost structure that searches.
LEMMA InnermostSearches ==
  ASSUME Structured, Compiling, Enclosing # {}, Innermost.kind = "do"
  PROVE  \E i \in DOMAIN items : /\ items[i].kind \in Searching /\ LoopLabel = items[i].label
                                 /\ \A j \in (i + 1)..Len(items) : items[j].kind \notin Searching
<1>1. items \in Seq(Item) /\ n = Len(items) /\ n \in Nat
  BY WordBegins
<1>2. Enclosing \subseteq 1..n /\ Loops \subseteq Enclosing
  BY DEF Enclosing, Loops
<1> DEFINE i == CHOOSE k \in Enclosing : \A j \in Enclosing : j <= k
           l == CHOOSE k \in Loops : \A j \in Loops : j <= k
<1>3. i \in Enclosing /\ \A j \in Enclosing : j <= i
  <2>1. \E k \in Enclosing : \A j \in Enclosing : j <= k
    BY <1>1, <1>2, LastOfSome
  <2> QED BY <2>1
<1>4. Innermost = items[i]
  BY DEF Innermost
<1> HIDE DEF i
<1>5. i \in Loops
  BY <1>3, <1>4 DEF Enclosing, Loops
<1>6. l \in Loops /\ \A j \in Loops : j <= l
  <2>1. \E k \in Loops : \A j \in Loops : j <= k
    BY <1>2, <1>3, <1>5
  <2> QED BY <2>1
<1>7. LoopLabel = items[l].label
  BY <1>5 DEF LoopLabel
<1> HIDE DEF l
<1>8. l = i
  <2>1. l <= i /\ i <= l /\ l \in Nat /\ i \in Nat
    BY <1>2, <1>3, <1>5, <1>6
  <2> QED BY <2>1
<1>9. ASSUME NEW j \in (i + 1)..Len(items), items[j].kind \in Searching PROVE FALSE
  <2>1. j \in 1..n /\ j > i
    BY <1>1, <1>2, <1>3
  <2>2. j \in Enclosing
    BY <2>1, <1>9 DEF Enclosing, Searching
  <2> QED BY <2>1, <2>2, <1>1, <1>2, <1>3
<1>10. i \in DOMAIN items /\ items[i].kind \in Searching
  BY <1>1, <1>3 DEF Enclosing, Searching
<1> QED BY <1>7, <1>8, <1>9, <1>10

\* LEAVE compiles a branch that its own loop will find.
LEMMA LeaveKeeps == ~LeaveAnywhere /\ Structured /\ Leave => Structured'
<1> SUFFICES ASSUME ~LeaveAnywhere, Structured, Leave PROVE Structured'
  OBVIOUS
<1> DEFINE d == <<Op("branch")>>
           c == code \o Append(d, Sentinel(LoopLabel))
<1>1. /\ Compiling /\ Enclosing # {} /\ Innermost.kind = "do"
      /\ Compiled(code \o <<Op("branch"), Sentinel(LoopLabel)>>, items, goal)
  BY DEF Leave
<1>2. /\ code \in Seq(Cell) /\ items \in Seq(Item) /\ goal \in Seq(Nat)
      /\ Sound(code, items, goal) /\ MarksMatch(items) /\ n = Len(items) /\ n <= MaxDepth
  BY <1>1, WordBegins
<1>3. PICK i \in DOMAIN items : /\ items[i].kind \in Searching /\ LoopLabel = items[i].label
                                /\ \A j \in (i + 1)..Len(items) : items[j].kind \notin Searching
  BY <1>1, InnermostSearches
<1>4. d \in Seq(Cell) /\ Len(d) = 1 /\ \A b \in 1..Len(d) : d[b].by = 0 /\ d[b].op \notin Stale
  BY CellsOfWords DEF Ops, Stale
<1>5. code \o <<Op("branch"), Sentinel(LoopLabel)>> = c
  BY PairOf
<1> HIDE DEF d
<1>6. c \in Seq(Cell) /\ Sound(c, items, goal)
  BY <1>2, <1>3, <1>4, SentinelIsSound
<1> HIDE DEF c
<1> QED BY <1>1, <1>2, <1>5, <1>6, CompiledKeeps

\* DO and ?DO have a label for the end of the loop, which their first
\* SENTINEL belongs to, and one for its start.
LEMMA DoKeeps == Structured /\ Do => Structured'
<1> SUFFICES ASSUME Structured, Do, ~Refused PROVE Structured'
  BY RefusedKeeps
<1>1. PICK head \in {DoHead, QDoHead} :
        /\ Compiling /\ Avail(1)
        /\ Compiled(code \o head \o <<Op("word"), Op("branch0"), Sentinel(label)>>,
                    Append(items, [kind |-> "do", ref |-> here + Len(head), label |-> label]),
                    goal \o <<0, here + Len(head)>>)
  BY DEF Do
<1> DEFINE start == here + Len(head)
           item == [kind |-> "do", ref |-> start, label |-> label]
           st2 == Append(items, item)
           g2 == goal \o <<0, start>>
           e == code \o head
           d == <<Op("word"), Op("branch0")>>
<1>2. /\ code \in Seq(Cell) /\ items \in Seq(Item) /\ goal \in Seq(Nat)
      /\ Sound(code, items, goal) /\ MarksMatch(items)
      /\ n = Len(items) /\ n \in Nat
      /\ here = Len(code) + 1 /\ label = Len(goal) + 1 /\ Len(goal) \in Nat /\ Len(code) \in Nat
      /\ here \in Nat /\ label \in Nat
  BY <1>1, WordBegins
<1>3. head \in Seq(Cell) /\ \A b \in 1..Len(head) : head[b].by = 0 /\ head[b].op \notin Stale
  <2>1. CASE head = DoHead
    BY <2>1, CellsOfWords DEF Ops, Operands, Stale, DoHead
  <2>2. CASE head = QDoHead
    BY <2>2, CellsOfWords DEF Ops, Operands, Stale, QDoHead
  <2> QED BY <2>1, <2>2
<1>4. d \in Seq(Cell) /\ Len(d) = 2 /\ \A b \in 1..Len(d) : d[b].by = 0 /\ d[b].op \notin Stale
  BY CellsOfWords DEF Ops, Stale
<1>5. e \in Seq(Cell) /\ Sound(e, items, goal) /\ Len(e) = Len(code) + Len(head) /\ Len(head) \in Nat
  BY <1>2, <1>3, PlainIsSound
<1>6. start \in Nat /\ start = Len(e) + 1
  BY <1>2, <1>5
<1>7. item \in Item /\ item.kind = "do" /\ item.ref = start /\ item.label = Len(goal) + 1
  BY <1>2, <1>6 DEF Item
<1>8. /\ g2 \in Seq(Nat) /\ Len(g2) = Len(goal) + 2 /\ g2[Len(goal) + 1] = 0 /\ g2[Len(goal) + 2] = start
      /\ \A k \in 1..Len(goal) : g2[k] = goal[k]
  BY <1>2, <1>6
<1> HIDE DEF start, item, g2
<1>9. Len(goal) + 1 <= Len(g2) /\ item.kind \in Searching
  BY <1>2, <1>7, <1>8 DEF Searching
<1>10. st2 \in Seq(Item) /\ Sound(e, st2, g2)
  <2> HIDE DEF e
  <2> QED BY <1>2, <1>5, <1>6, <1>7, <1>8, <1>9, SearchIsSound
<1>11. Len(st2) = n + 1 /\ st2[n + 1] = item /\ Len(st2) <= MaxDepth /\ n + 1 \in DOMAIN st2
  BY <1>1, <1>2, <1>7 DEF Avail
<1>12. MarksMatch(st2)
  BY <1>2, <1>7, UnmarkedItems DEF Unmarked
<1> DEFINE c == e \o Append(d, Sentinel(label))
<1>13. code \o head \o <<Op("word"), Op("branch0"), Sentinel(label)>> = c
  OBVIOUS
<1>14. \A j \in (n + 1 + 1)..Len(st2) : st2[j].kind \notin Searching
  BY <1>2, <1>11
<1> HIDE DEF d, e, st2
<1>15. st2[n + 1].kind \in Searching /\ st2[n + 1].label = label
  BY <1>2, <1>7, <1>9, <1>11
<1>16. c \in Seq(Cell) /\ Sound(c, st2, g2)
  BY <1>4, <1>5, <1>8, <1>10, <1>11, <1>14, <1>15, SentinelIsSound
<1> HIDE DEF c
<1>17. Compiled(c, st2, g2)
  BY <1>1, <1>13 DEF st2, g2, item, start
<1> QED BY <1>1, <1>8, <1>10, <1>11, <1>12, <1>16, <1>17, CompiledKeeps

\* The same for the cells that +LOOP compiles.
LEMMA SixOf == \A a, b, c, d, e, x : <<a, b, c, d, e, x>> = Append(<<a, b, c, d, e>>, x)
OBVIOUS

\* +LOOP branches back to the start of the loop, fills in what leaves it, and
\* compiles UNLOOP behind.
LEMMA LoopKeeps == ~Mismatched /\ Structured /\ Loop => Structured'
<1> SUFFICES ASSUME ~Mismatched, Structured, Loop, ~Refused PROVE Structured'
  BY RefusedKeeps
<1>1. PICK literal \in {<<>>, <<Op("word"), Op("data")>>} :
        /\ Compiling /\ ~(n < 1) /\ Meant(<<"do">>)
        /\ Compiled(LoopCode(code \o literal, Top.ref), Drop(1),
                    [goal EXCEPT ![Top.label] = Len(code \o literal) + 7])
  BY DEF Loop
<1> DEFINE c == code \o literal
           d == <<Op("r>"), Op("word"), Op("word"), Op(">r"), Op("branch")>>
           e == <<Op("unloop")>>
           k == Top.label + 1
           c1 == c \o Append(d, To(goal[k], k))
           c2 == Resolve(c1, Top.ref)
           g2 == [goal EXCEPT ![Top.label] = Len(c) + 7]
<1>2. /\ Drop(1) \in Seq(Item) /\ Top \in Item /\ items = Append(Drop(1), Top) /\ Len(Drop(1)) <= MaxDepth
  BY <1>1, OneItem
<1>3. Top.kind = "do"
  BY <1>1, MeantForOne
<1>4. /\ code \in Seq(Cell) /\ goal \in Seq(Nat) /\ items \in Seq(Item)
      /\ Sound(code, items, goal) /\ MarksMatch(items) /\ n \in Nat /\ n = Len(items)
  BY <1>1, WordBegins
<1>5. literal \in Seq(Cell) /\ \A b \in 1..Len(literal) : literal[b].by = 0 /\ literal[b].op \notin Stale
  <2>1. CASE literal = <<>>
    BY <2>1
  <2>2. CASE literal = <<Op("word"), Op("data")>>
    BY <2>2, CellsOfWords DEF Ops, Operands, Stale
  <2> QED BY <1>1, <2>1, <2>2
<1>6. c \in Seq(Cell) /\ Sound(c, items, goal)
  BY <1>4, <1>5, PlainIsSound
<1> HIDE DEF c
<1>7. d \in Seq(Cell) /\ Len(d) = 5 /\ \A b \in 1..Len(d) : d[b].by = 0 /\ d[b].op \notin Stale
  BY CellsOfWords DEF Ops, Stale
<1>8. e \in Seq(Cell) /\ \A b \in 1..Len(e) : e[b].by = 0 /\ e[b].op \notin Stale
  BY CellsOfWords DEF Ops, Stale
<1>9. k \in DOMAIN goal /\ goal[k] = Top.ref /\ goal[k] # 0
  <2>1. Len(items) \in DOMAIN items /\ Top = items[Len(items)]
    BY <1>1, <1>4 DEF Top
  <2>2. ItemIsOpen(code, goal, Top)
    BY <2>1, <1>4 DEF Sound
  <2>3. Top.ref \in 1..(Len(code) + 1)
    BY <2>2, <1>3 DEF ItemIsOpen, Searching
  <2>4. Top.ref # 0
    BY <2>3
  <2>5. Top.label + 1 \in DOMAIN goal /\ goal[Top.label + 1] = Top.ref
    BY ONLY <2>2, <1>3, Zenon DEF ItemIsOpen
  <2> QED BY <2>4, <2>5
<1>10. LoopCode(c, Top.ref) = c2 \o e
  <2>1. c \o <<Op("r>"), Op("word"), Op("word"), Op(">r"), Op("branch"), To(Top.ref, Top.label + 1)>> = c1
    <3>1. To(goal[k], k) = To(Top.ref, Top.label + 1)
      BY <1>9
    <3>2. <<Op("r>"), Op("word"), Op("word"), Op(">r"), Op("branch"), To(Top.ref, Top.label + 1)>>
            = Append(d, To(Top.ref, Top.label + 1))
      BY SixOf
    <3> HIDE DEF d, k
    <3> QED BY <3>1, <3>2
  <2>2. LoopCode(c, Top.ref) = Resolve(c1, Top.ref) \o <<Op("unloop")>>
    <3> HIDE DEF c1, d, e, k
    <3> QED BY <2>1, Zenon DEF LoopCode
  <2> QED BY <2>2
<1> HIDE DEF d, e, k
<1>11. c1 \in Seq(Cell) /\ Len(c1) = Len(c) + Len(d) + 1 /\ Sound(c1, items, goal)
  <2>1. k \in DOMAIN goal /\ goal[k] # 0
    BY <1>9
  <2>2. /\ c \o Append(d, To(goal[k], k)) \in Seq(Cell)
        /\ Len(c \o Append(d, To(goal[k], k))) = Len(c) + Len(d) + 1
        /\ Sound(c \o Append(d, To(goal[k], k)), items, goal)
    BY ONLY <2>1, <1>4, <1>6, <1>7, BackIsSound
  <2> QED BY <2>2
<1> HIDE DEF c1
<1>12. Len(c1) + 1 = Len(c) + 7
  <2>1. Len(c) \in Nat
    BY <1>6
  <2> QED BY <2>1, <1>7, <1>11
<1>13. c2 \in Seq(Cell) /\ g2 \in Seq(Nat) /\ Sound(c2, Drop(1), g2)
  <2>1. Sound(c1, Append(Drop(1), Top), goal) /\ Top.kind \in Searching
    BY <1>2, <1>3, <1>11 DEF Searching
  <2> QED BY <2>1, <1>2, <1>4, <1>11, <1>12, TakenOff
<1> HIDE DEF c2, g2
<1>14. c2 \o e \in Seq(Cell) /\ Sound(c2 \o e, Drop(1), g2)
  BY <1>2, <1>8, <1>13, PlainIsSound
<1>15. MarksMatch(Drop(1))
  BY <1>2, <1>3, <1>4, UnmarkedItems DEF Unmarked
<1>16. Compiled(c2 \o e, Drop(1), g2)
  BY <1>1, <1>10 DEF c, g2
<1> QED BY <1>1, <1>2, <1>13, <1>14, <1>15, <1>16, CompiledKeeps

\* ENDCASE fills in the branches of its ENDOFs.
LEMMA EndCaseKeeps == Structured /\ EndCase => Structured'
<1> SUFFICES ASSUME Structured, EndCase, ~Refused PROVE Structured'
  BY RefusedKeeps
<1> DEFINE d == <<Op("word")>>
           c == Append(code, Op("word"))
           t == Append(Drop(2), Below)
           g2 == [goal EXCEPT ![Below.label] = here + 1]
<1>1. Compiling /\ ~(n < 2) /\ Top = Mark("CASE") /\ Compiled(Resolve(c, Below.ref), Drop(2), g2)
  BY DEF EndCase
<1>2. /\ Drop(2) \in Seq(Item) /\ Below \in Item /\ Top \in Item
      /\ items = Append(t, Top) /\ Len(Drop(2)) <= MaxDepth
  BY <1>1, TwoItems
<1>3. /\ code \in Seq(Cell) /\ goal \in Seq(Nat) /\ items \in Seq(Item)
      /\ Sound(code, items, goal) /\ MarksMatch(items) /\ here = Len(code) + 1 /\ Len(code) \in Nat
  BY <1>1, WordBegins
<1>4. Top.kind = "CASE"
  BY <1>1 DEF Mark
<1>5. Below.kind = "case" /\ MarksMatch(Drop(2))
  BY <1>2, <1>3, <1>4, MarksAreFound
<1>6. d \in Seq(Cell) /\ Len(d) = 1 /\ \A b \in 1..Len(d) : d[b].by = 0 /\ d[b].op \notin Stale
  BY CellsOfWords DEF Ops, Stale
<1>7. code \o d = c
  BY <1>3
<1> HIDE DEF c, d
<1>8. c \in Seq(Cell) /\ Sound(c, items, goal) /\ Len(c) + 1 = here + 1
  <2>1. c \in Seq(Cell) /\ Sound(c, items, goal)
    BY <1>3, <1>6, <1>7, PlainIsSound
  <2>2. Len(c) = Len(code) + 1
    <3>1. Op("word") \in Cell
      BY CellsOfWords DEF Ops
    <3> QED BY <3>1, <1>3, OneCellMore DEF c
  <2> QED BY <2>1, <2>2, <1>3, <1>6
<1>9. t \in Seq(Item)
  BY <1>2
<1>10. Sound(c, t, goal)
  <2> HIDE DEF t
  <2> QED BY <1>2, <1>3, <1>4, <1>8, <1>9, TakenOff DEF Unplaced
<1>11. Resolve(c, Below.ref) \in Seq(Cell) /\ g2 \in Seq(Nat) /\ Sound(Resolve(c, Below.ref), Drop(2), g2)
  BY <1>2, <1>3, <1>5, <1>8, <1>10, TakenOff DEF Searching
<1> HIDE DEF g2
<1> QED BY <1>1, <1>2, <1>5, <1>11, CompiledKeeps

\* ENDOF compiles a branch that its own CASE will find, since an OF is
\* directly above the CASE it belongs to, and fills in the one of OF.
LEMMA EndOfKeeps == Structured /\ EndOf => Structured'
<1> SUFFICES ASSUME Structured, EndOf, ~Refused PROVE Structured'
  BY RefusedKeeps
<1> DEFINE d == <<Op("branch")>>
           c == code \o Append(d, Sentinel(CaseLabel))
           t == Append(Drop(2), Below)
           g2 == [goal EXCEPT ![Below.label] = here + 2]
<1>1. /\ Compiling /\ ~(n < 2) /\ Top = Mark("OF")
      /\ Compiled(Patch(code \o <<Op("branch"), Sentinel(CaseLabel)>>, Below.ref), Drop(2), g2)
  BY DEF EndOf
<1>2. /\ Drop(2) \in Seq(Item) /\ Below \in Item /\ Top \in Item
      /\ items = Append(t, Top) /\ Len(Drop(2)) <= MaxDepth /\ Len(Drop(2)) = n - 2
  BY <1>1, TwoItems
<1>3. /\ code \in Seq(Cell) /\ goal \in Seq(Nat) /\ items \in Seq(Item)
      /\ Sound(code, items, goal) /\ MarksMatch(items) /\ here = Len(code) + 1 /\ Len(code) \in Nat
      /\ n \in Nat /\ n = Len(items)
  BY <1>1, WordBegins
<1>4. Top.kind = "OF"
  BY <1>1 DEF Mark
<1>5. /\ Below.kind = "of" /\ MarksMatch(Drop(2)) /\ Len(Drop(2)) >= 2
      /\ Drop(2)[Len(Drop(2))].kind = "CASE" /\ Drop(2)[Len(Drop(2)) - 1].kind = "case"
  BY <1>2, <1>3, <1>4, MarksAreFound
<1>6. /\ n - 3 \in DOMAIN items /\ items[n - 3] = Drop(2)[n - 3] /\ items[n - 2] = Drop(2)[n - 2]
      /\ items[n - 1] = Below /\ items[n] = Top
  <2>1. n >= 4 /\ n - 2 \in Nat /\ n - 3 \in 1..(n - 2) /\ n - 2 \in 1..(n - 2)
    BY <1>2, <1>3, <1>5
  <2>2. Len(t) = n - 1 /\ t[n - 1] = Below /\ t \in Seq(Item) /\ \A i \in 1..(n - 2) : t[i] = Drop(2)[i]
    BY <2>1, <1>2, <1>3
  <2> HIDE DEF t
  <2>3. items[n] = Top /\ \A i \in 1..(n - 1) : items[i] = t[i]
    BY <2>2, <1>2, <1>3
  <2>4. n - 1 \in 1..(n - 1) /\ n - 2 \in 1..(n - 1) /\ n - 3 \in 1..(n - 1) /\ n - 3 \in 1..n
    BY <2>1, <1>3
  <2>5. n - 3 \in DOMAIN items
    BY <2>4, <1>3
  <2> QED BY <2>1, <2>2, <2>3, <2>4, <2>5
<1>7. items[n - 3].kind = "case" /\ items[n - 2].kind = "CASE"
  <2>1. Len(Drop(2)) - 1 = n - 3
    BY <1>2, <1>3
  <2> QED BY <2>1, <1>2, <1>5, <1>6
<1>8. items[n - 3].kind \in Searching /\ \A j \in (n - 3 + 1)..Len(items) : items[j].kind \notin Searching
  <2>1. \A j \in (n - 3 + 1)..Len(items) : j = n - 2 \/ j = n - 1 \/ j = n
    BY <1>3
  <2> QED BY <2>1, <1>4, <1>5, <1>6, <1>7 DEF Searching
<1>9. d \in Seq(Cell) /\ Len(d) = 1 /\ \A b \in 1..Len(d) : d[b].by = 0 /\ d[b].op \notin Stale
  BY CellsOfWords DEF Ops, Stale
<1>10. code \o <<Op("branch"), Sentinel(CaseLabel)>> = c
  BY PairOf
<1> HIDE DEF d
<1>11. CaseLabel = items[n - 3].label
  BY DEF CaseLabel
<1>12. c \in Seq(Cell) /\ Len(c) = Len(code) + Len(d) + 1 /\ Sound(c, items, goal)
  BY ZenonT(40), <1>3, <1>6, <1>8, <1>9, <1>11, SentinelIsSound
<1> HIDE DEF c
<1>13. Len(c) + 1 = here + 2
  BY <1>3, <1>9, <1>12
<1>14. t \in Seq(Item)
  BY <1>2
<1>15. Sound(c, t, goal)
  <2> HIDE DEF t
  <2> QED BY <1>2, <1>3, <1>4, <1>12, <1>14, TakenOff DEF Unplaced
<1>16. Patch(c, Below.ref) \in Seq(Cell) /\ g2 \in Seq(Nat) /\ Sound(Patch(c, Below.ref), Drop(2), g2)
  BY <1>2, <1>3, <1>5, <1>12, <1>13, <1>15, TakenOff
<1> HIDE DEF g2
<1> QED BY <1>1, <1>2, <1>5, <1>10, <1>16, CompiledKeeps

\* A balanced definition has no item left, so none of its cells is open.
LEMMA FinishDefinitionKeeps == Structured /\ FinishDefinition => Structured'
<1> SUFFICES ASSUME Structured, FinishDefinition, ~Refused PROVE Structured'
  BY RefusedKeeps
<1> DEFINE c == code \o <<Op("exit"), Sentinel(0)>>
<1>1. /\ state = "open" /\ n = 0 /\ state' = "done" /\ code' = c
      /\ items' = items /\ goal' = goal /\ words' = words
  BY DEF FinishDefinition, Balanced
<1>2. /\ code \in Seq(Cell) /\ items \in Seq(Item) /\ goal \in Seq(Nat) /\ Sound(code, items, goal)
      /\ n = Len(items)
  BY <1>1 DEF Structured, ControlTypeOK, n
<1>3. Op("exit") \in Cell /\ Op("exit").op = "exit" /\ Op("exit").by = 0
      /\ Sentinel(0) \in Cell /\ Sentinel(0).by = 0
  BY CellsOfWords DEF Ops, Sentinel, Stale
<1>4. /\ c \in Seq(Cell) /\ Len(c) = Len(code) + 2 /\ c[Len(code) + 1] = Op("exit") /\ c[Len(code) + 2] = Sentinel(0)
      /\ \A a \in 1..Len(code) : c[a] = code[a]
  <2> HIDE DEF Cell
  <2> QED BY <1>2, <1>3
<1>5. Len(code) \in Nat /\ DOMAIN c = 1..(Len(code) + 2) /\ DOMAIN code = 1..Len(code)
  BY <1>2, <1>4
<1> HIDE DEF c
<1>6. ASSUME NEW a \in DOMAIN code
      PROVE  code[a].op \notin Stale /\ (code[a].by # 0 => code[a].op = "to" /\ goal[code[a].by] # 0 /\ code[a].at = goal[code[a].by])
  <2>1. CellIsOwned(code, items, goal, a) /\ DOMAIN items = {}
    BY <1>1, <1>2 DEF Sound
  <2> QED BY <2>1 DEF CellIsOwned, Stale
<1>7. ControlTypeOK'
  BY <1>1, <1>2, <1>4 DEF Structured, ControlTypeOK, n
<1>8. BranchesBelong'
  <2> SUFFICES ASSUME NEW a \in DOMAIN c, c[a].by # 0
               PROVE  IF goal[c[a].by] = 0 THEN c[a].op # "to" ELSE c[a].op = "to" /\ c[a].at = goal[c[a].by]
    BY <1>1 DEF BranchesBelong
  <2>1. a \in DOMAIN code
    BY <1>3, <1>4, <1>5
  <2>2. c[a] = code[a]
    BY <2>1, <1>4, <1>5
  <2> QED BY <2>1, <2>2, <1>6
<1>9. FinishedIsResolved'
  <2> SUFFICES ASSUME NEW a \in DOMAIN c \ {Len(c)} PROVE c[a].op \notin Stale
    BY <1>1 DEF FinishedIsResolved
  <2>1. CASE a \in DOMAIN code
    BY <2>1, <1>4, <1>5, <1>6
  <2>2. CASE a \notin DOMAIN code
    <3>1. a = Len(code) + 1
      BY <2>2, <1>4, <1>5
    <3> QED BY <3>1, <1>3, <1>4 DEF Stale
  <2> QED BY <2>1, <2>2
<1>10. state' # "open"
  BY <1>1
<1> QED BY <1>7, <1>8, <1>9, <1>10 DEF Structured

\* An empty definition has no open branch.
LEMMA NothingIsSound == Sound(<<>>, <<>>, <<>>) /\ MarksMatch(<<>>)
BY DEF Sound, LabelsDiffer, MarksMatch

\* A definition begins with no code and no items.
LEMMA BeginKeeps == Structured /\ Begin => Structured'
<1> SUFFICES ASSUME Structured, Begin PROVE Structured'
  OBVIOUS
<1>1. state' = "open" /\ code' = <<>> /\ items' = <<>> /\ goal' = <<>> /\ words' = 0
  BY DEF Begin, Empty
<1>2. ControlTypeOK'
  BY <1>1, SizeAssumption DEF ControlTypeOK, n
<1>3. BranchesBelong' /\ FinishedIsResolved'
  BY <1>1 DEF BranchesBelong, FinishedIsResolved
<1>4. Sound(code', items', goal') /\ MarksMatch(items')
  BY <1>1, NothingIsSound
<1> QED BY <1>2, <1>3, <1>4 DEF Structured

\* There is no definition at first.
LEMMA InitIsStructured == ControlInit => Structured
<1> SUFFICES ASSUME ControlInit PROVE Structured
  OBVIOUS
<1>1. state = "none" /\ code = <<>> /\ items = <<>> /\ goal = <<>> /\ words = 0
  BY DEF ControlInit
<1> QED BY <1>1, SizeAssumption DEF Structured, ControlTypeOK, n, BranchesBelong, FinishedIsResolved

\* A step of another component.
LEMMA StutterKeeps == Structured /\ UNCHANGED controlVars => Structured'
<1> SUFFICES ASSUME Structured, UNCHANGED controlVars PROVE Structured'
  OBVIOUS
<1>1. state' = state /\ code' = code /\ items' = items /\ goal' = goal /\ words' = words
  BY DEF controlVars
<1> QED BY <1>1 DEF Structured, ControlTypeOK, n, BranchesBelong, FinishedIsResolved

\* Every word keeps the invariant, if programs use the words as they are meant.
LEMMA StepKeepsStructured == ~LeaveAnywhere /\ ~Mismatched /\ Structured /\ [ControlNext]_controlVars => Structured'
<1> SUFFICES ASSUME ~LeaveAnywhere, ~Mismatched, Structured, [ControlNext]_controlVars PROVE Structured'
  OBVIOUS
<1>1. CASE Begin \/ FinishDefinition
  BY <1>1, BeginKeeps, FinishDefinitionKeeps
<1>2. CASE If \/ Else \/ Then \/ BeginLoop \/ While \/ Until \/ Repeat
  BY <1>2, IfKeeps, ElseKeeps, ThenKeeps, BeginLoopKeeps, WhileKeeps, UntilKeeps, RepeatKeeps
<1>3. CASE Do \/ Leave \/ Loop
  BY <1>3, DoKeeps, LeaveKeeps, LoopKeeps
<1>4. CASE Case \/ Of \/ EndOf \/ EndCase
  BY <1>4, CaseKeeps, OfKeeps, EndOfKeeps, EndCaseKeeps
<1>5. CASE UNCHANGED controlVars
  BY <1>5, StutterKeeps
<1> QED BY <1>1, <1>2, <1>3, <1>4, <1>5 DEF ControlNext

\* In every definition whose words are used as they are meant, however many they
\* are and however deep they nest, a branch is filled in by the structure it was
\* compiled for, when that structure reaches the place it goes to and with that
\* place, and a definition that is accepted has no branch left to fill in
\* (THEN, +LOOP, ENDOF and ENDCASE of CORE.def.inc and CORE-EXT.def.inc).
THEOREM BranchesAreResolved == ASSUME ~LeaveAnywhere, ~Mismatched PROVE ControlSpec => []ControlInv
<1>1. ControlInit => Structured
  BY InitIsStructured
<1>2. Structured /\ [ControlNext]_controlVars => Structured'
  BY StepKeepsStructured
<1>3. Structured => ControlInv
  BY DEF Structured, ControlInv
<1> QED BY <1>1, <1>2, <1>3, PTL DEF ControlSpec
=============================================================================
