---------------------------- MODULE Definitions -----------------------------
(***************************************************************************)
(* What the compiling words promise, with no headers, flags or suspended   *)
(* states: a definition is a transaction on the dictionary.  It begins,    *)
(* takes space, and either commits (a word is added, or the last one gets  *)
(* new semantics, or only unnamed code was laid down) or is rolled back,   *)
(* which leaves the words and the free space exactly as they were.         *)
(***************************************************************************)
EXTENDS Naturals, Sequences

CONSTANTS Semantics   \* what a word may do when it is executed

VARIABLES
  words,   \* the words that can be found: where each lies and what it does
  here,    \* first free address
  open     \* none, or the address at which the open definition began

vars == <<words, here, open>>

Closed == [at |-> 0, is |-> FALSE]
Opened(a) == [at |-> a, is |-> TRUE]

Init == words = <<>> /\ here \in Nat /\ open = Closed

Begin ==
  /\ ~open.is /\ open' = Opened(here)
  /\ here' \in Nat /\ here' >= here
  /\ UNCHANGED words

TakeSpace ==
  /\ here' \in Nat /\ here' > here
  /\ UNCHANGED <<words, open>>

Added == \E s \in Semantics : words' = Append(words, [at |-> open.at, code |-> s])
Redone == words # <<>> /\ \E s \in Semantics :
            words' = [words EXCEPT ![Len(words)].code = s]

Commit ==
  /\ open.is /\ open' = Closed
  /\ here' \in Nat /\ here' >= here
  /\ Added \/ Redone \/ UNCHANGED words

RollBack ==
  /\ open.is /\ open' = Closed
  /\ here' = open.at
  /\ UNCHANGED words

Define ==
  /\ ~open.is
  /\ \E s \in Semantics : words' = Append(words, [at |-> here, code |-> s])
  /\ here' \in Nat /\ here' > here
  /\ UNCHANGED open

Change == ~open.is /\ Redone /\ UNCHANGED <<here, open>>

Forget ==
  /\ ~open.is
  /\ \E i \in 1..Len(words) :
       words' = SubSeq(words, 1, i - 1) /\ here' = words[i].at
  /\ UNCHANGED open

Next == Begin \/ TakeSpace \/ Commit \/ RollBack \/ Define \/ Change \/ Forget

Spec == Init /\ [][Next]_vars
=============================================================================
