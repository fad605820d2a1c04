----------------------------- MODULE CallStack ------------------------------
(***************************************************************************)
(* What executing compiled words promises, with no return addresses: a     *)
(* stack of active definitions, each with the items it has put on the      *)
(* return stack itself.  Nobody can reach the items of another definition, *)
(* and a definition that is left takes its own items with it.              *)
(***************************************************************************)
EXTENDS Naturals, Sequences

VARIABLES active   \* number of items of each active definition, innermost last

Init == active = <<>>

n == Len(active)

Call == active' = Append(active, 0)

PutItems == n > 0 /\ \E k \in {1, 2} : active' = [active EXCEPT ![n] = @ + k]

TakeItems ==
  n > 0 /\ \E k \in {1, 2} : k <= active[n] /\ active' = [active EXCEPT ![n] = @ - k]

(* A return leaves one definition, an exception or an overflow any number. *)
Leave == n > 0 /\ \E i \in 0..(n - 1) : active' = SubSeq(active, 1, i)

Next == Call \/ PutItems \/ TakeItems \/ Leave

Spec == Init /\ [][Next]_active
=============================================================================
