------------------------------- MODULE MCSpend -------------------------------
(* Instances of Spend for TLC: two paid calls while nothing overlaps a storage
   call, and else one. *)
EXTENDS Spend, TLC

CONSTANTS c1, c2, t1, t2

Interchangeable == Permutations({c1, c2}) \cup Permutations({t1, t2})

(* Bound: in behaviours where storage calls overlap other events. *)
OneUnlessCalm == calm \/ \E d \in Call : call'[d] = "new"

=============================================================================
