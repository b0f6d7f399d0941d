----------------------------- MODULE Subsequences -----------------------------
(***************************************************************************)
(* The elements of a sequence that a filter lets through, in their order.  *)
(* The standard SelectSeq is recursive, and nothing could be proved about  *)
(* it; this says where each element that stays comes to stand.             *)
(***************************************************************************)
EXTENDS Naturals, Sequences, FiniteSets

(* The positions of s that hold members of S, and how many of them are at most i. *)
At(s, S) == {i \in DOMAIN s : s[i] \in S}
Rank(at, i) == Cardinality({j \in at : j <= i})

(* The elements of s that are in S. *)
Selected(s, S) ==
  LET at == At(s, S)
  IN [k \in 1 .. Cardinality(at) |-> s[CHOOSE i \in at : Rank(at, i) = k]]

=============================================================================
