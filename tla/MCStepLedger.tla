----------------------------- MODULE MCStepLedger -----------------------------
(* Instances of StepLedger for TLC: a parent with one child beneath it and a
   content key, two concurrent callers. *)
EXTENDS StepLedger, TLC

CONSTANTS parent, child, key

MCPath == {parent, child, key}
(* The two callers are interchangeable. *)
Callers == Permutations(Caller)

MCUnder == [p \in MCPath |-> IF p = parent THEN {child} ELSE {}]

=============================================================================
