----------------------------- MODULE MCDurableRun -----------------------------
(* Instances of DurableRun for TLC: the workflow sequence(plan(a), send),
   the smallest with a step beneath a composite that is not the root. *)
EXTENDS DurableRun

CONSTANTS flow, plan, a, send, v1

(* Inputs and outputs are only ever compared, so the first input may be v1;
   a symmetry set would not do where liveness is checked. *)
FirstInput == starts = 0 => inp'[Root] \in {v1, None}
MCSpec == Init /\ [][Next /\ FirstInput]_vars /\ WF_vars(RunStep)

MCNode == {flow, plan, a, send}
MCKids ==
  [n \in MCNode |-> CASE n = flow -> <<plan, send>>
                      [] n = plan -> <<a>>
                      [] OTHER -> <<>>]
MCBeneath ==
  [n \in MCNode |-> CASE n = flow -> {plan, a, send}
                      [] n = plan -> {a}
                      [] OTHER -> {}]

=============================================================================
