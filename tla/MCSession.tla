------------------------------ MODULE MCSession ------------------------------
(* Instances of Session for TLC: a message, a steer and an interrupt. *)
EXTENDS Session

CONSTANTS m, s, i

=============================================================================
