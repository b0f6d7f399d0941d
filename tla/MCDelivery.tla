----------------------------- MODULE MCDelivery -----------------------------
(* Instances of Delivery for TLC: the item pump and the ask-user broadcasts. *)
EXTENDS Delivery

CONSTANTS items, asks

=============================================================================
