------------------------------ MODULE MCTriggers ------------------------------
(* Instances of Triggers for TLC: an event that comes again after another one
   of its thread, one of another thread, one the filter rejects and one its
   input throws on. *)
EXTENDS Triggers

CONSTANTS a, b, rejected, broken, t1, t2

MCThreadOf == [e \in Event |-> IF e = b THEN t2 ELSE t1]
MCLog == <<a, b, rejected, broken, a>>

=============================================================================
