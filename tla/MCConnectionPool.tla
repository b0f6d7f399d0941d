-------------------------- MODULE MCConnectionPool --------------------------
(* Instances of ConnectionPool for TLC: runs a and b. *)
EXTENDS ConnectionPool

CONSTANTS a, b

(* Bound: the pool is closed only where nothing overlaps the timer's pass. *)
ClosedIfCalm == closing'.pc # "open" => calm

=============================================================================
