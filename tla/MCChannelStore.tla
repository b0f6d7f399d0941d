--------------------------- MODULE MCChannelStore ---------------------------
(* Instances of ChannelStore for TLC: steps p and q, external readers r and s. *)
EXTENDS ChannelStore

CONSTANTS p, q, r, s

=============================================================================
