-------------------------- MODULE OrderedDelivery --------------------------
(* What a durable connection promises its host: every frame that was kept   *)
(* arrives, once, in the order the frames were kept.                        *)
EXTENDS Naturals, Sequences

CONSTANT Frame
VARIABLES sent, received

Init == sent = <<>> /\ received = <<>>

Send(f) == sent' = Append(sent, f) /\ UNCHANGED received

Deliver ==
  /\ Len(received) < Len(sent)
  /\ received' = Append(received, sent[Len(received) + 1])
  /\ UNCHANGED sent

Next == Deliver \/ \E f \in Frame : Send(f)

Spec == Init /\ [][Next]_<<sent, received>>

=============================================================================
