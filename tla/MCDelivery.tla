----------------------------- MODULE MCDelivery -----------------------------
(* Values of the constants of Delivery for TLC. *)
EXTENDS Delivery

MCPacket    == {Data(n) : n \in Notification} \cup {Success}
MCSizeOf(p) == IF p = Success THEN 1 ELSE 2

=============================================================================
