------------------------------ MODULE MCForwarding ------------------------------
(* Small instances of Forwarding for TLC.                                   *)
EXTENDS Forwarding, TLC

CONSTANTS p1, p2, order, audit, noise, ping

(* p1 publishes an order on A; p2, on B, an event that A does not declare,  *)
(* one that A blocks, or a system event.                                    *)
Sides == p1 :> "A" @@ p2 :> "B"
Names == p1 :> {order} @@ p2 :> {audit, noise, ping}
Known == "A" :> {order, noise, ping} @@ "B" :> {order, audit, noise, ping}
NoiseOnA == "A" :> {noise} @@ "B" :> {}
FewOnB == "B" :> 3
=============================================================================
