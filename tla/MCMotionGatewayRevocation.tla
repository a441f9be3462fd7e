---------------------- MODULE MCMotionGatewayRevocation ----------------------
(* Small instances of the observed gateway.  One unit of time is 0.25 s.      *)
EXTENDS MotionGatewayRevocation

CONSTANT nan

Forward == {[vx |-> 1, wz |-> 0]}
=============================================================================
