--------------------------- MODULE MCMotionGateway ---------------------------
(* Small instances of the motion gateway, in which most periods are one unit.*)
EXTENDS MotionGateway

CONSTANT nan

(* Commands beyond the limits, in reverse, turning both ways, not finite.    *)
Wild == {[vx |-> 3, wz |-> -2], [vx |-> -1, wz |-> 2], [vx |-> nan, wz |-> nan]}
=============================================================================
