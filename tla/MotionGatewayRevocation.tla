---------------------- MODULE MotionGatewayRevocation ----------------------
(***************************************************************************)
(* The motion gateway observed from outside: how long the permission to    *)
(* move has been gone, and whether the robot still moves.  The observer    *)
(* variable follows the gateway and never constrains it.                   *)
(***************************************************************************)
EXTENDS MotionGateway

CONSTANT Horizon        (* the observer stops counting here *)

ASSUME HorizonAssumption == Horizon \in Nat

VARIABLE revoked        (* time since Permit was last true *)

(* Permission: armed by the operator, a live bridge and a fresh command.    *)
Permit == /\ token
          /\ bridge = "running"
          /\ latest # NoCmd /\ latestAge <= CmdTimeout

ObservedInit == Init /\ revoked = Horizon

ObservedNext ==
  \/ /\ Scripts \/ Bridge \/ Worker \/ Faults
     /\ revoked' = IF Permit' THEN 0 ELSE revoked
  \/ /\ Elapse
     /\ revoked' = IF Permit \/ Permit' THEN 0 ELSE Older(revoked, Horizon)

ObservedSpec == ObservedInit /\ [][ObservedNext]_<<vars, revoked>>

ObservedFairSpec == ObservedSpec /\ Fairness

(* Longest time the robot may move on: the worker is inside one call when   *)
(* permission ends, both queued items follow, each call lasts its timeout,  *)
(* and the robot executes the last request for SdkDuration.                 *)
StopLatency == (QueueMax + 1) * RpcTimeout + SdkDuration

(* However permission ends (stop script, command stream dry, bridge killed  *)
(* or shut down), whatever is in the queue, and whatever the two processes  *)
(* are doing, the robot stands still StopLatency later.                     *)
StopsInTime == revoked >= StopLatency => robot = Zero

(* "expire commands independently" (host/g1_cmd_vel_bridge.py:71): once     *)
(* permission has been gone for StopLatency the worker passes no motion on. *)
CommandsExpire ==
  [][revoked >= StopLatency /\ RobotReceives => robot' = Zero]_<<vars, revoked>>
=============================================================================
