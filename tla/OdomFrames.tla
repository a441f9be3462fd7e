------------------------------ MODULE OdomFrames ------------------------------
(* The odometry that nav2_navigation.launch.py offers in place of a robot's  *)
(* own: one node makes it from twists, from velocity commands or from the    *)
(* localizer's poses, and with use_odom_localization_demo another one        *)
(* anchors it in the map. The demo is a stand-in for the localizer: no pose  *)
(* would ever come if the odometry were made from its poses.                 *)
(*                                                                           *)
(* A pose is planar and a heading is a number of quarter turns, so that      *)
(* frames compose exactly; a velocity is a step forward, a step to the left  *)
(* and a quarter turn per unit of time.                                      *)
(*                                                                           *)
(* An operator that stands just before another and extends its name is its   *)
(* mutated form, listed in PROJECT.json; no other definition uses it.        *)
EXTENDS Integers, Sequences

CONSTANTS
    InitialPoses,               \* initial_pose_* of pose_from_odom_publisher
    Twists, Commands,           \* velocities of twist messages and commands
    Fixes,                      \* poses of the localizer
    MaxDt,                      \* max_dt_sec of twist_odom_publisher
    Timeout,                    \* cmd_vel_timeout_sec
    MaxGap,                     \* bound: time between two ticks, or two twists
    MaxSteps,                   \* bound: steps of odometry
    Unset                       \* None

VARIABLES
    source,         \* the odometry node that runs
    initial,        \* the initial pose of pose_from_odom_publisher
    odom,           \* x, y, yaw of the odometry node
    lastStamp,      \* last_stamp of the twist node; stamps count from there
    command, age,   \* linear_x and angular_z, and the time since last_cmd_time
    sinceTick,      \* the time since last_tick_time
    wire,           \* odometry messages on their way to pose_from_odom
    map_to_odom,    \* _map_to_odom
    mapPose,        \* the last pose published
    steps,          \* odometry messages published
    first, last,    \* the first and the last odometry pose received (history)
    anchor,         \* anchor_position, anchor_orientation of publish_odom_from_localization
    fix             \* the last pose it received (history)

velocityVars == <<lastStamp, command, age, sinceTick>>
nodeVars == <<odom, velocityVars, anchor, fix>>
anchorVars == <<map_to_odom, mapPose, first, last>>
vars == <<source, initial, nodeVars, wire, anchorVars, steps>>

Pose(x, y, yaw) == [x |-> x, y |-> y, yaw |-> yaw % 4]
Stopped == [x |-> 0, y |-> 0, turn |-> 0]

Sources == {"twist", "cmd_vel", "localization"}

TypeOK ==
    /\ source \in Sources /\ initial \in InitialPoses
    /\ odom \in [x : Int, y : Int, yaw : 0 .. 3]
    /\ lastStamp \in BOOLEAN /\ age \in 0 .. Timeout + 1 /\ sinceTick \in 0 .. MaxGap
    /\ steps \in 0 .. MaxSteps /\ Len(wire) <= MaxSteps

Init ==
    /\ source \in Sources /\ initial \in InitialPoses
    /\ odom = Pose(0, 0, 0)
    /\ lastStamp = FALSE
    /\ command = Stopped /\ age = Timeout + 1 /\ sinceTick = 0
    /\ wire = <<>> /\ steps = 0
    /\ map_to_odom = Unset /\ mapPose = Unset /\ first = Unset /\ last = Unset
    /\ anchor = Unset /\ fix = Unset

-----------------------------------------------------------------------------
(* Frames.                                                                   *)

Cos(yaw) == <<1, 0, -1, 0>>[(yaw % 4) + 1]
Sin(yaw) == <<0, 1, 0, -1>>[(yaw % 4) + 1]

Turned(x, y, yaw) == [x |-> Cos(yaw) * x - Sin(yaw) * y, y |-> Sin(yaw) * x + Cos(yaw) * y]

compose_planar_transforms(a, b) ==
    LET v == Turned(b.x, b.y, a.yaw) IN Pose(a.x + v.x, a.y + v.y, a.yaw + b.yaw)

inverse_planar_transformUnturned(p) == Pose(-p.x, -p.y, -p.yaw)

inverse_planar_transform(p) ==
    Pose(-(Cos(p.yaw) * p.x + Sin(p.yaw) * p.y), -(-Sin(p.yaw) * p.x + Cos(p.yaw) * p.y), -p.yaw)

(* One step of length dt: the position with the old heading, then the heading. *)
Integrated(p, v, dt) ==
    LET d == Turned(v.x * dt, v.y * dt, p.yaw) IN Pose(p.x + d.x, p.y + d.y, p.yaw + v.turn * dt)

-----------------------------------------------------------------------------
(* The odometry nodes.                                                       *)

Least(a, b) == IF a < b THEN a ELSE b
Most(a, b) == IF a < b THEN b ELSE a

Published ==
    /\ steps < MaxSteps /\ steps' = steps + 1
    /\ wire' = Append(wire, odom')
    /\ UNCHANGED <<source, initial, anchorVars>>

(* publish_odom_from_twist: dt is from the stamps, and may be negative.      *)
TwistCallback(v, dt) ==
    /\ source = "twist"
    /\ odom' = IF lastStamp THEN Integrated(odom, v, Least(Most(dt, 0), MaxDt)) ELSE odom
    /\ lastStamp' = TRUE
    /\ Published
    /\ UNCHANGED <<command, age, sinceTick, anchor, fix>>

(* publish_cmd_vel_odom                                                      *)
CmdVelCallback(v) ==
    /\ source = "cmd_vel"
    /\ command' = [v EXCEPT !.y = 0] /\ age' = 0
    /\ UNCHANGED <<source, initial, odom, lastStamp, sinceTick, anchor, fix, wire, anchorVars, steps>>

Expired == age > Timeout

Tick ==
    /\ source = "cmd_vel" /\ sinceTick > 0
    /\ sinceTick' = 0
    /\ odom' = Integrated(odom, IF Expired THEN Stopped ELSE command, sinceTick)
    /\ Published
    /\ UNCHANGED <<lastStamp, command, age, anchor, fix>>

Elapse ==
    /\ source = "cmd_vel" /\ sinceTick < MaxGap
    /\ sinceTick' = sinceTick + 1 /\ age' = Least(age + 1, Timeout + 1)
    /\ UNCHANGED <<source, initial, odom, lastStamp, command, anchor, fix, wire, anchorVars, steps>>

(* The way from a to p, in the axes of a.                                    *)
Relative(a, p) ==
    LET d == Turned(p.x - a.x, p.y - a.y, -a.yaw) IN Pose(d.x, d.y, p.yaw - a.yaw)

(* publish_odom_from_localization: the first pose is the origin. Its message *)
(* goes to Nav2.                                                             *)
OnPose(p) ==
    /\ source = "localization" /\ steps < MaxSteps /\ steps' = steps + 1
    /\ anchor' = IF anchor = Unset THEN p ELSE anchor
    /\ odom' = Relative(anchor', p) /\ fix' = p
    /\ UNCHANGED <<source, initial, velocityVars, wire, anchorVars>>

-----------------------------------------------------------------------------
(* publish_pose_from_odom: the first message it receives fixes the frame.    *)

OdomCallback ==
    /\ wire # <<>>
    /\ wire' = Tail(wire)
    /\ LET now == Head(wire)
           frame == IF map_to_odom # Unset THEN map_to_odom
                    ELSE compose_planar_transforms(initial, inverse_planar_transform(now))
       IN /\ map_to_odom' = frame
          /\ mapPose' = compose_planar_transforms(frame, now)
          /\ first' = IF first = Unset THEN now ELSE first
          /\ last' = now
    /\ UNCHANGED <<source, initial, nodeVars, steps>>

(* It starts late, or its queue overflows.                                   *)
Lose == wire # <<>> /\ wire' = Tail(wire) /\ UNCHANGED <<source, initial, nodeVars, anchorVars, steps>>

Next ==
    \/ \E v \in Twists, dt \in -1 .. MaxGap : TwistCallback(v, dt)
    \/ \E v \in Commands : CmdVelCallback(v)
    \/ \E p \in Fixes : OnPose(p)
    \/ Tick \/ Elapse \/ OdomCallback \/ Lose

Spec == Init /\ [][Next]_vars

-----------------------------------------------------------------------------

(* How far q is ahead and to the left of p, and how far it is turned.        *)
Seen(p, q) ==
    LET d == <<q.x - p.x, q.y - p.y>>
        ahead == <<Cos(p.yaw), Sin(p.yaw)>>
    IN <<d[1] * ahead[1] + d[2] * ahead[2], d[2] * ahead[1] - d[1] * ahead[2], (q.yaw - p.yaw) % 4>>

(* Whenever the anchoring node started and whatever messages it lost, the    *)
(* robot stands to its initial pose in the map as the last odometry received *)
(* stands to the first (map_to_odom is latched and composed). The same holds *)
(* of odometry that is made from the localizer's poses.                      *)
MotionPreserved ==
    /\ mapPose # Unset => Seen(initial, mapPose) = Seen(first, last)
    /\ fix # Unset => Seen(Pose(0, 0, 0), odom) = Seen(anchor, fix)
=============================================================================
