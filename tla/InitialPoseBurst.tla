--------------------------- MODULE InitialPoseBurst ---------------------------
(* nav2_navigation.launch.py starts a localization backend and, if asked,    *)
(* the node of republish_initialpose_on_reinit.py, which answers a standing  *)
(* reinitialization request with bursts of initial poses. Both are given the *)
(* initial pose along different ways.                                        *)
(*                                                                           *)
(* Times are kept as ages: how long ago the last pose was published, and how *)
(* long until the next one. A pose is a name.                                *)
(*                                                                           *)
(* An operator that stands just before another and extends its name is its   *)
(* mutated form, listed in PROJECT.json; no other definition uses it.        *)
EXTENDS Integers

CONSTANTS
    Poses,                      \* poses in the map
    Counts,                     \* publish_count, as configured
    Intervals, Cooldowns,       \* publish_interval_sec, republish_cooldown_sec
    MaxTime,                    \* bound: ages are told apart up to here
    Unset                       \* None, and a launch argument left empty

VARIABLES
    args,               \* the launch arguments, and what the parameter file says
    started,            \* the pose the backend starts at
    latest_pose, request_active, pending_publish_count,
    sinceLast,          \* now - last_publish_time
    untilNext,          \* next_publish_time - now, 0 when it is past
    recent,             \* poses sent since a pause of a cooldown (history)
    reset               \* the last pose sent, and what it was made from (history)

node == <<latest_pose, request_active, pending_publish_count, sinceLast, untilNext>>
vars == <<args, started, node, recent, reset>>

Least(a, b) == IF a < b THEN a ELSE b
Most(a, b) == IF a < b THEN b ELSE a

Arguments == [demo : BOOLEAN,                                  \* use_odom_localization_demo
              set : BOOLEAN \cup {Unset}, initial : Poses,     \* set_initial_pose, initial_pose_*
              fileSet : BOOLEAN, file : Poses,                 \* the same in localization_param_dir
              latest : BOOLEAN, count : Counts, interval : Intervals, cooldown : Cooldowns]

-----------------------------------------------------------------------------
(* The launch.                                                               *)

_rewrite_localization_paramsSwitchOnly(a) ==
    [set |-> IF a.set = Unset THEN a.fileSet ELSE a.set, initial |-> a.file]

(* An argument left empty leaves the file's value; the pose replaces the     *)
(* file's only together with set_initial_pose:=true.                         *)
_rewrite_localization_params(a) ==
    [set |-> IF a.set = Unset THEN a.fileSet ELSE a.set,
     initial |-> IF a.set = TRUE THEN a.initial ELSE a.file]

(* pose_from_odom_publisher is given the arguments; the localizer starts at  *)
(* its parameter's pose if it is to set one, else it waits for /initialpose. *)
_start_localization(a) ==
    LET params == _rewrite_localization_params(a)
    IN IF a.demo THEN a.initial ELSE IF params.set THEN params.initial ELSE Unset

(* The republisher's clamps, and its initial_pose.                           *)
publish_count == Most(1, args.count)
publish_interval == Most(1, args.interval)
republish_cooldown == Most(publish_interval, args.cooldown)
initial_pose == args.initial

Init ==
    /\ args \in Arguments
    /\ started = _start_localization(args)
    /\ latest_pose = Unset /\ request_active = FALSE /\ pending_publish_count = 0
    /\ sinceLast = Unset /\ untilNext = Unset
    /\ recent = 0 /\ reset = Unset

-----------------------------------------------------------------------------
(* The republisher.                                                          *)

Elapse ==
    /\ sinceLast' = IF sinceLast = Unset THEN Unset ELSE Least(sinceLast + 1, MaxTime)
    /\ untilNext' = IF untilNext = Unset THEN Unset ELSE Most(untilNext - 1, 0)
    /\ UNCHANGED <<args, started, latest_pose, request_active, pending_publish_count, recent, reset>>

OnPose(p) ==
    /\ latest_pose' = p
    /\ UNCHANGED <<args, started, request_active, pending_publish_count, sinceLast, untilNext, recent, reset>>

CoolingBurst == pending_publish_count > 0

Cooling == pending_publish_count > 0 \/ (sinceLast # Unset /\ sinceLast < republish_cooldown)

_start_burst_if_due ==
    IF Cooling
    THEN UNCHANGED <<pending_publish_count, untilNext>>
    ELSE pending_publish_count' = publish_count /\ untilNext' = 0

OnRequest ==
    /\ request_active' = TRUE
    /\ _start_burst_if_due
    /\ UNCHANGED <<args, started, latest_pose, sinceLast, recent, reset>>

OnRequestCleared ==
    /\ request_active' = FALSE /\ pending_publish_count' = 0 /\ untilNext' = Unset
    /\ UNCHANGED <<args, started, latest_pose, sinceLast, recent, reset>>

(* The latest pose of the backend, if it is to be used and there is one.     *)
_make_pose_message ==
    IF args.latest /\ latest_pose # Unset
    THEN [pose |-> latest_pose, from |-> "latest"]
    ELSE [pose |-> initial_pose, from |-> "configured"]

_publish_once ==
    /\ reset' = _make_pose_message
    /\ recent' = IF sinceLast = Unset \/ sinceLast >= republish_cooldown THEN 1 ELSE recent + 1
    /\ sinceLast' = 0
    /\ pending_publish_count' = pending_publish_count - 1
    /\ untilNext' = IF pending_publish_count > 1 THEN publish_interval ELSE Unset

TickPublish ==
    /\ request_active /\ pending_publish_count > 0 /\ untilNext = 0
    /\ _publish_once
    /\ UNCHANGED <<args, started, latest_pose, request_active>>

TickStart ==
    /\ request_active /\ pending_publish_count = 0
    /\ _start_burst_if_due
    /\ UNCHANGED <<args, started, latest_pose, request_active, sinceLast, recent, reset>>

Next ==
    \/ Elapse
    \/ \E p \in Poses : OnPose(p)
    \/ OnRequest \/ OnRequestCleared \/ TickPublish \/ TickStart

Spec == Init /\ [][Next]_vars

TypeOK ==
    /\ args \in Arguments
    /\ started \in Poses \cup {Unset} /\ latest_pose \in Poses \cup {Unset}
    /\ request_active \in BOOLEAN /\ pending_publish_count \in 0 .. publish_count
    /\ sinceLast \in (0 .. MaxTime) \cup {Unset} /\ untilNext \in (0 .. publish_interval) \cup {Unset}

-----------------------------------------------------------------------------

(* However the request comes and goes, and however late the timer is, the    *)
(* backend gets no more than one burst of poses until none came for a        *)
(* cooldown (_start_burst_if_due, _publish_once, and their clamps).          *)
BurstBounded == recent <= publish_count

(* A reset to the configured pose asks for the pose the backend was started  *)
(* at, when the launch was told to set one: the parameter file's pose does   *)
(* not get in between (_rewrite_localization_params, _make_pose_message).    *)
SameInitialPose ==
    /\ reset # Unset /\ reset.from = "configured"
    /\ args.demo \/ args.set = TRUE
    => reset.pose = started
=============================================================================
