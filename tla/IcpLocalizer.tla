----------------------------- MODULE IcpLocalizer -----------------------------
(***************************************************************************)
(* The retained ICP localizer, src/localizer.py: a node with one timer     *)
(* (_localize) and two subscriptions, run by one executor thread, so each  *)
(* callback is a step.  It keeps T_map_cam, the transform the next match   *)
(* starts from, and T_published, the smoothed transform it broadcasts.     *)
(*                                                                         *)
(* Transforms are reduced to a position on a line; what registration       *)
(* returns (a position, a fitness, whether the residual and the attitude   *)
(* are acceptable) is any value the search could return, subject only to   *)
(* the bounds of the search itself.                                        *)
(*                                                                         *)
(* An operator that stands just before another and extends its name is its *)
(* mutated form, listed in PROJECT.json; no other definition uses it.      *)
(***************************************************************************)
EXTENDS Integers, FiniteSetsExt

CONSTANTS Positions,          \* an interval of integers
          Hint,               \* initial_pose
          MaxFit,             \* fitness is 0..MaxFit, -1 when nothing matched
          MinFitness, MinFitnessReloc, ConfidenceTh, JumpFitnessMargin,
          MaxDposePerTick, MapDriftRate, SpeedGain,
          MaxInitDist, MaxRecoveryDrift, RelocalizeAfter, SettleTicks,
          DisUpdateMap,
          Sparse,             \* positions around which the map has under 200 points
          MaxSpeed,           \* bound: the robot's speed
          Nowhere             \* no local map subset has been cut out

VARIABLES freeze,      \* freeze_after_init, fixed at the start
          pose,        \* T_map_cam
          published,   \* _T_published
          filter,      \* _kf_x: the Kalman filters' state
          initialized, lost, settle,
          centre,      \* _local_map_centre
          speed,       \* _robot_speed
          moved,       \* _last_odom_pos is set
          cloud,       \* what _latest_cloud holds
          gravity,     \* _cam_to_world_R is set
          frozen,      \* _frozen_static_published
          sent,        \* the transform last broadcast; Nowhere before the first
          latched,     \* the static transform; Nowhere before it is sent
          matches      \* history: matches taken since the last lock

inputs == <<speed, moved, cloud, gravity>>
tracking == <<pose, published, filter, initialized, lost, settle, centre>>
output == <<frozen, sent, latched>>
vars == <<freeze, tracking, inputs, output, matches>>

Dist(a, b) == IF a < b THEN b - a ELSE a - b

TypeOK ==
    /\ {freeze, initialized, moved, gravity, frozen} \subseteq BOOLEAN
    /\ {pose, published, filter} \subseteq Positions
    /\ {centre, sent, latched} \subseteq Positions \union {Nowhere}
    /\ lost \in 0..RelocalizeAfter /\ settle \in 0..SettleTicks
    /\ speed \in 0..MaxSpeed
    /\ cloud \in {"none", "few", "scan"}
    /\ matches \subseteq Positions

Init ==
    /\ freeze \in BOOLEAN
    /\ pose = Hint /\ published = Hint /\ filter = Hint
    /\ initialized = FALSE /\ lost = 0 /\ settle = 0 /\ centre = Nowhere
    /\ speed = 0 /\ moved = FALSE /\ cloud = "none" /\ gravity = FALSE
    /\ frozen = FALSE /\ sent = Nowhere /\ latched = Nowhere
    /\ matches = {}

-----------------------------------------------------------------------------
(* Registration: what the numeric search may hand back.                    *)

Match(T, fit, sharp, upright) == [T |-> T, fit |-> fit, sharp |-> sharp, upright |-> upright]

\* Nothing passed the seeds or the scales were all too small: the start pose
\* with fitness -1 and an infinite residual.
NoMatch(start) == Match(start, -1, FALSE, TRUE)

Matches == [T : Positions, fit : 0..MaxFit, sharp : BOOLEAN, upright : BOOLEAN]

\* multi_scale_icp_point_to_plane hands its start back when all scales are too
\* small; else nothing bounds where the fine cascade ends.
Cascaded(start) == Matches \union {NoMatch(start)}

\* global_icp_point_to_plane: seeds that drifted too far are discarded, and
\* when all did the start is handed back.
YawSeeded(start) == {m \in Matches : Dist(m.T, start) <= MaxInitDist} \union {NoMatch(start)}

\* _run_global_icp: FPFH+RANSAC has no bound at all; the coarse seeds have one,
\* the cascade that refines the best of them does not, but may do nothing.
GlobalMatches(start) == Matches \union {NoMatch(seed.T) : seed \in YawSeeded(start)}

\* _run_track_icp: from the last pose; icp_2d and the projection to yaw keep
\* it upright.
TrackMatches(start) == Cascaded(start)

\* Smoothing moves from the old value towards the new one, by some share.
Between(a, b) == {x \in Positions : Min({a, b}) <= x /\ x <= Max({a, b})}

\* _rebuild_local_map around a position, which a sparse place refuses.
Rebuilt(at) == IF at \in Sparse THEN centre ELSE at

-----------------------------------------------------------------------------
(* Subscriptions and the transform listener.                               *)

CloudCb(size) ==
    /\ cloud' = size
    /\ UNCHANGED <<freeze, tracking, speed, moved, gravity, output, matches>>

\* The first odometry message only sets the position; a step of time too
\* small leaves the speed as it was.
OdomCb(v) ==
    /\ moved' = TRUE
    /\ speed' = IF moved THEN v ELSE speed
    /\ UNCHANGED <<freeze, tracking, cloud, gravity, output, matches>>

-----------------------------------------------------------------------------
(* The timer.                                                              *)

\* Frozen: the lock is latched once as a static transform, and no scan is
\* looked at again.
LocalizeFrozen ==
    /\ freeze /\ initialized
    /\ ~frozen
    /\ frozen' = TRUE
    /\ latched' = published
    /\ UNCHANGED <<freeze, tracking, inputs, sent, matches>>

\* The gravity transform is looked up until it is there; the tick that finds
\* it goes on to the scan, if there is one.
GravityOnly ==
    /\ ~(freeze /\ initialized)
    /\ ~gravity
    /\ gravity' = TRUE
    /\ cloud # "scan"
    /\ UNCHANGED <<freeze, tracking, speed, moved, cloud, output, matches>>

ScanReady ==
    /\ ~(freeze /\ initialized)
    /\ gravity' = TRUE
    /\ cloud = "scan"
    /\ UNCHANGED <<freeze, speed, moved, cloud, frozen, latched>>

LockUnseeded(T) ==
    /\ pose' = T /\ published' = T
    /\ lost' = 0
    /\ settle' = SettleTicks
    /\ centre' = Rebuilt(T)
    /\ matches' = {T}
    /\ UNCHANGED filter

\* A lock, at start or after a loss: the filters and the broadcast transform
\* start again from it, and tracking gets its grace.
Lock(T) ==
    /\ pose' = T /\ filter' = T /\ published' = T
    /\ lost' = 0
    /\ settle' = SettleTicks
    /\ centre' = Rebuilt(T)
    /\ matches' = {T}

GoodStart(m) == m.fit >= MinFitnessReloc /\ m.upright /\ Dist(m.T, Hint) <= MaxInitDist

FirstLocalize ==
    /\ ScanReady
    /\ ~initialized
    /\ \E m \in GlobalMatches(pose) :
        \/ /\ GoodStart(m)
           /\ Lock(m.T)
           /\ initialized' = TRUE
        \/ /\ ~GoodStart(m)
           /\ published' = m.T
           /\ UNCHANGED <<pose, filter, initialized, lost, settle, centre, matches>>
    /\ sent' = published'

\* What the transform between two fixed frames may move in one tick.
Budget == IF settle > 0 THEN MaxDposePerTick ELSE MapDriftRate + speed * SpeedGain

\* prior: the fitness the scan has at the last pose, without ICP.
Justified(m, prior) == m.fit >= prior + JumpFitnessMargin

\* _lost_count is compared with relocalize_after_n_losses and no further.
Lost == Min({lost + 1, RelocalizeAfter})

Accepted(m, prior) ==
    /\ m.fit >= MinFitness
    /\ m.sharp
    /\ m.upright
    /\ Dist(m.T, pose) <= MaxDposePerTick
    /\ Dist(m.T, pose) <= Budget \/ Justified(m, prior)

\* One step of the filter, only for a match it can be confident in.
Smoothed(m) ==
    IF m.fit >= ConfidenceTh
    THEN filter' \in Between(filter, m.T) /\ published' = filter'
    ELSE UNCHANGED <<filter, published>>

TrackAccepted ==
    /\ ScanReady
    /\ initialized
    /\ \E m \in TrackMatches(pose), prior \in 0..MaxFit :
        /\ Accepted(m, prior)
        /\ pose' = m.T
        /\ Smoothed(m)
        /\ centre' = IF centre = Nowhere \/ Dist(m.T, centre) > DisUpdateMap
                     THEN Rebuilt(m.T) ELSE centre
        /\ matches' = matches \union {m.T}
    /\ lost' = 0
    /\ settle' = Max({settle - 1, 0})
    /\ sent' = published'
    /\ UNCHANGED initialized

\* A rejected match, as NoMatch always is, counts as a loss.
TrackRejected ==
    /\ ScanReady
    /\ initialized
    /\ lost + 1 < RelocalizeAfter
    /\ lost' = Lost
    /\ settle' = Max({settle - 1, 0})
    /\ sent' = published
    /\ UNCHANGED <<pose, published, filter, initialized, centre, matches>>

GoodRecovery(m) ==
    /\ m.fit >= MinFitnessReloc
    /\ m.sharp
    /\ m.upright
    /\ Dist(m.T, pose) <= MaxRecoveryDrift

\* Enough losses in a row: a global search at every further tick.
TrackRelocalized ==
    /\ ScanReady
    /\ initialized
    /\ lost + 1 >= RelocalizeAfter
    /\ \E m \in GlobalMatches(pose) :
        \/ GoodRecovery(m) /\ Lock(m.T)
        \/ /\ ~GoodRecovery(m)
           /\ lost' = Lost
           /\ settle' = Max({settle - 1, 0})
           /\ UNCHANGED <<pose, published, filter, centre, matches>>
    /\ sent' = published'
    /\ UNCHANGED initialized

Next ==
    \/ \E size \in {"few", "scan"} : CloudCb(size)
    \/ \E v \in 0..MaxSpeed : OdomCb(v)
    \/ LocalizeFrozen \/ GravityOnly
    \/ FirstLocalize \/ TrackAccepted \/ TrackRejected \/ TrackRelocalized

Spec == Init /\ [][Next]_vars

-----------------------------------------------------------------------------

\* What is broadcast after a lock lies among the matches taken since that
\* lock: smoothing never overshoots, and no filter carries a position over
\* from before a re-localization (_smooth_tf, _seed_kalmans_from_T).
PublishedWithinMatches ==
    initialized => /\ pose \in matches
                   /\ \E low, high \in matches : low <= published /\ published <= high
                   /\ \E low, high \in matches : low <= filter /\ filter <= high
=============================================================================
