---------------------------- MODULE MCLocalization ----------------------------
(* Finding and keeping the robot's place: the global search, the ICP         *)
(* localizer, the compensation of the supervisor's seeds, the odometry of    *)
(* the Nav2 launch and its republisher of initial poses. They meet only      *)
(* through ROS topics, and each is open to whatever a topic brings: a        *)
(* behaviour is one of one part, and the others rest where they start.       *)
EXTENDS SeedMotion, SequencesExt

CONSTANTS
    Width, Height, Depth, Yaws, MaxCandidates, Radii,                   \* BranchAndBound
    Tasks, Factor, DilateCells, MinScore, ScoreGate, Fitness, RefineCount, Configs,     \* GlobalQuery
    Corridor, RobotSpeed,               \* IcpLocalizer: Positions, MaxSpeed and
    Hint, MaxFit, MinFitness, MinFitnessReloc, ConfidenceTh, JumpFitnessMargin,
    MaxDposePerTick, MapDriftRate, SpeedGain, MaxInitDist, MaxRecoveryDrift,
    RelocalizeAfter, SettleTicks, DisUpdateMap, Sparse, Nowhere,
    InitialPoses, Twists, Commands, PoseFixes, MaxDt, Timeout, MaxGap, MaxSteps,    \* OdomFrames: Fixes and
    AgeHorizon, BurstPoses, Counts, Intervals, Cooldowns    \* InitialPoseBurst: MaxTime, Poses and

VARIABLES
    part,                                                               \* the part at work
    grid, scan, taken, upper_bound_pyramid, radius, heap, sequence, best, found,                    \* BranchAndBound
    config, received, stage, waiting, ranked, answer,                   \* GlobalQuery
    freeze, pose, published, filter, initialized, lost, settle, centre,
    speed, moved, cloud, gravity, frozen, sent, latched, matches,       \* IcpLocalizer
    source, initial, odom, lastStamp, command, age, sinceTick, wire,
    map_to_odom, mapPose, steps, first, last, anchor, fix,              \* OdomFrames
    args, started, latest_pose, request_active, pending_publish_count,
    sinceLast, untilNext, recent, reset                                 \* InitialPoseBurst

searchVars == <<grid, scan, taken, upper_bound_pyramid, radius, heap, sequence, best, found, config, received, stage,
                waiting, ranked, answer>>
trackVars == <<freeze, pose, published, filter, initialized, lost, settle, centre, speed,
               moved, cloud, gravity, frozen, sent, latched, matches>>
odomVars == <<source, initial, odom, lastStamp, command, age, sinceTick, wire, map_to_odom,
              mapPose, steps, first, last, anchor, fix>>
burstVars == <<args, started, latest_pose, request_active, pending_publish_count, sinceLast,
               untilNext, recent, reset>>

-----------------------------------------------------------------------------
(* Replies of the query node tell both times or, from another node, neither. *)
SomeReplies == {<<TRUE, TRUE>>, <<FALSE, FALSE>>}

(* A survey of the ground's corners, a kerb and some pillars, in quarters of *)
(* a matching cell, padded by more than a block of the pyramid's top level, and *)
(* scans that see some of the pillars and a stranger.                        *)
Charts == INSTANCE OccupancyMap WITH
    Resolution <- 2, ObstacleHeight <- 2, MinPoints <- 2, InflateRadius <- 1,
    Padding <- 16, RoutePadding <- 16, GroundBand <- 1,
    ZMin <- 0, ZMax <- 5, MinRange <- 2, VoxelSize <- 2, MaxScanPoints <- 2, MatchingCell <- 4

Corners == {Charts!Point(16, 16, 0), Charts!Point(26, 26, 0)}
Kerb == {Charts!Point(17, 18, 0), Charts!Point(17, 18, 1)}
Pillars == {<<22, 26>>, <<26, 22>>}
Stranger == <<22, 19>>
OfPillar(at) == {Charts!Point(at[1], at[2], z) : z \in {0, 1, 3, 4}}

Survey(pillars) == Corners \union Kerb \union UNION {OfPillar(at) : at \in pillars}

\* An invalid return, then what stands there, from a sensor one unit up.
Returns(seen, from, yaw) ==
    <<Charts!Point(0, 0, 0)>> \o
    [i \in 1 .. Cardinality(seen) |->
        LET at == SetToSeq(seen)[i]
        IN Charts!Turned(Charts!Point(at[1] - from[1], at[2] - from[2], 2), yaw)]

SomeRegions == {[mode |-> "full_map"], [mode |-> "reference_csv", route |-> Corners, ground |-> 0]}
SomeCharts ==
    {[pillars |-> pillars, map |-> Charts!load_occupancy_map(Charts!Image(Survey(pillars), region))] :
        pillars \in SUBSET Pillars, region \in SomeRegions}

Task(chart, seen, from, yaw) ==
    [map   |-> chart.map,
     scan  |-> Charts!Offsets(Returns(seen, from, yaw), {0, 1}),
     taken |-> IF seen \subseteq chart.pillars THEN <<<<from[1] \div 4, from[2] \div 4>>, yaw>> ELSE Unset]

SomeTasks == {Task(chart, seen, from, yaw) :
                 chart \in SomeCharts, seen \in SUBSET (Pillars \union {Stranger}),
                 from \in {<<18, 18>>, <<23, 17>>}, yaw \in {0, 1}}

SomeConfigs == {c \in [first : BOOLEAN, move : BOOLEAN, final : BOOLEAN] : c.move = c.final /\ (c.final => c.first)}

Search == INSTANCE GlobalQuery WITH cloud <- received, reply <- answer

ASSUME SearchAssumption ==
    /\ Width \in Nat \ {0} /\ Height \in Nat \ {0} /\ Depth \in Nat
    /\ Yaws \subseteq Nat /\ IsFiniteSet(Yaws)
    /\ MaxCandidates \in Nat \ {0} /\ Radii \subseteq Nat
    /\ ScoreGate \in Nat /\ Fitness \subseteq Nat /\ RefineCount \in Nat
    /\ \A t \in Tasks : t.scan \in [Yaws -> Seq(Int \X Int)]

(* What stands in a map keeps a block of the pyramid's top level away from   *)
(* its lower borders.                                                        *)
ASSUME PaddingAssumption == \A t \in Tasks : \A c \in Search!MatchingGrid(t.map) :
    c[1] >= Search!Step(Search!StartLevel) /\ c[2] >= Search!Step(Search!StartLevel)

(* A corridor in units of about 0.3 m, headings of the odometry in quarter   *)
(* turns, and bursts of poses. What they are, and how the localizer, the     *)
(* odometry and the republisher are set up, is the configuration's.          *)
Tracks == INSTANCE IcpLocalizer WITH Positions <- Corridor, MaxSpeed <- RobotSpeed

Odometry == INSTANCE OdomFrames WITH Fixes <- PoseFixes

Bursts == INSTANCE InitialPoseBurst WITH MaxTime <- AgeHorizon, Poses <- BurstPoses

Velocity(x, y, turn) == [x |-> x, y |-> y, turn |-> turn]
Place(x, y, yaw) == [x |-> x, y |-> y, yaw |-> yaw]

SomePlaces == {Place(0, 0, 0), Place(2, 1, 3)}
SomeFixes == {Place(0, 0, 0), Place(2, 1, 3), Place(-1, 2, 1)}
SomeVelocities == {Velocity(1, 0, 0), Velocity(1, 1, 1)}

-----------------------------------------------------------------------------
(* A part that rests does so in one of its initial states.                   *)
Resting(p, state) == part = p \/ (part # p /\ state)

LocalizationInit ==
    /\ part \in {"seeds", "search", "tracks", "odometry", "bursts"}
    /\ Resting("search", grid = {} /\ scan = [yaw \in Yaws |-> <<>>] /\ taken = <<<<4, 4>>, 0>>
                         /\ radius = 0 /\ config = [first |-> FALSE, move |-> FALSE, final |-> FALSE])
    /\ Resting("tracks", freeze = TRUE)
    /\ Resting("odometry", source = "twist" /\ initial = Place(0, 0, 0))
    /\ Resting("bursts", args = [demo |-> TRUE, set |-> TRUE, initial |-> "here", fileSet |-> TRUE,
                                 file |-> "here", latest |-> TRUE, count |-> 2, interval |-> 1, cooldown |-> 3])
    /\ Init /\ Search!Init /\ Tracks!Init /\ Odometry!Init /\ Bursts!Init

LocalizationNext ==
    /\ UNCHANGED part
    /\ \/ part = "seeds" /\ Next /\ UNCHANGED <<searchVars, trackVars, odomVars, burstVars>>
       \/ part = "search" /\ Search!Next /\ UNCHANGED <<vars, trackVars, odomVars, burstVars>>
       \/ part = "tracks" /\ Tracks!Next /\ UNCHANGED <<vars, searchVars, odomVars, burstVars>>
       \/ part = "odometry" /\ Odometry!Next /\ UNCHANGED <<vars, searchVars, trackVars, burstVars>>
       \/ part = "bursts" /\ Bursts!Next /\ UNCHANGED <<vars, searchVars, trackVars, odomVars>>

all == <<part, vars, searchVars, trackVars, odomVars, burstVars>>

LocalizationSpec == LocalizationInit /\ [][LocalizationNext]_all

-----------------------------------------------------------------------------

(* GlobalQuery: a reply compares the scores of one pass only.                *)
OneVoxelization == Search!OneVoxelization
(* BranchAndBound: the search returns what an exhaustive one would; later    *)
(* stages of a query leave its result alone.                                 *)
Exhaustive == stage = "search" => Search!Exhaustive
(* BranchAndBound: a scan of what the map knows finds its place.             *)
TruePoseFound == Search!TruePoseFound
(* IcpLocalizer: the broadcast pose lies among the matches since the lock.   *)
PublishedWithinMatches == Tracks!PublishedWithinMatches
(* OdomFrames: the robot moves in the map as its odometry says.              *)
MotionPreserved == Odometry!MotionPreserved
(* InitialPoseBurst: one burst of poses in a cooldown.                       *)
BurstBounded == Bursts!BurstBounded
(* InitialPoseBurst: the republisher resets to where the backend started.    *)
SameInitialPose == Bursts!SameInitialPose
=============================================================================
