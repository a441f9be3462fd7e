--------------------------- MODULE MCOfflineScripts ---------------------------
(* The offline tools of lidar_localization_ros2. They do not touch each      *)
(* other's files: a behaviour is one of one tool, the others rest.           *)
EXTENDS ResetPipeline

CONSTANTS
    Steps, Samples, Poses, Threshold, MaxSteps,            \* of MeasurementGates
    Recordings, Selections, Inputs, MaxInvocations,        \* of ImuComparison
    Arguments, Clouds, Statuses                            \* of BringupDoctor

Trajectory == <<1, 2, 4>>
MapCells == <<1, 2, 4>>
Found == (1 :> <<<<2, 1>>, <<1, 0>>>> @@ 3 :> <<>>)

Seeds == {<<place, yaw>> : place \in 1 .. 4, yaw \in 0 .. 1}
Ends(s, d) == [target |-> TRUE, converged |-> TRUE, score |-> s, delta |-> d]

(* The score tells the place; or the best seed is far away from *)
(* where it ends, or does not converge.                                      *)
Vague(t, p)    == Ends(1 + Distance(p[1], t), 0)
Drifting(t, p) == IF p[1] = 2 THEN Ends(1, 3) ELSE Ends(p[1] + 2, 0)
Diverging(t, p) == [Ends(Distance(p[1], t), 0) EXCEPT !.converged = p[1] # t, !.target = p[1] # 4]
Field(F(_, _)) == [t \in 1 .. MaxRows |-> [p \in Seeds |-> F(t, p)]]
SomeFields == {Field(Vague), Field(Drifting), Field(Diverging)}

-----------------------------------------------------------------------------
(* Steps and samples on both sides of the thresholds of every policy.        *)
MCSteps == [fit : {60, 61, 121}, corr : {10, 11, 25, 30, 101}, yaw : {0, -81}]
MCSamples == [fit : {52, 53, 56, 61, 10000}, corr : {15, 20, 21}, yaw : {20, 35, 40},
              seed : {0, 10, 150, 1000}, gap : {10, 200, 300}, rejected : {0, 1, 3, 200},
              imu : BOOLEAN, threshold : {60},
              kind : {"rejected_measurement", "target_unavailable", "no_target_map"}]
MCPoses == [std : {5, 6, 30, 31}, rejected : {0, 2, 3}, reinit : BOOLEAN,
            category : {"healthy", "weak_overlap", "new_category"}]

(* Good rows, a row before the IMU contributes, a row of the fallback.       *)
Recorded(i, f, n, s, a) == [imu |-> i, fallback |-> f, integrated |-> n, seed |-> s, applied |-> a]
GoodRow == Recorded("active", FALSE, 5, "imu_preintegration", TRUE)
LidarRow == Recorded("available", FALSE, 0, "odom", FALSE)
MCRecordings == {<<GoodRow, GoodRow, LidarRow>>, <<GoodRow, GoodRow, [GoodRow EXCEPT !.fallback = TRUE]>>}
Given(bag, imu, reference) == [bag |-> bag, cloud |-> TRUE, imu |-> imu, map |-> TRUE, reference |-> reference]
MCInputs == {Given("metadata", TRUE, "none"), Given("metadata", FALSE, "given"), Given("file", TRUE, "given"),
             Given("file", TRUE, "missing"), [Given("metadata", TRUE, "none") EXCEPT !.map = FALSE]}
MCSelections == {<<"deskew">>, <<"lidar_only", "imu_preintegration">>}

MCArguments == [profile : {"standalone", "nav2", "mid360"}, enable_imu : {FALSE}, deskew : BOOLEAN,
                require_time : BOOLEAN, imu_mode : {"profile", "off", "legacy"}]
                 \cup [profile : {"nav2"}, enable_imu : {TRUE}, deskew : {FALSE}, require_time : {FALSE},
                       imu_mode : {"off"}]
MCClouds == [xyz : {TRUE}, time : BOOLEAN, frame : {TRUE}] \cup {[xyz |-> FALSE, time |-> TRUE, frame |-> FALSE]}
Diagnosis(l, i, s, d, a) == [level |-> l, imu |-> i, scan |-> s, deskew |-> d, applied |-> a]
MCStatuses ==
    {Diagnosis(0, "prediction_active", "range_ready", "ready", "applied"),
     Diagnosis(2, "prediction_available", "newer_status", "none", "none"),
     Diagnosis(0, "disabled", "field_missing", "imu_preintegration_disabled", "imu_preintegration_disabled"),
     Diagnosis(0, "stale_imu", "range_ready", "none", "disabled"),
     Diagnosis(1, "waiting_for_smoother_initialization", "none", "waiting_for_smoother_initialization", "waiting_for_smoother"),
     Diagnosis(0, "waiting_for_new_imu", "none", "none", "none")}

-----------------------------------------------------------------------------
VARIABLES
    tool,                                                  \* the tool at work
    variant, index, rejected, run, streak, absorbed,       \* MeasurementGates
    hazards, trigger, decision, vetoes, refreshed,
    now, chosen, todo, failed, code, dir, imuPlan, comparison, report,   \* ImuComparison
    args, params, required, cloud, imu, pose, status, results            \* BringupDoctor

Gates == INSTANCE MeasurementGates
Comparing == INSTANCE ImuComparison WITH plan <- imuPlan
Doctor == INSTANCE BringupDoctor WITH None <- NoFile

(* argparse's choices: only modes can be selected.                           *)
ASSUME SelectionsAssumption == Selections \subseteq Seq(Comparing!Modes)

gatesVars == <<variant, index, rejected, run, streak, absorbed, hazards, trigger, decision, vetoes, refreshed>>
comparingVars == <<now, chosen, todo, failed, code, dir, imuPlan, comparison, report>>
doctorVars == <<args, params, required, cloud, imu, pose, status, results>>

(* A tool that rests does so in one of its initial states.                   *)
OfflineInit ==
    /\ tool \in {"reset", "gates", "comparison", "doctor"}
    /\ Init /\ Gates!Init /\ Comparing!Init /\ Doctor!Init
    /\ tool # "reset" => field = Field(Vague)
    /\ tool # "gates" => variant = "fixed_threshold"
    /\ tool # "doctor" => args = [profile |-> "nav2", enable_imu |-> TRUE, deskew |-> FALSE,
                                  require_time |-> FALSE, imu_mode |-> "off"]

OfflineNext ==
    /\ UNCHANGED tool
    /\ \/ tool = "reset" /\ Next /\ UNCHANGED <<gatesVars, comparingVars, doctorVars>>
       \/ tool = "gates" /\ Gates!Next /\ UNCHANGED <<vars, comparingVars, doctorVars>>
       \/ tool = "comparison" /\ Comparing!Next /\ UNCHANGED <<vars, gatesVars, doctorVars>>
       \/ tool = "doctor" /\ Doctor!Next /\ UNCHANGED <<vars, gatesVars, comparingVars>>

OfflineSpec == OfflineInit /\ [][OfflineNext]_<<tool, vars, gatesVars, comparingVars, doctorVars>>

(* MeasurementGates: good scores are refused by twos, degraded ones between. *)
VetoNeedsRefresh == Gates!VetoNeedsRefresh
(* ImuComparison: what exit code 0 says of the runs.                         *)
ZeroVouches == Comparing!ZeroVouches
(* BringupDoctor: what a passing doctor says of the configuration.           *)
PassMeansUsable == Doctor!PassMeansUsable
=============================================================================
