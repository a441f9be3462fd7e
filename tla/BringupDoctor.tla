---------------------------- MODULE BringupDoctor ----------------------------
(***************************************************************************)
(* First bringup of the localizer: create_lidar_localization_config.py     *)
(* writes a parameter file and prints a launch command and a doctor        *)
(* command; check_lidar_localization_bringup.py listens for a while and    *)
(* judges topics, transforms, poses and diagnostics (bringup_model.py,     *)
(* ros_doctor.py).  The user may add requirements to the doctor's command. *)
(*                                                                         *)
(* An operator that stands just before another and extends its name is its *)
(* mutated form, listed in PROJECT.json; no other definition uses it.      *)
(***************************************************************************)
EXTENDS Naturals, FiniteSets

CONSTANTS
    Arguments,    \* how the config tool is called
    Clouds,       \* [xyz, time, frame]: clouds on cloud_topic
    Statuses,     \* [level, imu, scan, deskew, applied]: messages on /alignment_status
    None          \* nothing received, nothing printed

Profiles == {"standalone", "nav2", "mid360"}
Transforms == {"base<-lidar", "base<-imu", "odom<-base", "map<-odom"}
Requirements == {"imu", "cloud_time", "imu_tf", "odom_tf", "map_tf", "output"}

VARIABLES
    args,          \* the config tool's arguments
    params,        \* what it wrote
    required,      \* what the doctor requires
    cloud, imu, pose, status,   \* TopicStats: what was received last
    results        \* what the doctor reported, None before

stats == <<cloud, imu, pose, status>>
vars == <<args, params, required, stats, results>>

-----------------------------------------------------------------------------
(* create_lidar_localization_config *)

\* PROFILE_DEFAULTS
DefaultImuMode(profile) == IF profile = "mid360" THEN "preintegration" ELSE "off"

EffectiveImuMode(a) ==
    IF a.enable_imu THEN "both"
    ELSE IF a.imu_mode # "profile" THEN a.imu_mode ELSE DefaultImuMode(a.profile)

Preintegrates(a) == EffectiveImuMode(a) \in {"preintegration", "both"}

\* use_imu_preintegration_base_frame_transform
TransformsImu(a) == Preintegrates(a) /\ a.profile = "mid360"

\* validate_args: the legacy IMU path passes, although it integrates nothing.
ValidArgs(a) == ~(a.deskew /\ EffectiveImuMode(a) = "off")

\* make_params, and the launch arguments that override them.
Params(a) == [preintegration |-> Preintegrates(a), transform |-> TransformsImu(a),
              legacy |-> EffectiveImuMode(a) \in {"legacy", "both"}, deskew |-> a.deskew,
              map_odom |-> a.profile \in {"nav2", "mid360"}]

\* What the localizer uses of the world when it is launched with them.
Needs(p) ==
    {"cloud", "base<-lidar"}
      \cup (IF p.preintegration \/ p.legacy THEN {"imu"} ELSE {})
      \cup (IF p.transform THEN {"base<-imu"} ELSE {})
      \cup (IF p.map_odom THEN {"odom<-base"} ELSE {})
      \cup (IF p.deskew THEN {"cloud_time"} ELSE {})

DoctorCommandOff(a) ==
    (IF a.profile \in {"nav2", "mid360"} THEN {"odom_tf"} ELSE {})
      \cup (IF a.profile = "nav2" THEN {"map_tf"} ELSE {})
      \cup (IF a.imu_mode # "off" THEN {"imu"} ELSE {})
      \cup (IF a.require_time THEN {"cloud_time"} ELSE {})
      \cup (IF TransformsImu(a) THEN {"imu_tf"} ELSE {})

\* doctor_command
DoctorCommand(a) ==
    (IF a.profile \in {"nav2", "mid360"} THEN {"odom_tf"} ELSE {})
      \cup (IF a.profile = "nav2" THEN {"map_tf"} ELSE {})
      \cup (IF EffectiveImuMode(a) # "off" \/ a.deskew THEN {"imu"} ELSE {})
      \cup (IF a.require_time \/ a.deskew THEN {"cloud_time"} ELSE {})
      \cup (IF TransformsImu(a) THEN {"imu_tf"} ELSE {})

\* check_lidar_localization_bringup: the profile's defaults, then the flags.
DoctorProfile(a) ==
    (IF a.profile \in {"nav2", "mid360"} THEN {"odom_tf"} ELSE {})
      \cup (IF a.profile = "nav2" THEN {"map_tf"} ELSE {})

-----------------------------------------------------------------------------
(* bringup_model.  A result is a level and what it is about.               *)

Result(level, about) == [level |-> level, about |-> about]
Unless(strict) == IF strict THEN "FAIL" ELSE "WARN"

CheckCloud(req, c) ==
    IF c = None THEN {Result("FAIL", "cloud")}
    ELSE IF ~c.xyz THEN {Result("FAIL", "xyz")}
    ELSE {Result("OK", "cloud")}
           \cup (IF "cloud_time" \in req /\ ~c.time THEN {Result("FAIL", "cloud_time")} ELSE {})
           \cup (IF ~c.frame THEN {Result("WARN", "frame")} ELSE {})

CheckImu(req, i) ==
    {IF i = None THEN Result(Unless("imu" \in req), "imu") ELSE Result("OK", "imu")}

\* Which transforms are looked at, and which may be missing.
CheckedTf(req) == Transforms \ (IF "imu_tf" \in req THEN {} ELSE {"base<-imu"})
MissingTf(req, tf) ==
    Result(CASE tf = "odom<-base" -> Unless("odom_tf" \in req)
             [] tf = "map<-odom"  -> Unless("map_tf" \in req)
             [] OTHER             -> "FAIL", tf)
CheckTf(req, available) ==
    {IF tf \in available THEN Result("OK", tf) ELSE MissingTf(req, tf) : tf \in CheckedTf(req)}

CheckPose(req, p) ==
    {IF p = None THEN Result(Unless("output" \in req), "pose") ELSE Result("OK", "pose")}

Broken == {"transform_unavailable", "invalid_delta_time", "non_finite_sample", "stale_imu",
           "integration_window_too_large", "waiting_for_imu", "prediction_non_finite",
           "fallback_mode"}

\* imu_preintegration_status: an unknown one goes without a word.
CheckImuStatus(req, s) ==
    LET strict == req \cap {"imu", "imu_tf"} # {}
        level  == CASE s.imu = "disabled" /\ strict                  -> {"FAIL"}
                    [] s.imu \in {"prediction_active", "prediction_available"} -> {"OK"}
                    [] s.imu \in Broken                              -> {Unless(strict)}
                    [] s.imu = "waiting_for_smoother_initialization" -> {"WARN"}
                    [] s.imu = "waiting_for_new_imu"                 -> {IF strict THEN "WARN" ELSE "OK"}
                    [] OTHER                                         -> {}
    IN  {Result(l, "imu_status") : l \in level}

CheckScanTime(req, s) ==
    CASE s.scan = "none"              -> {}
      [] s.scan = "range_ready"       -> {Result("OK", "scan_time")}
      [] s.scan \in {"field_missing", "field_invalid", "range_too_large"} ->
            {Result(Unless("cloud_time" \in req), "scan_time")}
      [] OTHER                        -> {Result("WARN", "scan_time")}

StrictDeskew(req) == "cloud_time" \in req /\ req \cap {"imu", "imu_tf"} # {}

CheckDeskewReady(req, s) ==
    CASE s.deskew = "none"  -> {}
      [] s.deskew = "ready" -> {Result("OK", "deskew_ready")}
      [] OTHER              -> {Result(Unless(StrictDeskew(req)), "deskew_ready")}

CheckDeskewApplied(req, s) ==
    CASE s.applied \in {"none", "disabled"} -> {}
      [] s.applied = "applied"              -> {Result("OK", "deskew_applied")}
      [] OTHER                              -> {Result(Unless(StrictDeskew(req)), "deskew_applied")}

CheckStatus(req, s) ==
    IF s = None THEN {Result(Unless("output" \in req), "status")}
    ELSE {Result(IF s.level >= 2 THEN "FAIL" ELSE "OK", "status")}
           \cup CheckImuStatus(req, s) \cup CheckScanTime(req, s)
           \cup CheckDeskewReady(req, s) \cup CheckDeskewApplied(req, s)

Evaluate(req, available) ==
    CheckCloud(req, cloud) \cup CheckImu(req, imu) \cup CheckTf(req, available)
      \cup CheckPose(req, pose) \cup CheckStatus(req, status)

Passes(found) == \A r \in found : r.level # "FAIL"

-----------------------------------------------------------------------------
Init ==
    /\ args \in Arguments
    /\ params = None /\ required = {} /\ results = None
    /\ cloud = None /\ imu = None /\ pose = None /\ status = None

\* main of the config tool; the doctor command is run as printed, with more
\* required of it or not.
Configure(more) ==
    /\ params = None
    /\ ValidArgs(args)
    /\ params' = Params(args)
    /\ required' = DoctorProfile(args) \cup DoctorCommand(args) \cup more
    /\ UNCHANGED <<args, stats, results>>

Listening == params # None /\ results = None

OnCloud(c) == Listening /\ cloud' = c /\ UNCHANGED <<args, params, required, imu, pose, status, results>>
OnImu == Listening /\ imu' = "sample" /\ UNCHANGED <<args, params, required, cloud, pose, status, results>>
OnPose == Listening /\ pose' = "pose" /\ UNCHANGED <<args, params, required, cloud, imu, status, results>>
OnStatus(s) == Listening /\ status' = s /\ UNCHANGED <<args, params, required, cloud, imu, pose, results>>

\* The time is up: the transforms are looked up, everything is judged.
Judge(available) ==
    /\ Listening
    /\ results' = [found |-> Evaluate(required, available), available |-> available]
    /\ UNCHANGED <<args, params, required, stats>>

Next ==
    \/ \E more \in {{}, {"output"}} : Configure(more)
    \/ \E c \in Clouds : OnCloud(c)
    \/ OnImu
    \/ OnPose
    \/ \E s \in Statuses : OnStatus(s)
    \/ \E available \in SUBSET Transforms : Judge(available)

Spec == Init /\ [][Next]_vars

-----------------------------------------------------------------------------
\* What the doctor saw of the world.
Seen ==
    results.available
      \cup (IF cloud # None /\ cloud.xyz THEN {"cloud"} ELSE {})
      \cup (IF cloud # None /\ cloud.time THEN {"cloud_time"} ELSE {})
      \cup (IF imu # None THEN {"imu"} ELSE {})

\* The doctor command that is printed beside a parameter file fits the file: if
\* it passes, everything the localizer uses when it is launched with that file
\* was there, and no diagnostic that arrived says that the deskewing asked for
\* cannot work.
PassMeansUsable ==
    results # None /\ Passes(results.found) =>
        /\ Needs(params) \subseteq Seen
        /\ params.deskew /\ status # None =>
              status.deskew \in {"none", "ready"} /\ status.imu \notin Broken \cup {"disabled"}
=============================================================================
