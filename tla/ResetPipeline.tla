---------------------------- MODULE ResetPipeline ----------------------------
(***************************************************************************)
(* The offline relocalization scripts of lidar_localization_ros2/scripts.  *)
(* A recorded alignment log asks for reinitialization; scripts turn its    *)
(* request windows into attempts with candidate poses, the candidates into *)
(* jobs, the jobs into scans and then scores, the scores into a plan with  *)
(* one candidate per attempt, the plan into commands, publish the commands *)
(* and observe what the log says afterwards. The scripts share nothing but *)
(* files, are run by hand in any order and with any of their waivers, and  *)
(* refuse to replace a file unless they are told to overwrite. A row's     *)
(* index in the log is its stamp.                                          *)
(*                                                                         *)
(* An operator that stands just before another and extends its name is its *)
(* mutated form, listed in PROJECT.json; no other definition uses it.      *)
(***************************************************************************)
EXTENDS Integers, Sequences, FiniteSets, TLC, SequencesExt, Ordered

CONSTANTS
    NoFile,
    Reference,        \* the reference trajectory: the place at each stamp
    Radius, Spacing, MaxRoute,        \* route_time_radius_sec, route_min_spacing_m, max_route_poses
    Cells, YawCount, MaxCandidates,   \* the occupied map cells, yaw_count, max_candidates
    Searched,         \* what branch and bound finds in each scan, <<>> in an empty one
    MaxPerAttempt,    \* max_candidates_per_attempt
    ScanStamps, MaxScanDiff,          \* the recorded scans, max_scan_time_diff
    Fields,           \* how registration may go: the outcome of each scan and seed
    MaxScore, MaxDelta, MinMargin,    \* thresholds of the gate and of the plan
    Window, StableRows,               \* post_reset_window_sec, stable_ok_rows
    MaxRows, MaxOverwrites            \* bounds: rows of the log, runs that replace a file

ASSUME PipelineAssumption ==
    /\ Reference \in Seq(Int) \ {<<>>} /\ Cells \in Seq(Int)
    /\ ScanStamps \subseteq Nat /\ ScanStamps # {} /\ Searched \in [ScanStamps -> Seq(Int \X Nat)]
    /\ MaxRoute \in Nat \ {0} /\ YawCount \in Nat \ {0} /\ MaxCandidates \in Nat \ {0}
    /\ MaxPerAttempt \in Nat
    /\ StableRows \in Nat \ {0} /\ Window \in Nat /\ MinMargin \in Nat

VARIABLES
    field,         \* how registration goes: [target, converged, score, delta]
    log,           \* the alignment rows so far: "ok", "failed" or "request"
    attempts,      \* relocalization_attempts.csv: a source, the trigger stamp of each
    candidates,    \* relocalization_candidates.csv: a source, the poses of each attempt
    jobs,          \* relocalization_registration_jobs.csv
    scans,         \* the jobs with the scan each is to be registered with
    scores,        \* the same rows, registered
    plan,          \* relocalization_reset_candidate_plan.csv
    planPassed,    \* relocalization_reset_candidate_plan_validation.json
    commands,      \* relocalization_reset_commands.csv
    validation,    \* relocalization_reset_commands_validation.json: passed
    execution,     \* relocalization_reset_command_execution.csv
    observation,   \* relocalization_reset_execution_observation.csv
    sent,          \* what was published on /initialpose, and when
    overwrites     \* how often a script has replaced a file

files == <<attempts, candidates, jobs, scans, scores, plan, planPassed, commands, validation, execution, observation>>
vars == <<field, log, files, sent, overwrites>>

Sizes(seq) == 1 .. Len(seq)
Positions(seq) == [i \in Sizes(seq) |-> i]
FirstOf(seq, n) == SubSeq(seq, 1, IF Len(seq) > n THEN n ELSE Len(seq))
Distance(a, b) == IF a > b THEN a - b ELSE b - a

(* write_csv, write_json: a file that exists is replaced only on request. *)
MayWrite(file, overwrite) == file = NoFile \/ overwrite
Counted(replaces) ==
    /\ overwrites' = overwrites + (IF replaces THEN 1 ELSE 0)
    /\ overwrites' <= MaxOverwrites

-----------------------------------------------------------------------------
(* Attempts and candidates. *)

Begins(rows, i) == rows[i] = "request" /\ (i = 1 \/ rows[i - 1] # "request")

TriggersNewestFirst(rows) == Reverse(Ascending({i \in Sizes(rows) : Begins(rows, i)}))

(* request_windows: each begins where a request follows no request. *)
Triggers(rows) == Ascending({i \in Sizes(rows) : Begins(rows, i)})

(* The reference row next to the trigger, the earlier of two. *)
NearestRow(t) == CHOOSE i \in Sizes(Reference) : \A j \in Sizes(Reference) :
    Distance(i, t) < Distance(j, t) \/ (Distance(i, t) = Distance(j, t) /\ i <= j)

(* _spaced_reference_rows: a row is kept if far enough from the last kept. *)
Farther(kept, i) == IF kept # <<>> /\ Distance(Reference[i], Reference[Last(kept)]) < Spacing
                    THEN kept ELSE Append(kept, i)
Spaced(rows) ==
    LET kept[k \in 0 .. Len(rows)] == IF k = 0 THEN <<>> ELSE Farther(kept[k - 1], rows[k])
    IN  kept[Len(rows)]

(* select_route_rows: the nearest row is put back if spacing dropped it, at  *)
(* the expense of the rows farthest from it when there are too many.         *)
RouteRows(t) ==
    LET near   == NearestRow(t)
        around == Ascending({i \in Sizes(Reference) : Distance(i, t) <= Radius})
        kept   == FirstOf(Spaced(IF around = <<>> THEN <<near>> ELSE around), MaxRoute)
        Closer(i, j) == Distance(i, near) < Distance(j, near)
                        \/ (Distance(i, near) = Distance(j, near) /\ i < j)
    IN  IF near \in Range(kept) THEN kept
        ELSE Sorted(FirstOf(Sorted(Append(kept, near), Closer), MaxRoute), <)

RouteCandidates(t) == [k \in Sizes(RouteRows(t)) |-> <<Reference[RouteRows(t)[k]], 0>>]

(* map grid: cells are thinned by a stride, each kept cell with every yaw. *)
Stride == IF Len(Cells) * YawCount <= MaxCandidates THEN 1
          ELSE LET whole == MaxCandidates \div YawCount
                   most  == IF whole > 1 THEN whole ELSE 1
               IN  (Len(Cells) + most - 1) \div most
KeptCells == Ascending({i \in Sizes(Cells) : (i - 1) % Stride = 0})
MapCandidates == FirstOf([k \in 1 .. Len(KeptCells) * YawCount |->
    <<Cells[KeptCells[((k - 1) \div YawCount) + 1]], (k - 1) % YawCount>>], MaxCandidates)

(* resolve_nearest_pointclouds: the nearest scan however far, the earlier of two. *)
NearestScan(t) == CHOOSE s \in ScanStamps : \A r \in ScanStamps :
    Distance(s, t) < Distance(r, t) \/ (Distance(s, t) = Distance(r, t) /\ s <= r)

(* The attempts file is written first, so a candidates file that may not be  *)
(* replaced leaves the two apart.                                            *)
MakeAttempts(source, poses, overwrite) ==
    /\ MayWrite(attempts, overwrite) /\ Counted(attempts # NoFile)
    /\ LET triggers == Triggers(log)
       IN  /\ attempts' = [source |-> source, triggers |-> triggers]
           /\ candidates' = IF ~MayWrite(candidates, overwrite) THEN candidates
                            ELSE [source |-> source,
                                  of |-> [a \in Sizes(triggers) |->
                                            [trigger |-> triggers[a], poses |-> poses[a]]]]
    /\ UNCHANGED <<field, log, jobs, scans, scores, plan, planPassed, commands, validation, execution, observation, sent>>

(* make_route_grid_relocalization_attempts *)
RouteGrid(overwrite) ==
    MakeAttempts("route_grid", [a \in Sizes(Triggers(log)) |-> RouteCandidates(Triggers(log)[a])], overwrite)

(* make_map_grid_relocalization_attempts: the same candidates at every trigger. *)
MapGrid(overwrite) ==
    MakeAttempts("map_grid", [a \in Sizes(Triggers(log)) |-> MapCandidates], overwrite)

(* make_bbs_relocalization_attempts *)
BranchAndBound2D(overwrite) ==
    MakeAttempts("bbs_2d", [a \in Sizes(Triggers(log)) |-> Searched[NearestScan(Triggers(log)[a])]], overwrite)

(* make_disabled_relocalization_attempts: there are no candidates to write.  *)
Disabled(overwrite) ==
    /\ MayWrite(attempts, overwrite) /\ Counted(attempts # NoFile)
    /\ attempts' = [source |-> "disabled", triggers |-> Triggers(log)]
    /\ UNCHANGED <<field, log, candidates, jobs, scans, scores, plan, planPassed, commands, validation, execution, observation, sent>>

-----------------------------------------------------------------------------
(* Registration. *)

(* score_relocalization_candidates_with_reference: how far a candidate is    *)
(* from where the robot really was at the trigger.                           *)
OracleError(pose, t) == Distance(pose[1], Reference[NearestRow(t)])

(* Candidates belong to an attempt by its id, which names its source.        *)
CandidatesOf(a) ==
    IF candidates.source = attempts.source /\ a \in DOMAIN candidates.of
    THEN candidates.of[a].poses ELSE <<>>

(* _candidate_sort_key, with the oracle's ranks if the scored candidates are *)
(* given; then cut to the first few.                                         *)
JobsOf(a, order) ==
    LET poses == CandidatesOf(a)
        t     == attempts.triggers[a]
        Earlier(i, j) == IF order = "oracle_rank" /\ OracleError(poses[i], t) # OracleError(poses[j], t)
                         THEN OracleError(poses[i], t) < OracleError(poses[j], t)
                         ELSE i < j
        first == FirstOf(Sorted(Positions(poses), Earlier), MaxPerAttempt)
    IN  [k \in Sizes(first) |-> [attempt |-> a, source |-> attempts.source, trigger |-> t,
                                 index |-> first[k], rank |-> k, order |-> order, seed |-> poses[first[k]]]]

(* make_registration_relocalization_jobs *)
MakeJobs(order, overwrite) ==
    /\ attempts # NoFile /\ candidates # NoFile
    /\ MayWrite(jobs, overwrite) /\ Counted(jobs # NoFile)
    /\ jobs' = FlattenSeq([a \in Sizes(attempts.triggers) |-> JobsOf(a, order)])
    /\ UNCHANGED <<field, log, attempts, candidates, scans, scores, plan, planPassed, commands, validation, execution, observation, sent>>

(* resolve_registration_relocalization_scans: the nearest scan may be too    *)
(* far from the trigger, and then the job is never registered.               *)
Resolved(job) == [job |-> job, scan |-> NearestScan(job.trigger),
                  found |-> Distance(NearestScan(job.trigger), job.trigger) <= MaxScanDiff]

ResolveScans(overwrite) ==
    /\ jobs # NoFile
    /\ MayWrite(scans, overwrite) /\ Counted(scans # NoFile)
    /\ scans' = [k \in Sizes(jobs) |-> Resolved(jobs[k])]
    /\ UNCHANGED <<field, log, attempts, candidates, jobs, scores, plan, planPassed, commands, validation, execution, observation, sent>>

(* relocalization_ndt_score_jobs: a job without a scan, or without enough    *)
(* map around its seed, is left without a score.                             *)
Gate(o) == o.converged /\ o.score <= MaxScore /\ o.delta <= MaxDelta
ScoredUnfound(row) ==
    LET o == field[row.scan][row.job.seed]
    IN  [job |-> row.job, scored |-> o.target, outcome |-> o, gate |-> Gate(o)]

Scored(row) ==
    LET o == field[row.scan][row.job.seed]
    IN  [job |-> row.job, scored |-> row.found /\ o.target, outcome |-> o, gate |-> Gate(o)]

(* The scorer replaces its output without being asked. *)
ScoreJobs ==
    /\ scans # NoFile /\ Counted(scores # NoFile)
    /\ scores' = [k \in Sizes(scans) |-> Scored(scans[k])]
    /\ UNCHANGED <<field, log, attempts, candidates, jobs, scans, plan, planPassed, commands, validation, execution, observation, sent>>

-----------------------------------------------------------------------------
(* The plan. *)

(* select_relocalization_reset_candidates: _is_eligible, _row_sort_key. What *)
(* is compared is a number, or the row is passed over.                       *)
Eligible(row) == /\ row.scored /\ row.outcome.converged /\ row.gate
                 /\ row.outcome.score \in Int
                 /\ row.outcome.score <= MaxScore /\ row.outcome.delta <= MaxDelta

Better(r, s) == \/ r.outcome.score < s.outcome.score
                \/ r.outcome.score = s.outcome.score /\ r.job.rank < s.job.rank

(* The margin is to the best other scored row, eligible or not. *)
PlanRow(rows) ==
    LET rated   == Picked(rows, LAMBDA r : r.scored)
        able    == Picked(rated, Eligible)
        chosen  == Sorted(able, Better)[1]
        others  == Sorted(Picked(rated, LAMBDA r : r # chosen), Better)
        margin  == others[1].outcome.score - chosen.outcome.score
        No(why) == [attempt |-> rows[1].job.attempt, source |-> rows[1].job.source,
                    trigger |-> rows[1].job.trigger,
                    row |-> <<>>, rivals |-> rated, reason |-> why]
    IN  IF rated = <<>> THEN No("no_scored_candidates")
        ELSE IF able = <<>> THEN No("no_candidate_passed_registration_policy")
        ELSE IF MinMargin > 0 /\ (others = <<>> \/ margin < MinMargin)
             THEN No("registration_score_margin_too_small")
        ELSE [No("reset_execution_not_implemented") EXCEPT !.row = <<chosen>>]

RowsOf(a) == Picked(scores, LAMBDA r : r.job.attempt = a)

SelectCandidates(overwrite) ==
    /\ scores # NoFile
    /\ MayWrite(plan, overwrite) /\ Counted(plan # NoFile)
    /\ LET named == Ascending({scores[k].job.attempt : k \in Sizes(scores)})
       IN  plan' = [k \in Sizes(named) |-> PlanRow(RowsOf(named[k]))]
    /\ UNCHANGED <<field, log, attempts, candidates, jobs, scans, scores, planPassed, commands, validation, execution, observation, sent>>

(* validate_relocalization_reset_candidate_plan, beside the scores file,     *)
(* which may be another by now: a selected job must still be in it. oracle:  *)
(* --allow-oracle-selection.                                                 *)
PlanPasses(oracle) ==
    /\ plan # <<>>
    /\ \A i, j \in Sizes(plan) : plan[i].attempt = plan[j].attempt => i = j
    /\ \A i \in Sizes(plan) : plan[i].row # <<>> =>
          LET r == plan[i].row[1]
          IN  /\ r.job.order # "oracle_rank" \/ oracle
              /\ Eligible(r)
              /\ \E k \in Sizes(scores) :
                    /\ scores[k].job.attempt = r.job.attempt /\ scores[k].job.source = r.job.source
                    /\ scores[k].job.index = r.job.index /\ scores[k].job.rank = r.job.rank
                    /\ scores[k].gate /\ scores[k].outcome.score = r.outcome.score

ValidatePlan(oracle, overwrite) ==
    /\ plan # NoFile
    /\ MayWrite(planPassed, overwrite) /\ Counted(planPassed # NoFile)
    /\ planPassed' = PlanPasses(oracle)
    /\ UNCHANGED <<field, log, attempts, candidates, jobs, scans, scores, plan, commands, validation, execution, observation, sent>>

-----------------------------------------------------------------------------
(* Commands. *)

(* make_relocalization_reset_commands: ids are positions; the command keeps  *)
(* the trigger's stamp and the refined pose.                                 *)
Command(p) == [attempt |-> p.attempt, stamp |-> p.trigger, dry |-> TRUE,
               generated |-> p.row # <<>>,
               source |-> p.source,
               order |-> IF p.row = <<>> THEN "" ELSE p.row[1].job.order,
               pose |-> IF p.row = <<>> THEN <<>> ELSE <<p.row[1].job.seed, p.row[1].outcome>>]

MakeCommands(overwrite) ==
    /\ plan # NoFile
    /\ MayWrite(commands, overwrite) /\ Counted(commands # NoFile)
    /\ commands' = [k \in Sizes(plan) |-> Command(plan[k])]
    /\ UNCHANGED <<field, log, attempts, candidates, jobs, scans, scores, plan, planPassed, validation, execution, observation, sent>>

(* validate_relocalization_reset_commands *)
CommandsPass(oracle) ==
    /\ commands # <<>>
    /\ \A k \in Sizes(commands) : commands[k].dry /\ (commands[k].order # "oracle_rank" \/ oracle)

ValidateCommands(oracle, overwrite) ==
    /\ commands # NoFile
    /\ MayWrite(validation, overwrite) /\ Counted(validation # NoFile)
    /\ validation' = CommandsPass(oracle)
    /\ UNCHANGED <<field, log, attempts, candidates, jobs, scans, scores, plan, planPassed, commands, execution, observation, sent>>

(* --allow-unvalidated, --allow-failed-validation, --allow-oracle-selection. *)
Waivers == {"unvalidated", "failed_validation", "oracle_selection"}

(* publish_relocalization_reset_commands: _command_rejection.                *)
Publishable(c, waived) ==
    c.generated /\ c.dry /\ (c.order # "oracle_rank" \/ "oracle_selection" \in waived)

(* The poses go out before the record of it is written, and the record may   *)
(* not be writable. The validation need not be of these commands.            *)
Publish(execute, waived, overwrite) ==
    /\ commands # NoFile
    /\ validation # NoFile \/ "unvalidated" \in waived
    /\ Counted(execution # NoFile)
    /\ LET passed == waived \cap {"unvalidated", "failed_validation"} # {} \/ validation
           out == {k \in Sizes(commands) : Publishable(commands[k], waived) /\ passed /\ execute}
       IN  /\ sent' = sent \cup {[pose |-> commands[k].pose, attempt |-> commands[k].attempt,
                                  at |-> Len(log)] : k \in out}
           /\ execution' = IF ~MayWrite(execution, overwrite) THEN execution
                           ELSE [k \in Sizes(commands) |->
                                   [attempt |-> commands[k].attempt, published |-> k \in out]]
    /\ UNCHANGED <<field, log, attempts, candidates, jobs, scans, scores, plan, planPassed, commands, validation, observation>>

-----------------------------------------------------------------------------
(* Observation. *)

StreakInAll(rows) == Len(Picked(rows, LAMBDA row : row = "ok"))

(* _stable_ok_streak: the run of ok rows that goes on, and the longest yet. *)
Longer(s, row) == LET now == IF row = "ok" THEN s[1] + 1 ELSE 0
                  IN  <<now, IF now > s[2] THEN now ELSE s[2]>>
Streak(rows) ==
    LET run[k \in 0 .. Len(rows)] == IF k = 0 THEN <<0, 0>> ELSE Longer(run[k - 1], rows[k])
    IN  run[Len(rows)][2]

(* The stamp of a command comes from the commands file, joined by id. *)
Observed(k) ==
    LET from == commands[k].stamp
        to   == IF from + Window > Len(log) THEN Len(log) ELSE from + Window
        ok   == execution[k].published /\ k \in Sizes(commands)
    IN  [attempt |-> execution[k].attempt, stamp |-> IF k \in Sizes(commands) THEN from ELSE 0,
         accepted |-> ok /\ Streak(SubSeq(log, from, to)) >= StableRows]

Observe(overwrite) ==
    /\ execution # NoFile /\ commands # NoFile
    /\ MayWrite(observation, overwrite) /\ Counted(observation # NoFile)
    /\ observation' = [k \in Sizes(execution) |-> Observed(k)]
    /\ UNCHANGED <<field, log, attempts, candidates, jobs, scans, scores, plan, planPassed, commands, validation, execution, sent>>

-----------------------------------------------------------------------------
Init ==
    /\ field \in Fields
    /\ log = <<>> /\ sent = {} /\ overwrites = 0
    /\ attempts = NoFile /\ candidates = NoFile /\ jobs = NoFile /\ scans = NoFile
    /\ scores = NoFile /\ plan = NoFile /\ planPassed = NoFile
    /\ commands = NoFile /\ validation = NoFile /\ execution = NoFile /\ observation = NoFile

(* The localizer reports on. *)
Report ==
    /\ Len(log) < MaxRows
    /\ \E row \in {"ok", "failed", "request"} : log' = Append(log, row)
    /\ UNCHANGED <<field, files, sent, overwrites>>

Script(overwrite) ==
    \/ RouteGrid(overwrite)
    \/ MapGrid(overwrite)
    \/ BranchAndBound2D(overwrite)
    \/ Disabled(overwrite)
    \/ \E order \in {"candidate_index", "oracle_rank"} : MakeJobs(order, overwrite)
    \/ ResolveScans(overwrite)
    \/ SelectCandidates(overwrite)
    \/ MakeCommands(overwrite)
    \/ \E oracle \in BOOLEAN : ValidatePlan(oracle, overwrite) \/ ValidateCommands(oracle, overwrite)
    \/ \E execute \in BOOLEAN, waived \in SUBSET Waivers : Publish(execute, waived, overwrite)
    \/ Observe(overwrite)

Next == Report \/ ScoreJobs \/ \E overwrite \in BOOLEAN : Script(overwrite)

Spec == Init /\ [][Next]_vars

-----------------------------------------------------------------------------
TypeOK ==
    /\ Len(log) <= MaxRows /\ overwrites \in 0 .. MaxOverwrites
    /\ attempts # NoFile => \A a \in Sizes(attempts.triggers) : attempts.triggers[a] \in Sizes(log)
    /\ validation # NoFile => validation \in BOOLEAN
    /\ \A s \in sent : s.at \in 0 .. Len(log)
    /\ scores # NoFile => \A k \in Sizes(scores) : Len(RowsOf(scores[k].job.attempt)) <= MaxPerAttempt

(* An attempt id is a position, and the log grows under the files: a row of  *)
(* the files that pair an id with a window, from the attempts to the         *)
(* commands, still names the window the id names today. The observation is   *)
(* not one of them: it takes the id from the execution and the window from   *)
(* the commands of today, by the position of the row.                        *)
IdsDenoteWindows ==
    LET today == Triggers(log)
        Names(a, t) == a \in Sizes(today) /\ today[a] = t
    IN  /\ attempts # NoFile => \A a \in Sizes(attempts.triggers) : Names(a, attempts.triggers[a])
        /\ candidates # NoFile => \A a \in Sizes(candidates.of) : Names(a, candidates.of[a].trigger)
        /\ jobs # NoFile => \A k \in Sizes(jobs) : Names(jobs[k].attempt, jobs[k].trigger)
        /\ scans # NoFile => \A k \in Sizes(scans) : Names(scans[k].job.attempt, scans[k].job.trigger)
        /\ scores # NoFile => \A k \in Sizes(scores) : Names(scores[k].job.attempt, scores[k].job.trigger)
        /\ plan # NoFile => \A k \in Sizes(plan) : Names(plan[k].attempt, plan[k].trigger)
        /\ commands # NoFile =>
              \A k \in Sizes(commands) : Names(commands[k].attempt, commands[k].stamp)

(* A pose that goes out, whatever was waived, whichever files were replaced  *)
(* and however the log has grown: it is where the registration of its seed   *)
(* ended, with a scan recorded within max_scan_time_diff of the window that  *)
(* the attempt id names in the log of today, and that registration passed    *)
(* the gate. The files between are the work of seven scripts.                *)
PublishedIsGated == \A s \in sent :
    LET trigger == Triggers(log)[s.attempt]
        outcome == s.pose[2]
    IN  /\ s.attempt \in Sizes(Triggers(log))
        /\ Distance(NearestScan(trigger), trigger) <= MaxScanDiff
        /\ outcome = field[NearestScan(trigger)][s.pose[1]]
        /\ outcome.target /\ Gate(outcome)

(* accepted: the pose was published and the log holds that many ok rows in   *)
(* a row within the window.                                                  *)
AcceptedSawStreak == observation # NoFile => \A k \in Sizes(observation) :
    observation[k].accepted =>
        /\ \E s \in sent : s.attempt = observation[k].attempt
        /\ \E i \in observation[k].stamp .. Len(log) :
              /\ i + StableRows - 1 <= observation[k].stamp + Window
              /\ \A j \in i .. i + StableRows - 1 : j \in Sizes(log) /\ log[j] = "ok"

=============================================================================
