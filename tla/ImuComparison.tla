---------------------------- MODULE ImuComparison ----------------------------
(***************************************************************************)
(* run_lidar_localization_imu_comparison.py: one bag is replayed through   *)
(* the localizer in several modes, each run is validated and evaluated,    *)
(* the runs are compared and a report is rendered.  Every step is a        *)
(* process of its own that may fail; the steps share nothing but files in  *)
(* one output directory, where those of earlier invocations still lie.     *)
(* The report of an invocation may be rendered again later, and the script *)
(* of its commands may be run instead of it.                               *)
(*                                                                         *)
(* A file is the number of the invocation that wrote it, 0 when there is   *)
(* none, with what it says where that matters.                             *)
(*                                                                         *)
(* An operator that stands just before another and extends its name is its *)
(* mutated form, listed in PROJECT.json; no other definition uses it.      *)
(***************************************************************************)
EXTENDS Integers, FiniteSets, SequencesExt

CONSTANTS
    Recordings,     \* what may be recorded: sequences of alignment_status samples
    Selections,     \* the modes an invocation may select: sequences of modes
    Inputs,         \* [bag, cloud, imu, map, reference]: what an invocation is given
    MaxInvocations  \* bound

Modes == {"lidar_only", "imu_preintegration", "deskew"}
VARIABLES
    now,          \* the invocation: how many there were
    chosen,       \* its arguments: modes, reference, continue_on_failure; or it is the script
    todo,         \* the commands it has still to run
    failed, code, \* of the running invocation; code: its exit code, or why there is none yet
    dir,          \* [mode -> the files of its run directory]
    plan,         \* run_plan.json: modes and whether a reference is given
    comparison,   \* comparison.json: [mode -> what it read]
    report        \* comparison.md: [mode -> what its row shows]

vars == <<now, chosen, todo, failed, code, dir, plan, comparison, report>>

-----------------------------------------------------------------------------
(* validation_model.py *)

Count(rows, key, values) == Cardinality({i \in DOMAIN rows : rows[i][key] \in values})

\* summarize_runtime
Summary(rows) ==
    [samples    |-> Len(rows),
     active     |-> Count(rows, "imu", {"active"}),
     fallback   |-> Cardinality({i \in DOMAIN rows : rows[i].imu = "fallback" \/ rows[i].fallback}),
     integrated |-> Max({0} \cup {rows[i].integrated : i \in DOMAIN rows}),
     present    |-> Len(rows) - Count(rows, "seed", {"missing"}),
     seeded     |-> Count(rows, "seed", {"imu_preintegration"}),
     applied    |-> Count(rows, "applied", {TRUE})]

MinSamples == 3    \* min_samples

AtLeast(count, tenths, total) == total > 0 /\ 10 * count >= tenths * total

\* evaluate_runtime_summary, with the ratios the comparison asks for: half of
\* the samples active and seeded, a tenth deskewed.
RuntimeOK(mode, s) ==
    /\ s.samples >= MinSamples
    /\ AtLeast(s.active, 5, s.samples)
    /\ s.integrated >= 1
    /\ s.fallback = 0
    /\ s.present > 0 /\ AtLeast(s.seeded, 5, s.samples)
    /\ mode = "deskew" => AtLeast(s.applied, 1, s.samples)

Verdict(mode, rows) == IF RuntimeOK(mode, Summary(rows)) THEN "OK" ELSE "FAIL"

-----------------------------------------------------------------------------
Validates(mode) == mode # "lidar_only"    \* MODES: validate_imu

NeedsImu(modes) == \E i \in DOMAIN modes : modes[i] # "lidar_only"

\* input_check_errors: the topics are looked at when the bag has a metadata file.
InputsUsable(in, modes) ==
    /\ in.bag # "missing"
    /\ in.bag = "metadata" => in.cloud /\ (NeedsImu(modes) => in.imu)
    /\ in.map
    /\ in.reference # "missing"

\* The commands of one mode, in order.
CommandsOf(mode, reference) ==
    <<<<"benchmark", mode>>>>
      \o (IF Validates(mode) THEN <<<<"validate", mode>>>> ELSE <<>>)
      \o (IF reference THEN <<<<"evaluate", mode>>>> ELSE <<>>)

\* Every mode's commands, then the comparison.
Commands(modes, reference) ==
    FlattenSeq([i \in DOMAIN modes |-> CommandsOf(modes[i], reference)])
      \o <<<<"compare", "all">>>>

Nothing == [summary |-> 0, rows |-> <<>>, verdict |-> "none", judged |-> <<>>, trajectory |-> 0]

Planned(p) == {p.modes[i] : i \in DOMAIN p.modes}

\* comparison_run_by_mode, imu_validation_level, render_markdown_report: a row
\* has what comparison.json says of the mode and what lies in its directory.
Row(read, mode) == [summary    |-> read[mode].summary,
                    rows       |-> read[mode].rows,
                    trajectory |-> read[mode].trajectory,
                    verdict    |-> dir[mode].verdict,
                    judged     |-> dir[mode].judged]
Rendered(p, read) == [mode \in Planned(p) |-> Row(read, mode)]

-----------------------------------------------------------------------------
Init ==
    /\ now = 0 /\ chosen = [modes |-> <<>>, reference |-> FALSE, continue |-> FALSE, script |-> FALSE]
    /\ todo = <<>> /\ failed = FALSE /\ code = "none"
    /\ dir = [mode \in Modes |-> Nothing]
    /\ plan = [modes |-> <<>>, reference |-> FALSE]
    /\ comparison = [mode \in Modes |-> Nothing]
    /\ report = <<>>

Idle == code # "running"

\* The commands of an invocation begin.
Begin(modes, reference, continue, script) ==
    /\ Idle /\ now < MaxInvocations
    /\ now' = now + 1
    /\ chosen' = [modes |-> modes, reference |-> reference, continue |-> continue, script |-> script]
    /\ todo' = Commands(modes, reference)
    /\ failed' = FALSE /\ code' = "running"
    /\ UNCHANGED <<dir, comparison, report>>

\* main: the parameters of every mode and the plan are written first.
Start(modes, in, continue) ==
    /\ InputsUsable(in, modes)
    /\ Begin(modes, in.reference = "given", continue, FALSE)
    /\ plan' = [modes |-> modes, reference |-> in.reference = "given"]

\* main: with an input error nothing is written.
Refuse(modes, in) ==
    /\ Idle /\ now < MaxInvocations
    /\ ~InputsUsable(in, modes)
    /\ now' = now + 1
    /\ code' = "refused"
    /\ UNCHANGED <<chosen, todo, failed, dir, plan, comparison, report>>

\* run_commands.sh, of whichever invocation wrote it last.
RunScript ==
    /\ plan.modes # <<>>
    /\ Begin(plan.modes, plan.reference, FALSE, TRUE)
    /\ UNCHANGED plan

\* main with --print-only: no input is looked at and nothing is run.
PrintOnly(modes, in) ==
    /\ Idle /\ now < MaxInvocations
    /\ now' = now + 1
    /\ plan' = [modes |-> modes, reference |-> in.reference # "none"]
    /\ code' = "printed"
    /\ UNCHANGED <<chosen, todo, failed, dir, comparison, report>>

\* main with --report-only
ReportOnly ==
    /\ Idle
    /\ plan.modes # <<>>
    /\ report' = Rendered(plan, comparison)
    /\ UNCHANGED <<now, chosen, todo, failed, code, dir, plan, comparison>>

AfterUnnoticed(ok) ==
    /\ todo' = Tail(todo)
    /\ failed' = ~ok
    /\ code' = IF ok \/ chosen.continue THEN code ELSE "failed"

\* run_shell's code: the first failure ends the invocation, unless it is to continue.
After(ok) ==
    /\ todo' = IF ok \/ chosen.continue THEN Tail(todo) ELSE <<>>
    /\ failed' = (failed \/ ~ok)
    /\ code' = IF ok \/ chosen.continue THEN code ELSE "failed"

Due(step) == code = "running" /\ Head(todo)[1] = step
ModeOf == Head(todo)[2]

\* benchmark_runner: the recorders write as they start; the summary comes last,
\* whether or not they started, and the bag decides about the code.
Benchmark(recorded, rows, ok) ==
    /\ Due("benchmark")
    /\ dir' = [dir EXCEPT ![ModeOf].summary = now,
                          ![ModeOf].rows = IF recorded THEN rows ELSE @]
    /\ After(ok)
    /\ UNCHANGED <<now, chosen, plan, comparison, report>>

\* The runner itself fails before it writes its summary.
BenchmarkDies(recorded, rows) ==
    /\ Due("benchmark")
    /\ dir' = [dir EXCEPT ![ModeOf].rows = IF recorded THEN rows ELSE @]
    /\ After(FALSE)
    /\ UNCHANGED <<now, chosen, plan, comparison, report>>

\* validate_lidar_localization_imu: without rows it writes nothing.
Validate ==
    /\ Due("validate")
    /\ LET rows == dir[ModeOf].rows IN
          IF rows = <<>> THEN After(FALSE) /\ UNCHANGED dir
          ELSE /\ dir' = [dir EXCEPT ![ModeOf].verdict = Verdict(ModeOf, rows),
                                     ![ModeOf].judged = rows]
               /\ After(Verdict(ModeOf, rows) = "OK")
    /\ UNCHANGED <<now, chosen, plan, comparison, report>>

\* benchmark_eval_trajectory
Evaluate(ok) ==
    /\ Due("evaluate")
    /\ dir' = IF ok THEN [dir EXCEPT ![ModeOf].trajectory = now] ELSE dir
    /\ After(ok)
    /\ UNCHANGED <<now, chosen, plan, comparison, report>>

\* benchmark_compare_runs reads every directory with a summary, then the report
\* is rendered, with the comparison there is; the script ends at a failure.
Compare(ok) ==
    /\ Due("compare")
    /\ comparison' = IF ok THEN [mode \in Modes |-> IF dir[mode].summary # 0 THEN dir[mode] ELSE Nothing]
                     ELSE comparison
    /\ report' = IF ok \/ ~chosen.script THEN Rendered(chosen, comparison') ELSE report
    /\ todo' = <<>>
    /\ failed' = (failed \/ ~ok)
    /\ code' = IF failed' THEN "failed" ELSE "passed"
    /\ UNCHANGED <<now, chosen, dir, plan>>

\* The user stops it: nothing is cleaned up.
Interrupt ==
    /\ code = "running"
    /\ code' = "interrupted" /\ todo' = <<>>
    /\ UNCHANGED <<now, chosen, failed, dir, plan, comparison, report>>

Next ==
    \/ \E modes \in Selections, in \in Inputs :
          \/ \E continue \in BOOLEAN : Start(modes, in, continue)
          \/ Refuse(modes, in)
          \/ PrintOnly(modes, in)
    \/ RunScript
    \/ ReportOnly
    \/ \E recorded, ok \in BOOLEAN, rows \in Recordings : Benchmark(recorded, rows, ok)
    \/ \E recorded \in BOOLEAN, rows \in Recordings : BenchmarkDies(recorded, rows)
    \/ Validate
    \/ \E ok \in BOOLEAN : Evaluate(ok) \/ Compare(ok)
    \/ Interrupt

Spec == Init /\ [][Next]_vars

-----------------------------------------------------------------------------
\* When the invocation that ran last exits with 0 every mode it was asked for
\* was benchmarked by it, every validation passed and judged the very rows the
\* report counts, and the trajectory was evaluated by it if it had a reference,
\* whatever earlier invocations left in the directory.
ZeroVouches ==
    code = "passed" =>
        \A mode \in Planned(chosen) :
            /\ report[mode].summary = now
            /\ chosen.reference => report[mode].trajectory = now
            /\ Validates(mode) => report[mode].verdict = "OK" /\ report[mode].judged = report[mode].rows
=============================================================================
