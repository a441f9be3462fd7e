--------------------------- MODULE MeasurementGates ---------------------------
(***************************************************************************)
(* The offline experiments of lidar_localization_ros2: competing policies  *)
(* for what a localizer does with a registration (accept it, gate it, stop *)
(* trusting the IMU, recover, ask for reinitialization, fuse the pose),    *)
(* and the harnesses that drive them.  A policy for measurement acceptance *)
(* is run on a sequence whose gap and rejection streak follow from its own *)
(* decisions; the IMU guards on a recorded sequence of samples; the others *)
(* on one sample each.                                                     *)
(*                                                                         *)
(* Metres, degrees, seconds and fitness are in tenths.                     *)
(*                                                                         *)
(* An operator that stands just before another and extends its name is its *)
(* mutated form, listed in PROJECT.json; no other definition uses it.      *)
(***************************************************************************)
EXTENDS Integers, FiniteSetsExt

CONSTANTS Steps,        \* [fit, corr, yaw]: the steps of a sequence fixture
          Samples,      \* the samples of the fixtures with one sample
          Poses,        \* the poses the arbitration fixtures publish
          Threshold,    \* effective_score_threshold of a sequence
          MaxSteps      \* bound: the length of a sequence

Acceptance == {"fixed_threshold", "correction_conditioned",
               "score_ratio_budget", "bounded_degraded"}
Guards == {"absolute_threshold", "streak_guard", "score_budget"}
Gates == {"fixed_threshold_55", "post_reject_strict", "seed_conditioned"}
Recovery == {"conservative_drop", "rejected_seed_reuse", "guarded_last_pose_retry"}
Reinit == {"never_reinit", "failure_kind_eager", "gap_streak_score"}
Consumers == {"covariance_only", "covariance_plus_category"}

VARIABLES variant,    \* the policy under test
          index,      \* samples it has been given
          rejected,   \* consecutive_rejected
          run,        \* current_run of degraded acceptances
          streak, absorbed,   \* BoundedDegradedAcceptance
          hazards,    \* StreakGuard._hazard_streak
          trigger,    \* index at which a guard first fired, 0 for none
          decision,   \* what the last sample was answered with
          vetoes,     \* history: good scores refused since one was accepted
          refreshed   \* history: degraded scores accepted since then

harness == <<rejected, run>>
history == <<vetoes, refreshed>>
policy == <<streak, absorbed, hazards>>
vars == <<variant, index, harness, policy, trigger, decision, history>>

Abs(x) == IF x < 0 THEN -x ELSE x

-----------------------------------------------------------------------------
(* Measurement acceptance.  s carries gap and rejected, the harness's.     *)

Good(s) == s.fit <= s.threshold

BoundedConfig == [fit |-> 120, corr |-> 30, yaw |-> 80, gap |-> 25,
                  budget |-> 3, cumulative |-> 50, reset |-> 10]
ConditionedConfig == [corr |-> 30, yaw |-> 80, gap |-> 25, budget |-> 8,
                      jump |-> 100, fresh |-> 10]
RatioConfig == [cap |-> 5, gap |-> 25, budget |-> 10]

FixedThreshold(s) == Good(s)

\* A huge jump against a fresh prediction is not believed, however good it scores.
ContradictedAlways(s) == Good(s) /\ s.corr > ConditionedConfig.jump

Contradicted(s) ==
    /\ Good(s)
    /\ s.gap <= ConditionedConfig.fresh
    /\ s.corr > ConditionedConfig.jump

CorrectionConditioned(s) ==
    /\ ~Contradicted(s)
    /\ \/ Good(s)
       \/ /\ s.corr <= ConditionedConfig.corr
          /\ Abs(s.yaw) <= ConditionedConfig.yaw
          /\ s.gap <= ConditionedConfig.gap
          /\ s.rejected < ConditionedConfig.budget

ScoreRatioBudget(s) ==
    \/ Good(s)
    \/ /\ s.fit <= s.threshold * RatioConfig.cap
       /\ s.gap <= RatioConfig.gap
       /\ s.rejected < RatioConfig.budget

\* A degraded acceptance that fits in what is left of both budgets.
WithinBudget(s) ==
    /\ s.fit <= BoundedConfig.fit /\ s.corr <= BoundedConfig.corr
    /\ Abs(s.yaw) <= BoundedConfig.yaw /\ s.gap <= BoundedConfig.gap
    /\ streak < BoundedConfig.budget
    /\ absorbed + s.corr <= BoundedConfig.cumulative

BoundedDegraded(s) == Good(s) \/ WithinBudget(s)

\* Only a good score with a small correction earns the budget back.
Spend(s) ==
    IF Good(s) THEN IF s.corr <= BoundedConfig.reset THEN streak' = 0 /\ absorbed' = 0
                                                     ELSE UNCHANGED <<streak, absorbed>>
    ELSE IF WithinBudget(s) THEN streak' = streak + 1 /\ absorbed' = absorbed + s.corr
    ELSE UNCHANGED <<streak, absorbed>>

Accepts(s) ==
    CASE variant = "fixed_threshold"        -> FixedThreshold(s)
      [] variant = "correction_conditioned" -> CorrectionConditioned(s)
      [] variant = "score_ratio_budget"     -> ScoreRatioBudget(s)
      [] variant = "bounded_degraded"       -> BoundedDegraded(s)

\* run_variant_on_sequence: gap and streak follow the policy's own decisions.
SequenceStep(step) ==
    LET s == [fit |-> step.fit, corr |-> step.corr, yaw |-> step.yaw,
              threshold |-> Threshold, gap |-> 4 + 5 * rejected, rejected |-> rejected]
        ok == Accepts(s)
    IN  /\ variant \in Acceptance
        /\ decision' = IF ok THEN "accept" ELSE "reject"
        /\ rejected' = IF ok THEN 0 ELSE rejected + 1
        /\ run' = IF ok /\ ~Good(s) THEN run + 1 ELSE 0
        /\ IF variant = "bounded_degraded" THEN Spend(s) ELSE UNCHANGED <<streak, absorbed>>
        /\ vetoes' = IF ~Good(s) THEN vetoes ELSE IF ok THEN 0 ELSE vetoes + 1
        /\ refreshed' = IF ~ok THEN refreshed ELSE IF Good(s) THEN 0 ELSE refreshed + 1
        /\ UNCHANGED <<variant, hazards, trigger>>

-----------------------------------------------------------------------------
(* IMU guards: one decision per recorded sample.                           *)

AbsoluteThreshold(s) == s.imu /\ (s.corr >= 20 \/ s.yaw >= 40)

\* The scorecard, with its weights over a common denominator.
ScoreBudget(s) == s.imu /\ 10 * s.corr + 3 * s.yaw + 3 * s.seed + 2 * s.fit >= 360

Hazard(s) == s.imu /\ (s.corr >= 15 \/ s.yaw >= 35)
RequiredStreak == 2

GuardFires(s) ==
    CASE variant = "absolute_threshold" -> AbsoluteThreshold(s)
      [] variant = "streak_guard"       -> hazards' >= RequiredStreak
      [] variant = "score_budget"       -> ScoreBudget(s)

\* run_variant_on_fixture, imu_guard: every sample is decided, the first
\* firing is remembered.
GuardStep(s) ==
    /\ variant \in Guards
    /\ hazards' = IF variant = "streak_guard" /\ Hazard(s) THEN hazards + 1 ELSE 0
    /\ decision' = IF GuardFires(s) THEN "disable_imu" ELSE "keep_imu"
    /\ trigger' = IF trigger = 0 /\ GuardFires(s) THEN index + 1 ELSE trigger
    /\ UNCHANGED <<variant, harness, streak, absorbed, history>>

-----------------------------------------------------------------------------
(* Policies tried on one sample.                                           *)

FixedThreshold55(s) == s.fit > s.threshold \/ s.fit > 55
PostRejectStrict(s) == s.fit > s.threshold \/ (s.rejected > 0 /\ s.fit > 55)
\* Borderline from 5.25 up: in tenths, above 52.
SeedConditioned(s) == s.fit > s.threshold \/ (s.fit > 52 /\ s.seed >= 10)

GateRejects(s) ==
    CASE variant = "fixed_threshold_55" -> FixedThreshold55(s)
      [] variant = "post_reject_strict" -> PostRejectStrict(s)
      [] variant = "seed_conditioned"   -> SeedConditioned(s)

Reusable(s) ==
    /\ s.kind = "rejected_measurement" /\ s.rejected >= 1
    /\ s.fit <= 100 /\ s.corr <= 20 /\ s.yaw <= 20

Retryable(s) ==
    /\ s.kind \in {"rejected_measurement", "target_unavailable", "not_converged"}
    /\ s.rejected >= 3 /\ s.gap <= 10 /\ s.seed <= 150

RecoveryAction(s) ==
    CASE variant = "rejected_seed_reuse" /\ Reusable(s)      -> "reuse_rejected_seed"
      [] variant = "guarded_last_pose_retry" /\ Retryable(s) -> "retry_from_last_pose"
      [] OTHER                                               -> "advance_prediction_only"

EagerReinit(s) == s.kind = "target_unavailable" \/ s.fit >= 10000 \/ s.rejected >= 200

\* Gap, seed and streak each saturate at their scale; in hundredths of a percent.
ScoredReinit(s) ==
    15 * Min({s.gap, 300}) + 3 * Min({s.seed, 1000}) + 10 * Min({s.rejected, 200})
        + (IF s.kind = "target_unavailable" THEN 1500 ELSE 0)
        + (IF s.fit >= 10000 THEN 1500 ELSE 0) >= 9500

ReinitTriggers(s) ==
    \/ variant = "failure_kind_eager" /\ EagerReinit(s)
    \/ variant = "gap_streak_score" /\ ScoredReinit(s)

(* Pose arbitration: what a consumer of a published pose makes of it.      *)

ByRadius(p) ==
    CASE 2 * p.std <= 10 -> "trust"
      [] 2 * p.std \in 11..60 -> "downweight"
      [] OTHER -> "reject"

Unsound == {"weak_overlap", "bad_match", "stale_prediction", "overload",
            "missing_map", "missing_initial_pose"}

\* The veto, then the radius; a category it does not know halves the weight,
\* whatever the radius.
ByCategory(p) ==
    CASE p.reinit \/ p.rejected >= 3 \/ p.category \in Unsound -> "reject"
      [] ~p.reinit /\ p.rejected < 3 /\ p.category \notin Unsound \cup {"healthy"} -> "downweight"
      [] OTHER -> ByRadius(p)

\* run_variant_on_fixture of the three one-sample experiments: one decision.
SampleStep(s) ==
    /\ index = 0
    /\ decision' = CASE variant \in Gates    -> IF GateRejects(s) THEN "reject" ELSE "accept"
                     [] variant \in Recovery -> RecoveryAction(s)
                     [] variant \in Reinit   -> IF ReinitTriggers(s) THEN "trigger_reinit"
                                                                     ELSE "stay_in_local_recovery"
    /\ UNCHANGED <<variant, harness, policy, trigger, history>>

PoseStep(p) ==
    /\ index = 0
    /\ decision' = IF variant = "covariance_only" THEN ByRadius(p) ELSE ByCategory(p)
    /\ UNCHANGED <<variant, harness, policy, trigger, history>>

-----------------------------------------------------------------------------
Init ==
    /\ variant \in Acceptance \cup Guards \cup Gates \cup Recovery \cup Reinit \cup Consumers
    /\ index = 0 /\ rejected = 0 /\ run = 0
    /\ streak = 0 /\ absorbed = 0 /\ hazards = 0
    /\ trigger = 0 /\ decision = "none"
    /\ vetoes = 0 /\ refreshed = 0

Next ==
    /\ index < MaxSteps
    /\ index' = index + 1
    /\ \/ variant \in Acceptance /\ \E step \in Steps : SequenceStep(step)
       \/ variant \in Guards /\ \E s \in Samples : GuardStep(s)
       \/ variant \in Gates \cup Recovery \cup Reinit /\ \E s \in Samples : SampleStep(s)
       \/ variant \in Consumers /\ \E p \in Poses : PoseStep(p)

Spec == Init /\ [][Next]_vars

-----------------------------------------------------------------------------

\* What keeps a policy refusing a localizer that scores well: a refusal makes
\* the prediction staler, and a stale prediction contradicts nothing, so good
\* scores are refused twice at most, unless a degraded one is accepted, which
\* makes the prediction fresh, and two more of them suspect. Where degraded
\* scores keep being accepted in between, good ones are refused for ever.
VetoNeedsRefresh == vetoes <= 2 * (refreshed + 1)

=============================================================================
