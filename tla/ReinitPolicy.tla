---------------------------- MODULE ReinitPolicy ----------------------------
(***************************************************************************)
(* The reinitialization supervisor's policy:                               *)
(* scripts/reinitialization_supervisor_policy.py.  decide(params, state,   *)
(* obs) is a reducer; here it is an action on the variable sup, one        *)
(* operator per state name and one disjunct per reason it returns.         *)
(*                                                                         *)
(* The policy compares differences of times it is given, so its times are  *)
(* ages here (-1 for None), advanced by the time since the last tick and   *)
(* saturated at the largest value each is compared with.  Scores keep      *)
(* their order; a fitness observation is reduced to whether it is new and  *)
(* whether it is recovery evidence, a cross-check to whether it agrees.    *)
(***************************************************************************)
EXTENDS Integers, Sequences

CONSTANTS
  MaxAttempts, MinCandidateScore, MaxWalkCandidates,
  RequestDebounce, MinSpacing, QueryTimeout, SettleTimeout,
  ConfirmationSamples,
  CrossCheck,          (* enable_confirm_cross_check                         *)
  Scores,              (* scores a candidate may have                        *)
  NoReply              (* obs.candidate_scores is None                       *)

ASSUME BudgetAssumption ==
  /\ MaxAttempts \in Nat /\ MaxWalkCandidates \in Nat \ {0}
  /\ ConfirmationSamples \in Nat \ {0}
  /\ CrossCheck \in BOOLEAN

ASSUME ScoresAssumption ==
  /\ MinCandidateScore \in Int /\ Scores \subseteq Int
  /\ NoReply \notin Seq(Scores)

ASSUME TimesAssumption ==
  /\ RequestDebounce \in Nat \ {0} /\ MinSpacing \in Nat \ {0}
  /\ QueryTimeout \in Nat \ {0} /\ SettleTimeout \in Nat \ {0}

None  == -1
Names == {"idle", "await_query", "await_candidates", "settling", "verifying",
          "cooldown", "standdown", "exhausted"}

VARIABLE sup           (* a SupervisorState *)

(* SupervisorObservation, with the time since the last tick for now_sec.    *)
Observations(Replies, Delays) ==
  [requested : BOOLEAN, reply : Replies \cup {NoReply},
   fitness : {"none", "poor", "good"}, mismatch : {"none", "within", "beyond"},
   delay : Delays]

Max2(a, b) == IF a < b THEN b ELSE a

Age(cap) == {None} \cup 0..cap

SupervisorState ==
  [name : Names, attempts : Nat, requestAge : Age(RequestDebounce),
   queryAge : Age(QueryTimeout), resetAge : Age(Max2(SettleTimeout, MinSpacing)),
   cooldownAge : Age(MinSpacing), scores : Seq(Scores), index : Nat,
   evidence : Nat, alias : BOOLEAN]

InitialState ==
  [name |-> "idle", attempts |-> 0, requestAge |-> None, queryAge |-> None,
   resetAge |-> None, cooldownAge |-> None, scores |-> <<>>, index |-> 0,
   evidence |-> 0, alias |-> FALSE]

(* now - t for an optional time t, saturated at cap.                        *)
Later(age, delay, cap) ==
  IF age = None THEN None ELSE IF age + delay < cap THEN age + delay ELSE cap

(* An operator that stands just before another and extends its name is its *)
(* mutated form, listed in PROJECT.json; no other definition uses it.      *)

(* The state at the new now, with the request tracked for the debounce.     *)
Seen(o) ==
  [sup EXCEPT
     !.requestAge = IF ~o.requested THEN None
                    ELSE IF @ = None THEN 0
                    ELSE Later(@, o.delay, RequestDebounce),
     !.queryAge = Later(@, o.delay, QueryTimeout),
     !.resetAge = Later(@, o.delay, Max2(SettleTimeout, MinSpacing)),
     !.cooldownAge = Later(@, o.delay, MinSpacing)]

ResetToIdle(s) ==
  [s EXCEPT !.name = "idle", !.attempts = 0, !.evidence = 0, !.alias = FALSE]

ToExhaustedLatched(s) == [s EXCEPT !.name = "exhausted", !.evidence = 0]
ToExhausted(s) ==
  [s EXCEPT !.name = "exhausted", !.evidence = 0, !.alias = FALSE]

StanddownConfirmedRearmed(s) ==
  [s EXCEPT !.name = "idle", !.attempts = 0, !.resetAge = None,
            !.cooldownAge = None, !.queryAge = None, !.scores = <<>>,
            !.index = 0, !.evidence = 0, !.alias = FALSE]
StanddownConfirmed(s) ==
  [s EXCEPT !.name = "standdown", !.attempts = 0, !.resetAge = None,
            !.cooldownAge = None, !.queryAge = None, !.scores = <<>>,
            !.index = 0, !.evidence = 0, !.alias = FALSE]

Cooldown(s) ==
  [s EXCEPT !.name = "cooldown", !.cooldownAge = 0, !.queryAge = None,
            !.evidence = 0]

(* A reset published from a new reply: it costs an attempt.                 *)
PublishFirstUnpaid(s, reply) ==
  [s EXCEPT !.name = "settling", !.resetAge = 0, !.queryAge = None,
            !.attempts = IF s.name = "verifying" THEN @ ELSE @ + 1,
            !.scores = reply, !.index = 0, !.evidence = 0]
PublishFirst(s, reply) ==
  [s EXCEPT !.name = "settling", !.resetAge = 0, !.queryAge = None,
            !.attempts = @ + 1, !.scores = reply, !.index = 0, !.evidence = 0]

UsableNonempty(reply) == Len(reply) > 0
Usable(reply) == Len(reply) > 0 /\ reply[1] >= MinCandidateScore

(* The list has a further candidate to walk to, within max_walk_candidates. *)
Further(s) ==
  /\ s.index + 1 < Len(s.scores) /\ s.index + 1 < MaxWalkCandidates
  /\ s.scores[s.index + 2] >= MinCandidateScore

OngoingUntilReset(o, s) == (o.requested /\ s.resetAge = None) \/ s.alias

(* An episode goes on while the request does, or an alias is being chased.  *)
Ongoing(o, s) == o.requested \/ s.alias

----------------------------------------------------------------------------
(* One operator per state.  act is the action the node must carry out.      *)

Idle(o, act) ==
  LET s == Seen(o) IN
  /\ sup.name = "idle"
  /\ act = "none"
  /\ \/ /\ ~o.requested \/ s.requestAge < RequestDebounce
        /\ sup' = s
     \/ /\ o.requested /\ s.requestAge >= RequestDebounce
        /\ sup' = [s EXCEPT !.name = "await_query"]

AwaitQuery(o, act) ==
  LET s       == Seen(o)
      ongoing == Ongoing(o, s)
      spaced  == s.resetAge = None \/ s.resetAge >= MinSpacing
  IN
  /\ sup.name = "await_query"
  /\ \/ /\ ~ongoing
        /\ act = "none" /\ sup' = ResetToIdle(s)
     \/ /\ ongoing /\ s.attempts >= MaxAttempts
        /\ act = "give_up" /\ sup' = ToExhausted(s)
     \/ /\ ongoing /\ s.attempts < MaxAttempts /\ ~spaced
        /\ act = "none" /\ sup' = s
     \/ /\ ongoing /\ s.attempts < MaxAttempts /\ spaced
        /\ act = "query"
        /\ sup' = [s EXCEPT !.name = "await_candidates", !.queryAge = 0]

AwaitCandidates(o, act) ==
  LET s       == Seen(o)
      expired == s.queryAge # None /\ s.queryAge >= QueryTimeout
  IN
  /\ sup.name = "await_candidates"
  /\ \/ /\ o.reply # NoReply /\ Usable(o.reply)
        /\ act = "publish_reset" /\ sup' = PublishFirst(s, o.reply)
     \/ /\ o.reply # NoReply /\ ~Usable(o.reply)
        /\ act = "none"
        /\ sup' = Cooldown([s EXCEPT !.attempts = @ + 1, !.scores = <<>>,
                                     !.index = 0])
     \/ /\ o.reply = NoReply /\ expired
        /\ act = "none" /\ sup' = Cooldown([s EXCEPT !.attempts = @ + 1])
     \/ /\ o.reply = NoReply /\ ~expired
        /\ act = "none" /\ sup' = s

Settling(o, act) ==
  LET count     == IF o.fitness = "none" THEN sup.evidence
                   ELSE IF o.fitness = "good" THEN sup.evidence + 1 ELSE 0
      s         == [Seen(o) EXCEPT !.evidence = count]
      recovered == count >= ConfirmationSamples
      failed    == s.resetAge # None /\ s.resetAge >= SettleTimeout
      walk      == Further(s)
  IN
  /\ sup.name = "settling"
  /\ \/ /\ recovered /\ CrossCheck
        /\ act = "query"
        /\ sup' = [s EXCEPT !.name = "verifying", !.queryAge = 0,
                            !.evidence = 0, !.scores = <<>>, !.index = 0]
     \/ /\ recovered /\ ~CrossCheck
        /\ act = "none" /\ sup' = StanddownConfirmed(s)
     \/ /\ ~recovered /\ failed /\ walk
        /\ act = "publish_reset"
        /\ sup' = [s EXCEPT !.resetAge = 0, !.index = @ + 1, !.evidence = 0]
     \/ /\ ~recovered /\ failed /\ ~walk /\ s.attempts >= MaxAttempts
        /\ act = "give_up" /\ sup' = ToExhausted(s)
     \/ /\ ~recovered /\ failed /\ ~walk /\ s.attempts < MaxAttempts
        /\ act = "none"
        /\ sup' = Cooldown([s EXCEPT !.scores = <<>>, !.index = 0])
     \/ /\ ~recovered /\ ~failed
        /\ act = "none" /\ sup' = s

Verifying(o, act) ==
  LET s       == Seen(o)
      alias   == o.reply # NoReply /\ o.mismatch = "beyond"
      cleared == [s EXCEPT !.queryAge = None, !.scores = <<>>, !.index = 0,
                           !.evidence = 0]
      expired == s.queryAge # None /\ s.queryAge >= QueryTimeout
  IN
  /\ sup.name = "verifying"
  /\ \/ /\ o.reply # NoReply /\ ~alias
        /\ act = "none" /\ sup' = StanddownConfirmed(s)
     \/ /\ alias /\ s.attempts >= MaxAttempts
        /\ act = "give_up" /\ sup' = ToExhausted(cleared)
     \/ /\ alias /\ s.attempts < MaxAttempts /\ Usable(o.reply)
        /\ act = "publish_reset"
        /\ sup' = [PublishFirst(cleared, o.reply) EXCEPT !.alias = TRUE]
     \/ /\ alias /\ s.attempts < MaxAttempts /\ ~Usable(o.reply)
        /\ act = "none" /\ sup' = [Cooldown(cleared) EXCEPT !.alias = TRUE]
     \/ /\ o.reply = NoReply /\ expired
        /\ act = "none" /\ sup' = StanddownConfirmed(s)
     \/ /\ o.reply = NoReply /\ ~expired
        /\ act = "none" /\ sup' = s

CoolingDown(o, act) ==
  LET s       == Seen(o)
      elapsed == s.cooldownAge = None \/ s.cooldownAge >= MinSpacing
      ongoing == Ongoing(o, s)
      verify  == CrossCheck /\ s.resetAge # None
  IN
  /\ sup.name = "cooldown"
  /\ \/ /\ ~elapsed
        /\ act = "none" /\ sup' = s
     \/ /\ elapsed /\ s.attempts >= MaxAttempts
        /\ act = "give_up" /\ sup' = ToExhausted(s)
     \/ /\ elapsed /\ s.attempts < MaxAttempts /\ ~ongoing /\ verify
        /\ act = "query"
        /\ sup' = [s EXCEPT !.name = "verifying", !.queryAge = 0,
                            !.scores = <<>>, !.index = 0]
     \/ /\ elapsed /\ s.attempts < MaxAttempts /\ ~ongoing /\ ~verify
        /\ act = "none" /\ sup' = ResetToIdle(s)
     \/ /\ elapsed /\ s.attempts < MaxAttempts /\ ongoing
        /\ act = "none"
        /\ sup' = [s EXCEPT !.name = "await_query", !.cooldownAge = None]

Standdown(o, act) ==
  LET s == Seen(o) IN
  /\ sup.name = "standdown"
  /\ act = "none"
  /\ sup' = IF o.requested THEN s
            ELSE [ResetToIdle(s) EXCEPT !.requestAge = None]

Exhausted(o, act) ==
  LET s == Seen(o) IN
  /\ sup.name = "exhausted"
  /\ act = "none"
  /\ sup' = IF o.requested THEN s
            ELSE [ResetToIdle(s) EXCEPT !.resetAge = None, !.cooldownAge = None]

Decide(o, act) ==
  \/ Idle(o, act) \/ AwaitQuery(o, act) \/ AwaitCandidates(o, act)
  \/ Settling(o, act) \/ Verifying(o, act) \/ CoolingDown(o, act)
  \/ Standdown(o, act) \/ Exhausted(o, act)

Actions == {"none", "query", "publish_reset", "give_up"}
=============================================================================
