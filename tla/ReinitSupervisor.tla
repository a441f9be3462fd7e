-------------------------- MODULE ReinitSupervisor --------------------------
(***************************************************************************)
(* The reinitialization supervisor node around its policy:                 *)
(* scripts/reinitialization_supervisor_node.py.  Callbacks run one at a    *)
(* time.  A query is asynchronous: the node never cancels a call and never *)
(* compares a reply with the query it is waiting for, so a reply may come  *)
(* after the policy stopped waiting.  G2 and the localizer are external:   *)
(* any reply, request edge or alignment status may come at any time.       *)
(***************************************************************************)
EXTENDS ReinitPolicy

CONSTANTS
  Replies,         (* ranked candidate scores G2 may return, empty included  *)
  Delays,          (* times that may pass between two ticks                  *)
  MaxInFlight,     (* calls G2 may still answer; further ones are never      *)
                   (* answered                                               *)
  AnswersInTime,   (* TRUE: G2 answers or fails before the policy times out  *)
  NoReset          (* the last tick published nothing                        *)

ASSUME NodeAssumption ==
  /\ Replies \subseteq Seq(Scores) /\ <<>> \in Replies
  /\ Delays \subseteq Nat \ {0} /\ Delays # {}
  /\ MaxInFlight \in Nat \ {0}
  /\ AnswersInTime \in BOOLEAN
  /\ NoReset \notin Scores

VARIABLES
  requested,       (* _requested                                             *)
  fitness,         (* alignment seen since the last reset and not yet        *)
                   (* counted by the policy: "none", "poor" or "good"        *)
  candidates,      (* _candidates: scores of the poses a reset may publish   *)
  pending,         (* _pending_reply                                         *)
  mismatch,        (* _pending_cross_check_mismatch                          *)
  inFlight,        (* calls not yet answered                                 *)
  published        (* score of the reset the last tick published, or NoReset *)

vars == <<sup, requested, fitness, candidates, pending, mismatch, inFlight,
          published>>

Init ==
  /\ sup = InitialState
  /\ requested = FALSE
  /\ fitness = "none"
  /\ candidates = <<>> /\ pending = NoReply /\ mismatch = "none"
  /\ inFlight = 0
  /\ published = NoReset

----------------------------------------------------------------------------

OnReinit ==
  /\ requested' = ~requested
  /\ UNCHANGED <<sup, fitness, candidates, pending, mismatch, inFlight,
                 published>>

(* Low fitness counts as evidence only with stable tracking; both are read  *)
(* only while settling, from statuses that came after the reset.            *)
OnAlignmentStatus(quality) ==
  /\ sup.name = "settling"
  /\ fitness' = quality
  /\ UNCHANGED <<sup, requested, candidates, pending, mismatch, inFlight,
                 published>>

(* The call raised: only logged.                                            *)
OnQueryFailed ==
  /\ inFlight > 0
  /\ inFlight' = inFlight - 1
  /\ UNCHANGED <<sup, requested, fitness, candidates, pending, mismatch,
                 published>>

(* What a verify reply says of the localizer's pose: nothing when its best  *)
(* candidate is weak or it carries no scan stamp, else whether they agree.  *)
CrossChecks(reply) ==
  IF Usable(reply) THEN {"none", "within", "beyond"} ELSE {"none"}

OnQueryResponse(reply) ==
  /\ inFlight > 0
  /\ inFlight' = inFlight - 1
  /\ candidates' = reply
  /\ pending' = reply
  /\ IF sup.name = "verifying" /\ reply # <<>>
     THEN mismatch' \in CrossChecks(reply)
     ELSE UNCHANGED mismatch
  /\ UNCHANGED <<sup, requested, fitness, published>>

(* _issue_query: nothing is called when the service is not ready.           *)
IssueQuery ==
  inFlight' \in {inFlight, IF inFlight < MaxInFlight THEN inFlight + 1
                           ELSE inFlight}

(* The timer: consume a pending reply, decide, and carry out the action.    *)
TickAfter(delay) ==
  \E act \in Actions :
    LET o == [requested |-> requested, reply |-> pending, mismatch |-> mismatch,
              fitness |-> fitness, delay |-> delay]
    IN
    /\ AnswersInTime /\ inFlight > 0 => sup.queryAge + delay < QueryTimeout
    /\ Decide(o, act)
    /\ fitness' = "none"
    /\ pending' = NoReply
    /\ mismatch' = IF pending = NoReply THEN mismatch ELSE "none"
    /\ IF act = "query" THEN IssueQuery ELSE UNCHANGED inFlight
    /\ published' = IF act = "publish_reset" /\ sup'.index < Len(candidates)
                    THEN candidates[sup'.index + 1] ELSE NoReset
    /\ UNCHANGED <<requested, candidates>>

Tick == \E delay \in Delays : TickAfter(delay)

Callbacks ==
  \/ OnReinit
  \/ \E quality \in {"poor", "good"} : OnAlignmentStatus(quality)
  \/ OnQueryFailed
  \/ \E reply \in Replies : OnQueryResponse(reply)

Next == Callbacks \/ Tick

Spec == Init /\ [][Next]_vars

----------------------------------------------------------------------------
(* Properties.                                                              *)

(* Type invariant.                                                          *)
TypeOK ==
  /\ sup \in SupervisorState
  /\ requested \in BOOLEAN
  /\ fitness \in {"none", "poor", "good"}
  /\ candidates \in Seq(Scores)
  /\ pending \in Seq(Scores) \cup {NoReply}
  /\ mismatch \in {"none", "within", "beyond"}
  /\ inFlight \in 0..MaxInFlight
  /\ published \in Scores \cup {NoReset}

(* max_attempts is a true ceiling: neither a reply that comes late, nor a   *)
(* cross-check that reseeds at once, nor an alias round exceeds it.         *)
AttemptsBounded == sup.attempts <= MaxAttempts

(* One query's walk offers at most MaxWalkCandidates candidates of its own  *)
(* list.                                                                    *)
WalkBounded ==
  sup.name = "settling" =>
    sup.index < MaxWalkCandidates /\ sup.index < Len(sup.scores)

(* alias_confirmed makes the policy ignore a cleared request; it never      *)
(* survives the episode that set it, whichever branch leaves the episode.   *)
AliasEndsWithEpisode ==
  sup.alias => sup.name \in {"await_query", "await_candidates", "settling",
                             "verifying", "cooldown"}

(* "never publish a candidate whose score is below min_candidate_score"     *)
(* (reinitialization_supervisor_policy.py:29).                              *)
PublishedScoreOK == published # NoReset => published >= MinCandidateScore

(* A request that stays asserted is dealt with: the supervisor recovers and *)
(* stands down, or gives up, however G2 and the localizer behave.           *)
EpisodeEnds ==
  <>[]requested => <>[](sup.name \in {"standdown", "exhausted"})
=============================================================================
