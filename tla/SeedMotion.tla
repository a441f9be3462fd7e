------------------------------ MODULE SeedMotion ------------------------------
(* Seed motion compensation of the reinitialization supervisor. A query      *)
(* takes seconds and its candidates are fixes of a scan taken when it was    *)
(* sent, so the node pushes the seed of a reset ahead by a velocity times    *)
(* the delay. The velocity comes from two fixes on the bag's clock, else     *)
(* from two fixes on the wall clock, else from the poses of the localizer    *)
(* observed while it was trusted.                                            *)
(*                                                                           *)
(* Positions are on a line and times are whole; a velocity is the fraction   *)
(* dx / dt, an offset num / den. The bag plays at the rate of the wall clock *)
(* and both show `now'. The policy is what ReinitSupervisor models and is    *)
(* reduced to when it asks, publishes, walks and ends an episode.            *)
(*                                                                           *)
(* An operator that stands just before another and extends its name is its   *)
(* mutated form, listed in PROJECT.json; no other definition uses it.        *)
EXTENDS Integers

CONSTANTS
    Positions,                  \* where poses and fixes can be
    MaxTime,                    \* bound: the clock stops here
    MaxQueries,                 \* bound: queries sent
    MaxScanAge,                 \* bound: time from a scan to the reply made from it
    EnableSeedMotion,           \* enable_seed_motion_compensation
    WallFallback,               \* seed_motion_wall_fallback
    MaxSpeed,                   \* max_seed_speed_mps
    MaxLatency,                 \* max_seed_latency_sec
    MaxAge,                     \* seed_velocity_max_age_sec
    MinPairDt,                  \* min_dt_sec of estimate_seed_velocity
    MinSimDt, MaxSimDt,         \* min_dt_sec, max_dt_sec of estimate_sim_fix_velocity
    Replies,                    \* <<has candidate_age_sec, has scan_stamp_sec>>
    Unset                       \* None, and a SeedVelocity that is not valid

ASSUME SeedAssumption ==
    /\ Positions \subseteq Int
    /\ MaxTime \in Nat /\ MaxScanAge \in Nat /\ MaxSpeed \in Nat /\ MaxLatency \in Nat /\ MaxAge \in Nat
    /\ MinPairDt \in Nat \ {0} /\ MinSimDt \in Nat \ {0} /\ MaxSimDt \in Nat
    /\ Unset \notin Int /\ Unset \notin [x : Int, at : Int]

VARIABLES
    now,            \* time.monotonic, and the stamps of messages
    mode,           \* "tracking": idle or standdown; asking: querying or verifying; settling; waiting
    tracker,        \* TrustedSeedVelocityTracker: anchor, velocity, and when that was computed
    asked, outstanding,         \* queries sent, and those without an answer
    issue,          \* _query_issue_time and _query_issue_velocity
    reply,          \* _pending_reply holds scores
    candidates,     \* _candidates: where the first is
    current,        \* the _current_query_* fields
    prevFix,        \* _prev_fix
    prevSim, simVelocity,       \* _prev_sim_fix, _sim_fix_velocity
    seed            \* the offset of the reset that settles, and what it came from (history)

issueVars == <<asked, outstanding, issue>>
replyVars == <<reply, candidates, prevSim, simVelocity>>
publishVars == <<current, prevFix, seed>>
vars == <<now, mode, tracker, issueVars, replyVars, publishVars>>

Times == 0 .. MaxTime
Abs(x) == IF x < 0 THEN -x ELSE x
Least(a, b) == IF a < b THEN a ELSE b
Most(a, b) == IF a < b THEN b ELSE a

Fixes == [x : Positions, at : Times]
Velocities == [dx : Int, dt : Nat \ {0}]
Nothing == [velocity |-> Unset, delta |-> Unset, issueAt |-> Unset, age |-> Unset, response |-> Unset]
Still == [num |-> 0, den |-> 1]

TypeOK ==
    /\ now \in Times
    /\ mode \in {"tracking", "asking", "settling", "waiting"}
    /\ tracker.anchor \in Fixes \cup {Unset} /\ tracker.at \in Times \cup {Unset}
    /\ tracker.velocity \in Velocities \cup {Unset}
    /\ asked \in 0 .. MaxQueries /\ outstanding \in 0 .. asked /\ reply \in BOOLEAN
    /\ issue # Unset => issue.at \in Times /\ issue.velocity \in Velocities \cup {Unset}
    /\ prevFix # Unset => prevFix.x \in Positions /\ prevFix.at \in Int
    /\ prevSim \in Fixes \cup {Unset} /\ simVelocity \in Velocities \cup {Unset}
    /\ current.velocity \in Velocities \cup {Unset}

Init ==
    /\ now = 0 /\ mode = "tracking"
    /\ tracker = [anchor |-> Unset, velocity |-> Unset, at |-> Unset]
    /\ asked = 0 /\ outstanding = 0 /\ issue = Unset
    /\ reply = FALSE /\ candidates = Unset /\ prevSim = Unset /\ simVelocity = Unset
    /\ current = Nothing /\ prevFix = Unset /\ seed = Unset

-----------------------------------------------------------------------------
(* The estimates.                                                            *)

estimate_seed_velocity(prev, curr, min_dt) ==
    LET dx == curr.x - prev.x
        dt == curr.at - prev.at
    IN IF dt >= min_dt /\ Abs(dx) <= MaxSpeed * dt THEN [dx |-> dx, dt |-> dt] ELSE Unset

estimate_sim_fix_velocity(prev, curr) ==
    IF curr.at - prev.at > MaxSimDt THEN Unset ELSE estimate_seed_velocity(prev, curr, MinSimDt)

Travel(velocity, t) == [num |-> velocity.dx * t, den |-> velocity.dt]

(* _estimate_pose_delta_sim_fix: Unset also when nothing has gone by since   *)
(* the fix. latest is _last_sim_stamp_sec, the stamp of the last pose or     *)
(* status, which is any time up to now.                                      *)
SimFixDelta(latest) ==
    LET staleness == Least(latest - prevSim.at, MaxLatency)
    IN IF simVelocity # Unset /\ prevSim # Unset /\ latest # Unset /\ staleness > 0
       THEN Travel(simVelocity, staleness) ELSE Unset

velocity_at(t) ==
    IF tracker.velocity # Unset /\ t - tracker.at <= MaxAge THEN tracker.velocity ELSE Unset

(* The delay since the scan, when the reply told its age; else since the     *)
(* query was sent.                                                           *)
SeedLatency ==
    IF current.age # Unset /\ current.response # Unset
    THEN current.age + Most(0, now - current.response)
    ELSE now - issue.at

FixTime ==
    IF current.age # Unset /\ current.response # Unset
    THEN current.response - current.age ELSE issue.at

forward_compensate(velocity) ==
    IF velocity = Unset \/ SeedLatency <= 0 THEN Still
    ELSE Travel(velocity, Least(SeedLatency, MaxLatency))

(* _estimate_pose_delta_since_query_issue. The supervisor has left idle when *)
(* it asks and settles when it publishes, so the poses of both moments are   *)
(* untrusted and what remains is the velocity known when the query was sent. *)
PoseDelta ==
    IF issue.velocity # Unset /\ SeedLatency \in 1 .. MaxLatency
    THEN Travel(issue.velocity, SeedLatency) ELSE Unset

-----------------------------------------------------------------------------
(* Subscriptions and time.                                                   *)

Advance ==
    /\ now < MaxTime /\ now' = now + 1
    /\ UNCHANGED <<mode, tracker, issueVars, replyVars, publishVars>>

(* The tracker holds its anchor until the baseline is long enough, and takes *)
(* the new pose for it also when the two are implausible.                    *)
Observe(x) ==
    LET pose == [x |-> x, at |-> now]
        velocity == estimate_seed_velocity(tracker.anchor, pose, MinPairDt)
    IN IF tracker.anchor # Unset /\ now - tracker.anchor.at < MinPairDt THEN UNCHANGED tracker
       ELSE tracker' = IF tracker.anchor = Unset \/ velocity = Unset
                       THEN [tracker EXCEPT !.anchor = pose]
                       ELSE [anchor |-> pose, velocity |-> velocity, at |-> now]

(* _on_pose while _stable_tracking holds, and when it does not.              *)
OnPose(x) ==
    /\ mode = "tracking"
    /\ Observe(x)
    /\ UNCHANGED <<now, mode, issueVars, replyVars, publishVars>>

OnUntrustedPose ==
    /\ tracker' = [tracker EXCEPT !.anchor = Unset]
    /\ UNCHANGED <<now, mode, issueVars, replyVars, publishVars>>

-----------------------------------------------------------------------------
(* Queries. _query_in_flight is written and never read: the answer to a      *)
(* query the policy gave up on comes when it likes.                          *)

IssueQuery ==
    /\ mode # "asking"
    /\ mode' = "asking" /\ reply' = FALSE /\ seed' = Unset
    /\ \/ UNCHANGED issueVars           \* the service is not ready
       \/ /\ asked < MaxQueries /\ asked' = asked + 1 /\ outstanding' = outstanding + 1
          /\ issue' = [at |-> now, velocity |-> velocity_at(now)]
    /\ UNCHANGED <<now, tracker, candidates, prevSim, simVelocity, current, prevFix>>

SimFixHeld(x, stamp) ==
    IF stamp = Unset
    THEN simVelocity' = Unset /\ UNCHANGED prevSim
    ELSE /\ simVelocity' = IF prevSim = Unset THEN Unset
                           ELSE estimate_sim_fix_velocity(prevSim, [x |-> x, at |-> stamp])
         /\ prevSim' = IF simVelocity' = Unset THEN [x |-> x, at |-> stamp] ELSE prevSim

(* _update_sim_fix_velocity_from_query                                       *)
SimFix(x, stamp) ==
    IF stamp = Unset
    THEN simVelocity' = Unset /\ UNCHANGED prevSim
    ELSE /\ simVelocity' = IF prevSim = Unset THEN Unset
                           ELSE estimate_sim_fix_velocity(prevSim, [x |-> x, at |-> stamp])
         /\ prevSim' = [x |-> x, at |-> stamp]

(* The scan was taken at `scan'; a reply may leave out candidate_age_sec and *)
(* scan_stamp_sec. A reply nobody waits for is dropped by the next tick.     *)
OnQueryResponse(top, scan, aged, stamped) ==
    /\ outstanding > 0 /\ outstanding' = outstanding - 1
    /\ candidates' = top /\ reply' = (mode = "asking")
    /\ current' = [current EXCEPT !.velocity = Unset, !.issueAt = issue.at,
                                  !.age = IF aged THEN now - scan ELSE Unset, !.response = now]
    /\ SimFix(top, IF stamped THEN scan ELSE Unset)
    /\ UNCHANGED <<now, mode, tracker, asked, issue, prevFix, seed>>

(* _reset_failed_query_state: no candidate, or a reply that does not parse.  *)
OnEmptyResponse ==
    /\ outstanding > 0 /\ outstanding' = outstanding - 1
    /\ candidates' = Unset /\ reply' = FALSE
    /\ current' = [current EXCEPT !.age = Unset, !.response = Unset]
    /\ simVelocity' = Unset
    /\ UNCHANGED <<now, mode, tracker, asked, issue, prevSim, prevFix, seed>>

OnFailedCall ==
    /\ outstanding > 0 /\ outstanding' = outstanding - 1
    /\ UNCHANGED <<now, mode, tracker, asked, issue, replyVars, publishVars>>

-----------------------------------------------------------------------------
(* _compensate_seed: from what the seed's offset is made.                    *)

Query == IF current.issueAt = issue.at THEN current
         ELSE [current EXCEPT !.velocity = Unset, !.delta = Unset, !.issueAt = issue.at]

Reset(offset, why) == seed' = [offset |-> offset, why |-> why]

(* The first candidate is the query's fix: it makes the velocity against the *)
(* fix of an earlier query, or takes the poses' velocity, and is remembered. *)
CompensateFirst ==
    LET fix == [x |-> candidates, at |-> FixTime]
        velocity == IF prevFix = Unset THEN Unset ELSE estimate_seed_velocity(prevFix, fix, MinPairDt)
        delta == IF prevFix = Unset /\ PoseDelta # Unset THEN PoseDelta ELSE Query.delta
    IN /\ current' = [Query EXCEPT !.velocity = velocity, !.delta = delta]
       /\ prevFix' = fix
       /\ Reset(IF delta # Unset THEN delta ELSE forward_compensate(velocity),
                IF prevFix # Unset /\ velocity = Unset THEN "implausible" ELSE "wall")

CompensateWalked ==
    /\ current' = Query /\ UNCHANGED prevFix
    /\ Reset(IF Query.delta # Unset THEN Query.delta ELSE forward_compensate(Query.velocity), "wall")

(* registered: registration_fitness is at most the threshold above which the *)
(* wall clock's velocities are used.                                         *)
CompensateSeed(first, registered, latest) ==
    LET bySim == EnableSeedMotion /\ SimFixDelta(latest) # Unset
        byWall == EnableSeedMotion /\ WallFallback /\ ~registered
    IN \/ bySim /\ Reset(SimFixDelta(latest), "sim") /\ UNCHANGED <<current, prevFix>>
       \/ ~bySim /\ ~byWall /\ Reset(Still, "raw") /\ UNCHANGED <<current, prevFix>>
       \/ ~bySim /\ byWall /\ first /\ CompensateFirst
       \/ ~bySim /\ byWall /\ ~first /\ CompensateWalked

(* The policy accepts the reply, or walks on to a candidate it counted; a    *)
(* late answer may have replaced them since.                                 *)
PublishReset(first, registered, latest) ==
    /\ candidates # Unset
    /\ IF first THEN mode = "asking" /\ reply ELSE mode = "settling"
    /\ CompensateSeed(first, registered, latest)
    /\ mode' = "settling" /\ reply' = FALSE
    /\ UNCHANGED <<now, tracker, issueVars, candidates, prevSim, simVelocity>>

(* Refused, timed out, or out of candidates.                                 *)
EndAttempt ==
    /\ mode \in {"asking", "settling"} /\ mode' = "waiting"
    /\ reply' = FALSE /\ seed' = Unset
    /\ UNCHANGED <<now, tracker, issueVars, candidates, prevSim, simVelocity, current, prevFix>>

(* recovery_confirmed, cross_check_timeout and the *_cleared decisions: no   *)
(* other one leads to idle or standdown.                                     *)
ClearWallSeedMotionHistory ==
    /\ mode # "tracking" /\ mode' = "tracking"
    /\ reply' = FALSE /\ seed' = Unset
    /\ prevFix' = Unset /\ current' = Nothing
    /\ UNCHANGED <<now, tracker, issueVars, candidates, prevSim, simVelocity>>

Next ==
    \/ Advance
    \/ \E x \in Positions : OnPose(x)
    \/ OnUntrustedPose
    \/ IssueQuery \/ OnEmptyResponse \/ OnFailedCall
    \/ \E top \in Positions, scan \in Most(0, now - MaxScanAge) .. now, r \in Replies :
           OnQueryResponse(top, scan, r[1], r[2])
    \/ \E first, registered \in BOOLEAN, latest \in (0 .. now) \cup {Unset} :
           PublishReset(first, registered, latest)
    \/ EndAttempt \/ ClearWallSeedMotionHistory

Spec == Init /\ [][Next]_vars

-----------------------------------------------------------------------------

(* A velocity of the bag's clock ends at the fix whose candidates are the    *)
(* ones published, though failed replies and other episodes come between.    *)
SimFixIsTop ==
    simVelocity # Unset => prevSim # Unset /\ candidates # Unset /\ prevSim.x = candidates

(* "implausible-velocity cases return the raw position unchanged": when two  *)
(* queries' fixes disagree, the seed is not moved.                           *)
ImplausibleUnmoved ==
    seed # Unset /\ seed.why = "implausible" => seed.offset.num = 0
=============================================================================
