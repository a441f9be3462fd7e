----------------------------- MODULE ReinitAudit -----------------------------
(***************************************************************************)
(* The supervisor with an observer of the resets it publishes: how many    *)
(* since the attempt counter was last zero, and whether anything has shown *)
(* since the last one that the localizer recovered.  The observer only     *)
(* reads; it adds no behaviour.                                            *)
(***************************************************************************)
EXTENDS ReinitSupervisor

VARIABLES
  resets,       (* resets published since the attempt counter was last zero  *)
  proven        (* confirmed fitness, an agreeing cross-check or a cleared   *)
                (* request since the last reset, or no reset yet             *)

audit == <<resets, proven>>

AuditInit == resets = 0 /\ proven = TRUE

(* A reset counts when the policy asks for it and pays; it needs proof when *)
(* the node, which publishes only what it holds, has published it.          *)
Observe ==
  LET offered == sup'.name = "settling" /\ sup'.resetAge = 0
      shown   == \/ ~requested
                 \/ sup.name = "settling" /\ sup'.name \in {"verifying", "standdown"}
                 \/ /\ sup.name = "verifying"
                    /\ pending # NoReply /\ mismatch = "within"
  IN
  /\ resets' = IF sup'.attempts = 0 THEN 0
               ELSE IF offered THEN resets + 1 ELSE resets
  /\ proven' = IF published' # NoReset THEN FALSE ELSE proven \/ shown

AuditedTick == Tick /\ Observe

AuditedNext == (Callbacks /\ UNCHANGED audit) \/ AuditedTick

AuditedSpec == Init /\ AuditInit /\ [][AuditedNext]_<<vars, audit>>

----------------------------------------------------------------------------
(* The abstract promise, with the policy's own attempt counter.             *)
Budget == INSTANCE ResetBudget WITH attempts <- sup.attempts

(* The supervisor implements the reset budget: every reset is paid for by   *)
(* an attempt or belongs to the bounded walk of one that was.               *)
ImplementsBudget == Budget!Spec

(* One problem never gets more resets than max_attempts queries can offer   *)
(* (policy decide: attempts, candidate_index).                              *)
ResetsBounded == resets <= MaxAttempts * MaxWalkCandidates

(* "after a reset, require post-reset recovery evidence ... before standing *)
(* down" (reinitialization_supervisor_policy.py:32): while the localizer    *)
(* still asks for a reset, a supervisor that has stood down after one has   *)
(* seen the localizer recover, or seen the request cleared for a tick.      *)
StandDownNeedsEvidence ==
  sup.name = "standdown" /\ requested => proven
=============================================================================
