----------------------------- MODULE ResetBudget -----------------------------
(***************************************************************************)
(* What the reinitialization supervisor promises about the resets it       *)
(* publishes for one problem: every query costs one attempt of a fixed     *)
(* budget, a query offers its best candidate and then walks a bounded part *)
(* of its list, and only a settled or cleared problem restores the budget. *)
(***************************************************************************)
EXTENDS Integers

CONSTANTS MaxAttempts, MaxWalkCandidates

VARIABLES
  attempts,      (* queries paid for since the budget was last restored      *)
  resets         (* resets published since then                              *)

budget == <<attempts, resets>>

Init == attempts = 0 /\ resets = 0

(* A query yields a candidate, which is published.                          *)
Offer ==
  /\ attempts < MaxAttempts
  /\ attempts' = attempts + 1
  /\ resets' = resets + 1

(* A query yields nothing to publish.                                       *)
Waste ==
  /\ attempts < MaxAttempts
  /\ attempts' = attempts + 1
  /\ UNCHANGED resets

(* The candidate did not take: the next one of the same query is published. *)
Walk ==
  /\ resets < attempts * MaxWalkCandidates
  /\ resets' = resets + 1
  /\ UNCHANGED attempts

Restore == attempts' = 0 /\ resets' = 0

Next == Offer \/ Waste \/ Walk \/ Restore

Spec == Init /\ [][Next]_budget
=============================================================================
