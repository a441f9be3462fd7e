----------------------------- MODULE MCGoalToNav -----------------------------
(* Small instances of the goal adapter with two kinds of user.  A patient    *)
(* one clicks goals that carry a source stamp and waits until the node is    *)
(* quiet; an impatient one clicks and cancels at any time, with the final    *)
(* heading spin on and no time filters.  Answers come in any order to both.  *)
EXTENDS GoalToNav

VARIABLE user

Patient == INSTANCE GoalToNav WITH Waits <- TRUE, MaxCancels <- 1
Impatient == INSTANCE GoalToNav WITH
  Stamps <- {}, Dedup <- 0, Grace <- 0, FinalSpin <- TRUE

all == <<vars, user>>

MCInit == \/ user = "patient" /\ Patient!Init
          \/ user = "impatient" /\ Impatient!Init

PatientStep   == user = "patient" /\ Patient!Next /\ UNCHANGED user
ImpatientStep == user = "impatient" /\ Impatient!Next /\ UNCHANGED user

CancelDone     == user = "impatient" /\ Impatient!OnCancelDone /\ UNCHANGED user
SpinCancelDone == user = "impatient" /\ Impatient!OnSpinCancelDone /\ UNCHANGED user

(* Every cancel is answered; Nav2 need not finish a goal.                    *)
MCSpec == MCInit /\ [][PatientStep \/ ImpatientStep]_all
          /\ WF_all(CancelDone) /\ WF_all(SpinCancelDone)

(* A patient user has one navigation goal at a time                          *)
(* (g1_goal_to_nav.py:113) and whatever Nav2 runs and the node was told of   *)
(* can be cancelled by it, but for the goals whose handle the late answer    *)
(* about an older goal has cleared: the late result, as ROS delivers it      *)
(* after the cancel's answer, is the only way to a second goal.              *)
SingleGoalPatient == user = "patient" => SingleGoal
TracksRunningPatient == user = "patient" => TracksRunning

(* A click kept for later is sent, replaced or revoked.                      *)
PendingIsSentImpatient ==
  user = "impatient" /\ pending # Nothing ~> pending = Nothing

TwoStamps == {1, 2}
=============================================================================
