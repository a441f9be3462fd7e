-------------------------- MODULE PatientUserProofs --------------------------
(***************************************************************************)
(* Theorems about the goal adapter's two kinds of user (MCGoalToNav), for  *)
(* every value of the constants: what GoalToNavProofs proves of a user   *)
(* who waits holds whenever the user is patient, whatever an impatient one *)
(* of another behaviour does.                                              *)
(***************************************************************************)
EXTENDS MCGoalToNav, TLAPS

Proved == INSTANCE GoalToNavProofs WITH Waits <- TRUE, MaxCancels <- 1

(* The patient user's constants are as GoalToNav assumes them.              *)
LEMMA PatientConstants ==
  /\ Stamps \subseteq Nat \ {0} /\ Nothing \notin Places
  /\ Dedup \in Nat /\ Grace \in Nat /\ MaxGoals \in Nat /\ 1 \in Nat
  /\ FinalSpin \in BOOLEAN /\ TRUE \in BOOLEAN
  /\ Nothing \notin Proved!Goals /\ Nothing \notin Proved!Clicks
  /\ Nothing \notin Proved!Slots
BY GoalAssumption, NothingAssumption
   DEF Goals, Clicks, Slots, Phases, Proved!Goals, Proved!Clicks, Proved!Slots,
       Proved!Phases

(* Both users' steps keep the invariant proved for the patient one.         *)
PatientInv ==
  /\ user = "patient" => Proved!OneInv
  /\ user = "patient" /\ FinalSpin = FALSE => Proved!OnlyNavigates

LEMMA PatientInit == MCInit => PatientInv
<1>1. Patient!Init => Proved!Init
  BY DEF Patient!Init, Proved!Init, Patient!Horizon, Proved!Horizon,
         Patient!Slots, Proved!Slots
<1>2. Proved!Init => Proved!OneInv /\ Proved!OnlyNavigates
  BY PatientConstants, Proved!IInvInit DEF Proved!OneInv
<1>3. MCInit /\ user = "patient" => Patient!Init
  BY DEF MCInit
<1>4. QED
  BY <1>1, <1>2, <1>3 DEF PatientInv

(* The two instances are the same specification.                            *)
LEMMA SameNext == Patient!Next => Proved!Next
<1>1. /\ Patient!Slots = Proved!Slots /\ Patient!Clicks = Proved!Clicks
      /\ Patient!Horizon = Proved!Horizon /\ Patient!Accepted = Proved!Accepted
      /\ Patient!adapter = Proved!adapter
  BY DEF Patient!Slots, Patient!Clicks, Patient!Horizon, Patient!Accepted,
         Patient!adapter, Proved!Slots, Proved!Clicks, Proved!Horizon,
         Proved!Accepted, Proved!adapter
<1>2. Patient!Room <=> Proved!Room
  BY DEF Patient!Room, Patient!Cardinality, Patient!Free, Patient!Slots,
         Proved!Room, Proved!Cardinality, Proved!Free, Proved!Slots
<1>3. \A gs, kind, stamp :
        Patient!Asked(gs, kind, stamp, goals')
          <=> Proved!Asked(gs, kind, stamp, goals')
  BY DEF Patient!Asked, Patient!Free, Patient!Slots, Proved!Asked,
         Proved!Free, Proved!Slots
<1>4. /\ Patient!Quiet <=> Proved!Quiet
      /\ \A handle : Patient!Cleared(handle) = Proved!Cleared(handle)
  BY DEF Patient!Quiet, Patient!Settled, Patient!Slots, Patient!Cleared,
         Proved!Quiet, Proved!Settled, Proved!Slots, Proved!Cleared
<1>5. \A click : Patient!SendGoal(click) <=> Proved!SendGoal(click)
  BY <1>3
     DEF Patient!SendGoal, Proved!SendGoal
<1>6. \A click : Patient!OnGoal(click) => Proved!OnGoal(click)
  BY <1>2, <1>4, <1>5
     DEF Patient!OnGoal, Patient!Replayed, Patient!Stopped, Proved!OnGoal,
         Proved!Replayed, Proved!Stopped
<1>7. \A place : Patient!SendPending(place) <=> Proved!SendPending(place)
  BY <1>5
     DEF Patient!SendPending, Proved!SendPending
<1>8. Patient!OnCancelDone => Proved!OnCancelDone
  BY <1>4, <1>7
     DEF Patient!OnCancelDone, Proved!OnCancelDone
<1>9. Patient!OnSpinCancelDone => Proved!OnSpinCancelDone
  BY <1>4, <1>7
     DEF Patient!OnSpinCancelDone, Proved!OnSpinCancelDone
<1>10. /\ Patient!OnCancelNavigation => Proved!OnCancelNavigation
       /\ Patient!OnCancelNavigationFalse => Proved!OnCancelNavigationFalse
  BY <1>1, <1>4
     DEF Patient!OnCancelNavigation, Patient!OnCancelNavigationFalse,
         Patient!HandlesStopped, Proved!OnCancelNavigation,
         Proved!OnCancelNavigationFalse, Proved!HandlesStopped
<1>11. Patient!Elapse => Proved!Elapse
  BY DEF Patient!Elapse, Patient!Horizon, Proved!Elapse, Proved!Horizon
<1>12. \A g : Patient!OnFeedback(g) => Proved!OnFeedback(g)
  BY DEF Patient!OnFeedback, Proved!OnFeedback
<1>13. \A g : Patient!OnGoalResponse(g) => Proved!OnGoalResponse(g)
  BY <1>1
     DEF Patient!OnGoalResponse, Patient!Is, Proved!OnGoalResponse, Proved!Is
<1>14. \A g : Patient!OnSpinResponse(g) => Proved!OnSpinResponse(g)
  BY <1>1
     DEF Patient!OnSpinResponse, Patient!Is, Proved!OnSpinResponse, Proved!Is
<1>15. \A g : Patient!OnResult(g) => Proved!OnResult(g)
  BY <1>3, <1>4
     DEF Patient!OnResult, Patient!SpinStarts, Patient!Is, Proved!OnResult,
         Proved!SpinStarts, Proved!Is
<1>16. \A g : Patient!OnSpinResult(g) => Proved!OnSpinResult(g)
  BY <1>3, <1>4
     DEF Patient!OnSpinResult, Patient!Is, Proved!OnSpinResult, Proved!Is
<1>17. \A g : Patient!Accept(g) => Proved!Accept(g)
  BY DEF Patient!Accept, Patient!Server, Patient!Is, Patient!Slots,
         Patient!adapter, Proved!Accept, Proved!Server, Proved!Is,
         Proved!Slots, Proved!adapter
<1>18. \A g : Patient!Refuse(g) => Proved!Refuse(g)
  BY DEF Patient!Refuse, Patient!Server, Patient!adapter, Proved!Refuse,
         Proved!Server, Proved!adapter
<1>19. \A g, phase : Patient!End(g, phase) => Proved!End(g, phase)
  BY DEF Patient!End, Patient!Server, Patient!adapter, Proved!End,
         Proved!Server, Proved!adapter
<1>20. Patient!User => Proved!User
  BY <1>1, <1>6, <1>10
     DEF Patient!User, Proved!User
<1>21. \A g : Patient!Answers(g) => Proved!Answers(g)
  BY <1>13, <1>14, <1>15, <1>16
     DEF Patient!Answers, Proved!Answers
<1>22. \A g : Patient!Nav2(g) => Proved!Nav2(g)
  BY <1>17, <1>18, <1>19
     DEF Patient!Nav2, Proved!Nav2
<1>23. QED
  BY <1>1, <1>8, <1>9, <1>11, <1>12, <1>20, <1>21, <1>22
     DEF Patient!Next, Proved!Next

(* What is proved of the patient instance is about the adapter's variables. *)
LEMMA SameProperties ==
  /\ Proved!SingleGoal => SingleGoal
  /\ Proved!TracksRunning => TracksRunning
BY DEF SingleGoal, TracksRunning, Is, Slots, Cardinality, Proved!SingleGoal,
       Proved!TracksRunning, Proved!Is, Proved!Slots, Proved!Cardinality

LEMMA PatientStepInv ==
  ASSUME PatientInv, [PatientStep \/ ImpatientStep]_all
  PROVE  PatientInv'
<1>1. user' = user
  BY DEF PatientStep, ImpatientStep, all
<1>2. ASSUME user = "patient" PROVE [Proved!Next]_(Proved!vars)
  <2>1. CASE UNCHANGED all
    BY <2>1 DEF all, vars, adapter, Proved!vars, Proved!adapter
  <2>2. CASE PatientStep
    BY <2>2, SameNext DEF PatientStep
  <2>3. QED
    BY <1>2, <2>1, <2>2 DEF ImpatientStep
<1>3. ASSUME Proved!OneInv, [Proved!Next]_(Proved!vars) PROVE Proved!OneInv'
  BY <1>3, PatientConstants, Proved!OneStep
<1>4. ASSUME Proved!OneInv, Proved!OnlyNavigates, FinalSpin = FALSE,
             [Proved!Next]_(Proved!vars)
      PROVE  Proved!OnlyNavigates'
  <2>1. Proved!IInv
    BY <1>4 DEF Proved!OneInv
  <2>2. QED
    BY <1>4, <2>1, PatientConstants, Proved!OnlyNavigatesStep
<1>5. QED
  BY <1>1, <1>2, <1>3, <1>4 DEF PatientInv

LEMMA PatientInvariance == MCSpec => []PatientInv
BY PatientInit, PatientStepInv, PTL DEF MCSpec

(* A patient user has one navigation goal at a time (g1_goal_to_nav.py:113) *)
(* in every order of the answers, final spin or not, but for a goal whose   *)
(* handle the late result of an older one has cleared                       *)
(* (g1_goal_to_nav.py:428).                                                 *)
THEOREM AlwaysSingleGoalPatient == MCSpec => []SingleGoalPatient
<1>1. ASSUME Proved!IInv, Proved!OneAtATime PROVE Proved!SingleGoal
  BY <1>1, PatientConstants, Proved!OneIsSingle
<1>2. PatientInv => SingleGoalPatient
  BY <1>1, SameProperties DEF PatientInv, Proved!OneInv, SingleGoalPatient
<1>3. QED
  BY <1>2, PatientInvariance, PTL

(* With the final spin off, as start_nav_planning.sh sets it, what Nav2     *)
(* runs for a patient user and the node was told of is in its handle, and a *)
(* late result of an older goal is the only way out of it.                  *)
THEOREM AlwaysTracksRunningPatient ==
  ASSUME FinalSpin = FALSE PROVE MCSpec => []TracksRunningPatient
<1>1. ASSUME Proved!OneAtATime, Proved!OnlyNavigates PROVE Proved!TracksRunning
  BY <1>1, PatientConstants, Proved!OneIsTracked
<1>2. PatientInv => TracksRunningPatient
  BY <1>1, SameProperties DEF PatientInv, Proved!OneInv, TracksRunningPatient
<1>3. QED
  BY <1>2, PatientInvariance, PTL
==============================================================================
