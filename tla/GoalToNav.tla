------------------------------ MODULE GoalToNav ------------------------------
(***************************************************************************)
(* The Foxglove goal adapter, src/nav/g1_goal_to_nav.py: it forwards       *)
(* clicked goals to Nav2's NavigateToPose action, may turn to the goal     *)
(* heading with a Spin action when one is reached, replaces an active goal *)
(* by cancelling it first, and obeys cancel_navigation.                    *)
(*                                                                         *)
(* The node's callbacks run one at a time, but every action call is        *)
(* asynchronous: its response, the result of the goal and the answer to a  *)
(* cancel are separate callbacks that come in any order.  Nav2 is external *)
(* and modelled by what its clients can see: it accepts or refuses a goal, *)
(* a newer goal preempts the running one, a goal ends when it likes.       *)
(* A goal that is stale or has no transform changes nothing and is left    *)
(* out.                                                                    *)
(***************************************************************************)
EXTENDS Integers, FiniteSets

CONSTANTS
  Places,        (* goals _same_goal tells apart                             *)
  Stamps,        (* source stamps, positive                                  *)
  Nothing,       (* None                                                     *)
  Dedup,         (* GOAL_DEDUP_S                                             *)
  Grace,         (* CANCEL_GRACE_S                                           *)
  FinalSpin,     (* ~G1_NAV_IGNORE_GOAL_YAW and FINAL_SPIN_TO_GOAL_YAW       *)
  MaxGoals,      (* goals whose life is followed at once                     *)
  MaxCancels,    (* cancel answers in flight at once                         *)
  Waits          (* TRUE: the user acts only when the node is quiet          *)

ASSUME GoalAssumption ==
  /\ Stamps \subseteq Nat \ {0}
  /\ Nothing \notin Places
  /\ Dedup \in Nat /\ Grace \in Nat
  /\ MaxGoals \in Nat /\ MaxCancels \in Nat
  /\ FinalSpin \in BOOLEAN /\ Waits \in BOOLEAN

VARIABLES
  goal,          (* _active_goal                                             *)
  goalPlace,     (* _active_goal_pose                                        *)
  spin,          (* _active_spin                                             *)
  spinPlace,     (* _active_spin_goal_pose                                   *)
  pending,       (* _pending_goal                                            *)
  sent,          (* _last_sent_goal_pose                                     *)
  sinceSent,     (* now - _last_sent_goal_time, saturated at Horizon         *)
  ignore,        (* _cancel_ignore_until - now, not below 0                  *)
  source,        (* _active_goal_source_stamp                                *)
  reached,       (* _last_succeeded_source_stamp                             *)
  goals,         (* external: the goals between request and result           *)
  goalCancels,   (* cancels whose answer runs _on_cancel_done                *)
  spinCancels,   (* cancels whose answer runs _on_spin_cancel_done           *)
  disowned       (* history: open goals whose handle the answer about an     *)
                 (* older goal has cleared                                   *)

adapter == <<goal, goalPlace, spin, spinPlace, pending, sent, sinceSent,
             ignore, source, reached>>
vars == <<adapter, goals, goalCancels, spinCancels, disowned>>

Slots   == 1..MaxGoals
Horizon == IF Dedup < Grace THEN Grace ELSE Dedup
Clicks  == [place : Places, stamp : Stamps \cup {0}]

(* A goal as Nav2 and the network hold it: told once its response has been  *)
(* delivered, stop once its cancel has been asked for.                      *)
Phases == {"asked", "refused", "running", "succeeded", "failed"}
Goals  == [kind : {"navigate", "spin"}, stamp : Stamps \cup {0},
           phase : Phases, told : BOOLEAN, stop : BOOLEAN]

ASSUME NothingAssumption ==
  Nothing \notin Goals /\ Nothing \notin Clicks /\ Nothing \notin Slots

Free(gs) == {g \in Slots : gs[g] = Nothing}
Is(g, kind, phases) ==
  goals[g] # Nothing /\ goals[g].kind = kind /\ goals[g].phase \in phases

Init ==
  /\ goal = Nothing /\ goalPlace = Nothing
  /\ spin = Nothing /\ spinPlace = Nothing
  /\ pending = Nothing /\ sent = Nothing
  /\ sinceSent = Horizon /\ ignore = 0
  /\ source = 0 /\ reached = -1
  /\ goals = [g \in Slots |-> Nothing]
  /\ goalCancels = 0 /\ spinCancels = 0
  /\ disowned = {}

----------------------------------------------------------------------------
(* Bounds: what the user does waits until there is room for it and for one  *)
(* goal more.                                                               *)
Room == Cardinality(Free(goals)) >= 2

(* No answer or result is on its way to the node.                           *)
Settled(g) == goals[g] # Nothing =>
  goals[g].told /\ goals[g].phase = "running" /\ ~goals[g].stop
Quiet == goalCancels = 0 /\ spinCancels = 0 /\ \A g \in Slots : Settled(g)

(* A handle that is cleared although no cancel was asked for its goal; the  *)
(* goal whose own result clears it is then taken out again.                 *)
Cleared(handle) ==
  IF handle # Nothing /\ ~goals[handle].stop THEN {handle} ELSE {}

(* A request leaves for Nav2 in a free slot.                                *)
Asked(gs, kind, stamp, gs2) ==
  \E g \in Free(gs) :
    /\ \A h \in Free(gs) : g <= h
    /\ gs2 = [gs EXCEPT ![g] = [kind |-> kind, stamp |-> stamp,
                                phase |-> "asked", told |-> FALSE,
                                stop |-> FALSE]]

Stopped(gs, g) == [gs EXCEPT ![g].stop = TRUE]

(* An operator that stands just before another and extends its name is its *)
(* mutated form, listed in PROJECT.json; no other definition uses it.      *)

(* _send_goal                                                               *)
SendGoal(click) ==
  /\ goalPlace' = click.place /\ source' = click.stamp
  /\ sent' = click.place /\ sinceSent' = 0
  /\ ignore' = Grace
  /\ Asked(goals, "navigate", click.stamp, goals')

(* The end of the callbacks that send the pending goal, if there is one.    *)
SendPendingKept(place) ==
  /\ UNCHANGED pending
  /\ IF pending = Nothing
     THEN goalPlace' = place /\ UNCHANGED <<source, sent, sinceSent, ignore, goals>>
     ELSE SendGoal(pending)
SendPending(place) ==
  /\ pending' = Nothing
  /\ IF pending = Nothing
     THEN goalPlace' = place /\ UNCHANGED <<source, sent, sinceSent, ignore, goals>>
     ELSE SendGoal(pending)

----------------------------------------------------------------------------
(* The node.                                                                *)

Replayed(click) ==
  \/ click.stamp > 0 /\ click.stamp = reached
  \/ sent = click.place /\ sinceSent < Dedup

OnGoalPreempting(click) ==
  /\ Room /\ (Waits => Quiet)
  /\ ~Replayed(click)
  /\ SendGoal(click)
  /\ UNCHANGED <<goal, spin, spinPlace, reached, disowned, pending,
                 goalCancels, spinCancels>>

OnGoal(click) ==
  /\ Room /\ (Waits => Quiet)
  /\ ~Replayed(click)
  /\ \/ /\ goal = Nothing /\ spin = Nothing
        /\ SendGoal(click)
        /\ UNCHANGED <<pending, goalCancels, spinCancels>>
     \/ /\ goal # Nothing /\ goalPlace # click.place
        /\ goalCancels < MaxCancels
        /\ pending' = click
        /\ goals' = Stopped(goals, goal) /\ goalCancels' = goalCancels + 1
        /\ UNCHANGED <<goalPlace, sent, sinceSent, ignore, source, spinCancels>>
     \/ /\ goal = Nothing /\ spin # Nothing /\ spinPlace # click.place
        /\ spinCancels < MaxCancels
        /\ pending' = click
        /\ goals' = Stopped(goals, spin) /\ spinCancels' = spinCancels + 1
        /\ UNCHANGED <<goalPlace, sent, sinceSent, ignore, source, goalCancels>>
  /\ UNCHANGED <<goal, spin, spinPlace, reached, disowned>>

OnCancelDone ==
  /\ goalCancels > 0
  /\ goalCancels' = goalCancels - 1
  /\ goal' = Nothing
  /\ disowned' = disowned \cup Cleared(goal)
  /\ SendPending(Nothing)
  /\ UNCHANGED <<spin, spinPlace, reached, spinCancels>>

OnSpinCancelDone ==
  /\ spinCancels > 0
  /\ spinCancels' = spinCancels - 1
  /\ spin' = Nothing /\ spinPlace' = Nothing
  /\ disowned' = disowned \cup Cleared(spin)
  /\ SendPending(goalPlace)
  /\ UNCHANGED <<goal, reached, goalCancels>>

(* cancel_navigation = False ends the grace period.                         *)
OnCancelNavigationFalse ==
  /\ ignore' = 0
  /\ UNCHANGED <<goal, goalPlace, spin, spinPlace, pending, sent, sinceSent,
                 source, reached, goals, goalCancels, spinCancels, disowned>>

(* Both handles, where there are any, ask for their cancel.                 *)
HandlesStoppedSpin ==
  [g \in Slots |-> IF goals[g] # Nothing /\ g = spin
                   THEN [goals[g] EXCEPT !.stop = TRUE] ELSE goals[g]]
HandlesStopped ==
  [g \in Slots |-> IF goals[g] # Nothing /\ g \in {goal, spin}
                   THEN [goals[g] EXCEPT !.stop = TRUE] ELSE goals[g]]

(* cancel_navigation = True, outside the grace period.                      *)
OnCancelNavigation ==
  /\ Waits => Quiet
  /\ ignore = 0
  /\ pending' = Nothing
  /\ goals' = HandlesStopped
  /\ goal' = Nothing /\ spin' = Nothing
  /\ goalPlace' = IF goal = Nothing THEN goalPlace ELSE Nothing
  /\ spinPlace' = IF spin = Nothing THEN spinPlace ELSE Nothing
  /\ UNCHANGED <<sent, sinceSent, ignore, source, reached, goalCancels,
                 spinCancels, disowned>>

(* _on_feedback and _on_spin_feedback: both renew the grace period.         *)
OnFeedback(g) ==
  /\ goals[g] # Nothing /\ goals[g].phase = "running"
  /\ ignore' = Grace
  /\ UNCHANGED <<goal, goalPlace, spin, spinPlace, pending, sent, sinceSent,
                 source, reached, goals, goalCancels, spinCancels, disowned>>

Accepted == {"running", "succeeded", "failed"}

OnGoalResponse(g) ==
  /\ Is(g, "navigate", Accepted \cup {"refused"}) /\ ~goals[g].told
  /\ \/ /\ Is(g, "navigate", {"refused"})
        /\ goals' = [goals EXCEPT ![g] = Nothing]
        /\ UNCHANGED <<goal, ignore>>
     \/ /\ Is(g, "navigate", Accepted)
        /\ goals' = [goals EXCEPT ![g].told = TRUE]
        /\ goal' = g /\ ignore' = Grace
  /\ UNCHANGED <<goalPlace, spin, spinPlace, pending, sent, sinceSent, source,
                 reached, goalCancels, spinCancels, disowned>>

(* The heading is off and the Spin server is there: nothing the node keeps  *)
(* decides it.                                                              *)
SpinStarts(released) ==
  /\ FinalSpin /\ goalPlace # Nothing
  /\ spinPlace' = goalPlace /\ ignore' = Grace
  /\ Asked(released, "spin", source, goals')

OnResult(g) ==
  LET released == [goals EXCEPT ![g] = Nothing] IN
  /\ Is(g, "navigate", {"succeeded", "failed"}) /\ goals[g].told
  /\ goal' = Nothing /\ goalPlace' = Nothing
  /\ disowned' = (disowned \cup Cleared(goal)) \ {g}
  /\ \/ /\ goals[g].phase = "succeeded" /\ reached' = source
        /\ SpinStarts(released)
     \/ /\ reached' = IF goals[g].phase = "succeeded" THEN source ELSE reached
        /\ goals' = released
        /\ UNCHANGED <<spinPlace, ignore>>
  /\ UNCHANGED <<spin, pending, sent, sinceSent, source, goalCancels,
                 spinCancels>>

OnSpinResponse(g) ==
  /\ Is(g, "spin", Accepted \cup {"refused"}) /\ ~goals[g].told
  /\ \/ /\ Is(g, "spin", {"refused"})
        /\ goals' = [goals EXCEPT ![g] = Nothing]
        /\ spinPlace' = Nothing
        /\ UNCHANGED <<spin, source, ignore>>
     \/ /\ Is(g, "spin", Accepted)
        /\ goals' = [goals EXCEPT ![g].told = TRUE]
        /\ spin' = g /\ source' = goals[g].stamp /\ ignore' = Grace
        /\ UNCHANGED spinPlace
  /\ UNCHANGED <<goal, goalPlace, pending, sent, sinceSent, reached,
                 goalCancels, spinCancels, disowned>>

(* Unlike _on_result, it sends the pending goal, but not when the result    *)
(* could not be had.                                                        *)
OnSpinResultHeld(g) ==
  /\ Is(g, "spin", {"succeeded", "failed"}) /\ goals[g].told
  /\ goals' = [goals EXCEPT ![g] = Nothing]
  /\ UNCHANGED <<goal, goalPlace, spin, spinPlace, pending, sent, sinceSent,
                 ignore, source, reached, goalCancels, spinCancels, disowned>>

OnSpinResult(g) ==
  LET released == [goals EXCEPT ![g] = Nothing] IN
  /\ Is(g, "spin", {"succeeded", "failed"}) /\ goals[g].told
  /\ spin' = Nothing /\ spinPlace' = Nothing
  /\ disowned' = (disowned \cup Cleared(spin)) \ {g}
  /\ \/ /\ pending # Nothing /\ pending' = Nothing
        /\ goalPlace' = pending.place /\ source' = pending.stamp
        /\ sent' = pending.place /\ sinceSent' = 0 /\ ignore' = Grace
        /\ Asked(released, "navigate", pending.stamp, goals')
     \/ /\ pending = Nothing \/ goals[g].phase = "failed"
        /\ goals' = released
        /\ UNCHANGED <<pending, goalPlace, source, sent, sinceSent, ignore>>
  /\ UNCHANGED <<goal, reached, goalCancels, spinCancels>>

Elapse ==
  /\ sinceSent < Horizon \/ ignore > 0
  /\ sinceSent' = IF sinceSent < Horizon THEN sinceSent + 1 ELSE Horizon
  /\ ignore' = IF ignore > 0 THEN ignore - 1 ELSE 0
  /\ UNCHANGED <<goal, goalPlace, spin, spinPlace, pending, sent, source,
                 reached, goals, goalCancels, spinCancels, disowned>>

----------------------------------------------------------------------------
(* External: the Nav2 action servers.                                       *)

Server(gs) ==
  goals' = gs /\ UNCHANGED <<adapter, goalCancels, spinCancels, disowned>>

(* A newer goal preempts the one the same server runs.                      *)
Accept(g) ==
  /\ goals[g] # Nothing /\ goals[g].phase = "asked"
  /\ Server([h \in Slots |->
       IF h = g THEN [goals[g] EXCEPT !.phase = "running"]
       ELSE IF Is(h, goals[g].kind, {"running"})
            THEN [goals[h] EXCEPT !.phase = "failed"]
            ELSE goals[h]])

(* Refused, or the request failed.                                          *)
Refuse(g) ==
  /\ goals[g] # Nothing /\ goals[g].phase = "asked"
  /\ Server([goals EXCEPT ![g].phase = "refused"])

End(g, phase) ==
  /\ goals[g] # Nothing /\ goals[g].phase = "running"
  /\ Server([goals EXCEPT ![g].phase = phase])

----------------------------------------------------------------------------

User == (\E click \in Clicks : OnGoal(click))
        \/ OnCancelNavigation \/ OnCancelNavigationFalse

Answers(g) == OnGoalResponse(g) \/ OnResult(g) \/ OnSpinResponse(g)
              \/ OnSpinResult(g)

Nav2(g) == Accept(g) \/ Refuse(g) \/ \E phase \in {"succeeded", "failed"} : End(g, phase)

Next ==
  \/ User \/ OnCancelDone \/ OnSpinCancelDone \/ Elapse
  \/ \E g \in Slots : OnFeedback(g) \/ Answers(g) \/ Nav2(g)

Spec == Init /\ [][Next]_vars

----------------------------------------------------------------------------
(* Properties.                                                              *)

(* Type invariant.                                                          *)
TypeOK ==
  /\ goal \in Slots \cup {Nothing} /\ spin \in Slots \cup {Nothing}
  /\ goalPlace \in Places \cup {Nothing}
  /\ spinPlace \in Places \cup {Nothing}
  /\ pending \in Clicks \cup {Nothing}
  /\ sent \in Places \cup {Nothing}
  /\ sinceSent \in 0..Horizon /\ ignore \in 0..Grace
  /\ source \in Stamps \cup {0} /\ reached \in Stamps \cup {0, -1}
  /\ goals \in [Slots -> Goals \cup {Nothing}]
  /\ goalCancels \in 0..MaxCancels /\ spinCancels \in 0..MaxCancels
  /\ disowned \subseteq Slots

(* A click kept for later is never stranded: the answer to a cancel that    *)
(* sends it is still to come (only the cancel callbacks send it).           *)
PendingHasCancel == pending # Nothing => goalCancels + spinCancels > 0

(* A handle of the node is a goal whose result is still to come, so a       *)
(* cancel it asks for is about a goal of its own.                           *)
HandlesAreOpen ==
  /\ goal # Nothing => goals[goal] # Nothing /\ goals[goal].kind = "navigate"
                       /\ goals[goal].told
  /\ spin # Nothing => goals[spin] # Nothing /\ goals[spin].kind = "spin"
                       /\ goals[spin].told

(* "Send every Foxglove click as a single active NavigateToPose goal."      *)
(* (g1_goal_to_nav.py:113), but for goals whose handle the answer about an  *)
(* older goal has cleared: beside such a goal the next click is sent at     *)
(* once, whoever clicks.                                                    *)
SingleGoal ==
  Cardinality({g \in Slots \ disowned :
    Is(g, "navigate", {"asked", "running"}) /\ ~goals[g].stop}) <= 1

(* Whatever Nav2 runs and the node was told of can be cancelled by it, with *)
(* the same exception, and no other way of losing a handle.                 *)
TracksRunning ==
  \A g \in Slots \ disowned :
    goals[g] # Nothing /\ goals[g].phase = "running" /\ goals[g].told
    /\ ~goals[g].stop => g \in {goal, spin}
=============================================================================
