-------------------------- MODULE GoalToNavProofs --------------------------
(***************************************************************************)
(* Theorems about the goal adapter for every set of places and stamps and  *)
(* every bound: its type invariant, that a click kept for later always has *)
(* a cancel answer to come, and that its handles are open goals of the     *)
(* right kind.                                                             *)
(***************************************************************************)
EXTENDS GoalToNav, FiniteSetTheorems, TLAPS

IInv == TypeOK /\ HandlesAreOpen

(* A request takes a free slot and touches no other.                        *)
LEMMA AskedType ==
  ASSUME NEW gs \in [Slots -> Goals \cup {Nothing}],
         NEW kind \in {"navigate", "spin"}, NEW stamp \in Stamps \cup {0},
         NEW gs2, Asked(gs, kind, stamp, gs2)
  PROVE  /\ gs2 \in [Slots -> Goals \cup {Nothing}]
         /\ \A h \in Slots : gs[h] # Nothing => gs2[h] = gs[h]
<1>1. PICK g \in Free(gs) :
        gs2 = [gs EXCEPT ![g] = [kind |-> kind, stamp |-> stamp,
                                 phase |-> "asked", told |-> FALSE,
                                 stop |-> FALSE]]
  BY DEF Asked
<1>2. [kind |-> kind, stamp |-> stamp, phase |-> "asked", told |-> FALSE,
       stop |-> FALSE] \in Goals
  BY DEF Goals, Phases
<1>3. g \in Slots /\ gs[g] = Nothing
  BY DEF Free
<1>4. QED
  BY <1>1, <1>2, <1>3

(* Asking for a cancel keeps what the handles rely on.                      *)
LEMMA StoppedType ==
  ASSUME NEW gs \in [Slots -> Goals \cup {Nothing}], NEW g \in Slots,
         gs[g] # Nothing
  PROVE  /\ Stopped(gs, g) \in [Slots -> Goals \cup {Nothing}]
         /\ \A h \in Slots :
              /\ gs[h] = Nothing <=> Stopped(gs, g)[h] = Nothing
              /\ Stopped(gs, g)[h].kind = gs[h].kind
              /\ Stopped(gs, g)[h].told = gs[h].told
<1> DEFINE r == [gs[g] EXCEPT !.stop = TRUE]
<1>1. gs[g] \in Goals
  OBVIOUS
<1>2. /\ r \in Goals /\ r # Nothing
      /\ r.kind = gs[g].kind /\ r.told = gs[g].told
  BY <1>1, NothingAssumption DEF Goals
<1> HIDE DEF r
<1>3. Stopped(gs, g) = [gs EXCEPT ![g] = r]
  BY DEF Stopped, r
<1>4. QED
  BY <1>2, <1>3

(* Sending a goal keeps the types and the goals there are.                  *)
LEMMA SendGoalType ==
  ASSUME TypeOK, NEW click \in Clicks, SendGoal(click)
  PROVE  /\ goalPlace' \in Places /\ source' \in Stamps \cup {0}
         /\ sent' \in Places /\ sinceSent' = 0 /\ ignore' = Grace
         /\ goals' \in [Slots -> Goals \cup {Nothing}]
         /\ \A h \in Slots : goals[h] # Nothing => goals'[h] = goals[h]
<1>1. click.place \in Places /\ click.stamp \in Stamps \cup {0}
  BY DEF Clicks
<1>2. QED
  BY <1>1, AskedType DEF SendGoal, TypeOK

(* So does sending the pending goal, if there is one.                       *)
LEMMA SendPendingType ==
  ASSUME TypeOK, NEW place \in Places \cup {Nothing}, SendPending(place)
  PROVE  /\ pending' = Nothing
         /\ goalPlace' \in Places \cup {Nothing}
         /\ source' \in Stamps \cup {0} /\ sent' \in Places \cup {Nothing}
         /\ sinceSent' \in 0..Horizon /\ ignore' \in 0..Grace
         /\ goals' \in [Slots -> Goals \cup {Nothing}]
         /\ \A h \in Slots : goals[h] # Nothing => goals'[h] = goals[h]
<1>0. 0 \in 0..Horizon /\ Grace \in 0..Grace
  BY GoalAssumption DEF Horizon
<1>1. CASE pending = Nothing
  BY <1>1 DEF SendPending, TypeOK
<1>2. CASE pending # Nothing
  <2>1. pending \in Clicks /\ SendGoal(pending) /\ pending' = Nothing
    BY <1>2 DEF SendPending, TypeOK
  <2>2. QED
    BY <1>0, <2>1, SendGoalType
<1>3. QED
  BY <1>1, <1>2

(* A cleared handle is a goal's.                                            *)
LEMMA ClearedType ==
  ASSUME TypeOK
  PROVE  Cleared(goal) \subseteq Slots /\ Cleared(spin) \subseteq Slots
BY DEF Cleared, TypeOK

(* The click kept for later and the cancels that will send it.              *)
LEMMA GoalStep ==
  ASSUME IInv, PendingHasCancel, NEW click \in Clicks, OnGoal(click)
  PROVE  IInv' /\ PendingHasCancel'
<1> USE DEF IInv, TypeOK, HandlesAreOpen, PendingHasCancel
<1>0. 0 \in 0..Horizon /\ Grace \in 0..Grace
  BY GoalAssumption DEF Horizon
<1>1. CASE /\ goal = Nothing /\ spin = Nothing /\ SendGoal(click)
           /\ UNCHANGED <<pending, goalCancels, spinCancels>>
           /\ UNCHANGED <<goal, spin, spinPlace, reached, disowned>>
  <2>1. /\ goalPlace' \in Places /\ source' \in Stamps \cup {0}
        /\ sent' \in Places /\ sinceSent' = 0 /\ ignore' = Grace
        /\ goals' \in [Slots -> Goals \cup {Nothing}]
    BY <1>1, SendGoalType
  <2>2. QED
    BY <1>0, <1>1, <2>1
<1>2. ASSUME NEW g \in {goal, spin}, g # Nothing, goals' = Stopped(goals, g),
             pending' = click,
             \/ /\ goalCancels < MaxCancels /\ goalCancels' = goalCancels + 1
                /\ UNCHANGED spinCancels
             \/ /\ spinCancels < MaxCancels /\ spinCancels' = spinCancels + 1
                /\ UNCHANGED goalCancels,
             UNCHANGED <<goalPlace, sent, sinceSent, ignore, source>>,
             UNCHANGED <<goal, spin, spinPlace, reached, disowned>>
      PROVE  IInv' /\ PendingHasCancel'
  <2>1. g \in Slots /\ goals[g] # Nothing
    BY <1>2
  <2>2. /\ goals' \in [Slots -> Goals \cup {Nothing}]
        /\ \A h \in Slots :
             /\ goals[h] = Nothing <=> goals'[h] = Nothing
             /\ goals'[h].kind = goals[h].kind
             /\ goals'[h].told = goals[h].told
    BY <1>2, <2>1, StoppedType
  <2>3. /\ goalCancels' \in 0..MaxCancels /\ spinCancels' \in 0..MaxCancels
        /\ goalCancels' + spinCancels' > 0
    BY <1>2, GoalAssumption
  <2>4. HandlesAreOpen'
    BY <1>2, <2>2
  <2>5. TypeOK'
    BY <1>2, <2>2, <2>3
  <2>6. QED
    BY <2>3, <2>4, <2>5
<1>3. QED
  BY <1>1, <1>2 DEF OnGoal

(* The cancel answers send the pending click.                               *)
LEMMA CancelDoneStep ==
  ASSUME IInv, PendingHasCancel, OnCancelDone \/ OnSpinCancelDone
  PROVE  IInv' /\ PendingHasCancel'
<1> DEFINE Sent == /\ pending' = Nothing
                   /\ goalPlace' \in Places \cup {Nothing}
                   /\ source' \in Stamps \cup {0}
                   /\ sent' \in Places \cup {Nothing}
                   /\ sinceSent' \in 0..Horizon /\ ignore' \in 0..Grace
                   /\ goals' \in [Slots -> Goals \cup {Nothing}]
                   /\ \A h \in Slots : goals[h] # Nothing => goals'[h] = goals[h]
<1>1. CASE OnCancelDone
  <2>1. Sent
    BY <1>1, SendPendingType DEF OnCancelDone, IInv
  <2>2. QED
    BY <1>1, <2>1, GoalAssumption, ClearedType
       DEF OnCancelDone, IInv, TypeOK, HandlesAreOpen, PendingHasCancel
<1>2. CASE OnSpinCancelDone
  <2>1. Sent
    BY <1>2, SendPendingType DEF OnSpinCancelDone, IInv, TypeOK
  <2>2. QED
    BY <1>2, <2>1, GoalAssumption, ClearedType
       DEF OnSpinCancelDone, IInv, TypeOK, HandlesAreOpen, PendingHasCancel
<1>3. QED
  BY <1>1, <1>2

(* cancel_navigation forgets the click and the handles.                     *)
LEMMA CancelNavigationStep ==
  ASSUME IInv, PendingHasCancel, OnCancelNavigation \/ OnCancelNavigationFalse
  PROVE  IInv' /\ PendingHasCancel'
<1>1. CASE OnCancelNavigation
  <2>1. ASSUME NEW g \in Slots, goals[g] # Nothing
        PROVE  [goals[g] EXCEPT !.stop = TRUE] \in Goals
    BY <2>1 DEF IInv, TypeOK, Goals
  <2>2. goals' \in [Slots -> Goals \cup {Nothing}]
    BY <1>1, <2>1 DEF OnCancelNavigation, HandlesStopped, IInv, TypeOK
  <2>3. QED
    BY <1>1, <2>2
       DEF OnCancelNavigation, HandlesStopped, IInv, TypeOK, HandlesAreOpen,
           PendingHasCancel
<1>2. CASE OnCancelNavigationFalse
  BY <1>2, GoalAssumption
     DEF OnCancelNavigationFalse, IInv, TypeOK, HandlesAreOpen, PendingHasCancel
<1>3. QED
  BY <1>1, <1>2

(* A refused goal is no handle's; an accepted one becomes one.              *)
LEMMA ResponseStep ==
  ASSUME IInv, PendingHasCancel, NEW g \in Slots,
         OnGoalResponse(g) \/ OnSpinResponse(g)
  PROVE  IInv' /\ PendingHasCancel'
<1>0. /\ goals[g] \in Goals /\ goals[g] # Nothing /\ ~goals[g].told
      /\ Grace \in 0..Grace
      /\ goals[g].stamp \in Stamps \cup {0}
  BY GoalAssumption
     DEF OnGoalResponse, OnSpinResponse, Is, IInv, TypeOK, Goals
<1> DEFINE r == [goals[g] EXCEPT !.told = TRUE]
<1>1. /\ r \in Goals /\ r # Nothing /\ r.told /\ r.kind = goals[g].kind
  BY <1>0, NothingAssumption DEF Goals
<1> HIDE DEF r
<1>2. CASE goals[g].phase = "refused"
  <2>1. /\ goals' = [goals EXCEPT ![g] = Nothing]
        /\ spinPlace' \in {Nothing, spinPlace}
        /\ UNCHANGED <<goal, goalPlace, spin, pending, sent, sinceSent, ignore,
                       source, reached, goalCancels, spinCancels, disowned>>
    BY <1>2 DEF OnGoalResponse, OnSpinResponse, Is, Accepted
  <2>2. TypeOK'
    BY <2>1 DEF IInv, TypeOK
  <2>3. HandlesAreOpen'
    BY <1>0, <2>1 DEF IInv, TypeOK, HandlesAreOpen
  <2>4. QED
    BY <2>1, <2>2, <2>3 DEF IInv, PendingHasCancel
<1>3. CASE goals[g].phase # "refused" /\ goals' = [goals EXCEPT ![g] = r]
  <2>1. TypeOK'
    BY <1>0, <1>1, <1>3 DEF OnGoalResponse, OnSpinResponse, IInv, TypeOK
  <2>2. HandlesAreOpen'
    BY <1>0, <1>1, <1>3
       DEF OnGoalResponse, OnSpinResponse, IInv, TypeOK, HandlesAreOpen, Is
  <2>3. QED
    BY <2>1, <2>2 DEF IInv, OnGoalResponse, OnSpinResponse, PendingHasCancel
<1>4. QED
  BY <1>2, <1>3 DEF OnGoalResponse, OnSpinResponse, Is, r

(* A result frees the goal's slot; what is sent then takes a free one.      *)
LEMMA ResultStep ==
  ASSUME IInv, PendingHasCancel, NEW g \in Slots, OnResult(g) \/ OnSpinResult(g)
  PROVE  IInv' /\ PendingHasCancel'
<1> DEFINE released == [goals EXCEPT ![g] = Nothing]
<1>0. /\ 0 \in 0..Horizon /\ Grace \in 0..Grace
      /\ released \in [Slots -> Goals \cup {Nothing}]
      /\ \A h \in Slots \ {g} : released[h] = goals[h]
  BY GoalAssumption DEF Horizon, IInv, TypeOK
<1> HIDE DEF released
<1>1. ASSUME OnResult(g) PROVE IInv' /\ PendingHasCancel'
  <2>1. /\ goals' \in [Slots -> Goals \cup {Nothing}]
        /\ \A h \in Slots \ {g} : goals[h] # Nothing => goals'[h] = goals[h]
    <3>1. CASE SpinStarts(released)
      BY <1>0, <3>1, AskedType DEF SpinStarts, IInv, TypeOK
    <3>2. CASE goals' = released
      BY <1>0, <3>2
    <3>3. QED
      BY <1>1, <3>1, <3>2 DEF OnResult, released
  <2>2. goals[g].kind = "navigate"
    BY <1>1 DEF OnResult, Is
  <2>3. TypeOK'
    BY <1>0, <1>1, <2>1, ClearedType DEF OnResult, SpinStarts, IInv, TypeOK
  <2>4. HandlesAreOpen'
    BY <1>1, <2>1, <2>2 DEF OnResult, IInv, TypeOK, HandlesAreOpen
  <2>5. QED
    BY <1>1, <2>3, <2>4 DEF OnResult, IInv, PendingHasCancel
<1>2. ASSUME OnSpinResult(g) PROVE IInv' /\ PendingHasCancel'
  <2>1. /\ goals' \in [Slots -> Goals \cup {Nothing}]
        /\ \A h \in Slots \ {g} : goals[h] # Nothing => goals'[h] = goals[h]
    <3>1. CASE pending # Nothing /\ Asked(released, "navigate", pending.stamp, goals')
      <4>1. pending.stamp \in Stamps \cup {0}
        BY <3>1 DEF IInv, TypeOK, Clicks
      <4>2. QED
        BY <1>0, <3>1, <4>1, AskedType
    <3>2. CASE goals' = released
      BY <1>0, <3>2
    <3>3. QED
      BY <1>2, <3>1, <3>2 DEF OnSpinResult, released
  <2>2. goals[g].kind = "spin"
    BY <1>2 DEF OnSpinResult, Is
  <2>3. TypeOK'
    <3>1. /\ goalPlace' \in Places \cup {Nothing} /\ sent' \in Places \cup {Nothing}
          /\ source' \in Stamps \cup {0}
      BY <1>2 DEF OnSpinResult, IInv, TypeOK, Clicks
    <3>2. QED
      BY <1>0, <1>2, <2>1, <3>1, ClearedType DEF OnSpinResult, IInv, TypeOK
  <2>4. HandlesAreOpen'
    BY <1>2, <2>1, <2>2 DEF OnSpinResult, IInv, TypeOK, HandlesAreOpen
  <2>5. PendingHasCancel'
    BY <1>2 DEF OnSpinResult, PendingHasCancel
  <2>6. QED
    BY <2>3, <2>4, <2>5 DEF IInv
<1>3. QED
  BY <1>1, <1>2

(* Nav2 changes the phase of a goal, never whose goal it is.                *)
LEMMA PhaseStep ==
  ASSUME IInv, NEW g \in Slots, Nav2(g)
  PROVE  /\ goals' \in [Slots -> Goals \cup {Nothing}]
         /\ \A h \in Slots :
              /\ goals'[h] # Nothing <=> goals[h] # Nothing
              /\ goals[h] # Nothing =>
                   /\ goals'[h].kind = goals[h].kind
                   /\ goals'[h].told = goals[h].told
                   /\ goals'[h].stop = goals[h].stop
<1>1. ASSUME NEW h \in Slots, goals[h] # Nothing, NEW phase \in Phases
      PROVE  /\ [goals[h] EXCEPT !.phase = phase] \in Goals
             /\ [goals[h] EXCEPT !.phase = phase] # Nothing
             /\ [goals[h] EXCEPT !.phase = phase].kind = goals[h].kind
             /\ [goals[h] EXCEPT !.phase = phase].told = goals[h].told
             /\ [goals[h] EXCEPT !.phase = phase].stop = goals[h].stop
  <2>1. goals[h] \in Goals
    BY <1>1 DEF IInv, TypeOK
  <2>2. QED
    BY <1>1, <2>1, NothingAssumption DEF Goals
<1>2. {"running", "failed", "refused", "succeeded"} \subseteq Phases
  BY DEF Phases
<1>3. CASE Accept(g)
  BY <1>1, <1>2, <1>3 DEF Accept, Server, Is, IInv, TypeOK
<1>4. ASSUME NEW phase \in {"refused", "succeeded", "failed"},
             goals[g] # Nothing,
             goals' = [goals EXCEPT ![g].phase = phase]
      PROVE  /\ goals' \in [Slots -> Goals \cup {Nothing}]
             /\ \A h \in Slots :
                  /\ goals'[h] # Nothing <=> goals[h] # Nothing
                  /\ goals[h] # Nothing =>
                       /\ goals'[h].kind = goals[h].kind
                       /\ goals'[h].told = goals[h].told
                       /\ goals'[h].stop = goals[h].stop
  <2> DEFINE r == [goals[g] EXCEPT !.phase = phase]
  <2>1. /\ r \in Goals /\ r # Nothing /\ r.kind = goals[g].kind
        /\ r.told = goals[g].told /\ r.stop = goals[g].stop
    BY <1>1, <1>2, <1>4
  <2>2. goals' = [goals EXCEPT ![g] = r]
    BY <1>4
  <2> HIDE DEF r
  <2>3. QED
    BY <1>4, <2>1, <2>2 DEF IInv, TypeOK
<1>5. QED
  BY <1>3, <1>4 DEF Nav2, Refuse, End, Server

LEMMA ServerStep ==
  ASSUME IInv, PendingHasCancel, NEW g \in Slots, Nav2(g)
  PROVE  IInv' /\ PendingHasCancel'
<1>1. /\ goals' \in [Slots -> Goals \cup {Nothing}]
      /\ \A h \in Slots : goals[h] # Nothing =>
           /\ goals'[h] # Nothing
           /\ goals'[h].kind = goals[h].kind /\ goals'[h].told = goals[h].told
  BY PhaseStep
<1>2. UNCHANGED <<adapter, goalCancels, spinCancels, disowned>>
  BY DEF Nav2, Accept, Refuse, End, Server
<1>3. TypeOK'
  BY <1>1, <1>2 DEF adapter, IInv, TypeOK
<1>4. HandlesAreOpen'
  BY <1>1, <1>2 DEF adapter, IInv, TypeOK, HandlesAreOpen
<1>5. QED
  BY <1>2, <1>3, <1>4 DEF adapter, IInv, PendingHasCancel

(* Feedback and time touch only the timers.                                 *)
LEMMA TimerStep ==
  ASSUME IInv, PendingHasCancel, Elapse \/ \E g \in Slots : OnFeedback(g)
  PROVE  IInv' /\ PendingHasCancel'
<1>0. Horizon \in Nat /\ Grace \in Nat
  BY GoalAssumption DEF Horizon
<1>1. sinceSent' \in 0..Horizon /\ ignore' \in 0..Grace
  BY <1>0 DEF Elapse, OnFeedback, IInv, TypeOK
<1>2. QED
  BY <1>1 DEF Elapse, OnFeedback, IInv, TypeOK, HandlesAreOpen, PendingHasCancel

----------------------------------------------------------------------------
(* With a patient user, and but for disowned goals, the node knows one      *)
(* navigation goal at a time: the one it was told of that is not being      *)
(* stopped is its handle, and a goal it has asked for waits for the         *)
(* handle's to stop and comes with no click kept for later.                 *)

Navigates(g) == goals[g] # Nothing /\ goals[g].kind = "navigate"
Stopping == goal # Nothing => goals[goal].stop

HandleIsTold == \A g \in Slots \ disowned :
  Navigates(g) /\ goals[g].told /\ ~goals[g].stop => g = goal
AskedOnce == \A g, h \in Slots :
  Navigates(g) /\ Navigates(h) /\ ~goals[g].told /\ ~goals[h].told => g = h
AskedAlone == \A g \in Slots :
  Navigates(g) /\ ~goals[g].told => Stopping /\ pending = Nothing
ReplacedStops == pending # Nothing => Stopping
StoppedTold == \A g \in Slots :
  goals[g] # Nothing /\ goals[g].stop => goals[g].told

OneAtATime ==
  HandleIsTold /\ AskedOnce /\ AskedAlone /\ ReplacedStops /\ StoppedTold

(* The invariant the steps of a patient user keep.                          *)
OneInv == Waits /\ IInv /\ PendingHasCancel /\ OneAtATime

(* A request adds one goal, untold and not stopped.                         *)
LEMMA AskedAdds ==
  ASSUME NEW gs \in [Slots -> Goals \cup {Nothing}],
         NEW kind \in {"navigate", "spin"}, NEW stamp \in Stamps \cup {0},
         NEW gs2, Asked(gs, kind, stamp, gs2)
  PROVE  \E f \in Slots :
           /\ gs[f] = Nothing /\ gs2[f] # Nothing /\ gs2[f].kind = kind
           /\ ~gs2[f].told /\ ~gs2[f].stop
           /\ \A h \in Slots \ {f} : gs2[h] = gs[h]
<1> DEFINE r == [kind |-> kind, stamp |-> stamp, phase |-> "asked",
                 told |-> FALSE, stop |-> FALSE]
<1>1. r \in Goals
  BY DEF Goals, Phases
<1>2. r # Nothing /\ r.kind = kind /\ ~r.told /\ ~r.stop
  BY <1>1, NothingAssumption
<1>3. PICK f \in Free(gs) : gs2 = [gs EXCEPT ![f] = r]
  BY DEF Asked
<1> HIDE DEF r
<1>4. f \in Slots /\ gs[f] = Nothing
  BY DEF Free
<1>5. QED
  BY <1>2, <1>3, <1>4

(* A navigation goal asked for while the handle stops or is cleared and no  *)
(* other goal is asked for.                                                 *)
LEMMA AskedNavigate ==
  ASSUME OneInv, NEW stamp \in Stamps \cup {0},
         NEW gs \in [Slots -> Goals \cup {Nothing}],
         \A h \in Slots : gs[h] # Nothing => gs[h] = goals[h],
         goal # Nothing => gs[goal] # Nothing,
         \A h \in Slots : Navigates(h) => goals[h].told,
         Asked(gs, "navigate", stamp, goals'),
         \/ Stopping /\ goal' = goal
         \/ goal' = Nothing /\ Cleared(goal) \subseteq disowned',
         \A h \in disowned : gs[h] # Nothing => h \in disowned',
         pending' = Nothing
  PROVE  OneAtATime'
<1>1. PICK f \in Slots :
        /\ gs[f] = Nothing /\ goals'[f] # Nothing /\ goals'[f].kind = "navigate"
        /\ ~goals'[f].told /\ ~goals'[f].stop
        /\ \A h \in Slots \ {f} : goals'[h] = gs[h]
  BY AskedAdds
<1>2. Stopping'
  BY <1>1 DEF Stopping, OneInv, IInv, TypeOK
<1>3. HandleIsTold'
  <2>1. SUFFICES ASSUME NEW h \in Slots, h \notin disowned', Navigates(h)',
                        goals'[h].told, ~goals'[h].stop
                 PROVE  h = goal'
    BY DEF HandleIsTold
  <2>2. h # f /\ gs[h] # Nothing /\ goals'[h] = goals[h] /\ h \notin disowned
    BY <1>1, <2>1 DEF Navigates
  <2>3. h = goal
    BY <2>1, <2>2 DEF OneInv, OneAtATime, HandleIsTold, Navigates
  <2>4. h # Nothing
    BY <2>1, NothingAssumption
  <2>5. QED
    BY <2>1, <2>2, <2>3, <2>4 DEF Cleared
<1>4. AskedOnce'
  BY <1>1 DEF AskedOnce, OneInv, OneAtATime, Navigates
<1>5. AskedAlone' /\ ReplacedStops'
  BY <1>2 DEF AskedAlone, ReplacedStops
<1>6. StoppedTold'
  BY <1>1 DEF StoppedTold, OneInv, OneAtATime
<1>7. QED
  BY <1>2, <1>3, <1>4, <1>5, <1>6 DEF OneAtATime

(* What neither adds nor answers a goal, and asks for no cancel, keeps it.  *)
LEMMA OneKept ==
  ASSUME OneInv, UNCHANGED <<goal, goals, disowned>>,
         pending' \in {Nothing, pending}
  PROVE  OneAtATime'
<1>1. Stopping' <=> Stopping
  BY DEF Stopping
<1>2. QED
  BY <1>1 DEF OneInv, OneAtATime, HandleIsTold, AskedOnce, AskedAlone,
              ReplacedStops, StoppedTold, Navigates

(* A quiet node was told of every goal and stops none.                      *)
LEMMA QuietSettles ==
  ASSUME OneInv, Quiet
  PROVE  /\ \A g \in Slots : goals[g] # Nothing =>
              goals[g].told /\ ~goals[g].stop
         /\ \A g \in Slots \ disowned : Navigates(g) => g = goal
BY DEF OneInv, Quiet, Settled, OneAtATime, HandleIsTold, Navigates

(* The click of a patient user.                                             *)
LEMMA GoalOne ==
  ASSUME OneInv, NEW click \in Clicks, OnGoal(click)
  PROVE  OneAtATime'
<1>0. /\ Quiet /\ click.stamp \in Stamps \cup {0}
      /\ goals \in [Slots -> Goals \cup {Nothing}]
      /\ disowned' = disowned
  BY DEF OnGoal, OneInv, Clicks, IInv, TypeOK
<1>1. /\ \A g \in Slots : goals[g] # Nothing => goals[g].told /\ ~goals[g].stop
      /\ \A g \in Slots \ disowned : Navigates(g) => g = goal
  BY <1>0, QuietSettles
<1>2. CASE /\ goal = Nothing /\ spin = Nothing /\ SendGoal(click)
           /\ UNCHANGED <<pending, goalCancels, spinCancels>>
           /\ UNCHANGED <<goal, spin, spinPlace, reached, disowned>>
  <2>1. /\ Stopping /\ pending' = Nothing /\ goal' = goal
    BY <1>0, <1>2
       DEF Stopping, Quiet, OneInv, PendingHasCancel
  <2>2. QED
    BY <1>0, <1>1, <1>2, <2>1, AskedNavigate DEF SendGoal, Navigates
<1>3. ASSUME NEW g \in {goal, spin}, g # Nothing, goals' = Stopped(goals, g),
             goal # Nothing => g = goal, UNCHANGED goal
      PROVE  OneAtATime'
  <2>1. g \in Slots /\ goals[g] # Nothing
    BY <1>3 DEF OneInv, IInv, TypeOK, HandlesAreOpen
  <2> DEFINE r == [goals[g] EXCEPT !.stop = TRUE]
  <2>2. goals[g] \in Goals /\ goals[g].told
    BY <1>0, <1>1, <2>1
  <2>3. r # Nothing /\ r.kind = goals[g].kind /\ r.told /\ r.stop
    BY <2>2, NothingAssumption DEF Goals
  <2> HIDE DEF r
  <2>4. goals' = [goals EXCEPT ![g] = r]
    BY <1>3 DEF Stopped, r
  <2>5. \A h \in Slots : goals'[h] # Nothing =>
          /\ goals[h] # Nothing /\ goals'[h].told
          /\ goals'[h].kind = goals[h].kind
          /\ goals'[h].stop => h = g
    BY <1>0, <1>1, <2>1, <2>2, <2>3, <2>4
  <2>6. Stopping'
    BY <1>0, <1>3, <2>1, <2>3, <2>4 DEF Stopping
  <2>7. HandleIsTold' /\ AskedOnce' /\ AskedAlone' /\ StoppedTold'
    BY <1>0, <1>1, <1>3, <2>5
       DEF HandleIsTold, AskedOnce, AskedAlone, StoppedTold, Navigates
  <2>8. QED
    BY <2>6, <2>7 DEF OneAtATime, ReplacedStops
<1>4. QED
  BY <1>2, <1>3 DEF OnGoal

(* The answers to a cancel: whatever handle they clear is disowned, unless  *)
(* its goal stops.                                                          *)
LEMMA CancelDoneOne ==
  ASSUME OneInv, OnCancelDone \/ OnSpinCancelDone
  PROVE  OneAtATime'
<1>1. /\ pending' = Nothing
      /\ goals \in [Slots -> Goals \cup {Nothing}]
      /\ pending # Nothing => SendGoal(pending)
      /\ pending = Nothing => UNCHANGED goals
      /\ disowned \subseteq disowned'
  BY DEF OnCancelDone, OnSpinCancelDone, SendPending, OneInv, IInv, TypeOK
<1>2. \/ goal' = goal
      \/ goal' = Nothing /\ Cleared(goal) \subseteq disowned'
  BY DEF OnCancelDone, OnSpinCancelDone
<1>3. CASE pending = Nothing
  <2>1. Stopping => Stopping'
    BY <1>1, <1>2, <1>3 DEF Stopping
  <2>2. HandleIsTold'
    <3>1. SUFFICES ASSUME NEW h \in Slots, h \notin disowned', Navigates(h)',
                          goals'[h].told, ~goals'[h].stop
                   PROVE  h = goal'
      BY DEF HandleIsTold
    <3>2. h = goal
      BY <1>1, <1>3, <3>1 DEF OneInv, OneAtATime, HandleIsTold, Navigates
    <3>3. h # Nothing
      BY <3>1, NothingAssumption
    <3>4. QED
      BY <1>1, <1>2, <1>3, <3>1, <3>2, <3>3 DEF Cleared
  <2>3. QED
    BY <1>1, <1>3, <2>1, <2>2
       DEF OneInv, OneAtATime, AskedOnce, AskedAlone, ReplacedStops,
           StoppedTold, Navigates
<1>4. CASE pending # Nothing
  <2>1. Stopping /\ \A h \in Slots : Navigates(h) => goals[h].told
    BY <1>4 DEF OneInv, OneAtATime, ReplacedStops, AskedAlone
  <2>2. pending.stamp \in Stamps \cup {0}
    BY <1>4 DEF OneInv, IInv, TypeOK, Clicks
  <2>3. goal # Nothing => goals[goal] # Nothing
    BY DEF OneInv, IInv, HandlesAreOpen
  <2>4. QED
    BY <1>1, <1>2, <1>4, <2>1, <2>2, <2>3, AskedNavigate DEF SendGoal
<1>5. QED
  BY <1>3, <1>4

(* cancel_navigation stops the handle's goal before it forgets the handle.  *)
LEMMA CancelNavigationOne ==
  ASSUME OneInv, OnCancelNavigation \/ OnCancelNavigationFalse
  PROVE  OneAtATime'
<1>1. CASE OnCancelNavigation
  <2>1. /\ goal' = Nothing /\ pending' = Nothing /\ Quiet
        /\ goals' = HandlesStopped /\ disowned' = disowned
        /\ goals \in [Slots -> Goals \cup {Nothing}]
    BY <1>1 DEF OnCancelNavigation, OneInv, IInv, TypeOK
  <2>2. /\ \A g \in Slots : goals[g] # Nothing => goals[g].told
        /\ \A g \in Slots \ disowned : Navigates(g) => g = goal
    BY <2>1, QuietSettles
  <2>3. ASSUME NEW h \in Slots, goals'[h] # Nothing
        PROVE  /\ goals[h] # Nothing /\ goals'[h].told
               /\ goals'[h].kind = goals[h].kind
               /\ h = goal => goals'[h].stop
    <3> DEFINE r == [goals[h] EXCEPT !.stop = TRUE]
    <3>1. goals[h] # Nothing
      BY <2>1, <2>3 DEF HandlesStopped
    <3>2. goals[h] \in Goals /\ goals[h].told
      BY <2>1, <2>2, <3>1
    <3>3. r.kind = goals[h].kind /\ r.told /\ r.stop
      BY <3>2 DEF Goals
    <3> HIDE DEF r
    <3>4. goals'[h] = IF h \in {goal, spin} THEN r ELSE goals[h]
      BY <2>1, <3>1 DEF HandlesStopped, r
    <3>5. QED
      BY <3>1, <3>2, <3>3, <3>4
  <2>4. QED
    BY <2>1, <2>2, <2>3
       DEF OneAtATime, HandleIsTold, AskedOnce, AskedAlone, ReplacedStops,
           StoppedTold, Navigates, Stopping
<1>2. CASE OnCancelNavigationFalse
  BY <1>2, OneKept DEF OnCancelNavigationFalse
<1>3. QED
  BY <1>1, <1>2

(* A response sets a handle that was free or whose goal stops, and no other *)
(* goal has been asked for.                                                 *)
LEMMA ResponseOne ==
  ASSUME OneInv, NEW g \in Slots, OnGoalResponse(g) \/ OnSpinResponse(g)
  PROVE  OneAtATime'
<1>1. /\ goals \in [Slots -> Goals \cup {Nothing}]
      /\ goals[g] \in Goals /\ goals[g] # Nothing /\ ~goals[g].told
      /\ UNCHANGED <<pending, disowned>>
      /\ goal' \in {goal, g}
  BY DEF OnGoalResponse, OnSpinResponse, Is, OneInv, IInv, TypeOK
<1>2. goals[g].kind = "navigate" => Stopping /\ pending = Nothing
  BY <1>1 DEF OneInv, OneAtATime, AskedAlone, Navigates
<1>3. goal # Nothing => goal # g
  BY <1>1 DEF OneInv, IInv, TypeOK, HandlesAreOpen
<1> DEFINE r == [goals[g] EXCEPT !.told = TRUE]
<1>4. r # Nothing /\ r.told /\ r.kind = goals[g].kind /\ r.stop = goals[g].stop
  BY <1>1, NothingAssumption DEF Goals
<1>5. ~goals[g].stop
  BY <1>1 DEF OneInv, OneAtATime, StoppedTold
<1> HIDE DEF r
<1>6. CASE goals' = [goals EXCEPT ![g] = Nothing] /\ goal' = goal
  <2>1. \A h \in Slots : goals'[h] # Nothing => h # g /\ goals'[h] = goals[h]
    BY <1>1, <1>6
  <2>2. Stopping => Stopping'
    BY <1>1, <1>3, <1>6 DEF Stopping, OneInv, IInv, TypeOK
  <2>3. QED
    BY <1>1, <1>6, <2>1, <2>2
       DEF OneInv, OneAtATime, HandleIsTold, AskedOnce, AskedAlone,
           ReplacedStops, StoppedTold, Navigates
<1>7. CASE /\ goals' = [goals EXCEPT ![g] = r]
           /\ goal' = IF goals[g].kind = "navigate" THEN g ELSE goal
  <2>1. /\ goals'[g] = r
        /\ \A h \in Slots \ {g} : goals'[h] = goals[h]
    BY <1>1, <1>7
  <2>2. CASE goals[g].kind = "navigate"
    <3>1. Stopping /\ pending = Nothing /\ goal' = g
      BY <1>2, <1>7, <2>2
    <3>2. \A h \in Slots \ {g} : goals[h] # Nothing /\ goals[h].kind = "navigate"
            => goals[h].told
      BY <1>1, <2>2 DEF OneInv, OneAtATime, AskedOnce, Navigates
    <3>3. HandleIsTold'
      <4>1. SUFFICES ASSUME NEW h \in Slots \ {g}, h \notin disowned,
                            Navigates(h), goals[h].told, ~goals[h].stop
                     PROVE  FALSE
        BY <1>1, <2>1, <3>1 DEF HandleIsTold, Navigates
      <4>2. h = goal /\ h # Nothing
        BY <4>1, NothingAssumption DEF OneInv, OneAtATime, HandleIsTold
      <4>3. QED
        BY <3>1, <4>1, <4>2 DEF Stopping
    <3>4. AskedOnce' /\ AskedAlone' /\ ReplacedStops'
      BY <1>1, <1>4, <2>1, <3>1, <3>2
         DEF AskedOnce, AskedAlone, ReplacedStops, Navigates
    <3>5. StoppedTold'
      BY <1>1, <1>4, <1>5, <2>1 DEF OneInv, OneAtATime, StoppedTold
    <3>6. QED
      BY <3>3, <3>4, <3>5 DEF OneAtATime
  <2>3. CASE goals[g].kind # "navigate"
    <3>1. goal' = goal /\ (Stopping => Stopping')
      BY <1>1, <1>3, <1>7, <2>1, <2>3 DEF Stopping, OneInv, IInv, TypeOK
    <3>2. QED
      BY <1>1, <1>4, <1>5, <2>1, <2>3, <3>1
         DEF OneInv, OneAtATime, HandleIsTold, AskedOnce, AskedAlone,
             ReplacedStops, StoppedTold, Navigates
  <2>4. QED
    BY <2>2, <2>3
<1>8. QED
  BY <1>6, <1>7 DEF OnGoalResponse, OnSpinResponse, Is, r

(* A result frees the goal's slot and disowns another goal whose handle it  *)
(* clears; what a spin's result sends waits for the handle to stop.         *)
LEMMA ResultOne ==
  ASSUME OneInv, NEW g \in Slots, OnResult(g) \/ OnSpinResult(g)
  PROVE  OneAtATime'
<1> DEFINE released == [goals EXCEPT ![g] = Nothing]
<1>1. /\ goals \in [Slots -> Goals \cup {Nothing}]
      /\ released \in [Slots -> Goals \cup {Nothing}]
      /\ released[g] = Nothing
      /\ \A h \in Slots \ {g} : released[h] = goals[h]
      /\ goals[g] # Nothing /\ goals[g].told
  BY DEF OnResult, OnSpinResult, Is, OneInv, IInv, TypeOK
<1> HIDE DEF released
<1>2. ASSUME OnResult(g) PROVE OneAtATime'
  <2>1. /\ goals[g].kind = "navigate" /\ goal' = Nothing
        /\ disowned' = (disowned \cup Cleared(goal)) \ {g}
        /\ UNCHANGED pending
    BY <1>2 DEF OnResult, Is
  <2>2. ASSUME NEW h \in Slots, goals'[h] # Nothing
        PROVE  \/ h # g /\ goals[h] # Nothing /\ goals'[h] = goals[h]
               \/ goals'[h].kind = "spin" /\ ~goals'[h].stop
    <3>1. CASE Asked(released, "spin", source, goals')
      <4>1. source \in Stamps \cup {0}
        BY DEF OneInv, IInv, TypeOK
      <4>2. PICK f \in Slots :
              /\ goals'[f].kind = "spin" /\ ~goals'[f].stop
              /\ \A k \in Slots \ {f} : goals'[k] = released[k]
        BY SMTT(30), <1>1, <3>1, <4>1, AskedAdds
      <4>3. QED
        BY <1>1, <2>2, <4>2
    <3>2. CASE goals' = released
      BY <1>1, <2>2, <3>2
    <3>3. QED
      BY <1>2, <3>1, <3>2 DEF OnResult, SpinStarts, released
  <2>3. \A h \in Slots : Navigates(h)' =>
          h # g /\ Navigates(h) /\ goals'[h] = goals[h]
    BY <2>2 DEF Navigates
  <2>4. HandleIsTold'
    <3>1. SUFFICES ASSUME NEW h \in Slots, h \notin disowned', Navigates(h)',
                          goals'[h].told, ~goals'[h].stop
                   PROVE  FALSE
      BY DEF HandleIsTold
    <3>2. h # g /\ Navigates(h) /\ goals'[h] = goals[h]
      BY <2>3, <3>1
    <3>3. h \notin disowned /\ h \notin Cleared(goal)
      BY <2>1, <3>1, <3>2
    <3>4. h = goal /\ h # Nothing
      BY <3>1, <3>2, <3>3, NothingAssumption DEF OneInv, OneAtATime, HandleIsTold
    <3>5. QED
      BY <3>1, <3>2, <3>3, <3>4 DEF Cleared
  <2>5. AskedOnce' /\ AskedAlone'
    BY <2>1, <2>3 DEF OneInv, OneAtATime, AskedOnce, AskedAlone, Stopping
  <2>6. StoppedTold' /\ ReplacedStops'
    BY <2>1, <2>2
       DEF OneInv, OneAtATime, StoppedTold, ReplacedStops, Stopping
  <2>7. QED
    BY <2>4, <2>5, <2>6 DEF OneAtATime
<1>3. ASSUME OnSpinResult(g) PROVE OneAtATime'
  <2>1. goals[g].kind = "spin" /\ UNCHANGED goal
    BY <1>3 DEF OnSpinResult, Is
  <2>2. goal # Nothing => /\ goal \in Slots /\ goal # g
                          /\ released[goal] = goals[goal]
                          /\ released[goal] # Nothing
    BY <1>1, <2>1 DEF OneInv, IInv, TypeOK, HandlesAreOpen
  <2>3. \A h \in disowned : released[h] # Nothing => h \in disowned'
    BY <1>1, <1>3 DEF OnSpinResult
  <2>4. CASE /\ pending # Nothing /\ pending' = Nothing
             /\ Asked(released, "navigate", pending.stamp, goals')
    <3>1. Stopping /\ \A h \in Slots : Navigates(h) => goals[h].told
      BY <2>4 DEF OneInv, OneAtATime, ReplacedStops, AskedAlone
    <3>2. pending.stamp \in Stamps \cup {0}
      BY <2>4 DEF OneInv, IInv, TypeOK, Clicks
    <3>3. \A h \in Slots : released[h] # Nothing => released[h] = goals[h]
      BY <1>1
    <3>4. QED
      BY <1>1, <2>1, <2>2, <2>3, <2>4, <3>1, <3>2, <3>3, AskedNavigate
  <2>5. CASE goals' = released /\ UNCHANGED pending
    <3>1. \A h \in Slots : goals'[h] # Nothing =>
            goals[h] # Nothing /\ goals'[h] = goals[h]
      BY <1>1, <2>5
    <3>2. Stopping => Stopping'
      BY <2>1, <2>2, <2>5 DEF Stopping
    <3>3. \A h \in Slots \ disowned' : goals'[h] # Nothing => h \notin disowned
      BY <2>3, <2>5
    <3>4. HandleIsTold'
      BY <2>1, <3>1, <3>3 DEF OneInv, OneAtATime, HandleIsTold, Navigates
    <3>5. QED
      BY <2>1, <2>5, <3>1, <3>2, <3>4
         DEF OneInv, OneAtATime, AskedOnce, AskedAlone,
             ReplacedStops, StoppedTold, Navigates
  <2>6. QED
    BY <1>3, <2>4, <2>5 DEF OnSpinResult, released
<1>4. QED
  BY <1>2, <1>3

(* Nav2 decides the phases only, and time and feedback no goal at all.      *)
LEMMA OtherOne ==
  ASSUME OneInv,
         Elapse \/ \E g \in Slots : OnFeedback(g) \/ Nav2(g)
  PROVE  OneAtATime'
<1>1. CASE Elapse \/ \E g \in Slots : OnFeedback(g)
  <2>1. UNCHANGED <<goal, goals, pending, disowned>>
    BY <1>1 DEF Elapse, OnFeedback
  <2>2. QED
    BY <2>1, OneKept
<1>2. ASSUME NEW g \in Slots, Nav2(g) PROVE OneAtATime'
  <2>1. UNCHANGED <<goal, pending, disowned>>
    BY <1>2 DEF Nav2, Accept, Refuse, End, Server, adapter
  <2>2. \A h \in Slots :
          /\ goals'[h] # Nothing <=> goals[h] # Nothing
          /\ goals[h] # Nothing =>
               /\ goals'[h].kind = goals[h].kind
               /\ goals'[h].told = goals[h].told
               /\ goals'[h].stop = goals[h].stop
    BY <1>2, PhaseStep DEF OneInv
  <2>3. Stopping => Stopping'
    BY <2>1, <2>2 DEF Stopping, OneInv, IInv, TypeOK, HandlesAreOpen
  <2>4. QED
    BY <2>1, <2>2, <2>3
       DEF OneInv, OneAtATime, HandleIsTold, AskedOnce, AskedAlone,
           ReplacedStops, StoppedTold, Navigates
<1>3. QED
  BY <1>1, <1>2

(* With the final spin off the node asks for navigation goals only.         *)
OnlyNavigates == \A g \in Slots : goals[g] # Nothing => Navigates(g)

LEMMA OnlyNavigatesStep ==
  ASSUME IInv, FinalSpin = FALSE, OnlyNavigates, [Next]_vars
  PROVE  OnlyNavigates'
<1>0. /\ goals \in [Slots -> Goals \cup {Nothing}]
      /\ \A gs \in [Slots -> Goals \cup {Nothing}] :
         \A stamp \in Stamps \cup {0} :
           /\ \A h \in Slots : gs[h] # Nothing => gs[h].kind = "navigate"
           /\ Asked(gs, "navigate", stamp, goals')
           => OnlyNavigates'
  <2>1. ASSUME NEW gs \in [Slots -> Goals \cup {Nothing}],
               NEW stamp \in Stamps \cup {0},
               \A h \in Slots : gs[h] # Nothing => gs[h].kind = "navigate",
               Asked(gs, "navigate", stamp, goals')
        PROVE  OnlyNavigates'
    BY <2>1, AskedAdds DEF OnlyNavigates, Navigates
  <2>2. QED
    BY <2>1 DEF IInv, TypeOK
<1>1. \A click \in Clicks : SendGoal(click) => OnlyNavigates'
  BY <1>0 DEF SendGoal, Clicks, OnlyNavigates, Navigates
<1>2. ASSUME UNCHANGED goals PROVE OnlyNavigates'
  BY <1>2 DEF OnlyNavigates, Navigates
<1>3. ASSUME User PROVE OnlyNavigates'
  <2>1. ASSUME NEW click \in Clicks, OnGoal(click) PROVE OnlyNavigates'
    <3>1. ASSUME NEW g \in {goal, spin}, g # Nothing, goals' = Stopped(goals, g)
          PROVE  OnlyNavigates'
      <4>1. g \in Slots /\ goals[g] # Nothing
        BY <3>1 DEF IInv, TypeOK, HandlesAreOpen
      <4>2. \A h \in Slots : /\ goals[h] = Nothing <=> goals'[h] = Nothing
                             /\ goals'[h].kind = goals[h].kind
        BY <1>0, <3>1, <4>1, StoppedType
      <4>3. QED
        BY <4>2 DEF OnlyNavigates, Navigates
    <3>2. QED
      BY <1>1, <2>1, <3>1 DEF OnGoal
  <2>2. ASSUME OnCancelNavigation PROVE OnlyNavigates'
    <3>1. ASSUME NEW h \in Slots, goals'[h] # Nothing
          PROVE  goals[h] # Nothing /\ goals'[h].kind = goals[h].kind
      <4>1. goals[h] # Nothing /\ goals[h] \in Goals
        BY <1>0, <2>2, <3>1 DEF OnCancelNavigation, HandlesStopped
      <4>2. goals'[h] \in {goals[h], [goals[h] EXCEPT !.stop = TRUE]}
        BY <2>2 DEF OnCancelNavigation, HandlesStopped
      <4>3. [goals[h] EXCEPT !.stop = TRUE].kind = goals[h].kind
        BY <4>1 DEF Goals
      <4>4. QED
        BY <4>1, <4>2, <4>3
    <3>2. QED
      BY <3>1 DEF OnlyNavigates, Navigates
  <2>3. QED
    BY <1>2, <1>3, <2>1, <2>2 DEF User, OnCancelNavigationFalse
<1>4. ASSUME OnCancelDone \/ OnSpinCancelDone PROVE OnlyNavigates'
  BY <1>1, <1>2, <1>4 DEF OnCancelDone, OnSpinCancelDone, SendPending, IInv, TypeOK
<1>5. ASSUME NEW g \in Slots, Answers(g) PROVE OnlyNavigates'
  <2>1. goals[g] # Nothing /\ goals[g] \in Goals /\ goals[g].kind = "navigate"
    BY <1>0, <1>5
       DEF Answers, OnGoalResponse, OnResult, OnSpinResponse, OnSpinResult, Is,
           OnlyNavigates, Navigates
  <2>2. OnGoalResponse(g) \/ OnResult(g)
    BY <1>5, <2>1 DEF Answers, OnSpinResponse, OnSpinResult, Is
  <2> DEFINE r == [goals[g] EXCEPT !.told = TRUE]
  <2>3. r.kind = "navigate"
    BY <2>1 DEF Goals
  <2>4. goals' \in {[goals EXCEPT ![g] = Nothing], [goals EXCEPT ![g] = r]}
    BY <2>2 DEF OnGoalResponse, OnResult, SpinStarts
  <2> HIDE DEF r
  <2>5. \A h \in Slots : goals'[h] # Nothing => goals'[h] \in {goals[h], r}
                                               /\ goals[h] # Nothing
    BY <1>0, <2>1, <2>4
  <2>6. QED
    BY <2>3, <2>5 DEF OnlyNavigates, Navigates
<1>6. ASSUME NEW g \in Slots, Nav2(g) PROVE OnlyNavigates'
  BY <1>6, PhaseStep DEF OnlyNavigates, Navigates
<1>7. QED
  BY <1>2, <1>3, <1>4, <1>5, <1>6 DEF Next, vars, Elapse, OnFeedback

(* One goal at a time: the goals counted are untold, then the handle stops, *)
(* or the handle's.                                                         *)
LEMMA OneIsSingle ==
  ASSUME IInv, OneAtATime
  PROVE  SingleGoal
<1> DEFINE Live == {g \in Slots \ disowned :
                      Is(g, "navigate", {"asked", "running"}) /\ ~goals[g].stop}
<1>1. ASSUME NEW g \in Live, NEW h \in Live PROVE g = h
  <2>1. /\ g \in Slots \ disowned /\ Navigates(g) /\ ~goals[g].stop
        /\ h \in Slots \ disowned /\ Navigates(h) /\ ~goals[h].stop
    BY DEF Is, Navigates
  <2>2. QED
    BY <2>1, NothingAssumption
       DEF OneAtATime, HandleIsTold, AskedOnce, AskedAlone, Stopping
<1> HIDE DEF Live
<1>2. CASE Live = {}
  BY <1>2, FS_EmptySet DEF SingleGoal, Live
<1>3. CASE Live # {}
  <2>1. PICK g \in Live : TRUE
    BY <1>3
  <2>2. Live = {g}
    BY <1>1
  <2>3. Cardinality(Live) = 1
    BY <2>2, FS_Singleton
  <2>4. QED
    BY <2>3 DEF SingleGoal, Live
<1>4. QED
  BY <1>2, <1>3

(* With no spin about, what runs and was told of is the handle's goal.      *)
LEMMA OneIsTracked ==
  ASSUME OneAtATime, OnlyNavigates
  PROVE  TracksRunning
BY DEF OneAtATime, HandleIsTold, OnlyNavigates, TracksRunning

----------------------------------------------------------------------------
(* The inductive invariant starts and is kept.                              *)

LEMMA IInvInit == Init => IInv /\ PendingHasCancel /\ OneAtATime /\ OnlyNavigates
<1>1. Init => IInv /\ PendingHasCancel
  BY GoalAssumption DEF Init, IInv, TypeOK, HandlesAreOpen, PendingHasCancel, Horizon
<1>2. Init => OneAtATime /\ OnlyNavigates
  BY DEF Init, OneAtATime, HandleIsTold, AskedOnce, AskedAlone, ReplacedStops,
         StoppedTold, OnlyNavigates, Navigates, Stopping
<1>3. QED
  BY <1>1, <1>2

LEMMA IInvStep ==
  ASSUME IInv, PendingHasCancel, [Next]_vars
  PROVE  IInv' /\ PendingHasCancel'
<1>1. CASE UNCHANGED vars
  BY <1>1 DEF vars, adapter, IInv, TypeOK, HandlesAreOpen, PendingHasCancel
<1>2. CASE User
  BY <1>2, GoalStep, CancelNavigationStep DEF User
<1>3. CASE OnCancelDone \/ OnSpinCancelDone
  BY <1>3, CancelDoneStep
<1>4. CASE Elapse \/ \E g \in Slots : OnFeedback(g)
  BY <1>4, TimerStep
<1>5. CASE \E g \in Slots : Answers(g)
  BY <1>5, ResponseStep, ResultStep DEF Answers
<1>6. CASE \E g \in Slots : Nav2(g)
  BY <1>6, ServerStep
<1>7. QED
  BY <1>1, <1>2, <1>3, <1>4, <1>5, <1>6 DEF Next

LEMMA OneStep ==
  ASSUME OneInv, [Next]_vars
  PROVE  OneInv'
<1>1. IInv' /\ PendingHasCancel' /\ Waits
  BY IInvStep DEF OneInv
<1>2. CASE UNCHANGED vars
  <2>1. OneAtATime'
    BY <1>2, OneKept DEF vars, adapter
  <2>2. QED
    BY <1>1, <2>1 DEF OneInv
<1>3. CASE User
  BY <1>1, <1>3, GoalOne, CancelNavigationOne DEF User, OneInv
<1>4. CASE OnCancelDone \/ OnSpinCancelDone
  BY <1>1, <1>4, CancelDoneOne DEF OneInv
<1>5. CASE Elapse \/ \E g \in Slots : OnFeedback(g) \/ Nav2(g)
  BY <1>1, <1>5, OtherOne DEF OneInv
<1>6. CASE \E g \in Slots : Answers(g)
  BY <1>1, <1>6, ResponseOne, ResultOne DEF Answers, OneInv
<1>7. QED
  BY <1>2, <1>3, <1>4, <1>5, <1>6 DEF Next

(* The inductive invariant holds in every reachable state.                  *)
LEMMA Invariance == Spec => [](IInv /\ PendingHasCancel)
BY IInvInit, IInvStep, PTL DEF Spec

LEMMA OneInvariance == ASSUME Waits PROVE Spec => []OneInv
<1>1. Init => OneInv
  BY IInvInit DEF OneInv
<1>2. QED
  BY <1>1, OneStep, PTL DEF Spec

(* Every value the adapter keeps is in its type (TypeOK).                   *)
THEOREM TypeCorrect == Spec => []TypeOK
BY Invariance, PTL DEF IInv

(* A click kept for later always has a cancel answer to come that sends it: *)
(* no order of results, answers and responses strands it.                   *)
THEOREM AlwaysPendingHasCancel == Spec => []PendingHasCancel
BY Invariance, PTL

(* A handle is an open goal of its own kind, so the node never cancels      *)
(* another client's or an already released goal.                            *)
THEOREM AlwaysHandlesAreOpen == Spec => []HandlesAreOpen
BY Invariance, PTL DEF IInv

(* "Send every Foxglove click as a single active NavigateToPose goal."      *)
(* (g1_goal_to_nav.py:113) holds for a patient user, final spin or not, but *)
(* beside goals whose handle an older goal's answer has cleared.            *)
THEOREM AlwaysSingleGoal == ASSUME Waits PROVE Spec => []SingleGoal
<1>1. OneInv => SingleGoal
  BY OneIsSingle DEF OneInv
<1>2. QED
  BY <1>1, OneInvariance, PTL

(* Without the final spin a patient user's running goal is in a handle, so   *)
(* that cancel_navigation reaches it, unless an older goal's answer has     *)
(* cleared that handle.                                                     *)
THEOREM AlwaysTracksRunning ==
  ASSUME Waits, FinalSpin = FALSE PROVE Spec => []TracksRunning
<1>1. Init => OneInv /\ OnlyNavigates
  BY IInvInit DEF OneInv
<1>2. OneInv /\ OnlyNavigates /\ [Next]_vars => (OneInv /\ OnlyNavigates)'
  BY OneStep, OnlyNavigatesStep DEF OneInv
<1>3. OneInv /\ OnlyNavigates => TracksRunning
  BY OneIsTracked DEF OneInv
<1>4. QED
  BY <1>1, <1>2, <1>3, PTL DEF Spec
=============================================================================
