---------------------------- MODULE ReinitProofs ----------------------------
(***************************************************************************)
(* Theorems about the reinitialization supervisor for every value of its   *)
(* constants: the type invariant, the bounds on attempts and on the walk,  *)
(* the scope of alias_confirmed, and that it implements the reset budget.  *)
(***************************************************************************)
EXTENDS ReinitAudit, SequenceTheorems, TLAPS

(* What a policy state must satisfy for its next one to: a query is only    *)
(* awaited while an attempt is left, and a walk is inside its list and paid *)
(* for by an attempt.                                                       *)
Sound(s) ==
  /\ s.attempts <= MaxAttempts
  /\ s.name = "await_candidates" => s.attempts < MaxAttempts
  /\ s.name = "settling" =>
       /\ s.index < MaxWalkCandidates /\ s.index < Len(s.scores)
       /\ s.attempts > 0 /\ s.resetAge # None
  /\ s.alias => s.name \in {"await_query", "await_candidates", "settling",
                            "verifying", "cooldown"}

(* A step of the policy that publishes a reset ends settling at age zero.   *)
Offers(t) == t.name = "settling" /\ t.resetAge = 0

(* What one decision costs: a new offer or a wasted query one attempt, a    *)
(* further candidate of the same walk nothing; only a restored budget makes *)
(* the attempts fall.                                                       *)
Cost(s, t) ==
  \/ /\ t.attempts = s.attempts /\ ~Offers(t)
     /\ t.name = "settling" => s.name = "settling" /\ t.index = s.index
  \/ /\ t.attempts = s.attempts + 1 /\ s.attempts < MaxAttempts
     /\ Offers(t) /\ t.index = 0
  \/ /\ t.attempts = s.attempts + 1 /\ s.attempts < MaxAttempts
     /\ t.name # "settling"
  \/ /\ t.attempts = s.attempts /\ Offers(t)
     /\ s.name = "settling" /\ t.index = s.index + 1
  \/ t.attempts = 0 /\ t.name # "settling"

AllObservations ==
  [requested : BOOLEAN, reply : Seq(Scores) \cup {NoReply},
   fitness : {"none", "poor", "good"}, mismatch : {"none", "within", "beyond"},
   delay : Nat \ {0}]

(* What every decision preserves and costs.                                 *)
Sane(t) == t \in SupervisorState /\ Sound(t) /\ Cost(sup, t)

(* Ages stay in range, an age once set stays set, and after a positive      *)
(* delay it is not zero (policy: now - t).                                  *)
LEMMA LaterAge ==
  ASSUME NEW cap \in Nat \ {0}, NEW age \in Age(cap), NEW d \in Nat \ {0}
  PROVE  /\ Later(age, d, cap) \in Age(cap)
         /\ Later(age, d, cap) # 0
         /\ Later(age, d, cap) = None <=> age = None
BY DEF Later, Age, None

(* Observing time and the request changes nothing but the ages.             *)
LEMMA SeenState ==
  ASSUME sup \in SupervisorState, NEW o \in AllObservations
  PROVE  /\ Seen(o) \in SupervisorState
         /\ Seen(o).name = sup.name /\ Seen(o).attempts = sup.attempts
         /\ Seen(o).scores = sup.scores /\ Seen(o).index = sup.index
         /\ Seen(o).evidence = sup.evidence /\ Seen(o).alias = sup.alias
         /\ Seen(o).resetAge # 0
         /\ Seen(o).resetAge = None <=> sup.resetAge = None
<1> DEFINE cap == Max2(SettleTimeout, MinSpacing)
<1>1. /\ RequestDebounce \in Nat \ {0} /\ MinSpacing \in Nat \ {0}
      /\ QueryTimeout \in Nat \ {0} /\ cap \in Nat \ {0}
  BY TimesAssumption DEF Max2
<1>2. /\ sup.requestAge \in Age(RequestDebounce)
      /\ sup.queryAge \in Age(QueryTimeout)
      /\ sup.resetAge \in Age(cap) /\ sup.cooldownAge \in Age(MinSpacing)
      /\ o.delay \in Nat \ {0} /\ o.requested \in BOOLEAN
  BY DEF SupervisorState, AllObservations
<1> HIDE DEF cap
<1>3. /\ Later(sup.requestAge, o.delay, RequestDebounce) \in Age(RequestDebounce)
      /\ Later(sup.queryAge, o.delay, QueryTimeout) \in Age(QueryTimeout)
      /\ Later(sup.cooldownAge, o.delay, MinSpacing) \in Age(MinSpacing)
      /\ Later(sup.resetAge, o.delay, cap) \in Age(cap)
      /\ Later(sup.resetAge, o.delay, cap) # 0
      /\ Later(sup.resetAge, o.delay, cap) = None <=> sup.resetAge = None
  BY <1>1, <1>2, LaterAge
<1>4. None \in Age(RequestDebounce) /\ 0 \in Age(RequestDebounce)
  BY <1>1 DEF Age, None
<1> USE DEF cap
<1>5. QED
  BY <1>3, <1>4 DEF Seen, SupervisorState

(* None and 0 are ages whatever the cap.                                    *)
LEMMA AgeValues ==
  /\ None \in Age(RequestDebounce) /\ 0 \in Age(RequestDebounce)
  /\ None \in Age(QueryTimeout) /\ 0 \in Age(QueryTimeout)
  /\ None \in Age(MinSpacing) /\ 0 \in Age(MinSpacing)
  /\ None \in Age(Max2(SettleTimeout, MinSpacing))
  /\ 0 \in Age(Max2(SettleTimeout, MinSpacing))
  /\ None # 0
BY TimesAssumption DEF Age, None, Max2

(* A published list is not empty and costs an attempt.                      *)
LEMMA PublishState ==
  ASSUME NEW s \in SupervisorState, NEW reply \in Seq(Scores), Usable(reply)
  PROVE  LET t == PublishFirst(s, reply) IN
         /\ t \in SupervisorState
         /\ t.name = "settling" /\ t.resetAge = 0 /\ t.index = 0
         /\ t.attempts = s.attempts + 1 /\ t.scores = reply
         /\ t.alias = s.alias
         /\ t.index < Len(t.scores)
<1>1. /\ None \in Age(QueryTimeout) /\ 0 \in Age(Max2(SettleTimeout, MinSpacing))
      /\ s.attempts + 1 \in Nat /\ 0 \in Nat /\ "settling" \in Names
  BY TimesAssumption DEF Age, None, Max2, SupervisorState, Names
<1>2. Len(reply) > 0
  BY DEF Usable
<1>3. QED
  BY <1>1, <1>2 DEF PublishFirst, SupervisorState

(* Cooling down keeps the attempts and the flag.                            *)
LEMMA CooldownState ==
  ASSUME NEW s \in SupervisorState
  PROVE  LET t == Cooldown(s) IN
         /\ t \in SupervisorState
         /\ t.name = "cooldown" /\ t.attempts = s.attempts
         /\ t.alias = s.alias
<1>1. /\ None \in Age(QueryTimeout) /\ 0 \in Age(MinSpacing)
      /\ 0 \in Nat /\ "cooldown" \in Names
  BY TimesAssumption DEF Age, None, Names
<1>2. QED
  BY <1>1 DEF Cooldown, SupervisorState

(* The three ways out of an episode clear alias_confirmed; only giving up   *)
(* keeps the attempts.                                                      *)
LEMMA ExitStates ==
  ASSUME NEW s \in SupervisorState
  PROVE  /\ ResetToIdle(s) \in SupervisorState
         /\ ResetToIdle(s).name = "idle" /\ ResetToIdle(s).attempts = 0
         /\ ~ResetToIdle(s).alias
         /\ ToExhausted(s) \in SupervisorState
         /\ ToExhausted(s).name = "exhausted"
         /\ ToExhausted(s).attempts = s.attempts
         /\ ~ToExhausted(s).alias
         /\ StanddownConfirmed(s) \in SupervisorState
         /\ StanddownConfirmed(s).name = "standdown"
         /\ StanddownConfirmed(s).attempts = 0
         /\ ~StanddownConfirmed(s).alias
<1>1. /\ None \in Age(QueryTimeout) /\ None \in Age(MinSpacing)
      /\ None \in Age(Max2(SettleTimeout, MinSpacing))
      /\ 0 \in Nat /\ <<>> \in Seq(Scores)
      /\ {"idle", "exhausted", "standdown"} \subseteq Names
  BY DEF Age, Names
<1>2. QED
  BY <1>1 DEF ResetToIdle, ToExhausted, StanddownConfirmed, SupervisorState

(* Leaving an episode is sane from any state the attempts allow.            *)
LEMMA ExitSane ==
  ASSUME sup \in SupervisorState, Sound(sup), NEW s \in SupervisorState,
         s.attempts = sup.attempts
  PROVE  Sane(ResetToIdle(s)) /\ Sane(ToExhausted(s)) /\ Sane(StanddownConfirmed(s))
<1>1. sup.attempts \in Nat
  BY DEF SupervisorState
<1>2. Sane(ResetToIdle(s))
  BY <1>1, ExitStates, BudgetAssumption DEF Sane, Sound, Cost, Offers
<1>3. Sane(ToExhausted(s))
  BY <1>1, ExitStates DEF Sane, Sound, Cost, Offers
<1>4. Sane(StanddownConfirmed(s))
  BY <1>1, ExitStates, BudgetAssumption DEF Sane, Sound, Cost, Offers
<1>5. QED
  BY <1>2, <1>3, <1>4

(* So is a cooldown, after a query that cost an attempt or none, whether or *)
(* not it confirms an alias.                                                *)
LEMMA CooldownSane ==
  ASSUME sup \in SupervisorState, Sound(sup), NEW s \in SupervisorState,
         \/ s.attempts = sup.attempts
         \/ s.attempts = sup.attempts + 1 /\ sup.attempts < MaxAttempts
  PROVE  Sane(Cooldown(s)) /\ Sane([Cooldown(s) EXCEPT !.alias = TRUE])
<1> DEFINE t == Cooldown(s)
           u == [t EXCEPT !.alias = TRUE]
<1>1. /\ t \in SupervisorState /\ t.name = "cooldown"
      /\ t.attempts = s.attempts
      /\ sup.attempts \in Nat
  BY CooldownState DEF SupervisorState
<1> HIDE DEF t
<1>2. u \in SupervisorState /\ u.name = "cooldown" /\ u.attempts = s.attempts
  BY <1>1 DEF SupervisorState
<1> HIDE DEF u
<1>3. Sane(t)
  BY <1>1, BudgetAssumption DEF Sane, Sound, Cost, Offers
<1>4. Sane(u)
  BY <1>1, <1>2, BudgetAssumption DEF Sane, Sound, Cost, Offers
<1>5. QED
  BY <1>3, <1>4 DEF t, u

(* And a reset from a usable reply while an attempt is left.                *)
LEMMA PublishSane ==
  ASSUME sup \in SupervisorState, Sound(sup), NEW s \in SupervisorState,
         s.attempts = sup.attempts, sup.attempts < MaxAttempts,
         NEW reply \in Seq(Scores), Usable(reply)
  PROVE  /\ Sane(PublishFirst(s, reply))
         /\ Sane([PublishFirst(s, reply) EXCEPT !.alias = TRUE])
<1> DEFINE t == PublishFirst(s, reply)
           u == [t EXCEPT !.alias = TRUE]
<1>1. /\ t \in SupervisorState /\ t.name = "settling" /\ t.resetAge = 0
      /\ t.index = 0 /\ t.attempts = sup.attempts + 1
      /\ t.index < Len(t.scores)
      /\ sup.attempts \in Nat
  BY PublishState DEF SupervisorState
<1> HIDE DEF t
<1>2. /\ u \in SupervisorState /\ u.name = "settling" /\ u.resetAge = 0
      /\ u.index = 0 /\ u.attempts = sup.attempts + 1
      /\ u.index < Len(u.scores)
  BY <1>1 DEF SupervisorState
<1> HIDE DEF u
<1>3. Sane(t)
  BY <1>1, BudgetAssumption, AgeValues DEF Sane, Sound, Cost, Offers
<1>4. Sane(u)
  BY <1>1, <1>2, BudgetAssumption, AgeValues DEF Sane, Sound, Cost, Offers
<1>5. QED
  BY <1>3, <1>4 DEF t, u

(* idle: a sustained request moves towards a query.                         *)
LEMMA IdleStep ==
  ASSUME sup \in SupervisorState, Sound(sup), NEW o \in AllObservations,
         NEW act, Idle(o, act)
  PROVE  Sane(sup')
<1>1. [Seen(o) EXCEPT !.name = "await_query"] \in SupervisorState
  BY SeenState DEF SupervisorState, Names
<1>2. QED
  BY <1>1, SeenState, BudgetAssumption
     DEF Idle, Sane, Sound, Cost, Offers, SupervisorState

(* Sending a query keeps everything but the name and its age.               *)
LEMMA QueryState ==
  ASSUME NEW s \in SupervisorState, NEW name \in Names
  PROVE  LET t == [s EXCEPT !.name = name, !.queryAge = 0] IN
         /\ t \in SupervisorState
         /\ t.name = name /\ t.attempts = s.attempts
         /\ t.alias = s.alias /\ t.resetAge = s.resetAge
BY AgeValues DEF SupervisorState

(* await_query: a query is issued only while an attempt is left.             *)
LEMMA AwaitQueryStep ==
  ASSUME sup \in SupervisorState, Sound(sup), NEW o \in AllObservations,
         NEW act, AwaitQuery(o, act)
  PROVE  Sane(sup')
<1> DEFINE s == Seen(o)
           t == [s EXCEPT !.name = "await_candidates", !.queryAge = 0]
<1>0. /\ s \in SupervisorState /\ s.name = "await_query"
      /\ s.attempts = sup.attempts /\ s.alias = sup.alias
      /\ sup.attempts \in Nat
  BY SeenState DEF AwaitQuery, SupervisorState
<1>1. CASE sup' = ResetToIdle(s)
  BY <1>0, <1>1, ExitSane
<1>2. CASE sup' = ToExhausted(s)
  BY <1>0, <1>2, ExitSane
<1>3. CASE sup' = s
  BY <1>0, <1>3 DEF Sane, Sound, Cost, Offers
<1>4. CASE s.attempts < MaxAttempts /\ sup' = t
  <2>1. /\ t \in SupervisorState /\ t.name = "await_candidates"
        /\ t.attempts = s.attempts /\ t.alias = s.alias
    BY <1>0, QueryState DEF Names
  <2> HIDE DEF t
  <2>2. QED
    BY <1>0, <1>4, <2>1 DEF Sane, Sound, Cost, Offers
<1>5. QED
  BY <1>1, <1>2, <1>3, <1>4 DEF AwaitQuery

(* await_candidates: a usable reply is published and paid for, any other     *)
(* answer or a timeout is paid for too.                                      *)
LEMMA AwaitCandidatesStep ==
  ASSUME sup \in SupervisorState, Sound(sup), NEW o \in AllObservations,
         NEW act, AwaitCandidates(o, act)
  PROVE  Sane(sup')
<1> DEFINE s == Seen(o)
           paid == [s EXCEPT !.attempts = @ + 1]
           wasted == [s EXCEPT !.attempts = @ + 1, !.scores = <<>>, !.index = 0]
<1>0. /\ s \in SupervisorState /\ s.name = "await_candidates"
      /\ s.attempts = sup.attempts /\ s.alias = sup.alias
      /\ sup.attempts \in Nat /\ s.resetAge # 0
  BY SeenState DEF AwaitCandidates, SupervisorState
<1>1. sup.attempts < MaxAttempts
  BY DEF Sound, AwaitCandidates
<1>2. /\ paid \in SupervisorState /\ paid.attempts = sup.attempts + 1
      /\ wasted \in SupervisorState /\ wasted.attempts = sup.attempts + 1
  <2> HIDE DEF s
  <2>1. s.attempts + 1 \in Nat /\ 0 \in Nat /\ <<>> \in Seq(Scores)
    BY <1>0
  <2>2. QED
    BY <1>0, <2>1 DEF SupervisorState
<1>3. CASE /\ o.reply # NoReply /\ Usable(o.reply)
           /\ sup' = PublishFirst(s, o.reply)
  <2>1. o.reply \in Seq(Scores)
    BY <1>3 DEF AllObservations
  <2>2. QED
    BY <1>0, <1>1, <1>3, <2>1, PublishSane
<1>4. CASE sup' = Cooldown(wasted)
  BY <1>1, <1>2, <1>4, CooldownSane
<1>5. CASE sup' = Cooldown(paid)
  BY <1>1, <1>2, <1>5, CooldownSane
<1>6. CASE sup' = s
  BY <1>0, <1>1, <1>6 DEF Sane, Sound, Cost, Offers
<1>7. QED
  BY <1>3, <1>4, <1>5, <1>6 DEF AwaitCandidates

(* verifying: an alias reseeds only while an attempt is left; every other    *)
(* outcome leaves the episode or cools down.                                 *)
LEMMA VerifyingStep ==
  ASSUME sup \in SupervisorState, Sound(sup), NEW o \in AllObservations,
         NEW act, Verifying(o, act)
  PROVE  Sane(sup')
<1> DEFINE s == Seen(o)
           cleared == [s EXCEPT !.queryAge = None, !.scores = <<>>, !.index = 0,
                                !.evidence = 0]
<1>0. /\ s \in SupervisorState /\ s.name = "verifying"
      /\ s.attempts = sup.attempts /\ s.alias = sup.alias
      /\ sup.attempts \in Nat /\ s.resetAge # 0
  BY SeenState DEF Verifying, SupervisorState
<1>1. cleared \in SupervisorState /\ cleared.attempts = sup.attempts
  <2> HIDE DEF s
  <2>1. 0 \in Nat /\ <<>> \in Seq(Scores)
    OBVIOUS
  <2>2. QED
    BY <1>0, <2>1, AgeValues DEF SupervisorState
<1>2. CASE sup' = StanddownConfirmed(s)
  BY <1>0, <1>2, ExitSane
<1>3. CASE sup' = ToExhausted(cleared)
  BY <1>1, <1>3, ExitSane
<1>4. CASE /\ o.reply # NoReply /\ Usable(o.reply)
           /\ s.attempts < MaxAttempts
           /\ sup' = [PublishFirst(cleared, o.reply) EXCEPT !.alias = TRUE]
  <2>1. o.reply \in Seq(Scores)
    BY <1>4 DEF AllObservations
  <2> HIDE DEF cleared
  <2>2. QED
    BY <1>0, <1>1, <1>4, <2>1, PublishSane
<1>5. CASE sup' = [Cooldown(cleared) EXCEPT !.alias = TRUE]
  <2> HIDE DEF cleared
  <2>1. QED
    BY <1>1, <1>5, CooldownSane
<1>6. CASE sup' = s
  BY <1>0, <1>6 DEF Sane, Sound, Cost, Offers
<1>7. QED
  BY <1>2, <1>3, <1>4, <1>5, <1>6 DEF Verifying

(* settling: recovery leads to the cross-check or out of the episode; a      *)
(* failed candidate to the next one of its list, never past it.              *)
LEMMA SettlingStep ==
  ASSUME sup \in SupervisorState, Sound(sup), NEW o \in AllObservations,
         NEW act, Settling(o, act)
  PROVE  Sane(sup')
<1> DEFINE count == IF o.fitness = "none" THEN sup.evidence
                    ELSE IF o.fitness = "good" THEN sup.evidence + 1 ELSE 0
           s == [Seen(o) EXCEPT !.evidence = count]
           verify == [s EXCEPT !.name = "verifying", !.queryAge = 0,
                               !.evidence = 0, !.scores = <<>>, !.index = 0]
           walk == [s EXCEPT !.resetAge = 0, !.index = s.index + 1, !.evidence = 0]
           failed == [s EXCEPT !.scores = <<>>, !.index = 0]
<1>0. /\ s \in SupervisorState /\ s.name = "settling"
      /\ s.attempts = sup.attempts /\ s.alias = sup.alias
      /\ s.index = sup.index /\ s.scores = sup.scores
      /\ s.resetAge # 0 /\ s.resetAge # None
      /\ sup.attempts \in Nat /\ sup.name = "settling"
  <2>1. count \in Nat
    BY DEF SupervisorState
  <2>2. sup.name = "settling" /\ sup.resetAge # None
    BY DEF Settling, Sound
  <2> HIDE DEF count
  <2>3. QED
    BY <2>1, <2>2, SeenState DEF SupervisorState
<1> HIDE DEF s
<1>1. /\ s.index \in Nat /\ s.index + 1 \in Nat /\ 0 \in Nat
      /\ <<>> \in Seq(Scores) /\ "verifying" \in Names
      /\ s.attempts \in Nat /\ Len(s.scores) \in Nat
  BY <1>0 DEF SupervisorState, Names
<1>2. /\ verify \in SupervisorState /\ verify.name = "verifying"
      /\ verify.attempts = sup.attempts
  BY <1>0, <1>1, AgeValues DEF SupervisorState
<1>3. /\ walk \in SupervisorState /\ walk.name = "settling"
      /\ walk.attempts = sup.attempts /\ walk.index = sup.index + 1
      /\ walk.scores = s.scores /\ walk.resetAge = 0
  BY <1>0, <1>1, AgeValues DEF SupervisorState
<1>4. failed \in SupervisorState /\ failed.attempts = sup.attempts
  BY <1>0, <1>1 DEF SupervisorState
<1>5. CASE sup' = verify
  <2> HIDE DEF verify
  <2>1. QED
    BY <1>0, <1>2, <1>5 DEF Sane, Sound, Cost, Offers
<1>6. CASE sup' = StanddownConfirmed(s)
  BY <1>0, <1>6, ExitSane
<1>7. CASE /\ s.index + 1 < Len(s.scores) /\ s.index + 1 < MaxWalkCandidates
           /\ sup' = walk
  <2> HIDE DEF walk
  <2>1. QED
    BY <1>0, <1>3, <1>7, AgeValues DEF Sane, Sound, Cost, Offers
<1>8. CASE sup' = ToExhausted(s)
  BY <1>0, <1>8, ExitSane
<1>9. CASE sup' = Cooldown(failed)
  <2> HIDE DEF failed
  <2>1. QED
    BY <1>0, <1>4, <1>9, CooldownSane
<1>10. CASE sup' = s
  BY <1>0, <1>10 DEF Sane, Sound, Cost, Offers
<1>11. QED
  BY <1>5, <1>6, <1>7, <1>8, <1>9, <1>10 DEF Settling, Further, s

(* cooldown: what follows depends on the attempts left and on whether the    *)
(* problem is still there.                                                   *)
LEMMA CoolingDownStep ==
  ASSUME sup \in SupervisorState, Sound(sup), NEW o \in AllObservations,
         NEW act, CoolingDown(o, act)
  PROVE  Sane(sup')
<1> DEFINE s == Seen(o)
           verify == [s EXCEPT !.name = "verifying", !.queryAge = 0,
                               !.scores = <<>>, !.index = 0]
           again == [s EXCEPT !.name = "await_query", !.cooldownAge = None]
<1>0. /\ s \in SupervisorState /\ s.name = "cooldown"
      /\ s.attempts = sup.attempts /\ s.alias = sup.alias
      /\ sup.attempts \in Nat
  BY SeenState DEF CoolingDown, SupervisorState
<1> HIDE DEF s
<1>1. /\ 0 \in Nat /\ <<>> \in Seq(Scores)
      /\ "verifying" \in Names /\ "await_query" \in Names
  BY DEF Names
<1>2. /\ verify \in SupervisorState /\ verify.name = "verifying"
      /\ verify.attempts = sup.attempts
      /\ again \in SupervisorState /\ again.name = "await_query"
      /\ again.attempts = sup.attempts
  BY <1>0, <1>1, AgeValues DEF SupervisorState
<1>3. CASE sup' = ToExhausted(s) \/ sup' = ResetToIdle(s)
  BY <1>0, <1>3, ExitSane
<1>4. CASE sup' = verify
  <2> HIDE DEF verify
  <2>1. QED
    BY <1>0, <1>2, <1>4 DEF Sane, Sound, Cost, Offers
<1>5. CASE sup' = again
  <2> HIDE DEF again
  <2>1. QED
    BY <1>0, <1>2, <1>5 DEF Sane, Sound, Cost, Offers
<1>6. CASE sup' = s
  BY <1>0, <1>6 DEF Sane, Sound, Cost, Offers
<1>7. QED
  BY <1>3, <1>4, <1>5, <1>6 DEF CoolingDown, s

(* standdown and exhausted: nothing until the request clears, then idle with *)
(* a full budget.                                                            *)
LEMMA LatchedStep ==
  ASSUME sup \in SupervisorState, Sound(sup), NEW o \in AllObservations,
         NEW act, Standdown(o, act) \/ Exhausted(o, act)
  PROVE  Sane(sup')
<1> DEFINE s == Seen(o)
           idle == ResetToIdle(s)
           stood == [idle EXCEPT !.requestAge = None]
           gave == [idle EXCEPT !.resetAge = None, !.cooldownAge = None]
<1>0. /\ s \in SupervisorState /\ s.name \in {"standdown", "exhausted"}
      /\ s.attempts = sup.attempts /\ s.alias = sup.alias
      /\ sup.attempts \in Nat /\ sup.name = s.name
  BY SeenState DEF Standdown, Exhausted, SupervisorState
<1>1. /\ idle \in SupervisorState /\ idle.name = "idle" /\ idle.attempts = 0
      /\ ~idle.alias
  BY <1>0, ExitStates
<1> HIDE DEF s, idle
<1>2. /\ stood \in SupervisorState /\ stood.name = "idle"
      /\ stood.attempts = 0 /\ ~stood.alias
      /\ gave \in SupervisorState /\ gave.name = "idle"
      /\ gave.attempts = 0 /\ ~gave.alias
  BY <1>1, AgeValues DEF SupervisorState
<1>3. CASE sup' = s
  BY <1>0, <1>3 DEF Sane, Sound, Cost, Offers
<1>4. CASE sup' = stood \/ sup' = gave
  <2> HIDE DEF stood, gave
  <2>1. QED
    BY <1>0, <1>2, <1>4, BudgetAssumption DEF Sane, Sound, Cost, Offers
<1>5. QED
  BY <1>3, <1>4 DEF Standdown, Exhausted, s, idle

(* Every decision keeps the state sane.                                      *)
LEMMA DecideStep ==
  ASSUME sup \in SupervisorState, Sound(sup), NEW o \in AllObservations,
         NEW act, Decide(o, act)
  PROVE  Sane(sup')
BY IdleStep, AwaitQueryStep, AwaitCandidatesStep, SettlingStep, VerifyingStep,
   CoolingDownStep, LatchedStep DEF Decide
----------------------------------------------------------------------------
(* The node around the policy.                                               *)

IInv == TypeOK /\ Sound(sup)

(* A tick shows the policy a well-formed observation and publishes only a    *)
(* candidate the node holds.                                                 *)
LEMMA TickStep ==
  ASSUME IInv, NEW delay \in Delays, TickAfter(delay)
  PROVE  IInv' /\ Sane(sup')
<1> DEFINE o == [requested |-> requested, reply |-> pending,
                 mismatch |-> mismatch, fitness |-> fitness, delay |-> delay]
<1>1. o \in AllObservations
  BY NodeAssumption DEF IInv, TypeOK, AllObservations
<1>2. PICK act \in Actions :
        /\ Decide(o, act)
        /\ fitness' = "none" /\ pending' = NoReply
        /\ mismatch' = IF pending = NoReply THEN mismatch ELSE "none"
        /\ IF act = "query" THEN IssueQuery ELSE UNCHANGED inFlight
        /\ published' = IF act = "publish_reset" /\ sup'.index < Len(candidates)
                        THEN candidates[sup'.index + 1] ELSE NoReset
        /\ UNCHANGED <<requested, candidates>>
  BY DEF TickAfter
<1> HIDE DEF o
<1>3. Sane(sup')
  BY <1>1, <1>2, DecideStep DEF IInv, TypeOK
<1>4. inFlight' \in 0..MaxInFlight
  BY <1>2, NodeAssumption DEF IInv, TypeOK, IssueQuery
<1>5. published' \in Scores \cup {NoReset}
  <2>1. sup'.index \in Nat /\ candidates \in Seq(Scores)
    BY <1>3 DEF Sane, SupervisorState, IInv, TypeOK
  <2>2. CASE sup'.index < Len(candidates)
    <3>1. sup'.index + 1 \in 1..Len(candidates)
      BY <2>1, <2>2
    <3>2. candidates[sup'.index + 1] \in Scores
      BY <2>1, <3>1, ElementOfSeq
    <3>3. QED
      BY <1>2, <3>2
  <2>3. CASE ~(sup'.index < Len(candidates))
    BY <1>2, <2>3
  <2>4. QED
    BY <2>2, <2>3
<1>6. TypeOK'
  BY <1>2, <1>3, <1>4, <1>5 DEF TypeOK, Sane, IInv
<1>7. QED
  BY <1>3, <1>6 DEF IInv, Sane

(* The other callbacks leave the policy state alone.                         *)
LEMMA CallbackStep ==
  ASSUME IInv, Callbacks
  PROVE  IInv' /\ UNCHANGED sup
<1> USE DEF IInv, TypeOK
<1>1. CASE OnReinit
  BY <1>1 DEF OnReinit
<1>2. CASE \E quality \in {"poor", "good"} : OnAlignmentStatus(quality)
  BY <1>2 DEF OnAlignmentStatus
<1>3. CASE OnQueryFailed
  BY <1>3, NodeAssumption DEF OnQueryFailed
<1>4. ASSUME NEW reply \in Replies, OnQueryResponse(reply)
      PROVE  IInv' /\ UNCHANGED sup
  BY <1>4, NodeAssumption DEF OnQueryResponse, CrossChecks
<1>5. QED
  BY <1>1, <1>2, <1>3, <1>4 DEF Callbacks

(* The supervisor starts idle with its whole budget.                         *)
LEMMA InitInvariant == Init => IInv
<1>1. InitialState \in SupervisorState
  BY AgeValues DEF InitialState, SupervisorState, Names
<1>2. Sound(InitialState)
  BY BudgetAssumption DEF InitialState, Sound
<1>3. <<>> \in Seq(Scores) /\ 0 \in 0..MaxInFlight
  BY NodeAssumption
<1>4. ASSUME Init PROVE IInv
  <2>1. sup \in SupervisorState /\ Sound(sup)
    BY <1>1, <1>2, <1>4 DEF Init
  <2>2. QED
    BY <1>3, <1>4, <2>1 DEF Init, IInv, TypeOK
<1>5. QED
  BY <1>4

(* The inductive invariant holds in every reachable state.                   *)
LEMMA Invariance == Spec => []IInv
<1>1. IInv /\ [Next]_vars => IInv'
  <2>1. ASSUME IInv, Next PROVE IInv'
    BY <2>1, TickStep, CallbackStep DEF Next, Tick
  <2>2. ASSUME IInv, UNCHANGED vars PROVE IInv'
    BY <2>2 DEF vars, IInv, TypeOK
  <2>3. QED
    BY <2>1, <2>2
<1>2. QED
  BY <1>1, InitInvariant, PTL DEF Spec

(* Every value the supervisor keeps is in its type (TypeOK).                 *)
THEOREM TypeCorrect == Spec => []TypeOK
BY Invariance, PTL DEF IInv

(* max_attempts is a ceiling for every parameter and every behaviour of G2   *)
(* and the localizer (policy decide, attempts).                              *)
THEOREM AlwaysAttemptsBounded == Spec => []AttemptsBounded
<1>1. IInv => AttemptsBounded
  BY DEF IInv, Sound, AttemptsBounded
<1>2. QED
  BY <1>1, Invariance, PTL

(* A walk never leaves its own list nor max_walk_candidates.                 *)
THEOREM AlwaysWalkBounded == Spec => []WalkBounded
<1>1. IInv => WalkBounded
  BY DEF IInv, Sound, WalkBounded
<1>2. QED
  BY <1>1, Invariance, PTL

(* No exit from an episode forgets to clear alias_confirmed.                 *)
THEOREM AlwaysAliasEnds == Spec => []AliasEndsWithEpisode
<1>1. IInv => AliasEndsWithEpisode
  BY DEF IInv, Sound, AliasEndsWithEpisode
<1>2. QED
  BY <1>1, Invariance, PTL
----------------------------------------------------------------------------
(* The reset budget.                                                         *)

(* Every reset is paid for, and a walk has used no more of its attempt than  *)
(* its index says.                                                           *)
Paid ==
  /\ resets \in Nat
  /\ resets <= sup.attempts * MaxWalkCandidates
  /\ sup.name = "settling" =>
       resets + MaxWalkCandidates <= sup.attempts * MaxWalkCandidates + sup.index + 1
  /\ sup.attempts = 0 => resets = 0

(* A tick of the audited supervisor is a step of the budget, or leaves it as *)
(* it is.                                                                    *)
LEMMA BudgetStep ==
  ASSUME IInv, Paid, NEW delay \in Delays, TickAfter(delay), Observe
  PROVE  Paid' /\ [Budget!Next]_(Budget!budget)
<1> DEFINE a == sup.attempts
           b == sup'.attempts
           w == MaxWalkCandidates
           i == sup.index
           j == sup'.index
<1>1. /\ a \in Nat /\ b \in Nat /\ i \in Nat /\ j \in Nat /\ w \in Nat \ {0}
      /\ resets \in Nat /\ a <= MaxAttempts /\ MaxAttempts \in Nat
  BY TickStep, BudgetAssumption DEF IInv, TypeOK, Sane, SupervisorState, Paid, Sound
<1>2. /\ Cost(sup, sup') /\ Sound(sup) /\ Sound(sup')
  BY TickStep DEF Sane, IInv
<1>3. resets' = IF b = 0 THEN 0 ELSE IF Offers(sup') THEN resets + 1 ELSE resets
  BY DEF Observe, Offers
<1>4. /\ sup.name = "settling" => i < w /\ a > 0
      /\ sup'.name = "settling" => j < w /\ b > 0
  BY <1>2 DEF Sound
<1>5. /\ resets <= a * w
      /\ sup.name = "settling" => resets + w <= a * w + i + 1
      /\ a = 0 => resets = 0
  BY DEF Paid
<1>6. (a + 1) * w = a * w + w /\ 0 * w = 0 /\ a * w \in Nat /\ b * w \in Nat
  BY <1>1
<1>7. \/ /\ b = a /\ resets' = resets
         /\ sup'.name = "settling" => sup.name = "settling" /\ j = i
      \/ /\ b = a + 1 /\ a < MaxAttempts /\ resets' = resets + 1 /\ j = 0
      \/ /\ b = a + 1 /\ a < MaxAttempts /\ resets' = resets
         /\ sup'.name # "settling"
      \/ /\ b = a /\ resets' = resets + 1 /\ j = i + 1
         /\ sup.name = "settling" /\ sup'.name = "settling"
      \/ /\ b = 0 /\ resets' = 0 /\ sup'.name # "settling"
  BY <1>1, <1>2, <1>3, <1>4, <1>5 DEF Cost, Offers
<1>8. /\ resets' \in Nat /\ resets' <= b * w
      /\ sup'.name = "settling" => resets' + w <= b * w + j + 1
      /\ b = 0 => resets' = 0
  <2> HIDE DEF a, b, w, i, j
  <2>1. QED
    BY <1>1, <1>4, <1>5, <1>6, <1>7
<1>9. \/ b = a /\ resets' = resets
      \/ b = a + 1 /\ a < MaxAttempts /\ resets' = resets + 1
      \/ b = a + 1 /\ a < MaxAttempts /\ resets' = resets
      \/ b = a /\ resets < a * w /\ resets' = resets + 1
      \/ b = 0 /\ resets' = 0
  <2> HIDE DEF a, b, w, i, j
  <2>1. QED
    BY <1>1, <1>4, <1>5, <1>6, <1>7
<1>10. [Budget!Next]_(Budget!budget)
  BY <1>9 DEF Budget!Next, Budget!Offer, Budget!Waste, Budget!Walk,
              Budget!Restore, Budget!budget
<1>11. QED
  BY <1>8, <1>10 DEF Paid

(* The audited supervisor keeps both invariants and takes only budget steps. *)
LEMMA AuditedInvariance ==
  AuditedSpec => [](IInv /\ Paid) /\ [][Budget!Next]_(Budget!budget)
<1>1. ASSUME Init, AuditInit PROVE IInv /\ Paid
  <2>1. sup.attempts = 0 /\ sup.name = "idle" /\ resets = 0
    BY <1>1 DEF Init, InitialState, AuditInit
  <2>2. 0 * MaxWalkCandidates = 0
    BY BudgetAssumption
  <2>3. QED
    BY <1>1, <2>1, <2>2, InitInvariant DEF Paid
<1>2. ASSUME IInv, Paid, [AuditedNext]_<<vars, audit>>
      PROVE  (IInv /\ Paid)' /\ [Budget!Next]_(Budget!budget)
  <2>1. CASE Callbacks /\ UNCHANGED audit
    BY <1>2, <2>1, CallbackStep DEF audit, Paid, Budget!budget
  <2>2. ASSUME NEW delay \in Delays, TickAfter(delay), Observe
        PROVE  (IInv /\ Paid)' /\ [Budget!Next]_(Budget!budget)
    BY <1>2, <2>2, TickStep, BudgetStep
  <2>3. CASE UNCHANGED <<vars, audit>>
    BY <1>2, <2>3 DEF vars, audit, IInv, TypeOK, Paid, Budget!budget
  <2>4. QED
    BY <1>2, <2>1, <2>2, <2>3 DEF AuditedNext, AuditedTick, Tick
<1>3. QED
  BY <1>1, <1>2, PTL DEF AuditedSpec

(* The supervisor implements the reset budget (ImplementsBudget): no step of *)
(* the policy publishes a reset that was not paid for.                       *)
THEOREM Refinement == AuditedSpec => ImplementsBudget
<1>1. Init /\ AuditInit => Budget!Init
  BY DEF Init, InitialState, AuditInit, Budget!Init
<1>2. QED
  BY <1>1, AuditedInvariance, PTL DEF AuditedSpec, ImplementsBudget, Budget!Spec

(* One problem gets at most max_attempts times max_walk_candidates resets.   *)
THEOREM AlwaysResetsBounded == AuditedSpec => []ResetsBounded
<1>1. ASSUME IInv, Paid PROVE ResetsBounded
  <2>1. /\ sup.attempts \in Nat /\ sup.attempts <= MaxAttempts
        /\ MaxAttempts \in Nat /\ MaxWalkCandidates \in Nat
        /\ resets \in Nat /\ resets <= sup.attempts * MaxWalkCandidates
    BY <1>1, BudgetAssumption
       DEF IInv, TypeOK, SupervisorState, Sound, Paid
  <2>2. sup.attempts * MaxWalkCandidates <= MaxAttempts * MaxWalkCandidates
    BY <2>1
  <2>3. QED
    BY <2>1, <2>2 DEF ResetsBounded
<1>2. QED
  BY <1>1, AuditedInvariance, PTL
----------------------------------------------------------------------------
(* Evidence of recovery.                                                     *)

(* A cross-check and a stand-down have been preceded by evidence, whatever   *)
(* the request does now.                                                     *)
Evidenced == sup.name \in {"verifying", "standdown"} => proven

(* The policy comes to a cross-check or a stand-down only from settling, from *)
(* one of the two, or while the request is cleared, and never with a reset.  *)
LEMMA Entered ==
  ASSUME sup \in SupervisorState, Sound(sup), NEW o \in AllObservations,
         NEW act, Decide(o, act), sup'.name \in {"verifying", "standdown"}
  PROVE  /\ act # "publish_reset"
         /\ \/ sup.name \in {"settling", "verifying", "standdown"}
            \/ ~o.requested
<1> DEFINE s == Seen(o)
<1>0. s \in SupervisorState /\ s.name = sup.name
  BY SeenState
<1>1. CASE Idle(o, act)
  <2>1. sup'.name \in {"idle", "await_query"}
    BY <1>0, <1>1 DEF Idle, SupervisorState
  <2>2. QED
    BY <2>1
<1>2. CASE AwaitQuery(o, act)
  <2>1. sup'.name \in {"idle", "exhausted", "await_query", "await_candidates"}
    BY <1>0, <1>2, ExitStates, QueryState DEF AwaitQuery, Names
  <2>2. QED
    BY <2>1
<1>3. CASE AwaitCandidates(o, act)
  <2>1. sup'.name \in {"settling", "cooldown", "await_candidates"}
    BY <1>0, <1>3 DEF AwaitCandidates, PublishFirst, Cooldown, SupervisorState
  <2>2. QED
    BY <2>1
<1>4. CASE Settling(o, act)
  <2>1. act = "publish_reset" => sup'.name = "settling"
    BY <1>0, <1>4 DEF Settling, SupervisorState
  <2>2. QED
    BY <1>4, <2>1 DEF Settling
<1>5. CASE Verifying(o, act)
  <2>1. act = "publish_reset" => sup'.name = "settling"
    BY <1>0, <1>5 DEF Verifying, PublishFirst, SupervisorState
  <2>2. QED
    BY <1>5, <2>1 DEF Verifying
<1>6. CASE CoolingDown(o, act)
  <2>1. \/ sup'.name \in {"cooldown", "exhausted", "idle", "await_query"}
        \/ ~o.requested
    BY <1>0, <1>6, ExitStates DEF CoolingDown, Ongoing, SupervisorState
  <2>2. QED
    BY <1>6, <2>1 DEF CoolingDown
<1>7. CASE Standdown(o, act)
  BY <1>7 DEF Standdown
<1>8. CASE Exhausted(o, act)
  <2>1. sup'.name \in {"exhausted", "idle"}
    BY <1>0, <1>8, ExitStates DEF Exhausted, ResetToIdle, SupervisorState
  <2>2. QED
    BY <2>1
<1>9. QED
  BY <1>1, <1>2, <1>3, <1>4, <1>5, <1>6, <1>7, <1>8 DEF Decide

(* So a tick that ends in either has its evidence, or keeps what it had.     *)
LEMMA EvidenceStep ==
  ASSUME IInv, Evidenced, NEW delay \in Delays, TickAfter(delay), Observe
  PROVE  Evidenced'
<1> DEFINE o == [requested |-> requested, reply |-> pending,
                 mismatch |-> mismatch, fitness |-> fitness, delay |-> delay]
<1>1. o \in AllObservations /\ o.requested = requested
  BY NodeAssumption DEF IInv, TypeOK, AllObservations
<1>2. PICK act \in Actions :
        /\ Decide(o, act)
        /\ published' = IF act = "publish_reset" /\ sup'.index < Len(candidates)
                        THEN candidates[sup'.index + 1] ELSE NoReset
  BY DEF TickAfter
<1> HIDE DEF o
<1>3. SUFFICES ASSUME sup'.name \in {"verifying", "standdown"}
               PROVE  proven'
  BY DEF Evidenced
<1>4. /\ act # "publish_reset"
      /\ sup.name \in {"settling", "verifying", "standdown"} \/ ~requested
  BY <1>1, <1>2, <1>3, Entered DEF IInv, TypeOK
<1>5. published' = NoReset
  BY <1>2, <1>4
<1>6. QED
  BY <1>3, <1>4, <1>5 DEF Observe, Evidenced

(* The supervisor stands down on evidence only (StandDownNeedsEvidence): the *)
(* confirmation samples, an agreeing cross-check or a cleared request, for   *)
(* every parameter and every behaviour of G2 and the localizer.              *)
THEOREM AlwaysEvidence == AuditedSpec => []StandDownNeedsEvidence
<1>1. Init /\ AuditInit => IInv /\ Evidenced
  BY InitInvariant DEF AuditInit, Evidenced
<1>2. ASSUME IInv, Evidenced, [AuditedNext]_<<vars, audit>>
      PROVE  (IInv /\ Evidenced)'
  <2>1. CASE Callbacks /\ UNCHANGED audit
    BY <1>2, <2>1, CallbackStep DEF audit, Evidenced
  <2>2. ASSUME NEW delay \in Delays, TickAfter(delay), Observe
        PROVE  (IInv /\ Evidenced)'
    BY <1>2, <2>2, TickStep, EvidenceStep
  <2>3. CASE UNCHANGED <<vars, audit>>
    BY <1>2, <2>3 DEF vars, audit, IInv, TypeOK, Evidenced
  <2>4. QED
    BY <1>2, <2>1, <2>2, <2>3 DEF AuditedNext, AuditedTick, Tick
<1>3. IInv /\ Evidenced => StandDownNeedsEvidence
  BY DEF Evidenced, StandDownNeedsEvidence
<1>4. QED
  BY <1>1, <1>2, <1>3, PTL DEF AuditedSpec
=============================================================================
