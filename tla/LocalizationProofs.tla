-------------------------- MODULE LocalizationProofs --------------------------
(***************************************************************************)
(* Theorems about finding and keeping the robot's place (MCLocalization),  *)
(* for every value of the constants: the compensation of seeds, the global *)
(* search and the query around it, the ICP localizer, the odometry of the  *)
(* launch and the bursts of initial poses.                                 *)
(* An invariant is inductive in its own part, and a step of the whole is a *)
(* step of that part or leaves it alone.                                   *)
(***************************************************************************)
EXTENDS MCLocalization, SequenceTheorems, FiniteSetTheorems, TLAPS

LEMMA PartsInit == LocalizationInit => Init /\ Search!Init /\ Tracks!Init /\ Odometry!Init /\ Bursts!Init
BY DEF LocalizationInit

LEMMA PartsStep ==
  [LocalizationNext]_all => /\ [Next]_vars
                            /\ [Search!Next]_(Search!vars)
                            /\ [Tracks!Next]_(Tracks!vars)
                            /\ [Odometry!Next]_(Odometry!vars)
                            /\ [Bursts!Next]_(Bursts!vars)
<1> SUFFICES ASSUME [LocalizationNext]_all
             PROVE  /\ [Next]_vars
                    /\ [Search!Next]_(Search!vars)
                    /\ [Tracks!Next]_(Tracks!vars)
                    /\ [Odometry!Next]_(Odometry!vars)
                    /\ [Bursts!Next]_(Bursts!vars)
  OBVIOUS
<1>1. UNCHANGED trackVars => UNCHANGED Tracks!vars
  BY DEF trackVars, Tracks!vars, Tracks!tracking, Tracks!inputs, Tracks!output
<1>2. UNCHANGED odomVars => UNCHANGED Odometry!vars
  BY DEF odomVars, Odometry!vars, Odometry!nodeVars, Odometry!velocityVars,
         Odometry!anchorVars
<1>3. UNCHANGED burstVars => UNCHANGED Bursts!vars
  BY DEF burstVars, Bursts!vars, Bursts!node
<1>4. UNCHANGED searchVars => UNCHANGED Search!vars
  BY DEF searchVars, Search!vars, Search!searchVars, Search!queryVars
<1>5. /\ Next \/ UNCHANGED vars
      /\ Search!Next \/ UNCHANGED searchVars
      /\ Tracks!Next \/ UNCHANGED trackVars
      /\ Odometry!Next \/ UNCHANGED odomVars
      /\ Bursts!Next \/ UNCHANGED burstVars
  BY DEF LocalizationNext, all
<1> QED
  BY <1>1, <1>2, <1>3, <1>4, <1>5

-----------------------------------------------------------------------------
(* The velocity of the bag's clock and the candidates it belongs to, for any *)
(* number of queries, any delays and any bounds on speed and age.            *)

SeedInv == now \in Times /\ SimFixIsTop

(* A reply that comes replaces the fix, its velocity and the candidates      *)
(* together.                                                                 *)
LEMMA AnsweredIsTop ==
  ASSUME NEW top \in Positions, NEW stamp \in Times, NEW aged, NEW stamped,
         OnQueryResponse(top, stamp, aged, stamped)
  PROVE  SimFixIsTop'
<1>1. candidates' = top /\ candidates' # Unset
  BY SeedAssumption DEF OnQueryResponse
<1>2. SimFix(top, IF stamped THEN stamp ELSE Unset)
  BY DEF OnQueryResponse
<1>3. CASE stamped
  <2>1. stamp # Unset /\ stamp \in Int
    BY SeedAssumption DEF Times
  <2>2. prevSim' = [x |-> top, at |-> stamp]
    BY <1>2, <1>3, <2>1 DEF SimFix
  <2>3. prevSim' # Unset /\ prevSim'.x = top
    BY <2>1, <2>2, SeedAssumption
  <2> QED
    BY <1>1, <2>3 DEF SimFixIsTop
<1>4. CASE ~stamped
  BY <1>2, <1>4 DEF SimFix, SimFixIsTop
<1> QED
  BY <1>3, <1>4

LEMMA StepSimFixIsTop == SeedInv /\ [Next]_vars => SeedInv'
<1> SUFFICES ASSUME SeedInv, [Next]_vars PROVE SeedInv'
  OBVIOUS
<1> USE DEF SeedInv, replyVars, issueVars, publishVars
<1>1. ASSUME UNCHANGED <<now, candidates, prevSim, simVelocity>> PROVE SeedInv'
  BY <1>1 DEF SimFixIsTop
<1>2. CASE Advance
  <2>1. now' \in Times
    BY <1>2, SeedAssumption DEF Advance, Times
  <2> QED
    BY <1>2, <2>1 DEF Advance, SimFixIsTop
<1>3. ASSUME NEW x \in Positions, OnPose(x) PROVE SeedInv'
  BY <1>1, <1>3 DEF OnPose
<1>4. CASE OnUntrustedPose
  BY <1>1, <1>4 DEF OnUntrustedPose
<1>5. CASE IssueQuery
  BY <1>1, <1>5 DEF IssueQuery
<1>6. CASE OnEmptyResponse
  BY <1>6 DEF OnEmptyResponse, SimFixIsTop
<1>7. CASE OnFailedCall
  BY <1>1, <1>7 DEF OnFailedCall
<1>8. ASSUME NEW top \in Positions, NEW stamp \in Most(0, now - MaxScanAge) .. now, NEW r \in Replies,
             OnQueryResponse(top, stamp, r[1], r[2])
      PROVE  SeedInv'
  <2>1. stamp \in Times
    BY <1>8, SeedAssumption DEF Times, Most
  <2> QED
    BY <1>8, <2>1, AnsweredIsTop DEF OnQueryResponse
<1>9. ASSUME NEW front \in BOOLEAN, NEW registered \in BOOLEAN, NEW latest,
             PublishReset(front, registered, latest)
      PROVE  SeedInv'
  BY <1>1, <1>9 DEF PublishReset
<1>10. CASE EndAttempt
  BY <1>1, <1>10 DEF EndAttempt
<1>11. CASE ClearWallSeedMotionHistory
  BY <1>1, <1>11 DEF ClearWallSeedMotionHistory
<1>12. CASE UNCHANGED vars
  BY <1>1, <1>12 DEF vars
<1> QED
  BY <1>2, <1>3, <1>4, <1>5, <1>6, <1>7, <1>8, <1>9, <1>10, <1>11, <1>12 DEF Next

(* However many replies are late, empty or fail, and across the ends of      *)
(* episodes: a velocity of the bag's clock ends at the fix on top of the     *)
(* candidates that are published.                                            *)
THEOREM AlwaysSimFixIsTop ==
  LocalizationSpec => []SimFixIsTop
<1>1. Init => SeedInv
  BY SeedAssumption DEF Init, SeedInv, SimFixIsTop, Times
<1>2. SeedInv => SimFixIsTop
  BY DEF SeedInv
<1> QED
  BY <1>1, <1>2, PartsInit, PartsStep, StepSimFixIsTop, PTL DEF LocalizationSpec

-----------------------------------------------------------------------------
(* The localizer's broadcast pose for every corridor, every threshold and    *)
(* every share the filters may take of a step: whatever registration returns,*)
(* smoothing never leaves the matches of the present lock.                   *)

Whereabouts ==
    /\ pose \in Corridor /\ published \in Corridor /\ filter \in Corridor
    /\ matches \subseteq Corridor

(* PublishedWithinMatches is inductive once poses are known to be numbers.   *)
TracksInv == Whereabouts /\ Tracks!PublishedWithinMatches

-----------------------------------------------------------------------------

(* What lies between two positions is not beyond either.                     *)
LEMMA BetweenTwo ==
  ASSUME Corridor \subseteq Int, NEW a \in Corridor, NEW b \in Corridor, NEW x \in Tracks!Between(a, b)
  PROVE  x \in Corridor /\ ((a <= x /\ x <= b) \/ (b <= x /\ x <= a))
<1>1. a \in Int /\ b \in Int /\ x \in Corridor
  BY DEF Tracks!Between
<1> DEFINE least == Tracks!Min({a, b})
           most == Tracks!Max({a, b})
<1>0. least <= x /\ x <= most
  BY DEF Tracks!Between
<1>2. CASE a <= b
  <2>1. least = a /\ most = b
    BY <1>1, <1>2 DEF Tracks!Min, Tracks!Max
  <2> QED
    BY <1>0, <1>1, <2>1
<1>3. CASE b < a
  <2>1. least = b /\ most = a
    BY <1>1, <1>3 DEF Tracks!Min, Tracks!Max
  <2> QED
    BY <1>0, <1>1, <2>1
<1> QED
  BY <1>1, <1>2, <1>3

(* A registration returns a position, also when it hands its start back.     *)
LEMMA MatchIsPosition ==
  ASSUME NEW start \in Corridor, NEW m \in Tracks!GlobalMatches(start) \cup Tracks!TrackMatches(start)
  PROVE  m.T \in Corridor
<1>1. \A n \in Tracks!Matches : n.T \in Corridor
  BY DEF Tracks!Matches
<1>2. \A at \in Corridor : Tracks!NoMatch(at).T = at
  BY DEF Tracks!NoMatch, Tracks!Match
<1>3. \A n \in Tracks!YawSeeded(start) : n.T \in Corridor
  BY <1>1, <1>2 DEF Tracks!YawSeeded
<1> QED
  BY <1>1, <1>2, <1>3 DEF Tracks!GlobalMatches, Tracks!TrackMatches, Tracks!Cascaded

(* A lock is within the matches it starts.                                   *)
LEMMA LockWithin ==
  ASSUME Corridor \subseteq Int, NEW T \in Corridor, Tracks!Lock(T)
  PROVE  TracksInv'
BY DEF Tracks!Lock, TracksInv, Whereabouts, Tracks!PublishedWithinMatches

(* A smoothed step towards one more match stays within the matches.          *)
LEMMA SmoothedWithin ==
  ASSUME Corridor \subseteq Int, TracksInv, initialized,
         NEW m, m.T \in Corridor,
         pose' = m.T, Tracks!Smoothed(m), matches' = matches \cup {m.T}
  PROVE  TracksInv'
<1>1. /\ pose' \in matches' /\ pose' \in Corridor /\ matches' \subseteq Corridor
  BY DEF TracksInv, Whereabouts
<1>2. PICK low \in matches, high \in matches : low <= filter /\ filter <= high
  BY DEF TracksInv, Tracks!PublishedWithinMatches
<1>3. CASE m.fit >= ConfidenceTh
  <2>1. filter' \in Tracks!Between(filter, m.T) /\ published' = filter'
    BY <1>3 DEF Tracks!Smoothed
  <2>2. /\ filter' \in Corridor
        /\ (filter <= filter' /\ filter' <= m.T) \/ (m.T <= filter' /\ filter' <= filter)
    BY <2>1, BetweenTwo DEF TracksInv, Whereabouts
  <2>3. low \in Int /\ high \in Int /\ filter \in Int /\ m.T \in Int /\ filter' \in Int
    BY <2>2 DEF TracksInv, Whereabouts
  <2>4. \E l, h \in matches' : l <= filter' /\ filter' <= h
    <3>1. CASE filter <= filter' /\ filter' <= m.T
      BY <1>2, <2>3, <3>1
    <3>2. CASE m.T <= filter' /\ filter' <= filter
      BY <1>2, <2>3, <3>2
    <3> QED
      BY <2>2, <3>1, <3>2
  <2> QED
    BY <1>1, <2>1, <2>2, <2>4 DEF TracksInv, Whereabouts, Tracks!PublishedWithinMatches
<1>4. CASE ~(m.fit >= ConfidenceTh)
  <2>1. UNCHANGED <<filter, published>>
    BY <1>4 DEF Tracks!Smoothed
  <2> QED
    BY <1>1, <2>1 DEF TracksInv, Whereabouts, Tracks!PublishedWithinMatches
<1> QED
  BY <1>3, <1>4

-----------------------------------------------------------------------------

LEMMA TracksInit ==
  ASSUME Hint \in Corridor
  PROVE  Tracks!Init => TracksInv
BY DEF Tracks!Init, TracksInv, Whereabouts, Tracks!PublishedWithinMatches

LEMMA TracksStep ==
  ASSUME Corridor \subseteq Int, Hint \in Corridor
  PROVE  TracksInv /\ [Tracks!Next]_(Tracks!vars) => TracksInv'
<1> SUFFICES ASSUME TracksInv, [Tracks!Next]_(Tracks!vars) PROVE TracksInv'
  OBVIOUS
<1> USE DEF Tracks!tracking
<1>1. ASSUME UNCHANGED <<Tracks!tracking, matches>> PROVE TracksInv'
  BY <1>1 DEF TracksInv, Whereabouts, Tracks!PublishedWithinMatches
<1>2. ASSUME NEW size, Tracks!CloudCb(size) PROVE TracksInv'
  BY <1>1, <1>2 DEF Tracks!CloudCb
<1>3. ASSUME NEW v, Tracks!OdomCb(v) PROVE TracksInv'
  BY <1>1, <1>3 DEF Tracks!OdomCb
<1>4. CASE Tracks!LocalizeFrozen
  BY <1>1, <1>4 DEF Tracks!LocalizeFrozen
<1>5. CASE Tracks!GravityOnly
  BY <1>1, <1>5 DEF Tracks!GravityOnly
<1>6. CASE Tracks!FirstLocalize
  <2>1. PICK m \in Tracks!GlobalMatches(pose) :
          \/ Tracks!GoodStart(m) /\ Tracks!Lock(m.T) /\ initialized' = TRUE
          \/ /\ ~Tracks!GoodStart(m)
             /\ published' = m.T
             /\ UNCHANGED <<pose, filter, initialized, lost, settle, centre, matches>>
    BY <1>6 DEF Tracks!FirstLocalize
  <2>2. m.T \in Corridor /\ ~initialized
    BY <1>6, MatchIsPosition DEF Tracks!FirstLocalize, TracksInv, Whereabouts
  <2>3. CASE Tracks!Lock(m.T)
    BY <2>2, <2>3, LockWithin
  <2>4. CASE published' = m.T /\ UNCHANGED <<pose, filter, initialized, lost, settle, centre, matches>>
    BY <2>2, <2>4 DEF TracksInv, Whereabouts, Tracks!PublishedWithinMatches
  <2> QED
    BY <2>1, <2>3, <2>4
<1>7. CASE Tracks!TrackAccepted
  <2>1. PICK m \in Tracks!TrackMatches(pose) :
          pose' = m.T /\ Tracks!Smoothed(m) /\ matches' = matches \cup {m.T}
    BY <1>7 DEF Tracks!TrackAccepted
  <2>2. m.T \in Corridor /\ initialized
    BY <1>7, MatchIsPosition DEF Tracks!TrackAccepted, TracksInv, Whereabouts
  <2> QED
    BY <2>1, <2>2, SmoothedWithin
<1>8. CASE Tracks!TrackRejected
  BY <1>8 DEF Tracks!TrackRejected, TracksInv, Whereabouts, Tracks!PublishedWithinMatches
<1>9. CASE Tracks!TrackRelocalized
  <2>1. PICK m \in Tracks!GlobalMatches(pose) :
          Tracks!Lock(m.T) \/ UNCHANGED <<pose, published, filter, centre, matches>>
    BY <1>9 DEF Tracks!TrackRelocalized
  <2>2. m.T \in Corridor /\ UNCHANGED initialized
    BY <1>9, MatchIsPosition DEF Tracks!TrackRelocalized, TracksInv, Whereabouts
  <2>3. CASE Tracks!Lock(m.T)
    BY <2>2, <2>3, LockWithin
  <2>4. CASE UNCHANGED <<pose, published, filter, centre, matches>>
    BY <2>2, <2>4 DEF TracksInv, Whereabouts, Tracks!PublishedWithinMatches
  <2> QED
    BY <2>1, <2>3, <2>4
<1>10. CASE UNCHANGED Tracks!vars
  BY <1>1, <1>10 DEF Tracks!vars
<1> QED
  BY <1>2, <1>3, <1>4, <1>5, <1>6, <1>7, <1>8, <1>9, <1>10 DEF Tracks!Next

(* Wherever the corridor is and whatever the thresholds are: between two     *)
(* locks the broadcast transform and the filters stay within what was        *)
(* matched since the first of them, also through rejected scans.             *)
THEOREM AlwaysWithinMatches ==
  ASSUME Corridor \subseteq Int, Hint \in Corridor
  PROVE  LocalizationSpec => []PublishedWithinMatches
<1>1. Tracks!Init => TracksInv
  BY TracksInit
<1>2. TracksInv /\ [Tracks!Next]_(Tracks!vars) => TracksInv'
  BY TracksStep
<1>3. TracksInv => PublishedWithinMatches
  BY DEF TracksInv, PublishedWithinMatches
<1> QED
  BY <1>1, <1>2, <1>3, PartsInit, PartsStep, PTL DEF LocalizationSpec

-----------------------------------------------------------------------------
(* Types.                                                                    *)

LEMMA LeastOfTwo ==
  ASSUME NEW a \in Int, NEW b \in Int
  PROVE  /\ Tracks!Min({a, b}) \in {a, b} /\ Tracks!Min({a, b}) <= a /\ Tracks!Min({a, b}) <= b
         /\ Tracks!Max({a, b}) \in {a, b} /\ Tracks!Max({a, b}) >= a /\ Tracks!Max({a, b}) >= b
<1>1. CASE a <= b
  BY <1>1 DEF Tracks!Min, Tracks!Max
<1>2. CASE b < a
  BY <1>2 DEF Tracks!Min, Tracks!Max
<1> QED
  BY <1>1, <1>2

(* A lock keeps the types.                                                   *)
LEMMA LockType ==
  ASSUME SettleTicks \in Nat, RelocalizeAfter \in Nat, Tracks!TypeOK, NEW T \in Corridor, Tracks!Lock(T)
  PROVE  /\ {pose', published', filter'} \subseteq Corridor
         /\ centre' \in Corridor \cup {Nowhere}
         /\ lost' \in 0 .. RelocalizeAfter /\ settle' \in 0 .. SettleTicks
         /\ matches' \subseteq Corridor
BY DEF Tracks!Lock, Tracks!Rebuilt, Tracks!TypeOK

(* The counters of losses and of grace stay in their ranges.                 *)
LEMMA CountersType ==
  ASSUME SettleTicks \in Nat, RelocalizeAfter \in Nat, Tracks!TypeOK
  PROVE  /\ Tracks!Lost \in 0 .. RelocalizeAfter
         /\ Tracks!Max({settle - 1, 0}) \in 0 .. SettleTicks
<1>1. lost \in Nat /\ settle \in Nat /\ settle <= SettleTicks
  BY DEF Tracks!TypeOK
<1>2. /\ Tracks!Min({lost + 1, RelocalizeAfter}) \in {lost + 1, RelocalizeAfter}
      /\ Tracks!Min({lost + 1, RelocalizeAfter}) <= RelocalizeAfter
  <2>1. lost + 1 \in Int /\ RelocalizeAfter \in Int
    BY <1>1
  <2> QED
    BY <2>1, LeastOfTwo
<1>3. Tracks!Max({settle - 1, 0}) \in {settle - 1, 0} /\ Tracks!Max({settle - 1, 0}) >= 0
  <2>1. settle - 1 \in Int /\ 0 \in Int
    BY <1>1
  <2> QED
    BY <2>1, LeastOfTwo
<1>4. Tracks!Lost \in 0 .. RelocalizeAfter
  BY <1>1, <1>2 DEF Tracks!Lost
<1>5. Tracks!Max({settle - 1, 0}) \in 0 .. SettleTicks
  BY <1>1, <1>3
<1> QED
  BY <1>4, <1>5

LEMMA TracksStepType ==
  ASSUME Corridor \subseteq Int, SettleTicks \in Nat, RelocalizeAfter \in Nat, RobotSpeed \in Nat
  PROVE  Tracks!TypeOK /\ [Tracks!Next]_(Tracks!vars) => Tracks!TypeOK'
<1> SUFFICES ASSUME Tracks!TypeOK, [Tracks!Next]_(Tracks!vars) PROVE Tracks!TypeOK'
  OBVIOUS
<1> USE DEF Tracks!tracking, Tracks!output
<1>1. ASSUME NEW size \in {"few", "scan"}, Tracks!CloudCb(size) PROVE Tracks!TypeOK'
  BY <1>1 DEF Tracks!CloudCb, Tracks!TypeOK
<1>2. ASSUME NEW v \in 0 .. RobotSpeed, Tracks!OdomCb(v) PROVE Tracks!TypeOK'
  BY <1>2 DEF Tracks!OdomCb, Tracks!TypeOK
<1>3. CASE Tracks!LocalizeFrozen
  BY <1>3 DEF Tracks!LocalizeFrozen, Tracks!inputs, Tracks!TypeOK
<1>4. CASE Tracks!GravityOnly
  BY <1>4 DEF Tracks!GravityOnly, Tracks!TypeOK
<1>5. ASSUME Tracks!ScanReady PROVE /\ freeze' = freeze /\ moved' = moved /\ gravity' = TRUE
                             /\ frozen' = frozen /\ speed' = speed /\ cloud' = cloud
                             /\ latched' = latched
  BY <1>5 DEF Tracks!ScanReady
<1>6. CASE Tracks!FirstLocalize
  <2>1. PICK m \in Tracks!GlobalMatches(pose) :
          \/ Tracks!GoodStart(m) /\ Tracks!Lock(m.T) /\ initialized' = TRUE
          \/ /\ ~Tracks!GoodStart(m)
             /\ published' = m.T
             /\ UNCHANGED <<pose, filter, initialized, lost, settle, centre, matches>>
    BY <1>6 DEF Tracks!FirstLocalize
  <2>2. m.T \in Corridor /\ sent' = published'
    BY <1>6, MatchIsPosition DEF Tracks!FirstLocalize, Tracks!TypeOK
  <2>3. CASE Tracks!Lock(m.T) /\ initialized' = TRUE
    BY <1>5, <1>6, <2>2, <2>3, LockType DEF Tracks!FirstLocalize, Tracks!TypeOK
  <2>4. CASE published' = m.T /\ UNCHANGED <<pose, filter, initialized, lost, settle, centre, matches>>
    BY <1>5, <1>6, <2>2, <2>4 DEF Tracks!FirstLocalize, Tracks!TypeOK
  <2> QED
    BY <2>1, <2>3, <2>4
<1>7. CASE Tracks!TrackAccepted
  <2>1. PICK m \in Tracks!TrackMatches(pose) :
          /\ pose' = m.T /\ Tracks!Smoothed(m) /\ matches' = matches \cup {m.T}
          /\ centre' = IF centre = Nowhere \/ Tracks!Dist(m.T, centre) > DisUpdateMap
                       THEN Tracks!Rebuilt(m.T) ELSE centre
    BY <1>7 DEF Tracks!TrackAccepted
  <2>2. m.T \in Corridor
    BY MatchIsPosition DEF Tracks!TypeOK
  <2>3. {filter', published'} \subseteq Corridor
    BY <2>1 DEF Tracks!Smoothed, Tracks!Between, Tracks!TypeOK
  <2>4. centre' \in Corridor \cup {Nowhere}
    BY <2>1, <2>2 DEF Tracks!Rebuilt, Tracks!TypeOK
  <2>5. /\ Tracks!ScanReady /\ lost' = 0 /\ settle' \in 0 .. SettleTicks
        /\ sent' = published' /\ initialized' = initialized
    BY <1>7, CountersType DEF Tracks!TrackAccepted
  <2>6. {freeze', initialized', moved', gravity', frozen'} \subseteq BOOLEAN
    BY <1>5, <2>5 DEF Tracks!TypeOK
  <2>7. {pose', published', filter'} \subseteq Corridor /\ matches' \subseteq Corridor
    BY <2>1, <2>2, <2>3 DEF Tracks!TypeOK
  <2>8. {centre', sent', latched'} \subseteq Corridor \cup {Nowhere}
    BY <1>5, <2>4, <2>5, <2>7 DEF Tracks!TypeOK
  <2> QED
    BY <1>5, <2>5, <2>6, <2>7, <2>8 DEF Tracks!TypeOK
<1>8. CASE Tracks!TrackRejected
  BY <1>5, <1>8, CountersType DEF Tracks!TrackRejected, Tracks!TypeOK
<1>9. CASE Tracks!TrackRelocalized
  <2>1. PICK m \in Tracks!GlobalMatches(pose) :
          \/ Tracks!Lock(m.T)
          \/ /\ lost' = Tracks!Lost /\ settle' = Tracks!Max({settle - 1, 0})
             /\ UNCHANGED <<pose, published, filter, centre, matches>>
    BY <1>9 DEF Tracks!TrackRelocalized
  <2>2. m.T \in Corridor /\ Tracks!ScanReady /\ sent' = published' /\ UNCHANGED initialized
    BY <1>9, MatchIsPosition DEF Tracks!TrackRelocalized, Tracks!TypeOK
  <2>3. CASE Tracks!Lock(m.T)
    BY <1>5, <2>2, <2>3, LockType DEF Tracks!TypeOK
  <2>4. CASE /\ lost' = Tracks!Lost /\ settle' = Tracks!Max({settle - 1, 0})
             /\ UNCHANGED <<pose, published, filter, centre, matches>>
    BY <1>5, <2>2, <2>4, CountersType DEF Tracks!TypeOK
  <2> QED
    BY <2>1, <2>3, <2>4
<1>10. CASE UNCHANGED Tracks!vars
  BY <1>10 DEF Tracks!vars, Tracks!inputs, Tracks!TypeOK
<1> QED
  BY <1>1, <1>2, <1>3, <1>4, <1>6, <1>7, <1>8, <1>9, <1>10 DEF Tracks!Next

(* Type correctness of the localizer.                                        *)
THEOREM TracksTypeCorrect ==
  ASSUME Corridor \subseteq Int, Hint \in Corridor,
         SettleTicks \in Nat, RelocalizeAfter \in Nat, RobotSpeed \in Nat
  PROVE  Tracks!Spec => []Tracks!TypeOK
<1>1. Tracks!Init => Tracks!TypeOK
  <2> SUFFICES ASSUME Tracks!Init PROVE Tracks!TypeOK
    OBVIOUS
  <2>1. {freeze, initialized, moved, gravity, frozen} \subseteq BOOLEAN
    BY DEF Tracks!Init
  <2>2. {pose, published, filter} \subseteq Corridor /\ matches \subseteq Corridor
    BY DEF Tracks!Init
  <2>3. lost \in 0 .. RelocalizeAfter /\ settle \in 0 .. SettleTicks /\ speed \in 0 .. RobotSpeed
    BY DEF Tracks!Init
  <2> QED
    BY <2>1, <2>2, <2>3 DEF Tracks!Init, Tracks!TypeOK
<1>2. Tracks!TypeOK /\ [Tracks!Next]_(Tracks!vars) => Tracks!TypeOK'
  BY TracksStepType
<1> QED
  BY <1>1, <1>2, PTL DEF Tracks!Spec

-----------------------------------------------------------------------------
(* The frames of the odometry nodes, for all poses, velocities and losses.   *)

Planar == [x : Int, y : Int, yaw : 0 .. 3]

-----------------------------------------------------------------------------
(* Quarter turns.                                                            *)

(* What a turn and a turn back do to a vector.                               *)
There(k, x, y) == CASE k = 0 -> <<x, y>> [] k = 1 -> <<-y, x>> [] k = 2 -> <<-x, -y>> [] k = 3 -> <<y, -x>>
Back(k, x, y) == CASE k = 0 -> <<x, y>> [] k = 1 -> <<y, -x>> [] k = 2 -> <<-x, -y>> [] k = 3 -> <<-y, x>>

LEMMA QuarterTurns ==
  ASSUME NEW k \in 0 .. 3
  PROVE  /\ k = 0 => Odometry!Cos(k) = 1 /\ Odometry!Sin(k) = 0
         /\ k = 1 => Odometry!Cos(k) = 0 /\ Odometry!Sin(k) = 1
         /\ k = 2 => Odometry!Cos(k) = -1 /\ Odometry!Sin(k) = 0
         /\ k = 3 => Odometry!Cos(k) = 0 /\ Odometry!Sin(k) = -1
<1>1. k % 4 = k
  OBVIOUS
<1> QED
  BY <1>1 DEF Odometry!Cos, Odometry!Sin

LEMMA TurnsBack ==
  ASSUME NEW k \in 0 .. 3
  PROVE  Odometry!Cos(-k) = Odometry!Cos(k) /\ Odometry!Sin(-k) = -Odometry!Sin(k)
<1>1. /\ (-k) % 4 = IF k = 0 THEN 0 ELSE 4 - k
      /\ k % 4 = k
  OBVIOUS
<1> DEFINE j == (-k) % 4
<1>2. /\ j \in 0 .. 3
      /\ k = 0 => j = 0
      /\ k = 1 => j = 3
      /\ k = 2 => j = 2
      /\ k = 3 => j = 1
  BY <1>1
<1>3. Odometry!Cos(-k) = <<1, 0, -1, 0>>[j + 1] /\ Odometry!Sin(-k) = <<0, 1, 0, -1>>[j + 1]
  BY DEF Odometry!Cos, Odometry!Sin
<1> HIDE DEF j
<1> QED
  BY <1>2, <1>3, QuarterTurns

LEMMA TurnedIsThere ==
  ASSUME NEW k \in 0 .. 3, NEW x \in Int, NEW y \in Int
  PROVE  Odometry!Turned(x, y, k) = [x |-> There(k, x, y)[1], y |-> There(k, x, y)[2]]
<1>1. CASE k = 0
  BY <1>1, QuarterTurns DEF Odometry!Turned, There
<1>2. CASE k = 1
  BY <1>2, QuarterTurns DEF Odometry!Turned, There
<1>3. CASE k = 2
  BY <1>3, QuarterTurns DEF Odometry!Turned, There
<1>4. CASE k = 3
  BY <1>4, QuarterTurns DEF Odometry!Turned, There
<1> QED
  BY <1>1, <1>2, <1>3, <1>4

LEMMA SeenIsBack ==
  ASSUME NEW p \in Planar, NEW q \in Planar
  PROVE  Odometry!Seen(p, q) = <<Back(p.yaw, q.x - p.x, q.y - p.y)[1], Back(p.yaw, q.x - p.x, q.y - p.y)[2],
                        (q.yaw - p.yaw) % 4>>
<1>0. p.yaw \in 0 .. 3 /\ p.x \in Int /\ p.y \in Int /\ q.x \in Int /\ q.y \in Int
  BY DEF Planar
<1>1. CASE p.yaw = 0
  BY <1>0, <1>1, QuarterTurns DEF Odometry!Seen, Back
<1>2. CASE p.yaw = 1
  BY <1>0, <1>2, QuarterTurns DEF Odometry!Seen, Back
<1>3. CASE p.yaw = 2
  BY <1>0, <1>3, QuarterTurns DEF Odometry!Seen, Back
<1>4. CASE p.yaw = 3
  BY <1>0, <1>4, QuarterTurns DEF Odometry!Seen, Back
<1> QED
  BY <1>0, <1>1, <1>2, <1>3, <1>4

LEMMA InverseIsBack ==
  ASSUME NEW p \in Planar
  PROVE  Odometry!inverse_planar_transform(p) =
           Odometry!Pose(-Back(p.yaw, p.x, p.y)[1], -Back(p.yaw, p.x, p.y)[2], -p.yaw)
<1>0. p.yaw \in 0 .. 3 /\ p.x \in Int /\ p.y \in Int
  BY DEF Planar
<1>1. CASE p.yaw = 0
  BY <1>0, <1>1, QuarterTurns DEF Odometry!inverse_planar_transform, Back
<1>2. CASE p.yaw = 1
  BY <1>0, <1>2, QuarterTurns DEF Odometry!inverse_planar_transform, Back
<1>3. CASE p.yaw = 2
  BY <1>0, <1>3, QuarterTurns DEF Odometry!inverse_planar_transform, Back
<1>4. CASE p.yaw = 3
  BY <1>0, <1>4, QuarterTurns DEF Odometry!inverse_planar_transform, Back
<1> QED
  BY <1>0, <1>1, <1>2, <1>3, <1>4

LEMMA PoseIsPlanar ==
  ASSUME NEW x \in Int, NEW y \in Int, NEW yaw \in Int
  PROVE  /\ Odometry!Pose(x, y, yaw) \in Planar
         /\ Odometry!Pose(x, y, yaw).x = x /\ Odometry!Pose(x, y, yaw).y = y
         /\ Odometry!Pose(x, y, yaw).yaw = yaw % 4
<1>1. yaw % 4 \in 0 .. 3
  OBVIOUS
<1> QED
  BY <1>1 DEF Odometry!Pose, Planar

LEMMA TurnType ==
  ASSUME NEW k \in 0 .. 3, NEW x \in Int, NEW y \in Int
  PROVE  /\ There(k, x, y)[1] \in Int /\ There(k, x, y)[2] \in Int
         /\ Back(k, x, y)[1] \in Int /\ Back(k, x, y)[2] \in Int
<1>1. CASE k = 0
  BY <1>1 DEF There, Back
<1>2. CASE k = 1
  BY <1>2 DEF There, Back
<1>3. CASE k = 2
  BY <1>3 DEF There, Back
<1>4. CASE k = 3
  BY <1>4 DEF There, Back
<1> QED
  BY <1>1, <1>2, <1>3, <1>4

LEMMA ComposeType ==
  ASSUME NEW a \in Planar, NEW b \in Planar
  PROVE  /\ Odometry!compose_planar_transforms(a, b) =
              Odometry!Pose(a.x + There(a.yaw, b.x, b.y)[1], a.y + There(a.yaw, b.x, b.y)[2], a.yaw + b.yaw)
         /\ Odometry!compose_planar_transforms(a, b) \in Planar
<1>1. a.yaw \in 0 .. 3 /\ a.x \in Int /\ a.y \in Int /\ b.x \in Int /\ b.y \in Int /\ b.yaw \in 0 .. 3
  BY DEF Planar
<1>2. Odometry!compose_planar_transforms(a, b) =
        Odometry!Pose(a.x + There(a.yaw, b.x, b.y)[1], a.y + There(a.yaw, b.x, b.y)[2], a.yaw + b.yaw)
  <2>1. Odometry!Turned(b.x, b.y, a.yaw) = [x |-> There(a.yaw, b.x, b.y)[1], y |-> There(a.yaw, b.x, b.y)[2]]
    BY <1>1, TurnedIsThere
  <2> QED
    BY <2>1 DEF Odometry!compose_planar_transforms
<1>3. /\ a.x + There(a.yaw, b.x, b.y)[1] \in Int /\ a.y + There(a.yaw, b.x, b.y)[2] \in Int
      /\ a.yaw + b.yaw \in Int
  <2>1. There(a.yaw, b.x, b.y)[1] \in Int /\ There(a.yaw, b.x, b.y)[2] \in Int
    BY <1>1, TurnType
  <2> QED
    BY <1>1, <2>1
<1> QED
  BY <1>2, <1>3, PoseIsPlanar

LEMMA InverseType ==
  ASSUME NEW p \in Planar
  PROVE  Odometry!inverse_planar_transform(p) \in Planar
<1>1. p.yaw \in 0 .. 3 /\ p.x \in Int /\ p.y \in Int
  BY DEF Planar
<1>2. -Back(p.yaw, p.x, p.y)[1] \in Int /\ -Back(p.yaw, p.x, p.y)[2] \in Int /\ -p.yaw \in Int
  <2>1. Back(p.yaw, p.x, p.y)[1] \in Int /\ Back(p.yaw, p.x, p.y)[2] \in Int
    BY <1>1, TurnType
  <2> QED
    BY <1>1, <2>1
<1>3. Odometry!Pose(-Back(p.yaw, p.x, p.y)[1], -Back(p.yaw, p.x, p.y)[2], -p.yaw) \in Planar
  BY <1>2, PoseIsPlanar
<1> QED
  BY <1>3, InverseIsBack

(* Headings: from i to where l is after i was put on f.                      *)
LEMMA HeadingPreserved ==
  ASSUME NEW i \in 0 .. 3, NEW f \in 0 .. 3, NEW l \in 0 .. 3
  PROVE  (((((i + ((-f) % 4)) % 4) + l) % 4) - i) % 4 = (l - f) % 4
OBVIOUS

(* From i, the place of f, to the place of l is as from f to l.              *)
LEMMA MotionThroughFrame ==
  ASSUME NEW i \in Planar, NEW f \in Planar, NEW l \in Planar
  PROVE  LET frame == Odometry!compose_planar_transforms(i, Odometry!inverse_planar_transform(f))
         IN Odometry!Seen(i, Odometry!compose_planar_transforms(frame, l)) = Odometry!Seen(f, l)
<1> DEFINE n == Odometry!inverse_planar_transform(f)
           m == Odometry!compose_planar_transforms(i, n)
           q == Odometry!compose_planar_transforms(m, l)
<1>1. n \in Planar /\ m \in Planar /\ q \in Planar
  BY InverseType, ComposeType
<1>2. /\ i.yaw \in 0 .. 3 /\ i.x \in Int /\ i.y \in Int
      /\ f.yaw \in 0 .. 3 /\ f.x \in Int /\ f.y \in Int
      /\ l.yaw \in 0 .. 3 /\ l.x \in Int /\ l.y \in Int
      /\ n.yaw \in 0 .. 3 /\ n.x \in Int /\ n.y \in Int
      /\ m.yaw \in 0 .. 3 /\ m.x \in Int /\ m.y \in Int
  BY <1>1 DEF Planar
<1>3. n.x = -Back(f.yaw, f.x, f.y)[1] /\ n.y = -Back(f.yaw, f.x, f.y)[2] /\ n.yaw = (-f.yaw) % 4
  BY InverseIsBack DEF Odometry!Pose
<1>4. /\ m.x = i.x + There(i.yaw, n.x, n.y)[1] /\ m.y = i.y + There(i.yaw, n.x, n.y)[2]
      /\ m.yaw = (i.yaw + n.yaw) % 4
  <2>1. m = Odometry!Pose(i.x + There(i.yaw, n.x, n.y)[1], i.y + There(i.yaw, n.x, n.y)[2], i.yaw + n.yaw)
    BY <1>1, ComposeType
  <2> QED
    BY <2>1 DEF Odometry!Pose
<1>5. /\ q.x = m.x + There(m.yaw, l.x, l.y)[1] /\ q.y = m.y + There(m.yaw, l.x, l.y)[2]
      /\ q.yaw = (m.yaw + l.yaw) % 4
  <2>1. q = Odometry!Pose(m.x + There(m.yaw, l.x, l.y)[1], m.y + There(m.yaw, l.x, l.y)[2], m.yaw + l.yaw)
    BY <1>1, ComposeType
  <2> QED
    BY <2>1 DEF Odometry!Pose
<1> HIDE DEF n, m, q
<1>6. (q.yaw - i.yaw) % 4 = (l.yaw - f.yaw) % 4
  BY <1>2, <1>3, <1>4, <1>5, HeadingPreserved
<1>7. /\ Back(i.yaw, q.x - i.x, q.y - i.y)[1] = Back(f.yaw, l.x - f.x, l.y - f.y)[1]
      /\ Back(i.yaw, q.x - i.x, q.y - i.y)[2] = Back(f.yaw, l.x - f.x, l.y - f.y)[2]
  \* turning by i's heading after f's back, then back by i's, is turning back by f's
  <2>5. i.yaw = 0 \/ i.yaw = 1 \/ i.yaw = 2 \/ i.yaw = 3
    BY <1>2
  <2>6. f.yaw = 0 \/ f.yaw = 1 \/ f.yaw = 2 \/ f.yaw = 3
    BY <1>2
  <2>1. CASE f.yaw = 0
    <3>1. n.x = -f.x /\ n.y = -f.y /\ m.yaw = i.yaw
      BY <1>2, <1>3, <1>4, <2>1 DEF There, Back
    <3>2. CASE i.yaw = 0
      BY <1>2, <1>4, <1>5, <2>1, <3>1, <3>2 DEF There, Back
    <3>3. CASE i.yaw = 1
      BY <1>2, <1>4, <1>5, <2>1, <3>1, <3>3 DEF There, Back
    <3>4. CASE i.yaw = 2
      BY <1>2, <1>4, <1>5, <2>1, <3>1, <3>4 DEF There, Back
    <3>5. CASE i.yaw = 3
      BY <1>2, <1>4, <1>5, <2>1, <3>1, <3>5 DEF There, Back
    <3> QED
      BY <2>5, <3>2, <3>3, <3>4, <3>5
  <2>2. CASE f.yaw = 1
    <3>1. n.x = -f.y /\ n.y = f.x /\ m.yaw = (i.yaw + 3) % 4
      BY <1>2, <1>3, <1>4, <2>2 DEF There, Back
    <3>2. CASE i.yaw = 0
      BY <1>2, <1>4, <1>5, <2>2, <3>1, <3>2 DEF There, Back
    <3>3. CASE i.yaw = 1
      BY <1>2, <1>4, <1>5, <2>2, <3>1, <3>3 DEF There, Back
    <3>4. CASE i.yaw = 2
      BY <1>2, <1>4, <1>5, <2>2, <3>1, <3>4 DEF There, Back
    <3>5. CASE i.yaw = 3
      BY <1>2, <1>4, <1>5, <2>2, <3>1, <3>5 DEF There, Back
    <3> QED
      BY <2>5, <3>2, <3>3, <3>4, <3>5
  <2>3. CASE f.yaw = 2
    <3>1. n.x = f.x /\ n.y = f.y /\ m.yaw = (i.yaw + 2) % 4
      BY <1>2, <1>3, <1>4, <2>3 DEF There, Back
    <3>2. CASE i.yaw = 0
      BY <1>2, <1>4, <1>5, <2>3, <3>1, <3>2 DEF There, Back
    <3>3. CASE i.yaw = 1
      BY <1>2, <1>4, <1>5, <2>3, <3>1, <3>3 DEF There, Back
    <3>4. CASE i.yaw = 2
      BY <1>2, <1>4, <1>5, <2>3, <3>1, <3>4 DEF There, Back
    <3>5. CASE i.yaw = 3
      BY <1>2, <1>4, <1>5, <2>3, <3>1, <3>5 DEF There, Back
    <3> QED
      BY <2>5, <3>2, <3>3, <3>4, <3>5
  <2>4. CASE f.yaw = 3
    <3>1. n.x = f.y /\ n.y = -f.x /\ m.yaw = (i.yaw + 1) % 4
      BY <1>2, <1>3, <1>4, <2>4 DEF There, Back
    <3>2. CASE i.yaw = 0
      BY <1>2, <1>4, <1>5, <2>4, <3>1, <3>2 DEF There, Back
    <3>3. CASE i.yaw = 1
      BY <1>2, <1>4, <1>5, <2>4, <3>1, <3>3 DEF There, Back
    <3>4. CASE i.yaw = 2
      BY <1>2, <1>4, <1>5, <2>4, <3>1, <3>4 DEF There, Back
    <3>5. CASE i.yaw = 3
      BY <1>2, <1>4, <1>5, <2>4, <3>1, <3>5 DEF There, Back
    <3> QED
      BY <2>5, <3>2, <3>3, <3>4, <3>5
  <2> QED
    BY <2>6, <2>1, <2>2, <2>3, <2>4
<1>8. Odometry!Seen(i, q) = <<Back(i.yaw, q.x - i.x, q.y - i.y)[1], Back(i.yaw, q.x - i.x, q.y - i.y)[2],
                     (q.yaw - i.yaw) % 4>>
  BY <1>1, SeenIsBack
<1>9. Odometry!Seen(f, l) = <<Back(f.yaw, l.x - f.x, l.y - f.y)[1], Back(f.yaw, l.x - f.x, l.y - f.y)[2],
                     (l.yaw - f.yaw) % 4>>
  BY SeenIsBack
<1>10. Odometry!Seen(i, q) = Odometry!Seen(f, l)
  BY <1>6, <1>7, <1>8, <1>9
<1> QED
  BY <1>10 DEF q, m, n

(* The odometry of the localizer's poses: what it shows is where p is seen   *)
(* from its origin a.                                                        *)
LEMMA RelativeIsSeen ==
  ASSUME NEW a \in Planar, NEW p \in Planar
  PROVE  /\ Odometry!Relative(a, p) \in Planar
         /\ Odometry!Seen(Odometry!Pose(0, 0, 0), Odometry!Relative(a, p)) = Odometry!Seen(a, p)
<1> DEFINE x == p.x - a.x
           y == p.y - a.y
           d == Odometry!Turned(x, y, -a.yaw)
<1>1. a.yaw \in 0 .. 3 /\ x \in Int /\ y \in Int /\ p.yaw \in 0 .. 3
  BY DEF Planar
<1>2. d.x = Back(a.yaw, x, y)[1] /\ d.y = Back(a.yaw, x, y)[2]
  <2> HIDE DEF x, y
  <2>1. /\ d.x = Odometry!Cos(a.yaw) * x + Odometry!Sin(a.yaw) * y
        /\ d.y = -Odometry!Sin(a.yaw) * x + Odometry!Cos(a.yaw) * y
    <3>1. Odometry!Cos(-a.yaw) = Odometry!Cos(a.yaw) /\ Odometry!Sin(-a.yaw) = -Odometry!Sin(a.yaw)
      BY <1>1, TurnsBack
    <3>2. Odometry!Cos(a.yaw) \in Int /\ Odometry!Sin(a.yaw) \in Int
      BY <1>1, QuarterTurns
    <3> QED
      BY <1>1, <3>1, <3>2 DEF Odometry!Turned
  <2>2. CASE a.yaw = 0
    BY <1>1, <2>1, <2>2, QuarterTurns DEF Back
  <2>3. CASE a.yaw = 1
    BY <1>1, <2>1, <2>3, QuarterTurns DEF Back
  <2>4. CASE a.yaw = 2
    BY <1>1, <2>1, <2>4, QuarterTurns DEF Back
  <2>5. CASE a.yaw = 3
    BY <1>1, <2>1, <2>5, QuarterTurns DEF Back
  <2> QED
    BY <1>1, <2>2, <2>3, <2>4, <2>5
<1>3. d.x \in Int /\ d.y \in Int
  BY <1>1, <1>2, TurnType
<1>4. /\ Odometry!Relative(a, p) = Odometry!Pose(d.x, d.y, p.yaw - a.yaw)
      /\ Odometry!Relative(a, p) \in Planar /\ Odometry!Relative(a, p).x = d.x /\ Odometry!Relative(a, p).y = d.y
      /\ Odometry!Relative(a, p).yaw = (p.yaw - a.yaw) % 4
  <2>1. Odometry!Relative(a, p) = Odometry!Pose(d.x, d.y, p.yaw - a.yaw)
    BY DEF Odometry!Relative
  <2>2. p.yaw - a.yaw \in Int
    BY <1>1
  <2> HIDE DEF d
  <2>3. (p.yaw - a.yaw) % 4 \in 0 .. 3
    BY <2>2
  <2>4. Odometry!Relative(a, p) = [x |-> d.x, y |-> d.y, yaw |-> (p.yaw - a.yaw) % 4]
    BY <2>1 DEF Odometry!Pose
  <2> QED
    BY <1>3, <2>1, <2>3, <2>4 DEF Planar
<1>5. /\ Odometry!Pose(0, 0, 0) \in Planar /\ Odometry!Pose(0, 0, 0).x = 0
      /\ Odometry!Pose(0, 0, 0).y = 0 /\ Odometry!Pose(0, 0, 0).yaw = 0
  BY PoseIsPlanar
<1>6. Odometry!Seen(Odometry!Pose(0, 0, 0), Odometry!Relative(a, p)) =
        <<Back(0, d.x - 0, d.y - 0)[1], Back(0, d.x - 0, d.y - 0)[2], (((p.yaw - a.yaw) % 4) - 0) % 4>>
  BY <1>4, <1>5, SeenIsBack
<1>7. Back(0, d.x - 0, d.y - 0)[1] = d.x /\ Back(0, d.x - 0, d.y - 0)[2] = d.y
  BY <1>3 DEF Back
<1>8. (((p.yaw - a.yaw) % 4) - 0) % 4 = (p.yaw - a.yaw) % 4
  BY <1>1
<1>9. Odometry!Seen(a, p) = <<Back(a.yaw, x, y)[1], Back(a.yaw, x, y)[2], (p.yaw - a.yaw) % 4>>
  BY SeenIsBack
<1> QED
  BY <1>2, <1>4, <1>6, <1>7, <1>8, <1>9

-----------------------------------------------------------------------------
(* The invariant.                                                            *)

PlanarVelocity == [x : Int, y : Int, turn : Int]

OdometryConstants ==
    /\ InitialPoses \subseteq Planar /\ PoseFixes \subseteq Planar
    /\ Twists \subseteq PlanarVelocity /\ Commands \subseteq PlanarVelocity
    /\ MaxDt \in Nat /\ MaxGap \in Nat /\ Unset \notin Planar

Types ==
    /\ initial \in Planar /\ odom \in Planar /\ wire \in Seq(Planar)
    /\ command \in PlanarVelocity /\ sinceTick \in Nat

(* What the anchoring node holds is its first and its last message.          *)
Framed ==
    \/ map_to_odom = Unset /\ mapPose = Unset /\ first = Unset
    \/ /\ first \in Planar /\ last \in Planar
       /\ map_to_odom = Odometry!compose_planar_transforms(initial, Odometry!inverse_planar_transform(first))
       /\ mapPose = Odometry!compose_planar_transforms(map_to_odom, last)

(* What the odometry of poses holds is its first and its last pose.          *)
Anchored ==
    \/ anchor = Unset /\ fix = Unset
    \/ /\ source = "localization" /\ anchor \in Planar /\ fix \in Planar
       /\ odom = Odometry!Relative(anchor, fix)

OdometryInv == Types /\ Framed /\ Anchored

LEMMA OdometryInvImplies == OdometryInv => Odometry!MotionPreserved
<1> SUFFICES ASSUME OdometryInv PROVE Odometry!MotionPreserved
  OBVIOUS
<1>1. mapPose # Unset => Odometry!Seen(initial, mapPose) = Odometry!Seen(first, last)
  BY MotionThroughFrame DEF OdometryInv, Types, Framed
<1>2. fix # Unset => Odometry!Seen(Odometry!Pose(0, 0, 0), odom) = Odometry!Seen(anchor, fix)
  BY RelativeIsSeen DEF OdometryInv, Anchored
<1> QED
  BY <1>1, <1>2 DEF Odometry!MotionPreserved

(* A step of odometry leads to a pose.                                       *)
LEMMA IntegratedType ==
  ASSUME NEW p \in Planar, NEW v \in PlanarVelocity, NEW dt \in Int
  PROVE  Odometry!Integrated(p, v, dt) \in Planar
<1>1. /\ p.x \in Int /\ p.y \in Int /\ p.yaw \in 0 .. 3
      /\ v.x * dt \in Int /\ v.y * dt \in Int /\ v.turn * dt \in Int
  BY DEF Planar, PlanarVelocity
<1> DEFINE d == Odometry!Turned(v.x * dt, v.y * dt, p.yaw)
<1>2. d.x \in Int /\ d.y \in Int
  <2>1. d = [x |-> There(p.yaw, v.x * dt, v.y * dt)[1], y |-> There(p.yaw, v.x * dt, v.y * dt)[2]]
    BY <1>1, TurnedIsThere
  <2>2. There(p.yaw, v.x * dt, v.y * dt)[1] \in Int /\ There(p.yaw, v.x * dt, v.y * dt)[2] \in Int
    BY <1>1, TurnType
  <2> QED
    BY <2>1, <2>2
<1>3. Odometry!Integrated(p, v, dt) = Odometry!Pose(p.x + d.x, p.y + d.y, p.yaw + v.turn * dt)
  BY DEF Odometry!Integrated
<1>4. p.x + d.x \in Int /\ p.y + d.y \in Int /\ p.yaw + v.turn * dt \in Int
  BY <1>1, <1>2
<1> HIDE DEF d
<1>5. Odometry!Pose(p.x + d.x, p.y + d.y, p.yaw + v.turn * dt) \in Planar
  BY <1>4, PoseIsPlanar
<1> QED
  BY <1>3, <1>5

LEMMA OdometryInit ==
  ASSUME OdometryConstants
  PROVE  Odometry!Init => OdometryInv
<1> SUFFICES ASSUME Odometry!Init PROVE OdometryInv
  OBVIOUS
<1>1. Odometry!Pose(0, 0, 0) \in Planar
  BY PoseIsPlanar
<1>2. Types
  BY <1>1 DEF Odometry!Init, Types, OdometryConstants, Odometry!Stopped, PlanarVelocity
<1>3. Framed /\ Anchored
  BY DEF Odometry!Init, Framed, Anchored
<1> QED
  BY <1>2, <1>3 DEF OdometryInv

LEMMA OdometryStep ==
  ASSUME OdometryConstants
  PROVE  OdometryInv /\ [Odometry!Next]_(Odometry!vars) => OdometryInv'
<1> SUFFICES ASSUME OdometryInv, [Odometry!Next]_(Odometry!vars) PROVE OdometryInv'
  OBVIOUS
<1> USE DEF Odometry!nodeVars, Odometry!velocityVars, Odometry!anchorVars
<1>1. ASSUME source # "localization", Odometry!Published, odom' \in Planar, UNCHANGED <<anchor, fix>>,
             command' \in PlanarVelocity, sinceTick' \in Nat
      PROVE  OdometryInv'
  <2>1. wire' \in Seq(Planar)
    BY <1>1, AppendProperties DEF Odometry!Published, OdometryInv, Types
  <2>2. Types'
    BY <1>1, <2>1 DEF Odometry!Published, OdometryInv, Types
  <2>3. Framed'
    BY <1>1 DEF Odometry!Published, OdometryInv, Framed
  <2>4. Anchored'
    BY <1>1 DEF OdometryInv, Anchored
  <2> QED
    BY <2>2, <2>3, <2>4 DEF OdometryInv
<1>2. ASSUME NEW v \in Twists, NEW dt \in -1 .. MaxGap, Odometry!TwistCallback(v, dt) PROVE OdometryInv'
  <2>1. Odometry!Least(Odometry!Most(dt, 0), MaxDt) \in Int
    BY DEF Odometry!Least, Odometry!Most, OdometryConstants
  <2>2. odom' \in Planar
    <3>1. v \in PlanarVelocity
      BY DEF OdometryConstants
    <3>2. Odometry!Integrated(odom, v, Odometry!Least(Odometry!Most(dt, 0), MaxDt)) \in Planar
      BY <2>1, <3>1, IntegratedType DEF OdometryInv, Types
    <3> QED
      BY <1>2, <3>2 DEF Odometry!TwistCallback, OdometryInv, Types
  <2>3. /\ source # "localization" /\ Odometry!Published /\ UNCHANGED <<anchor, fix>>
        /\ command' = command /\ sinceTick' = sinceTick
    BY <1>2 DEF Odometry!TwistCallback
  <2> QED
    BY <1>1, <2>2, <2>3 DEF OdometryInv, Types
<1>3. ASSUME NEW v \in Commands, Odometry!CmdVelCallback(v) PROVE OdometryInv'
  <2>1. [v EXCEPT !.y = 0] \in PlanarVelocity
    BY DEF OdometryConstants, PlanarVelocity
  <2> QED
    BY <1>3, <2>1 DEF Odometry!CmdVelCallback, OdometryInv, Types, Framed, Anchored
<1>4. ASSUME NEW p \in PoseFixes, Odometry!OnPose(p) PROVE OdometryInv'
  <2>1. p \in Planar /\ p # Unset
    BY DEF OdometryConstants
  <2>2. /\ source = "localization" /\ odom' = Odometry!Relative(anchor', p) /\ fix' = p
        /\ anchor' = IF anchor = Unset THEN p ELSE anchor
        /\ UNCHANGED <<source, initial, wire, command, sinceTick, map_to_odom, mapPose, first, last>>
    BY <1>4 DEF Odometry!OnPose
  <2>3. anchor' \in Planar
    BY <2>1, <2>2 DEF OdometryInv, Anchored
  <2>4. odom' \in Planar
    BY <2>1, <2>2, <2>3, RelativeIsSeen
  <2> QED
    BY <2>1, <2>2, <2>3, <2>4 DEF OdometryInv, Types, Framed, Anchored
<1>5. CASE Odometry!Tick
  <2> DEFINE v == IF Odometry!Expired THEN Odometry!Stopped ELSE command
  <2>1. v \in PlanarVelocity /\ sinceTick \in Int
    BY DEF OdometryInv, Types, Odometry!Stopped, PlanarVelocity
  <2> HIDE DEF v
  <2>2. Odometry!Integrated(odom, v, sinceTick) \in Planar
    BY <2>1, IntegratedType DEF OdometryInv, Types
  <2>3. /\ source # "localization" /\ Odometry!Published /\ UNCHANGED <<anchor, fix>>
        /\ command' = command /\ sinceTick' = 0 /\ odom' = Odometry!Integrated(odom, v, sinceTick)
    BY <1>5 DEF Odometry!Tick, v
  <2> QED
    BY <1>1, <2>2, <2>3 DEF OdometryInv, Types
<1>6. CASE Odometry!Elapse
  BY <1>6 DEF Odometry!Elapse, OdometryInv, Types, Framed, Anchored
<1>7. CASE Odometry!OdomCallback
  <2> DEFINE heard == Head(wire)
             frame == IF map_to_odom # Unset THEN map_to_odom
                      ELSE Odometry!compose_planar_transforms(initial, Odometry!inverse_planar_transform(heard))
  <2>1. heard \in Planar /\ wire' \in Seq(Planar) /\ heard # Unset
    BY <1>7, HeadTailProperties
       DEF Odometry!OdomCallback, OdometryInv, Types, OdometryConstants
  <2>2. /\ map_to_odom' = frame /\ mapPose' = Odometry!compose_planar_transforms(frame, heard)
        /\ first' = IF first = Unset THEN heard ELSE first
        /\ last' = heard
        /\ UNCHANGED <<source, initial, odom, command, sinceTick, anchor, fix>>
    BY <1>7 DEF Odometry!OdomCallback
  <2> HIDE DEF heard
  <2>3. CASE first = Unset
    <3>1. map_to_odom = Unset
      BY <2>3 DEF OdometryInv, Framed, OdometryConstants
    <3>2. Framed'
      BY <2>1, <2>2, <2>3, <3>1 DEF Framed
    <3> QED
      BY <2>1, <2>2, <3>2 DEF OdometryInv, Types, Anchored
  <2>4. CASE first # Unset
    <3>1. /\ first \in Planar
          /\ map_to_odom = Odometry!compose_planar_transforms(initial, Odometry!inverse_planar_transform(first))
      BY <2>4 DEF OdometryInv, Framed
    <3>2. map_to_odom \in Planar
      BY <3>1, ComposeType, InverseType DEF OdometryInv, Types
    <3>3. map_to_odom' = map_to_odom /\ first' = first
      BY <2>2, <2>4, <3>2 DEF OdometryConstants
    <3>4. Framed'
      BY <2>1, <2>2, <3>1, <3>3 DEF Framed
    <3> QED
      BY <2>1, <2>2, <3>4 DEF OdometryInv, Types, Anchored
  <2> QED
    BY <2>3, <2>4
<1>8. CASE Odometry!Lose
  <2>1. wire' \in Seq(Planar)
    BY <1>8, HeadTailProperties DEF Odometry!Lose, OdometryInv, Types
  <2> QED
    BY <1>8, <2>1 DEF Odometry!Lose, OdometryInv, Types, Framed, Anchored
<1>9. CASE UNCHANGED Odometry!vars
  BY <1>9 DEF Odometry!vars, OdometryInv, Types, Framed, Anchored
<1> QED
  BY <1>2, <1>3, <1>4, <1>5, <1>6, <1>7, <1>8, <1>9 DEF Odometry!Next

(* For every initial pose, every sequence of velocities or poses and every   *)
(* loss of messages: the robot moves in the map as its odometry says.        *)
THEOREM AlwaysMotionPreserved ==
  ASSUME OdometryConstants
  PROVE  LocalizationSpec => []MotionPreserved
<1>1. Odometry!Init => OdometryInv
  BY OdometryInit
<1>2. OdometryInv /\ [Odometry!Next]_(Odometry!vars) => OdometryInv'
  BY OdometryStep
<1>3. OdometryInv => MotionPreserved
  BY OdometryInvImplies DEF MotionPreserved
<1> QED
  BY <1>1, <1>2, <1>3, PartsInit, PartsStep, PTL DEF LocalizationSpec

-----------------------------------------------------------------------------
(* The republisher's bursts for every configuration of it, and the launch's  *)
(* two ways of the initial pose for all of its arguments.                    *)

(* What is left of a burst still fits into it: the next pose either starts   *)
(* the count of recent poses again or is one of those that were due.         *)
Due ==
    /\ args.count \in Int /\ args.interval \in Int /\ args.cooldown \in Int
    /\ recent \in Nat /\ recent <= Bursts!publish_count
    /\ pending_publish_count \in 0 .. Bursts!publish_count
    /\ sinceLast \in (0 .. AgeHorizon) \cup {Unset}
    /\ (pending_publish_count > 0 /\ sinceLast # Unset /\ sinceLast < Bursts!republish_cooldown)
       => recent + pending_publish_count <= Bursts!publish_count

(* Where the two poses come from.                                            *)
Origins ==
    /\ args \in Bursts!Arguments
    /\ started = Bursts!_start_localization(args)
    /\ (reset # Unset /\ reset.from = "configured") => reset.pose = args.initial

-----------------------------------------------------------------------------

(* The clamps: a burst has a pose, and pauses no shorter than its interval.  *)
LEMMA Clamped ==
  ASSUME args.count \in Int, args.interval \in Int, args.cooldown \in Int
  PROVE  /\ Bursts!publish_count \in Nat \ {0} /\ Bursts!publish_interval \in Nat \ {0}
         /\ Bursts!republish_cooldown \in Nat \ {0}
<1>1. Bursts!publish_count \in Nat \ {0} /\ Bursts!publish_interval \in Nat \ {0}
  BY DEF Bursts!publish_count, Bursts!publish_interval, Bursts!Most
<1>2. Bursts!republish_cooldown \in Nat \ {0}
  BY <1>1 DEF Bursts!republish_cooldown, Bursts!Most
<1> QED
  BY <1>1, <1>2

LEMMA InitDue ==
  ASSUME Counts \subseteq Int, Intervals \subseteq Int, Cooldowns \subseteq Int
  PROVE  Bursts!Init => Due
<1> SUFFICES ASSUME Bursts!Init PROVE Due
  OBVIOUS
<1>1. args.count \in Int /\ args.interval \in Int /\ args.cooldown \in Int
  BY DEF Bursts!Init, Bursts!Arguments
<1> QED
  BY <1>1, Clamped DEF Bursts!Init, Due

LEMMA StepDue ==
  ASSUME AgeHorizon \in Nat
  PROVE  Due /\ [Bursts!Next]_(Bursts!vars) => Due'
<1> SUFFICES ASSUME Due, [Bursts!Next]_(Bursts!vars) PROVE Due'
  OBVIOUS
<1>1. /\ Bursts!publish_count \in Nat \ {0} /\ Bursts!publish_interval \in Nat \ {0}
      /\ Bursts!republish_cooldown \in Nat \ {0}
  BY Clamped DEF Due
<1>2. ASSUME args' = args
      PROVE  /\ Bursts!publish_count' = Bursts!publish_count
             /\ Bursts!republish_cooldown' = Bursts!republish_cooldown
  BY <1>2 DEF Bursts!publish_count, Bursts!republish_cooldown, Bursts!publish_interval
<1>3. CASE Bursts!Elapse
  <2>1. args' = args /\ recent' = recent /\ pending_publish_count' = pending_publish_count
    BY <1>3 DEF Bursts!Elapse
  <2>2. sinceLast' = IF sinceLast = Unset THEN Unset ELSE Bursts!Least(sinceLast + 1, AgeHorizon)
    BY <1>3 DEF Bursts!Elapse
  <2>3. CASE sinceLast = Unset
    BY <1>2, <2>1, <2>2, <2>3 DEF Due
  <2>4. CASE sinceLast # Unset
    <3>1. sinceLast \in 0 .. AgeHorizon /\ sinceLast' \in 0 .. AgeHorizon
      BY <2>2, <2>4 DEF Due, Bursts!Least
    <3>2. CASE sinceLast < Bursts!republish_cooldown
      BY <1>1, <1>2, <2>1, <2>4, <3>1, <3>2 DEF Due
    <3>3. CASE ~(sinceLast < Bursts!republish_cooldown)
      \* the clock stops at MaxTime, where a pause is as long as it looks
      <4>1. CASE sinceLast + 1 <= AgeHorizon
        BY <1>1, <1>2, <2>1, <2>2, <2>4, <3>1, <3>3, <4>1 DEF Due, Bursts!Least
      <4>2. CASE ~(sinceLast + 1 <= AgeHorizon)
        BY <1>1, <1>2, <2>1, <2>2, <2>4, <3>1, <3>3, <4>2 DEF Due, Bursts!Least
      <4> QED
        BY <4>1, <4>2
    <3> QED
      BY <3>2, <3>3
  <2> QED
    BY <2>3, <2>4
<1>4. ASSUME NEW p \in BurstPoses, Bursts!OnPose(p) PROVE Due'
  BY <1>2, <1>4 DEF Bursts!OnPose, Due
<1>5. ASSUME Bursts!_start_burst_if_due, args' = args, UNCHANGED <<sinceLast, recent>> PROVE Due'
  <2>1. CASE Bursts!Cooling
    BY <1>2, <1>5, <2>1 DEF Bursts!_start_burst_if_due, Due
  <2>2. CASE ~Bursts!Cooling
    BY <1>1, <1>2, <1>5, <2>2 DEF Bursts!_start_burst_if_due, Bursts!Cooling, Due
  <2> QED
    BY <2>1, <2>2
<1>6. CASE Bursts!OnRequest
  BY <1>5, <1>6 DEF Bursts!OnRequest
<1>7. CASE Bursts!OnRequestCleared
  BY <1>1, <1>2, <1>7 DEF Bursts!OnRequestCleared, Due
<1>8. CASE Bursts!TickPublish
  <2>1. /\ args' = args /\ pending_publish_count > 0 /\ sinceLast' = 0
        /\ pending_publish_count' = pending_publish_count - 1
        /\ recent' = IF sinceLast = Unset \/ sinceLast >= Bursts!republish_cooldown THEN 1 ELSE recent + 1
    BY <1>8 DEF Bursts!TickPublish, Bursts!_publish_once
  <2>2. CASE sinceLast = Unset \/ sinceLast >= Bursts!republish_cooldown
    BY <1>1, <1>2, <2>1, <2>2 DEF Due
  <2>3. CASE sinceLast # Unset /\ ~(sinceLast >= Bursts!republish_cooldown)
    <3>1. sinceLast < Bursts!republish_cooldown
      BY <1>1, <2>3 DEF Due
    <3> QED
      BY <1>1, <1>2, <2>1, <2>3, <3>1 DEF Due
  <2> QED
    BY <2>2, <2>3
<1>9. CASE Bursts!TickStart
  BY <1>5, <1>9 DEF Bursts!TickStart
<1>10. CASE UNCHANGED Bursts!vars
  BY <1>2, <1>10 DEF Bursts!vars, Bursts!node, Due
<1> QED
  BY <1>3, <1>4, <1>6, <1>7, <1>8, <1>9, <1>10 DEF Bursts!Next

(* Whatever the configured counts, intervals and cooldowns are, however the  *)
(* request flickers and however late the timer is, the localizer gets at most*)
(* one burst of poses until none came for a cooldown.                        *)
THEOREM AlwaysBurstBounded ==
  ASSUME Counts \subseteq Int, Intervals \subseteq Int, Cooldowns \subseteq Int,
         AgeHorizon \in Nat
  PROVE  LocalizationSpec => []BurstBounded
<1>1. Due => BurstBounded
  BY DEF Due, Bursts!BurstBounded, BurstBounded
<1> QED
  BY <1>1, InitDue, StepDue, PartsInit, PartsStep, PTL DEF LocalizationSpec

-----------------------------------------------------------------------------

LEMMA StepOrigins == Origins /\ [Bursts!Next]_(Bursts!vars) => Origins'
<1> SUFFICES ASSUME Origins, [Bursts!Next]_(Bursts!vars) PROVE Origins'
  OBVIOUS
<1>1. args' = args /\ started' = started
  BY DEF Bursts!Next, Bursts!Elapse, Bursts!OnPose, Bursts!OnRequest,
         Bursts!OnRequestCleared, Bursts!TickPublish, Bursts!TickStart, Bursts!vars,
         Bursts!node
<1>2. CASE UNCHANGED reset
  BY <1>1, <1>2 DEF Origins
<1>3. CASE Bursts!TickPublish
  <2>1. reset' = Bursts!_make_pose_message
    BY <1>3 DEF Bursts!TickPublish, Bursts!_publish_once
  <2> QED
    BY <1>1, <2>1 DEF Origins, Bursts!_make_pose_message, Bursts!initial_pose
<1> QED
  BY <1>2, <1>3
     DEF Bursts!Next, Bursts!Elapse, Bursts!OnPose, Bursts!OnRequest,
         Bursts!OnRequestCleared, Bursts!TickStart, Bursts!vars, Bursts!node

(* For every combination of launch arguments and parameter file: a reset to  *)
(* the configured pose goes to where the backend was started.                *)
THEOREM AlwaysSameInitialPose ==
  ASSUME Unset \notin BOOLEAN
  PROVE  LocalizationSpec => []SameInitialPose
<1>1. Bursts!Init => Origins
  BY DEF Bursts!Init, Origins
<1>2. Origins => SameInitialPose
  <2> SUFFICES ASSUME Origins, reset # Unset, reset.from = "configured", args.demo \/ args.set = TRUE
              PROVE  started = args.initial
    BY DEF Origins, Bursts!SameInitialPose, SameInitialPose
  <2>1. CASE args.demo
    BY <2>1 DEF Origins, Bursts!_start_localization
  <2>2. CASE ~args.demo /\ args.set = TRUE
    <3>1. Bursts!_rewrite_localization_params(args) = [set |-> TRUE, initial |-> args.initial]
      BY <2>2 DEF Bursts!_rewrite_localization_params
    <3> QED
      BY <2>2, <3>1 DEF Origins, Bursts!_start_localization
  <2> QED
    BY <2>1, <2>2
<1> QED
  BY <1>1, <1>2, PartsInit, PartsStep, StepOrigins, PTL DEF LocalizationSpec

-----------------------------------------------------------------------------
(* The search and the query, for every map, scan, pyramid and number of      *)
(* candidates. First what the library says too little about: powers of two,  *)
(* and sequences put in order.                                               *)

(* Two to the power of a number is how many subsets so large a set has.      *)
LEMMA PowersOfTwo ==
  /\ 2 ^ 0 = 1
  /\ \A l \in Nat : 2 ^ l \in Nat \ {0} /\ 2 ^ (l + 1) = 2 * 2 ^ l
  /\ \A k, l \in Nat : k <= l => 2 ^ k <= 2 ^ l
<1>1. \A l \in Nat : /\ IsFiniteSet(1 .. l) /\ IsFiniteSet(SUBSET (1 .. l))
                     /\ Cardinality(SUBSET (1 .. l)) = 2 ^ l /\ 2 ^ l \in Nat
  <2> TAKE l \in Nat
  <2>1. IsFiniteSet(1 .. l) /\ Cardinality(1 .. l) = l
    BY FS_Interval
  <2>2. IsFiniteSet(SUBSET (1 .. l)) /\ Cardinality(SUBSET (1 .. l)) = 2 ^ Cardinality(1 .. l)
    BY <2>1, FS_SUBSET
  <2> QED
    BY <2>1, <2>2, FS_CardinalityType
<1>2. 2 ^ 0 = 1
  <2>1. SUBSET (1 .. 0) = {{}}
    OBVIOUS
  <2>2. Cardinality({{}}) = 1
    BY FS_Singleton
  <2> QED
    BY <1>1, <2>1, <2>2
<1>3. ASSUME NEW k \in Nat, NEW l \in Nat, k <= l PROVE 2 ^ k <= 2 ^ l
  <2>1. 1 .. k \subseteq 1 .. l
    BY <1>3
  <2>2. SUBSET (1 .. k) \subseteq SUBSET (1 .. l)
    BY <2>1
  <2>3. Cardinality(SUBSET (1 .. k)) <= Cardinality(SUBSET (1 .. l))
    BY <1>1, <2>2, FS_Subset
  <2> QED
    BY <1>1, <2>3
<1>4. ASSUME NEW l \in Nat PROVE 2 ^ (l + 1) = 2 * 2 ^ l
  <2> DEFINE Old == SUBSET (1 .. l)
             New == {X \union {l + 1} : X \in Old}
             add == [X \in Old |-> X \union {l + 1}]
  <2>1. \A X \in Old : l + 1 \notin X
    OBVIOUS
  <2>2. add \in Bijection(Old, New)
    <3>1. \A X, Y \in Old : X \union {l + 1} = Y \union {l + 1} => X = Y
      <4> TAKE X, Y \in Old
      <4> HAVE X \union {l + 1} = Y \union {l + 1}
      <4> QED
        BY <2>1
    <3>2. \A X \in Old : add[X] = X \union {l + 1} /\ add[X] \in New
      OBVIOUS
    <3>3. \A Z \in New : \E X \in Old : add[X] = Z
      OBVIOUS
    <3>4. add \in [Old -> New]
      BY <3>2
    <3> HIDE DEF Old, New, add
    <3> QED
      BY <3>1, <3>2, <3>3, <3>4 DEF Bijection, Injection, Surjection, IsInjective
  <2>3. Old \cap New = {} /\ SUBSET (1 .. l + 1) = Old \union New
    <3>1. Old \cap New = {}
      BY <2>1
    <3>2. 1 .. l + 1 = (1 .. l) \union {l + 1}
      OBVIOUS
    <3>3. ASSUME NEW X \in SUBSET (1 .. l + 1) PROVE X \in Old \union New
      <4>1. CASE l + 1 \in X
        <5>1. X \ {l + 1} \in Old /\ X = (X \ {l + 1}) \union {l + 1}
          BY <3>2, <4>1
        <5> QED
          BY <5>1
      <4>2. CASE l + 1 \notin X
        BY <3>2, <4>2
      <4> QED
        BY <4>1, <4>2
    <3>4. Old \union New \subseteq SUBSET (1 .. l + 1)
      BY <3>2
    <3> QED
      BY <3>1, <3>3, <3>4
  <2>4. IsFiniteSet(Old) /\ Cardinality(Old) = 2 ^ l /\ 2 ^ l \in Nat
    BY <1>1
  <2>5. l + 1 \in Nat
    OBVIOUS
  <2>6. Cardinality(SUBSET (1 .. l + 1)) = 2 ^ (l + 1)
    BY <1>1, <2>5
  <2> HIDE DEF Old, New, add
  <2>7. IsFiniteSet(New) /\ Cardinality(New) = Cardinality(Old)
    BY <2>2, <2>4, FS_Bijection DEF ExistsBijection
  <2>8. Cardinality(Old \union New) = Cardinality(Old) + Cardinality(New)
    <3>1. Cardinality(Old \union New) = Cardinality(Old) + Cardinality(New) - Cardinality(Old \cap New)
      BY <2>4, <2>7, FS_Union
    <3>2. Cardinality(Old \cap New) = 0
      BY <2>3, FS_EmptySet
    <3> QED
      BY <2>4, <2>7, <3>1, <3>2
  <2>9. Cardinality(Old) + Cardinality(New) = 2 * 2 ^ l
    BY <2>4, <2>7
  <2> QED
    BY <2>3, <2>6, <2>8, <2>9
<1>5. \A l \in Nat : 2 ^ l # 0
  <2> TAKE l \in Nat
  <2>1. 0 \in Nat /\ 0 <= l
    OBVIOUS
  <2>2. 2 ^ 0 <= 2 ^ l
    BY <1>3, <2>1
  <2> QED
    BY <1>1, <1>2, <2>2
<1> QED
  BY <1>1, <1>2, <1>3, <1>4, <1>5

StrictOrder(S, R) ==
    /\ \A i \in S : <<i, i>> \notin R
    /\ \A i, j \in S : i # j => <<i, j>> \in R \/ <<j, i>> \in R
    /\ \A i, j, k \in S : <<i, j>> \in R /\ <<j, k>> \in R => <<i, k>> \in R

(* A strict total order of positions: how many come before one tells it, and *)
(* each count below their number is that of one of them.                     *)
Above(S, R, i) == {j \in S : <<j, i>> \in R}

LEMMA RanksInOrder ==
  ASSUME NEW S, IsFiniteSet(S), NEW R,
         StrictOrder(S, R)
  PROVE  /\ Cardinality(S) \in Nat
         /\ \A i \in S : Cardinality(Above(S, R, i)) \in 0 .. Cardinality(S) - 1
         /\ \A k \in 1 .. Cardinality(S) : \E i \in S : Cardinality(Above(S, R, i)) = k - 1
         /\ \A i, n \in S : Cardinality(Above(S, R, i)) = Cardinality(Above(S, R, n))
                            => i = n
<1> DEFINE rank == [i \in S |-> Cardinality(Above(S, R, i))]
<1>1. Cardinality(S) \in Nat
  BY FS_CardinalityType
<1>2. ASSUME NEW i \in S
      PROVE  IsFiniteSet(Above(S, R, i)) /\ Cardinality(Above(S, R, i)) \in Nat /\ i \notin Above(S, R, i) /\ Above(S, R, i) \subseteq S
  BY FS_Subset, FS_CardinalityType DEF Above, StrictOrder
<1>3. ASSUME NEW i \in S, NEW T \in SUBSET S, Above(S, R, i) \union {i} \subseteq T
      PROVE  Cardinality(Above(S, R, i)) + 1 <= Cardinality(T)
  <2>1. IsFiniteSet(T) /\ Cardinality(T) \in Nat
    BY FS_Subset, FS_CardinalityType
  <2>2. Cardinality(Above(S, R, i) \union {i}) = Cardinality(Above(S, R, i)) + 1
    BY <1>2, FS_AddElement
  <2>3. Cardinality(Above(S, R, i) \union {i}) <= Cardinality(T)
    BY <1>3, <2>1, FS_Subset
  <2> QED
    BY <2>2, <2>3
<1>4. \A i \in S : Above(S, R, i) \union {i} \subseteq S
  BY DEF Above
<1>5. \A i, n \in S : <<i, n>> \in R => Above(S, R, i) \union {i} \subseteq Above(S, R, n)
  BY DEF Above, StrictOrder
<1>6. \A i \in S : Cardinality(Above(S, R, i)) \in 0 .. Cardinality(S) - 1
  BY <1>1, <1>2, <1>3, <1>4
<1>7. \A i, n \in S : <<i, n>> \in R => Cardinality(Above(S, R, i)) < Cardinality(Above(S, R, n))
  <2> TAKE i, n \in S
  <2>1. Above(S, R, n) \in SUBSET S /\ Cardinality(Above(S, R, i)) \in Nat /\ Cardinality(Above(S, R, n)) \in Nat
    BY <1>2
  <2> QED
    BY <1>3, <1>5, <2>1
<1>8. \A i, n \in S : Cardinality(Above(S, R, i)) = Cardinality(Above(S, R, n)) => i = n
  <2> TAKE i, n \in S
  <2>1. Cardinality(Above(S, R, i)) \in Nat /\ Cardinality(Above(S, R, n)) \in Nat
    BY <1>2
  <2>2. i # n => Cardinality(Above(S, R, i)) < Cardinality(Above(S, R, n)) \/ Cardinality(Above(S, R, n)) < Cardinality(Above(S, R, i))
    BY <1>7 DEF StrictOrder
  <2> QED
    BY <2>1, <2>2
<1>9. rank \in Injection(S, 0 .. Cardinality(S) - 1)
  BY <1>6, <1>8 DEF Injection, IsInjective
<1>10. IsFiniteSet(0 .. Cardinality(S) - 1) /\ Cardinality(0 .. Cardinality(S) - 1) = Cardinality(S)
  <2>1. PICK c \in Nat : c = Cardinality(S)
    BY <1>1
  <2>2. IsFiniteSet(0 .. c - 1) /\ Cardinality(0 .. c - 1) = c
    BY FS_Interval
  <2> QED
    BY <2>1, <2>2
<1>11. rank \in Surjection(S, 0 .. Cardinality(S) - 1)
  BY <1>9, <1>10, FS_Injection
<1>12. \A k \in 1 .. Cardinality(S) : \E i \in S : Cardinality(Above(S, R, i)) = k - 1
  <2> TAKE k \in 1 .. Cardinality(S)
  <2>1. k - 1 \in 0 .. Cardinality(S) - 1
    BY <1>1
  <2> QED
    BY <1>11, <2>1 DEF Surjection
<1> QED
  BY <1>1, <1>6, <1>8, <1>12

LEMMA SearchCounts == \A S : Search!Cardinality(S) = Cardinality(S)
BY DEF Search!Cardinality, Cardinality

(* So a sequence that is arranged keeps its elements, all of them.           *)
Reordered(out, seq, T) ==
    /\ out \in Seq(T) /\ Len(out) = Len(seq)
    /\ \A k \in 1 .. Len(seq) : \E i \in 1 .. Len(seq) : out[k] = seq[i]
    /\ \A i \in 1 .. Len(seq) : \E k \in 1 .. Len(seq) : out[k] = seq[i]

LEMMA ArrangedKeeps ==
  ASSUME NEW T, NEW seq \in Seq(T), NEW R,
         StrictOrder(1 .. Len(seq), R)
  PROVE  Reordered(Search!Arranged(seq, R), seq, T)
<1> DEFINE S == DOMAIN seq
           At(k) == CHOOSE i \in S : Search!Cardinality({j \in S : <<j, i>> \in R}) = k - 1
<1>1. Len(seq) \in Nat /\ S = 1 .. Len(seq) /\ \A i \in S : seq[i] \in T
  BY LenProperties, ElementOfSeq
<1>2. IsFiniteSet(S) /\ Cardinality(S) = Len(seq)
  BY <1>1, FS_Interval
<1>3. /\ \A i \in S : Cardinality(Above(S, R, i)) \in 0 .. Cardinality(S) - 1
      /\ \A k \in 1 .. Cardinality(S) : \E i \in S : Cardinality(Above(S, R, i)) = k - 1
      /\ \A i, n \in S : Cardinality(Above(S, R, i)) = Cardinality(Above(S, R, n)) => i = n
  <2>1. StrictOrder(S, R)
    BY <1>1
  <2> HIDE DEF S
  <2> QED
    BY <1>2, <2>1, RanksInOrder
<1>4. Search!Arranged(seq, R) = [k \in S |-> seq[At(k)]]
  BY DEF Search!Arranged
<1> HIDE DEF S
<1>5. \A k \in S : At(k) \in S /\ Cardinality(Above(S, R, At(k))) = k - 1
  <2> TAKE k \in S
  <2>1. \A i \in S : Search!Cardinality({j \in S : <<j, i>> \in R}) = Cardinality(Above(S, R, i))
    BY SearchCounts DEF Above
  <2>2. \E i \in S : Search!Cardinality({j \in S : <<j, i>> \in R}) = k - 1
    <3>1. PICK i \in S : Cardinality(Above(S, R, i)) = k - 1
      BY <1>1, <1>2, <1>3
    <3> QED
      BY <2>1, <3>1
  <2>3. At(k) \in S /\ Search!Cardinality({j \in S : <<j, At(k)>> \in R}) = k - 1
    BY <2>2
  <2> HIDE DEF At
  <2> QED
    BY <2>1, <2>3
<1>6. \A i \in S : Cardinality(Above(S, R, i)) + 1 \in S /\ At(Cardinality(Above(S, R, i)) + 1) = i
  <2> TAKE i \in S
  <2>1. Cardinality(Above(S, R, i)) + 1 \in S /\ (Cardinality(Above(S, R, i)) + 1) - 1 = Cardinality(Above(S, R, i))
    <3>1. Cardinality(Above(S, R, i)) \in 0 .. Len(seq) - 1
      BY <1>2, <1>3
    <3> QED
      BY <1>1, <3>1
  <2>2. At(Cardinality(Above(S, R, i)) + 1) \in S
        /\ Cardinality(Above(S, R, At(Cardinality(Above(S, R, i)) + 1))) = Cardinality(Above(S, R, i))
    BY <1>5, <2>1
  <2> HIDE DEF At
  <2> QED
    BY <1>3, <2>1, <2>2
<1> HIDE DEF At
<1>7. Search!Arranged(seq, R) \in Seq(T) /\ Len(Search!Arranged(seq, R)) = Len(seq)
  BY <1>1, <1>4, <1>5
<1>8. \A k \in S : \E i \in S : Search!Arranged(seq, R)[k] = seq[i]
  BY <1>4, <1>5
<1>9. \A i \in S : \E k \in S : Search!Arranged(seq, R)[k] = seq[i]
  BY <1>4, <1>6
<1> QED
  BY <1>1, <1>7, <1>8, <1>9 DEF Reordered

(* What comes first does so in the order.                                    *)
LEMMA ArrangedFirst ==
  ASSUME NEW T, NEW seq \in Seq(T), NEW R,
         StrictOrder(1 .. Len(seq), R), Len(seq) > 0
  PROVE  \E i \in 1 .. Len(seq) : /\ Search!Arranged(seq, R)[1] = seq[i]
                                  /\ \A j \in 1 .. Len(seq) : j = i \/ <<i, j>> \in R
<1> DEFINE S == DOMAIN seq
           At(k) == CHOOSE i \in S : Search!Cardinality({j \in S : <<j, i>> \in R}) = k - 1
<1>1. Len(seq) \in Nat \ {0} /\ S = 1 .. Len(seq) /\ 1 \in S
  BY LenProperties
<1>2. IsFiniteSet(S) /\ Cardinality(S) = Len(seq)
  BY <1>1, FS_Interval
<1>3. StrictOrder(S, R)
  BY <1>1
<1>4. Search!Arranged(seq, R)[1] = seq[At(1)]
  BY <1>1 DEF Search!Arranged
<1>5. \A i \in S : Search!Cardinality({j \in S : <<j, i>> \in R}) = Cardinality(Above(S, R, i))
  BY SearchCounts DEF Above
<1> HIDE DEF S
<1>6. \A k \in 1 .. Cardinality(S) : \E i \in S : Cardinality(Above(S, R, i)) = k - 1
  BY <1>2, <1>3, RanksInOrder
<1>7. PICK i \in S : Cardinality(Above(S, R, i)) = 1 - 1
  BY <1>1, <1>2, <1>6
<1>8. At(1) \in S /\ Cardinality(Above(S, R, At(1))) = 1 - 1
  BY <1>5, <1>7
<1> HIDE DEF At
<1>9. Above(S, R, At(1)) = {}
  <2>1. Above(S, R, At(1)) \subseteq S
    BY DEF Above
  <2>2. IsFiniteSet(Above(S, R, At(1)))
    BY <1>2, <2>1, FS_Subset
  <2> QED
    BY <1>8, <2>2, FS_EmptySet
<1>10. \A j \in S : j = At(1) \/ <<At(1), j>> \in R
  BY <1>3, <1>8, <1>9 DEF Above, StrictOrder
<1> QED
  BY <1>1, <1>4, <1>8, <1>10

(* A finite set in order has a first member.                                 *)
LEMMA FirstInOrder ==
  ASSUME NEW S, IsFiniteSet(S), S # {}, NEW R, StrictOrder(S, R)
  PROVE  \E m \in S : \A n \in S : <<n, m>> \notin R
<1>1. Cardinality(S) \in Nat \ {0}
  BY FS_CardinalityType, FS_EmptySet
<1>2. \A k \in 1 .. Cardinality(S) : \E i \in S : Cardinality(Above(S, R, i)) = k - 1
  BY RanksInOrder
<1>3. PICK m \in S : Cardinality(Above(S, R, m)) = 0
  <2>1. 1 \in 1 .. Cardinality(S) /\ 1 - 1 = 0
    BY <1>1
  <2> QED
    BY <1>2, <2>1
<1>4. Above(S, R, m) = {}
  <2>1. Above(S, R, m) \subseteq S
    BY DEF Above
  <2>2. IsFiniteSet(Above(S, R, m))
    BY <2>1, FS_Subset
  <2> QED
    BY <1>3, <2>2, FS_EmptySet
<1> QED
  BY <1>4 DEF Above

(* A finite set of integers that has members has a least and a greatest.     *)
LEMMA EndsOfASet ==
  ASSUME NEW S, S \subseteq Int, IsFiniteSet(S), S # {}
  PROVE  /\ \E m \in S : \A n \in S : m <= n
         /\ \E m \in S : \A n \in S : m >= n
<1>1. PICK R : R = {p \in S \X S : p[1] < p[2]}
  OBVIOUS
<1>2. PICK Q : Q = {p \in S \X S : p[1] > p[2]}
  OBVIOUS
<1>3. \A i, j \in S : (<<i, j>> \in R <=> i < j) /\ (<<i, j>> \in Q <=> i > j)
  BY <1>1, <1>2
<1>4. StrictOrder(S, R) /\ StrictOrder(S, Q)
  BY <1>3 DEF StrictOrder
<1>5. PICK m \in S : \A n \in S : <<n, m>> \notin R
  BY <1>4, FirstInOrder
<1>6. PICK m2 \in S : \A n \in S : <<n, m2>> \notin Q
  BY <1>4, FirstInOrder
<1>7. (\A n \in S : ~(n < m)) /\ \A n \in S : ~(n > m2)
  BY <1>3, <1>5, <1>6
<1>8. (\A n \in S : m <= n) /\ \A n \in S : m2 >= n
  BY <1>7
<1> QED
  BY <1>8

-----------------------------------------------------------------------------
(* The pyramid's levels.                                                     *)
LEMMA Steps ==
  /\ Search!Step(0) = 1
  /\ \A l \in Nat : Search!Step(l) \in Nat \ {0} /\ Search!Step(l + 1) = 2 * Search!Step(l)
  /\ \A k, l \in Nat : k <= l => Search!Step(k) <= Search!Step(l)
BY PowersOfTwo DEF Search!Step

LEMMA BlocksAre ==
  ASSUME NEW l \in Nat
  PROVE  /\ <<0, 0>> \in Search!Blocks(l)
         /\ IsFiniteSet(Search!Blocks(l)) /\ Cardinality(Search!Blocks(l)) \in Nat \ {0}
<1>1. PICK s \in Nat \ {0} : s = Search!Step(l)
  BY Steps
<1> DEFINE a == (Width - 1) \div s
           b == (Height - 1) \div s
<1>2. a \in Nat /\ b \in Nat
  BY SearchAssumption
<1>3. Search!Blocks(l) = (0 .. a) \X (0 .. b)
  BY <1>1 DEF Search!Blocks
<1> HIDE DEF a, b
<1>4. IsFiniteSet(0 .. a) /\ IsFiniteSet(0 .. b)
  BY <1>2, FS_Interval
<1>5. IsFiniteSet((0 .. a) \X (0 .. b))
  BY <1>4, FS_Product
<1>6. <<0, 0>> \in (0 .. a) \X (0 .. b)
  BY <1>2
<1>7. Cardinality((0 .. a) \X (0 .. b)) \in Nat \ {0}
  BY <1>5, <1>6, FS_CardinalityType, FS_EmptySet
<1> QED
  BY <1>3, <1>5, <1>6, <1>7

LEMMA StartLevelIs == Search!StartLevel \in 0 .. Depth
<1> DEFINE L == {l \in 0 .. Depth : l = Depth \/ Search!Cardinality(Search!Blocks(l)) = 1}
<1>1. Depth \in Nat
  BY SearchAssumption
<1>2. \A l \in 0 .. Depth : Search!Cardinality(Search!Blocks(l)) \in Nat \ {0}
  BY <1>1, BlocksAre, SearchCounts
<1>3. PICK l \in L : \A k \in L : l <= k
  <2>1. L \in SUBSET Int /\ L \in SUBSET (0 .. Depth) /\ Depth \in L /\ IsFiniteSet(0 .. Depth)
    BY <1>1, FS_Interval
  <2> HIDE DEF L
  <2>2. IsFiniteSet(L)
    BY <2>1, FS_Subset
  <2> QED
    BY <2>1, <2>2, EndsOfASet
<1>4. /\ l \in 0 .. Depth
      /\ l = Depth \/ Search!Cardinality(Search!Blocks(l)) = 1
      /\ \A k \in 0 .. l - 1 : Search!Cardinality(Search!Blocks(k)) > 1
  <2>1. l \in 0 .. Depth /\ (l = Depth \/ Search!Cardinality(Search!Blocks(l)) = 1)
    OBVIOUS
  <2>2. ASSUME NEW k \in 0 .. l - 1 PROVE Search!Cardinality(Search!Blocks(k)) > 1
    <3>1. k \in 0 .. Depth /\ k < l
      BY <1>1, <2>1
    <3>2. k \notin L
      BY <1>1, <1>3, <3>1
    <3>3. Search!Cardinality(Search!Blocks(k)) # 1
      BY <3>1, <3>2
    <3> QED
      BY <1>2, <3>1, <3>3
  <2> QED
    BY <2>1, <2>2
<1> HIDE DEF L
<1> QED
  BY <1>4 DEF Search!StartLevel

-----------------------------------------------------------------------------
(* A search's scan and map, as the engine has loaded them.                   *)
Spots == (0 .. Width - 1) \X (0 .. Height - 1)

Loaded == scan \in [Yaws -> Seq(Int \X Int)]

Clear ==
    /\ \A c \in grid : /\ c \in Spots
                       /\ c[1] >= Search!Step(Search!StartLevel) /\ c[2] >= Search!Step(Search!StartLevel)
    /\ upper_bound_pyramid = [l \in 0 .. Search!StartLevel |-> Search!UpperBound(l)]

(* The points of a scan that hit.                                            *)
Hitting(l, cell, yaw) == {p \in DOMAIN scan[yaw] :
    LET o == Search!BlockOf(scan[yaw][p], l)
        b == Search!BlockOf(cell, l)
    IN  <<o[1] + b[1], o[2] + b[2]>> \in upper_bound_pyramid[l]}

LEMMA HitsCount ==
  ASSUME Loaded, NEW y \in Yaws, NEW l, NEW c
  PROVE  /\ Search!Hits(l, c, y) \in Nat /\ Search!Hits(l, c, y) = Cardinality(Hitting(l, c, y))
         /\ IsFiniteSet(Hitting(l, c, y))
         /\ \A p \in Hitting(l, c, y) : p \in 1 .. Len(scan[y]) /\ scan[y][p] \in Int \X Int
<1>1. scan[y] \in Seq(Int \X Int)
  BY DEF Loaded
<1>2. Len(scan[y]) \in Nat /\ DOMAIN scan[y] = 1 .. Len(scan[y])
      /\ \A p \in 1 .. Len(scan[y]) : scan[y][p] \in Int \X Int
  BY <1>1, LenProperties, ElementOfSeq
<1>3. Search!Hits(l, c, y) = Search!Cardinality(Hitting(l, c, y))
  BY DEF Search!Hits, Hitting
<1>4. Hitting(l, c, y) \subseteq 1 .. Len(scan[y]) /\ IsFiniteSet(1 .. Len(scan[y]))
  BY <1>2, FS_Interval DEF Hitting
<1>5. IsFiniteSet(Hitting(l, c, y)) /\ Cardinality(Hitting(l, c, y)) \in Nat
  BY <1>4, FS_Subset, FS_CardinalityType
<1> QED
  BY <1>2, <1>3, <1>4, <1>5, SearchCounts

LEMMA HitsGrow ==
  ASSUME Loaded, NEW y \in Yaws, NEW l, NEW c, NEW k, NEW d, Hitting(l, c, y) \subseteq Hitting(k, d, y)
  PROVE  Search!Hits(l, c, y) <= Search!Hits(k, d, y)
BY HitsCount, FS_Subset

(* Rounding down: the parts of a sum, and a block's half.                    *)
LEMMA PartsOfASum ==
  ASSUME NEW s \in Nat \ {0}, NEW o \in Int, NEW c \in Int
  PROVE  (o + c) \div s - (o \div s + c \div s) \in {0, 1}
OBVIOUS

LEMMA HalvesOfABlock ==
  ASSUME NEW s \in Nat \ {0}, NEW o \in Int
  PROVE  o \div (2 * s) = (o \div s) \div 2
OBVIOUS

LEMMA Division ==
  ASSUME NEW m \in Nat, m > 0, NEW n \in Int
  PROVE  n % m = n - m * (n \div m)
OBVIOUS

LEMMA CornersOfABlock ==
  ASSUME NEW s \in Nat \ {0}, NEW n \in Nat, n % (2 * s) = 0, NEW c \in {n, n + s}
  PROVE  c \div s - 2 * (n \div (2 * s)) \in {0, 1} /\ c % s = 0
<1>1. PICK k \in Nat : k = n \div (2 * s)
  OBVIOUS
<1>2. n = (2 * s) * k
  <2>1. PICK m \in Nat \ {0} : m = 2 * s
    OBVIOUS
  <2>2. n % m = n - m * (n \div m)
    BY Division
  <2> QED
    BY <1>1, <2>1, <2>2
<1>3. n = s * (2 * k) /\ n + s = s * (2 * k + 1)
  BY <1>2
<1>4. \A m \in Nat : (s * m) \div s = m /\ (s * m) % s = 0
  OBVIOUS
<1>5. CASE c = n
  <2>1. c \div s = 2 * k /\ c % s = 0
    BY <1>3, <1>4, <1>5
  <2> QED
    BY <1>1, <2>1
<1>6. CASE c = n + s
  <2>1. c \div s = 2 * k + 1 /\ c % s = 0
    BY <1>3, <1>4, <1>6
  <2> QED
    BY <1>1, <2>1
<1> QED
  BY <1>5, <1>6

LEMMA HalfIsNear ==
  ASSUME NEW a \in Int, NEW k \in Int, NEW v \in Int, v - 2 * k \in {0, 1},
         NEW g \in Int, g >= 2, NEW top \in Nat, a + v \in 0 .. top, (a + v) - g \in -1 .. 1
  PROVE  (a \div 2 + k) - g \div 2 \in -1 .. 1 /\ a \div 2 + k \in 0 .. top \div 2
OBVIOUS

-----------------------------------------------------------------------------
LEMMA HittingIs ==
  ASSUME NEW y, NEW l, NEW c, NEW s, s = Search!Step(l)
  PROVE  \A p : p \in Hitting(l, c, y) <=>
            /\ p \in DOMAIN scan[y]
            /\ <<scan[y][p][1] \div s + c[1] \div s, scan[y][p][2] \div s + c[2] \div s>> \in upper_bound_pyramid[l]
BY DEF Hitting, Search!BlockOf

LEMMA BlockIs ==
  ASSUME NEW l, NEW s, s = Search!Step(l), NEW u, NEW v
  PROVE  <<u, v>> \in Search!Blocks(l) <=> u \in 0 .. (Width - 1) \div s /\ v \in 0 .. (Height - 1) \div s
BY DEF Search!Blocks

LEMMA NearIs ==
  ASSUME NEW l, NEW s, s = Search!Step(l), NEW u, NEW v, NEW g
  PROVE  Search!Near(<<u, v>>, Search!BlockOf(g, l), 1) <=>
            u - g[1] \div s \in -1 .. 1 /\ v - g[2] \div s \in -1 .. 1
BY DEF Search!Near, Search!BlockOf

LEMMA LevelIs ==
  ASSUME Clear, NEW l \in 0 .. Search!StartLevel
  PROVE  /\ l \in Nat /\ Search!StartLevel \in Nat
         /\ l = 0 => upper_bound_pyramid[l] = grid
         /\ l # 0 => \A b : b \in upper_bound_pyramid[l] <=>
                        /\ b \in Search!Blocks(l)
                        /\ \E g \in grid : Search!Near(b, Search!BlockOf(g, l), 1)
<1>1. Search!StartLevel \in Nat /\ l \in Nat
  BY StartLevelIs, SearchAssumption
<1>2. upper_bound_pyramid[l] = Search!UpperBound(l)
  BY DEF Clear
<1>3. l # 0 => upper_bound_pyramid[l] = {b \in Search!Blocks(l) : \E c \in Search!Pooled(l) : Search!Near(b, c, 1)}
  BY <1>2 DEF Search!UpperBound, Search!Dilate
<1>4. l = 0 => upper_bound_pyramid[l] = grid
  BY <1>2 DEF Search!UpperBound
<1>5. Search!Pooled(l) = {Search!BlockOf(g, l) : g \in grid}
  BY DEF Search!Pooled
<1> QED
  BY <1>1, <1>3, <1>4, <1>5

(* What hits the map hits, at any level, the block it falls in or the one    *)
(* before it: the bound of a node is that of every pose below it.            *)
LEMMA BoundIsAdmissible ==
  ASSUME Loaded, Clear, NEW y \in Yaws, NEW l \in 0 .. Search!StartLevel, NEW c \in Spots, NEW d \in Spots,
         Search!BlockOf(c, l) = Search!BlockOf(d, l)
  PROVE  Search!Hits(0, c, y) <= Search!Hits(l, d, y)
<1>1. PICK s \in Nat \ {0} : s = Search!Step(l)
  BY LevelIs, Steps
<1>2. /\ c[1] \in Nat /\ c[2] \in Nat /\ d[1] \in Nat /\ d[2] \in Nat
      /\ Width \in Nat \ {0} /\ Height \in Nat \ {0}
  BY SearchAssumption DEF Spots
<1>3. \A e : Search!BlockOf(e, l) = <<e[1] \div s, e[2] \div s>>
  BY <1>1 DEF Search!BlockOf
<1>4. c[1] \div s = d[1] \div s /\ c[2] \div s = d[2] \div s
  <2>1. <<c[1] \div s, c[2] \div s>> = <<d[1] \div s, d[2] \div s>>
    BY <1>3
  <2> QED
    BY <2>1
<1>5. ASSUME NEW p \in Hitting(0, c, y) PROVE p \in Hitting(l, d, y)
  <2>1. PICK o \in Int \X Int : o = scan[y][p] /\ p \in DOMAIN scan[y]
    BY HitsCount DEF Hitting
  <2>2. PICK g \in grid : g = <<o[1] + c[1], o[2] + c[2]>>
    <3>1. 1 = Search!Step(0) /\ upper_bound_pyramid[0] = grid
      BY LevelIs, Steps, 0 \in 0 .. Search!StartLevel
    <3>2. <<o[1] \div 1 + c[1] \div 1, o[2] \div 1 + c[2] \div 1>> \in grid
      BY <2>1, <3>1, HittingIs
    <3>3. \A i \in Int : i \div 1 = i
      OBVIOUS
    <3> QED
      BY <1>2, <2>1, <3>2, <3>3
  <2> DEFINE b == <<o[1] \div s + d[1] \div s, o[2] \div s + d[2] \div s>>
  <2>3. g[1] \in Nat /\ g[2] \in Nat /\ g[1] <= Width - 1 /\ g[2] <= Height - 1
    BY <1>2, <2>2 DEF Clear, Spots
  <2>4. CASE l = 0
    <3>1. s = 1 /\ upper_bound_pyramid[l] = grid
      BY <1>1, <2>4, Steps, LevelIs
    <3>2. b = g
      BY <1>2, <1>4, <2>2, <3>1
    <3> QED
      BY <1>1, <2>1, <3>1, <3>2, HittingIs
  <2>5. CASE l # 0
    <3>1. g[1] \div s - (o[1] \div s + d[1] \div s) \in {0, 1} /\ g[2] \div s - (o[2] \div s + d[2] \div s) \in {0, 1}
      <4>1. o[1] \in Int /\ o[2] \in Int /\ g[1] = o[1] + c[1] /\ g[2] = o[2] + c[2]
        BY <2>2
      <4> QED
        BY SMTT(30), <1>2, <1>4, <4>1, PartsOfASum
    <3>2. g[1] >= s /\ g[2] >= s
      <4>1. s <= Search!Step(Search!StartLevel) /\ Search!Step(Search!StartLevel) \in Nat
        BY <1>1, LevelIs, Steps
      <4> QED
        BY <1>1, <2>3, <4>1 DEF Clear
    <3>3. g[1] \div s >= 1 /\ g[2] \div s >= 1
      BY <2>3, <3>2
    <3>4. g[1] \div s <= (Width - 1) \div s /\ g[2] \div s <= (Height - 1) \div s
      BY <1>2, <2>3
    <3>5. /\ o[1] \div s \in Int /\ o[2] \div s \in Int /\ d[1] \div s \in Int /\ d[2] \div s \in Int
          /\ g[1] \div s \in Int /\ g[2] \div s \in Int /\ (Width - 1) \div s \in Int /\ (Height - 1) \div s \in Int
      BY <1>2, <2>1, <2>3
    <3>6. b[1] \in 0 .. (Width - 1) \div s /\ b[2] \in 0 .. (Height - 1) \div s
      BY <3>1, <3>3, <3>4, <3>5
    <3>7. b[1] - g[1] \div s \in -1 .. 1 /\ b[2] - g[2] \div s \in -1 .. 1
      BY <3>1, <3>5
    <3>8. b \in Search!Blocks(l)
      BY <1>1, <3>6, BlockIs
    <3>9. Search!Near(b, Search!BlockOf(g, l), 1)
      BY <1>1, <3>7, NearIs
    <3>10. b \in upper_bound_pyramid[l]
      BY <2>5, <3>8, <3>9, LevelIs
    <3> QED
      BY <1>1, <2>1, <3>10, HittingIs
  <2> QED
    BY <2>4, <2>5
<1> QED
  BY <1>5, HitsGrow

(* So does what hits a block of a lower level.                               *)
LEMMA BoundNeverGrows ==
  ASSUME Loaded, Clear, NEW y \in Yaws, NEW l \in 1 .. Search!StartLevel, NEW d \in Spots, NEW c \in Spots,
         d[1] % Search!Step(l) = 0, d[2] % Search!Step(l) = 0,
         c[1] \in {d[1], d[1] + Search!Step(l - 1)}, c[2] \in {d[2], d[2] + Search!Step(l - 1)}
  PROVE  /\ Search!Hits(l - 1, c, y) <= Search!Hits(l, d, y)
         /\ c[1] % Search!Step(l - 1) = 0 /\ c[2] % Search!Step(l - 1) = 0
<1>1. l \in Nat /\ l - 1 \in Nat /\ Search!StartLevel \in Nat /\ (l - 1) + 1 = l /\ l \in 0 .. Search!StartLevel
      /\ l - 1 \in 0 .. Search!StartLevel
  BY StartLevelIs, SearchAssumption
<1>2. PICK s \in Nat \ {0} : s = Search!Step(l - 1) /\ Search!Step(l) = 2 * s
  BY <1>1, Steps
<1>3. /\ c[1] \in Nat /\ c[2] \in Nat /\ d[1] \in Nat /\ d[2] \in Nat
      /\ Width \in Nat \ {0} /\ Height \in Nat \ {0}
  BY SearchAssumption DEF Spots
<1>4. /\ c[1] \div s - 2 * (d[1] \div (2 * s)) \in {0, 1} /\ c[1] % s = 0
      /\ c[2] \div s - 2 * (d[2] \div (2 * s)) \in {0, 1} /\ c[2] % s = 0
  <2>1. d[1] % (2 * s) = 0 /\ d[2] % (2 * s) = 0
    BY <1>2
  <2>2. c[1] \in {d[1], d[1] + s} /\ c[2] \in {d[2], d[2] + s}
    BY <1>2
  <2>3. c[1] \div s - 2 * (d[1] \div (2 * s)) \in {0, 1} /\ c[1] % s = 0
    BY <1>3, <2>1, <2>2, CornersOfABlock
  <2>4. c[2] \div s - 2 * (d[2] \div (2 * s)) \in {0, 1} /\ c[2] % s = 0
    BY <1>3, <2>1, <2>2, CornersOfABlock
  <2> QED
    BY <2>3, <2>4
<1>5. /\ \A e : Search!BlockOf(e, l) = <<e[1] \div (2 * s), e[2] \div (2 * s)>>
      /\ \A e : Search!BlockOf(e, l - 1) = <<e[1] \div s, e[2] \div s>>
  BY <1>2 DEF Search!BlockOf
<1>6. CASE l = 1
  <2>1. l - 1 = 0
    BY <1>6
  <2>2. c[1] \div (2 * s) = d[1] \div (2 * s) /\ c[2] \div (2 * s) = d[2] \div (2 * s)
    <3>1. \A k \in Int, v \in Int : v - 2 * k \in {0, 1} => v \div 2 = k
      OBVIOUS
    <3>2. /\ c[1] \div s \in Int /\ c[2] \div s \in Int
          /\ d[1] \div (2 * s) \in Int /\ d[2] \div (2 * s) \in Int
      BY <1>3
    <3>3. c[1] \div (2 * s) = (c[1] \div s) \div 2 /\ c[2] \div (2 * s) = (c[2] \div s) \div 2
      BY <1>3, HalvesOfABlock
    <3> QED
      BY <1>4, <3>1, <3>2, <3>3
  <2>3. Search!BlockOf(c, l) = Search!BlockOf(d, l)
    BY <1>5, <2>2
  <2>4. Search!Hits(0, c, y) <= Search!Hits(l, d, y)
    BY <1>1, <2>3, BoundIsAdmissible
  <2> QED
    BY <1>2, <1>4, <2>1, <2>4
<1>7. CASE l # 1
  <2>1. ASSUME NEW p \in Hitting(l - 1, c, y) PROVE p \in Hitting(l, d, y)
    <3>1. PICK o \in Int \X Int : o = scan[y][p] /\ p \in DOMAIN scan[y]
      BY HitsCount DEF Hitting
    <3> DEFINE b == <<o[1] \div s + c[1] \div s, o[2] \div s + c[2] \div s>>
               q == <<o[1] \div (2 * s) + d[1] \div (2 * s), o[2] \div (2 * s) + d[2] \div (2 * s)>>
    <3>2. b \in upper_bound_pyramid[l - 1]
      BY <1>2, <3>1, HittingIs
    <3>3. PICK g \in grid : b \in Search!Blocks(l - 1) /\ Search!Near(b, Search!BlockOf(g, l - 1), 1)
      <4>1. l - 1 # 0
        BY <1>7, <1>1
      <4> HIDE DEF b
      <4> QED
        BY <1>1, <3>2, <4>1, LevelIs
    <3>4. /\ g[1] \in Nat /\ g[2] \in Nat /\ g[1] >= Search!Step(Search!StartLevel)
          /\ g[2] >= Search!Step(Search!StartLevel)
      BY <1>3 DEF Clear, Spots
    <3>5. g[1] >= 2 * s /\ g[2] >= 2 * s
      <4>1. 2 * s <= Search!Step(Search!StartLevel) /\ Search!Step(Search!StartLevel) \in Nat
        <5>1. PICK top \in Nat : top = Search!StartLevel /\ l <= top
          BY <1>1
        <5>2. Search!Step(l) <= Search!Step(top) /\ Search!Step(top) \in Nat
          BY <1>1, <5>1, Steps
        <5> QED
          BY <1>2, <5>1, <5>2
      <4> QED
        BY <3>4, <4>1
    <3>6. g[1] \div s >= 2 /\ g[2] \div s >= 2
      BY <3>4, <3>5
    <3>7. /\ b[1] \in 0 .. (Width - 1) \div s /\ b[2] \in 0 .. (Height - 1) \div s
          /\ b[1] - g[1] \div s \in -1 .. 1 /\ b[2] - g[2] \div s \in -1 .. 1
      BY <1>2, <3>3, BlockIs, NearIs
    <3>8. /\ o[1] \in Int /\ o[2] \in Int
          /\ o[1] \div s \in Int /\ o[2] \div s \in Int /\ c[1] \div s \in Int /\ c[2] \div s \in Int
          /\ g[1] \div s \in Int /\ g[2] \div s \in Int /\ d[1] \div (2 * s) \in Int /\ d[2] \div (2 * s) \in Int
          /\ (Width - 1) \div s \in Nat /\ (Height - 1) \div s \in Nat
      BY <1>3, <3>1, <3>4
    <3>9. /\ o[1] \div (2 * s) = (o[1] \div s) \div 2 /\ o[2] \div (2 * s) = (o[2] \div s) \div 2
          /\ g[1] \div (2 * s) = (g[1] \div s) \div 2 /\ g[2] \div (2 * s) = (g[2] \div s) \div 2
          /\ (Width - 1) \div (2 * s) = ((Width - 1) \div s) \div 2
          /\ (Height - 1) \div (2 * s) = ((Height - 1) \div s) \div 2
      <4>1. Width - 1 \in Int /\ Height - 1 \in Int /\ g[1] \in Int /\ g[2] \in Int
        BY <1>3, <3>4
      <4> QED
        BY <3>8, <4>1, HalvesOfABlock
    <3>10. q[1] - g[1] \div (2 * s) \in -1 .. 1 /\ q[1] \in 0 .. (Width - 1) \div (2 * s)
      <4>1. /\ o[1] \div s \in Int /\ d[1] \div (2 * s) \in Int /\ c[1] \div s \in Int /\ g[1] \div s \in Int
            /\ (Width - 1) \div s \in Nat /\ c[1] \div s - 2 * (d[1] \div (2 * s)) \in {0, 1} /\ g[1] \div s >= 2
            /\ o[1] \div s + c[1] \div s \in 0 .. (Width - 1) \div s
            /\ (o[1] \div s + c[1] \div s) - g[1] \div s \in -1 .. 1
        BY <1>4, <3>6, <3>7, <3>8
      <4>2. /\ ((o[1] \div s) \div 2 + d[1] \div (2 * s)) - (g[1] \div s) \div 2 \in -1 .. 1
            /\ (o[1] \div s) \div 2 + d[1] \div (2 * s) \in 0 .. (((Width - 1) \div s) \div 2)
        BY <4>1, HalfIsNear
      <4> QED
        BY <3>9, <4>2
    <3>11. q[2] - g[2] \div (2 * s) \in -1 .. 1 /\ q[2] \in 0 .. (Height - 1) \div (2 * s)
      <4>1. /\ o[2] \div s \in Int /\ d[2] \div (2 * s) \in Int /\ c[2] \div s \in Int /\ g[2] \div s \in Int
            /\ (Height - 1) \div s \in Nat /\ c[2] \div s - 2 * (d[2] \div (2 * s)) \in {0, 1} /\ g[2] \div s >= 2
            /\ o[2] \div s + c[2] \div s \in 0 .. (Height - 1) \div s
            /\ (o[2] \div s + c[2] \div s) - g[2] \div s \in -1 .. 1
        BY <1>4, <3>6, <3>7, <3>8
      <4>2. /\ ((o[2] \div s) \div 2 + d[2] \div (2 * s)) - (g[2] \div s) \div 2 \in -1 .. 1
            /\ (o[2] \div s) \div 2 + d[2] \div (2 * s) \in 0 .. (((Height - 1) \div s) \div 2)
        BY <4>1, HalfIsNear
      <4> QED
        BY <3>9, <4>2
    <3>12. q \in Search!Blocks(l)
      BY <1>2, <3>10, <3>11, BlockIs
    <3>13. Search!Near(q, Search!BlockOf(g, l), 1)
      BY <1>2, <3>10, <3>11, NearIs
    <3>14. q \in upper_bound_pyramid[l]
      <4>1. l # 0
        BY <1>1
      <4> HIDE DEF q
      <4> QED
        BY <1>1, <3>12, <3>13, <4>1, LevelIs
    <3> QED
      BY <1>2, <3>1, <3>14, HittingIs
  <2>2. Search!Hits(l - 1, c, y) <= Search!Hits(l, d, y)
    BY <2>1, HitsGrow
  <2> QED
    BY <1>2, <1>4, <2>2
<1> QED
  BY <1>6, <1>7

-----------------------------------------------------------------------------
(* Positions ordered by four numbers of theirs, and then as they stand.      *)
ComesFirst(a, b, c, d, i, j) ==
            \/ a[i] < a[j]
            \/ a[i] = a[j] /\ b[i] < b[j]
            \/ a[i] = a[j] /\ b[i] = b[j] /\ c[i] < c[j]
            \/ a[i] = a[j] /\ b[i] = b[j] /\ c[i] = c[j] /\ d[i] < d[j]
            \/ a[i] = a[j] /\ b[i] = b[j] /\ c[i] = c[j] /\ d[i] = d[j] /\ i < j

LEMMA InOrderOfKeys ==
  ASSUME NEW n \in Nat, NEW a \in [1 .. n -> Int], NEW b \in [1 .. n -> Int],
         NEW c \in [1 .. n -> Int], NEW d \in [1 .. n -> Int], NEW R,
         \A i, j \in 1 .. n : <<i, j>> \in R <=> ComesFirst(a, b, c, d, i, j)
  PROVE  StrictOrder(1 .. n, R)
<1>0. ASSUME NEW i \in 1 .. n
      PROVE  i \in Int /\ a[i] \in Int /\ b[i] \in Int /\ c[i] \in Int /\ d[i] \in Int
  OBVIOUS
<1>1. ASSUME NEW i \in 1 .. n PROVE <<i, i>> \notin R
  <2>1. ~ComesFirst(a, b, c, d, i, i)
    BY <1>0 DEF ComesFirst
  <2> QED
    BY <2>1
<1>2. ASSUME NEW i \in 1 .. n, NEW j \in 1 .. n, i # j PROVE <<i, j>> \in R \/ <<j, i>> \in R
  <2>1. /\ a[i] < a[j] \/ a[i] = a[j] \/ a[j] < a[i]
        /\ b[i] < b[j] \/ b[i] = b[j] \/ b[j] < b[i]
        /\ c[i] < c[j] \/ c[i] = c[j] \/ c[j] < c[i]
        /\ d[i] < d[j] \/ d[i] = d[j] \/ d[j] < d[i]
        /\ i < j \/ j < i
    <3>1. \A p, q \in Int : p < q \/ p = q \/ q < p
      OBVIOUS
    <3> QED
      BY <3>1, <1>0, <1>2
  <2>2. ComesFirst(a, b, c, d, i, j) \/ ComesFirst(a, b, c, d, j, i)
    BY SMTT(30), <2>1 DEF ComesFirst
  <2> QED
    BY <2>2
<1>3. ASSUME NEW i \in 1 .. n, NEW j \in 1 .. n, NEW k \in 1 .. n, <<i, j>> \in R, <<j, k>> \in R
      PROVE  <<i, k>> \in R
  <2>1. ComesFirst(a, b, c, d, i, j) /\ ComesFirst(a, b, c, d, j, k)
    BY <1>3
  <2>0. /\ a[i] < a[j] => a[i] # a[j]
        /\ b[i] < b[j] => b[i] # b[j]
        /\ c[i] < c[j] => c[i] # c[j]
        /\ a[j] < a[k] => a[j] # a[k]
        /\ b[j] < b[k] => b[j] # b[k]
        /\ c[j] < c[k] => c[j] # c[k]
    <3>1. \A p, q \in Int : p < q => p # q
      OBVIOUS
    <3> QED
      BY <3>1, <1>0
  <2>2. CASE a[i] < a[j] \/ a[j] < a[k]
    <3>1. a[i] < a[k]
      BY SMTT(30), <1>0, <2>1, <2>2 DEF ComesFirst
    <3> QED
      BY <3>1 DEF ComesFirst
  <2>3. CASE a[i] = a[j] /\ a[j] = a[k] /\ (b[i] < b[j] \/ b[j] < b[k])
    <3>1. b[i] < b[k]
      BY <1>0, <2>1, <2>3 DEF ComesFirst
    <3> QED
      BY <2>3, <3>1 DEF ComesFirst
  <2>4. CASE a[i] = a[j] /\ a[j] = a[k] /\ b[i] = b[j] /\ b[j] = b[k] /\ (c[i] < c[j] \/ c[j] < c[k])
    <3>1. c[i] < c[j] \/ c[i] = c[j]
      BY Zenon, <2>0, <2>1, <2>4 DEF ComesFirst
    <3>2. c[j] < c[k] \/ c[j] = c[k]
      BY Zenon, <2>0, <2>1, <2>4 DEF ComesFirst
    <3>3. c[i] < c[k]
      BY <1>0, <2>4, <3>1, <3>2
    <3> QED
      BY <2>4, <3>3 DEF ComesFirst
  <2>5. CASE a[i] = a[j] /\ a[j] = a[k] /\ b[i] = b[j] /\ b[j] = b[k] /\ c[i] = c[j] /\ c[j] = c[k]
    <3>1. d[i] < d[j] \/ (d[i] = d[j] /\ i < j)
      BY Zenon, <2>0, <2>1, <2>5 DEF ComesFirst
    <3>2. d[j] < d[k] \/ (d[j] = d[k] /\ j < k)
      BY Zenon, <2>0, <2>1, <2>5 DEF ComesFirst
    <3>3. d[i] < d[k] \/ (d[i] = d[k] /\ i < k)
      <4>1. \A p, q, u \in Int : p < q /\ q < u => p < u
        OBVIOUS
      <4>2. d[i] < d[j] /\ d[j] < d[k] => d[i] < d[k]
        BY <4>1, <1>0
      <4>3. i < j /\ j < k => i < k
        BY <4>1, <1>0
      <4> QED
        BY Zenon, <3>1, <3>2, <4>2, <4>3
    <3> QED
      BY <2>5, <3>3 DEF ComesFirst
  <2>6. ComesFirst(a, b, c, d, i, k)
    <3>1. (a[i] < a[j] \/ a[i] = a[j]) /\ (a[j] < a[k] \/ a[j] = a[k])
      BY Zenon, <2>1 DEF ComesFirst
    <3>2. a[i] = a[j] /\ a[j] = a[k] => (b[i] < b[j] \/ b[i] = b[j]) /\ (b[j] < b[k] \/ b[j] = b[k])
      BY Zenon, <2>0, <2>1 DEF ComesFirst
    <3>3. a[i] = a[j] /\ a[j] = a[k] /\ b[i] = b[j] /\ b[j] = b[k] =>
             (c[i] < c[j] \/ c[i] = c[j]) /\ (c[j] < c[k] \/ c[j] = c[k])
      BY Zenon, <2>0, <2>1 DEF ComesFirst
    <3> QED
      BY Zenon, <2>2, <2>3, <2>4, <2>5, <3>1, <3>2, <3>3
  <2> QED
    BY <2>6
<1> QED
  BY <1>1, <1>2, <1>3 DEF StrictOrder

Finds == [cell : Spots, yaw : Yaws, score : Nat]

LEMMA SortedFinds ==
  ASSUME NEW seq \in Seq(Finds)
  PROVE  /\ Reordered(Search!Sorted(seq, Search!Before), seq, Finds)
         /\ \A j \in 1 .. Len(seq) : Search!Sorted(seq, Search!Before)[1].score >= seq[j].score
<1>1. PICK R : R = {p \in (DOMAIN seq) \X (DOMAIN seq) :
          Search!Before(seq[p[1]], seq[p[2]]) \/ (~Search!Before(seq[p[2]], seq[p[1]]) /\ p[1] < p[2])}
  OBVIOUS
<1>2. Search!Sorted(seq, Search!Before) = Search!Arranged(seq, R)
  BY <1>1 DEF Search!Sorted
<1>3. Len(seq) \in Nat /\ DOMAIN seq = 1 .. Len(seq) /\ \A i \in 1 .. Len(seq) : seq[i] \in Finds
  BY LenProperties, ElementOfSeq
<1>4. ASSUME NEW i \in 1 .. Len(seq)
      PROVE  seq[i].score \in Int /\ seq[i].yaw \in Int /\ seq[i].cell[1] \in Int /\ seq[i].cell[2] \in Int
  <2>1. seq[i].score \in Nat /\ seq[i].yaw \in Yaws /\ seq[i].cell \in (0 .. Width - 1) \X (0 .. Height - 1)
    BY <1>3 DEF Finds, Spots
  <2>2. Width \in Nat /\ Height \in Nat /\ Yaws \subseteq Nat
    BY SearchAssumption
  <2>3. seq[i].cell[1] \in 0 .. Width - 1 /\ seq[i].cell[2] \in 0 .. Height - 1
    BY <2>1
  <2>4. seq[i].cell[1] \in Int /\ seq[i].cell[2] \in Int
    BY <2>2, <2>3
  <2>5. seq[i].yaw \in Nat
    BY <2>1, <2>2
  <2> QED
    BY <2>1, <2>4, <2>5
<1>5. PICK a \in [1 .. Len(seq) -> Int] : \A i \in 1 .. Len(seq) : a[i] = -seq[i].score
  <2>1. [i \in 1 .. Len(seq) |-> -seq[i].score] \in [1 .. Len(seq) -> Int]
    BY <1>4
  <2> QED
    BY <2>1
<1>6. PICK b \in [1 .. Len(seq) -> Int] : \A i \in 1 .. Len(seq) : b[i] = seq[i].yaw
  <2>1. [i \in 1 .. Len(seq) |-> seq[i].yaw] \in [1 .. Len(seq) -> Int]
    BY <1>4
  <2> QED
    BY <2>1
<1>7. PICK c \in [1 .. Len(seq) -> Int] : \A i \in 1 .. Len(seq) : c[i] = seq[i].cell[2]
  <2>1. [i \in 1 .. Len(seq) |-> seq[i].cell[2]] \in [1 .. Len(seq) -> Int]
    BY <1>4
  <2> QED
    BY <2>1
<1>8. PICK d \in [1 .. Len(seq) -> Int] : \A i \in 1 .. Len(seq) : d[i] = seq[i].cell[1]
  <2>1. [i \in 1 .. Len(seq) |-> seq[i].cell[1]] \in [1 .. Len(seq) -> Int]
    BY <1>4
  <2> QED
    BY <2>1
<1>9. ASSUME NEW i \in 1 .. Len(seq), NEW j \in 1 .. Len(seq)
      PROVE  <<i, j>> \in R <=> ComesFirst(a, b, c, d, i, j)
  <2>1. <<i, j>> \in R <=> Search!Before(seq[i], seq[j]) \/ (~Search!Before(seq[j], seq[i]) /\ i < j)
    BY <1>1, <1>3
  <2>2. ASSUME NEW u \in 1 .. Len(seq), NEW v \in 1 .. Len(seq)
        PROVE  Search!Before(seq[u], seq[v]) <=>
                \/ a[u] < a[v]
                \/ a[u] = a[v] /\ b[u] < b[v]
                \/ a[u] = a[v] /\ b[u] = b[v] /\ (c[u] < c[v] \/ (c[u] = c[v] /\ d[u] < d[v]))
    <3>1. /\ a[u] = -seq[u].score /\ b[u] = seq[u].yaw /\ c[u] = seq[u].cell[2] /\ d[u] = seq[u].cell[1]
          /\ a[v] = -seq[v].score /\ b[v] = seq[v].yaw /\ c[v] = seq[v].cell[2] /\ d[v] = seq[v].cell[1]
      BY <1>5, <1>6, <1>7, <1>8
    <3>2. /\ seq[u].score \in Int /\ seq[v].score \in Int /\ seq[u].yaw \in Int /\ seq[v].yaw \in Int
          /\ seq[u].cell[1] \in Int /\ seq[u].cell[2] \in Int /\ seq[v].cell[1] \in Int /\ seq[v].cell[2] \in Int
      BY <1>4
    <3>3. Search!RowMajor(seq[u].cell, seq[v].cell) <=> (c[u] < c[v] \/ (c[u] = c[v] /\ d[u] < d[v]))
      BY <3>1, <3>2 DEF Search!RowMajor
    <3>4. (seq[u].score > seq[v].score <=> a[u] < a[v]) /\ (seq[u].score = seq[v].score <=> a[u] = a[v])
      <4>1. PICK g \in Int : g = seq[u].score
        BY <3>2
      <4>2. PICK h \in Int : h = seq[v].score
        BY <3>2
      <4>3. PICK m \in Int : m = a[u] /\ m = -g
        BY <3>1, <4>1
      <4>4. PICK n \in Int : n = a[v] /\ n = -h
        BY <3>1, <4>2
      <4>5. (g > h <=> m < n) /\ (g = h <=> m = n)
        BY <4>3, <4>4
      <4> QED
        BY <4>1, <4>2, <4>3, <4>4, <4>5
    <3> QED
      BY <3>1, <3>3, <3>4 DEF Search!Before
  <2>3. /\ a[i] \in Int /\ a[j] \in Int /\ b[i] \in Int /\ b[j] \in Int
        /\ c[i] \in Int /\ c[j] \in Int /\ d[i] \in Int /\ d[j] \in Int /\ i \in Int /\ j \in Int
    OBVIOUS
  <2> QED
    BY <2>1, <2>2, <2>3 DEF ComesFirst
<1>10. StrictOrder(1 .. Len(seq), R)
  BY <1>3, <1>9, InOrderOfKeys
<1>11. Reordered(Search!Arranged(seq, R), seq, Finds)
  BY <1>10, ArrangedKeeps
<1>12. ASSUME NEW j \in 1 .. Len(seq) PROVE Search!Arranged(seq, R)[1].score >= seq[j].score
  <2>1. Len(seq) > 0
    BY <1>3
  <2>2. PICK i \in 1 .. Len(seq) : /\ Search!Arranged(seq, R)[1] = seq[i]
                                   /\ \A k \in 1 .. Len(seq) : k = i \/ <<i, k>> \in R
    BY <1>10, <2>1, ArrangedFirst
  <2>3. a[i] <= a[j]
    <3>1. a[i] \in Int /\ a[j] \in Int
      OBVIOUS
    <3>2. j = i \/ ComesFirst(a, b, c, d, i, j)
      BY <1>9, <2>2
    <3> QED
      BY <3>1, <3>2 DEF ComesFirst
  <2>4. a[i] = -seq[i].score /\ a[j] = -seq[j].score /\ seq[i].score \in Int /\ seq[j].score \in Int
    BY <1>4, <1>5
  <2> QED
    BY <2>2, <2>3, <2>4
<1> QED
  BY <1>2, <1>11, <1>12

LEMMA KeptIsAll ==
  ASSUME NEW seq \in Seq(Finds), Len(seq) <= MaxCandidates
  PROVE  Search!Kept(seq) = Search!Sorted(seq, Search!Before)
<1>1. PICK all2 \in Seq(Finds) : all2 = Search!Sorted(seq, Search!Before) /\ Len(all2) = Len(seq)
  BY SortedFinds DEF Reordered
<1>2. Len(seq) \in Nat /\ ~(Len(all2) > MaxCandidates)
  BY <1>1, LenProperties, SearchAssumption
<1>3. Search!Kept(seq) = SubSeq(all2, 1, Len(all2))
  BY <1>1, <1>2 DEF Search!Kept
<1> QED
  BY <1>1, <1>3, SubSeqFull

-----------------------------------------------------------------------------
(* An open node: where it may be, and its bound.                             *)
NodeOK(n) ==
    /\ n.level \in 0 .. Search!StartLevel
    /\ n.cell \in Spots /\ n.yaw \in Yaws /\ n.seq \in Nat
    /\ n.cell[1] % Search!Step(n.level) = 0 /\ n.cell[2] % Search!Step(n.level) = 0
    /\ n.bound = Search!Hits(n.level, n.cell, n.yaw)

Opened == IsFiniteSet(heap) /\ \A n \in heap : NodeOK(n)

LEMMA FiniteImage ==
  ASSUME NEW S, IsFiniteSet(S), NEW f
  PROVE  IsFiniteSet({f[x] : x \in S})
<1> DEFINE T == {f[x] : x \in S}
           g == [x \in S |-> f[x]]
<1>1. g \in Surjection(S, T)
  BY DEF Surjection
<1> HIDE DEF T, g
<1>2. IsFiniteSet(T)
  BY <1>1, FS_Surjection
<1> QED
  BY <1>2 DEF T

(* The front of the queue has the greatest bound there is.                   *)
LEMMA FirstIs ==
  ASSUME Loaded, Opened, heap # {}
  PROVE  /\ Search!First \in heap /\ Search!First.bound = Search!TopBound /\ Search!TopBound \in Nat
         /\ \A n \in heap : n.bound \in Nat /\ n.bound <= Search!First.bound
<1>1. \A n \in heap : n.bound \in Nat /\ n.seq \in Nat
  BY HitsCount DEF Opened, NodeOK
<1>2. PICK bs \in SUBSET Nat : bs = {n.bound : n \in heap} /\ IsFiniteSet(bs) /\ bs # {}
  <2>1. PICK f : f = [n \in heap |-> n.bound]
    OBVIOUS
  <2>2. IsFiniteSet({f[x] : x \in heap})
    BY FiniteImage DEF Opened
  <2>3. {f[x] : x \in heap} = {n.bound : n \in heap}
    BY <2>1
  <2> QED
    BY <1>1, <2>2, <2>3
<1>3. PICK m \in bs : \A k \in bs : m >= k
  <2>1. bs \subseteq Int
    OBVIOUS
  <2> QED
    BY <1>2, <2>1, EndsOfASet
<1>4. Search!TopBound \in bs /\ \A k \in bs : Search!TopBound >= k
  <2>1. Search!TopBound = CHOOSE x \in bs : \A y \in bs : x >= y
    BY <1>2 DEF Search!TopBound, Search!Max
  <2> QED
    BY <1>3, <2>1
<1>5. PICK top \in SUBSET heap : top = {n \in heap : n.bound = Search!TopBound}
  OBVIOUS
<1>6. top # {} /\ IsFiniteSet(top)
  BY <1>2, <1>4, <1>5, FS_Subset DEF Opened
<1>7. PICK ss \in SUBSET Nat : ss = {n.seq : n \in top} /\ IsFiniteSet(ss) /\ ss # {}
  <2>1. PICK f : f = [n \in top |-> n.seq]
    OBVIOUS
  <2>2. IsFiniteSet({f[x] : x \in top})
    BY <1>6, FiniteImage
  <2>3. {f[x] : x \in top} = {n.seq : n \in top}
    BY <2>1
  <2> QED
    BY <1>1, <1>6, <2>2, <2>3
<1>8. PICK least \in ss : \A k \in ss : least <= k
  <2>1. ss \subseteq Int
    OBVIOUS
  <2> QED
    BY <1>7, <2>1, EndsOfASet
<1>9. \E n \in top : \A k \in top : n.seq <= k.seq
  BY <1>7, <1>8
<1>10. Search!First = CHOOSE n \in top : \A k \in top : n.seq <= k.seq
  BY <1>5 DEF Search!First
<1>11. Search!First \in top
  BY <1>9, <1>10
<1>12. \A n \in heap : n.bound <= Search!TopBound
  BY <1>1, <1>2, <1>4
<1> QED
  BY <1>1, <1>4, <1>5, <1>11, <1>12

-----------------------------------------------------------------------------
(* What is below a node is below one of its quarters.                        *)
LEMMA HalfAbove ==
  ASSUME NEW s \in Nat \ {0}, NEW n \in Nat, n % (2 * s) = 0, NEW p \in Nat, p \div (2 * s) = n \div (2 * s)
  PROVE  \E k \in {0, s} : (n + k) \div s = p \div s /\ n + k <= p
<1>1. PICK k \in Nat : k = n \div (2 * s)
  OBVIOUS
<1>2. n = (2 * s) * k
  <2>1. PICK m \in Nat \ {0} : m = 2 * s
    OBVIOUS
  <2>2. n % m = n - m * (n \div m)
    BY Division
  <2> QED
    BY <1>1, <2>1, <2>2
<1>3. n = s * (2 * k) /\ n + s = s * (2 * k + 1)
  BY <1>2
<1>4. \A m \in Nat : (s * m) \div s = m
  OBVIOUS
<1>5. PICK q \in Nat : q = p \div s /\ s * q <= p
  <2>1. p % s = p - s * (p \div s) /\ p % s >= 0 /\ p \div s \in Nat
    BY Division
  <2>2. PICK q \in Nat : q = p \div s
    BY <2>1
  <2>3. s * q \in Nat
    OBVIOUS
  <2> QED
    BY <2>1, <2>2, <2>3
<1>6. q \div 2 = k
  <2>1. p \div (2 * s) = (p \div s) \div 2
    BY p \in Int, HalvesOfABlock
  <2>2. (p \div s) \div 2 = k
    BY <1>1, <2>1
  <2> QED
    BY <1>5, <2>2
<1>7. q = 2 * k \/ q = 2 * k + 1
  BY <1>6
<1>8. CASE q = 2 * k
  <2>1. n \div s = q /\ n + 0 = n /\ n <= p
    BY <1>3, <1>4, <1>5, <1>8
  <2> QED
    BY <1>5, <2>1
<1>9. CASE q = 2 * k + 1
  <2>1. (n + s) \div s = q /\ n + s <= p
    BY <1>3, <1>4, <1>5, <1>9
  <2> QED
    BY <1>5, <2>1
<1> QED
  BY <1>7, <1>8, <1>9

(* A block's first cell.                                                     *)
LEMMA CornerAbove ==
  ASSUME NEW s \in Nat \ {0}, NEW p \in Nat
  PROVE  /\ (p \div s) * s \in Nat /\ (p \div s) * s <= p
         /\ ((p \div s) * s) \div s = p \div s /\ ((p \div s) * s) % s = 0
<1>1. PICK q \in Nat : q = p \div s
  OBVIOUS
<1>2. p % s = p - s * q /\ p % s >= 0
  BY <1>1, Division
<1>3. q * s = s * q /\ s * q \in Nat
  OBVIOUS
<1>4. (s * q) \div s = q /\ (s * q) % s = 0
  OBVIOUS
<1> QED
  BY <1>1, <1>2, <1>3, <1>4

(* The quarters of a node: where they are, and what is below them.           *)
LEMMA QuartersAre ==
  ASSUME Loaded, Clear, NEW n, NodeOK(n), n.level > 0
  PROVE  /\ IsFiniteSet(Search!Quarters(n)) /\ n.level - 1 \in 0 .. Search!StartLevel
         /\ \A c \in Search!Quarters(n) :
               /\ c \in Spots
               /\ c[1] % Search!Step(n.level - 1) = 0 /\ c[2] % Search!Step(n.level - 1) = 0
               /\ Search!Hits(n.level - 1, c, n.yaw) <= n.bound
         /\ \A p \in Spots : Search!BlockOf(p, n.level) = Search!BlockOf(n.cell, n.level) =>
               \E c \in Search!Quarters(n) : Search!BlockOf(p, n.level - 1) = Search!BlockOf(c, n.level - 1)
<1>1. PICK l \in 1 .. Search!StartLevel : l = n.level
  BY StartLevelIs, SearchAssumption DEF NodeOK
<1>2. l \in Nat /\ l - 1 \in Nat /\ (l - 1) + 1 = l /\ l - 1 \in 0 .. Search!StartLevel /\ Search!StartLevel \in Nat
  BY <1>1, StartLevelIs, SearchAssumption
<1>3. PICK s \in Nat \ {0} : s = Search!Step(l - 1) /\ Search!Step(l) = 2 * s
  BY <1>2, Steps
<1>4. PICK x \in Nat : x = n.cell[1] /\ x < Width /\ x % (2 * s) = 0
  BY <1>1, <1>3, SearchAssumption DEF NodeOK, Spots
<1>5. PICK y \in Nat : y = n.cell[2] /\ y < Height /\ y % (2 * s) = 0
  BY <1>1, <1>3, SearchAssumption DEF NodeOK, Spots
<1>6. \A u, v : <<u, v>> \in Search!Quarters(n) <=> u \in {x, x + s} /\ v \in {y, y + s} /\ u < Width /\ v < Height
  <2>1. Search!Quarters(n) = {c \in {<<x + dx, y + dy>> : dx, dy \in {0, s}} : c[1] < Width /\ c[2] < Height}
    BY <1>1, <1>3, <1>4, <1>5 DEF Search!Quarters
  <2>2. x + 0 = x /\ y + 0 = y
    BY <1>4, <1>5
  <2> QED
    BY <2>1, <2>2
<1>7. \A c \in Search!Quarters(n) : c = <<c[1], c[2]>>
  BY DEF Search!Quarters
<1>8. \A c \in Search!Quarters(n) : c \in Spots /\ c[1] \in {x, x + s} /\ c[2] \in {y, y + s}
  <2> TAKE c \in Search!Quarters(n)
  <2>1. c[1] \in {x, x + s} /\ c[2] \in {y, y + s} /\ c[1] < Width /\ c[2] < Height
    BY <1>6, <1>7
  <2>2. c[1] \in 0 .. Width - 1 /\ c[2] \in 0 .. Height - 1
    <3>1. Width \in Nat /\ Height \in Nat
      BY SearchAssumption
    <3>2. c[1] \in Nat /\ c[2] \in Nat
      BY <2>1
    <3> QED
      BY <2>1, <3>1, <3>2
  <2> QED
    BY <1>7, <2>1, <2>2 DEF Spots
<1>9. IsFiniteSet(Search!Quarters(n))
  <2>1. IsFiniteSet({x, x + s} \X {y, y + s})
    <3>1. \A u, v : IsFiniteSet({u, v})
      <4> TAKE u, v
      <4>1. IsFiniteSet({u}) /\ {u, v} = {u} \union {v}
        BY FS_Singleton
      <4> QED
        BY <4>1, FS_AddElement
    <3> QED
      BY <3>1, FS_Product
  <2>2. Search!Quarters(n) \subseteq {x, x + s} \X {y, y + s}
    BY <1>7, <1>8
  <2> QED
    BY <2>1, <2>2, FS_Subset
<1>10. ASSUME NEW c \in Search!Quarters(n)
       PROVE  /\ c[1] % Search!Step(l - 1) = 0 /\ c[2] % Search!Step(l - 1) = 0
              /\ Search!Hits(l - 1, c, n.yaw) <= Search!Hits(l, n.cell, n.yaw)
  <2>1. n.yaw \in Yaws /\ n.cell \in Spots /\ n.cell[1] % Search!Step(l) = 0 /\ n.cell[2] % Search!Step(l) = 0
    BY <1>1 DEF NodeOK
  <2>2. c \in Spots /\ c[1] \in {n.cell[1], n.cell[1] + Search!Step(l - 1)}
        /\ c[2] \in {n.cell[2], n.cell[2] + Search!Step(l - 1)}
    BY <1>3, <1>4, <1>5, <1>8
  <2> QED
    BY <2>1, <2>2, BoundNeverGrows
<1>11. n.bound = Search!Hits(l, n.cell, n.yaw)
  BY <1>1 DEF NodeOK
<1>12. ASSUME NEW p \in Spots, Search!BlockOf(p, l) = Search!BlockOf(n.cell, l)
       PROVE  \E c \in Search!Quarters(n) : Search!BlockOf(p, l - 1) = Search!BlockOf(c, l - 1)
  <2>1. p[1] \in Nat /\ p[2] \in Nat /\ p[1] < Width /\ p[2] < Height
    BY SearchAssumption DEF Spots
  <2>2. p[1] \div (2 * s) = x \div (2 * s) /\ p[2] \div (2 * s) = y \div (2 * s)
    <3>1. <<p[1] \div (2 * s), p[2] \div (2 * s)>> = <<x \div (2 * s), y \div (2 * s)>>
      BY <1>3, <1>4, <1>5, <1>12 DEF Search!BlockOf
    <3> QED
      BY <3>1
  <2>3. PICK j \in {0, s} : (x + j) \div s = p[1] \div s /\ x + j <= p[1]
    BY <1>4, <2>1, <2>2, HalfAbove
  <2>4. PICK k \in {0, s} : (y + k) \div s = p[2] \div s /\ y + k <= p[2]
    BY <1>5, <2>1, <2>2, HalfAbove
  <2>5. <<x + j, y + k>> \in Search!Quarters(n)
    <3>1. Width \in Nat /\ Height \in Nat
      BY SearchAssumption
    <3>2. x + j \in Nat /\ y + k \in Nat
      OBVIOUS
    <3>3. x + j < Width /\ y + k < Height
      BY <2>1, <2>3, <2>4, <3>1, <3>2
    <3>4. x + j \in {x, x + s} /\ y + k \in {y, y + s}
      OBVIOUS
    <3> QED
      BY <1>6, <3>3, <3>4
  <2>6. Search!BlockOf(p, l - 1) = Search!BlockOf(<<x + j, y + k>>, l - 1)
    BY <1>3, <2>3, <2>4 DEF Search!BlockOf
  <2> QED
    BY <2>5, <2>6
<1> QED
  BY <1>1, <1>2, <1>8, <1>9, <1>10, <1>11, <1>12

LEMMA TopCellsAre ==
  /\ IsFiniteSet(Search!TopCells)
  /\ \A c \in Search!TopCells : /\ c \in Spots
                                /\ c[1] % Search!Step(Search!StartLevel) = 0
                                /\ c[2] % Search!Step(Search!StartLevel) = 0
  /\ \A p \in Spots : \E c \in Search!TopCells :
        Search!BlockOf(p, Search!StartLevel) = Search!BlockOf(c, Search!StartLevel)
<1>1. PICK l \in Nat : l = Search!StartLevel
  BY StartLevelIs, SearchAssumption
<1>2. PICK s \in Nat \ {0} : s = Search!Step(l)
  BY Steps
<1>3. Search!TopCells = {<<b[1] * s, b[2] * s>> : b \in Search!Blocks(l)}
  BY <1>1, <1>2 DEF Search!TopCells
<1>4. IsFiniteSet(Search!TopCells)
  <2>1. PICK f : f = [b \in Search!Blocks(l) |-> <<b[1] * s, b[2] * s>>]
    OBVIOUS
  <2>2. IsFiniteSet({f[b] : b \in Search!Blocks(l)})
    BY BlocksAre, FiniteImage
  <2>3. {f[b] : b \in Search!Blocks(l)} = Search!TopCells
    BY <1>3, <2>1
  <2> QED
    BY <2>2, <2>3
<1>5. ASSUME NEW c \in Search!TopCells
      PROVE  c \in Spots /\ c[1] % s = 0 /\ c[2] % s = 0
  <2>1. PICK b \in Search!Blocks(l) : c = <<b[1] * s, b[2] * s>>
    BY <1>3
  <2>2. PICK w \in Nat : w = Width - 1
    BY SearchAssumption
  <2>3. PICK h \in Nat : h = Height - 1
    BY SearchAssumption
  <2>4. b[1] \in 0 .. w \div s /\ b[2] \in 0 .. h \div s
    BY <1>2, <2>2, <2>3 DEF Search!Blocks
  <2>5. \A m \in Nat : (m * s) % s = 0 /\ m * s \in Nat
    OBVIOUS
  <2>6. /\ b[1] \in Nat /\ b[2] \in Nat /\ w \div s \in Nat /\ h \div s \in Nat
        /\ b[1] <= w \div s /\ b[2] <= h \div s
    BY <2>4
  <2>7. b[1] * s <= (w \div s) * s /\ b[2] * s <= (h \div s) * s
    <3>1. \A i, k \in Nat : i <= k => i * s <= k * s
      OBVIOUS
    <3> QED
      BY <2>6, <3>1
  <2>8. b[1] * s \in 0 .. w /\ b[2] * s \in 0 .. h
    <3>1. /\ (w \div s) * s <= w /\ (w \div s) * s \in Nat
          /\ (h \div s) * s <= h /\ (h \div s) * s \in Nat
      BY CornerAbove
    <3>2. b[1] * s \in Nat /\ b[2] * s \in Nat
      BY <2>5, <2>6
    <3> QED
      BY <2>7, <3>1, <3>2
  <2>9. c[1] = b[1] * s /\ c[2] = b[2] * s
    BY <2>1
  <2>10. c \in Spots
    BY <2>1, <2>2, <2>3, <2>8 DEF Spots
  <2> QED
    BY <2>5, <2>6, <2>9, <2>10
<1>6. ASSUME NEW p \in Spots
      PROVE  \E c \in Search!TopCells : Search!BlockOf(p, l) = Search!BlockOf(c, l)
  <2>1. p[1] \in Nat /\ p[2] \in Nat /\ p[1] <= Width - 1 /\ p[2] <= Height - 1 /\ Width - 1 \in Nat /\ Height - 1 \in Nat
    BY SearchAssumption DEF Spots
  <2>2. p[1] \div s \in 0 .. (Width - 1) \div s /\ p[2] \div s \in 0 .. (Height - 1) \div s
    BY <2>1
  <2>3. <<p[1] \div s, p[2] \div s>> \in Search!Blocks(l)
    BY <1>2, <2>2, BlockIs
  <2>4. <<(p[1] \div s) * s, (p[2] \div s) * s>> \in Search!TopCells
    BY <1>3, <2>3
  <2>5. ((p[1] \div s) * s) \div s = p[1] \div s /\ ((p[2] \div s) * s) \div s = p[2] \div s
    BY <2>1, CornerAbove
  <2>6. Search!BlockOf(p, l) = Search!BlockOf(<<(p[1] \div s) * s, (p[2] \div s) * s>>, l)
    BY <1>2, <2>5 DEF Search!BlockOf
  <2> QED
    BY <2>4, <2>6
<1> QED
  BY <1>1, <1>2, <1>4, <1>5, <1>6

(* A pose has a neighbour among the candidates that is as good, or is one.   *)
Suppressed(p) == \E i \in DOMAIN best :
    /\ best[i].score >= Search!Exact(p)
    /\ \/ best[i].cell = p[1] /\ best[i].yaw = p[2]
       \/ radius > 0 /\ Search!Near(best[i].cell, p[1], radius)

(* What was found comes before what may still be found.                      *)
BestFirst == \A n \in heap : \A i \in DOMAIN best : n.bound <= best[i].score

(* No pose is lost: it is below an open node unless it is suppressed.        *)
Covered == ~found => \A p \in Search!Poses :
    scan[p[2]] = <<>> \/ Suppressed(p) \/ \E n \in heap : p \in Search!Under(n)

SearchInv ==
    /\ Loaded /\ Clear /\ Opened /\ sequence \in Nat /\ radius \in Nat
    /\ best \in Seq(Finds) /\ Len(best) <= MaxCandidates
    /\ BestFirst /\ Covered /\ Search!Exhaustive

LEMMA NodeIs ==
  ASSUME Loaded, NEW l \in 0 .. Search!StartLevel, NEW c \in Spots, NEW y \in Yaws, NEW k \in Nat,
         c[1] % Search!Step(l) = 0, c[2] % Search!Step(l) = 0
  PROVE  /\ NodeOK(Search!Node(l, c, y, k))
         /\ Search!Node(l, c, y, k).level = l /\ Search!Node(l, c, y, k).cell = c
         /\ Search!Node(l, c, y, k).yaw = y /\ Search!Node(l, c, y, k).bound = Search!Hits(l, c, y)
BY DEF Search!Node, NodeOK

LEMMA PlaceIs ==
  ASSUME NEW cells, IsFiniteSet(cells)
  PROVE  Search!Cardinality(cells) \in Nat /\ \A c : Search!Place(cells, c) \in Nat
<1>1. Search!Cardinality(cells) \in Nat
  BY SearchCounts, FS_CardinalityType
<1>2. ASSUME NEW c PROVE Search!Place(cells, c) \in Nat
  <2>1. PICK before : before = {d \in cells : Search!RowMajor(d, c)}
    OBVIOUS
  <2>2. Cardinality(before) \in Nat
    BY <2>1, FS_Subset, FS_CardinalityType
  <2> QED
    BY <2>1, <2>2, SearchCounts DEF Search!Place
<1> QED
  BY <1>1, <1>2

LEMMA SeedIs ==
  ASSUME Loaded, Clear
  PROVE  /\ IsFiniteSet(Search!Seed) /\ \A n \in Search!Seed : NodeOK(n)
         /\ Search!Cardinality(Search!Seed) \in Nat
         /\ \A p \in Search!Poses : \E n \in Search!Seed : p \in Search!Under(n)
<1> DEFINE At(c, y) == y * Search!Cardinality(Search!TopCells) + Search!Place(Search!TopCells, c)
<1>1. Search!Seed = {Search!Node(Search!StartLevel, c, y, At(c, y)) : c \in Search!TopCells, y \in Yaws}
  BY DEF Search!Seed
<1>2. \A c \in Search!TopCells, y \in Yaws : At(c, y) \in Nat
  <2>1. IsFiniteSet(Search!TopCells)
    BY TopCellsAre
  <2>2. Search!Cardinality(Search!TopCells) \in Nat /\ \A c : Search!Place(Search!TopCells, c) \in Nat
    BY <2>1, PlaceIs
  <2>3. Yaws \subseteq Nat
    BY SearchAssumption
  <2> QED
    BY <2>2, <2>3
<1> HIDE DEF At
<1>3. Search!StartLevel \in 0 .. Search!StartLevel
  BY StartLevelIs, SearchAssumption
<1>4. ASSUME NEW c \in Search!TopCells, NEW y \in Yaws
      PROVE  /\ NodeOK(Search!Node(Search!StartLevel, c, y, At(c, y)))
             /\ Search!Node(Search!StartLevel, c, y, At(c, y)).level = Search!StartLevel
             /\ Search!Node(Search!StartLevel, c, y, At(c, y)).cell = c
             /\ Search!Node(Search!StartLevel, c, y, At(c, y)).yaw = y
  BY <1>2, <1>3, TopCellsAre, NodeIs
<1>5. \A n \in Search!Seed : NodeOK(n)
  BY <1>1, <1>4
<1>6. IsFiniteSet(Search!Seed)
  <2>1. PICK f : f = [q \in Search!TopCells \X Yaws |-> Search!Node(Search!StartLevel, q[1], q[2], At(q[1], q[2]))]
    OBVIOUS
  <2>2. IsFiniteSet(Search!TopCells \X Yaws)
    BY TopCellsAre, SearchAssumption, FS_Product
  <2>3. IsFiniteSet({f[q] : q \in Search!TopCells \X Yaws})
    BY <2>2, FiniteImage
  <2>4. \A c \in Search!TopCells, y \in Yaws :
            <<c, y>> \in Search!TopCells \X Yaws /\ f[<<c, y>>] = Search!Node(Search!StartLevel, c, y, At(c, y))
    BY <2>1
  <2>5. \A n \in Search!Seed : \E q \in Search!TopCells \X Yaws : n = f[q]
    <3> TAKE n \in Search!Seed
    <3>1. PICK c \in Search!TopCells, y \in Yaws : n = Search!Node(Search!StartLevel, c, y, At(c, y))
      BY <1>1
    <3> QED
      BY <2>4, <3>1
  <2>6. Search!Seed \subseteq {f[q] : q \in Search!TopCells \X Yaws}
    BY <2>5
  <2> QED
    BY <2>3, <2>6, FS_Subset
<1>7. ASSUME NEW p \in Search!Poses PROVE \E n \in Search!Seed : p \in Search!Under(n)
  <2>1. p[1] \in Spots /\ p[2] \in Yaws
    BY DEF Search!Poses, Spots
  <2>2. PICK c \in Search!TopCells : Search!BlockOf(p[1], Search!StartLevel) = Search!BlockOf(c, Search!StartLevel)
    BY <2>1, TopCellsAre
  <2>3. p \in Search!Under(Search!Node(Search!StartLevel, c, p[2], At(c, p[2])))
    BY <1>4, <2>1, <2>2 DEF Search!Under
  <2> QED
    BY <1>1, <2>1, <2>3
<1> QED
  BY <1>5, <1>6, <1>7, SearchCounts, FS_CardinalityType

LEMMA SearchInit == Search!Init => SearchInv
<1> SUFFICES ASSUME Search!Init PROVE SearchInv
  OBVIOUS
<1>1. PICK t \in Tasks : grid = Search!MatchingGrid(t.map) /\ scan = t.scan
  BY DEF Search!Init, Search!SearchInit
<1>2. /\ upper_bound_pyramid = [l \in 0 .. Search!StartLevel |-> Search!UpperBound(l)]
      /\ radius \in Radii /\ best = <<>> /\ found = FALSE
      /\ heap = IF \A y \in Yaws : scan[y] = <<>> THEN {} ELSE Search!Seed
      /\ sequence = IF \A y \in Yaws : scan[y] = <<>> THEN 0 ELSE Search!Cardinality(Search!Seed)
  BY DEF Search!Init, Search!SearchInit
<1>3. Loaded
  BY <1>1, SearchAssumption DEF Loaded
<1>4. ASSUME NEW c \in grid PROVE c \in Spots
  <2>1. c \in Search!Blocks(0)
    BY <1>1 DEF Search!MatchingGrid
  <2>2. (Width - 1) \div 1 = Width - 1 /\ (Height - 1) \div 1 = Height - 1
    BY SearchAssumption
  <2> QED
    BY <2>1, <2>2, Steps DEF Search!Blocks, Spots
<1>5. Clear
  BY <1>1, <1>2, <1>4, PaddingAssumption DEF Clear
<1>6. radius \in Nat
  BY <1>2, SearchAssumption
<1>7. best \in Seq(Finds) /\ Len(best) = 0 /\ DOMAIN best = {} /\ Len(best) <= MaxCandidates
  <2>1. best \in Seq(Finds) /\ Len(best) = 0
    BY <1>2, EmptySeq
  <2>2. DOMAIN best = {}
    BY <2>1, LenProperties
  <2> QED
    BY <2>1, <2>2, SearchAssumption
<1>8. BestFirst /\ Search!Exhaustive
  BY <1>2, <1>7 DEF BestFirst, Search!Exhaustive
<1>9. CASE \A y \in Yaws : scan[y] = <<>>
  <2>1. heap = {} /\ sequence = 0
    BY <1>2, <1>9
  <2>2. \A p \in Search!Poses : p[2] \in Yaws
    BY DEF Search!Poses
  <2>3. Covered
    BY <1>9, <2>2 DEF Covered
  <2>4. Opened
    BY <2>1, FS_EmptySet DEF Opened
  <2> QED
    BY <1>3, <1>5, <1>6, <1>7, <1>8, <2>1, <2>3, <2>4 DEF SearchInv
<1>10. CASE ~\A y \in Yaws : scan[y] = <<>>
  <2>1. heap = Search!Seed /\ sequence = Search!Cardinality(Search!Seed)
    BY <1>2, <1>10
  <2>2. Covered /\ Opened /\ sequence \in Nat
    BY <1>3, <1>5, <2>1, SeedIs DEF Covered, Opened
  <2> QED
    BY <1>3, <1>5, <1>6, <1>7, <1>8, <2>2 DEF SearchInv
<1> QED
  BY <1>9, <1>10

(* While the front is worth opening, the list of candidates is not full.     *)
LEMMA OpenIsNotFull ==
  ASSUME SearchInv, Search!Open
  PROVE  /\ ~Search!Full /\ Len(best) + 1 <= MaxCandidates
         /\ Search!First \in heap /\ NodeOK(Search!First)
         /\ \A n \in heap : n.bound \in Nat /\ n.bound <= Search!First.bound
         /\ \A i \in DOMAIN best : Search!First.bound <= best[i].score
<1>1. /\ Loaded /\ Opened /\ heap # {} /\ best \in Seq(Finds) /\ BestFirst
      /\ ~(Search!Full /\ Search!TopBound <= Search!Kth)
  BY DEF SearchInv, Search!Open
<1>2. /\ Search!First \in heap /\ Search!First.bound = Search!TopBound /\ Search!TopBound \in Nat
      /\ \A n \in heap : n.bound \in Nat /\ n.bound <= Search!First.bound
  BY <1>1, FirstIs
<1>3. NodeOK(Search!First)
  BY <1>1, <1>2 DEF Opened
<1>4. \A i \in DOMAIN best : Search!First.bound <= best[i].score
  BY <1>1, <1>2 DEF BestFirst
<1>5. Len(best) \in Nat /\ DOMAIN best = 1 .. Len(best) /\ MaxCandidates \in Nat \ {0}
  BY <1>1, LenProperties, SearchAssumption
<1>6. ~Search!Full
  <2>1. SUFFICES ASSUME Search!Full PROVE FALSE
    OBVIOUS
  <2>2. Len(best) >= MaxCandidates
    BY <2>1 DEF Search!Full
  <2>3. Len(best) \in DOMAIN best
    BY <1>5, <2>2
  <2>4. Search!First.bound <= Search!Kth
    BY <1>4, <2>3 DEF Search!Kth
  <2> QED
    BY <1>1, <1>2, <2>1, <2>4
<1>7. Len(best) + 1 <= MaxCandidates
  BY <1>5, <1>6 DEF Search!Full
<1> QED
  BY <1>2, <1>3, <1>4, <1>6, <1>7

LEMMA FoundAre ==
  ASSUME best \in Seq(Finds)
  PROVE  /\ Len(best) \in Nat /\ DOMAIN best = 1 .. Len(best)
         /\ \A i \in DOMAIN best : best[i] \in Finds /\ best[i].score \in Nat
<1>1. Len(best) \in Nat /\ DOMAIN best = 1 .. Len(best)
  BY LenProperties
<1>2. \A i \in 1 .. Len(best) : best[i] \in Finds
  BY ElementOfSeq
<1>3. \A f \in Finds : f.score \in Nat
  BY DEF Finds
<1> QED
  BY <1>1, <1>2, <1>3

(* A leaf no better than what was found is appended, or suppressed by a      *)
(* neighbour that is as good.                                                *)
LEMMA MergedIs ==
  ASSUME best \in Seq(Finds), radius \in Nat, Len(best) + 1 <= MaxCandidates, NEW c \in Finds,
         \A i \in DOMAIN best : c.score <= best[i].score
  PROVE  /\ Search!Kept(Search!Merged(c)) \in Seq(Finds) /\ Len(Search!Kept(Search!Merged(c))) <= MaxCandidates
         /\ \A k \in DOMAIN Search!Kept(Search!Merged(c)) :
               \/ Search!Kept(Search!Merged(c))[k] = c
               \/ \E i \in DOMAIN best : Search!Kept(Search!Merged(c))[k] = best[i]
         /\ \A i \in DOMAIN best : \E k \in DOMAIN Search!Kept(Search!Merged(c)) :
               Search!Kept(Search!Merged(c))[k] = best[i]
         /\ \/ \E k \in DOMAIN Search!Kept(Search!Merged(c)) : Search!Kept(Search!Merged(c))[k] = c
            \/ radius > 0 /\ \E i \in DOMAIN best : Search!Near(best[i].cell, c.cell, radius)
         /\ \A k \in DOMAIN Search!Kept(Search!Merged(c)) :
               Search!Kept(Search!Merged(c))[1].score >= Search!Kept(Search!Merged(c))[k].score
<1>1. Len(best) \in Nat /\ DOMAIN best = 1 .. Len(best) /\ MaxCandidates \in Nat
      /\ \A i \in 1 .. Len(best) : best[i] \in Finds /\ best[i].score \in Nat
  BY FoundAre, SearchAssumption
<1>2. CASE Search!NearOnes(c) = {}
  <2>1. PICK seq \in Seq(Finds) : seq = Append(best, c)
    BY AppendProperties
  <2>2. Search!Merged(c) = seq
    BY <1>2, <2>1 DEF Search!Merged
  <2>3. /\ Len(seq) = Len(best) + 1 /\ seq[Len(best) + 1] = c
        /\ \A i \in 1 .. Len(best) : seq[i] = best[i]
    BY <2>1, AppendProperties
  <2>4. PICK kept \in Seq(Finds) : /\ kept = Search!Kept(seq) /\ Len(kept) = Len(seq)
                                   /\ \A k \in 1 .. Len(seq) : \E i \in 1 .. Len(seq) : kept[k] = seq[i]
                                   /\ \A i \in 1 .. Len(seq) : \E k \in 1 .. Len(seq) : kept[k] = seq[i]
                                   /\ \A i \in 1 .. Len(seq) : kept[1].score >= seq[i].score
    <3>1. Search!Kept(seq) = Search!Sorted(seq, Search!Before)
      BY <2>3, KeptIsAll
    <3>2. Reordered(Search!Kept(seq), seq, Finds)
      BY <3>1, SortedFinds
    <3>3. \A i \in 1 .. Len(seq) : Search!Kept(seq)[1].score >= seq[i].score
      BY <3>1, SortedFinds
    <3> QED
      BY <3>2, <3>3 DEF Reordered
  <2>5. DOMAIN kept = 1 .. Len(seq)
    BY <2>4, LenProperties
  <2>6. \A i \in 1 .. Len(seq) : i \in 1 .. Len(best) \/ i = Len(best) + 1
    BY <1>1, <2>3
  <2>7. \A k \in DOMAIN kept : kept[k] = c \/ \E i \in DOMAIN best : kept[k] = best[i]
    <3> TAKE k \in DOMAIN kept
    <3>1. PICK i \in 1 .. Len(seq) : kept[k] = seq[i]
      BY <2>4, <2>5
    <3> QED
      BY <1>1, <2>3, <2>6, <3>1
  <2>8. \A i \in 1 .. Len(best) : i \in 1 .. Len(seq)
    BY <1>1, <2>3
  <2>9. \A i \in DOMAIN best : \E k \in DOMAIN kept : kept[k] = best[i]
    <3> TAKE i \in DOMAIN best
    <3>1. seq[i] = best[i] /\ i \in 1 .. Len(seq)
      BY <1>1, <2>3, <2>8
    <3>2. \E k \in 1 .. Len(seq) : kept[k] = seq[i]
      BY <2>4, <3>1
    <3> QED
      BY <2>5, <3>1, <3>2
  <2>10. \E k \in DOMAIN kept : kept[k] = c
    <3>1. Len(best) + 1 \in 1 .. Len(seq)
      BY <1>1, <2>3
    <3> QED
      BY <2>3, <2>4, <2>5, <3>1
  <2>11. \A k \in DOMAIN kept : kept[1].score >= kept[k].score
    BY <2>4, <2>5
  <2> QED
    BY <2>2, <2>3, <2>4, <2>7, <2>9, <2>10, <2>11
<1>3. CASE Search!NearOnes(c) # {}
  <2>1. PICK ones \in SUBSET Nat : ones = Search!NearOnes(c) /\ ones \subseteq DOMAIN best /\ IsFiniteSet(ones)
    <3>1. PICK len \in Nat : len = Len(best)
      BY <1>1
    <3>2. Search!NearOnes(c) \subseteq 1 .. len
      BY <1>1, <3>1 DEF Search!NearOnes
    <3>3. IsFiniteSet(1 .. len)
      BY FS_Interval
    <3> QED
      BY <1>1, <3>1, <3>2, <3>3, FS_Subset
  <2>2. \E j \in ones : \A k \in ones : j <= k
    <3>1. ones \subseteq Int /\ ones # {}
      BY <1>3, <2>1
    <3> QED
      BY <2>1, <3>1, EndsOfASet
  <2>3. PICK i \in ones : i = CHOOSE j \in ones : \A k \in ones : j <= k
    BY <2>2
  <2>4. i \in DOMAIN best /\ radius > 0 /\ Search!Near(best[i].cell, c.cell, radius)
    BY <2>1 DEF Search!NearOnes
  <2>5. ~(c.score > best[i].score)
    <3>1. c.score \in Nat /\ best[i].score \in Nat /\ c.score <= best[i].score
      BY <1>1, <2>4 DEF Finds
    <3> QED
      BY <3>1
  <2>6. Search!Merged(c) = best
    BY <1>3, <2>1, <2>3, <2>5 DEF Search!Merged
  <2>7. Len(best) <= MaxCandidates
    BY <1>1
  <2>8. PICK kept \in Seq(Finds) : /\ kept = Search!Kept(best) /\ Len(kept) = Len(best)
                                   /\ \A k \in 1 .. Len(best) : \E n \in 1 .. Len(best) : kept[k] = best[n]
                                   /\ \A n \in 1 .. Len(best) : \E k \in 1 .. Len(best) : kept[k] = best[n]
                                   /\ \A n \in 1 .. Len(best) : kept[1].score >= best[n].score
    <3>1. Search!Kept(best) = Search!Sorted(best, Search!Before)
      BY <2>7, KeptIsAll
    <3>2. Reordered(Search!Kept(best), best, Finds)
      BY <3>1, SortedFinds
    <3>3. \A n \in 1 .. Len(best) : Search!Kept(best)[1].score >= best[n].score
      BY <3>1, SortedFinds
    <3> QED
      BY <3>2, <3>3 DEF Reordered
  <2>9. DOMAIN kept = 1 .. Len(best)
    BY <2>8, LenProperties
  <2>10. \A k \in DOMAIN kept : \E n \in DOMAIN best : kept[k] = best[n]
    BY <1>1, <2>8, <2>9
  <2>11. \A n \in DOMAIN best : \E k \in DOMAIN kept : kept[k] = best[n]
    BY <1>1, <2>8, <2>9
  <2>12. Search!Kept(Search!Merged(c)) = kept /\ Len(kept) <= MaxCandidates
    BY <2>6, <2>7, <2>8
  <2>13. \A k \in DOMAIN kept : kept[1].score >= kept[k].score
    BY <2>8, <2>9
  <2> QED
    BY <2>4, <2>10, <2>11, <2>12, <2>13
<1> QED
  BY <1>2, <1>3

LEMMA SameHits ==
  (UNCHANGED <<scan, upper_bound_pyramid>>) =>
     \A l, c, y : Search!Hits(l, c, y)' = Search!Hits(l, c, y)
BY DEF Search!Hits

LEMMA SameLoad ==
  ASSUME SearchInv, UNCHANGED <<grid, scan, upper_bound_pyramid, radius>>
  PROVE  /\ Loaded' /\ Clear' /\ radius' \in Nat
         /\ \A n : NodeOK(n)' <=> NodeOK(n)
         /\ \A p : Search!Exact(p)' = Search!Exact(p)
<1>1. Loaded' /\ radius' \in Nat
  BY DEF SearchInv, Loaded
<1>2. Clear'
  <2>1. \A l : Search!UpperBound(l)' = Search!UpperBound(l)
    BY DEF Search!UpperBound, Search!Dilate, Search!Pooled
  <2> QED
    BY <2>1 DEF SearchInv, Clear
<1>3. \A n : NodeOK(n)' <=> NodeOK(n)
  BY SameHits DEF NodeOK
<1>4. \A p : Search!Exact(p)' = Search!Exact(p)
  BY SameHits DEF Search!Exact
<1> QED
  BY <1>1, <1>2, <1>3, <1>4

LEMMA LeafStep == SearchInv /\ Search!Leaf => SearchInv'
<1> SUFFICES ASSUME SearchInv, Search!Leaf PROVE SearchInv'
  OBVIOUS
<1>1. PICK n : n = Search!First
  OBVIOUS
<1>2. PICK c : c = [cell |-> n.cell, yaw |-> n.yaw, score |-> Search!Hits(0, n.cell, n.yaw)]
  OBVIOUS
<1>3. /\ Search!Open /\ n.level = 0 /\ best' = Search!Kept(Search!Merged(c)) /\ heap' = heap \ {n}
      /\ UNCHANGED <<grid, scan, taken, upper_bound_pyramid, radius, sequence, found>>
  BY <1>1, <1>2 DEF Search!Leaf
<1>4. /\ Loaded /\ Clear /\ Opened /\ sequence \in Nat /\ radius \in Nat
      /\ best \in Seq(Finds) /\ Len(best) <= MaxCandidates /\ BestFirst /\ Covered
  BY DEF SearchInv
<1>5. /\ Len(best) + 1 <= MaxCandidates /\ n \in heap /\ NodeOK(n)
      /\ \A m \in heap : m.bound \in Nat /\ m.bound <= n.bound
      /\ \A i \in DOMAIN best : n.bound <= best[i].score
  BY <1>1, <1>3, OpenIsNotFull
<1>6. c.cell = n.cell /\ c.yaw = n.yaw /\ c.score = n.bound /\ c \in Finds
  <2>1. n.cell \in Spots /\ n.yaw \in Yaws /\ n.bound = Search!Hits(0, n.cell, n.yaw)
    BY <1>3, <1>5 DEF NodeOK
  <2>2. n.bound \in Nat
    BY <1>5
  <2> QED
    BY <1>2, <2>1, <2>2 DEF Finds
<1>7. /\ best' \in Seq(Finds) /\ Len(best') <= MaxCandidates
      /\ \A k \in DOMAIN best' : best'[k] = c \/ \E i \in DOMAIN best : best'[k] = best[i]
      /\ \A i \in DOMAIN best : \E k \in DOMAIN best' : best'[k] = best[i]
      /\ \/ \E k \in DOMAIN best' : best'[k] = c
         \/ radius > 0 /\ \E i \in DOMAIN best : Search!Near(best[i].cell, c.cell, radius)
  <2>1. \A i \in DOMAIN best : c.score <= best[i].score
    BY <1>5, <1>6
  <2> QED
    BY <1>3, <1>4, <1>5, <1>6, <2>1, MergedIs
<1>8. /\ Loaded' /\ Clear' /\ radius' \in Nat /\ \A m : NodeOK(m)' <=> NodeOK(m)
      /\ \A p : Search!Exact(p)' = Search!Exact(p)
  BY <1>3, SameLoad
<1>9. Opened'
  BY <1>3, <1>4, <1>8, FS_Subset DEF Opened
<1>10. BestFirst'
  <2> SUFFICES ASSUME NEW m \in heap', NEW k \in DOMAIN best' PROVE m.bound <= best'[k].score
    BY DEF BestFirst
  <2>1. m \in heap
    BY <1>3
  <2>2. CASE best'[k] = c
    BY <1>5, <1>6, <2>1, <2>2
  <2>3. ASSUME NEW i \in DOMAIN best, best'[k] = best[i] PROVE m.bound <= best'[k].score
    BY <1>4, <2>1, <2>3 DEF BestFirst
  <2> QED
    BY <1>7, <2>2, <2>3
<1>11. Covered'
  <2> SUFFICES ASSUME ~found, NEW p \in Search!Poses, scan[p[2]] # <<>>
               PROVE  Suppressed(p)' \/ \E m \in heap' : p \in Search!Under(m)
    BY <1>3 DEF Covered, Search!Poses, Search!Under
  <2>1. Suppressed(p) \/ \E m \in heap : p \in Search!Under(m)
    BY <1>4 DEF Covered
  <2>2. CASE Suppressed(p)
    <3>1. PICK i \in DOMAIN best : /\ best[i].score >= Search!Exact(p)
                                   /\ \/ best[i].cell = p[1] /\ best[i].yaw = p[2]
                                      \/ radius > 0 /\ Search!Near(best[i].cell, p[1], radius)
      BY <2>2 DEF Suppressed
    <3>2. PICK k \in DOMAIN best' : best'[k] = best[i]
      BY <1>7
    <3> QED
      BY <1>3, <1>8, <3>1, <3>2 DEF Suppressed
  <2>3. ASSUME NEW m \in heap, p \in Search!Under(m), m # n
        PROVE  \E k \in heap' : p \in Search!Under(k)
    BY <1>3, <2>3
  <2>4. CASE p \in Search!Under(n)
    <3>1. p[2] = n.yaw /\ p[1] = n.cell
      <4>1. p[2] = n.yaw /\ Search!BlockOf(p[1], 0) = Search!BlockOf(n.cell, 0)
        BY <1>3, <2>4 DEF Search!Under
      <4>2. p[1] \in Spots /\ n.cell \in Spots
        BY <1>5 DEF Search!Poses, Spots, NodeOK
      <4>3. \A d \in Spots : Search!BlockOf(d, 0) = d
        <5>1. Search!Step(0) = 1 /\ \A i \in Int : i \div 1 = i
          BY Steps
        <5>2. \A d \in Spots : d[1] \in Int /\ d[2] \in Int /\ d = <<d[1], d[2]>>
          BY SearchAssumption DEF Spots
        <5> QED
          BY <5>1, <5>2 DEF Search!BlockOf
      <4> QED
        BY <4>1, <4>2, <4>3
    <3>2. Search!Exact(p) = c.score /\ c.score \in Nat
      BY <1>2, <1>6, <3>1 DEF Search!Exact, Finds
    <3>3. ASSUME NEW k \in DOMAIN best', best'[k] = c PROVE Suppressed(p)'
      <4>1. best'[k].score >= Search!Exact(p)' /\ best'[k].cell = p[1] /\ best'[k].yaw = p[2]
        BY <1>6, <1>8, <3>1, <3>2, <3>3
      <4> QED
        BY <4>1 DEF Suppressed
    <3>4. ASSUME NEW i \in DOMAIN best, radius > 0, Search!Near(best[i].cell, c.cell, radius)
          PROVE  Suppressed(p)'
      <4>1. PICK k \in DOMAIN best' : best'[k] = best[i]
        BY <1>7
      <4>2. best[i].score >= c.score
        <5>1. best[i].score \in Nat
          BY <1>4, FoundAre
        <5>2. c.score <= best[i].score
          BY <1>5, <1>6
        <5> QED
          BY <3>2, <5>1, <5>2
      <4> QED
        BY <1>3, <1>6, <1>8, <3>1, <3>2, <3>4, <4>1, <4>2 DEF Suppressed
    <3> QED
      BY <1>7, <3>3, <3>4
  <2> QED
    BY <2>1, <2>2, <2>3, <2>4
<1>12. Search!Exhaustive'
  BY <1>3 DEF Search!Exhaustive, Search!Open
<1>13. sequence' \in Nat
  BY <1>3, <1>4
<1> QED
  BY <1>7, <1>8, <1>9, <1>10, <1>11, <1>12, <1>13 DEF SearchInv

LEMMA ExpandStep == SearchInv /\ Search!Expand => SearchInv'
<1> SUFFICES ASSUME SearchInv, Search!Expand PROVE SearchInv'
  OBVIOUS
<1>1. PICK n : n = Search!First
  OBVIOUS
<1>2. PICK l : l = n.level - 1
  OBVIOUS
<1>3. PICK pushed : pushed = {c \in Search!Quarters(n) : ~Search!Hopeless(Search!Node(l, c, n.yaw, 0))}
  OBVIOUS
<1>4. /\ Search!Open /\ n.level > 0 /\ sequence' = sequence + Search!Cardinality(pushed)
      /\ heap' = (heap \ {n}) \union {Search!Node(l, c, n.yaw, sequence + Search!Place(pushed, c)) : c \in pushed}
      /\ UNCHANGED <<grid, scan, taken, upper_bound_pyramid, radius, best, found>>
  BY <1>1, <1>2, <1>3 DEF Search!Expand
<1>5. /\ Loaded /\ Clear /\ Opened /\ sequence \in Nat /\ radius \in Nat
      /\ best \in Seq(Finds) /\ Len(best) <= MaxCandidates /\ BestFirst /\ Covered
  BY DEF SearchInv
<1>6. /\ ~Search!Full /\ n \in heap /\ NodeOK(n) /\ n.bound \in Nat
      /\ \A i \in DOMAIN best : n.bound <= best[i].score
  BY <1>1, <1>4, OpenIsNotFull
<1>7. pushed = Search!Quarters(n)
  BY <1>3, <1>6 DEF Search!Hopeless
<1>8. /\ IsFiniteSet(pushed) /\ l \in 0 .. Search!StartLevel
      /\ \A c \in pushed : /\ c \in Spots /\ c[1] % Search!Step(l) = 0 /\ c[2] % Search!Step(l) = 0
                           /\ Search!Hits(l, c, n.yaw) <= n.bound
      /\ \A p \in Spots : Search!BlockOf(p, n.level) = Search!BlockOf(n.cell, n.level) =>
               \E c \in pushed : Search!BlockOf(p, l) = Search!BlockOf(c, l)
  BY <1>2, <1>4, <1>5, <1>6, <1>7, QuartersAre
<1>9. /\ Loaded' /\ Clear' /\ radius' \in Nat /\ \A m : NodeOK(m)' <=> NodeOK(m)
      /\ \A p : Search!Exact(p)' = Search!Exact(p)
  BY <1>4, SameLoad
<1>10. /\ Search!Cardinality(pushed) \in Nat
       /\ \A c \in pushed : sequence + Search!Place(pushed, c) \in Nat
  <2>1. Search!Cardinality(pushed) \in Nat /\ \A c : Search!Place(pushed, c) \in Nat
    BY <1>8, PlaceIs
  <2> QED
    BY <1>5, <2>1
<1> DEFINE Child(c) == Search!Node(l, c, n.yaw, sequence + Search!Place(pushed, c))
<1>11. ASSUME NEW c \in pushed
       PROVE  /\ NodeOK(Child(c)) /\ Child(c).level = l /\ Child(c).cell = c /\ Child(c).yaw = n.yaw
              /\ Child(c).bound = Search!Hits(l, c, n.yaw)
  <2>1. n.yaw \in Yaws
    BY <1>6 DEF NodeOK
  <2> QED
    BY <1>5, <1>8, <1>10, <2>1, NodeIs
<1>12. heap' = (heap \ {n}) \union {Child(c) : c \in pushed}
  BY <1>4
<1> HIDE DEF Child
<1>13. \A m \in heap' : m \in heap \/ \E c \in pushed : m = Child(c)
  BY <1>12
<1>14. Opened'
  <2>1. IsFiniteSet(heap')
    <3>1. PICK f : f = [c \in pushed |-> Child(c)]
      OBVIOUS
    <3>2. IsFiniteSet({f[c] : c \in pushed})
      BY <1>8, FiniteImage
    <3>3. {f[c] : c \in pushed} = {Child(c) : c \in pushed}
      BY <3>1
    <3>4. IsFiniteSet(heap \ {n})
      BY <1>5, FS_Subset DEF Opened
    <3> QED
      BY <1>12, <3>2, <3>3, <3>4, FS_Union
  <2>2. \A m \in heap' : NodeOK(m)
    BY <1>5, <1>11, <1>13 DEF Opened
  <2> QED
    BY <1>9, <2>1, <2>2 DEF Opened
<1>15. BestFirst'
  <2> SUFFICES ASSUME NEW m \in heap', NEW k \in DOMAIN best PROVE m.bound <= best[k].score
    BY <1>4 DEF BestFirst
  <2>1. CASE m \in heap
    BY <1>5, <2>1 DEF BestFirst
  <2>2. ASSUME NEW c \in pushed, m = Child(c) PROVE m.bound <= best[k].score
    <3>1. Search!Hits(l, c, n.yaw) \in Nat
      BY <1>5, <1>6, HitsCount DEF NodeOK
    <3>2. best[k].score \in Nat
      BY <1>5, FoundAre
    <3>3. m.bound <= n.bound /\ n.bound <= best[k].score /\ m.bound \in Nat
      BY <1>6, <1>8, <1>11, <2>2, <3>1
    <3> QED
      BY <1>6, <3>2, <3>3
  <2> QED
    BY <1>13, <2>1, <2>2
<1>16. Covered'
  <2> SUFFICES ASSUME ~found, NEW p \in Search!Poses, scan[p[2]] # <<>>
               PROVE  Suppressed(p)' \/ \E m \in heap' : p \in Search!Under(m)
    BY <1>4 DEF Covered, Search!Poses, Search!Under
  <2>1. Suppressed(p) \/ \E m \in heap : p \in Search!Under(m)
    BY <1>5 DEF Covered
  <2>2. CASE Suppressed(p)
    BY <1>4, <1>9, <2>2 DEF Suppressed
  <2>3. ASSUME NEW m \in heap, p \in Search!Under(m), m # n
        PROVE  \E k \in heap' : p \in Search!Under(k)
    BY <1>12, <2>3
  <2>4. CASE p \in Search!Under(n)
    <3>1. p[2] = n.yaw /\ p[1] \in Spots /\ Search!BlockOf(p[1], n.level) = Search!BlockOf(n.cell, n.level)
      BY <2>4 DEF Search!Under, Search!Poses, Spots
    <3>2. PICK c \in pushed : Search!BlockOf(p[1], l) = Search!BlockOf(c, l)
      BY <1>8, <3>1
    <3>3. p \in Search!Under(Child(c))
      BY <1>11, <3>1, <3>2 DEF Search!Under
    <3> QED
      BY <1>12, <3>3
  <2> QED
    BY <2>1, <2>2, <2>3, <2>4
<1>17. Search!Exhaustive'
  BY <1>4 DEF Search!Exhaustive, Search!Open
<1>18. sequence' \in Nat /\ best' \in Seq(Finds) /\ Len(best') <= MaxCandidates
  BY <1>4, <1>5, <1>10
<1> QED
  BY <1>9, <1>14, <1>15, <1>16, <1>17, <1>18 DEF SearchInv

LEMMA ReturnStep == SearchInv /\ Search!Return => SearchInv'
<1> SUFFICES ASSUME SearchInv, Search!Return PROVE SearchInv'
  OBVIOUS
<1>1. /\ ~found /\ found' = TRUE /\ heap' = {}
      /\ heap = {} \/ (Search!Full /\ Search!TopBound <= Search!Kth)
      /\ UNCHANGED <<grid, scan, taken, upper_bound_pyramid, radius, sequence, best>>
  BY DEF Search!Return
<1>2. /\ Loaded /\ Clear /\ Opened /\ best \in Seq(Finds) /\ Covered
      /\ sequence' \in Nat /\ best' \in Seq(Finds) /\ Len(best') <= MaxCandidates
  BY <1>1 DEF SearchInv
<1>3. /\ Loaded' /\ Clear' /\ radius' \in Nat /\ \A p : Search!Exact(p)' = Search!Exact(p)
  BY <1>1, SameLoad
<1>4. Opened' /\ BestFirst' /\ Covered'
  BY <1>1, FS_EmptySet DEF Opened, BestFirst, Covered
<1>5. ASSUME NEW p \in Search!Poses, scan[p[2]] # <<>> PROVE Search!Accounted(p)
  <2>1. Suppressed(p) \/ \E n \in heap : p \in Search!Under(n)
    BY <1>1, <1>2, <1>5 DEF Covered
  <2>2. CASE Suppressed(p)
    BY <2>2 DEF Suppressed, Search!Accounted
  <2>3. ASSUME NEW n \in heap, p \in Search!Under(n) PROVE Search!Accounted(p)
    <3>1. Search!Full /\ Search!TopBound <= Search!Kth
      BY <1>1
    <3>2. NodeOK(n) /\ n.bound \in Nat /\ n.bound <= Search!TopBound /\ Search!TopBound \in Nat
      BY <1>2, FirstIs DEF Opened
    <3>3. p[1] \in Spots /\ p[2] \in Yaws /\ p[2] = n.yaw /\ Search!BlockOf(p[1], n.level) = Search!BlockOf(n.cell, n.level)
      BY <2>3 DEF Search!Under, Search!Poses, Spots
    <3>4. Search!Hits(0, p[1], n.yaw) <= Search!Hits(n.level, n.cell, n.yaw)
      BY <1>2, <3>2, <3>3, BoundIsAdmissible DEF NodeOK
    <3>5. Search!Exact(p) <= n.bound /\ Search!Exact(p) \in Nat
      BY <1>2, <3>2, <3>3, <3>4, HitsCount DEF Search!Exact, NodeOK
    <3>6. Search!Kth \in Nat
      <4>1. Len(best) \in Nat /\ Len(best) >= MaxCandidates /\ MaxCandidates \in Nat \ {0}
        BY <1>2, <3>1, FoundAre, SearchAssumption DEF Search!Full
      <4>2. Len(best) \in DOMAIN best
        BY <1>2, <4>1, FoundAre
      <4> QED
        BY <1>2, <4>2, FoundAre DEF Search!Kth
    <3>7. Search!Exact(p) <= Search!Kth
      BY <3>1, <3>2, <3>5, <3>6
    <3> QED
      BY <3>1, <3>7 DEF Search!Accounted
  <2> QED
    BY <2>1, <2>2, <2>3
<1>6. Search!Exhaustive'
  <2>1. ASSUME NEW p \in Search!Poses, scan'[p[2]] # <<>> PROVE Search!Accounted(p)'
    <3>1. Search!Accounted(p)
      BY <1>1, <1>5, <2>1
    <3> QED
      BY <1>1, <1>3, <3>1 DEF Search!Accounted, Search!Full, Search!Kth
  <2> QED
    BY <2>1 DEF Search!Exhaustive, Search!Poses
<1> QED
  BY <1>2, <1>3, <1>4, <1>6 DEF SearchInv

LEMMA SearchStep == SearchInv /\ [Search!SearchNext]_(Search!searchVars) => SearchInv'
<1> SUFFICES ASSUME SearchInv, [Search!SearchNext]_(Search!searchVars) PROVE SearchInv'
  OBVIOUS
<1>1. CASE UNCHANGED Search!searchVars
  <2>1. UNCHANGED <<grid, scan, upper_bound_pyramid, radius, heap, sequence, best, found>>
    BY <1>1 DEF Search!searchVars
  <2>2. /\ Loaded' /\ Clear' /\ radius' \in Nat /\ \A m : NodeOK(m)' <=> NodeOK(m)
        /\ \A p : Search!Exact(p)' = Search!Exact(p)
    BY <2>1, SameLoad
  <2>3. Opened' /\ BestFirst' /\ sequence' \in Nat /\ best' \in Seq(Finds) /\ Len(best') <= MaxCandidates
    BY <2>1, <2>2 DEF SearchInv, Opened, BestFirst
  <2>4. Covered'
    <3>1. \A p : Suppressed(p)' <=> Suppressed(p)
      BY <2>1, <2>2 DEF Suppressed
    <3> QED
      BY <2>1, <3>1 DEF SearchInv, Covered, Search!Poses, Search!Under
  <2>5. Search!Exhaustive'
    <3>1. \A p : Search!Accounted(p)' <=> Search!Accounted(p)
      BY <2>1, <2>2 DEF Search!Accounted, Search!Full, Search!Kth
    <3> QED
      BY <2>1, <3>1 DEF SearchInv, Search!Exhaustive, Search!Poses
  <2> QED
    BY <2>2, <2>3, <2>4, <2>5 DEF SearchInv
<1> QED
  BY <1>1, LeafStep, ExpandStep, ReturnStep DEF Search!SearchNext

LEMMA QueryStep == [Search!Next]_(Search!vars) => [Search!SearchNext]_(Search!searchVars)
BY DEF Search!Next, Search!vars, Search!searchVars, Search!CloudReceived, Search!HandleQuery, Search!Search, Search!Searched,
       Search!ScoreCandidate, Search!RefineCandidate, Search!Register, Search!FirstRanked, Search!FinalRanked

(* A candidate of a query, whatever pass it has come to.                     *)
Rated == [cell : Spots, yaw : Yaws, hits : Nat, score : Nat, fitness : Search!Outcomes,
          pass : {"search", "first", "final"}, pose : {"search", "first", "final"}]

LEMMA RankingIs ==
  ASSUME NEW seq \in Seq(Rated)
  PROVE  Reordered(Search!Ranking(seq), seq, Rated)
<1>1. PICK R : R = {p \in (DOMAIN seq) \X (DOMAIN seq) :
          Search!RanksBefore(seq[p[1]], seq[p[2]]) \/ (~Search!RanksBefore(seq[p[2]], seq[p[1]]) /\ p[1] < p[2])}
  OBVIOUS
<1>2. Search!Ranking(seq) = Search!Arranged(seq, R)
  BY <1>1 DEF Search!Ranking, Search!Sorted
<1>3. Len(seq) \in Nat /\ DOMAIN seq = 1 .. Len(seq) /\ \A i \in 1 .. Len(seq) : seq[i] \in Rated
  BY LenProperties, ElementOfSeq
<1>4. ASSUME NEW i \in 1 .. Len(seq) PROVE seq[i].fitness \in Int /\ seq[i].hits \in Int
  <2>1. seq[i].fitness \in Fitness \union {-1} /\ seq[i].hits \in Nat
    BY <1>3 DEF Rated, Search!Outcomes, Search!Infinite
  <2>2. Fitness \subseteq Nat
    BY SearchAssumption
  <2>3. seq[i].fitness \in Int
    <3>1. CASE seq[i].fitness \in Fitness
      BY <2>2, <3>1
    <3>2. CASE seq[i].fitness = -1
      BY <3>2
    <3> QED
      BY <2>1, <3>1, <3>2
  <2> QED
    BY <2>1, <2>3
<1>5. PICK a \in [1 .. Len(seq) -> Int] : \A i \in 1 .. Len(seq) : a[i] = IF seq[i].fitness = -1 THEN 1 ELSE 0
  <2>1. [i \in 1 .. Len(seq) |-> IF seq[i].fitness = -1 THEN 1 ELSE 0] \in [1 .. Len(seq) -> Int]
    OBVIOUS
  <2> QED
    BY <2>1
<1>6. PICK b \in [1 .. Len(seq) -> Int] : \A i \in 1 .. Len(seq) : b[i] = seq[i].fitness
  <2>1. [i \in 1 .. Len(seq) |-> seq[i].fitness] \in [1 .. Len(seq) -> Int]
    BY <1>4
  <2> QED
    BY <2>1
<1>7. PICK c \in [1 .. Len(seq) -> Int] : \A i \in 1 .. Len(seq) : c[i] = -seq[i].hits
  <2>1. [i \in 1 .. Len(seq) |-> -seq[i].hits] \in [1 .. Len(seq) -> Int]
    BY <1>4
  <2> QED
    BY <2>1
<1>8. ASSUME NEW i \in 1 .. Len(seq), NEW j \in 1 .. Len(seq)
      PROVE  <<i, j>> \in R <=> ComesFirst(a, b, c, c, i, j)
  <2>1. <<i, j>> \in R <=> Search!RanksBefore(seq[i], seq[j]) \/ (~Search!RanksBefore(seq[j], seq[i]) /\ i < j)
    BY <1>1, <1>3
  <2>2. ASSUME NEW u \in 1 .. Len(seq), NEW v \in 1 .. Len(seq)
        PROVE  Search!RanksBefore(seq[u], seq[v]) <=>
                \/ a[u] < a[v]
                \/ a[u] = a[v] /\ b[u] < b[v]
                \/ a[u] = a[v] /\ b[u] = b[v] /\ c[u] < c[v]
    <3>1. /\ a[u] = (IF seq[u].fitness = -1 THEN 1 ELSE 0) /\ b[u] = seq[u].fitness /\ c[u] = -seq[u].hits
          /\ a[v] = (IF seq[v].fitness = -1 THEN 1 ELSE 0) /\ b[v] = seq[v].fitness /\ c[v] = -seq[v].hits
      BY <1>5, <1>6, <1>7
    <3>2. /\ seq[u].fitness \in Int /\ seq[v].fitness \in Int /\ seq[u].hits \in Int /\ seq[v].hits \in Int
      BY <1>4
    <3>3. PICK f \in Int, g \in Int : f = seq[u].fitness /\ g = seq[v].fitness
      BY <3>2
    <3>4. PICK k \in Int, l \in Int : k = seq[u].hits /\ l = seq[v].hits
      BY <3>2
    <3>5. Search!RanksBefore(seq[u], seq[v]) <=>
             (f # -1 /\ (g = -1 \/ f < g)) \/ (f = g /\ k > l)
      BY <3>3, <3>4 DEF Search!RanksBefore, Search!FitterThan, Search!Infinite
    <3>6. PICK p \in Int, q \in Int : /\ p = a[u] /\ p = (IF f = -1 THEN 1 ELSE 0)
                                     /\ q = a[v] /\ q = (IF g = -1 THEN 1 ELSE 0)
      BY <3>1, <3>3
    <3>7. c[u] < c[v] <=> k > l
      <4>1. PICK m \in Int, n \in Int : m = c[u] /\ m = -k /\ n = c[v] /\ n = -l
        BY <3>1, <3>4
      <4>2. m < n <=> k > l
        BY <4>1
      <4> QED
        BY <4>1, <4>2
    <3>8. (f # -1 /\ (g = -1 \/ f < g)) \/ (f = g /\ k > l) <=>
             p < q \/ (p = q /\ f < g) \/ (p = q /\ f = g /\ k > l)
      BY <3>6
    <3> QED
      BY <3>1, <3>3, <3>5, <3>6, <3>7, <3>8
  <2>3. /\ a[i] \in Int /\ a[j] \in Int /\ b[i] \in Int /\ b[j] \in Int
        /\ c[i] \in Int /\ c[j] \in Int /\ i \in Int /\ j \in Int
    OBVIOUS
  <2> QED
    BY <2>1, <2>2, <2>3 DEF ComesFirst
<1>9. StrictOrder(1 .. Len(seq), R)
  BY <1>3, <1>8, InOrderOfKeys
<1>10. Reordered(Search!Arranged(seq, R), seq, Rated)
  BY <1>9, ArrangedKeeps
<1> QED
  BY <1>2, <1>10

(* Picking takes what it takes from the sequence.                            *)
LEMMA AscendingPicks ==
  ASSUME NEW S, IsFiniteSet(S), NEW R, StrictOrder(S, R), \A i, j \in S : <<i, j>> \in R <=> j > i
  PROVE  /\ Cardinality(S) \in Nat /\ DOMAIN Search!Ascending(S) = 1 .. Cardinality(S)
         /\ \A k \in DOMAIN Search!Ascending(S) : Search!Ascending(S)[k] \in S
<1>1. /\ Cardinality(S) \in Nat
      /\ \A k \in 1 .. Cardinality(S) : \E i \in S : Cardinality(Above(S, R, i)) = k - 1
  BY RanksInOrder
<1>2. \A i \in S : Search!Cardinality({j \in S : j < i}) = Cardinality(Above(S, R, i))
  <2> TAKE i \in S
  <2>1. {j \in S : j < i} = Above(S, R, i)
    BY DEF Above
  <2> QED
    BY <2>1, SearchCounts
<1>3. Search!Cardinality(S) = Cardinality(S)
  BY SearchCounts
<1>4. DOMAIN Search!Ascending(S) = 1 .. Cardinality(S)
      /\ \A k \in 1 .. Cardinality(S) : Search!Ascending(S)[k] = CHOOSE i \in S : Search!Cardinality({j \in S : j < i}) = k - 1
  BY <1>3 DEF Search!Ascending
<1>5. ASSUME NEW k \in 1 .. Cardinality(S) PROVE Search!Ascending(S)[k] \in S
  <2>1. \E i \in S : Search!Cardinality({j \in S : j < i}) = k - 1
    BY <1>1, <1>2
  <2> QED
    BY <1>4, <2>1
<1> QED
  BY <1>1, <1>4, <1>5

LEMMA AscendingIs ==
  ASSUME NEW n \in Nat, NEW S, S \subseteq 1 .. n
  PROVE  \E m \in Nat : /\ DOMAIN Search!Ascending(S) = 1 .. m
                        /\ \A k \in 1 .. m : Search!Ascending(S)[k] \in S
<1>1. IsFiniteSet(S)
  <2>1. IsFiniteSet(1 .. n)
    BY FS_Interval
  <2> QED
    BY <2>1, FS_Subset
<1>2. PICK R : R = {p \in S \X S : p[1] < p[2]}
  OBVIOUS
<1>3. \A i, j \in S : <<i, j>> \in R <=> j > i
  <2>1. \A i, j \in S : <<i, j>> \in R <=> i < j
    BY <1>2
  <2>2. \A i \in S : i \in Int
    OBVIOUS
  <2> QED
    BY <2>1, <2>2
<1>4. StrictOrder(S, R)
  <2>1. \A i \in S : i \in Int
    OBVIOUS
  <2> QED
    BY <1>3, <2>1 DEF StrictOrder
<1>5. PICK m : m = Cardinality(S)
  OBVIOUS
<1>6. /\ m \in Nat /\ DOMAIN Search!Ascending(S) = 1 .. m
      /\ \A k \in DOMAIN Search!Ascending(S) : Search!Ascending(S)[k] \in S
  BY <1>1, <1>3, <1>4, <1>5, AscendingPicks
<1> QED
  BY <1>6

LEMMA PickedIs ==
  ASSUME NEW T, NEW seq \in Seq(T)
  PROVE  /\ Search!Picked(seq, Search!Enough) \in Seq(T)
         /\ \A k \in DOMAIN Search!Picked(seq, Search!Enough) :
               \E i \in DOMAIN seq : Search!Picked(seq, Search!Enough)[k] = seq[i]
<1>1. Len(seq) \in Nat /\ DOMAIN seq = 1 .. Len(seq) /\ \A i \in 1 .. Len(seq) : seq[i] \in T
  BY LenProperties, ElementOfSeq
<1>2. PICK S \in SUBSET (1 .. Len(seq)) : S = {i \in DOMAIN seq : Search!Enough(seq[i])}
  BY <1>1
<1>3. Search!Picked(seq, Search!Enough) = [k \in DOMAIN Search!Ascending(S) |-> seq[Search!Ascending(S)[k]]]
  BY <1>2 DEF Search!Picked
<1>4. PICK m \in Nat : /\ DOMAIN Search!Ascending(S) = 1 .. m
                       /\ \A k \in 1 .. m : Search!Ascending(S)[k] \in 1 .. Len(seq)
  <2>1. PICK m \in Nat : /\ DOMAIN Search!Ascending(S) = 1 .. m
                         /\ \A k \in 1 .. m : Search!Ascending(S)[k] \in S
    BY <1>1, AscendingIs
  <2> QED
    BY <2>1
<1>5. Search!Picked(seq, Search!Enough) = [k \in 1 .. m |-> seq[Search!Ascending(S)[k]]]
  BY <1>3, <1>4
<1>6. \A k \in 1 .. m : seq[Search!Ascending(S)[k]] \in T
  BY <1>1, <1>4
<1> QED
  BY <1>1, <1>4, <1>5, <1>6

LEMMA RegisteredIs ==
  ASSUME NEW c \in Rated, NEW f \in Search!Outcomes, NEW pass \in {"first", "final"}, NEW moves
  PROVE  Search!Registered(c, f, pass, moves) \in Rated /\ Search!Registered(c, f, pass, moves).pass = pass
<1>1. Search!SupervisorScore(f) \in Nat
  <2>1. CASE f = -1
    BY <2>1 DEF Search!SupervisorScore, Search!Infinite
  <2>2. CASE f # -1
    <3>1. f \in Fitness
      BY <2>2 DEF Search!Outcomes, Search!Infinite
    <3>2. f \in Nat /\ ScoreGate \in Nat
      BY <3>1, SearchAssumption
    <3> QED
      BY <3>2 DEF Search!SupervisorScore
  <2> QED
    BY <2>1, <2>2
<1>2. PICK at : at = (IF moves /\ f # Search!Infinite THEN pass ELSE c.pose)
  OBVIOUS
<1>3. at \in {"search", "first", "final"}
  BY <1>2 DEF Rated
<1>4. Search!Registered(c, f, pass, moves) =
         [c EXCEPT !.fitness = f, !.pass = pass, !.score = Search!SupervisorScore(f), !.pose = at]
  BY <1>2 DEF Search!Registered, Rated
<1> HIDE DEF Rated
<1> QED
  BY <1>1, <1>3, <1>4 DEF Rated

LEMMA CandidatesAre ==
  ASSUME best \in Seq(Finds)
  PROVE  Search!Candidates \in Seq(Rated) /\ \A i \in DOMAIN Search!Candidates : Search!Candidates[i].pass = "search"
<1>1. Len(best) \in Nat /\ DOMAIN best = 1 .. Len(best) /\ \A i \in DOMAIN best : best[i] \in Finds
  BY FoundAre
<1>2. PICK s : s = Search!Candidates
  OBVIOUS
<1>3. s = [i \in 1 .. Len(best) |->
             [cell |-> best[i].cell, yaw |-> best[i].yaw, hits |-> best[i].score, score |-> best[i].score,
              fitness |-> Search!Infinite, pass |-> "search", pose |-> "search"]]
  BY <1>1, <1>2 DEF Search!Candidates
<1>4. Search!Infinite \in Search!Outcomes
  BY DEF Search!Outcomes
<1>5. \A i \in 1 .. Len(best) : s[i] \in Rated /\ s[i].pass = "search"
  BY <1>1, <1>3, <1>4 DEF Finds, Rated
<1>6. s \in Seq(Rated)
  BY <1>1, <1>3, <1>5
<1> QED
  BY <1>2, <1>3, <1>5, <1>6

(* The pass a query is in scored what it has ranked, and nothing else did.   *)
PassInv ==
    /\ waiting \in Seq(Rated) /\ ranked \in Seq(Rated) /\ answer \in Seq(Rated)
    /\ stage \in {"idle", "refused", "search"} => ranked = <<>> /\ answer = <<>>
    /\ stage = "first" => config.first /\ answer = <<>> /\ \A i \in DOMAIN ranked : ranked[i].pass = "first"
    /\ stage = "final" => /\ config.first /\ config.final /\ answer = <<>>
                          /\ \A i \in DOMAIN ranked : ranked[i].pass = "final"
    /\ Search!OneVoxelization

LEMMA PassInit == Search!Init => PassInv
<1> SUFFICES ASSUME Search!Init PROVE PassInv
  OBVIOUS
<1>1. stage = "idle" /\ waiting = <<>> /\ ranked = <<>> /\ answer = <<>>
  BY DEF Search!Init
<1>2. <<>> \in Seq(Rated) /\ DOMAIN answer = {}
  <2>1. <<>> \in Seq(Rated) /\ Len(<<>>) = 0
    BY EmptySeq
  <2> QED
    BY <1>1, <2>1
<1> QED
  BY <1>1, <1>2 DEF PassInv, Search!OneVoxelization

LEMMA RegisterStep ==
  ASSUME PassInv, NEW pass \in {"first", "final"}, NEW moves, Search!Register(pass, moves)
  PROVE  PassInv'
<1>1. /\ stage = pass /\ waiting # <<>> /\ waiting' = Tail(waiting)
      /\ UNCHANGED <<config, stage, answer>>
  BY DEF Search!Register
<1>2. PICK f \in Search!Outcomes : ranked' = Append(ranked, Search!Registered(Head(waiting), f, pass, moves))
  BY DEF Search!Register
<1>3. PICK c \in Rated : c = Search!Registered(Head(waiting), f, pass, moves) /\ c.pass = pass
  BY <1>1, HeadTailProperties, RegisteredIs DEF PassInv
<1>4. waiting' \in Seq(Rated) /\ ranked \in Seq(Rated)
  BY <1>1, HeadTailProperties DEF PassInv
<1>5. /\ ranked' \in Seq(Rated) /\ Len(ranked') = Len(ranked) + 1
      /\ \A i \in 1 .. Len(ranked) : ranked'[i] = ranked[i]
      /\ ranked'[Len(ranked) + 1] = c
  BY <1>2, <1>3, <1>4, AppendProperties
<1>6. \A i \in DOMAIN ranked' : ranked'[i].pass = pass
  <2> TAKE i \in DOMAIN ranked'
  <2>1. Len(ranked) \in Nat /\ DOMAIN ranked = 1 .. Len(ranked) /\ i \in 1 .. Len(ranked) + 1
    BY <1>4, <1>5, LenProperties
  <2>2. \A k \in DOMAIN ranked : ranked[k].pass = pass
    BY <1>1 DEF PassInv
  <2>3. CASE i \in 1 .. Len(ranked)
    BY <1>5, <2>1, <2>2, <2>3
  <2>4. CASE i = Len(ranked) + 1
    BY <1>3, <1>5, <2>4
  <2> QED
    BY <2>1, <2>3, <2>4
<1> QED
  BY <1>1, <1>4, <1>5, <1>6 DEF PassInv, Search!OneVoxelization

LEMMA PassStep == SearchInv /\ PassInv /\ [Search!Next]_(Search!vars) => PassInv'
<1> SUFFICES ASSUME SearchInv, PassInv, [Search!Next]_(Search!vars) PROVE PassInv'
  OBVIOUS
<1>1. ASSUME UNCHANGED <<waiting, ranked, answer, config, stage>> PROVE PassInv'
  BY <1>1 DEF PassInv, Search!OneVoxelization
<1>2. CASE Search!CloudReceived
  BY <1>1, <1>2 DEF Search!CloudReceived
<1>3. CASE Search!HandleQuery
  BY <1>3 DEF Search!HandleQuery, PassInv, Search!OneVoxelization
<1>4. CASE Search!Search
  BY <1>1, <1>4 DEF Search!Search, Search!queryVars
<1>5. <<>> \in Seq(Rated)
  BY EmptySeq
<1>6. CASE Search!Searched
  <2>1. PICK cs : cs = Search!Picked(Search!Candidates, Search!Enough)
    OBVIOUS
  <2>2. cs \in Seq(Rated) /\ \A i \in DOMAIN cs : cs[i].pass = "search"
    BY <2>1, CandidatesAre, PickedIs DEF SearchInv
  <2>3. CASE config.first
    <3>1. /\ stage' = "first" /\ waiting' = cs /\ stage = "search"
          /\ UNCHANGED <<ranked, answer, config>>
      BY <1>6, <2>1, <2>3 DEF Search!Searched
    <3>2. ranked = <<>> /\ answer = <<>>
      BY <3>1 DEF PassInv
    <3> QED
      BY <2>2, <2>3, <3>1, <3>2, <1>5 DEF PassInv, Search!OneVoxelization
  <2>4. CASE ~config.first
    <3>1. stage' = "answered" /\ answer' = cs /\ waiting' = <<>> /\ ranked' = <<>> /\ UNCHANGED config
      BY <1>6, <2>1, <2>4 DEF Search!Searched, Search!Answer
    <3> QED
      BY <1>5, <2>2, <2>4, <3>1 DEF PassInv, Search!OneVoxelization
  <2> QED
    BY <2>3, <2>4
<1>7. CASE Search!ScoreCandidate
  BY <1>7, RegisterStep DEF Search!ScoreCandidate
<1>8. CASE Search!RefineCandidate
  BY <1>8, RegisterStep DEF Search!RefineCandidate
<1>9. ASSUME NEW p, \A i \in DOMAIN ranked : ranked[i].pass = p
      PROVE  /\ Search!Ranking(ranked) \in Seq(Rated)
             /\ \A k \in DOMAIN Search!Ranking(ranked) : Search!Ranking(ranked)[k].pass = p
  <2>1. PICK cs \in Seq(Rated) : /\ cs = Search!Ranking(ranked) /\ Len(cs) = Len(ranked)
                                 /\ \A k \in 1 .. Len(ranked) : \E i \in 1 .. Len(ranked) : cs[k] = ranked[i]
    BY RankingIs DEF PassInv, Reordered
  <2>2. DOMAIN cs = 1 .. Len(ranked) /\ DOMAIN ranked = 1 .. Len(ranked)
    BY <2>1, LenProperties DEF PassInv
  <2> QED
    BY <1>9, <2>1, <2>2
<1>10. CASE Search!FirstRanked
  <2>1. PICK cs : cs = Search!Ranking(ranked)
    OBVIOUS
  <2>2. stage = "first" /\ config.first /\ answer = <<>> /\ UNCHANGED config
    BY <1>10 DEF Search!FirstRanked, PassInv
  <2>3. cs \in Seq(Rated) /\ \A k \in DOMAIN cs : cs[k].pass = "first"
    BY <1>9, <2>1, <2>2 DEF PassInv
  <2>4. CASE config.final
    <3>1. PICK m : m = IF Len(cs) > RefineCount THEN RefineCount ELSE Len(cs)
      OBVIOUS
    <3>2. stage' = "final" /\ ranked' = <<>> /\ UNCHANGED answer /\ waiting' = SubSeq(cs, 1, m)
      BY <1>10, <2>1, <2>4, <3>1 DEF Search!FirstRanked
    <3>3. m \in Int /\ \A i \in 1 .. m : cs[i] \in Rated
      <4>1. Len(cs) \in Nat /\ RefineCount \in Nat
        BY <2>3, LenProperties, SearchAssumption
      <4>2. m \in Nat /\ m <= Len(cs)
        BY <3>1, <4>1
      <4> QED
        BY <2>3, <4>1, <4>2, ElementOfSeq
    <3>4. waiting' \in Seq(Rated)
      BY <3>2, <3>3, SubSeqProperties
    <3> QED
      BY <1>5, <2>2, <2>4, <3>2, <3>4 DEF PassInv, Search!OneVoxelization
  <2>5. CASE ~config.final
    <3>1. stage' = "answered" /\ answer' = cs /\ waiting' = <<>> /\ ranked' = <<>>
      BY <1>10, <2>1, <2>5 DEF Search!FirstRanked, Search!Answer
    <3> QED
      BY <1>5, <2>2, <2>3, <2>5, <3>1 DEF PassInv, Search!OneVoxelization
  <2> QED
    BY <2>4, <2>5
<1>11. CASE Search!FinalRanked
  <2>1. stage = "final" /\ config.first /\ config.final /\ UNCHANGED config
    BY <1>11 DEF Search!FinalRanked, PassInv
  <2>2. stage' = "answered" /\ answer' = Search!Ranking(ranked) /\ waiting' = <<>> /\ ranked' = <<>>
    BY <1>11 DEF Search!FinalRanked, Search!Answer
  <2>3. answer' \in Seq(Rated) /\ \A k \in DOMAIN answer' : answer'[k].pass = "final"
    BY <1>9, <2>1, <2>2 DEF PassInv
  <2> QED
    BY <1>5, <2>1, <2>2, <2>3 DEF PassInv, Search!OneVoxelization
<1>12. CASE UNCHANGED Search!vars
  BY <1>1, <1>12 DEF Search!vars, Search!queryVars
<1> QED
  BY <1>2, <1>3, <1>4, <1>6, <1>7, <1>8, <1>10, <1>11, <1>12 DEF Search!Next

-----------------------------------------------------------------------------
(* The bound of an open node is at least the score of every pose below it,   *)
(* as test_pyramid_upper_bound_is_admissible says of its map, on every map   *)
(* that is padded by a block of the top level. Run search_admissible shows   *)
(* that it is not on one that is cropped closer.                             *)
THEOREM AlwaysAdmissible ==
  LocalizationSpec => []Search!Admissible
<1>1. SearchInv => Search!Admissible
  <2> SUFFICES ASSUME SearchInv, NEW n \in heap, NEW p \in Search!Under(n)
               PROVE  Search!Exact(p) <= n.bound
    BY DEF Search!Admissible
  <2>1. Loaded /\ Clear /\ NodeOK(n)
    BY DEF SearchInv, Opened
  <2>2. p[1] \in Spots /\ p[2] = n.yaw /\ Search!BlockOf(p[1], n.level) = Search!BlockOf(n.cell, n.level)
    BY DEF Search!Under, Search!Poses, Spots
  <2>3. Search!Hits(0, p[1], n.yaw) <= Search!Hits(n.level, n.cell, n.yaw)
    BY <2>1, <2>2, BoundIsAdmissible DEF NodeOK
  <2> QED
    BY <2>1, <2>2, <2>3 DEF Search!Exact, NodeOK
<1>2. SearchInv /\ [Search!Next]_(Search!vars) => SearchInv'
  BY QueryStep, SearchStep
<1> QED
  BY <1>1, <1>2, PartsInit, PartsStep, SearchInit, PTL DEF LocalizationSpec

(* Whatever the map, the scan, the pyramid and the suppression: once the     *)
(* search has returned, no pose it left out scores better than what it kept. *)
(* What stands in the map must keep a block of the top level away from its   *)
(* lower borders.                                                            *)
THEOREM AlwaysExhaustive ==
  LocalizationSpec => []Exhaustive
<1>1. SearchInv => Exhaustive
  BY DEF SearchInv, Exhaustive
<1>2. SearchInv /\ [Search!Next]_(Search!vars) => SearchInv'
  BY QueryStep, SearchStep
<1> QED
  BY <1>1, <1>2, PartsInit, PartsStep, SearchInit, PTL DEF LocalizationSpec

-----------------------------------------------------------------------------
(* The search and the map: what a task's map and scans must be like, where   *)
(* it knows the place its scan was taken at. Every point stands in the map   *)
(* there, and a turned scan has all its points.                              *)
TrueScans == \A t \in Tasks : t.taken # Unset =>
    /\ t.taken \in Search!Poses
    /\ \A y, z \in Yaws : Len(t.scan[y]) = Len(t.scan[z])
    /\ \A k \in DOMAIN t.scan[t.taken[2]] :
          LET p == t.scan[t.taken[2]][k]
          IN  <<p[1] + t.taken[1][1], p[2] + t.taken[1][2]>> \in Search!MatchingGrid(t.map)

(* The list begins with its greatest score; none is above a scan's length.   *)
Foremost == \A k \in DOMAIN best :
    best[1].score >= best[k].score /\ best[k].score <= Len(scan[best[k].yaw])

OfATask == \E t \in Tasks : grid = Search!MatchingGrid(t.map) /\ scan = t.scan /\ taken = t.taken

LEMMA HitsAtMost ==
  ASSUME Loaded, NEW y \in Yaws, NEW l, NEW c
  PROVE  /\ Len(scan[y]) \in Nat /\ Search!Hits(l, c, y) <= Len(scan[y])
         /\ Hitting(l, c, y) = 1 .. Len(scan[y]) => Search!Hits(l, c, y) = Len(scan[y])
<1>1. PICK m \in Nat : m = Len(scan[y])
  BY LenProperties DEF Loaded
<1>2. IsFiniteSet(1 .. m) /\ Cardinality(1 .. m) = m
  BY FS_Interval
<1>3. Hitting(l, c, y) \subseteq 1 .. m /\ Search!Hits(l, c, y) = Cardinality(Hitting(l, c, y))
  BY <1>1, HitsCount
<1>4. Cardinality(Hitting(l, c, y)) <= Cardinality(1 .. m)
  BY <1>2, <1>3, FS_Subset
<1> QED
  BY <1>1, <1>2, <1>3, <1>4

LEMMA ForemostInit == Search!Init => Foremost /\ OfATask
<1> SUFFICES ASSUME Search!Init PROVE Foremost /\ OfATask
  OBVIOUS
<1>1. OfATask
  BY DEF Search!Init, Search!SearchInit, OfATask
<1>2. best = <<>>
  BY DEF Search!Init, Search!SearchInit
<1>3. DOMAIN best = {}
  <2>1. best \in Seq(Finds) /\ Len(best) = 0
    BY <1>2, EmptySeq
  <2> QED
    BY <2>1, LenProperties
<1> QED
  BY <1>1, <1>3 DEF Foremost

LEMMA ForemostStep ==
  SearchInv /\ Foremost /\ OfATask /\ [Search!SearchNext]_(Search!searchVars) => Foremost' /\ OfATask'
<1> SUFFICES ASSUME SearchInv, Foremost, OfATask, [Search!SearchNext]_(Search!searchVars)
             PROVE  Foremost' /\ OfATask'
  OBVIOUS
<1>1. UNCHANGED <<grid, scan, taken>>
  BY DEF Search!SearchNext, Search!Return, Search!Leaf, Search!Expand, Search!searchVars
<1>2. OfATask'
  BY <1>1 DEF OfATask
<1>3. ASSUME UNCHANGED best PROVE Foremost'
  BY <1>1, <1>3 DEF Foremost
<1>4. CASE Search!Leaf
  <2>1. PICK n : n = Search!First
    OBVIOUS
  <2>2. PICK c : c = [cell |-> n.cell, yaw |-> n.yaw, score |-> Search!Hits(0, n.cell, n.yaw)]
    OBVIOUS
  <2>3. Search!Open /\ n.level = 0 /\ best' = Search!Kept(Search!Merged(c))
    BY <1>4, <2>1, <2>2 DEF Search!Leaf
  <2>4. Loaded /\ radius \in Nat /\ best \in Seq(Finds)
    BY DEF SearchInv
  <2>5. /\ Len(best) + 1 <= MaxCandidates /\ NodeOK(n)
        /\ \A i \in DOMAIN best : n.bound <= best[i].score
    BY <2>1, <2>3, OpenIsNotFull
  <2>6. n.cell \in Spots /\ n.yaw \in Yaws /\ n.bound = Search!Hits(0, n.cell, n.yaw)
    BY <2>3, <2>5 DEF NodeOK
  <2>7. c \in Finds /\ c.score = n.bound /\ c.score <= Len(scan[c.yaw])
    BY <2>2, <2>4, <2>6, HitsCount, HitsAtMost DEF Finds
  <2>8. /\ \A k \in DOMAIN best' : best'[k] = c \/ \E i \in DOMAIN best : best'[k] = best[i]
        /\ \A k \in DOMAIN best' : best'[1].score >= best'[k].score
    <3>1. \A i \in DOMAIN best : c.score <= best[i].score
      BY <2>5, <2>7
    <3> QED
      BY <2>3, <2>4, <2>5, <2>7, <3>1, MergedIs
  <2>9. ASSUME NEW k \in DOMAIN best' PROVE best'[k].score <= Len(scan[best'[k].yaw])
    <3>1. CASE best'[k] = c
      BY <2>7, <3>1
    <3>2. ASSUME NEW i \in DOMAIN best, best'[k] = best[i] PROVE best'[k].score <= Len(scan[best'[k].yaw])
      BY <3>2 DEF Foremost
    <3> QED
      BY <2>8, <3>1, <3>2
  <2>10. scan' = scan
    BY <1>1
  <2>11. \A k \in DOMAIN best' : best'[k].score <= Len(scan'[best'[k].yaw])
    BY <2>9, <2>10
  <2>12. \A k \in DOMAIN best' : best'[1].score >= best'[k].score
    BY <2>8
  <2> QED
    BY <1>2, <2>11, <2>12 DEF Foremost
<1> QED
  BY <1>2, <1>3, <1>4 DEF Search!SearchNext, Search!Return, Search!Expand, Search!searchVars

(* A place where every point hits is found, or one that is as good.          *)
LEMMA FoundIsTrue ==
  ASSUME TrueScans, SearchInv, Foremost, OfATask
  PROVE  TruePoseFound
<1> SUFFICES ASSUME found, taken # Unset, scan[taken[2]] # <<>>
             PROVE  Search!Exact(taken) = Len(scan[taken[2]]) /\ best[1].score = Search!Exact(taken)
  BY DEF TruePoseFound, Search!TruePoseFound
<1>1. PICK t \in Tasks : grid = Search!MatchingGrid(t.map) /\ scan = t.scan /\ taken = t.taken
  BY DEF OfATask
<1>2. PICK x : x = taken[1]
  OBVIOUS
<1>3. PICK y : y = taken[2]
  OBVIOUS
<1>4. /\ taken \in Search!Poses /\ x \in Spots /\ y \in Yaws
      /\ \A z \in Yaws : Len(scan[z]) = Len(scan[y])
      /\ \A k \in DOMAIN scan[y] : <<scan[y][k][1] + x[1], scan[y][k][2] + x[2]>> \in grid
  <2>1. taken \in Search!Poses /\ \A z, w \in Yaws : Len(scan[z]) = Len(scan[w])
    BY <1>1 DEF TrueScans
  <2>2. x \in Spots /\ y \in Yaws
    BY <1>2, <1>3, <2>1 DEF Search!Poses, Spots
  <2>3. \A k \in DOMAIN scan[y] : <<scan[y][k][1] + x[1], scan[y][k][2] + x[2]>> \in grid
    BY <1>1, <1>2, <1>3 DEF TrueScans
  <2> QED
    BY <2>1, <2>2, <2>3
<1>5. Loaded /\ Clear /\ best \in Seq(Finds)
  BY DEF SearchInv
<1>6. scan[y] \in Seq(Int \X Int) /\ DOMAIN scan[y] = 1 .. Len(scan[y]) /\ Len(scan[y]) \in Nat
      /\ \A k \in DOMAIN scan[y] : scan[y][k] \in Int \X Int
  <2>1. scan[y] \in Seq(Int \X Int)
    BY <1>4, <1>5 DEF Loaded
  <2> QED
    BY <2>1, LenProperties, ElementOfSeq
<1>7. Hitting(0, x, y) = DOMAIN scan[y]
  <2>1. 1 = Search!Step(0) /\ upper_bound_pyramid[0] = grid
    <3>1. 0 \in 0 .. Search!StartLevel
      BY StartLevelIs, SearchAssumption
    <3> QED
      BY <1>5, <3>1, LevelIs, Steps
  <2>2. \A i \in Int : i \div 1 = i
    OBVIOUS
  <2>3. x[1] \in Int /\ x[2] \in Int
    BY <1>4 DEF Spots
  <2>4. \A k \in DOMAIN scan[y] : k \in Hitting(0, x, y)
    <3> TAKE k \in DOMAIN scan[y]
    <3>1. PICK o \in Int \X Int : o = scan[y][k]
      BY <1>6
    <3>2. o[1] \div 1 = o[1] /\ o[2] \div 1 = o[2] /\ x[1] \div 1 = x[1] /\ x[2] \div 1 = x[2]
      BY <2>2, <2>3
    <3>3. <<o[1] \div 1 + x[1] \div 1, o[2] \div 1 + x[2] \div 1>> \in upper_bound_pyramid[0]
      BY <1>4, <2>1, <3>1, <3>2
    <3> QED
      BY <2>1, <3>1, <3>3, HittingIs
  <2> QED
    BY <2>4 DEF Hitting
<1>8. Search!Exact(taken) = Len(scan[y])
  <2>1. Search!Hits(0, x, y) = Len(scan[y])
    BY <1>4, <1>5, <1>6, <1>7, HitsAtMost
  <2> QED
    BY <1>2, <1>3, <2>1 DEF Search!Exact
<1>9. Search!Accounted(taken)
  <2>1. \A p \in Search!Poses : scan[p[2]] = <<>> \/ Search!Accounted(p)
    BY DEF SearchInv, Search!Exhaustive
  <2> QED
    BY <1>4, <2>1
<1>10. \E k \in DOMAIN best : best[k].score >= Len(scan[y])
  <2>1. CASE Search!Full /\ Search!Exact(taken) <= Search!Kth
    <3>1. Len(best) \in Nat /\ Len(best) >= MaxCandidates /\ MaxCandidates \in Nat \ {0}
      BY <1>5, <2>1, FoundAre, SearchAssumption DEF Search!Full
    <3>2. Len(best) \in DOMAIN best
      BY <1>5, <3>1, FoundAre
    <3>3. best[Len(best)].score \in Nat /\ Len(scan[y]) <= best[Len(best)].score
      BY <1>5, <1>8, <2>1, <3>2, FoundAre DEF Search!Kth
    <3>4. best[Len(best)].score >= Len(scan[y])
      BY <1>6, <3>3
    <3> QED
      BY <3>2, <3>4
  <2>2. CASE ~(Search!Full /\ Search!Exact(taken) <= Search!Kth)
    BY <1>8, <1>9, <2>2 DEF Search!Accounted
  <2> QED
    BY <2>1, <2>2
<1>11. PICK k \in DOMAIN best : best[k].score >= Len(scan[y])
  BY <1>10
<1>12. 1 \in DOMAIN best /\ best[1].score \in Nat /\ best[k].score \in Nat /\ best[1] \in Finds
  <2>1. Len(best) \in Nat /\ DOMAIN best = 1 .. Len(best)
    BY <1>5, FoundAre
  <2>2. 1 \in DOMAIN best
    BY <1>11, <2>1
  <2> QED
    BY <1>5, <1>11, <2>2, FoundAre
<1>13. best[1].score >= best[k].score /\ best[1].score <= Len(scan[y])
  <2>1. best[1].yaw \in Yaws
    BY <1>12 DEF Finds
  <2> QED
    BY <1>4, <1>11, <1>12, <2>1 DEF Foremost
<1> QED
  BY <1>3, <1>6, <1>8, <1>11, <1>12, <1>13

(* Where every point of a scan stands in the map at the place it was taken,  *)
(* the search answers with a pose that all of them hit: nothing of a turn,   *)
(* a bound, a tie or a suppression makes it miss.                            *)
THEOREM AlwaysTruePoseFound ==
  ASSUME TrueScans
  PROVE  LocalizationSpec => []TruePoseFound
<1>1. SearchInv /\ Foremost /\ OfATask => TruePoseFound
  BY FoundIsTrue
<1>2. SearchInv /\ Foremost /\ OfATask /\ [Search!Next]_(Search!vars) => SearchInv' /\ Foremost' /\ OfATask'
  BY QueryStep, SearchStep, ForemostStep
<1>3. Search!Init => SearchInv /\ Foremost /\ OfATask
  BY SearchInit, ForemostInit
<1> QED
  BY <1>1, <1>2, <1>3, PartsInit, PartsStep, PTL DEF LocalizationSpec

-----------------------------------------------------------------------------
(* Whatever the registrations return and however many candidates there are:  *)
(* the candidates of a reply were scored by the same pass.                   *)
THEOREM AlwaysOneVoxelization ==
  LocalizationSpec => []OneVoxelization
<1>1. PassInv => OneVoxelization
  BY DEF PassInv, OneVoxelization
<1>2. SearchInv /\ [Search!Next]_(Search!vars) => SearchInv'
  BY QueryStep, SearchStep
<1>3. Search!Init => SearchInv /\ PassInv
  BY SearchInit, PassInit
<1> QED
  BY <1>1, <1>2, <1>3, PassStep, PartsInit, PartsStep, PTL DEF LocalizationSpec
=============================================================================
