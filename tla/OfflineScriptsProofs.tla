------------------------- MODULE OfflineScriptsProofs -------------------------
(* What the offline tools of lidar_localization_ros2 promise, for any logs,  *)
(* fixtures, recordings and arguments, and for any number of steps.          *)
EXTENDS MCOfflineScripts, SequenceTheorems, FiniteSetTheorems, WellFoundedInduction, TLAPS

-----------------------------------------------------------------------------
(* MeasurementGates: a good score is refused only while the prediction is    *)
(* fresh, and two refusals in a row make it stale, until a degraded score is *)
(* accepted.                                                                 *)

GatesInv ==
    /\ rejected \in Nat /\ vetoes \in Nat /\ refreshed \in Nat
    /\ vetoes <= 2 * refreshed + rejected
    /\ VetoNeedsRefresh

LEMMA GoodScoresCount ==
  ASSUME NEW s, variant \in Gates!Acceptance, Gates!Good(s), ~Gates!Accepts(s)
  PROVE  Gates!Contradicted(s)
<1>1. CASE variant = "fixed_threshold"
  <2>1. Gates!Accepts(s) = Gates!FixedThreshold(s)
    BY <1>1 DEF Gates!Accepts
  <2> QED
    BY <2>1 DEF Gates!FixedThreshold
<1>2. CASE variant = "correction_conditioned"
  <2>1. Gates!Accepts(s) = Gates!CorrectionConditioned(s)
    BY <1>2 DEF Gates!Accepts
  <2> QED
    BY <2>1 DEF Gates!CorrectionConditioned
<1>3. CASE variant = "score_ratio_budget"
  <2>1. Gates!Accepts(s) = Gates!ScoreRatioBudget(s)
    BY <1>3 DEF Gates!Accepts
  <2> QED
    BY <2>1 DEF Gates!ScoreRatioBudget
<1>4. CASE variant = "bounded_degraded"
  <2>1. Gates!Accepts(s) = Gates!BoundedDegraded(s)
    BY <1>4 DEF Gates!Accepts
  <2> QED
    BY <2>1 DEF Gates!BoundedDegraded
<1> QED
  BY <1>1, <1>2, <1>3, <1>4 DEF Gates!Acceptance

(* A refusal leaves the prediction five tenths staler.                       *)
LEMMA GatesSequence ==
  ASSUME GatesInv, NEW step, Gates!SequenceStep(step)
  PROVE  GatesInv'
<1> DEFINE s == [fit |-> step.fit, corr |-> step.corr, yaw |-> step.yaw,
                 threshold |-> Threshold, gap |-> 4 + 5 * rejected, rejected |-> rejected]
           ok == Gates!Accepts(s)
<1>1. /\ variant \in Gates!Acceptance
      /\ rejected' = IF ok THEN 0 ELSE rejected + 1
      /\ vetoes' = IF ~Gates!Good(s) THEN vetoes ELSE IF ok THEN 0 ELSE vetoes + 1
      /\ refreshed' = IF ~ok THEN refreshed ELSE IF Gates!Good(s) THEN 0 ELSE refreshed + 1
  BY DEF Gates!SequenceStep
<1>2. ~ok /\ Gates!Good(s) => Gates!Contradicted(s)
  BY <1>1, GoodScoresCount
<1>3. Gates!Contradicted(s) => rejected <= 1
  <2>1. s.gap = 4 + 5 * rejected
    OBVIOUS
  <2> HIDE DEF s
  <2> QED
    BY <2>1 DEF GatesInv, Gates!Contradicted, Gates!ConditionedConfig
<1> HIDE DEF s, ok
<1> QED
  BY <1>1, <1>2, <1>3 DEF GatesInv, VetoNeedsRefresh, Gates!VetoNeedsRefresh

LEMMA GatesStep ==
  ASSUME GatesInv, [OfflineNext]_<<tool, vars, gatesVars, comparingVars, doctorVars>>
  PROVE  GatesInv'
<1>1. CASE UNCHANGED gatesVars
  BY <1>1 DEF gatesVars, GatesInv, VetoNeedsRefresh, Gates!VetoNeedsRefresh
<1>2. CASE Gates!Next
  <2>1. CASE \E step \in Steps : Gates!SequenceStep(step)
    BY <2>1, GatesSequence
  <2>2. ASSUME NEW s, Gates!GuardStep(s) \/ Gates!SampleStep(s) \/ Gates!PoseStep(s)
        PROVE  GatesInv'
    BY <2>2 DEF Gates!GuardStep, Gates!SampleStep, Gates!PoseStep, Gates!harness, Gates!history,
                GatesInv, VetoNeedsRefresh, Gates!VetoNeedsRefresh
  <2> QED
    BY <1>2, <2>1, <2>2 DEF Gates!Next
<1> QED
  BY <1>1, <1>2 DEF OfflineNext

(* An acceptance policy that goes on refusing good scores accepts degraded   *)
(* ones in between: it refuses at most two for each of those, and two more,  *)
(* before it accepts a good one, whatever the steps of the fixture and its   *)
(* threshold (CorrectionConditionedAcceptance.step).                         *)
THEOREM AlwaysVetoNeedsRefresh == OfflineSpec => []VetoNeedsRefresh
<1>1. OfflineInit => GatesInv
  BY DEF OfflineInit, Gates!Init, GatesInv, VetoNeedsRefresh, Gates!VetoNeedsRefresh
<1>2. GatesInv /\ [OfflineNext]_<<tool, vars, gatesVars, comparingVars, doctorVars>> => GatesInv'
  BY GatesStep
<1>3. GatesInv => VetoNeedsRefresh
  BY DEF GatesInv
<1> QED
  BY <1>1, <1>2, <1>3, PTL DEF OfflineSpec

-----------------------------------------------------------------------------
(* BringupDoctor: the doctor's command was printed beside the parameters.    *)

DoctorInv ==
    /\ params # NoFile =>
          /\ params = Doctor!Params(args)
          /\ Doctor!ValidArgs(args)
          /\ Doctor!DoctorCommand(args) \subseteq required
    /\ results # NoFile =>
          /\ params # NoFile
          /\ results.found = Doctor!Evaluate(required, results.available)

LEMMA MissingIsStrict ==
  ASSUME NEW req
  PROVE  /\ Doctor!MissingTf(req, "base<-lidar") = Doctor!Result("FAIL", "base<-lidar")
         /\ Doctor!MissingTf(req, "base<-imu") = Doctor!Result("FAIL", "base<-imu")
         /\ "odom_tf" \in req =>
               Doctor!MissingTf(req, "odom<-base") = Doctor!Result("FAIL", "odom<-base")
BY DEF Doctor!MissingTf, Doctor!Unless

(* Everything the doctor looked at and found missing or broken failed it.    *)
LEMMA NothingIsMissing ==
  ASSUME NEW req, NEW available, Doctor!Passes(Doctor!Evaluate(req, available))
  PROVE  /\ cloud # NoFile /\ cloud.xyz
         /\ "cloud_time" \in req => cloud.time
         /\ "imu" \in req => imu # NoFile
         /\ "base<-lidar" \in available
         /\ "imu_tf" \in req => "base<-imu" \in available
         /\ "odom_tf" \in req => "odom<-base" \in available
<1>1. ASSUME NEW l, NEW about, Doctor!Result(l, about) \in Doctor!Evaluate(req, available)
      PROVE  l # "FAIL"
  BY <1>1 DEF Doctor!Passes, Doctor!Result
<1>2. /\ Doctor!CheckCloud(req, cloud) \subseteq Doctor!Evaluate(req, available)
      /\ Doctor!CheckImu(req, imu) \subseteq Doctor!Evaluate(req, available)
      /\ Doctor!CheckTf(req, available) \subseteq Doctor!Evaluate(req, available)
  BY DEF Doctor!Evaluate
<1>3. cloud # NoFile /\ cloud.xyz
  BY <1>1, <1>2 DEF Doctor!CheckCloud
<1>4. "cloud_time" \in req => cloud.time
  BY <1>1, <1>2, <1>3 DEF Doctor!CheckCloud
<1>5. "imu" \in req => imu # NoFile
  BY <1>1, <1>2 DEF Doctor!CheckImu, Doctor!Unless
<1>6. ASSUME NEW tf \in Doctor!CheckedTf(req), tf \notin available
      PROVE  Doctor!MissingTf(req, tf) \in Doctor!Evaluate(req, available)
  BY <1>2, <1>6 DEF Doctor!CheckTf
<1>7. /\ "base<-lidar" \in Doctor!CheckedTf(req) /\ "odom<-base" \in Doctor!CheckedTf(req)
      /\ "imu_tf" \in req => "base<-imu" \in Doctor!CheckedTf(req)
  BY DEF Doctor!CheckedTf, Doctor!Transforms
<1>8. /\ "base<-lidar" \in available
      /\ "imu_tf" \in req => "base<-imu" \in available
      /\ "odom_tf" \in req => "odom<-base" \in available
  BY <1>1, <1>6, <1>7, MissingIsStrict
<1> QED
  BY <1>3, <1>4, <1>5, <1>8

(* A status that says the deskewing cannot work fails a strict doctor.       *)
LEMMA StatusIsStrict ==
  ASSUME NEW req, NEW available, Doctor!Passes(Doctor!Evaluate(req, available)),
         "cloud_time" \in req, "imu" \in req, status # NoFile
  PROVE  /\ status.deskew \in {"none", "ready"}
         /\ status.imu \notin Doctor!Broken \union {"disabled"}
<1>1. ASSUME NEW l, NEW about, Doctor!Result(l, about) \in Doctor!CheckStatus(req, status)
      PROVE  l # "FAIL"
  BY <1>1 DEF Doctor!Passes, Doctor!Result, Doctor!Evaluate
<1>2. /\ Doctor!CheckImuStatus(req, status) \subseteq Doctor!CheckStatus(req, status)
      /\ Doctor!CheckDeskewReady(req, status) \subseteq Doctor!CheckStatus(req, status)
  BY DEF Doctor!CheckStatus
<1>3. Doctor!StrictDeskew(req) /\ req \cap {"imu", "imu_tf"} # {}
  BY DEF Doctor!StrictDeskew
<1>4. status.deskew \notin {"none", "ready"}
        => Doctor!CheckDeskewReady(req, status) = {Doctor!Result(Doctor!Unless(Doctor!StrictDeskew(req)), "deskew_ready")}
  BY DEF Doctor!CheckDeskewReady
<1>5. status.deskew \in {"none", "ready"}
  BY <1>1, <1>2, <1>3, <1>4 DEF Doctor!Unless
<1>6. status.imu = "disabled" => Doctor!Result("FAIL", "imu_status") \in Doctor!CheckImuStatus(req, status)
  <2> SUFFICES ASSUME status.imu = "disabled"
               PROVE  Doctor!Result("FAIL", "imu_status") \in Doctor!CheckImuStatus(req, status)
    OBVIOUS
  <2>1. /\ status.imu \notin {"prediction_active", "prediction_available"}
        /\ status.imu \notin Doctor!Broken
        /\ status.imu # "waiting_for_smoother_initialization"
        /\ status.imu # "waiting_for_new_imu"
    BY DEF Doctor!Broken
  <2> QED
    BY <1>3, <2>1 DEF Doctor!CheckImuStatus
<1>7. status.imu \in Doctor!Broken => Doctor!Result("FAIL", "imu_status") \in Doctor!CheckImuStatus(req, status)
  <2> SUFFICES ASSUME status.imu \in Doctor!Broken
               PROVE  Doctor!Result("FAIL", "imu_status") \in Doctor!CheckImuStatus(req, status)
    OBVIOUS
  <2>1. /\ status.imu # "disabled"
        /\ status.imu \notin {"prediction_active", "prediction_available"}
        /\ status.imu # "waiting_for_smoother_initialization"
        /\ status.imu # "waiting_for_new_imu"
    BY DEF Doctor!Broken
  <2> QED
    BY <1>3, <2>1 DEF Doctor!CheckImuStatus, Doctor!Unless
<1> QED
  BY <1>1, <1>2, <1>5, <1>6, <1>7

LEMMA DoctorStep ==
  ASSUME DoctorInv, [OfflineNext]_<<tool, vars, gatesVars, comparingVars, doctorVars>>
  PROVE  DoctorInv'
<1>1. CASE UNCHANGED doctorVars
  BY <1>1 DEF doctorVars, DoctorInv, Doctor!Evaluate
<1>2. ASSUME NEW more, Doctor!Configure(more) PROVE DoctorInv'
  BY <1>2 DEF Doctor!Configure, Doctor!stats, DoctorInv
<1>3. CASE (\E c \in Clouds : Doctor!OnCloud(c)) \/ Doctor!OnImu \/ Doctor!OnPose
             \/ \E s \in Statuses : Doctor!OnStatus(s)
  BY <1>3 DEF Doctor!OnCloud, Doctor!OnImu, Doctor!OnPose, Doctor!OnStatus, Doctor!Listening, DoctorInv
<1>4. ASSUME NEW available, Doctor!Judge(available) PROVE DoctorInv'
  BY <1>4 DEF Doctor!Judge, Doctor!Listening, Doctor!stats, DoctorInv, Doctor!Evaluate
<1> QED
  BY <1>1, <1>2, <1>3, <1>4 DEF OfflineNext, Doctor!Next

(* What the localizer needs of the world, the doctor's command requires.     *)
LEMMA CommandFits ==
  ASSUME NEW a, Doctor!ValidArgs(a)
  PROVE  LET p == Doctor!Params(a) req == Doctor!DoctorCommand(a)
         IN  /\ p.preintegration \/ p.legacy => "imu" \in req
             /\ p.transform => "imu_tf" \in req
             /\ p.map_odom => "odom_tf" \in req
             /\ p.deskew => "cloud_time" \in req /\ "imu" \in req
BY DEF Doctor!Params, Doctor!DoctorCommand, Doctor!Preintegrates, Doctor!TransformsImu, Doctor!ValidArgs

(* The doctor command printed beside a parameter file fits the file: when it *)
(* passes, everything the localizer uses with that file was there, and no    *)
(* diagnostic said that the deskewing asked for cannot work; for any clouds, *)
(* diagnostics and arguments of the config tool.                             *)
THEOREM AlwaysPassMeansUsable == OfflineSpec => []PassMeansUsable
<1>1. OfflineInit => DoctorInv
  BY DEF OfflineInit, Doctor!Init, DoctorInv
<1>2. DoctorInv /\ [OfflineNext]_<<tool, vars, gatesVars, comparingVars, doctorVars>> => DoctorInv'
  BY DoctorStep
<1>3. DoctorInv => PassMeansUsable
  <2>1. SUFFICES ASSUME DoctorInv, results # NoFile, Doctor!Passes(results.found)
                 PROVE  /\ Doctor!Needs(params) \subseteq Doctor!Seen
                        /\ params.deskew /\ status # NoFile =>
                              /\ status.deskew \in {"none", "ready"}
                              /\ status.imu \notin Doctor!Broken \union {"disabled"}
    BY DEF PassMeansUsable, Doctor!PassMeansUsable
  <2>2. /\ params = Doctor!Params(args) /\ Doctor!ValidArgs(args)
        /\ Doctor!DoctorCommand(args) \subseteq required
        /\ Doctor!Passes(Doctor!Evaluate(required, results.available))
    BY <2>1 DEF DoctorInv
  <2>3. /\ params.preintegration \/ params.legacy => "imu" \in required
        /\ params.transform => "imu_tf" \in required
        /\ params.map_odom => "odom_tf" \in required
        /\ params.deskew => "cloud_time" \in required /\ "imu" \in required
    BY <2>2, CommandFits
  <2>4. /\ cloud # NoFile /\ cloud.xyz
        /\ "cloud_time" \in required => cloud.time
        /\ "imu" \in required => imu # NoFile
        /\ "base<-lidar" \in results.available
        /\ "imu_tf" \in required => "base<-imu" \in results.available
        /\ "odom_tf" \in required => "odom<-base" \in results.available
    BY <2>2, NothingIsMissing
  <2>5. Doctor!Needs(params) \subseteq Doctor!Seen
    BY <2>3, <2>4 DEF Doctor!Needs, Doctor!Seen
  <2> QED
    BY <2>2, <2>3, <2>5, StatusIsStrict
<1> QED
  BY <1>1, <1>2, <1>3, PTL DEF OfflineSpec

-----------------------------------------------------------------------------
(* A set of positions that holds the first and with each the next holds all: *)
(* otherwise one that is missing is the least, and it has a predecessor.     *)
LEMMA EveryPosition ==
  ASSUME NEW top \in Nat, NEW S \in SUBSET (1 .. top),
         top > 0 => 1 \in S, \A k \in S : k < top => k + 1 \in S
  PROVE  S = 1 .. top
<1> DEFINE Missing == (1 .. top) \ S
           Upto(k) == {n \in Missing : n <= k}
           Parts == {Upto(k) : k \in Missing}
<1>1. SUFFICES ASSUME Missing # {} PROVE FALSE
  OBVIOUS
<1>2. IsWellFoundedOn(StrictSubsetOrdering(1 .. top), FiniteSubsetsOf(1 .. top))
  BY FS_StrictSubsetOrderingWellFounded
<1>3. Parts \subseteq FiniteSubsetsOf(1 .. top) /\ Parts # {}
  <2>1. ASSUME NEW k \in Missing PROVE Upto(k) \in FiniteSubsetsOf(1 .. top)
    <3>1. Upto(k) \in SUBSET (1 .. top) /\ IsFiniteSet(1 .. top)
      BY FS_Interval
    <3> HIDE DEF Upto
    <3>2. IsFiniteSet(Upto(k))
      BY <3>1, FS_Subset
    <3> QED
      BY <3>1, <3>2 DEF FiniteSubsetsOf
  <2> HIDE DEF Upto, Missing
  <2> QED
    BY <1>1, <2>1
<1>4. PICK smallest \in Parts : \A other \in Parts : ~ <<other, smallest>> \in StrictSubsetOrdering(1 .. top)
  BY <1>2, <1>3, WFMin
<1>5. PICK m \in Missing : smallest = Upto(m)
  BY <1>4
<1>6. m \in 1 .. top /\ m \notin S /\ m # 1 /\ m - 1 \in 1 .. top /\ m - 1 < top
  BY <1>5
<1>7. m - 1 \in Missing
  <2>1. (m - 1) + 1 = m
    BY <1>6
  <2>2. m - 1 \notin S
    BY <1>6, <2>1
  <2> QED
    BY <1>6, <2>2
<1>8. /\ Upto(m - 1) \subseteq Upto(m) /\ m \in Upto(m) /\ m \notin Upto(m - 1)
      /\ Upto(m) \in SUBSET (1 .. top)
  BY <1>5, <1>6
<1>9. Upto(m - 1) \in Parts
  BY <1>7
<1> HIDE DEF Upto, Parts
<1>10. <<Upto(m - 1), Upto(m)>> \in StrictSubsetOrdering(1 .. top)
  BY <1>8 DEF StrictSubsetOrdering
<1> QED
  BY <1>4, <1>5, <1>9, <1>10

(* The recursive function of FlattenSeq, up to n: it exists for every n, and *)
(* the pieces of a sequence of sequences lie one after the other in it.      *)
Joined(ss, n, f) == f = [i \in 1 .. n |-> IF i = 1 THEN ss[i] ELSE f[i - 1] \o ss[i]]

LEMMA JoinedExists ==
  ASSUME NEW ss, NEW top \in Nat
  PROVE  top > 0 => \E f : Joined(ss, top, f)
<1> DEFINE S == {n \in 1 .. top : \E f : Joined(ss, n, f)}
<1>1. \E f : Joined(ss, 1, f)
  <2> DEFINE f == [i \in 1 .. 1 |-> ss[i]]
  <2>1. f = [i \in 1 .. 1 |-> IF i = 1 THEN ss[i] ELSE f[i - 1] \o ss[i]]
    OBVIOUS
  <2> HIDE DEF f
  <2> QED
    BY <2>1 DEF Joined
<1>2. ASSUME NEW k \in S, k < top PROVE k + 1 \in S
  <2>1. PICK g : Joined(ss, k, g)
    OBVIOUS
  <2>2. k \in Nat \ {0} /\ k + 1 \in 1 .. top /\ k + 1 # 1
    BY <1>2
  <2> DEFINE f == [i \in 1 .. (k + 1) |-> IF i = k + 1 THEN g[k] \o ss[k + 1] ELSE g[i]]
             h == [i \in 1 .. (k + 1) |-> IF i = 1 THEN ss[i] ELSE f[i - 1] \o ss[i]]
  <2>3. ASSUME NEW i \in 1 .. (k + 1) PROVE f[i] = h[i]
    <3>1. CASE i = k + 1
      <4>1. f[k] = g[k] /\ i - 1 = k /\ i # 1
        BY <2>2, <3>1
      <4> QED
        BY <3>1, <4>1
    <3>2. CASE i # k + 1
      <4>1. i \in 1 .. k
        BY <2>2, <3>2
      <4>2. g[i] = IF i = 1 THEN ss[i] ELSE g[i - 1] \o ss[i]
        BY <2>1, <4>1 DEF Joined
      <4>3. i # 1 => f[i - 1] = g[i - 1]
        BY <4>1, <2>2
      <4> QED
        BY <3>2, <4>1, <4>2, <4>3
    <3> QED
      BY <3>1, <3>2
  <2>4. f = h
    <3>1. f = [i \in 1 .. (k + 1) |-> f[i]] /\ h = [i \in 1 .. (k + 1) |-> h[i]]
      OBVIOUS
    <3> HIDE DEF f, h
    <3> QED
      BY <2>3, <3>1
  <2>5. Joined(ss, k + 1, f)
    <3> HIDE DEF f
    <3> QED
      BY <2>4 DEF Joined
  <2> HIDE DEF f
  <2> QED
    BY <2>2, <2>5
<1>3. top > 0 => S = 1 .. top
  <2>1. top > 0 => 1 \in S
    BY <1>1
  <2> HIDE DEF S
  <2>2. S \in SUBSET (1 .. top)
    BY DEF S
  <2> QED
    BY <1>2, <2>1, <2>2, EveryPosition
<1> QED
  BY <1>3

LEMMA FlattenSeqIsJoined ==
  ASSUME NEW ss, Len(ss) \in Nat \ {0}
  PROVE  \E f : Joined(ss, Len(ss), f) /\ Comparing!FlattenSeq(ss) = f[Len(ss)]
<1> DEFINE flatten[i \in 1 .. Len(ss)] == IF i = 1 THEN ss[i] ELSE flatten[i - 1] \o ss[i]
<1>1. Comparing!FlattenSeq(ss) = flatten[Len(ss)]
  BY DEF Comparing!FlattenSeq
<1>2. flatten = CHOOSE f : Joined(ss, Len(ss), f)
  BY DEF Joined, flatten
<1>3. Joined(ss, Len(ss), flatten)
  <2> HIDE DEF flatten
  <2>1. \E f : Joined(ss, Len(ss), f)
    BY JoinedExists
  <2> QED
    BY <1>2, <2>1
<1> HIDE DEF flatten
<1> QED
  BY <1>1, <1>3

Block(r, off, s) == \A k \in 1 .. Len(s) : off + k \in 1 .. Len(r) /\ r[off + k] = s[k]
Laid(ss, n, r) ==
    /\ \A i \in 1 .. n : \E off \in Nat : Block(r, off, ss[i])
    /\ \A p \in 1 .. Len(r) : \E i \in 1 .. n : \E off \in Nat : \E k \in 1 .. Len(ss[i]) :
          p = off + k /\ Block(r, off, ss[i])

LEMMA OneLaid ==
  ASSUME NEW P, NEW ss \in Seq(Seq(P)), ss # <<>>
  PROVE  Laid(ss, 1, ss[1])
<1>1. ss[1] \in Seq(P) /\ Len(ss[1]) \in Nat
  BY ElementOfSeq, LenProperties
<1>2. Block(ss[1], 0, ss[1])
  BY <1>1 DEF Block
<1>3. \A p \in 1 .. Len(ss[1]) : p = 0 + p
  BY <1>1
<1> QED
  BY <1>2, <1>3 DEF Laid

LEMMA MoreLaid ==
  ASSUME NEW P, NEW ss \in Seq(Seq(P)), NEW n \in 1 .. Len(ss), n < Len(ss),
         NEW r \in Seq(P), Laid(ss, n, r)
  PROVE  Laid(ss, n + 1, r \o ss[n + 1])
<1>1. /\ Len(ss) \in Nat /\ n + 1 \in 1 .. Len(ss) /\ 1 .. (n + 1) = (1 .. n) \union {n + 1}
      /\ ss[n + 1] \in Seq(P) /\ Len(ss[n + 1]) \in Nat /\ Len(r) \in Nat
  <2>1. Len(ss) \in Nat /\ n + 1 \in 1 .. Len(ss) /\ Len(r) \in Nat
    BY LenProperties
  <2>2. ss[n + 1] \in Seq(P)
    BY <2>1, ElementOfSeq
  <2>3. Len(ss[n + 1]) \in Nat
    BY <2>2, LenProperties
  <2>4. 1 .. (n + 1) = (1 .. n) \union {n + 1}
    BY <2>1
  <2> QED
    BY <2>1, <2>2, <2>3, <2>4
<1> DEFINE s == ss[n + 1]
           all == r \o s
<1>2. /\ Len(all) = Len(r) + Len(s)
      /\ \A p \in 1 .. (Len(r) + Len(s)) :
            all[p] = IF p <= Len(r) THEN r[p] ELSE s[p - Len(r)]
  BY <1>1, ConcatProperties
<1> HIDE DEF all
<1>3. ASSUME NEW t, Len(t) \in Nat, NEW off \in Nat, Block(r, off, t)
      PROVE  Block(all, off, t)
  <2>1. SUFFICES ASSUME NEW k \in 1 .. Len(t)
                 PROVE  off + k \in 1 .. Len(all) /\ all[off + k] = t[k]
    BY DEF Block
  <2>2. off + k \in 1 .. Len(r) /\ r[off + k] = t[k]
    BY <1>3 DEF Block
  <2> HIDE DEF s
  <2>3. Len(s) \in Nat
    BY <1>1 DEF s
  <2>4. off + k \in 1 .. (Len(r) + Len(s)) /\ off + k <= Len(r)
    BY <1>1, <2>2, <2>3
  <2> QED
    BY <1>2, <2>2, <2>4
<1>4. Block(all, Len(r), s)
  <2>1. SUFFICES ASSUME NEW k \in 1 .. Len(s)
                 PROVE  Len(r) + k \in 1 .. Len(all) /\ all[Len(r) + k] = s[k]
    BY DEF Block
  <2> HIDE DEF s
  <2>2. Len(s) \in Nat
    BY <1>1 DEF s
  <2>3. /\ Len(r) + k \in 1 .. (Len(r) + Len(s)) /\ ~ Len(r) + k <= Len(r)
        /\ (Len(r) + k) - Len(r) = k
    BY <1>1, <2>2
  <2> QED
    BY <1>2, <2>3
<1>5. \A i \in 1 .. n : Len(ss[i]) \in Nat
  <2>1. ASSUME NEW i \in 1 .. n PROVE Len(ss[i]) \in Nat
    <3>1. i \in 1 .. Len(ss)
      BY <1>1
    <3>2. ss[i] \in Seq(P)
      BY <3>1, ElementOfSeq
    <3> QED
      BY <3>2, LenProperties
  <2> QED
    BY <2>1
<1>6. \A i \in 1 .. (n + 1) : \E off \in Nat : Block(all, off, ss[i])
  BY <1>1, <1>3, <1>4, <1>5 DEF Laid
<1>7. ASSUME NEW p \in 1 .. Len(all)
      PROVE  \E i \in 1 .. (n + 1) : \E off \in Nat : \E k \in 1 .. Len(ss[i]) :
                p = off + k /\ Block(all, off, ss[i])
  <2>1. CASE p <= Len(r)
    <3>1. p \in 1 .. Len(r)
      BY <1>1, <1>2, <2>1
    <3>2. PICK i \in 1 .. n : \E off \in Nat : \E k \in 1 .. Len(ss[i]) : p = off + k /\ Block(r, off, ss[i])
      BY <3>1 DEF Laid
    <3> QED
      BY <1>1, <1>3, <1>5, <3>2
  <2>2. CASE ~ p <= Len(r)
    <3>1. p - Len(r) \in 1 .. Len(s) /\ p = Len(r) + (p - Len(r))
      <4>1. Len(s) \in Nat
        BY <1>1
      <4> HIDE DEF s
      <4> QED
        BY <1>1, <1>2, <2>2, <4>1
    <3> QED
      BY <1>1, <1>4, <3>1
  <2> QED
    BY <2>1, <2>2
<1>8. Laid(ss, n + 1, all)
  BY <1>6, <1>7 DEF Laid
<1> QED
  BY <1>8 DEF all

(* What FlattenSeq returns: the pieces, in one sequence, and nothing else.   *)
LEMMA Flattened ==
  ASSUME NEW P, NEW ss \in Seq(Seq(P)), ss # <<>>
  PROVE  /\ Comparing!FlattenSeq(ss) \in Seq(P)
         /\ Laid(ss, Len(ss), Comparing!FlattenSeq(ss))
<1>1. Len(ss) \in Nat \ {0}
  BY LenProperties, EmptySeq
<1>2. PICK f : Joined(ss, Len(ss), f) /\ Comparing!FlattenSeq(ss) = f[Len(ss)]
  BY <1>1, FlattenSeqIsJoined
<1> DEFINE S == {n \in 1 .. Len(ss) : f[n] \in Seq(P) /\ Laid(ss, n, f[n])}
<1>3. 1 \in S
  <2>1. 1 \in 1 .. Len(ss)
    BY <1>1
  <2>2. f[1] = ss[1]
    BY <1>2, <2>1 DEF Joined
  <2> QED
    BY <2>1, <2>2, OneLaid, ElementOfSeq
<1>4. ASSUME NEW n \in S, n < Len(ss) PROVE n + 1 \in S
  <2>1. n + 1 \in 1 .. Len(ss) /\ n + 1 # 1 /\ (n + 1) - 1 = n
    BY <1>1, <1>4
  <2>2. f[n + 1] = f[n] \o ss[n + 1]
    <3>1. PICK m : m = n + 1
      OBVIOUS
    <3>2. f[m] = IF m = 1 THEN ss[m] ELSE f[m - 1] \o ss[m]
      BY <1>2, <2>1, <3>1 DEF Joined
    <3> QED
      BY <2>1, <3>1, <3>2
  <2>3. ss[n + 1] \in Seq(P)
    BY <2>1, ElementOfSeq
  <2>4. n \in 1 .. Len(ss) /\ f[n] \in Seq(P) /\ Laid(ss, n, f[n])
    OBVIOUS
  <2> HIDE DEF S
  <2>5. f[n + 1] \in Seq(P)
    BY <2>2, <2>3, <2>4, ConcatProperties
  <2>6. Laid(ss, n + 1, f[n + 1])
    BY <1>4, <2>1, <2>2, <2>4, MoreLaid
  <2> QED
    BY <2>1, <2>5, <2>6 DEF S
<1>5. Len(ss) \in S
  <2> HIDE DEF S
  <2>1. S \in SUBSET (1 .. Len(ss))
    BY DEF S
  <2>2. Len(ss) \in Nat
    BY <1>1
  <2>3. S = 1 .. Len(ss)
    BY <1>3, <1>4, <2>1, <2>2, EveryPosition
  <2> QED
    BY <1>1, <2>3
<1> QED
  BY <1>2, <1>5

-----------------------------------------------------------------------------
(* ImuComparison: each command that is still to come will do its part, and   *)
(* a run that is recorded again is validated again.                          *)

Rows == Recordings \union {<<>>}
Files == [summary : Nat, rows : Rows, verdict : {"none", "OK", "FAIL"}, judged : Rows, trajectory : Nat]
CommandsThereAre == ({"benchmark", "validate", "evaluate"} \X Comparing!Modes) \union {<<"compare", "all">>}

InOrder(list) ==
    /\ list \in Seq(CommandsThereAre) /\ list # <<>>
    /\ \A j \in 1 .. Len(list) : list[j][1] = "compare" <=> j = Len(list)
    /\ \A j \in 1 .. Len(list) : list[j][1] = "benchmark" /\ Comparing!Validates(list[j][2]) =>
          \E k \in 1 .. Len(list) : k > j /\ list[k] = <<"validate", list[j][2]>>
Waits(list, step, mode) == \E j \in 1 .. Len(list) : list[j] = <<step, mode>>

Benchmarked(mode) == dir[mode].summary = now
Validated(mode) == dir[mode].verdict = "OK" /\ dir[mode].judged = dir[mode].rows
Evaluated(mode) == dir[mode].trajectory = now
Progress ==
    \A mode \in Comparing!Planned(chosen) :
        /\ Waits(todo, "benchmark", mode) \/ Benchmarked(mode)
        /\ Comparing!Validates(mode) => Waits(todo, "validate", mode) \/ Validated(mode)
        /\ chosen.reference => Waits(todo, "evaluate", mode) \/ Evaluated(mode)
Finished ==
    \A mode \in Comparing!Planned(chosen) :
        /\ comparison[mode] = dir[mode]
        /\ Benchmarked(mode)
        /\ Comparing!Validates(mode) => Validated(mode)
        /\ chosen.reference => Evaluated(mode)

ComparingTypes ==
    /\ now \in Nat /\ failed \in BOOLEAN
    /\ dir \in [Comparing!Modes -> Files] /\ comparison \in [Comparing!Modes -> Files]
    /\ chosen \in [modes : Seq(Comparing!Modes), reference : BOOLEAN, continue : BOOLEAN, script : BOOLEAN]
    /\ imuPlan \in [modes : Seq(Comparing!Modes), reference : BOOLEAN]
PlanIsChosen ==
    code \in {"running", "passed"} => imuPlan.modes = chosen.modes /\ imuPlan.reference = chosen.reference
ComparingInv ==
    /\ ComparingTypes /\ PlanIsChosen
    /\ code = "running" => now > 0 /\ InOrder(todo) /\ (~failed => Progress)
    /\ code = "passed" => Finished /\ ~failed
    /\ ZeroVouches

LEMMA RestInOrder ==
  ASSUME NEW list, InOrder(list), Head(list)[1] # "compare"
  PROVE  /\ InOrder(Tail(list))
         /\ Head(list) \in {"benchmark", "validate", "evaluate"} \X Comparing!Modes
         /\ \A step, mode : Waits(list, step, mode) /\ <<step, mode>> # Head(list)
                              => Waits(Tail(list), step, mode)
         /\ \A mode : Head(list) = <<"benchmark", mode>> /\ Comparing!Validates(mode)
                              => Waits(Tail(list), "validate", mode)
<1> DEFINE rest == Tail(list)
<1>1. /\ list \in Seq(CommandsThereAre) /\ list # <<>>
      /\ Len(list) \in Nat \ {0} /\ Head(list) = list[1] /\ 1 \in 1 .. Len(list)
      /\ rest \in Seq(CommandsThereAre) /\ Len(rest) = Len(list) - 1
      /\ \A j \in 1 .. Len(rest) : rest[j] = list[j + 1]
  BY HeadTailProperties, EmptySeq, LenProperties DEF InOrder
<1>2. Len(list) # 1
  BY <1>1 DEF InOrder
<1>3. rest # <<>> /\ Len(rest) \in Nat \ {0}
  <2>1. Len(rest) \in Nat \ {0}
    BY <1>1, <1>2
  <2> HIDE DEF rest
  <2> QED
    BY <2>1
<1>4. Head(list) \in {"benchmark", "validate", "evaluate"} \X Comparing!Modes
  <2>1. list[1] \in CommandsThereAre
    BY <1>1, ElementOfSeq
  <2> QED
    BY <1>1, <2>1 DEF CommandsThereAre
<1> HIDE DEF rest
<1>5. ASSUME NEW j \in 1 .. Len(rest)
      PROVE  j + 1 \in 1 .. Len(list) /\ rest[j] = list[j + 1] /\ (j = Len(rest) <=> j + 1 = Len(list))
  BY <1>1
<1>6. ASSUME NEW k \in 1 .. Len(list), k > 1
      PROVE  \E j \in 1 .. Len(rest) : k = j + 1 /\ rest[j] = list[k]
  <2>1. k - 1 \in 1 .. Len(rest) /\ (k - 1) + 1 = k
    BY <1>1, <1>6
  <2>2. PICK j : j = k - 1
    OBVIOUS
  <2> QED
    BY <1>5, <2>1, <2>2
<1>7. \A j \in 1 .. Len(rest) : rest[j][1] = "compare" <=> j = Len(rest)
  BY <1>5 DEF InOrder
<1>8. ASSUME NEW j \in 1 .. Len(rest), rest[j][1] = "benchmark", Comparing!Validates(rest[j][2])
      PROVE  \E i \in 1 .. Len(rest) : i > j /\ rest[i] = <<"validate", rest[j][2]>>
  <2>1. PICK m : m = j + 1
    OBVIOUS
  <2>2. m \in 1 .. Len(list) /\ rest[j] = list[m]
    BY <1>5, <2>1
  <2>3. PICK k \in 1 .. Len(list) : k > m /\ list[k] = <<"validate", list[m][2]>>
    BY <1>8, <2>2 DEF InOrder
  <2>4. k > 1
    BY <1>1, <2>1, <2>3
  <2>5. PICK i \in 1 .. Len(rest) : k = i + 1 /\ rest[i] = list[k]
    BY <1>6, <2>4
  <2>6. i > j
    BY <1>1, <2>1, <2>3, <2>5
  <2> QED
    BY <2>2, <2>3, <2>5, <2>6
<1>9. InOrder(rest)
  BY <1>1, <1>3, <1>7, <1>8 DEF InOrder
<1>10. ASSUME NEW step, NEW mode, Waits(list, step, mode), <<step, mode>> # Head(list)
       PROVE  Waits(rest, step, mode)
  <2>1. PICK k \in 1 .. Len(list) : list[k] = <<step, mode>>
    BY <1>10 DEF Waits
  <2>2. k > 1
    <3>1. k # 1
      BY <1>1, <1>10, <2>1
    <3> QED
      BY <1>1, <3>1
  <2> QED
    BY <1>6, <2>1, <2>2 DEF Waits
<1>11. ASSUME NEW mode, Head(list) = <<"benchmark", mode>>, Comparing!Validates(mode)
       PROVE  Waits(rest, "validate", mode)
  <2>1. 1 \in 1 .. Len(list) /\ list[1] = <<"benchmark", mode>>
    BY <1>1, <1>11
  <2>2. list[1][1] = "benchmark" /\ list[1][2] = mode
    BY <2>1
  <2>3. PICK k \in 1 .. Len(list) : k > 1 /\ list[k] = <<"validate", mode>>
    BY <1>11, <2>1, <2>2 DEF InOrder
  <2> QED
    BY <1>6, <2>3 DEF Waits
<1> QED
  BY <1>4, <1>9, <1>10, <1>11 DEF rest

(* Short sequences put together.                                             *)
LEMMA Added ==
  ASSUME NEW P, NEW x \in P, NEW y \in P, NEW z \in P
  PROVE  /\ <<x>> \o <<y>> = <<x, y>> /\ <<x, y>> \o <<z>> = <<x, y, z>>
         /\ <<x>> \o <<>> = <<x>> /\ <<x, y>> \o <<>> = <<x, y>>
<1>1. <<x>> \in Seq(P) /\ <<y>> \in Seq(P) /\ <<z>> \in Seq(P) /\ <<x, y>> \in Seq(P) /\ <<x, y, z>> \in Seq(P)
  OBVIOUS
<1>2. <<x>> \o <<y>> = <<x, y>>
  <2>1. PICK s : s = <<x>> \o <<y>>
    OBVIOUS
  <2>2. s \in Seq(P) /\ Len(s) = 2 /\ s[1] = x /\ s[2] = y
    <3>1. /\ s \in Seq(P) /\ Len(s) = Len(<<x>>) + Len(<<y>>)
          /\ \A i \in 1 .. Len(<<x>>) + Len(<<y>>) : s[i] = IF i <= Len(<<x>>) THEN <<x>>[i] ELSE <<y>>[i - Len(<<x>>)]
      BY <1>1, <2>1, ConcatProperties
    <3> QED
      BY <3>1
  <2>3. PICK t : t = <<x, y>>
    OBVIOUS
  <2>4. t \in Seq(P) /\ Len(s) = Len(t) /\ \A i \in 1 .. Len(s) : s[i] = t[i]
    BY <1>1, <2>2, <2>3
  <2> QED
    BY <2>1, <2>2, <2>3, <2>4, SeqEqual
<1>3. <<x, y>> \o <<z>> = <<x, y, z>>
  <2>1. PICK s : s = <<x, y>> \o <<z>>
    OBVIOUS
  <2>2. s \in Seq(P) /\ Len(s) = 3 /\ s[1] = x /\ s[2] = y /\ s[3] = z
    <3>1. /\ s \in Seq(P) /\ Len(s) = Len(<<x, y>>) + Len(<<z>>)
          /\ \A i \in 1 .. Len(<<x, y>>) + Len(<<z>>) : s[i] = IF i <= Len(<<x, y>>) THEN <<x, y>>[i] ELSE <<z>>[i - Len(<<x, y>>)]
      BY <1>1, <2>1, ConcatProperties
    <3> QED
      BY <3>1
  <2>3. PICK t : t = <<x, y, z>>
    OBVIOUS
  <2>4. t \in Seq(P) /\ Len(s) = Len(t) /\ \A i \in 1 .. Len(s) : s[i] = t[i]
    BY <1>1, <2>2, <2>3
  <2> QED
    BY <2>1, <2>2, <2>3, <2>4, SeqEqual
<1>4. <<x>> \o <<>> = <<x>> /\ <<x, y>> \o <<>> = <<x, y>>
  OBVIOUS
<1> QED
  BY <1>2, <1>3, <1>4

(* The commands of an invocation are in order, and none is missing.          *)
LEMMA OneModeInOrder ==
  ASSUME NEW mode \in Comparing!Modes, NEW reference \in BOOLEAN,
         NEW s, s = Comparing!CommandsOf(mode, reference)
  PROVE  /\ s \in Seq(CommandsThereAre)
         /\ \A k \in 1 .. Len(s) : s[k][1] # "compare"
         /\ \A k \in 1 .. Len(s) : s[k][1] = "benchmark" => k = 1
         /\ 1 \in 1 .. Len(s) /\ s[1] = <<"benchmark", mode>>
         /\ Comparing!Validates(mode) => 2 \in 1 .. Len(s) /\ s[2] = <<"validate", mode>>
         /\ reference => Waits(s, "evaluate", mode)
<1>1. PICK b, v, e : b = <<"benchmark", mode>> /\ v = <<"validate", mode>> /\ e = <<"evaluate", mode>>
  OBVIOUS
<1>2. b \in CommandsThereAre /\ v \in CommandsThereAre /\ e \in CommandsThereAre
  BY <1>1 DEF CommandsThereAre
<1>3. b[1] = "benchmark" /\ v[1] = "validate" /\ e[1] = "evaluate"
  BY <1>1
<1>4. CASE Comparing!Validates(mode) /\ reference
  <2>1. s = (<<b>> \o <<v>>) \o <<e>>
    BY <1>1, <1>4 DEF Comparing!CommandsOf
  <2>2. s = <<b, v, e>>
    BY <1>2, <2>1, Added
  <2> QED
    BY <1>1, <1>2, <1>3, <2>2 DEF Waits
<1>5. CASE Comparing!Validates(mode) /\ ~reference
  <2>1. s = (<<b>> \o <<v>>) \o <<>>
    BY <1>1, <1>5 DEF Comparing!CommandsOf
  <2>2. s = <<b, v>>
    BY <1>2, <2>1, Added
  <2> QED
    BY <1>1, <1>2, <1>3, <1>5, <2>2
<1>6. CASE ~Comparing!Validates(mode) /\ reference
  <2>1. s = (<<b>> \o <<>>) \o <<e>>
    BY <1>1, <1>6 DEF Comparing!CommandsOf
  <2>2. s = <<b, e>>
    BY <1>2, <2>1, Added
  <2>3. Len(s) = 2 /\ s \in Seq(CommandsThereAre) /\ s[1] = b /\ s[2] = e
    BY <1>2, <2>2
  <2>4. \A k \in 1 .. Len(s) : k = 1 \/ k = 2
    BY <2>3
  <2>5. /\ \A k \in 1 .. Len(s) : s[k][1] # "compare"
        /\ \A k \in 1 .. Len(s) : s[k][1] = "benchmark" => k = 1
    BY <1>3, <2>3, <2>4
  <2>6. Waits(s, "evaluate", mode)
    BY <1>1, <2>3 DEF Waits
  <2>7. 1 \in 1 .. Len(s) /\ s[1] = <<"benchmark", mode>>
    BY <1>1, <2>3
  <2> QED
    BY <1>6, <2>3, <2>5, <2>6, <2>7
<1>7. CASE ~Comparing!Validates(mode) /\ ~reference
  <2>1. s = (<<b>> \o <<>>) \o <<>>
    BY <1>1, <1>7 DEF Comparing!CommandsOf
  <2>2. s = <<b>>
    BY <1>2, <2>1, Added
  <2> QED
    BY <1>1, <1>2, <1>3, <1>7, <2>2
<1> QED
  BY <1>4, <1>5, <1>6, <1>7

LEMMA ModesInOrder ==
  ASSUME NEW modes \in Seq(Comparing!Modes), NEW reference \in BOOLEAN,
         NEW flat, flat = Comparing!FlattenSeq([i \in DOMAIN modes |-> Comparing!CommandsOf(modes[i], reference)])
  PROVE  /\ flat \in Seq(CommandsThereAre)
         /\ \A p \in 1 .. Len(flat) : flat[p][1] # "compare"
         /\ \A p \in 1 .. Len(flat) : flat[p][1] = "benchmark" /\ Comparing!Validates(flat[p][2]) =>
               \E k \in 1 .. Len(flat) : k > p /\ flat[k] = <<"validate", flat[p][2]>>
         /\ \A i \in DOMAIN modes :
               /\ Waits(flat, "benchmark", modes[i])
               /\ Comparing!Validates(modes[i]) => Waits(flat, "validate", modes[i])
               /\ reference => Waits(flat, "evaluate", modes[i])
<1>1. PICK ss : ss = [i \in DOMAIN modes |-> Comparing!CommandsOf(modes[i], reference)]
  OBVIOUS
<1>2. Len(modes) \in Nat /\ DOMAIN modes = 1 .. Len(modes) /\ \A i \in DOMAIN modes : modes[i] \in Comparing!Modes
  BY LenProperties, ElementOfSeq
<1>3. ASSUME NEW i \in 1 .. Len(modes)
      PROVE  /\ ss[i] \in Seq(CommandsThereAre)
             /\ \A k \in 1 .. Len(ss[i]) : ss[i][k][1] # "compare"
             /\ \A k \in 1 .. Len(ss[i]) : ss[i][k][1] = "benchmark" => k = 1
             /\ 1 \in 1 .. Len(ss[i]) /\ ss[i][1] = <<"benchmark", modes[i]>>
             /\ Comparing!Validates(modes[i]) => 2 \in 1 .. Len(ss[i]) /\ ss[i][2] = <<"validate", modes[i]>>
             /\ reference => Waits(ss[i], "evaluate", modes[i])
  <2>1. PICK mode, s : mode = modes[i] /\ s = ss[i]
    OBVIOUS
  <2>2. mode \in Comparing!Modes /\ s = Comparing!CommandsOf(mode, reference)
    BY <1>1, <1>2, <2>1
  <2>3. /\ s \in Seq(CommandsThereAre)
        /\ \A k \in 1 .. Len(s) : s[k][1] # "compare"
        /\ \A k \in 1 .. Len(s) : s[k][1] = "benchmark" => k = 1
        /\ 1 \in 1 .. Len(s) /\ s[1] = <<"benchmark", mode>>
        /\ Comparing!Validates(mode) => 2 \in 1 .. Len(s) /\ s[2] = <<"validate", mode>>
        /\ reference => Waits(s, "evaluate", mode)
    BY <2>2, OneModeInOrder
  <2> QED
    BY <2>1, <2>3
<1>4. ss \in Seq(Seq(CommandsThereAre)) /\ Len(ss) = Len(modes)
  <2>1. ss = [i \in 1 .. Len(modes) |-> ss[i]]
    BY <1>1, <1>2
  <2>2. ss \in [1 .. Len(modes) -> Seq(CommandsThereAre)]
    BY <1>3, <2>1
  <2> QED
    BY <1>2, <2>2
<1>5. CASE Len(modes) = 0
  <2>1. flat = ss
    BY <1>1, <1>4, <1>5 DEF Comparing!FlattenSeq
  <2>2. ss = <<>>
    BY <1>4, <1>5, EmptySeq
  <2>3. DOMAIN modes = {} /\ 1 .. Len(flat) = {}
    BY <1>2, <1>5, <2>1, <2>2
  <2>4. flat \in Seq(CommandsThereAre)
    BY <2>1, <2>2
  <2> QED
    BY <2>3, <2>4
<1>6. CASE Len(modes) # 0
  <2>1. ss # <<>>
    BY <1>4, <1>6, EmptySeq
  <2>2. flat \in Seq(CommandsThereAre) /\ Laid(ss, Len(modes), flat)
    BY <1>1, <1>4, <2>1, Flattened
  <2>3. ASSUME NEW p \in 1 .. Len(flat)
        PROVE  /\ flat[p][1] # "compare"
               /\ flat[p][1] = "benchmark" /\ Comparing!Validates(flat[p][2]) =>
                     \E k \in 1 .. Len(flat) : k > p /\ flat[k] = <<"validate", flat[p][2]>>
    <3>1. PICK i \in 1 .. Len(modes) : \E off \in Nat : \E k \in 1 .. Len(ss[i]) :
                  p = off + k /\ Block(flat, off, ss[i])
      BY <2>2 DEF Laid
    <3>2. PICK off \in Nat : \E k \in 1 .. Len(ss[i]) : p = off + k /\ Block(flat, off, ss[i])
      BY <3>1
    <3>3. PICK k \in 1 .. Len(ss[i]) : p = off + k /\ Block(flat, off, ss[i])
      BY <3>2
    <3>4. flat[p] = ss[i][k]
      BY <3>3 DEF Block
    <3>5. flat[p][1] # "compare"
      BY <1>3, <3>4
    <3>6. ASSUME flat[p][1] = "benchmark", Comparing!Validates(flat[p][2])
          PROVE  \E m \in 1 .. Len(flat) : m > p /\ flat[m] = <<"validate", flat[p][2]>>
      <4>1. k = 1 /\ flat[p] = <<"benchmark", modes[i]>>
        BY <1>3, <3>4, <3>6
      <4>2. flat[p][2] = modes[i]
        BY <4>1
      <4>3. 2 \in 1 .. Len(ss[i]) /\ ss[i][2] = <<"validate", modes[i]>>
        BY <1>3, <3>6, <4>2
      <4>4. off + 2 \in 1 .. Len(flat) /\ flat[off + 2] = <<"validate", modes[i]>>
        BY <3>3, <4>3 DEF Block
      <4>5. off + 2 > p
        BY <3>3, <4>1
      <4> QED
        BY <4>2, <4>4, <4>5
    <3> QED
      BY <3>5, <3>6
  <2>4. ASSUME NEW i \in 1 .. Len(modes)
        PROVE  /\ Waits(flat, "benchmark", modes[i])
               /\ Comparing!Validates(modes[i]) => Waits(flat, "validate", modes[i])
               /\ reference => Waits(flat, "evaluate", modes[i])
    <3>1. PICK off \in Nat : Block(flat, off, ss[i])
      BY <2>2 DEF Laid
    <3>2. ASSUME NEW step, NEW k \in 1 .. Len(ss[i]), ss[i][k] = <<step, modes[i]>>
          PROVE  Waits(flat, step, modes[i])
      BY <3>1, <3>2 DEF Block, Waits
    <3>3. ASSUME NEW step, Waits(ss[i], step, modes[i]) PROVE Waits(flat, step, modes[i])
      BY <3>2, <3>3 DEF Waits
    <3> QED
      BY <1>3, <3>2, <3>3
  <2> QED
    BY <1>2, <2>2, <2>3, <2>4
<1> QED
  BY <1>2, <1>5, <1>6

LEMMA CommandsInOrder ==
  ASSUME NEW modes \in Seq(Comparing!Modes), NEW reference \in BOOLEAN,
         NEW list, list = Comparing!Commands(modes, reference)
  PROVE  /\ InOrder(list)
         /\ \A i \in DOMAIN modes :
               /\ Waits(list, "benchmark", modes[i])
               /\ Comparing!Validates(modes[i]) => Waits(list, "validate", modes[i])
               /\ reference => Waits(list, "evaluate", modes[i])
<1>1. PICK flat : flat = Comparing!FlattenSeq([i \in DOMAIN modes |-> Comparing!CommandsOf(modes[i], reference)])
  OBVIOUS
<1>2. PICK c : c = <<"compare", "all">>
  OBVIOUS
<1>3. list = flat \o <<c>>
  BY <1>1, <1>2 DEF Comparing!Commands
<1>4. c[1] = "compare" /\ c \in CommandsThereAre
  BY <1>2 DEF CommandsThereAre
<1>5. flat \in Seq(CommandsThereAre) /\ Len(flat) \in Nat
  BY <1>1, ModesInOrder, LenProperties
<1>6. /\ \A p \in 1 .. Len(flat) : flat[p][1] # "compare"
      /\ \A p \in 1 .. Len(flat) : flat[p][1] = "benchmark" /\ Comparing!Validates(flat[p][2]) =>
            \E k \in 1 .. Len(flat) : k > p /\ flat[k] = <<"validate", flat[p][2]>>
      /\ \A i \in DOMAIN modes :
            /\ Waits(flat, "benchmark", modes[i])
            /\ Comparing!Validates(modes[i]) => Waits(flat, "validate", modes[i])
            /\ reference => Waits(flat, "evaluate", modes[i])
  BY <1>1, ModesInOrder, ZenonT(30)
<1>7. /\ list \in Seq(CommandsThereAre) /\ Len(list) = Len(flat) + 1
      /\ \A p \in 1 .. Len(flat) : list[p] = flat[p]
      /\ list[Len(flat) + 1] = c
  <2>1. <<c>> \in Seq(CommandsThereAre) /\ Len(<<c>>) = 1 /\ <<c>>[1] = c
    BY <1>4
  <2>2. PICK t : t = <<c>>
    OBVIOUS
  <2>3. /\ list \in Seq(CommandsThereAre) /\ Len(list) = Len(flat) + 1
        /\ \A p \in 1 .. (Len(flat) + 1) : list[p] = IF p <= Len(flat) THEN flat[p] ELSE t[p - Len(flat)]
    BY <1>3, <1>5, <2>1, <2>2, ConcatProperties
  <2>4. /\ Len(flat) + 1 \in 1 .. (Len(flat) + 1) /\ ~ Len(flat) + 1 <= Len(flat)
        /\ (Len(flat) + 1) - Len(flat) = 1
        /\ \A p \in 1 .. Len(flat) : p \in 1 .. (Len(flat) + 1) /\ p <= Len(flat)
    BY <1>5
  <2> QED
    BY <2>1, <2>2, <2>3, <2>4
<1>8. 1 .. Len(list) = (1 .. Len(flat)) \union {Len(flat) + 1} /\ list # <<>>
  <2>1. Len(list) # 0
    BY <1>5, <1>7
  <2> QED
    BY <1>5, <1>7, <2>1
<1>9. \A j \in 1 .. Len(list) : list[j][1] = "compare" <=> j = Len(list)
  <2>1. ASSUME NEW j \in 1 .. Len(flat) PROVE list[j][1] # "compare" /\ j # Len(list)
    BY <1>5, <1>7, <1>6
  <2> QED
    BY <1>4, <1>7, <1>8, <2>1
<1>10. ASSUME NEW j \in 1 .. Len(list), list[j][1] = "benchmark", Comparing!Validates(list[j][2])
      PROVE  \E k \in 1 .. Len(list) : k > j /\ list[k] = <<"validate", list[j][2]>>
  <2>1. j \in 1 .. Len(flat) /\ flat[j] = list[j]
    BY <1>4, <1>7, <1>8, <1>10
  <2>2. PICK k \in 1 .. Len(flat) : k > j /\ flat[k] = <<"validate", flat[j][2]>>
    BY <1>10, <1>6, <2>1
  <2> QED
    BY <1>7, <1>8, <2>1, <2>2
<1>11. \A step, mode : Waits(flat, step, mode) => Waits(list, step, mode)
  BY <1>7, <1>8 DEF Waits
<1>12. InOrder(list)
  BY <1>7, <1>8, <1>9, <1>10 DEF InOrder
<1>13. ASSUME NEW i \in DOMAIN modes
       PROVE  /\ Waits(list, "benchmark", modes[i])
              /\ Comparing!Validates(modes[i]) => Waits(list, "validate", modes[i])
              /\ reference => Waits(list, "evaluate", modes[i])
  <2>1. reference => Waits(flat, "evaluate", modes[i])
    BY <1>6
  <2> QED
    BY <1>6, <1>11, <2>1
<1> QED
  BY <1>12, <1>13

(* What an outcome of the command at the head leaves to be done.             *)
LEMMA Onwards ==
  ASSUME NEW ok, Comparing!After(ok), InOrder(todo), Head(todo)[1] # "compare"
  PROVE  /\ failed' \in BOOLEAN
         /\ code' = "running" => InOrder(todo')
         /\ code' = "running" => todo' = Tail(todo)
         /\ code' # "passed" \/ code = "passed"
         /\ ~failed' => ok /\ ~failed /\ code' = code
         /\ code' = "running" => code = "running"
BY RestInOrder DEF Comparing!After

(* A command that concerns one mode does its part.                           *)
LEMMA PartDone ==
  ASSUME ComparingInv, code = "running", NEW mode \in Comparing!Modes, NEW step,
         Head(todo) = <<step, mode>>, step # "compare",
         NEW ok, Comparing!After(ok),
         UNCHANGED <<now, chosen, imuPlan, comparison, report>>,
         dir' \in [Comparing!Modes -> Files],
         \A other \in Comparing!Modes : other # mode => dir'[other] = dir[other],
         ok => /\ step = "benchmark" =>
                     dir'[mode].summary = now /\ dir'[mode].trajectory = dir[mode].trajectory
               /\ step # "benchmark" =>
                     /\ dir'[mode].summary = dir[mode].summary
                     /\ dir'[mode].rows = dir[mode].rows
               /\ step = "validate" =>
                     /\ dir'[mode].verdict = "OK" /\ dir'[mode].judged = dir[mode].rows
                     /\ dir'[mode].trajectory = dir[mode].trajectory
               /\ step = "evaluate" =>
                     /\ dir'[mode].verdict = dir[mode].verdict /\ dir'[mode].judged = dir[mode].judged
                     /\ dir'[mode].trajectory = now
  PROVE  ComparingInv'
<1>1. PICK rest : rest = Tail(todo)
  OBVIOUS
<1>2. /\ InOrder(todo) /\ Head(todo)[1] # "compare"
      /\ now > 0 /\ ComparingTypes /\ PlanIsChosen /\ (~failed => Progress)
  BY DEF ComparingInv
<1>3. /\ failed' \in BOOLEAN
      /\ code' = "running" => InOrder(todo') /\ todo' = rest
      /\ code' # "passed"
      /\ ~failed' => ok /\ ~failed
  BY <1>1, <1>2, Onwards
<1>4. step \in {"benchmark", "validate", "evaluate"}
  BY <1>2, RestInOrder
<1>5. ComparingTypes'
  BY <1>2, <1>3 DEF ComparingTypes
<1>6. PlanIsChosen' /\ ZeroVouches'
  BY <1>2, <1>3 DEF PlanIsChosen, ZeroVouches, Comparing!ZeroVouches
<1>7. ASSUME code' = "running", ~failed', NEW other \in Comparing!Planned(chosen)
      PROVE  /\ Waits(rest, "benchmark", other) \/ dir'[other].summary = now
             /\ Comparing!Validates(other) =>
                   Waits(rest, "validate", other)
                   \/ (dir'[other].verdict = "OK" /\ dir'[other].judged = dir'[other].rows)
             /\ chosen.reference => Waits(rest, "evaluate", other) \/ dir'[other].trajectory = now
  <2>1. other \in Comparing!Modes
    <3>1. chosen.modes \in Seq(Comparing!Modes)
      BY <1>2 DEF ComparingTypes
    <3> QED
      BY <3>1, LenProperties, ElementOfSeq DEF Comparing!Planned
  <2>2. ok /\ ~failed
    BY <1>3, <1>7
  <2>3. /\ Waits(todo, "benchmark", other) \/ dir[other].summary = now
        /\ Comparing!Validates(other) =>
              Waits(todo, "validate", other) \/ (dir[other].verdict = "OK" /\ dir[other].judged = dir[other].rows)
        /\ chosen.reference => Waits(todo, "evaluate", other) \/ dir[other].trajectory = now
    BY <1>2, <1>7, <2>2 DEF Progress, Benchmarked, Validated, Evaluated
  <2>4. \A which : Waits(todo, which, other) /\ (which # step \/ other # mode) => Waits(rest, which, other)
    BY <1>1, <1>2, RestInOrder
  <2>5. CASE other # mode
    BY <2>1, <2>3, <2>4, <2>5
  <2>6. CASE other = mode
    <3>1. CASE step = "benchmark"
      <4>1. Comparing!Validates(mode) => Waits(rest, "validate", mode)
        BY <1>1, <1>2, <3>1, RestInOrder
      <4> QED
        BY <2>2, <2>3, <2>4, <2>6, <3>1, <4>1
    <3>2. CASE step = "validate"
      BY <2>2, <2>3, <2>4, <2>6, <3>2
    <3>3. CASE step = "evaluate"
      BY <2>2, <2>3, <2>4, <2>6, <3>3
    <3> QED
      BY <1>4, <3>1, <3>2, <3>3
  <2> QED
    BY <2>5, <2>6
<1>8. code' = "running" /\ ~failed' => Progress'
  <2> SUFFICES ASSUME code' = "running", ~failed' PROVE Progress'
    OBVIOUS
  <2>1. Comparing!Planned(chosen') = Comparing!Planned(chosen) /\ chosen' = chosen /\ now' = now
    OBVIOUS
  <2>2. todo' = rest
    BY <1>3
  <2>3. ASSUME NEW other \in Comparing!Planned(chosen)
        PROVE  /\ Waits(todo', "benchmark", other) \/ dir'[other].summary = now'
               /\ Comparing!Validates(other) =>
                     Waits(todo', "validate", other)
                     \/ (dir'[other].verdict = "OK" /\ dir'[other].judged = dir'[other].rows)
               /\ chosen'.reference => Waits(todo', "evaluate", other) \/ dir'[other].trajectory = now'
    BY <1>7, <2>1, <2>2
  <2> QED
    BY <2>1, <2>3 DEF Progress, Benchmarked, Validated, Evaluated
<1> QED
  BY <1>2, <1>3, <1>5, <1>6, <1>8 DEF ComparingInv

(* The steps of an invocation.                                               *)
LEMMA BeginKeeps ==
  ASSUME ComparingInv, NEW modes \in Seq(Comparing!Modes), NEW reference \in BOOLEAN,
         NEW continue \in BOOLEAN, NEW script \in BOOLEAN,
         Comparing!Begin(modes, reference, continue, script),
         imuPlan' = [modes |-> modes, reference |-> reference]
  PROVE  ComparingInv'
<1>1. /\ now \in Nat /\ now' = now + 1 /\ todo' = Comparing!Commands(modes, reference)
      /\ chosen' = [modes |-> modes, reference |-> reference, continue |-> continue, script |-> script]
      /\ failed' = FALSE /\ code' = "running" /\ UNCHANGED <<dir, comparison, report>>
  BY DEF Comparing!Begin, ComparingInv, ComparingTypes
<1>2. ComparingTypes' /\ PlanIsChosen' /\ ZeroVouches'
  <2>1. ComparingTypes'
    <3>1. /\ chosen' \in [modes : Seq(Comparing!Modes), reference : BOOLEAN,
                           continue : BOOLEAN, script : BOOLEAN]
          /\ imuPlan' \in [modes : Seq(Comparing!Modes), reference : BOOLEAN]
      BY <1>1
    <3>2. now' \in Nat
      BY <1>1
    <3>3. failed' \in BOOLEAN
      BY <1>1
    <3>4. dir' \in [Comparing!Modes -> Files] /\ comparison' \in [Comparing!Modes -> Files]
      BY <1>1 DEF ComparingInv, ComparingTypes
    <3> QED
      BY <3>1, <3>2, <3>3, <3>4 DEF ComparingTypes
  <2>2. PlanIsChosen'
    BY <1>1 DEF PlanIsChosen
  <2>3. ZeroVouches'
    BY <1>1 DEF ZeroVouches, Comparing!ZeroVouches
  <2> QED
    BY <2>1, <2>2, <2>3
<1>3. PICK list : list = Comparing!Commands(modes, reference)
  OBVIOUS
<1>4. /\ InOrder(list)
      /\ \A i \in DOMAIN modes :
            /\ Waits(list, "benchmark", modes[i])
            /\ Comparing!Validates(modes[i]) => Waits(list, "validate", modes[i])
            /\ reference => Waits(list, "evaluate", modes[i])
  BY <1>3, CommandsInOrder
<1>5. ASSUME NEW mode \in Comparing!Planned(chosen')
      PROVE  /\ Waits(todo', "benchmark", mode)
             /\ Comparing!Validates(mode) => Waits(todo', "validate", mode)
             /\ chosen'.reference => Waits(todo', "evaluate", mode)
  <2>1. chosen'.modes = modes /\ chosen'.reference = reference /\ todo' = list
    BY <1>1, <1>3
  <2>2. PICK i \in DOMAIN modes : mode = modes[i]
    BY <2>1 DEF Comparing!Planned
  <2>3. reference => Waits(list, "evaluate", modes[i])
    BY <1>4
  <2> QED
    BY <1>4, <2>1, <2>2, <2>3
<1>6. Progress'
  BY <1>5 DEF Progress
<1>7. now' > 0 /\ InOrder(todo')
  BY <1>1, <1>3, <1>4
<1> QED
  BY <1>1, <1>2, <1>6, <1>7 DEF ComparingInv

LEMMA StartKeeps ==
  ASSUME ComparingInv, NEW modes \in Selections, NEW in, NEW continue \in BOOLEAN,
         Comparing!Start(modes, in, continue)
  PROVE  ComparingInv'
<1>1. PICK reference \in BOOLEAN : reference = (in.reference = "given")
  OBVIOUS
<1>2. /\ modes \in Seq(Comparing!Modes)
      /\ Comparing!Begin(modes, reference, continue, FALSE)
      /\ imuPlan' = [modes |-> modes, reference |-> reference]
  BY <1>1, SelectionsAssumption DEF Comparing!Start
<1> QED
  BY <1>2, BeginKeeps

LEMMA RunScriptKeeps ==
  ASSUME ComparingInv, Comparing!RunScript
  PROVE  ComparingInv'
<1>1. PICK modes, reference : modes = imuPlan.modes /\ reference = imuPlan.reference
  OBVIOUS
<1>2. /\ modes \in Seq(Comparing!Modes) /\ reference \in BOOLEAN
      /\ imuPlan = [modes |-> modes, reference |-> reference]
  BY <1>1 DEF ComparingInv, ComparingTypes
<1>3. Comparing!Begin(modes, reference, FALSE, TRUE) /\ imuPlan' = imuPlan
  BY <1>1 DEF Comparing!RunScript
<1> QED
  BY <1>2, <1>3, BeginKeeps

LEMMA AsideKeeps ==
  ASSUME ComparingInv,
         \/ \E modes \in Selections, in \in Inputs : Comparing!Refuse(modes, in) \/ Comparing!PrintOnly(modes, in)
         \/ Comparing!Interrupt
  PROVE  ComparingInv'
<1>1. CASE \E modes \in Selections, in \in Inputs : Comparing!Refuse(modes, in)
  BY <1>1 DEF Comparing!Refuse, ComparingInv, ComparingTypes, PlanIsChosen, ZeroVouches, Comparing!ZeroVouches
<1>2. ASSUME NEW modes \in Selections, NEW in, Comparing!PrintOnly(modes, in) PROVE ComparingInv'
  <2>1. modes \in Seq(Comparing!Modes) /\ (in.reference # "none") \in BOOLEAN
    BY SelectionsAssumption
  <2> QED
    BY <1>2, <2>1 DEF Comparing!PrintOnly, ComparingInv, ComparingTypes, PlanIsChosen, ZeroVouches, Comparing!ZeroVouches
<1>3. CASE Comparing!Interrupt
  BY <1>3 DEF Comparing!Interrupt, ComparingInv, ComparingTypes, PlanIsChosen, ZeroVouches, Comparing!ZeroVouches
<1> QED
  BY <1>1, <1>2, <1>3

(* The report, rendered again while the files are those it vouches for.      *)
LEMMA ReportKeeps ==
  ASSUME ComparingInv, Comparing!ReportOnly
  PROVE  ComparingInv'
<1>1. /\ report' = Comparing!Rendered(imuPlan, comparison)
      /\ UNCHANGED <<now, chosen, todo, failed, code, dir, imuPlan, comparison>> /\ code # "running"
  BY DEF Comparing!ReportOnly, Comparing!Idle
<1>2. ComparingTypes' /\ PlanIsChosen' /\ (code' = "passed" => Finished' /\ ~failed')
  BY <1>1 DEF ComparingInv, ComparingTypes, PlanIsChosen, Finished, Benchmarked, Validated, Evaluated,
              Comparing!Planned
<1>3. ZeroVouches'
  <2>1. SUFFICES ASSUME code = "passed", NEW mode \in Comparing!Planned(chosen)
                 PROVE  /\ report'[mode].summary = now
                        /\ chosen.reference => report'[mode].trajectory = now
                        /\ Comparing!Validates(mode) =>
                              report'[mode].verdict = "OK" /\ report'[mode].judged = report'[mode].rows
    BY <1>1 DEF ZeroVouches, Comparing!ZeroVouches, Comparing!Planned
  <2>2. mode \in Comparing!Planned(imuPlan)
    BY <2>1 DEF ComparingInv, PlanIsChosen, Comparing!Planned
  <2>3. report'[mode] = Comparing!Row(comparison, mode)
    BY <1>1, <2>2 DEF Comparing!Rendered
  <2> QED
    BY <2>1, <2>3 DEF Comparing!Row, ComparingInv, Finished, Benchmarked, Validated, Evaluated
<1> QED
  BY <1>1, <1>2, <1>3 DEF ComparingInv

(* The command at the head names a mode and a file of its directory.         *)
LEMMA HeadIsOfAMode ==
  ASSUME ComparingInv, NEW step \in {"benchmark", "validate", "evaluate"}, Comparing!Due(step)
  PROVE  /\ code = "running" /\ Head(todo) = <<step, Comparing!ModeOf>>
         /\ Comparing!ModeOf \in Comparing!Modes
         /\ now \in Nat /\ dir \in [Comparing!Modes -> Files] /\ dir[Comparing!ModeOf] \in Files
<1>1. code = "running" /\ Head(todo)[1] = step /\ InOrder(todo)
  BY DEF Comparing!Due, ComparingInv
<1>2. Head(todo) \in {"benchmark", "validate", "evaluate"} \X Comparing!Modes
  BY <1>1, RestInOrder
<1> QED
  BY <1>1, <1>2 DEF Comparing!ModeOf, ComparingInv, ComparingTypes

LEMMA BenchmarkKeeps ==
  ASSUME ComparingInv, NEW recorded \in BOOLEAN, NEW rows \in Recordings, NEW ok \in BOOLEAN,
         Comparing!Benchmark(recorded, rows, ok)
  PROVE  ComparingInv'
<1>1. PICK mode : mode = Comparing!ModeOf
  OBVIOUS
<1>2. /\ code = "running" /\ Head(todo) = <<"benchmark", mode>> /\ mode \in Comparing!Modes
      /\ now \in Nat /\ dir \in [Comparing!Modes -> Files] /\ dir[mode] \in Files
  BY <1>1, HeadIsOfAMode DEF Comparing!Benchmark
<1>3. PICK kept : kept = [dir[mode] EXCEPT !.summary = now, !.rows = IF recorded THEN rows ELSE @]
  OBVIOUS
<1>4. kept \in Files /\ kept.summary = now /\ kept.trajectory = dir[mode].trajectory
  BY <1>2, <1>3 DEF Files, Rows
<1>5. dir' = [dir EXCEPT ![mode] = kept]
  BY <1>1, <1>2, <1>3 DEF Comparing!Benchmark
<1>6. dir' \in [Comparing!Modes -> Files] /\ dir'[mode] = kept
      /\ \A other \in Comparing!Modes : other # mode => dir'[other] = dir[other]
  BY <1>2, <1>4, <1>5
<1>7. Comparing!After(ok) /\ UNCHANGED <<now, chosen, imuPlan, comparison, report>>
  BY DEF Comparing!Benchmark
<1> QED
  BY <1>2, <1>4, <1>6, <1>7, PartDone

LEMMA BenchmarkDiesKeeps ==
  ASSUME ComparingInv, NEW recorded \in BOOLEAN, NEW rows \in Recordings,
         Comparing!BenchmarkDies(recorded, rows)
  PROVE  ComparingInv'
<1>1. PICK mode : mode = Comparing!ModeOf
  OBVIOUS
<1>2. /\ code = "running" /\ Head(todo) = <<"benchmark", mode>> /\ mode \in Comparing!Modes
      /\ dir \in [Comparing!Modes -> Files] /\ dir[mode] \in Files
  BY <1>1, HeadIsOfAMode DEF Comparing!BenchmarkDies
<1>3. PICK kept : kept = [dir[mode] EXCEPT !.rows = IF recorded THEN rows ELSE @]
  OBVIOUS
<1>4. kept \in Files
  BY <1>2, <1>3 DEF Files, Rows
<1>5. dir' = [dir EXCEPT ![mode] = kept]
  BY <1>1, <1>2, <1>3 DEF Comparing!BenchmarkDies
<1>6. dir' \in [Comparing!Modes -> Files]
      /\ \A other \in Comparing!Modes : other # mode => dir'[other] = dir[other]
  BY <1>2, <1>4, <1>5
<1>7. Comparing!After(FALSE) /\ UNCHANGED <<now, chosen, imuPlan, comparison, report>>
  BY DEF Comparing!BenchmarkDies
<1> QED
  BY <1>2, <1>6, <1>7, PartDone

LEMMA ValidateKeeps ==
  ASSUME ComparingInv, Comparing!Validate
  PROVE  ComparingInv'
<1>1. PICK mode : mode = Comparing!ModeOf
  OBVIOUS
<1>2. /\ code = "running" /\ Head(todo) = <<"validate", mode>> /\ mode \in Comparing!Modes
      /\ dir \in [Comparing!Modes -> Files] /\ dir[mode] \in Files
  BY <1>1, HeadIsOfAMode DEF Comparing!Validate
<1>3. UNCHANGED <<now, chosen, imuPlan, comparison, report>>
  BY DEF Comparing!Validate
<1>4. CASE dir[mode].rows = <<>>
  <2>1. Comparing!After(FALSE) /\ dir' = dir
    BY <1>1, <1>4 DEF Comparing!Validate
  <2> QED
    BY <1>2, <1>3, <2>1, PartDone
<1>5. CASE dir[mode].rows # <<>>
  <2>1. PICK verdict, rows : verdict = Comparing!Verdict(mode, rows) /\ rows = dir[mode].rows
    BY <1>1
  <2>2. PICK kept : kept = [dir[mode] EXCEPT !.verdict = verdict, !.judged = rows]
    OBVIOUS
  <2>3. verdict \in {"OK", "FAIL"} /\ rows \in Rows
    BY <1>2, <2>1 DEF Comparing!Verdict, Files
  <2>4. /\ kept \in Files /\ kept.summary = dir[mode].summary /\ kept.rows = dir[mode].rows
        /\ kept.trajectory = dir[mode].trajectory /\ kept.verdict = verdict /\ kept.judged = rows
    BY <1>2, <2>2, <2>3 DEF Files
  <2>5. Comparing!After(verdict = "OK") /\ dir' = [dir EXCEPT ![mode] = kept]
    BY <1>1, <1>2, <1>5, <2>1, <2>2 DEF Comparing!Validate
  <2>6. dir' \in [Comparing!Modes -> Files] /\ dir'[mode] = kept
        /\ \A other \in Comparing!Modes : other # mode => dir'[other] = dir[other]
    BY <1>2, <2>4, <2>5
  <2>7. PICK ok : ok = (verdict = "OK")
    OBVIOUS
  <2>8. Comparing!After(ok) /\ (ok => verdict = "OK")
    BY <2>5, <2>7
  <2> QED
    BY <1>2, <1>3, <2>1, <2>4, <2>6, <2>8, PartDone
<1> QED
  BY <1>4, <1>5

LEMMA EvaluateKeeps ==
  ASSUME ComparingInv, NEW ok \in BOOLEAN, Comparing!Evaluate(ok)
  PROVE  ComparingInv'
<1>1. PICK mode : mode = Comparing!ModeOf
  OBVIOUS
<1>2. /\ code = "running" /\ Head(todo) = <<"evaluate", mode>> /\ mode \in Comparing!Modes
      /\ now \in Nat /\ dir \in [Comparing!Modes -> Files] /\ dir[mode] \in Files
  BY <1>1, HeadIsOfAMode DEF Comparing!Evaluate
<1>3. PICK kept : kept = [dir[mode] EXCEPT !.trajectory = now]
  OBVIOUS
<1>4. /\ kept \in Files /\ kept.trajectory = now /\ kept.summary = dir[mode].summary
      /\ kept.rows = dir[mode].rows /\ kept.verdict = dir[mode].verdict /\ kept.judged = dir[mode].judged
  BY <1>2, <1>3 DEF Files
<1>5. dir' = IF ok THEN [dir EXCEPT ![mode] = kept] ELSE dir
  BY <1>1, <1>2, <1>3 DEF Comparing!Evaluate
<1>6. dir' \in [Comparing!Modes -> Files] /\ (ok => dir'[mode] = kept)
      /\ \A other \in Comparing!Modes : other # mode => dir'[other] = dir[other]
  BY <1>2, <1>4, <1>5
<1>7. Comparing!After(ok) /\ UNCHANGED <<now, chosen, imuPlan, comparison, report>>
  BY DEF Comparing!Evaluate
<1> QED
  BY <1>2, <1>4, <1>6, <1>7, PartDone

(* The comparison comes last: everything else has been done.                 *)
LEMMA CompareKeeps ==
  ASSUME ComparingInv, NEW ok \in BOOLEAN, Comparing!Compare(ok)
  PROVE  ComparingInv'
<1>1. /\ code = "running" /\ Head(todo)[1] = "compare" /\ UNCHANGED <<now, chosen, dir, imuPlan>>
      /\ comparison' = (IF ok THEN [mode \in Comparing!Modes |->
                                      IF dir[mode].summary # 0 THEN dir[mode] ELSE Comparing!Nothing]
                        ELSE comparison)
      /\ report' = IF ok \/ ~chosen.script THEN Comparing!Rendered(chosen, comparison') ELSE report
      /\ failed' = (failed \/ ~ok)
      /\ code' = IF failed' THEN "failed" ELSE "passed"
  BY DEF Comparing!Compare, Comparing!Due
<1>2. /\ InOrder(todo) /\ now > 0 /\ ComparingTypes /\ PlanIsChosen /\ (~failed => Progress)
  BY <1>1 DEF ComparingInv
<1>3. ComparingTypes'
  <2>1. Comparing!Nothing \in Files
    BY DEF Comparing!Nothing, Files, Rows
  <2>2. comparison' \in [Comparing!Modes -> Files]
    BY <1>1, <1>2, <2>1 DEF ComparingTypes
  <2>3. failed' \in BOOLEAN
    BY <1>1
  <2> QED
    BY <1>1, <1>2, <2>2, <2>3 DEF ComparingTypes
<1>4. PlanIsChosen'
  BY <1>1, <1>2 DEF PlanIsChosen
<1>5. \A step, mode : Waits(todo, step, mode) => step = "compare"
  <2>1. /\ Len(todo) \in Nat \ {0} /\ Head(todo) = todo[1]
    BY <1>2, HeadTailProperties, EmptySeq, LenProperties DEF InOrder
  <2>2. Len(todo) = 1
    <3>1. 1 \in 1 .. Len(todo) /\ todo[1][1] = "compare"
      BY <1>1, <2>1
    <3>2. \A j \in 1 .. Len(todo) : todo[j][1] = "compare" <=> j = Len(todo)
      BY <1>2 DEF InOrder
    <3> QED
      BY <3>1, <3>2
  <2>3. \A j \in 1 .. Len(todo) : todo[j][1] = "compare"
    BY <1>1, <2>1, <2>2
  <2> QED
    BY <2>3 DEF Waits
<1>6. ASSUME code' = "passed", NEW mode \in Comparing!Planned(chosen)
      PROVE  /\ comparison'[mode] = dir[mode] /\ dir[mode].summary = now
             /\ Comparing!Validates(mode) => dir[mode].verdict = "OK" /\ dir[mode].judged = dir[mode].rows
             /\ chosen.reference => dir[mode].trajectory = now
             /\ report'[mode] = [summary |-> dir[mode].summary, rows |-> dir[mode].rows,
                                 trajectory |-> dir[mode].trajectory,
                                 verdict |-> dir[mode].verdict, judged |-> dir[mode].judged]
  <2>1. ~failed /\ ok
    BY <1>1, <1>6
  <2>2. mode \in Comparing!Modes
    <3>1. chosen.modes \in Seq(Comparing!Modes)
      BY <1>2 DEF ComparingTypes
    <3> QED
      BY <1>6, <3>1, LenProperties, ElementOfSeq DEF Comparing!Planned
  <2>3. /\ dir[mode].summary = now
        /\ Comparing!Validates(mode) => dir[mode].verdict = "OK" /\ dir[mode].judged = dir[mode].rows
        /\ chosen.reference => dir[mode].trajectory = now
    BY <1>2, <1>5, <1>6, <2>1 DEF Progress, Benchmarked, Validated, Evaluated
  <2>4. dir[mode].summary # 0
    BY <1>2, <2>3 DEF ComparingTypes
  <2>5. comparison'[mode] = dir[mode]
    BY <1>1, <2>1, <2>2, <2>4
  <2>6. report'[mode] = Comparing!Row(comparison', mode)
    BY <1>1, <1>6, <2>1 DEF Comparing!Rendered, Comparing!Row
  <2> QED
    BY <2>3, <2>5, <2>6 DEF Comparing!Row
<1>7. code' = "passed" => Finished' /\ ~failed'
  <2>1. UNCHANGED <<now, chosen, dir>> /\ (code' = "passed" => ~failed')
    BY <1>1
  <2>2. ASSUME code' = "passed", NEW mode \in Comparing!Planned(chosen)
        PROVE  /\ comparison'[mode] = dir'[mode] /\ dir'[mode].summary = now'
               /\ Comparing!Validates(mode) => dir'[mode].verdict = "OK" /\ dir'[mode].judged = dir'[mode].rows
               /\ chosen'.reference => dir'[mode].trajectory = now'
    <3>1. /\ comparison'[mode] = dir[mode] /\ dir[mode].summary = now
          /\ Comparing!Validates(mode) => dir[mode].verdict = "OK" /\ dir[mode].judged = dir[mode].rows
          /\ chosen.reference => dir[mode].trajectory = now
      BY <1>6, <2>2
    <3> QED
      BY <2>1, <3>1
  <2> QED
    BY <2>1, <2>2 DEF Finished, Benchmarked, Validated, Evaluated, Comparing!Planned
<1>8. ZeroVouches'
  <2>1. SUFFICES ASSUME code' = "passed", NEW mode \in Comparing!Planned(chosen)
                 PROVE  /\ report'[mode].summary = now
                        /\ chosen.reference => report'[mode].trajectory = now
                        /\ Comparing!Validates(mode) =>
                              report'[mode].verdict = "OK" /\ report'[mode].judged = report'[mode].rows
    BY <1>1 DEF ZeroVouches, Comparing!ZeroVouches, Comparing!Planned
  <2>2. PICK row : row = report'[mode]
    OBVIOUS
  <2>3. /\ dir[mode].summary = now
        /\ Comparing!Validates(mode) => dir[mode].verdict = "OK" /\ dir[mode].judged = dir[mode].rows
        /\ chosen.reference => dir[mode].trajectory = now
        /\ row = [summary |-> dir[mode].summary, rows |-> dir[mode].rows,
                  trajectory |-> dir[mode].trajectory,
                  verdict |-> dir[mode].verdict, judged |-> dir[mode].judged]
    BY <1>6, <2>1, <2>2
  <2>4. /\ row.summary = dir[mode].summary /\ row.rows = dir[mode].rows
        /\ row.trajectory = dir[mode].trajectory
        /\ row.verdict = dir[mode].verdict /\ row.judged = dir[mode].judged
    BY <2>3
  <2> QED
    BY <2>2, <2>3, <2>4
<1> QED
  BY <1>1, <1>3, <1>4, <1>7, <1>8 DEF ComparingInv

LEMMA ComparingStep ==
  ASSUME ComparingInv, [OfflineNext]_<<tool, vars, gatesVars, comparingVars, doctorVars>>
  PROVE  ComparingInv'
<1>1. CASE UNCHANGED comparingVars
  <2>1. Progress => Progress'
    BY <1>1 DEF comparingVars, Progress, Benchmarked, Validated, Evaluated, Comparing!Planned
  <2>2. Finished => Finished'
    BY <1>1 DEF comparingVars, Finished, Benchmarked, Validated, Evaluated, Comparing!Planned
  <2>3. ComparingTypes' /\ PlanIsChosen' /\ ZeroVouches'
    BY <1>1 DEF comparingVars, ComparingInv, ComparingTypes, PlanIsChosen, ZeroVouches,
                Comparing!ZeroVouches, Comparing!Planned
  <2> QED
    BY <1>1, <2>1, <2>2, <2>3 DEF comparingVars, ComparingInv
<1>2. CASE Comparing!Next
  BY <1>2, StartKeeps, RunScriptKeeps, AsideKeeps, ReportKeeps, BenchmarkKeeps, BenchmarkDiesKeeps,
     ValidateKeeps, EvaluateKeeps, CompareKeeps DEF Comparing!Next
<1> QED
  BY <1>1, <1>2 DEF OfflineNext

LEMMA ComparingStart == OfflineInit => ComparingInv
<1> SUFFICES ASSUME Comparing!Init PROVE ComparingInv
  BY DEF OfflineInit
<1>1. Comparing!Nothing \in Files
  BY DEF Comparing!Nothing, Files, Rows
<1>2. <<>> \in Seq(Comparing!Modes)
  BY EmptySeq
<1> QED
  BY <1>1, <1>2 DEF Comparing!Init, ComparingInv, ComparingTypes, PlanIsChosen, ZeroVouches, Comparing!ZeroVouches

(* When the invocation that ran last exits with 0 it benchmarked every mode  *)
(* it was asked for, every validation passed and judged the very rows the    *)
(* report counts, and it evaluated every trajectory if it had a reference;   *)
(* for any selection of modes, twice the same ones included, any recordings  *)
(* and any files of earlier invocations.                                     *)
THEOREM AlwaysZeroVouches == OfflineSpec => []ZeroVouches
<1>1. ComparingInv /\ [OfflineNext]_<<tool, vars, gatesVars, comparingVars, doctorVars>> => ComparingInv'
  BY ComparingStep
<1>2. ComparingInv => ZeroVouches
  BY DEF ComparingInv
<1> QED
  BY <1>1, <1>2, ComparingStart, PTL DEF OfflineSpec

-----------------------------------------------------------------------------
(* Ordered: a set of numbers from the least to the greatest.                 *)
(* How many come before a number tells it apart, and each count below the    *)
(* size of the set is that of one number.                                    *)
LEMMA Ranks ==
  ASSUME NEW S \in SUBSET Int, IsFiniteSet(S)
  PROVE  /\ Cardinality(S) \in Nat
         /\ \A i \in S : Cardinality({j \in S : j < i}) \in 0 .. Cardinality(S) - 1
         /\ \A i, n \in S : Cardinality({j \in S : j < i}) = Cardinality({j \in S : j < n}) => i = n
         /\ \A k \in 1 .. Cardinality(S) : \E i \in S : Cardinality({j \in S : j < i}) = k - 1
<1> DEFINE Below(i) == {j \in S : j < i}
           rank == [i \in S |-> Cardinality(Below(i))]
<1>1. Cardinality(S) \in Nat
  BY FS_CardinalityType
<1>2. ASSUME NEW i \in S
      PROVE  IsFiniteSet(Below(i)) /\ Cardinality(Below(i)) \in Nat /\ i \notin Below(i) /\ Below(i) \subseteq S
  BY FS_Subset, FS_CardinalityType
<1>3. ASSUME NEW i \in S, NEW T \in SUBSET S, Below(i) \union {i} \subseteq T
      PROVE  Cardinality(Below(i)) + 1 <= Cardinality(T)
  <2>1. IsFiniteSet(T) /\ Cardinality(T) \in Nat
    BY FS_Subset, FS_CardinalityType
  <2>2. Cardinality(Below(i) \union {i}) = Cardinality(Below(i)) + 1
    <3> HIDE DEF Below
    <3> QED
      BY <1>2, FS_AddElement
  <2>3. Cardinality(Below(i) \union {i}) <= Cardinality(T)
    <3> HIDE DEF Below
    <3> QED
      BY <1>3, <2>1, FS_Subset
  <2> HIDE DEF Below
  <2> QED
    BY <2>2, <2>3
<1>4. \A i \in S : Below(i) \union {i} \subseteq S
  OBVIOUS
<1>5. \A i, n \in S : i < n => Below(i) \union {i} \subseteq Below(n)
  <2> SUFFICES ASSUME NEW i \in S, NEW n \in S, i < n, NEW j \in Below(i) \union {i}
               PROVE  j \in Below(n)
    OBVIOUS
  <2>1. i \in Int /\ n \in Int /\ j \in Int /\ j \in S /\ j <= i
    OBVIOUS
  <2> QED
    BY <2>1
<1> HIDE DEF Below
<1>6. \A i \in S : Cardinality(Below(i)) \in 0 .. Cardinality(S) - 1
  BY <1>1, <1>2, <1>3, <1>4
<1>7. \A i, n \in S : i < n => Cardinality(Below(i)) < Cardinality(Below(n))
  <2> TAKE i, n \in S
  <2>1. Below(n) \in SUBSET S /\ Cardinality(Below(i)) \in Nat /\ Cardinality(Below(n)) \in Nat
    BY <1>2
  <2> QED
    BY <1>3, <1>5, <2>1
<1>8. \A i, n \in S : Cardinality(Below(i)) = Cardinality(Below(n)) => i = n
  <2> TAKE i, n \in S
  <2>1. i < n \/ n < i \/ i = n
    OBVIOUS
  <2>2. Cardinality(Below(i)) \in Nat /\ Cardinality(Below(n)) \in Nat
    BY <1>2
  <2> QED
    BY <1>7, <2>1, <2>2
<1>9. rank \in Injection(S, 0 .. Cardinality(S) - 1)
  BY <1>6, <1>8 DEF Injection, IsInjective
<1>10. IsFiniteSet(0 .. Cardinality(S) - 1) /\ Cardinality(0 .. Cardinality(S) - 1) = Cardinality(S)
  BY <1>1, FS_Interval
<1>11. rank \in Surjection(S, 0 .. Cardinality(S) - 1)
  BY <1>9, <1>10, FS_Injection
<1>12. \A k \in 1 .. Cardinality(S) : \E i \in S : Cardinality(Below(i)) = k - 1
  <2> TAKE k \in 1 .. Cardinality(S)
  <2>1. k - 1 \in 0 .. Cardinality(S) - 1
    BY <1>1
  <2> QED
    BY <1>11, <2>1 DEF Surjection
<1> QED
  BY <1>1, <1>6, <1>8, <1>12 DEF Below

(* What Ascending returns: the members, each at its place.                   *)
LEMMA AscendingIs ==
  ASSUME NEW S \in SUBSET Int, IsFiniteSet(S)
  PROVE  /\ Cardinality(S) \in Nat
         /\ Ascending(S) \in Seq(S) /\ Len(Ascending(S)) = Cardinality(S)
         /\ \A k \in 1 .. Cardinality(S) :
               Ascending(S)[k] \in S /\ Cardinality({j \in S : j < Ascending(S)[k]}) = k - 1
         /\ \A i \in S : Cardinality({j \in S : j < i}) + 1 \in 1 .. Cardinality(S)
                         /\ Ascending(S)[Cardinality({j \in S : j < i}) + 1] = i
<1> DEFINE Below(i) == {j \in S : j < i}
           At(k) == CHOOSE i \in S : Cardinality(Below(i)) = k - 1
<1>1. /\ Cardinality(S) \in Nat
      /\ \A i \in S : Cardinality(Below(i)) \in 0 .. Cardinality(S) - 1
      /\ \A i, n \in S : Cardinality(Below(i)) = Cardinality(Below(n)) => i = n
      /\ \A k \in 1 .. Cardinality(S) : \E i \in S : Cardinality(Below(i)) = k - 1
  BY Ranks
<1>2. Ascending(S) = [k \in 1 .. Cardinality(S) |-> At(k)]
  BY DEF Ascending
<1> HIDE DEF Below
<1>3. \A k \in 1 .. Cardinality(S) : At(k) \in S /\ Cardinality(Below(At(k))) = k - 1
  BY <1>1
<1> HIDE DEF At
<1>4. Ascending(S) \in Seq(S) /\ Len(Ascending(S)) = Cardinality(S)
  BY <1>1, <1>2, <1>3
<1>5. ASSUME NEW i \in S
      PROVE  /\ Cardinality(Below(i)) + 1 \in 1 .. Cardinality(S)
             /\ Ascending(S)[Cardinality(Below(i)) + 1] = i
  <2>1. Cardinality(Below(i)) + 1 \in 1 .. Cardinality(S) /\ (Cardinality(Below(i)) + 1) - 1 = Cardinality(Below(i))
    BY <1>1
  <2> QED
    BY <1>1, <1>2, <1>3, <2>1
<1> QED
  BY <1>1, <1>2, <1>3, <1>4, <1>5 DEF Below

(* A set of natural numbers that has members has a least one: of those up to *)
(* any one member, the one that none comes before.                           *)
LEMMA LeastNumber ==
  ASSUME NEW S \in SUBSET Nat, S # {}
  PROVE  \E m \in S : \A n \in S : m <= n
<1>1. PICK top \in S : TRUE
  OBVIOUS
<1> DEFINE T == {n \in S : n <= top}
           Below(i) == {j \in T : j < i}
<1>2. T \in SUBSET Int /\ IsFiniteSet(T) /\ T # {}
  <2>1. T \in SUBSET Nat /\ top \in Nat /\ \A n \in T : n <= top
    OBVIOUS
  <2>2. top \in T
    BY <2>1
  <2> HIDE DEF T
  <2> QED
    BY <2>1, <2>2, FS_BoundedSetOfNaturals
<1>3. Cardinality(T) \in Nat \ {0}
  <2> HIDE DEF T
  <2> QED
    BY <1>2, FS_CardinalityType, FS_EmptySet
<1>4. PICK m \in T : Cardinality(Below(m)) = 0
  <2> HIDE DEF T
  <2>1. 1 \in 1 .. Cardinality(T) /\ 1 - 1 = 0
    BY <1>3
  <2>2. \A k \in 1 .. Cardinality(T) : \E m \in T : Cardinality({j \in T : j < m}) = k - 1
    BY <1>2, Ranks
  <2> QED
    BY <2>1, <2>2
<1>5. Below(m) = {}
  <2>1. IsFiniteSet(Below(m))
    BY <1>2, FS_Subset
  <2> HIDE DEF Below, T
  <2> QED
    BY <1>4, <2>1, FS_EmptySet
<1>6. \A n \in S : n \in Nat /\ m \in Nat /\ top \in Nat
  OBVIOUS
<1> QED
  BY <1>5, <1>6

(* The same from zero.                                                       *)
LEMMA EveryStep ==
  ASSUME NEW top \in Nat, NEW S \in SUBSET (0 .. top),
         0 \in S, \A k \in S : k < top => k + 1 \in S
  PROVE  S = 0 .. top
<1>1. top > 0 => 1 \in S \ {0}
  <2>1. top > 0 => 0 + 1 \in S
    OBVIOUS
  <2>2. 0 + 1 = 1
    OBVIOUS
  <2> QED
    BY <2>1, <2>2
<1>2. \A k \in S \ {0} : k < top => k + 1 \in S \ {0}
  OBVIOUS
<1>3. S \ {0} \in SUBSET (1 .. top)
  OBVIOUS
<1>4. S \ {0} = 1 .. top
  BY <1>1, <1>2, <1>3, EveryPosition
<1>5. 0 .. top = {0} \union (1 .. top)
  OBVIOUS
<1> QED
  BY <1>4, <1>5

(* A function that is told from step to step exists, for any first value and *)
(* any step g.                                                               *)
Iterates(base, g, n, f) == \A k \in 0 .. n : f[k] = IF k = 0 THEN base ELSE g[<<f[k - 1], k>>]

LEMMA IterationExists ==
  ASSUME NEW P, NEW base \in P, NEW top \in Nat, NEW g,
         \A x \in P, k \in 1 .. top : g[<<x, k>>] \in P
  PROVE  \E f \in [0 .. top -> P] : Iterates(base, g, top, f)
<1> DEFINE S == {n \in 0 .. top : \E f \in [0 .. n -> P] : Iterates(base, g, n, f)}
<1>1. 0 \in S
  <2> DEFINE f == [k \in 0 .. 0 |-> base]
  <2>1. f \in [0 .. 0 -> P] /\ Iterates(base, g, 0, f)
    BY DEF Iterates
  <2> HIDE DEF f
  <2> QED
    BY <2>1
<1>2. ASSUME NEW n \in S, n < top PROVE n + 1 \in S
  <2>1. PICK f \in [0 .. n -> P] : Iterates(base, g, n, f)
    OBVIOUS
  <2> DEFINE h == [k \in 0 .. n + 1 |-> IF k = n + 1 THEN g[<<f[n], n + 1>>] ELSE f[k]]
  <2>2. n \in Nat /\ n + 1 \in 1 .. top /\ n + 1 \in 0 .. top /\ f[n] \in P
    BY <1>2
  <2>3. h \in [0 .. n + 1 -> P]
    BY <2>2
  <2>4. ASSUME NEW k \in 0 .. n + 1
        PROVE  h[k] = IF k = 0 THEN base ELSE g[<<h[k - 1], k>>]
    <3>1. CASE k = n + 1
      <4>1. k # 0 /\ k - 1 = n /\ n \in 0 .. n + 1 /\ h[n] = f[n]
        BY <2>2, <3>1
      <4>2. h[k] = g[<<f[n], k>>]
        BY <2>2, <3>1
      <4> QED
        BY <4>1, <4>2
    <3>2. CASE k # n + 1
      <4>1. k \in 0 .. n /\ h[k] = f[k]
        BY <2>2, <3>2
      <4>2. k # 0 => k - 1 \in 0 .. n /\ h[k - 1] = f[k - 1]
        BY <2>2, <4>1
      <4>3. f[k] = IF k = 0 THEN base ELSE g[<<f[k - 1], k>>]
        BY <2>1, <4>1 DEF Iterates
      <4> HIDE DEF h
      <4> QED
        BY <4>1, <4>2, <4>3
    <3> QED
      BY <3>1, <3>2
  <2> HIDE DEF h
  <2> QED
    BY <2>2, <2>3, <2>4 DEF Iterates
<1>3. S \in SUBSET (0 .. top)
  OBVIOUS
<1>4. S = 0 .. top
  <2> HIDE DEF S
  <2> QED
    BY <1>1, <1>2, <1>3, EveryStep
<1> QED
  BY <1>4

-----------------------------------------------------------------------------
(* The recursive functions of Streak and Spaced.                             *)
LEMMA StreakRuns ==
  ASSUME NEW rows, Len(rows) \in Nat
  PROVE  \E tally \in [0 .. Len(rows) -> Nat \X Nat] :
            /\ \A k \in 0 .. Len(rows) : tally[k] = IF k = 0 THEN <<0, 0>> ELSE Longer(tally[k - 1], rows[k])
            /\ Streak(rows) = tally[Len(rows)][2]
<1> DEFINE P == Nat \X Nat
           n == Len(rows)
           g == [p \in P \X (1 .. n) |-> Longer(p[1], rows[p[2]])]
           Is(f) == f = [k \in 0 .. n |-> IF k = 0 THEN <<0, 0>> ELSE Longer(f[k - 1], rows[k])]
<1>1. \A x \in P, k \in 1 .. n : g[<<x, k>>] = Longer(x, rows[k])
  OBVIOUS
<1>2. \A x \in P : \A row : Longer(x, row) \in P
  BY DEF Longer
<1> HIDE DEF g
<1>3. \E tally : Is(tally)
  <2>1. <<0, 0>> \in P
    OBVIOUS
  <2>2. \A x \in P, k \in 1 .. n : g[<<x, k>>] \in P
    <3> HIDE DEF P, n
    <3> QED
      BY <1>1, <1>2
  <2>3. n \in Nat /\ \A k \in 0 .. n : k # 0 => k - 1 \in 0 .. n /\ k \in 1 .. n
    OBVIOUS
  <2> HIDE DEF P, n
  <2>4. PICK tally \in [0 .. n -> P] : Iterates(<<0, 0>>, g, n, tally)
    BY <2>1, <2>2, <2>3, IterationExists
  <2>5. \A k \in 0 .. n : k # 0 => tally[k] = Longer(tally[k - 1], rows[k])
    BY <1>1, <2>3, <2>4 DEF Iterates
  <2>6. \A k \in 0 .. n : tally[k] = IF k = 0 THEN <<0, 0>> ELSE Longer(tally[k - 1], rows[k])
    BY <2>4, <2>5 DEF Iterates
  <2> QED
    BY <2>4, <2>6
<1>4. PICK f : f = CHOOSE h : Is(h)
  OBVIOUS
<1>5. Is(f)
  <2> HIDE DEF Is
  <2> QED
    BY <1>3, <1>4
<1>6. \A k \in 0 .. n : f[k] = IF k = 0 THEN <<0, 0>> ELSE Longer(f[k - 1], rows[k])
  BY <1>5
<1>7. \A k \in 0 .. n : f[k] \in P
  <2> DEFINE S == {k \in 0 .. n : f[k] \in P}
  <2>1. 0 \in S
    BY <1>6
  <2>2. ASSUME NEW k \in S, k < n PROVE k + 1 \in S
    <3>1. k + 1 \in 0 .. n /\ k + 1 # 0 /\ (k + 1) - 1 = k
      BY <2>2
    <3> HIDE DEF P
    <3> QED
      BY <1>2, <1>6, <3>1
  <2>3. S \in SUBSET (0 .. n) /\ n \in Nat
    OBVIOUS
  <2> HIDE DEF S, n
  <2>4. S = 0 .. n
    BY <2>1, <2>2, <2>3, EveryStep
  <2> QED
    BY <2>4 DEF S
<1>8. f \in [0 .. n -> P]
  <2> HIDE DEF P
  <2> QED
    BY <1>5, <1>7
<1>9. Streak(rows) = f[n][2]
  BY <1>4 DEF Streak
<1> QED
  BY <1>6, <1>8, <1>9

LEMMA SpacedIsASeq ==
  ASSUME NEW rows, Len(rows) \in Nat
  PROVE  Spaced(rows) \in Seq({rows[k] : k \in 1 .. Len(rows)})
<1> DEFINE T == {rows[k] : k \in 1 .. Len(rows)}
           P == Seq(T)
           n == Len(rows)
           g == [p \in P \X (1 .. n) |-> Farther(p[1], rows[p[2]])]
           Is(f) == f = [k \in 0 .. n |-> IF k = 0 THEN <<>> ELSE Farther(f[k - 1], rows[k])]
<1>1. <<>> \in P
  BY EmptySeq
<1>2. \A x \in P, k \in 1 .. n : Farther(x, rows[k]) \in P
  <2> TAKE x \in P, k \in 1 .. n
  <2>1. rows[k] \in T
    OBVIOUS
  <2> HIDE DEF T
  <2>2. Append(x, rows[k]) \in P
    BY <2>1, AppendProperties
  <2> QED
    BY <2>2 DEF Farther
<1> HIDE DEF P
<1>3. \A x \in P, k \in 1 .. n : g[<<x, k>>] = Farther(x, rows[k])
  OBVIOUS
<1> HIDE DEF g
<1>4. \E kept : Is(kept)
  <2>1. n \in Nat /\ \A k \in 0 .. n : k # 0 => k - 1 \in 0 .. n /\ k \in 1 .. n
    OBVIOUS
  <2>2. \A x \in P, k \in 1 .. n : g[<<x, k>>] \in P
    BY <1>2, <1>3
  <2> HIDE DEF n
  <2>3. PICK kept \in [0 .. n -> P] : Iterates(<<>>, g, n, kept)
    BY <1>1, <2>1, <2>2, IterationExists
  <2>4. \A k \in 0 .. n : k # 0 => kept[k] = Farther(kept[k - 1], rows[k])
    BY <1>3, <2>1, <2>3 DEF Iterates
  <2>5. \A k \in 0 .. n : kept[k] = IF k = 0 THEN <<>> ELSE Farther(kept[k - 1], rows[k])
    BY <2>3, <2>4 DEF Iterates
  <2> QED
    BY <2>3, <2>5
<1>5. PICK f : f = CHOOSE h : Is(h)
  OBVIOUS
<1>6. Is(f)
  <2> HIDE DEF Is
  <2> QED
    BY <1>4, <1>5
<1>7. \A k \in 0 .. n : f[k] = IF k = 0 THEN <<>> ELSE Farther(f[k - 1], rows[k])
  BY <1>6
<1>8. \A k \in 0 .. n : f[k] \in P
  <2> DEFINE S == {k \in 0 .. n : f[k] \in P}
  <2>1. 0 \in S
    BY <1>1, <1>7
  <2>2. ASSUME NEW k \in S, k < n PROVE k + 1 \in S
    <3>1. k + 1 \in 0 .. n /\ k + 1 \in 1 .. n /\ k + 1 # 0 /\ (k + 1) - 1 = k
      BY <2>2
    <3> QED
      BY <1>2, <1>7, <3>1
  <2>3. S \in SUBSET (0 .. n) /\ n \in Nat
    OBVIOUS
  <2> HIDE DEF S, n
  <2>4. S = 0 .. n
    BY <2>1, <2>2, <2>3, EveryStep
  <2> QED
    BY <2>4 DEF S
<1>9. Spaced(rows) = f[n]
  BY <1>5 DEF Spaced
<1>10. n \in 0 .. n
  OBVIOUS
<1> QED
  BY <1>8, <1>9, <1>10 DEF P

-----------------------------------------------------------------------------
(* ResetPipeline: an attempt id is a position in the log's request windows,  *)
(* and the log only grows.                                                   *)
Row == {"ok", "failed", "request"}

(* An attempt's id and its trigger denote a request window of the log.       *)
Denotes(a, t) == a \in Sizes(Triggers(log)) /\ Triggers(log)[a] = t

LEMMA TriggersAre ==
  ASSUME NEW rows \in Seq(Row)
  PROVE  LET S == {i \in Sizes(rows) : Begins(rows, i)}
         IN  /\ IsFiniteSet(S) /\ S \in SUBSET Int
             /\ Triggers(rows) \in Seq(Sizes(rows)) /\ Len(Triggers(rows)) = Cardinality(S) /\ Cardinality(S) \in Nat
             /\ \A a \in Sizes(Triggers(rows)) :
                   Triggers(rows)[a] \in S /\ Cardinality({j \in S : j < Triggers(rows)[a]}) = a - 1
             /\ \A i \in S : /\ Cardinality({j \in S : j < i}) + 1 \in Sizes(Triggers(rows))
                             /\ Triggers(rows)[Cardinality({j \in S : j < i}) + 1] = i
<1> DEFINE S == {i \in Sizes(rows) : Begins(rows, i)}
<1>1. Len(rows) \in Nat
  BY LenProperties
<1>2. IsFiniteSet(1 .. Len(rows)) /\ S \in SUBSET (1 .. Len(rows)) /\ S \in SUBSET Int
  BY <1>1, FS_Interval DEF Sizes
<1>3. IsFiniteSet(S)
  <2> HIDE DEF S
  <2> QED
    BY <1>2, FS_Subset
<1>4. Triggers(rows) = Ascending(S) /\ Sizes(rows) = 1 .. Len(rows)
  BY DEF Triggers, Sizes
<1> HIDE DEF S
<1>5. /\ Cardinality(S) \in Nat
      /\ Ascending(S) \in Seq(S) /\ Len(Ascending(S)) = Cardinality(S)
      /\ \A k \in 1 .. Cardinality(S) :
            Ascending(S)[k] \in S /\ Cardinality({j \in S : j < Ascending(S)[k]}) = k - 1
      /\ \A i \in S : Cardinality({j \in S : j < i}) + 1 \in 1 .. Cardinality(S)
                      /\ Ascending(S)[Cardinality({j \in S : j < i}) + 1] = i
  BY <1>2, <1>3, AscendingIs
<1>6. Triggers(rows) \in Seq(Sizes(rows))
  BY <1>2, <1>4, <1>5, SeqMonotonic
<1>7. Sizes(Triggers(rows)) = 1 .. Cardinality(S)
  BY <1>4, <1>5 DEF Sizes
<1> QED
  BY <1>2, <1>3, <1>4, <1>5, <1>6, <1>7 DEF S

(* The log grows at its end: the windows it had keep their numbers.          *)
LEMMA DenotesGrows ==
  ASSUME log \in Seq(Row), NEW row \in Row, log' = Append(log, row), NEW a, NEW t, Denotes(a, t)
  PROVE  Denotes(a, t)'
<1> DEFINE S == {i \in Sizes(log) : Begins(log, i)}
           T == {i \in Sizes(log') : Begins(log', i)}
<1>1. /\ Len(log) \in Nat /\ log' \in Seq(Row) /\ Len(log') = Len(log) + 1
      /\ \A i \in 1 .. Len(log) : log'[i] = log[i]
  BY LenProperties, AppendProperties
<1>2. Sizes(log) = 1 .. Len(log) /\ Sizes(log') = 1 .. Len(log')
  BY DEF Sizes
<1>3. \A i \in 1 .. Len(log) : Begins(log', i) <=> Begins(log, i)
  <2> TAKE i \in 1 .. Len(log)
  <2>1. i # 1 => i - 1 \in 1 .. Len(log)
    BY <1>1
  <2>2. log'[i] = log[i] /\ (i # 1 => log'[i - 1] = log[i - 1])
    BY <1>1, <2>1
  <2> QED
    BY <2>2 DEF Begins
<1>4. ASSUME NEW i \in S PROVE i \in T /\ {j \in T : j < i} = {j \in S : j < i}
  <2>1. i \in 1 .. Len(log) /\ i \in T
    BY <1>1, <1>2, <1>3
  <2>2. ASSUME NEW j PROVE j \in T /\ j < i <=> j \in S /\ j < i
    <3>1. j \in 1 .. Len(log') /\ j < i => j \in 1 .. Len(log)
      BY <1>1, <2>1
    <3>2. j \in 1 .. Len(log) => j \in 1 .. Len(log')
      BY <1>1
    <3> QED
      BY <1>2, <1>3, <3>1, <3>2
  <2> HIDE DEF S, T
  <2> QED
    BY <2>1, <2>2
<1>5. a \in Sizes(Triggers(log)) /\ t = Triggers(log)[a]
  BY DEF Denotes
<1>6. t \in S /\ Cardinality({j \in S : j < t}) = a - 1
  BY <1>5, TriggersAre
<1>7. a \in Nat
  BY <1>5, TriggersAre DEF Sizes
<1>8. t \in T /\ Cardinality({j \in T : j < t}) = a - 1 /\ (a - 1) + 1 = a
  <2>1. (a - 1) + 1 = a
    BY <1>7
  <2>2. t \in T /\ {j \in T : j < t} = {j \in S : j < t}
    BY <1>4, <1>6
  <2> HIDE DEF S, T
  <2> QED
    BY <1>6, <2>1, <2>2
<1>9. \A i \in T : /\ Cardinality({j \in T : j < i}) + 1 \in Sizes(Triggers(log'))
                   /\ Triggers(log')[Cardinality({j \in T : j < i}) + 1] = i
  BY <1>1, TriggersAre
<1> HIDE DEF T
<1>10. a \in Sizes(Triggers(log')) /\ Triggers(log')[a] = t
  BY <1>8, <1>9
<1> QED
  BY <1>10 DEF Denotes

LEMMA TriggersDenote ==
  ASSUME log \in Seq(Row)
  PROVE  /\ Len(Triggers(log)) \in Nat
         /\ \A a \in Sizes(Triggers(log)) : Denotes(a, Triggers(log)[a]) /\ Triggers(log)[a] \in Nat
         /\ \A a, t : Denotes(a, t) => t \in 1 .. Len(log)
<1>1. Triggers(log) \in Seq(Sizes(log)) /\ Sizes(log) = 1 .. Len(log) /\ Len(log) \in Nat
  BY TriggersAre, LenProperties DEF Sizes
<1>2. Len(Triggers(log)) \in Nat /\ \A a \in 1 .. Len(Triggers(log)) : Triggers(log)[a] \in 1 .. Len(log)
  BY <1>1, LenProperties, ElementOfSeq
<1> QED
  BY <1>1, <1>2 DEF Denotes, Sizes

LEMMA PlanRowNames ==
  ASSUME NEW rows
  PROVE  /\ PlanRow(rows).attempt = rows[1].job.attempt
         /\ PlanRow(rows).trigger = rows[1].job.trigger
BY DEF PlanRow

(* The rows of an attempt that has some begin with one of it.                *)
LEMMA RowsOfNames ==
  ASSUME Len(scores) \in Nat, DOMAIN scores = 1 .. Len(scores), NEW k \in 1 .. Len(scores)
  PROVE  \E i \in 1 .. Len(scores) : /\ RowsOf(scores[k].job.attempt)[1] = scores[i]
                                     /\ scores[i].job.attempt = scores[k].job.attempt
<1> DEFINE a == scores[k].job.attempt
           S == {i \in DOMAIN scores : scores[i].job.attempt = a}
<1>1. RowsOf(a) = [n \in DOMAIN Ascending(S) |-> scores[Ascending(S)[n]]]
  BY DEF RowsOf, Picked
<1>2. IsFiniteSet(1 .. Len(scores)) /\ S \in SUBSET (1 .. Len(scores)) /\ S \in SUBSET Int /\ k \in S
  BY FS_Interval
<1>3. IsFiniteSet(S) /\ Cardinality(S) \in Nat \ {0}
  <2> HIDE DEF S
  <2> QED
    BY <1>2, FS_Subset, FS_CardinalityType, FS_EmptySet
<1>4. 1 \in DOMAIN Ascending(S) /\ Ascending(S)[1] \in S
  <2> HIDE DEF S
  <2>1. Ascending(S) \in Seq(S) /\ Len(Ascending(S)) \in Nat \ {0}
    BY <1>2, <1>3, AscendingIs
  <2> QED
    BY <2>1, LenProperties, ElementOfSeq
<1> QED
  BY <1>1, <1>4

LEMMA FirstOfIs ==
  ASSUME NEW seq, Len(seq) \in Nat, NEW n \in Nat
  PROVE  Len(FirstOf(seq, n)) \in Nat
<1> DEFINE m == IF Len(seq) > n THEN n ELSE Len(seq)
           S == {seq[i] : i \in 1 .. m}
<1>1. m \in Nat /\ \A i \in 1 .. m : seq[i] \in S
  OBVIOUS
<1> HIDE DEF m, S
<1>2. SubSeq(seq, 1, m) \in Seq(S)
  BY <1>1, SubSeqProperties
<1>3. Len(SubSeq(seq, 1, m)) \in Nat
  BY <1>2, LenProperties
<1> QED
  BY <1>3 DEF FirstOf, m

(* The jobs of an attempt bear its id and its trigger.                       *)
LEMMA JobsOfNames ==
  ASSUME NEW a, NEW order, Len(CandidatesOf(a)) \in Nat
  PROVE  /\ Len(JobsOf(a, order)) \in Nat
         /\ DOMAIN JobsOf(a, order) = 1 .. Len(JobsOf(a, order))
         /\ \A k \in 1 .. Len(JobsOf(a, order)) :
               /\ JobsOf(a, order)[k].attempt = a /\ JobsOf(a, order)[k].trigger = attempts.triggers[a]
               /\ JobsOf(a, order)[k].rank \in Nat
         /\ \A P : (\A k \in 1 .. Len(JobsOf(a, order)) : JobsOf(a, order)[k] \in P) => JobsOf(a, order) \in Seq(P)
<1> DEFINE poses == CandidatesOf(a)
           t == attempts.triggers[a]
           Earlier(i, j) == IF order = "oracle_rank" /\ OracleError(poses[i], t) # OracleError(poses[j], t)
                         THEN OracleError(poses[i], t) < OracleError(poses[j], t)
                         ELSE i < j
           sorted == Sorted(Positions(poses), Earlier)
           first == FirstOf(sorted, MaxPerAttempt)
           jobsOf == [k \in Sizes(first) |-> [attempt |-> a, source |-> attempts.source, trigger |-> t,
                                 index |-> first[k], rank |-> k, order |-> order, seed |-> poses[first[k]]]]
<1>1. Len(sorted) \in Nat
  BY DEF Sorted, Arranged, Positions, Sizes
<1>2. JobsOf(a, order) = jobsOf
  BY DEF JobsOf
<1> HIDE DEF sorted
<1>3. Len(first) \in Nat
  BY <1>1, FirstOfIs, PipelineAssumption
<1> HIDE DEF first
<1> QED
  BY <1>2, <1>3 DEF Sizes

LEMMA FlattenedIsASeq ==
  ASSUME NEW P, NEW ss \in Seq(Seq(P))
  PROVE  FlattenSeq(ss) \in Seq(P)
<1>1. FlattenSeq(ss) = Comparing!FlattenSeq(ss)
  BY DEF FlattenSeq, Comparing!FlattenSeq
<1>2. ss = <<>> => FlattenSeq(ss) = <<>>
  BY DEF FlattenSeq
<1> QED
  BY <1>1, <1>2, Flattened, EmptySeq

(* The poses of an attempt are a list, however they were chosen.             *)
LEMMA RouteIsAList ==
  ASSUME NEW t
  PROVE  Len(RouteCandidates(t)) \in Nat
<1> DEFINE near == NearestRow(t)
           at == {i \in Sizes(Reference) : Distance(i, t) <= Radius}
           around == Ascending(at)
           rows == IF around = <<>> THEN <<near>> ELSE around
           kept == FirstOf(Spaced(rows), MaxRoute)
           Closer(i, j) == Distance(i, near) < Distance(j, near)
                        \/ (Distance(i, near) = Distance(j, near) /\ i < j)
           closest == Sorted(Append(kept, near), Closer)
           most == FirstOf(closest, MaxRoute)
           route == IF near \in Range(kept) THEN kept ELSE Sorted(most, <)
<1>1. Len(Reference) \in Nat /\ MaxRoute \in Nat
  BY PipelineAssumption, LenProperties
<1>2. Len(around) \in Nat
  <2>1. IsFiniteSet(1 .. Len(Reference)) /\ at \in SUBSET (1 .. Len(Reference)) /\ at \in SUBSET Int
    BY <1>1, FS_Interval DEF Sizes
  <2> HIDE DEF at
  <2>2. IsFiniteSet(at)
    BY <2>1, FS_Subset
  <2> QED
    BY <2>1, <2>2, AscendingIs
<1>3. Len(rows) \in Nat
  BY <1>2
<1> HIDE DEF rows
<1> DEFINE T == {rows[k] : k \in 1 .. Len(rows)}
<1>4. Spaced(rows) \in Seq(T) /\ Len(Spaced(rows)) \in Nat
  BY <1>3, SpacedIsASeq, LenProperties
<1>5. Len(kept) \in Nat
  BY <1>1, <1>4, FirstOfIs
<1>6. Len(Append(kept, near)) \in Nat /\ DOMAIN Append(kept, near) = 1 .. Len(Append(kept, near))
  OBVIOUS
<1> HIDE DEF kept
<1>7. Len(closest) \in Nat /\ DOMAIN closest = 1 .. Len(closest)
  <2>1. PICK list : list = Append(kept, near) /\ Len(list) \in Nat /\ DOMAIN list = 1 .. Len(list)
    BY <1>6
  <2>2. closest = Sorted(list, Closer)
    BY <2>1
  <2>3. DOMAIN closest = 1 .. Len(list)
    BY Zenon, <2>1, <2>2 DEF Sorted, Arranged
  <2> HIDE DEF closest
  <2> QED
    BY <2>1, <2>3
<1> HIDE DEF closest
<1>8. Len(most) \in Nat
  BY <1>1, <1>7, FirstOfIs
<1>9. Len(route) \in Nat
  <2>1. Len(Sorted(most, <)) = Len(most)
    BY <1>8 DEF Sorted, Arranged
  <2> QED
    BY <1>5, <1>8, <2>1
<1>10. RouteRows(t) = route
  BY DEF RouteRows, closest, kept, rows
<1> HIDE DEF route
<1> QED
  BY <1>9, <1>10 DEF RouteCandidates, Sizes

LEMMA MapIsAList == Len(MapCandidates) \in Nat
<1> DEFINE at == {i \in Sizes(Cells) : (i - 1) % Stride = 0}
           places == [k \in 1 .. Len(KeptCells) * YawCount |->
                        <<Cells[KeptCells[((k - 1) \div YawCount) + 1]], (k - 1) % YawCount>>]
<1>1. Len(Cells) \in Nat /\ YawCount \in Nat /\ MaxCandidates \in Nat
  BY PipelineAssumption, LenProperties
<1>2. Len(KeptCells) \in Nat
  <2>1. IsFiniteSet(1 .. Len(Cells)) /\ at \in SUBSET (1 .. Len(Cells)) /\ at \in SUBSET Int
    BY <1>1, FS_Interval DEF Sizes
  <2>2. KeptCells = Ascending(at)
    BY DEF KeptCells
  <2> HIDE DEF at
  <2>3. IsFiniteSet(at)
    BY <2>1, FS_Subset
  <2> QED
    BY <2>1, <2>2, <2>3, AscendingIs
<1>3. Len(KeptCells) * YawCount \in Nat
  BY <1>1, <1>2
<1>4. Len(places) \in Nat
  BY <1>3
<1>5. MapCandidates = FirstOf(places, MaxCandidates)
  BY DEF MapCandidates
<1> HIDE DEF places
<1> QED
  BY <1>1, <1>4, <1>5, FirstOfIs

(* The scan nearest to a stamp exists: the earlier of at most two at the     *)
(* least distance.                                                           *)
LEMMA NearestIsAScan ==
  ASSUME NEW t \in Nat
  PROVE  NearestScan(t) \in ScanStamps
<1> DEFINE D == {Distance(s, t) : s \in ScanStamps}
<1>1. ScanStamps \in SUBSET Nat /\ ScanStamps # {}
  BY PipelineAssumption
<1>2. \A s \in ScanStamps : s \in Nat /\ Distance(s, t) \in Nat
  BY <1>1 DEF Distance
<1>3. PICK d \in D : \A e \in D : d <= e
  <2>1. D \in SUBSET Nat /\ D # {}
    BY <1>1, <1>2
  <2> HIDE DEF D
  <2> QED
    BY <2>1, LeastNumber
<1> DEFINE N == {s \in ScanStamps : Distance(s, t) = d}
<1>4. PICK s \in N : \A r \in N : s <= r
  <2>1. N \in SUBSET Nat /\ N # {}
    BY <1>1, <1>3
  <2> HIDE DEF N
  <2> QED
    BY <2>1, LeastNumber
<1>5. \A r \in ScanStamps : Distance(s, t) < Distance(r, t) \/ (Distance(s, t) = Distance(r, t) /\ s <= r)
  <2> TAKE r \in ScanStamps
  <2>1. Distance(r, t) \in D /\ d \in Nat /\ Distance(r, t) \in Nat /\ Distance(s, t) = d
    BY <1>2, <1>4
  <2>2. d <= Distance(r, t)
    BY <1>3, <2>1
  <2>3. Distance(r, t) = d => s <= r
    BY <1>4
  <2> HIDE DEF D, N
  <2> QED
    BY <2>1, <2>2, <2>3
<1>6. s \in ScanStamps
  OBVIOUS
<1> QED
  BY <1>5, <1>6 DEF NearestScan

LEMMA SearchedIsAList ==
  ASSUME NEW t \in Nat
  PROVE  Len(Searched[NearestScan(t)]) \in Nat
BY NearestIsAScan, PipelineAssumption, LenProperties

AttemptsDenote == attempts # NoFile =>
    /\ Len(attempts.triggers) \in Nat
    /\ \A a \in 1 .. Len(attempts.triggers) : Denotes(a, attempts.triggers[a])
CandidatesDenote == candidates # NoFile =>
    /\ Len(candidates.of) \in Nat /\ DOMAIN candidates.of = 1 .. Len(candidates.of)
    /\ \A a \in 1 .. Len(candidates.of) :
          Denotes(a, candidates.of[a].trigger) /\ Len(candidates.of[a].poses) \in Nat
JobsDenote == jobs # NoFile =>
    /\ Len(jobs) \in Nat
    /\ \A k \in 1 .. Len(jobs) : Denotes(jobs[k].attempt, jobs[k].trigger) /\ jobs[k].rank \in Nat
ScansDenote == scans # NoFile =>
    /\ Len(scans) \in Nat
    /\ \A k \in 1 .. Len(scans) :
          Denotes(scans[k].job.attempt, scans[k].job.trigger) /\ scans[k].job.rank \in Nat
ScoresDenote == scores # NoFile =>
    /\ Len(scores) \in Nat /\ DOMAIN scores = 1 .. Len(scores)
    /\ \A k \in 1 .. Len(scores) :
          Denotes(scores[k].job.attempt, scores[k].job.trigger) /\ scores[k].job.rank \in Nat
PlanDenotes == plan # NoFile =>
    /\ Len(plan) \in Nat
    /\ \A k \in 1 .. Len(plan) : Denotes(plan[k].attempt, plan[k].trigger)
CommandsDenote == commands # NoFile =>
    /\ Len(commands) \in Nat
    /\ \A k \in 1 .. Len(commands) : Denotes(commands[k].attempt, commands[k].stamp)
PublishedWasSent == execution # NoFile =>
    /\ Len(execution) \in Nat
    /\ \A k \in 1 .. Len(execution) : execution[k].published => \E s \in sent : s.attempt = execution[k].attempt
ObservedStreaks == observation # NoFile =>
    /\ Len(observation) \in Nat
    /\ AcceptedSawStreak
    /\ \A k \in 1 .. Len(observation) : observation[k].stamp \in Nat

(* The files say of windows what the log says, each file because the one it  *)
(* was made from did.                                                        *)
PipelineInv ==
    /\ log \in Seq(Row)
    /\ AttemptsDenote /\ CandidatesDenote /\ JobsDenote /\ ScansDenote /\ ScoresDenote
    /\ PlanDenotes /\ CommandsDenote
    /\ PublishedWasSent /\ ObservedStreaks

(* What a script leaves alone still denotes what it did.                     *)
LEMMA LeftAlone ==
  ASSUME PipelineInv, log' = log
  PROVE  /\ log' \in Seq(Row)
         /\ attempts' = attempts => AttemptsDenote'
         /\ candidates' = candidates => CandidatesDenote'
         /\ jobs' = jobs => JobsDenote'
         /\ scans' = scans => ScansDenote'
         /\ scores' = scores => ScoresDenote'
         /\ plan' = plan => PlanDenotes'
         /\ commands' = commands => CommandsDenote'
         /\ execution' = execution /\ sent \subseteq sent' => PublishedWasSent'
         /\ observation' = observation /\ sent \subseteq sent' => ObservedStreaks'
<1>1. \A a, t : Denotes(a, t)' <=> Denotes(a, t)
  BY DEF Denotes
<1>2. /\ log' \in Seq(Row)
      /\ attempts' = attempts => AttemptsDenote'
      /\ candidates' = candidates => CandidatesDenote'
      /\ jobs' = jobs => JobsDenote'
  BY <1>1 DEF PipelineInv, AttemptsDenote, CandidatesDenote, JobsDenote
<1>3. /\ scans' = scans => ScansDenote'
      /\ scores' = scores => ScoresDenote'
      /\ plan' = plan => PlanDenotes'
      /\ commands' = commands => CommandsDenote'
  BY <1>1 DEF PipelineInv, ScansDenote, ScoresDenote, PlanDenotes, CommandsDenote
<1>4. /\ execution' = execution /\ sent \subseteq sent' => PublishedWasSent'
      /\ observation' = observation /\ sent \subseteq sent' => ObservedStreaks'
  BY DEF PipelineInv, PublishedWasSent, ObservedStreaks, AcceptedSawStreak, Sizes
<1> QED
  BY <1>2, <1>3, <1>4

(* The log grows under the files.                                            *)
LEMMA ReportDenotes ==
  ASSUME PipelineInv, Report
  PROVE  PipelineInv'
<1>1. PICK row \in Row : log' = Append(log, row)
  BY DEF Report, Row
<1>2. /\ log \in Seq(Row) /\ log' \in Seq(Row) /\ Len(log) \in Nat /\ Len(log') = Len(log) + 1
      /\ \A i \in 1 .. Len(log) : log'[i] = log[i]
  BY <1>1, AppendProperties, LenProperties DEF PipelineInv
<1>3. \A a, t : Denotes(a, t) => Denotes(a, t)'
  BY <1>1, <1>2, DenotesGrows
<1>4. UNCHANGED <<attempts, candidates, jobs, scans, scores, plan, commands, execution, observation, sent>>
  BY DEF Report, files
<1>5. AttemptsDenote' /\ CandidatesDenote' /\ JobsDenote'
  BY <1>3, <1>4 DEF PipelineInv, AttemptsDenote, CandidatesDenote, JobsDenote
<1>6. ScansDenote' /\ ScoresDenote' /\ PlanDenotes' /\ CommandsDenote'
  BY <1>3, <1>4 DEF PipelineInv, ScansDenote, ScoresDenote, PlanDenotes, CommandsDenote
<1>7. PublishedWasSent'
  BY <1>4 DEF PipelineInv, PublishedWasSent
<1>8. ObservedStreaks'
  <2>1. SUFFICES ASSUME observation # NoFile, NEW k \in 1 .. Len(observation), observation[k].accepted,
                        NEW i \in observation[k].stamp .. Len(log),
                        i + StableRows - 1 <= observation[k].stamp + Window,
                        \A j \in i .. i + StableRows - 1 : j \in Sizes(log) /\ log[j] = "ok"
                 PROVE  /\ i \in observation[k].stamp .. Len(log')
                        /\ \A j \in i .. i + StableRows - 1 : j \in Sizes(log') /\ log'[j] = "ok"
    BY <1>4 DEF PipelineInv, ObservedStreaks, AcceptedSawStreak, Sizes
  <2>2. observation[k].stamp \in Nat
    BY <2>1 DEF PipelineInv, ObservedStreaks
  <2>3. i \in observation[k].stamp .. Len(log')
    BY <1>2, <2>2
  <2>4. \A j \in 1 .. Len(log) : j \in 1 .. Len(log') /\ log'[j] = log[j]
    BY <1>2
  <2> QED
    BY <2>1, <2>3, <2>4 DEF Sizes
<1> QED
  BY <1>2, <1>5, <1>6, <1>7, <1>8 DEF PipelineInv

LEMMA AttemptsAreMade ==
  ASSUME PipelineInv, NEW source, NEW poses, NEW overwrite,
         MakeAttempts(source, poses, overwrite),
         \A a \in Sizes(Triggers(log)) : Len(poses[a]) \in Nat
  PROVE  PipelineInv'
<1> DEFINE triggers == Triggers(log)
           made == [a \in Sizes(triggers) |-> [trigger |-> triggers[a], poses |-> poses[a]]]
<1>1. log \in Seq(Row)
  BY DEF PipelineInv
<1>2. Len(triggers) \in Nat /\ \A a \in 1 .. Len(triggers) : Denotes(a, triggers[a])
  BY <1>1, TriggersDenote DEF Sizes
<1> HIDE DEF triggers
<1>3. /\ UNCHANGED <<log, jobs, scans, scores, plan, commands, execution, observation, sent>>
      /\ attempts' = [source |-> source, triggers |-> triggers]
      /\ \/ candidates' = candidates
         \/ candidates' = [source |-> source, of |-> made]
  BY DEF MakeAttempts, triggers
<1>4. \A a, t : Denotes(a, t)' <=> Denotes(a, t)
  BY <1>3 DEF Denotes
<1>5. AttemptsDenote'
  BY <1>2, <1>3, <1>4 DEF AttemptsDenote
<1>6. CandidatesDenote'
  <2>1. CASE candidates' = candidates
    BY <1>3, <2>1, LeftAlone
  <2>2. CASE candidates' = [source |-> source, of |-> made]
    <3>1. /\ Len(made) = Len(triggers) /\ DOMAIN made = 1 .. Len(triggers)
          /\ \A a \in 1 .. Len(triggers) : made[a].trigger = triggers[a] /\ made[a].poses = poses[a]
      BY <1>2 DEF Sizes
    <3>2. \A a \in 1 .. Len(triggers) : Len(poses[a]) \in Nat
      BY DEF triggers, Sizes
    <3> HIDE DEF made
    <3>3. candidates'.of = made
      BY <2>2
    <3> QED
      BY <1>2, <1>4, <3>1, <3>2, <3>3 DEF CandidatesDenote
  <2> QED
    BY <1>3, <2>1, <2>2
<1> QED
  BY <1>3, <1>5, <1>6, LeftAlone DEF PipelineInv

LEMMA AttemptsDenoteWindows ==
  ASSUME PipelineInv, NEW overwrite,
         RouteGrid(overwrite) \/ MapGrid(overwrite) \/ BranchAndBound2D(overwrite) \/ Disabled(overwrite)
  PROVE  PipelineInv'
<1>1. log \in Seq(Row)
  BY DEF PipelineInv
<1>2. \A a \in Sizes(Triggers(log)) : Triggers(log)[a] \in Nat
  BY <1>1, TriggersDenote
<1>3. CASE RouteGrid(overwrite)
  <2> DEFINE poses == [a \in Sizes(Triggers(log)) |-> RouteCandidates(Triggers(log)[a])]
  <2>1. \A a \in Sizes(Triggers(log)) : Len(poses[a]) \in Nat
    BY RouteIsAList
  <2>2. MakeAttempts("route_grid", poses, overwrite)
    BY <1>3 DEF RouteGrid
  <2> HIDE DEF poses
  <2> QED
    BY <2>1, <2>2, AttemptsAreMade
<1>4. CASE MapGrid(overwrite)
  <2> DEFINE poses == [a \in Sizes(Triggers(log)) |-> MapCandidates]
  <2>1. \A a \in Sizes(Triggers(log)) : Len(poses[a]) \in Nat
    BY MapIsAList
  <2>2. MakeAttempts("map_grid", poses, overwrite)
    BY <1>4 DEF MapGrid
  <2> HIDE DEF poses
  <2> QED
    BY <2>1, <2>2, AttemptsAreMade
<1>5. CASE BranchAndBound2D(overwrite)
  <2> DEFINE poses == [a \in Sizes(Triggers(log)) |-> Searched[NearestScan(Triggers(log)[a])]]
  <2>1. \A a \in Sizes(Triggers(log)) : Len(poses[a]) \in Nat
    BY <1>2, SearchedIsAList
  <2>2. MakeAttempts("bbs_2d", poses, overwrite)
    BY <1>5 DEF BranchAndBound2D
  <2> HIDE DEF poses
  <2> QED
    BY <2>1, <2>2, AttemptsAreMade
<1>6. CASE Disabled(overwrite)
  <2>1. /\ UNCHANGED <<log, candidates, jobs, scans, scores, plan, commands, execution, observation, sent>>
        /\ attempts' = [source |-> "disabled", triggers |-> Triggers(log)]
    BY <1>6 DEF Disabled
  <2>2. AttemptsDenote'
    BY <1>1, <2>1, TriggersDenote DEF AttemptsDenote, Denotes, Sizes
  <2> QED
    BY <2>1, <2>2, LeftAlone DEF PipelineInv
<1> QED
  BY <1>3, <1>4, <1>5, <1>6

(* The jobs are those of the attempts' windows.                              *)
LEMMA JobsDenoteWindows ==
  ASSUME PipelineInv, NEW order, NEW overwrite, MakeJobs(order, overwrite)
  PROVE  PipelineInv'
<1> DEFINE n == Len(attempts.triggers)
           of == [a \in 1 .. n |-> JobsOf(a, order)]
           P == UNION {{JobsOf(a, order)[k] : k \in 1 .. Len(JobsOf(a, order))} : a \in 1 .. n}
<1>1. /\ UNCHANGED <<log, attempts, candidates, scans, scores, plan, commands, execution, observation, sent>>
      /\ attempts # NoFile /\ candidates # NoFile /\ jobs' = FlattenSeq(of)
  BY DEF MakeJobs, Sizes
<1>2. n \in Nat /\ \A a \in 1 .. n : Denotes(a, attempts.triggers[a])
  BY <1>1 DEF PipelineInv, AttemptsDenote
<1>3. \A a \in 1 .. n : Len(CandidatesOf(a)) \in Nat
  <2> TAKE a \in 1 .. n
  <2>1. Len(<<>>) \in Nat
    OBVIOUS
  <2>2. a \in DOMAIN candidates.of => Len(candidates.of[a].poses) \in Nat
    BY <1>1 DEF PipelineInv, CandidatesDenote
  <2> QED
    BY <2>1, <2>2 DEF CandidatesOf
<1>4. \A a \in 1 .. n : /\ Len(JobsOf(a, order)) \in Nat
                        /\ DOMAIN JobsOf(a, order) = 1 .. Len(JobsOf(a, order))
                        /\ \A k \in 1 .. Len(JobsOf(a, order)) :
                              /\ JobsOf(a, order)[k].attempt = a
                              /\ JobsOf(a, order)[k].trigger = attempts.triggers[a]
                              /\ JobsOf(a, order)[k].rank \in Nat
  BY <1>3, JobsOfNames
<1>5. of \in Seq(Seq(P))
  <2>1. \A a \in 1 .. n : \A k \in 1 .. Len(JobsOf(a, order)) : JobsOf(a, order)[k] \in P
    OBVIOUS
  <2> HIDE DEF P
  <2>2. \A a \in 1 .. n : JobsOf(a, order) \in Seq(P)
    BY <1>3, <2>1, JobsOfNames
  <2> QED
    BY <1>2, <2>2
<1>6. \A p \in P : Denotes(p.attempt, p.trigger) /\ p.rank \in Nat
  BY <1>2, <1>4
<1> HIDE DEF P, of
<1>7. jobs' \in Seq(P)
  BY <1>1, <1>5, FlattenedIsASeq
<1>8. Len(jobs') \in Nat /\ \A k \in 1 .. Len(jobs') : jobs'[k] \in P
  BY <1>7, LenProperties, ElementOfSeq
<1>9. JobsDenote'
  BY <1>1, <1>6, <1>8 DEF JobsDenote, Denotes
<1> QED
  BY <1>1, <1>9, LeftAlone DEF PipelineInv

LEMMA ScansDenoteWindows ==
  ASSUME PipelineInv, NEW overwrite, ResolveScans(overwrite)
  PROVE  PipelineInv'
<1>1. /\ UNCHANGED <<log, attempts, candidates, jobs, scores, plan, commands, execution, observation, sent>>
      /\ jobs # NoFile /\ scans' = [k \in 1 .. Len(jobs) |-> Resolved(jobs[k])]
  BY DEF ResolveScans, Sizes
<1>2. /\ Len(jobs) \in Nat
      /\ \A k \in 1 .. Len(jobs) : Denotes(jobs[k].attempt, jobs[k].trigger) /\ jobs[k].rank \in Nat
  BY <1>1 DEF PipelineInv, JobsDenote
<1>3. \A k \in 1 .. Len(jobs) : Resolved(jobs[k]).job = jobs[k]
  BY DEF Resolved
<1>4. Len(scans') = Len(jobs) /\ \A k \in 1 .. Len(jobs) : scans'[k].job = jobs[k]
  BY <1>1, <1>2, <1>3
<1>5. ScansDenote'
  BY <1>1, <1>2, <1>4 DEF ScansDenote, Denotes
<1> QED
  BY <1>1, <1>5, LeftAlone DEF PipelineInv

LEMMA ScoresDenoteWindows ==
  ASSUME PipelineInv, ScoreJobs
  PROVE  PipelineInv'
<1>1. /\ UNCHANGED <<log, attempts, candidates, jobs, scans, plan, commands, execution, observation, sent>>
      /\ scans # NoFile /\ scores' = [k \in 1 .. Len(scans) |-> Scored(scans[k])]
  BY DEF ScoreJobs, Sizes
<1>2. /\ Len(scans) \in Nat
      /\ \A k \in 1 .. Len(scans) :
            Denotes(scans[k].job.attempt, scans[k].job.trigger) /\ scans[k].job.rank \in Nat
  BY <1>1 DEF PipelineInv, ScansDenote
<1>3. \A k \in 1 .. Len(scans) : Scored(scans[k]).job = scans[k].job
  BY DEF Scored
<1>4. /\ Len(scores') = Len(scans) /\ DOMAIN scores' = 1 .. Len(scans)
      /\ \A k \in 1 .. Len(scans) : scores'[k].job = scans[k].job
  BY <1>1, <1>2, <1>3
<1>5. ScoresDenote'
  BY <1>1, <1>2, <1>4 DEF ScoresDenote, Denotes
<1> QED
  BY <1>1, <1>5, LeftAlone DEF PipelineInv

(* A plan has a row of each attempt that has scores.                         *)
LEMMA PlanDenotesWindows ==
  ASSUME PipelineInv, NEW overwrite, SelectCandidates(overwrite)
  PROVE  PipelineInv'
<1> DEFINE S == {scores[k].job.attempt : k \in 1 .. Len(scores)}
           named == Ascending(S)
<1>1. /\ UNCHANGED <<log, attempts, candidates, jobs, scans, scores, commands, execution, observation, sent>>
      /\ scores # NoFile /\ plan' = [k \in 1 .. Len(named) |-> PlanRow(RowsOf(named[k]))]
  BY DEF SelectCandidates, Sizes
<1>2. /\ Len(scores) \in Nat /\ DOMAIN scores = 1 .. Len(scores)
      /\ \A k \in 1 .. Len(scores) : Denotes(scores[k].job.attempt, scores[k].job.trigger)
  BY <1>1 DEF PipelineInv, ScoresDenote
<1>3. Len(Triggers(log)) \in Nat /\ S \in SUBSET (1 .. Len(Triggers(log)))
  BY <1>2, TriggersDenote DEF PipelineInv, Denotes, Sizes
<1>4. S \in SUBSET Int /\ IsFiniteSet(S)
  <2>1. IsFiniteSet(1 .. Len(Triggers(log))) /\ S \in SUBSET Int
    BY <1>3, FS_Interval
  <2> HIDE DEF S
  <2> QED
    BY <1>3, <2>1, FS_Subset
<1>5. named \in Seq(S)
  <2> HIDE DEF S
  <2> QED
    BY <1>4, AscendingIs
<1>6. \A a \in S : Denotes(PlanRow(RowsOf(a)).attempt, PlanRow(RowsOf(a)).trigger)
  <2> TAKE a \in S
  <2>1. PICK k \in 1 .. Len(scores) : a = scores[k].job.attempt
    OBVIOUS
  <2>2. PICK i \in 1 .. Len(scores) : RowsOf(a)[1] = scores[i]
    BY <1>2, <2>1, RowsOfNames
  <2> QED
    BY <1>2, <2>2, PlanRowNames
<1> HIDE DEF S, named
<1>7. Len(named) \in Nat /\ \A k \in 1 .. Len(named) : named[k] \in S
  BY <1>5, LenProperties, ElementOfSeq
<1>8. Len(plan') = Len(named) /\ \A k \in 1 .. Len(named) : plan'[k] = PlanRow(RowsOf(named[k]))
  BY <1>1, <1>7
<1>9. PlanDenotes'
  BY <1>1, <1>6, <1>7, <1>8 DEF PlanDenotes, Denotes
<1> QED
  BY <1>1, <1>9, LeftAlone DEF PipelineInv

LEMMA CommandsDenoteWindows ==
  ASSUME PipelineInv, NEW overwrite, MakeCommands(overwrite)
  PROVE  PipelineInv'
<1>1. /\ UNCHANGED <<log, attempts, candidates, jobs, scans, scores, plan, execution, observation, sent>>
      /\ plan # NoFile /\ commands' = [k \in 1 .. Len(plan) |-> Command(plan[k])]
  BY DEF MakeCommands, Sizes
<1>2. Len(plan) \in Nat /\ \A k \in 1 .. Len(plan) : Denotes(plan[k].attempt, plan[k].trigger)
  BY <1>1 DEF PipelineInv, PlanDenotes
<1>3. \A k \in 1 .. Len(plan) : /\ Command(plan[k]).attempt = plan[k].attempt
                                /\ Command(plan[k]).stamp = plan[k].trigger
  BY DEF Command
<1>4. /\ Len(commands') = Len(plan)
      /\ \A k \in 1 .. Len(plan) : /\ commands'[k].attempt = plan[k].attempt
                                   /\ commands'[k].stamp = plan[k].trigger
  BY <1>1, <1>2, <1>3
<1>5. CommandsDenote'
  BY <1>1, <1>2, <1>4 DEF CommandsDenote, Denotes
<1> QED
  BY <1>1, <1>5, LeftAlone DEF PipelineInv

(* What the record says was published was sent.                              *)
LEMMA RecordIsOfTheSent ==
  ASSUME PipelineInv, NEW execute \in BOOLEAN, NEW waived, NEW overwrite, Publish(execute, waived, overwrite)
  PROVE  PipelineInv'
<1> DEFINE passed == waived \cap {"unvalidated", "failed_validation"} # {} \/ validation
           out == {k \in 1 .. Len(commands) : Publishable(commands[k], waived) /\ passed /\ execute}
           message(k) == [pose |-> commands[k].pose, attempt |-> commands[k].attempt, at |-> Len(log)]
<1>1. /\ UNCHANGED <<log, attempts, candidates, jobs, scans, scores, plan, commands, observation>>
      /\ commands # NoFile
      /\ sent' = sent \cup {message(k) : k \in out}
      /\ \/ execution' = execution
         \/ execution' = [k \in 1 .. Len(commands) |-> [attempt |-> commands[k].attempt, published |-> k \in out]]
  BY DEF Publish, Sizes
<1>2. Len(commands) \in Nat
  BY <1>1 DEF PipelineInv, CommandsDenote
<1>3. \A k \in out : message(k) \in sent' /\ message(k).attempt = commands[k].attempt
  BY <1>1
<1>4. sent \subseteq sent'
  BY <1>1
<1> HIDE DEF out, message
<1>5. PublishedWasSent'
  <2>1. CASE execution' = execution
    BY <1>1, <1>4, <2>1, LeftAlone
  <2>2. CASE execution' = [k \in 1 .. Len(commands) |-> [attempt |-> commands[k].attempt, published |-> k \in out]]
    <3>1. /\ Len(execution') = Len(commands)
          /\ \A k \in 1 .. Len(commands) : /\ execution'[k].attempt = commands[k].attempt
                                           /\ execution'[k].published = (k \in out)
      BY <1>2, <2>2
    <3> QED
      BY <1>2, <1>3, <3>1 DEF PublishedWasSent
  <2> QED
    BY <1>1, <2>1, <2>2
<1> QED
  BY <1>1, <1>4, <1>5, LeftAlone DEF PipelineInv

(* The streak of rows is one: so many ok rows in a row end at some row.      *)
LEMMA StreakIsARun ==
  ASSUME NEW rows, Len(rows) \in Nat
  PROVE  /\ Streak(rows) \in Nat
         /\ \E e \in 0 .. Len(rows) : /\ Streak(rows) <= e
                                      /\ \A j \in e - Streak(rows) + 1 .. e : rows[j] = "ok"
<1> DEFINE n == Len(rows)
           EndsAt(len, e) == len <= e /\ \A j \in e - len + 1 .. e : rows[j] = "ok"
<1>1. PICK tally \in [0 .. n -> Nat \X Nat] :
         /\ \A k \in 0 .. n : tally[k] = IF k = 0 THEN <<0, 0>> ELSE Longer(tally[k - 1], rows[k])
         /\ Streak(rows) = tally[n][2]
  BY StreakRuns
<1> DEFINE S == {k \in 0 .. n : /\ EndsAt(tally[k][1], k)
                                /\ \E e \in 0 .. k : EndsAt(tally[k][2], e)}
<1>2. \A k \in 0 .. n : tally[k][1] \in Nat /\ tally[k][2] \in Nat
  BY <1>1
<1>3. 0 \in S
  <2>1. tally[0][1] = 0 /\ tally[0][2] = 0 /\ 0 \in 0 .. n /\ 0 \in 0 .. 0
    BY <1>1
  <2>2. EndsAt(0, 0)
    OBVIOUS
  <2> HIDE DEF EndsAt
  <2> QED
    BY <2>1, <2>2
<1>4. ASSUME NEW k \in S, k < n PROVE k + 1 \in S
  <2>1. /\ k \in 0 .. n /\ k + 1 \in 0 .. n /\ k + 1 # 0 /\ (k + 1) - 1 = k /\ k \in Nat
    BY <1>4
  <2>2. tally[k + 1] = Longer(tally[k], rows[k + 1])
    BY <1>1, <2>1
  <2>3. /\ tally[k + 1][1] = IF rows[k + 1] = "ok" THEN tally[k][1] + 1 ELSE 0
        /\ tally[k + 1][2] = IF tally[k + 1][1] > tally[k][2] THEN tally[k + 1][1] ELSE tally[k][2]
    BY <2>2 DEF Longer
  <2>4. tally[k][1] \in Nat /\ tally[k][2] \in Nat
    BY <1>2, <2>1
  <2>5. EndsAt(tally[k][1], k)
    OBVIOUS
  <2>6. PICK e \in 0 .. k : EndsAt(tally[k][2], e)
    OBVIOUS
  <2>7. EndsAt(tally[k + 1][1], k + 1)
    <3>1. CASE rows[k + 1] = "ok"
      <4>1. tally[k + 1][1] = tally[k][1] + 1
        BY <2>3, <3>1
      <4>2. \A j \in (k + 1) - (tally[k][1] + 1) + 1 .. k + 1 : j = k + 1 \/ j \in k - tally[k][1] + 1 .. k
        BY <2>1, <2>4
      <4> QED
        BY <2>1, <2>4, <2>5, <3>1, <4>1, <4>2
    <3>2. CASE rows[k + 1] # "ok"
      <4>1. tally[k + 1][1] = 0
        BY <2>3, <3>2
      <4> QED
        BY <2>1, <4>1
    <3> QED
      BY <3>1, <3>2
  <2>8. \E f \in 0 .. k + 1 : EndsAt(tally[k + 1][2], f)
    <3>1. k + 1 \in 0 .. k + 1 /\ e \in 0 .. k + 1
      BY <2>1
    <3> HIDE DEF EndsAt
    <3> QED
      BY <2>3, <2>6, <2>7, <3>1
  <2> HIDE DEF EndsAt
  <2> QED
    BY <2>1, <2>7, <2>8
<1>5. S \in SUBSET (0 .. n) /\ n \in Nat /\ n \in 0 .. n
  OBVIOUS
<1>6. S = 0 .. n
  <2> HIDE DEF S, n
  <2> QED
    BY <1>3, <1>4, <1>5, EveryStep
<1>7. PICK e \in 0 .. n : EndsAt(tally[n][2], e)
  <2> HIDE DEF EndsAt
  <2> QED
    BY <1>5, <1>6
<1>8. tally[n][2] \in Nat
  BY <1>2, <1>5
<1> QED
  BY <1>1, <1>7, <1>8

(* An accepted observation saw it in the log, within the window.             *)
LEMMA StreakIsInTheLog ==
  ASSUME log \in Seq(Row), NEW from \in 1 .. Len(log), NEW to \in Nat,
         to = IF from + Window > Len(log) THEN Len(log) ELSE from + Window,
         Streak(SubSeq(log, from, to)) >= StableRows
  PROVE  \E i \in from .. Len(log) :
            /\ i + StableRows - 1 <= from + Window
            /\ \A j \in i .. i + StableRows - 1 : j \in Sizes(log) /\ log[j] = "ok"
<1> DEFINE rows == SubSeq(log, from, to)
           s == Streak(rows)
<1>1. Len(log) \in Nat /\ Window \in Nat /\ StableRows \in Nat \ {0} /\ from \in Nat
  BY LenProperties, PipelineAssumption
<1>2. from <= to /\ to <= Len(log) /\ to <= from + Window
  BY <1>1
<1>3. Len(rows) = to - from + 1 /\ \A j \in 1 .. to - from + 1 : rows[j] = log[from + j - 1]
  <2>1. \A i \in from .. to : log[i] \in Row
    BY <1>1, <1>2, ElementOfSeq
  <2>2. Len(rows) = to - from + 1
    BY <1>1, <1>2, <2>1, SubSeqProperties
  <2> QED
    BY <1>1, <1>2, <2>1, <2>2, SubSeqProperties
<1>4. Len(rows) \in Nat
  BY <1>1, <1>2, <1>3
<1> HIDE DEF rows
<1>5. s \in Nat /\ \E e \in 0 .. Len(rows) : s <= e /\ \A j \in e - s + 1 .. e : rows[j] = "ok"
  BY <1>4, StreakIsARun
<1>6. PICK e \in 0 .. Len(rows) : s <= e /\ \A j \in e - s + 1 .. e : rows[j] = "ok"
  BY <1>5
<1>7. s >= StableRows
  BY DEF rows
<1> HIDE DEF s
<1> DEFINE i == from + e - StableRows
<1>8. e \in Nat /\ e <= to - from + 1 /\ StableRows <= e /\ i \in from .. Len(log) /\ i + StableRows - 1 <= from + Window
  BY <1>1, <1>2, <1>3, <1>5, <1>6, <1>7
<1>9. ASSUME NEW j \in i .. i + StableRows - 1 PROVE j \in 1 .. Len(log) /\ log[j] = "ok"
  <2>1. /\ j \in Int /\ j - from + 1 \in e - s + 1 .. e /\ j - from + 1 \in 1 .. to - from + 1
        /\ from + (j - from + 1) - 1 = j /\ j \in 1 .. Len(log)
    BY <1>1, <1>2, <1>5, <1>6, <1>7, <1>8
  <2>2. rows[j - from + 1] = "ok" /\ rows[j - from + 1] = log[from + (j - from + 1) - 1]
    BY <1>3, <1>6, <2>1
  <2> QED
    BY <2>1, <2>2
<1> QED
  BY <1>8, <1>9 DEF Sizes

LEMMA ObservationIsOfTheLog ==
  ASSUME PipelineInv, NEW overwrite, Observe(overwrite)
  PROVE  PipelineInv'
<1>1. /\ UNCHANGED <<log, attempts, candidates, jobs, scans, scores, plan, commands, execution, sent>>
      /\ execution # NoFile /\ commands # NoFile
      /\ observation' = [k \in 1 .. Len(execution) |-> Observed(k)]
  BY DEF Observe, Sizes
<1>2. /\ log \in Seq(Row) /\ Len(log) \in Nat /\ Window \in Nat
      /\ Len(execution) \in Nat /\ Len(commands) \in Nat
      /\ \A k \in 1 .. Len(commands) : commands[k].stamp \in 1 .. Len(log)
  BY <1>1, TriggersDenote, LenProperties, PipelineAssumption
  DEF PipelineInv, PublishedWasSent, CommandsDenote
<1>3. Len(observation') = Len(execution) /\ \A k \in 1 .. Len(execution) : observation'[k] = Observed(k)
  BY <1>1, <1>2
<1>4. \A k \in 1 .. Len(execution) : Observed(k).stamp \in Nat
  BY <1>2 DEF Observed, Sizes
<1>5. ASSUME NEW k \in 1 .. Len(execution), Observed(k).accepted
      PROVE  /\ \E s \in sent : s.attempt = Observed(k).attempt
             /\ \E i \in Observed(k).stamp .. Len(log) :
                   /\ i + StableRows - 1 <= Observed(k).stamp + Window
                   /\ \A j \in i .. i + StableRows - 1 : j \in Sizes(log) /\ log[j] = "ok"
  <2> DEFINE from == commands[k].stamp
             to == IF from + Window > Len(log) THEN Len(log) ELSE from + Window
  <2>1. execution[k].published /\ k \in 1 .. Len(commands) /\ Streak(SubSeq(log, from, to)) >= StableRows
    BY <1>5 DEF Observed, Sizes
  <2>2. Observed(k).attempt = execution[k].attempt /\ Observed(k).stamp = from
    BY <2>1 DEF Observed, Sizes
  <2>3. \E s \in sent : s.attempt = execution[k].attempt
    BY <1>1, <2>1 DEF PipelineInv, PublishedWasSent
  <2>4. from \in 1 .. Len(log) /\ to \in Nat
    BY <1>2, <2>1
  <2> HIDE DEF from
  <2> QED
    BY <1>2, <2>1, <2>2, <2>3, <2>4, StreakIsInTheLog
<1>6. ObservedStreaks'
  <2>1. Len(observation') \in Nat /\ \A k \in 1 .. Len(observation') : observation'[k].stamp \in Nat
    BY <1>2, <1>3, <1>4
  <2>2. AcceptedSawStreak'
    BY <1>1, <1>3, <1>5, SMTT(30) DEF AcceptedSawStreak, Sizes
  <2> QED
    BY <2>1, <2>2 DEF ObservedStreaks
<1> QED
  BY <1>1, <1>6, LeftAlone DEF PipelineInv

LEMMA PipelineStep ==
  ASSUME PipelineInv, [OfflineNext]_<<tool, vars, gatesVars, comparingVars, doctorVars>>
  PROVE  PipelineInv'
<1>1. CASE UNCHANGED vars
  BY <1>1, LeftAlone DEF vars, files, PipelineInv
<1>2. CASE Report \/ ScoreJobs
  BY <1>2, ReportDenotes, ScoresDenoteWindows
<1>3. ASSUME NEW overwrite \in BOOLEAN, Script(overwrite) PROVE PipelineInv'
  <2>1. CASE RouteGrid(overwrite) \/ MapGrid(overwrite) \/ BranchAndBound2D(overwrite) \/ Disabled(overwrite)
    BY <2>1, AttemptsDenoteWindows
  <2>2. ASSUME NEW order \in {"candidate_index", "oracle_rank"}, MakeJobs(order, overwrite) PROVE PipelineInv'
    BY <2>2, JobsDenoteWindows
  <2>3. CASE ResolveScans(overwrite) \/ SelectCandidates(overwrite) \/ MakeCommands(overwrite)
    BY <2>3, ScansDenoteWindows, PlanDenotesWindows, CommandsDenoteWindows
  <2>4. CASE \E oracle \in BOOLEAN : ValidatePlan(oracle, overwrite) \/ ValidateCommands(oracle, overwrite)
    <3>1. UNCHANGED <<log, attempts, candidates, jobs, scans, scores, plan, commands, execution, observation, sent>>
      BY <2>4 DEF ValidatePlan, ValidateCommands
    <3> QED
      BY <3>1, LeftAlone DEF PipelineInv
  <2>5. ASSUME NEW execute \in BOOLEAN, NEW waived \in SUBSET Waivers,
               Publish(execute, waived, overwrite)
        PROVE  PipelineInv'
    BY <2>5, RecordIsOfTheSent
  <2>6. CASE Observe(overwrite)
    BY <2>6, ObservationIsOfTheLog
  <2> QED
    BY <1>3, <2>1, <2>2, <2>3, <2>4, <2>5, <2>6 DEF Script
<1>4. (Next \/ UNCHANGED vars) => PipelineInv'
  BY <1>1, <1>2, <1>3 DEF Next
<1> QED
  BY <1>4 DEF OfflineNext

LEMMA PipelineStart == OfflineInit => PipelineInv
BY EmptySeq DEF OfflineInit, Init, PipelineInv, AttemptsDenote, CandidatesDenote, JobsDenote, ScansDenote,
                ScoresDenote, PlanDenotes, CommandsDenote, PublishedWasSent, ObservedStreaks

(* Attempt ids are positions and the files outlive the log they were made    *)
(* of: whatever the order in which the scripts are run and however many      *)
(* files are replaced, an id in the attempts, candidates, jobs, scans,       *)
(* scores, plan or commands names today the window it was given for. (Not so *)
(* in the observation, where an id and a window of two plans can meet.)      *)
THEOREM AlwaysIdsDenoteWindows == OfflineSpec => []IdsDenoteWindows
<1>1. PipelineInv /\ [OfflineNext]_<<tool, vars, gatesVars, comparingVars, doctorVars>> => PipelineInv'
  BY PipelineStep
<1>2. PipelineInv => IdsDenoteWindows
  BY DEF PipelineInv, IdsDenoteWindows, AttemptsDenote, CandidatesDenote, JobsDenote, ScansDenote,
         ScoresDenote, PlanDenotes, CommandsDenote, Denotes, Sizes
<1> QED
  BY <1>1, <1>2, PipelineStart, PTL DEF OfflineSpec

(* An observation that accepts a reset is of one that was sent, and the log  *)
(* holds so many ok rows in a row within the window after its trigger.       *)
THEOREM AlwaysAcceptedSawStreak == OfflineSpec => []AcceptedSawStreak
<1>1. PipelineInv /\ [OfflineNext]_<<tool, vars, gatesVars, comparingVars, doctorVars>> => PipelineInv'
  BY PipelineStep
<1>2. PipelineInv => AcceptedSawStreak
  BY DEF PipelineInv, ObservedStreaks, AcceptedSawStreak
<1> QED
  BY <1>1, <1>2, PipelineStart, PTL DEF OfflineSpec

-----------------------------------------------------------------------------
(* ResetPipeline: what is sent was registered. What a list is when it is     *)
(* picked from another, and that sorted() begins with one of its elements.   *)

LEMMA LeastOfFinite ==
  ASSUME NEW S \in SUBSET Int, IsFiniteSet(S), S # {}
  PROVE  \E m \in S : \A x \in S : m <= x
<1>1. /\ Cardinality(S) \in Nat
      /\ \A k \in 1 .. Cardinality(S) :
            Ascending(S)[k] \in S /\ Cardinality({j \in S : j < Ascending(S)[k]}) = k - 1
  BY AscendingIs
<1>2. Cardinality(S) # 0
  BY FS_EmptySet
<1>3. PICK m \in S : Cardinality({j \in S : j < m}) = 0
  <2>1. 1 \in 1 .. Cardinality(S) /\ 1 - 1 = 0
    BY <1>1, <1>2
  <2> QED
    BY <1>1, <2>1
<1>4. {j \in S : j < m} = {}
  <2>1. IsFiniteSet({j \in S : j < m})
    BY FS_Subset
  <2> QED
    BY <1>3, <2>1, FS_EmptySet
<1>5. \A x \in S : m <= x
  <2> TAKE x \in S
  <2>1. x \in Int /\ m \in Int /\ ~(x < m)
    BY <1>4
  <2> QED
    BY <2>1
<1> QED
  BY <1>5

LEMMA LeastImage ==
  ASSUME NEW top \in Nat, NEW S \in SUBSET (1 .. top), S # {}, NEW f \in [S -> Int]
  PROVE  \E i \in S : \A j \in S : f[i] <= f[j]
<1> DEFINE T == {f[i] : i \in S}
<1>1. f \in Surjection(S, T)
  BY DEF Surjection
<1>2. IsFiniteSet(S)
  <2>1. IsFiniteSet(1 .. top)
    BY FS_Interval
  <2> QED
    BY <2>1, FS_Subset
<1>3. IsFiniteSet(T)
  <2> HIDE DEF T
  <2> QED
    BY <1>1, <1>2, FS_Surjection
<1>4. T \in SUBSET Int /\ T # {}
  OBVIOUS
<1>5. PICK m \in T : \A x \in T : m <= x
  <2> HIDE DEF T
  <2> QED
    BY <1>3, <1>4, LeastOfFinite
<1> QED
  BY <1>5

(* What Picked makes of the places S of seq, said without its definition.    *)
PicksPlaces(picked, seq, S) ==
    /\ \E T : picked \in [DOMAIN Ascending(S) -> T]
    /\ \A k \in DOMAIN Ascending(S) : picked[k] = seq[Ascending(S)[k]]

TakenFrom(picked, seq, S) == \A k \in 1 .. Len(picked) : \E i \in S : picked[k] = seq[i]

LEMMA PlacesPicked ==
  ASSUME NEW picked, NEW seq, NEW S, PicksPlaces(picked, seq, S),
         NEW n, n \in Nat, S \in SUBSET (1 .. n)
  PROVE  /\ Len(picked) \in Nat /\ DOMAIN picked = 1 .. Len(picked)
         /\ TakenFrom(picked, seq, S)
         /\ picked # <<>> => Len(picked) # 0
<1>1. S \in SUBSET Int /\ IsFiniteSet(S)
  <2>1. IsFiniteSet(1 .. n) /\ S \in SUBSET Int
    BY FS_Interval
  <2> QED
    BY <2>1, FS_Subset
<1>2. /\ Cardinality(S) \in Nat /\ Ascending(S) \in Seq(S) /\ Len(Ascending(S)) = Cardinality(S)
      /\ \A k \in 1 .. Cardinality(S) : Ascending(S)[k] \in S
  BY <1>1, AscendingIs
<1> PICK T : picked \in [DOMAIN Ascending(S) -> T]
  BY DEF PicksPlaces
<1>3. DOMAIN Ascending(S) = 1 .. Cardinality(S)
  BY <1>2, LenProperties
<1>4. picked \in [1 .. Cardinality(S) -> T]
  BY <1>3
<1>5. picked \in Seq(T) /\ Len(picked) = Cardinality(S)
  BY <1>2, <1>4
<1>6. picked # <<>> => Len(picked) # 0
  BY <1>5, EmptySeq
<1>7. \A k \in 1 .. Cardinality(S) : Ascending(S)[k] \in S /\ picked[k] = seq[Ascending(S)[k]]
  BY <1>2, <1>3 DEF PicksPlaces
<1> QED
  BY <1>2, <1>4, <1>5, <1>6, <1>7 DEF TakenFrom

LEMMA FirstArranged ==
  ASSUME NEW list, Len(list) \in Nat \ {0}, DOMAIN list = 1 .. Len(list),
         NEW before, \E i \in DOMAIN list : \A j \in DOMAIN list : <<j, i>> \notin before
  PROVE  \E i \in 1 .. Len(list) : Arranged(list, before)[1] = list[i]
<1>1. PICK i \in DOMAIN list : \A j \in DOMAIN list : <<j, i>> \notin before
  OBVIOUS
<1>2. Cardinality({j \in DOMAIN list : <<j, i>> \in before}) = 0
  <2>1. {j \in DOMAIN list : <<j, i>> \in before} = {}
    BY <1>1
  <2> QED
    BY <2>1, FS_EmptySet
<1>3. PICK first : first = CHOOSE n \in DOMAIN list : Cardinality({j \in DOMAIN list : <<j, n>> \in before}) = 1 - 1
  OBVIOUS
<1>4. first \in DOMAIN list
  <2>1. \E n \in DOMAIN list : Cardinality({j \in DOMAIN list : <<j, n>> \in before}) = 1 - 1
    <3>1. 1 - 1 = 0
      OBVIOUS
    <3> QED
      BY Zenon, <1>2, <3>1
  <2> QED
    BY <1>3, <2>1
<1>5. Arranged(list, before)[1] = list[first]
  BY <1>3 DEF Arranged
<1> QED
  BY <1>4, <1>5

(* Of rows with numbers for scores and ranks, none comes before the first of *)
(* those with the least rank of those with the least score.                  *)
LEMMA BestExists ==
  ASSUME NEW list, Len(list) \in Nat \ {0},
         \A i \in 1 .. Len(list) : list[i].outcome.score \in Int /\ list[i].job.rank \in Nat
  PROVE  \E i \in 1 .. Len(list) : \A j \in 1 .. Len(list) :
            ~(Better(list[j], list[i]) \/ (~Better(list[i], list[j]) /\ j < i))
<1> DEFINE n == Len(list)
           score == [i \in 1 .. n |-> list[i].outcome.score]
           rank == [i \in 1 .. n |-> list[i].job.rank]
<1>1. score \in [1 .. n -> Int] /\ rank \in [1 .. n -> Int]
  OBVIOUS
<1>2. \A i, j \in 1 .. n : Better(list[i], list[j]) <=>
         score[i] < score[j] \/ (score[i] = score[j] /\ rank[i] < rank[j])
  BY DEF Better
<1> HIDE DEF score, rank
<1>3. PICK a \in 1 .. n : \A j \in 1 .. n : score[a] <= score[j]
  <2>1. n \in Nat /\ 1 \in 1 .. n /\ 1 .. n \in SUBSET (1 .. n)
    OBVIOUS
  <2>2. 1 .. n # {}
    BY <2>1
  <2> HIDE DEF n
  <2> QED
    BY Zenon, <1>1, <2>1, <2>2, LeastImage
<1> DEFINE A == {i \in 1 .. n : score[i] = score[a]}
<1>4. PICK b \in A : \A j \in A : rank[b] <= rank[j]
  <2>1. A \in SUBSET (1 .. n) /\ A # {} /\ [i \in A |-> rank[i]] \in [A -> Int]
    BY <1>1
  <2> HIDE DEF A
  <2>2. PICK b \in A : \A j \in A : [i \in A |-> rank[i]][b] <= [i \in A |-> rank[i]][j]
    BY <2>1, LeastImage
  <2> QED
    BY <2>2
<1> DEFINE B == {i \in A : rank[i] = rank[b]}
<1>5. PICK c \in B : \A j \in B : c <= j
  <2>1. B \in SUBSET (1 .. n) /\ B # {} /\ [i \in B |-> i] \in [B -> Int]
    OBVIOUS
  <2> HIDE DEF B
  <2>2. PICK c \in B : \A j \in B : [i \in B |-> i][c] <= [i \in B |-> i][j]
    BY <2>1, LeastImage
  <2> QED
    BY <2>2
<1>6. ASSUME NEW j \in 1 .. n
      PROVE  ~(Better(list[j], list[c]) \/ (~Better(list[c], list[j]) /\ j < c))
  <2>1. /\ c \in 1 .. n /\ score[c] = score[a] /\ rank[c] = rank[b]
        /\ score[j] \in Int /\ rank[j] \in Int /\ score[c] \in Int /\ rank[c] \in Int
    BY <1>1
  <2>2. score[c] <= score[j]
    BY <1>3, <2>1
  <2>3. score[j] = score[c] => rank[c] <= rank[j]
    BY <1>4, <2>1
  <2>4. score[j] = score[c] /\ rank[j] = rank[c] => c <= j
    BY <1>5, <2>1
  <2>5. ~Better(list[j], list[c])
    BY <1>2, <2>1, <2>2, <2>3
  <2>6. CASE score[j] = score[c] /\ rank[j] = rank[c]
    <3>1. c \in Nat /\ j \in Nat /\ ~(j < c)
      BY <2>4, <2>6
    <3> QED
      BY <2>5, <3>1
  <2>7. CASE ~(score[j] = score[c] /\ rank[j] = rank[c])
    <3>1. Better(list[c], list[j])
      BY <1>2, <2>1, <2>2, <2>3, <2>7
    <3> QED
      BY <2>5, <3>1
  <2> QED
    BY <2>6, <2>7
<1> QED
  BY <1>6

(* The row a plan chooses is one of the attempt's and eligible.              *)
LEMMA ChosenIs ==
  ASSUME NEW rows, Len(rows) \in Nat, DOMAIN rows = 1 .. Len(rows),
         \A i \in 1 .. Len(rows) : rows[i].job.rank \in Nat, PlanRow(rows).row # <<>>
  PROVE  \E i \in 1 .. Len(rows) : PlanRow(rows).row = <<rows[i]>> /\ Eligible(rows[i])
<1> DEFINE S == {i \in DOMAIN rows : rows[i].scored}
           rated == [k \in DOMAIN Ascending(S) |-> rows[Ascending(S)[k]]]
           T == {i \in DOMAIN rated : Eligible(rated[i])}
           able == [k \in DOMAIN Ascending(T) |-> rated[Ascending(T)[k]]]
           Earlier(j, i) == Better(able[j], able[i]) \/ (~Better(able[i], able[j]) /\ j < i)
           before == {p \in (DOMAIN able) \X (DOMAIN able) : Earlier(p[1], p[2])}
           leader == Arranged(able, before)[1]
<1>1. PlanRow(rows).row # <<>> => able # <<>> /\ PlanRow(rows).row = <<leader>>
  BY DEF PlanRow, Picked, Sorted
<1>2. /\ Len(rated) \in Nat /\ DOMAIN rated = 1 .. Len(rated)
      /\ \A k \in 1 .. Len(rated) : \E i \in 1 .. Len(rows) : rated[k] = rows[i]
  <2>1. S \in SUBSET (1 .. Len(rows))
    OBVIOUS
  <2> DEFINE values == {rows[Ascending(S)[k]] : k \in DOMAIN Ascending(S)}
  <2>2. PicksPlaces(rated, rows, S)
    <3>1. rated \in [DOMAIN Ascending(S) -> values]
      OBVIOUS
    <3>2. \A k \in DOMAIN Ascending(S) : rated[k] = rows[Ascending(S)[k]]
      OBVIOUS
    <3> HIDE DEF S, rated, values
    <3> QED
      BY <3>1, <3>2 DEF PicksPlaces
  <2>3. /\ Len(rated) \in Nat /\ DOMAIN rated = 1 .. Len(rated)
        /\ \A k \in 1 .. Len(rated) : \E i \in S : rated[k] = rows[i]
    <3> HIDE DEF S, rated, values
    <3>1. /\ Len(rated) \in Nat /\ DOMAIN rated = 1 .. Len(rated)
          /\ TakenFrom(rated, rows, S)
      BY Zenon, <2>1, <2>2, PlacesPicked
    <3> QED
      BY <3>1 DEF TakenFrom
  <2>4. \A i \in S : i \in 1 .. Len(rows)
    BY <2>1
  <2> HIDE DEF S, rated
  <2> QED
    BY Zenon, <2>3, <2>4
<1> HIDE DEF rated
<1>3. /\ Len(able) \in Nat /\ DOMAIN able = 1 .. Len(able) /\ (able # <<>> => Len(able) # 0)
      /\ \A k \in 1 .. Len(able) : \E i \in T : able[k] = rated[i]
  <2>1. T \in SUBSET (1 .. Len(rated))
    BY <1>2
  <2> DEFINE values == {rated[Ascending(T)[k]] : k \in DOMAIN Ascending(T)}
  <2>2. PicksPlaces(able, rated, T)
    <3>1. able \in [DOMAIN Ascending(T) -> values]
      OBVIOUS
    <3>2. \A k \in DOMAIN Ascending(T) : able[k] = rated[Ascending(T)[k]]
      OBVIOUS
    <3> HIDE DEF T, able, values
    <3> QED
      BY <3>1, <3>2 DEF PicksPlaces
  <2>3. Len(rated) \in Nat
    BY <1>2
  <2> HIDE DEF T, able, values
  <2>4. /\ Len(able) \in Nat /\ DOMAIN able = 1 .. Len(able) /\ (able # <<>> => Len(able) # 0)
        /\ TakenFrom(able, rated, T)
    BY Zenon, <2>1, <2>2, <2>3, PlacesPicked
  <2> QED
    BY <2>4 DEF TakenFrom
<1>4. \A k \in 1 .. Len(able) : \E i \in 1 .. Len(rows) : able[k] = rows[i] /\ Eligible(rows[i])
  <2> TAKE k \in 1 .. Len(able)
  <2>1. PICK i \in T : able[k] = rated[i]
    BY <1>3
  <2>2. i \in 1 .. Len(rated) /\ Eligible(rated[i])
    BY <1>2
  <2>3. PICK m \in 1 .. Len(rows) : rated[i] = rows[m]
    BY <1>2, <2>2
  <2> QED
    BY <2>1, <2>2, <2>3
<1> HIDE DEF able
<1>5. \A k \in 1 .. Len(able) : able[k].outcome.score \in Int /\ able[k].job.rank \in Nat
  BY <1>4 DEF Eligible
<1>6. Len(able) \in Nat \ {0}
  BY <1>1, <1>3
<1>7. PICK i \in 1 .. Len(able) : \A j \in 1 .. Len(able) : ~Earlier(j, i)
  BY <1>5, <1>6, BestExists
<1>8. \A j \in DOMAIN able : <<j, i>> \notin before
  BY <1>3, <1>7
<1>9. \E k \in 1 .. Len(able) : leader = able[k]
  <2>1. \E k \in DOMAIN able : \A j \in DOMAIN able : <<j, k>> \notin before
    BY <1>3, <1>8
  <2>2. leader = Arranged(able, before)[1]
    OBVIOUS
  <2>3. DOMAIN able = 1 .. Len(able)
    BY <1>3
  <2> HIDE DEF before, leader
  <2> QED
    BY Zenon, <1>6, <2>1, <2>2, <2>3, FirstArranged
<1> QED
  BY <1>1, <1>4, <1>9

-----------------------------------------------------------------------------
(* ResetPipeline: each file says of a registration what the scan of the      *)
(* window made of it.                                                        *)

Registered(outcome, seed, t) ==
    /\ Distance(NearestScan(t), t) <= MaxScanDiff
    /\ outcome = field[NearestScan(t)][seed]
    /\ outcome.target

ScansGated == scans # NoFile => \A k \in 1 .. Len(scans) :
    /\ scans[k].scan = NearestScan(scans[k].job.trigger)
    /\ scans[k].found => Distance(NearestScan(scans[k].job.trigger), scans[k].job.trigger) <= MaxScanDiff
ScoresGated == scores # NoFile => \A k \in 1 .. Len(scores) :
    /\ scores[k].scored => Registered(scores[k].outcome, scores[k].job.seed, scores[k].job.trigger)
    /\ scores[k].gate => Gate(scores[k].outcome)
PlanGated == plan # NoFile => \A k \in 1 .. Len(plan) : plan[k].row # <<>> =>
    LET r == plan[k].row[1]
    IN  Registered(r.outcome, r.job.seed, plan[k].trigger) /\ Gate(r.outcome)
CommandsGated == commands # NoFile => \A k \in 1 .. Len(commands) : commands[k].generated =>
    /\ Registered(commands[k].pose[2], commands[k].pose[1], commands[k].stamp)
    /\ Gate(commands[k].pose[2])
SentGated == \A s \in sent :
    /\ \E t : Denotes(s.attempt, t) /\ Registered(s.pose[2], s.pose[1], t)
    /\ Gate(s.pose[2])

GatedInv == ScansGated /\ ScoresGated /\ PlanGated /\ CommandsGated /\ SentGated

(* What a script leaves alone, and the log as it grows, change nothing.      *)
LEMMA LeftGated ==
  ASSUME GatedInv, UNCHANGED field, \A a, t : Denotes(a, t) => Denotes(a, t)'
  PROVE  /\ UNCHANGED scans => ScansGated'
         /\ UNCHANGED scores => ScoresGated'
         /\ UNCHANGED plan => PlanGated'
         /\ UNCHANGED commands => CommandsGated'
         /\ UNCHANGED sent => SentGated'
<1>1. \A o, seed, t : Registered(o, seed, t)' <=> Registered(o, seed, t)
  BY DEF Registered
<1>2. \A o : Gate(o)' <=> Gate(o)
  OBVIOUS
<1>3. UNCHANGED scans => ScansGated'
  BY DEF GatedInv, ScansGated
<1>4. UNCHANGED scores => ScoresGated'
  BY <1>1 DEF GatedInv, ScoresGated
<1>5. UNCHANGED plan => PlanGated'
  BY <1>1 DEF GatedInv, PlanGated
<1>6. UNCHANGED commands => CommandsGated'
  BY <1>1 DEF GatedInv, CommandsGated
<1>7. UNCHANGED sent => SentGated'
  BY <1>1 DEF GatedInv, SentGated
<1> QED
  BY <1>3, <1>4, <1>5, <1>6, <1>7

LEMMA SameDenotes ==
  ASSUME UNCHANGED log
  PROVE  \A a, t : Denotes(a, t) => Denotes(a, t)'
BY DEF Denotes

(* What the rows of the files say, one field at a time.                      *)
LEMMA ResolvedIs ==
  ASSUME NEW job
  PROVE  /\ Resolved(job).job = job /\ Resolved(job).scan = NearestScan(job.trigger)
         /\ Resolved(job).found => Distance(NearestScan(job.trigger), job.trigger) <= MaxScanDiff
<1>1. PICK found : found = (Distance(NearestScan(job.trigger), job.trigger) <= MaxScanDiff)
  OBVIOUS
<1>2. Resolved(job) = [job |-> job, scan |-> NearestScan(job.trigger), found |-> found]
  BY Zenon, <1>1 DEF Resolved
<1>3. Resolved(job).job = job /\ Resolved(job).scan = NearestScan(job.trigger) /\ Resolved(job).found = found
  BY <1>2
<1> QED
  BY Zenon, <1>1, <1>3

LEMMA ScoredIs ==
  ASSUME NEW row, NEW o, o = field[row.scan][row.job.seed]
  PROVE  /\ Scored(row).job = row.job /\ Scored(row).outcome = o
         /\ Scored(row).scored => row.found /\ o.target
         /\ Scored(row).gate => Gate(o)
<1>1. PICK scored \in BOOLEAN : scored = (row.found /\ o.target)
  BY Zenon
<1>2. PICK gate \in BOOLEAN : gate = Gate(o)
  BY Zenon DEF Gate
<1>3. Scored(row) = [job |-> row.job, scored |-> scored, outcome |-> o, gate |-> gate]
  BY Zenon, <1>1, <1>2 DEF Scored
<1>4. /\ Scored(row).job = row.job /\ Scored(row).outcome = o
      /\ Scored(row).scored = scored /\ Scored(row).gate = gate
  BY <1>3
<1> QED
  BY Zenon, <1>1, <1>2, <1>4

LEMMA CommandIs ==
  ASSUME NEW p
  PROVE  /\ Command(p).attempt = p.attempt /\ Command(p).stamp = p.trigger
         /\ Command(p).generated => p.row # <<>>
         /\ p.row # <<>> => /\ Command(p).pose[1] = p.row[1].job.seed
                            /\ Command(p).pose[2] = p.row[1].outcome
<1>1. PICK generated \in BOOLEAN : generated = (p.row # <<>>)
  BY Zenon
<1>2. Command(p).attempt = p.attempt /\ Command(p).stamp = p.trigger
  BY DEF Command
<1>3. Command(p).generated = generated
  <2>1. PICK order : order = IF p.row = <<>> THEN "" ELSE p.row[1].job.order
    OBVIOUS
  <2>2. PICK pose_1 : pose_1 = IF p.row = <<>> THEN <<>> ELSE <<p.row[1].job.seed, p.row[1].outcome>>
    OBVIOUS
  <2>3. Command(p) = [attempt |-> p.attempt, stamp |-> p.trigger, dry |-> TRUE, generated |-> generated,
                      source |-> p.source, order |-> order, pose |-> pose_1]
    BY Zenon, <1>1, <2>1, <2>2 DEF Command
  <2> QED
    BY <2>3
<1>4. p.row # <<>> => Command(p).pose = <<p.row[1].job.seed, p.row[1].outcome>>
  BY DEF Command
<1>5. p.row # <<>> => Command(p).pose[1] = p.row[1].job.seed /\ Command(p).pose[2] = p.row[1].outcome
  BY <1>4
<1> QED
  BY Zenon, <1>1, <1>2, <1>3, <1>5

LEMMA ScansGatedStep ==
  ASSUME PipelineInv, GatedInv, NEW overwrite, ResolveScans(overwrite)
  PROVE  GatedInv'
<1>1. /\ UNCHANGED <<field, log, scores, plan, commands, sent>>
      /\ jobs # NoFile /\ scans' = [k \in 1 .. Len(jobs) |-> Resolved(jobs[k])]
  BY DEF ResolveScans, Sizes
<1>2. Len(jobs) \in Nat
  BY <1>1 DEF PipelineInv, JobsDenote
<1>3. Len(scans') = Len(jobs) /\ \A k \in 1 .. Len(jobs) : scans'[k] = Resolved(jobs[k])
  BY <1>1, <1>2
<1>4. ASSUME NEW k \in 1 .. Len(jobs)
      PROVE  /\ scans'[k].scan = NearestScan(scans'[k].job.trigger)
             /\ scans'[k].found =>
                  Distance(NearestScan(scans'[k].job.trigger), scans'[k].job.trigger) <= MaxScanDiff
  <2>1. PICK row : row = scans'[k]
    OBVIOUS
  <2>2. /\ row.job = jobs[k] /\ row.scan = NearestScan(jobs[k].trigger)
        /\ row.found => Distance(NearestScan(jobs[k].trigger), jobs[k].trigger) <= MaxScanDiff
    BY Zenon, <1>3, <2>1, ResolvedIs
  <2> QED
    BY Zenon, <2>1, <2>2
<1>5. ScansGated'
  BY Zenon, <1>3, <1>4 DEF ScansGated
<1> QED
  BY <1>1, <1>5, SameDenotes, LeftGated DEF GatedInv

LEMMA ScoresGatedStep ==
  ASSUME PipelineInv, GatedInv, ScoreJobs
  PROVE  GatedInv'
<1>1. /\ UNCHANGED <<field, log, scans, plan, commands, sent>>
      /\ scans # NoFile /\ scores' = [k \in 1 .. Len(scans) |-> Scored(scans[k])]
  BY DEF ScoreJobs, Sizes
<1>2. Len(scans) \in Nat
  BY <1>1 DEF PipelineInv, ScansDenote
<1>3. Len(scores') = Len(scans) /\ \A k \in 1 .. Len(scans) : scores'[k] = Scored(scans[k])
  BY <1>1, <1>2
<1>4. \A o, seed, t : Registered(o, seed, t)' <=> Registered(o, seed, t)
  BY <1>1 DEF Registered
<1>5. ASSUME NEW k \in 1 .. Len(scans)
      PROVE  (/\ scores[k].scored => Registered(scores[k].outcome, scores[k].job.seed, scores[k].job.trigger)
              /\ scores[k].gate => Gate(scores[k].outcome))'
  <2>1. PICK o : o = field[scans[k].scan][scans[k].job.seed]
    OBVIOUS
  <2>2. PICK row : row = scores'[k]
    OBVIOUS
  <2>3. /\ row.job = scans[k].job /\ row.outcome = o
        /\ row.scored => scans[k].found /\ o.target
        /\ row.gate => Gate(o)
    BY Zenon, <1>3, <2>1, <2>2, ScoredIs
  <2>4. /\ scans[k].scan = NearestScan(scans[k].job.trigger)
        /\ scans[k].found => Distance(NearestScan(scans[k].job.trigger), scans[k].job.trigger) <= MaxScanDiff
    BY <1>1 DEF GatedInv, ScansGated
  <2>5. row.scored => Registered(row.outcome, row.job.seed, row.job.trigger)
    BY Zenon, <2>1, <2>3, <2>4 DEF Registered
  <2>6. row.gate => Gate(row.outcome)
    BY Zenon, <2>3
  <2>7. row.scored => Registered(row.outcome, row.job.seed, row.job.trigger)'
    BY Zenon, <1>4, <2>5
  <2> QED
    BY Zenon, <2>2, <2>6, <2>7
<1>6. ScoresGated'
  BY Zenon, <1>3, <1>5 DEF ScoresGated
<1> QED
  BY <1>1, <1>6, SameDenotes, LeftGated DEF GatedInv

(* The rows of an attempt are all of its window.                             *)
LEMMA RowsOfAre ==
  ASSUME Len(scores) \in Nat, DOMAIN scores = 1 .. Len(scores), NEW a
  PROVE  /\ Len(RowsOf(a)) \in Nat /\ DOMAIN RowsOf(a) = 1 .. Len(RowsOf(a))
         /\ \A k \in 1 .. Len(RowsOf(a)) : \E i \in 1 .. Len(scores) :
               RowsOf(a)[k] = scores[i] /\ scores[i].job.attempt = a
<1> DEFINE S == {i \in DOMAIN scores : scores[i].job.attempt = a}
<1>1. RowsOf(a) = [n \in DOMAIN Ascending(S) |-> scores[Ascending(S)[n]]]
  BY DEF RowsOf, Picked
<1>2. S \in SUBSET (1 .. Len(scores)) /\ \A i \in S : scores[i].job.attempt = a
  OBVIOUS
<1> DEFINE values == {scores[Ascending(S)[k]] : k \in DOMAIN Ascending(S)}
<1>3. PICK picked : picked = RowsOf(a)
  OBVIOUS
<1>4. /\ picked \in [DOMAIN Ascending(S) -> values]
      /\ \A k \in DOMAIN Ascending(S) : picked[k] = scores[Ascending(S)[k]]
  BY <1>1, <1>3
<1> HIDE DEF S, values
<1> PicksPlaces(picked, scores, S)
  BY <1>4 DEF PicksPlaces
<1>5. /\ Len(picked) \in Nat /\ DOMAIN picked = 1 .. Len(picked)
      /\ TakenFrom(picked, scores, S)
  BY Zenon, <1>2, PlacesPicked
<1> QED
  BY <1>2, <1>3, <1>5 DEF TakenFrom

LEMMA PlanGatedStep ==
  ASSUME PipelineInv, GatedInv, NEW overwrite, SelectCandidates(overwrite)
  PROVE  GatedInv'
<1> DEFINE S == {scores[k].job.attempt : k \in 1 .. Len(scores)}
           named == Ascending(S)
<1>1. /\ UNCHANGED <<field, log, scans, scores, commands, sent>>
      /\ scores # NoFile /\ plan' = [k \in 1 .. Len(named) |-> PlanRow(RowsOf(named[k]))]
  BY DEF SelectCandidates, Sizes
<1>2. /\ Len(scores) \in Nat /\ DOMAIN scores = 1 .. Len(scores)
      /\ \A k \in 1 .. Len(scores) :
            Denotes(scores[k].job.attempt, scores[k].job.trigger) /\ scores[k].job.rank \in Nat
  BY <1>1 DEF PipelineInv, ScoresDenote
<1>3. Len(named) \in Nat /\ \A k \in 1 .. Len(named) : named[k] \in S
  <2>1. Len(Triggers(log)) \in Nat /\ S \in SUBSET (1 .. Len(Triggers(log)))
    BY <1>2, TriggersDenote DEF PipelineInv, Denotes, Sizes
  <2>2. S \in SUBSET Int /\ IsFiniteSet(S)
    <3>1. IsFiniteSet(1 .. Len(Triggers(log))) /\ S \in SUBSET Int
      BY <2>1, FS_Interval
    <3> HIDE DEF S
    <3> QED
      BY <2>1, <3>1, FS_Subset
  <2> HIDE DEF S
  <2>3. named \in Seq(S)
    BY <2>2, AscendingIs
  <2> QED
    BY <2>3, LenProperties, ElementOfSeq
<1>4. ASSUME NEW a \in S, PlanRow(RowsOf(a)).row # <<>>
      PROVE  LET r == PlanRow(RowsOf(a)).row[1]
             IN  Registered(r.outcome, r.job.seed, PlanRow(RowsOf(a)).trigger) /\ Gate(r.outcome)
  <2>1. PICK rows : rows = RowsOf(a)
    OBVIOUS
  <2>2. /\ Len(rows) \in Nat /\ DOMAIN rows = 1 .. Len(rows)
        /\ \A k \in 1 .. Len(rows) : \E i \in 1 .. Len(scores) :
              rows[k] = scores[i] /\ scores[i].job.attempt = a
    BY <1>2, <2>1, RowsOfAre
  <2>3. PICK k \in 1 .. Len(rows) : PlanRow(rows).row = <<rows[k]>> /\ Eligible(rows[k])
    <3>1. \A k \in 1 .. Len(rows) : rows[k].job.rank \in Nat
      BY <1>2, <2>2
    <3> QED
      BY <1>4, <2>1, <2>2, <3>1, ChosenIs
  <2>4. PICK i \in 1 .. Len(scores) : rows[k] = scores[i] /\ scores[i].job.attempt = a
    BY <2>2
  <2>5. PICK m \in 1 .. Len(scores) : rows[1] = scores[m] /\ scores[m].job.attempt = a
    <3>1. 1 \in 1 .. Len(rows)
      BY <2>2
    <3> QED
      BY <2>2, <3>1
  <2>6. PlanRow(rows).trigger = scores[i].job.trigger
    <3>1. PlanRow(rows).trigger = scores[m].job.trigger
      BY <2>5, PlanRowNames
    <3>2. scores[m].job.trigger = scores[i].job.trigger
      BY <1>2, <2>4, <2>5 DEF Denotes
    <3> QED
      BY <3>1, <3>2
  <2>7. scores[i].scored /\ scores[i].gate
    BY <2>3, <2>4 DEF Eligible
  <2>8. /\ Registered(scores[i].outcome, scores[i].job.seed, scores[i].job.trigger)
        /\ Gate(scores[i].outcome)
    BY <1>1, <2>7 DEF GatedInv, ScoresGated
  <2>9. PlanRow(rows).row[1] = scores[i]
    BY <2>3, <2>4
  <2> QED
    BY <2>1, <2>6, <2>8, <2>9
<1> HIDE DEF S, named
<1>5. Len(plan') = Len(named) /\ \A k \in 1 .. Len(named) : plan'[k] = PlanRow(RowsOf(named[k]))
  BY <1>1, <1>3
<1>6. \A o, seed, t : Registered(o, seed, t)' <=> Registered(o, seed, t)
  BY <1>1 DEF Registered
<1>7. PlanGated'
  BY <1>3, <1>4, <1>5, <1>6 DEF PlanGated
<1> QED
  BY <1>1, <1>7, SameDenotes, LeftGated DEF GatedInv

LEMMA CommandsGatedStep ==
  ASSUME PipelineInv, GatedInv, NEW overwrite, MakeCommands(overwrite)
  PROVE  GatedInv'
<1>1. /\ UNCHANGED <<field, log, scans, scores, plan, sent>>
      /\ plan # NoFile /\ commands' = [k \in 1 .. Len(plan) |-> Command(plan[k])]
  BY DEF MakeCommands, Sizes
<1>2. Len(plan) \in Nat
  BY <1>1 DEF PipelineInv, PlanDenotes
<1>3. Len(commands') = Len(plan) /\ \A k \in 1 .. Len(plan) : commands'[k] = Command(plan[k])
  BY <1>1, <1>2
<1>4. \A o, seed, t : Registered(o, seed, t)' <=> Registered(o, seed, t)
  BY <1>1 DEF Registered
<1>5. ASSUME NEW k \in 1 .. Len(plan)
      PROVE  (commands[k].generated => /\ Registered(commands[k].pose[2], commands[k].pose[1], commands[k].stamp)
                                       /\ Gate(commands[k].pose[2]))'
  <2>1. PICK command : command = commands'[k]
    OBVIOUS
  <2>2. PICK r : r = plan[k].row[1]
    OBVIOUS
  <2>3. command.generated => /\ plan[k].row # <<>> /\ command.stamp = plan[k].trigger
                             /\ command.pose[1] = r.job.seed /\ command.pose[2] = r.outcome
    BY Zenon, <1>3, <2>1, <2>2, CommandIs
  <2>4. plan[k].row # <<>> => Registered(r.outcome, r.job.seed, plan[k].trigger) /\ Gate(r.outcome)
    BY <1>1, <2>2 DEF GatedInv, PlanGated
  <2>5. command.generated => /\ Registered(command.pose[2], command.pose[1], command.stamp)'
                             /\ Gate(command.pose[2])
    BY Zenon, <1>4, <2>3, <2>4
  <2> QED
    BY Zenon, <2>1, <2>5
<1>6. CommandsGated'
  BY Zenon, <1>3, <1>5 DEF CommandsGated
<1> QED
  BY <1>1, <1>6, SameDenotes, LeftGated DEF GatedInv

LEMMA PublishGatedStep ==
  ASSUME PipelineInv, GatedInv, NEW execute, NEW waived, NEW overwrite, Publish(execute, waived, overwrite)
  PROVE  GatedInv'
<1>1. /\ UNCHANGED <<field, log, scans, scores, plan, commands>>
      /\ commands # NoFile
  BY DEF Publish
<1>2. PICK out \in SUBSET {k \in 1 .. Len(commands) : commands[k].generated} :
         sent' = sent \cup {[pose |-> commands[k].pose, attempt |-> commands[k].attempt,
                             at |-> Len(log)] : k \in out}
  BY DEF Publish, Publishable, Sizes
<1>3. \A k \in 1 .. Len(commands) : Denotes(commands[k].attempt, commands[k].stamp)
  BY <1>1 DEF PipelineInv, CommandsDenote
<1>4. ASSUME NEW k \in out
      PROVE  /\ Registered(commands[k].pose[2], commands[k].pose[1], commands[k].stamp)
             /\ Gate(commands[k].pose[2])
             /\ Denotes(commands[k].attempt, commands[k].stamp)
  BY <1>1, <1>3 DEF GatedInv, CommandsGated
<1>5. ASSUME NEW s \in sent' \ sent
      PROVE  (\E t : Denotes(s.attempt, t) /\ Registered(s.pose[2], s.pose[1], t)) /\ Gate(s.pose[2])
  <2>1. PICK k \in out : s = [pose |-> commands[k].pose, attempt |-> commands[k].attempt, at |-> Len(log)]
    BY <1>2
  <2>2. s.pose = commands[k].pose /\ s.attempt = commands[k].attempt
    BY <2>1
  <2> QED
    BY <1>4, <2>2
<1>6. \A o, seed, t : (Registered(o, seed, t)' <=> Registered(o, seed, t)) /\ (Denotes(o, t)' <=> Denotes(o, t))
  BY <1>1 DEF Registered, Denotes
<1>7. SentGated'
  BY <1>5, <1>6 DEF GatedInv, SentGated
<1> QED
  BY <1>1, <1>7, SameDenotes, LeftGated DEF GatedInv

LEMMA GatedStep ==
  ASSUME PipelineInv, GatedInv, [OfflineNext]_<<tool, vars, gatesVars, comparingVars, doctorVars>>
  PROVE  GatedInv'
<1>1. ASSUME UNCHANGED <<field, scans, scores, plan, commands, sent>>,
             \A a, t : Denotes(a, t) => Denotes(a, t)'
      PROVE  GatedInv'
  BY <1>1, LeftGated DEF GatedInv
<1>2. CASE UNCHANGED vars
  BY <1>1, <1>2, SameDenotes DEF vars, files
<1>3. CASE Report
  <2>1. PICK row \in Row : log' = Append(log, row)
    BY <1>3 DEF Report, Row
  <2>2. \A a, t : Denotes(a, t) => Denotes(a, t)'
    BY <2>1, DenotesGrows DEF PipelineInv
  <2> QED
    BY <1>1, <1>3, <2>2 DEF Report, files
<1>4. ASSUME NEW overwrite \in BOOLEAN, Script(overwrite) PROVE GatedInv'
  <2>1. CASE RouteGrid(overwrite) \/ MapGrid(overwrite) \/ BranchAndBound2D(overwrite) \/ Disabled(overwrite)
    BY <1>1, <2>1, SameDenotes DEF RouteGrid, MapGrid, BranchAndBound2D, MakeAttempts, Disabled
  <2>2. CASE \/ \E order \in {"candidate_index", "oracle_rank"} : MakeJobs(order, overwrite)
             \/ \E oracle \in BOOLEAN : ValidatePlan(oracle, overwrite) \/ ValidateCommands(oracle, overwrite)
             \/ Observe(overwrite)
    BY <1>1, <2>2, SameDenotes DEF MakeJobs, ValidatePlan, ValidateCommands, Observe
  <2>3. CASE ResolveScans(overwrite) \/ SelectCandidates(overwrite) \/ MakeCommands(overwrite)
    BY <2>3, ScansGatedStep, PlanGatedStep, CommandsGatedStep
  <2>4. ASSUME NEW execute, NEW waived, Publish(execute, waived, overwrite) PROVE GatedInv'
    BY <2>4, PublishGatedStep
  <2> QED
    BY <1>4, <2>1, <2>2, <2>3, <2>4 DEF Script
<1>5. (Next \/ UNCHANGED vars) => GatedInv'
  BY <1>2, <1>3, <1>4, ScoresGatedStep DEF Next
<1> QED
  BY <1>5 DEF OfflineNext

(* A pose that goes out was registered with a scan recorded near enough the  *)
(* window its attempt id names today, and that registration passed the gate: *)
(* in whatever order the scripts are run, whatever is waived, however often  *)
(* files are replaced and however long the log has grown.                    *)
THEOREM AlwaysPublishedIsGated == OfflineSpec => []PublishedIsGated
<1>1. OfflineInit => GatedInv
  BY DEF OfflineInit, Init, GatedInv, ScansGated, ScoresGated, PlanGated, CommandsGated, SentGated
<1>2. PipelineInv /\ [OfflineNext]_<<tool, vars, gatesVars, comparingVars, doctorVars>> => PipelineInv'
  BY PipelineStep
<1>3. PipelineInv /\ GatedInv /\ [OfflineNext]_<<tool, vars, gatesVars, comparingVars, doctorVars>> => GatedInv'
  BY GatedStep
<1>4. GatedInv => PublishedIsGated
  <2> SUFFICES ASSUME GatedInv, NEW s \in sent
               PROVE  LET asked == Triggers(log)[s.attempt]
                          outcome == s.pose[2]
                      IN  /\ s.attempt \in Sizes(Triggers(log))
                          /\ Distance(NearestScan(asked), asked) <= MaxScanDiff
                          /\ outcome = field[NearestScan(asked)][s.pose[1]]
                          /\ outcome.target /\ Gate(outcome)
    BY DEF PublishedIsGated
  <2>1. PICK t : Denotes(s.attempt, t) /\ Registered(s.pose[2], s.pose[1], t)
    BY DEF GatedInv, SentGated
  <2>2. Gate(s.pose[2])
    BY DEF GatedInv, SentGated
  <2> QED
    BY <2>1, <2>2 DEF Denotes, Registered
<1> QED
  BY <1>1, <1>2, <1>3, <1>4, PipelineStart, PTL DEF OfflineSpec

=============================================================================
