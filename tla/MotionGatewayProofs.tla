------------------------ MODULE MotionGatewayProofs ------------------------
(***************************************************************************)
(* Safety of the motion gateway for every value of its constants.  The     *)
(* inductive invariant IInv adds to the checked invariants that everything *)
(* in the pipeline, not only what the robot executes, is in the envelope.  *)
(***************************************************************************)
EXTENDS MotionGatewayRevocation, SequenceTheorems, TLAPS

Pipeline == /\ out \in Envelope /\ item \in Envelope /\ robot \in Envelope
            /\ queue \in Seq(Envelope)

IInv == TypeOK /\ Pipeline /\ CommandAfterArming /\ MotionNeedsArming

----------------------------------------------------------------------------

(* _put_latest keeps the queue a short sequence of velocities.              *)
LEMMA PutLatestType ==
  ASSUME NEW S, NEW q \in Seq(S), Len(q) <= QueueMax, NEW v \in S,
         NEW r \in PutLatest(q, v)
  PROVE  r \in Seq(S) /\ Len(r) <= QueueMax
<1>1. PICK k \in 0..Len(q) :
        r = IF Len(SubSeq(q, k + 1, Len(q))) < QueueMax
            THEN Append(SubSeq(q, k + 1, Len(q)), v)
            ELSE SubSeq(q, k + 1, Len(q))
  BY DEF PutLatest
<1>2. Len(q) \in Nat
  BY LenProperties
<1> DEFINE rest == SubSeq(q, k + 1, Len(q))
<1>3. rest \in Seq(S) /\ Len(rest) <= Len(q)
  BY <1>2, SubSeqProperties
<1>4. Append(rest, v) \in Seq(S) /\ Len(Append(rest, v)) = Len(rest) + 1
  BY <1>3, AppendProperties
<1>5. Len(rest) \in Nat
  BY <1>3, LenProperties
<1> QED
  BY <1>1, <1>2, <1>3, <1>4, <1>5 DEF QueueMax

(* An admissible velocity is a velocity, and so for queues of them.         *)
LEMMA EnvelopeIsVelocity ==
  Envelope \subseteq Velocity /\ Seq(Envelope) \subseteq Seq(Velocity)
<1>1. Envelope \subseteq Velocity
  BY LimitsAssumption DEF Envelope, Velocity
<1>2. ASSUME NEW q \in Seq(Envelope) PROVE q \in Seq(Velocity)
  BY <1>1
<1> QED
  BY <1>1, <1>2

(* The final requests are five and counted down to the last.                *)
LEMMA FinalsStep ==
  ASSUME TypeOK, Next
  PROVE  Finals'
<1>1. /\ zeros \in 0..5 /\ (worker = "final" => zeros > 0)
      /\ entered \in BOOLEAN /\ stopEvent \in BOOLEAN
  BY DEF TypeOK, Finals, FinalRequests
<1>2. entered' \in {entered, ~stopEvent, FALSE}
  BY DEF Next, Scripts, Bridge, Worker, Faults, ArmCheck, ArmTouch, Stop,
     StartRemove, StartAlreadyRunning, StartLaunch, OnCmd, Tick, Shutdown,
     JoinDone, JoinTerminate, WorkerReady, WorkerReturns, WorkerDequeue,
     WorkerGetTimeout, RobotReceives, FinalReceived, FinalReturns,
     OrphanSendsZero, BridgeKilled, WorkerFails, WorkerKilled, Elapse,
     WorkerStarts, WorkerEnds, workerVars
<1>3. zeros' \in 0..5 /\ (worker' = "final" => zeros' > 0)
  <2> USE <1>1 DEF FinalRequests
  <2>1. CASE Scripts
    BY <2>1 DEF Scripts, ArmCheck, ArmTouch, Stop, StartRemove,
       StartAlreadyRunning, StartLaunch, WorkerStarts, workerVars
  <2>2. CASE Bridge
    BY <2>2 DEF Bridge, OnCmd, Tick, Shutdown, JoinDone, JoinTerminate,
       WorkerEnds, workerVars
  <2>3. CASE WorkerReady \/ WorkerReturns
    BY <2>3 DEF WorkerReady, WorkerReturns, LoopTop
  <2>4. CASE WorkerDequeue \/ WorkerGetTimeout \/ RobotReceives
    BY <2>4 DEF WorkerDequeue, WorkerGetTimeout, RobotReceives
  <2>5. CASE FinalReceived \/ FinalReturns \/ OrphanSendsZero
    BY <2>5 DEF FinalReceived, FinalReturns, OrphanSendsZero, WorkerEnds,
       workerVars
  <2>6. CASE Faults
    BY <2>6 DEF Faults, BridgeKilled, WorkerFails, WorkerKilled, WorkerEnds,
       workerVars
  <2>7. CASE Elapse
    BY <2>7 DEF Elapse
  <2> QED
    BY <2>1, <2>2, <2>3, <2>4, <2>5, <2>6, <2>7 DEF Next, Worker
<1>4. entered' \in BOOLEAN
  BY <1>1, <1>2, Zenon
<1> QED
  BY <1>3, <1>4 DEF Finals, FinalRequests

(* What a tick leaves behind: the type of each variable it assigns, the     *)
(* envelope, the ramp, and what a nonzero result implies.                   *)
LEMMA TickStep ==
  ASSUME IInv, Tick
  PROVE  /\ IInv'
         /\ out' # Zero =>
              /\ out'.vx - out.vx \in -(DvPerUnit * DtCap)..(DvPerUnit * DtCap)
              /\ out'.wz - out.wz \in -(DwPerUnit * DtCap)..(DwPerUnit * DtCap)
<1> DEFINE rising  == token /\ ~wasArmed
           cmd     == CommandHeld(rising)
           settled == IF rising THEN 0 ELSE armedAge
           since   == IF rising THEN NoAge ELSE motionAge
           fresh   == cmd # NoCmd /\ latestAge <= CmdTimeout
           enabled == Enabled(settled, fresh)
           target  == IF enabled
                      THEN [vx |-> FiniteClamp(cmd.vx, 0, MaxVx),
                            wz |-> FiniteClamp(cmd.wz, -MaxWz, MaxWz)]
                      ELSE Zero
           moving  == target # Zero
           motion  == IF ~moving THEN NoAge
                      ELSE IF since = NoAge THEN 0 ELSE since
           goal    == IF motion # NoAge /\ motion < FirstMotion
                      THEN [vx |-> Lesser(target.vx, FirstMaxVx),
                            wz |-> FiniteClamp(target.wz, -FirstMaxWz,
                                               FirstMaxWz)]
                      ELSE target
           dt      == Lesser(tickAge, DtCap)
           dv      == DvPerUnit * dt
           dw      == DwPerUnit * dt
<1>1. /\ bridge = "running" /\ wasArmed' = token /\ armedAge' = settled
      /\ latest' = cmd /\ motionAge' = motion /\ tickAge' = 0
      /\ out' = IF enabled
                THEN [vx |-> FiniteClamp(goal.vx, out.vx - dv, out.vx + dv),
                      wz |-> FiniteClamp(goal.wz, out.wz - dw, out.wz + dw)]
                ELSE Zero
      /\ queue' \in PutLatest(queue, out')
      /\ UNCHANGED <<scriptVars, bridge, latestAge, stopEvent, workerVars,
                     orphan, robotVars>>
  BY Zenon DEF Tick
<1> USE DEF CommandHeld, Enabled
<1>2. enabled => cmd = latest /\ latest \in Commands
  BY DEF IInv, TypeOK
<1>3. target \in Envelope
  <2>1. CASE enabled
    <3>1. cmd.vx \in Int \cup {NonFinite} /\ cmd.wz \in Int \cup {NonFinite}
      BY <1>2, <2>1, CommandsAssumption
    <3> HIDE DEF cmd, enabled
    <3>2. FiniteClamp(cmd.vx, 0, MaxVx) \in 0..MaxVx
      BY <3>1, LimitsAssumption, CommandsAssumption DEF FiniteClamp
    <3>3. FiniteClamp(cmd.wz, -MaxWz, MaxWz) \in -MaxWz..MaxWz
      BY <3>1, LimitsAssumption, CommandsAssumption DEF FiniteClamp
    <3> QED
      BY <2>1, <3>2, <3>3 DEF Envelope
  <2>2. CASE ~enabled
    BY <2>2, LimitsAssumption DEF Envelope, Zero
  <2> QED
    BY <2>1, <2>2
<1>4. goal \in Envelope
  <2> HIDE DEF target, motion
  <2>1. Lesser(target.vx, FirstMaxVx) \in 0..MaxVx
    BY <1>3, LimitsAssumption DEF Envelope, Lesser
  <2>2. FiniteClamp(target.wz, -FirstMaxWz, FirstMaxWz) \in -MaxWz..MaxWz
    BY <1>3, LimitsAssumption, CommandsAssumption DEF Envelope, FiniteClamp
  <2> QED
    BY <1>3, <2>1, <2>2 DEF Envelope
<1>5. dt \in 0..DtCap
  BY TimingAssumption DEF IInv, TypeOK, Ages, Lesser
<1>6. /\ dv \in Nat /\ dv <= DvPerUnit * DtCap
      /\ dw \in Nat /\ dw <= DwPerUnit * DtCap
  <2> HIDE DEF dt
  <2> QED
    BY <1>5, LimitsAssumption, TimingAssumption
<1>7. out' \in Envelope
      /\ (out' # Zero => out'.vx - out.vx \in -dv..dv /\ out'.wz - out.wz \in -dw..dw)
  <2> HIDE DEF dv, dw, goal, enabled
  <2>1. CASE enabled
    <3>1. /\ out.vx \in 0..MaxVx /\ out.wz \in -MaxWz..MaxWz
          /\ goal.vx \in 0..MaxVx /\ goal.wz \in -MaxWz..MaxWz
      BY <1>4 DEF IInv, Pipeline, Envelope
    <3>2. /\ FiniteClamp(goal.vx, out.vx - dv, out.vx + dv) \in 0..MaxVx
          /\ FiniteClamp(goal.vx, out.vx - dv, out.vx + dv) - out.vx \in -dv..dv
      BY <1>6, <3>1, LimitsAssumption, CommandsAssumption DEF FiniteClamp
    <3>3. /\ FiniteClamp(goal.wz, out.wz - dw, out.wz + dw) \in -MaxWz..MaxWz
          /\ FiniteClamp(goal.wz, out.wz - dw, out.wz + dw) - out.wz \in -dw..dw
      BY <1>6, <3>1, LimitsAssumption, CommandsAssumption DEF FiniteClamp
    <3> DEFINE x == FiniteClamp(goal.vx, out.vx - dv, out.vx + dv)
               z == FiniteClamp(goal.wz, out.wz - dw, out.wz + dw)
    <3>4. out' = [vx |-> x, wz |-> z]
      BY <1>1, <2>1
    <3> HIDE DEF x, z
    <3>5. out'.vx = x /\ out'.wz = z
      BY <3>4
    <3>6. x \in 0..MaxVx /\ x - out.vx \in -dv..dv
      BY <3>2 DEF x
    <3>7. z \in -MaxWz..MaxWz /\ z - out.wz \in -dw..dw
      BY <3>3 DEF z
    <3> QED
      BY <3>4, <3>5, <3>6, <3>7 DEF Envelope
  <2>2. CASE ~enabled
    BY <1>1, <2>2, LimitsAssumption DEF Envelope, Zero
  <2> QED
    BY <2>1, <2>2
<1>8. queue' \in Seq(Envelope) /\ Len(queue') <= QueueMax
  <2>1. queue \in Seq(Envelope) /\ Len(queue) <= QueueMax
    BY DEF IInv, TypeOK, Pipeline
  <2>2. out' \in Envelope /\ queue' \in PutLatest(queue, out')
    BY <1>1, <1>7
  <2> QED
    BY <2>1, <2>2, PutLatestType
<1>9. motion \in {NoAge} \cup 0..FirstMotion /\ settled \in 0..ArmSettle
  <2> HIDE DEF moving
  <2> QED
    BY TimingAssumption DEF IInv, TypeOK, Ages, NoAge
<1>10. TypeOK' /\ Pipeline'
  <2> HIDE DEF settled, motion
  <2>1. out' \in Velocity /\ queue' \in Seq(Velocity)
    BY <1>7, <1>8, EnvelopeIsVelocity
  <2> QED
    BY <1>1, <1>7, <1>8, <1>9, <2>1, FinalsStep, TimingAssumption
    DEF Next, Bridge, IInv, TypeOK, Pipeline, Ages, scriptVars, workerVars, robotVars
<1>11. CommandAfterArming'
  BY <1>1 DEF IInv, CommandAfterArming
<1>12. MotionNeedsArming'
  BY <1>1, <1>2, TimingAssumption DEF IInv, TypeOK, Ages, MotionNeedsArming
<1>13. out' # Zero =>
         /\ out'.vx - out.vx \in -(DvPerUnit * DtCap)..(DvPerUnit * DtCap)
         /\ out'.wz - out.wz \in -(DwPerUnit * DtCap)..(DwPerUnit * DtCap)
  <2> HIDE DEF dv, dw
  <2>1. DvPerUnit * DtCap \in Nat /\ DwPerUnit * DtCap \in Nat
    BY LimitsAssumption, TimingAssumption
  <2> DEFINE mv == DvPerUnit * DtCap
             mw == DwPerUnit * DtCap
  <2>2. mv \in Nat /\ mw \in Nat /\ dv <= mv /\ dw <= mw
    BY <1>6, <2>1
  <2> HIDE DEF mv, mw
  <2>3. out' # Zero => out'.vx - out.vx \in -mv..mv /\ out'.wz - out.wz \in -mw..mw
    BY <1>6, <1>7, <2>2
  <2> QED
    BY <2>3 DEF mv, mw
<1> QED
  BY <1>10, <1>11, <1>12, <1>13 DEF IInv

(* The values a new or ended bridge process has.                            *)
LEMMA Forgotten ==
  ASSUME ForgetBridge
  PROVE  /\ latest' \in Commands \cup {NoCmd} /\ wasArmed' \in BOOLEAN
         /\ latestAge' \in 0..(CmdTimeout + 1) /\ armedAge' \in 0..ArmSettle
         /\ motionAge' \in {NoAge} \cup 0..FirstMotion /\ tickAge' \in Nat
         /\ out' \in Envelope /\ out' \in Velocity /\ out' = Zero
         /\ CommandAfterArming' /\ MotionNeedsArming'
<1>1. out' = Zero /\ Zero \in Envelope /\ Zero \in Velocity
  BY LimitsAssumption DEF ForgetBridge, Envelope, Velocity, Zero
<1>2. CommandAfterArming' /\ MotionNeedsArming'
  BY DEF ForgetBridge, CommandAfterArming, MotionNeedsArming
<1>3. wasArmed' \in BOOLEAN /\ latest' \in Commands \cup {NoCmd}
  BY DEF ForgetBridge
<1>4. /\ latestAge' \in 0..(CmdTimeout + 1) /\ armedAge' \in 0..ArmSettle
      /\ motionAge' \in {NoAge} \cup 0..FirstMotion /\ tickAge' \in Nat
  BY TimingAssumption DEF ForgetBridge
<1> QED
  BY <1>1, <1>2, <1>3, <1>4

(* Everything but ticks and time: no such step makes the limited velocity   *)
(* nonzero or puts anything inadmissible into the pipeline.                 *)
LEMMA OtherSteps ==
  ASSUME IInv, Scripts \/ Bridge \/ Worker \/ Faults, ~Tick
  PROVE  IInv' /\ (out' = out \/ out' = Zero)
<1> USE DEF IInv, Pipeline, CommandAfterArming, MotionNeedsArming
<1> USE LimitsAssumption, TimingAssumption, CommandsAssumption
<1>0. Zero \in Envelope /\ Zero \in Velocity
  BY DEF Zero, Envelope, Velocity
<1>00. Finals'
  BY FinalsStep DEF Next
<1> USE <1>00
<1>1. CASE ArmCheck \/ ArmTouch \/ Stop \/ StartRemove \/ StartAlreadyRunning
  <2>1. /\ token' \in BOOLEAN /\ armScript' \in {"idle", "checked"}
        /\ startScript' \in {"idle", "removed"}
    BY <1>1 DEF ArmCheck, ArmTouch, Stop, StartRemove, StartAlreadyRunning,
       TypeOK
  <2>2. UNCHANGED <<bridgeVars, queue, stopEvent, workerVars, orphan, robotVars>>
    BY <1>1 DEF ArmCheck, ArmTouch, Stop, StartRemove, StartAlreadyRunning
  <2> QED
    BY <2>1, <2>2
    DEF TypeOK, Ages, bridgeVars, cmdVars, tickVars, workerVars, robotVars
<1>2. CASE StartLaunch
  <2>1. /\ token' \in BOOLEAN /\ armScript' \in {"idle", "checked"}
        /\ startScript' \in {"idle", "removed"} /\ stopEvent' \in BOOLEAN
        /\ orphan' \in BOOLEAN
    BY <1>2 DEF StartLaunch, TypeOK
  <2>2. queue' \in Seq(Envelope) /\ queue' \in Seq(Velocity) /\ Len(queue') <= QueueMax
    BY <1>2 DEF StartLaunch, QueueMax
  <2>3. ForgetBridge
    BY <1>2 DEF StartLaunch
  <2> QED
    BY <1>0, <1>2, <2>1, <2>2, <2>3, Forgotten
    DEF StartLaunch, WorkerStarts, TypeOK, Ages, robotVars
<1>3. ASSUME NEW c \in Commands, OnCmd(c)
      PROVE  IInv' /\ (out' = out \/ out' = Zero)
  BY <1>3 DEF OnCmd, TypeOK, Ages, Lesser, scriptVars, tickVars, workerVars,
     robotVars
<1>4. CASE Shutdown
  <2>1. queue' \in PutLatest(queue, Zero)
    BY <1>4 DEF Shutdown
  <2>2. queue' \in Seq(Envelope) /\ Len(queue') <= QueueMax
    BY <1>0, <2>1, PutLatestType DEF TypeOK
  <2> QED
    BY <1>4, <2>2, EnvelopeIsVelocity, Forgotten
    DEF Shutdown, TypeOK, Ages, scriptVars, workerVars, robotVars
<1>5. CASE JoinDone \/ JoinTerminate \/ BridgeKilled
  BY <1>0, <1>5, Forgotten DEF JoinDone, JoinTerminate, BridgeKilled,
     WorkerEnds, TypeOK, Ages, scriptVars, workerVars, robotVars
<1>6. CASE WorkerReady \/ WorkerReturns
  BY <1>6 DEF WorkerReady, WorkerReturns, LoopTop, TypeOK, Ages,
     scriptVars, bridgeVars, cmdVars, tickVars, robotVars
<1>7. CASE WorkerDequeue
  <2>1. PICK k \in 1..Len(queue) :
          /\ item' \in {queue[k], Zero}
          /\ queue' = SubSeq(queue, k + 1, Len(queue))
    BY <1>7 DEF WorkerDequeue
  <2>2. queue[k] \in Envelope /\ Len(queue) \in Nat
    BY <2>1, ElementOfSeq, LenProperties
  <2>3. queue' \in Seq(Envelope) /\ Len(queue') <= QueueMax
    BY <2>1, <2>2, SubSeqProperties DEF TypeOK, QueueMax
  <2>4. item' \in Envelope
    BY <1>0, <2>1, <2>2
  <2> QED
    BY <1>7, <2>3, <2>4, EnvelopeIsVelocity
    DEF WorkerDequeue, TypeOK, Ages, scriptVars, bridgeVars, cmdVars, tickVars,
        robotVars
<1>8. CASE WorkerGetTimeout \/ WorkerFails \/ WorkerKilled
  BY <1>0, <1>8 DEF WorkerGetTimeout, WorkerFails, WorkerKilled, WorkerEnds,
     TypeOK, Ages, scriptVars, bridgeVars, cmdVars, tickVars, robotVars
<1>9. CASE RobotReceives \/ FinalReceived \/ OrphanSendsZero
  BY <1>0, <1>9 DEF RobotReceives, FinalReceived, OrphanSendsZero, TypeOK, Ages,
     scriptVars, bridgeVars, cmdVars, tickVars, workerVars, robotVars
<1>10. CASE FinalReturns
  BY <1>0, <1>10 DEF FinalReturns, WorkerEnds, TypeOK, Ages,
     scriptVars, bridgeVars, cmdVars, tickVars, robotVars
<1> QED
  BY <1>1, <1>2, <1>3, <1>4, <1>5, <1>6, <1>7, <1>8, <1>9, <1>10
  DEF Scripts, Bridge, Worker, Faults

(* Time passing ages commands and arming alike.                             *)
LEMMA ElapseStep ==
  ASSUME IInv, Elapse
  PROVE  IInv' /\ out' = out
<1> USE LimitsAssumption, TimingAssumption, CommandsAssumption
<1>0. Zero \in Envelope /\ Zero \in Velocity
  BY DEF Zero, Envelope, Velocity
<1>1. Ages' /\ Finals'
  BY FinalsStep DEF Next, IInv, TypeOK, Ages, Elapse, Older, NoAge, cmdVars
<1>2. TypeOK' /\ Pipeline'
  BY <1>0, <1>1 DEF IInv, TypeOK, Pipeline, Elapse, scriptVars
<1>3. CommandAfterArming'
  BY DEF IInv, TypeOK, Ages, CommandAfterArming, Elapse, Older, Lesser
<1>4. MotionNeedsArming'
  BY DEF IInv, TypeOK, Ages, MotionNeedsArming, Elapse, Older
<1> QED
  BY <1>2, <1>3, <1>4 DEF IInv, Elapse

(* The inductive invariant holds in every reachable state.                  *)
LEMMA Invariance == Spec => []IInv
<1>1. Init => IInv
  <2> SUFFICES ASSUME Init PROVE IInv
    OBVIOUS
  <2>1. queue \in Seq(Envelope) /\ queue \in Seq(Velocity) /\ Len(queue) <= QueueMax
    BY DEF Init, QueueMax
  <2>2. Zero \in Envelope /\ Zero \in Velocity
    BY LimitsAssumption DEF Zero, Envelope, Velocity
  <2>3. Ages /\ Finals
    <3>1. entered \in BOOLEAN
      BY DEF Init
    <3> QED
      BY <3>1, TimingAssumption DEF Init, Ages, Finals, FinalRequests
  <2>4. TypeOK
    BY <2>1, <2>2, <2>3 DEF Init, TypeOK
  <2>5. CommandAfterArming /\ MotionNeedsArming
    BY DEF Init, CommandAfterArming, MotionNeedsArming
  <2> QED
    BY <2>1, <2>2, <2>4, <2>5 DEF Init, IInv, Pipeline
<1>2. IInv /\ [Next]_vars => IInv'
  <2> SUFFICES ASSUME IInv, [Next]_vars PROVE IInv'
    OBVIOUS
  <2>1. CASE Tick
    BY <2>1, TickStep
  <2>2. CASE (Scripts \/ Bridge \/ Worker \/ Faults) /\ ~Tick
    BY <2>2, OtherSteps
  <2>3. CASE Elapse
    BY <2>3, ElapseStep
  <2>4. CASE UNCHANGED vars
    BY <2>4 DEF IInv, TypeOK, Ages, Finals, Pipeline, CommandAfterArming,
       MotionNeedsArming, vars, scriptVars, bridgeVars, cmdVars, tickVars,
       workerVars, robotVars
  <2> QED
    BY <2>1, <2>2, <2>3, <2>4 DEF Next
<1> QED
  BY <1>1, <1>2, PTL DEF Spec

(* Type correctness.                                                        *)
THEOREM TypeCorrect == Spec => []TypeOK
BY Invariance, PTL DEF IInv

(* Nothing in the pipeline ever leaves the speed envelope.                  *)
THEOREM AlwaysLimited == Spec => []Limited
<1>1. IInv => Limited
  BY ElementOfSeq DEF IInv, Pipeline, Limited
<1> QED
  BY <1>1, Invariance, PTL

(* No command from before an arming edge is kept across it.                 *)
THEOREM AlwaysCommandAfterArming == Spec => []CommandAfterArming
BY Invariance, PTL DEF IInv

(* The bridge asks for motion only when armed, settled and recently         *)
(* commanded.                                                               *)
THEOREM AlwaysMotionNeedsArming == Spec => []MotionNeedsArming
BY Invariance, PTL DEF IInv

(* The bridge's velocity ramps or drops to zero, and does nothing else.     *)
THEOREM AlwaysBridgeRamp == Spec => BridgeRamp
<1> DEFINE Ramp == out' # Zero =>
       /\ out'.vx - out.vx \in -(DvPerUnit * DtCap)..(DvPerUnit * DtCap)
       /\ out'.wz - out.wz \in -(DwPerUnit * DtCap)..(DwPerUnit * DtCap)
<1>1. IInv /\ [Next]_vars => [Ramp]_vars
  <2> SUFFICES ASSUME IInv, Next PROVE Ramp
    OBVIOUS
  <2>1. CASE Tick
    BY <2>1, TickStep
  <2>2. CASE ~Tick
    <3>1. out' = out \/ out' = Zero
      BY <2>2, OtherSteps, ElapseStep DEF Next
    <3>2. /\ out.vx - out.vx = 0 /\ out.wz - out.wz = 0
          /\ DvPerUnit * DtCap \in Nat /\ DwPerUnit * DtCap \in Nat
      BY LimitsAssumption, TimingAssumption DEF IInv, TypeOK, Velocity
    <3> QED
      BY <3>1, <3>2
  <2> QED
    BY <2>1, <2>2
<1> QED
  BY <1>1, Invariance, PTL DEF Spec, BridgeRamp
----------------------------------------------------------------------------
(* Time.  The two facts the code leaves to its constants, which the timed   *)
(* theorems assume: the SDK set-up takes no longer than arming settles and  *)
(* one call lasts, and the join outlasts a call followed by the final       *)
(* requests, all of them timing out.                                        *)
InitIsPrompt  == InitLimit <= ArmSettle + RpcTimeout
JoinIsPatient == (FinalRequests + 1) * RpcTimeout < JoinTimeout

(* No phase of the worker outlasts its limit.                               *)
Phased ==
  /\ worker = "init" => phaseAge <= InitLimit
  /\ worker \in {"call", "acked", "final"} => phaseAge <= RpcTimeout

(* Time of a worker that was in its loop when asked to stop: that for the   *)
(* call it was in, and that of the final requests it has finished.          *)
Spent == (FinalRequests + 1 - zeros) * RpcTimeout

(* Once asked to stop, a worker in its loop finishes the call it is in and  *)
(* then its final requests; if it was waiting, the bridge's zero wakes it   *)
(* at once.                                                                 *)
Stopping ==
  /\ worker = "init" => ~entered
  /\ bridge = "stopping" =>
       /\ stopEvent
       /\ entered =>
            /\ worker \in {"call", "acked"} => tickAge <= phaseAge
            /\ worker = "get" => tickAge = 0 /\ queue # <<>>
            /\ worker = "final" => tickAge <= Spent + phaseAge

(* What _put_latest leaves holds the new item or is full, and an item of    *)
(* the old queue never moves back.                                          *)
LEMMA PutLatestItems ==
  ASSUME NEW S, NEW q \in Seq(S), NEW v \in S, NEW r \in PutLatest(q, v)
  PROVE  /\ r # <<>>
         /\ \A k \in 1..Len(r) :
              r[k] = v \/ \E j \in k..Len(q) : r[k] = q[j]
<1>1. PICK d \in 0..Len(q) :
        r = IF Len(SubSeq(q, d + 1, Len(q))) < QueueMax
            THEN Append(SubSeq(q, d + 1, Len(q)), v)
            ELSE SubSeq(q, d + 1, Len(q))
  BY DEF PutLatest
<1> DEFINE rest == SubSeq(q, d + 1, Len(q))
<1>2. Len(q) \in Nat
  BY LenProperties
<1>3. /\ rest \in Seq(S) /\ Len(rest) = Len(q) - d
      /\ \A k \in 1..Len(rest) : rest[k] = q[d + k]
  BY <1>2, SubSeqProperties
<1> HIDE DEF rest
<1>4. CASE r = Append(rest, v)
  <2>1. Len(r) = Len(rest) + 1 /\ Len(rest) \in Nat
    BY <1>3, <1>4, AppendProperties, LenProperties
  <2>2. ASSUME NEW k \in 1..Len(r)
        PROVE  r[k] = IF k = Len(r) THEN v ELSE rest[k]
    <3>1. k \in 1..Len(rest) \/ k = Len(rest) + 1
      BY <2>1
    <3>2. QED
      BY <1>3, <1>4, <2>1, <3>1
  <2>3. ASSUME NEW k \in 1..Len(r), k # Len(r)
        PROVE  \E j \in k..Len(q) : r[k] = q[j]
    <3>1. k \in 1..Len(rest) /\ d + k \in k..Len(q)
      BY <1>2, <1>3, <2>1, <2>3
    <3>2. QED
      BY <1>3, <2>2, <2>3, <3>1
  <2>4. r # <<>>
    BY <2>1
  <2>5. QED
    BY <2>2, <2>3, <2>4
<1>5. CASE r = rest /\ ~(Len(rest) < QueueMax)
  <2>1. r # <<>>
    BY <1>5 DEF QueueMax
  <2>2. ASSUME NEW k \in 1..Len(r) PROVE \E j \in k..Len(q) : r[k] = q[j]
    <3>1. d + k \in k..Len(q)
      BY <1>2, <1>3, <1>5
    <3>2. QED
      BY <1>3, <1>5, <3>1
  <2>3. QED
    BY <2>1, <2>2
<1>6. QED
  BY <1>1, <1>4, <1>5 DEF rest

(* Both are kept by every step.                                             *)
LEMMA StoppingStep ==
  ASSUME IInv, Phased, Stopping, [Next]_vars
  PROVE  Phased' /\ Stopping'
<1> USE TimingAssumption DEF Phased, Stopping, WorkerEnds, WorkerStarts
<1>0. /\ tickAge \in Nat /\ phaseAge \in Nat /\ queue \in Seq(Velocity)
      /\ Zero \in Velocity /\ zeros \in 0..5
      /\ worker \in {"init", "get", "call", "acked", "final", "dead"}
      /\ worker = "final" => zeros > 0
  BY DEF IInv, TypeOK, Ages, Finals, Velocity, Zero, FinalRequests
<1>1. CASE ArmCheck \/ ArmTouch \/ Stop \/ StartRemove \/ StartAlreadyRunning
           \/ OrphanSendsZero \/ FinalReceived
  BY <1>1 DEF ArmCheck, ArmTouch, Stop, StartRemove, StartAlreadyRunning,
     OrphanSendsZero, FinalReceived, bridgeVars, tickVars, workerVars, Spent
<1>2. CASE StartLaunch
  BY <1>2 DEF StartLaunch
<1>3. CASE (\E c \in Commands : OnCmd(c)) \/ Tick
  BY <1>3 DEF OnCmd, Tick, workerVars
<1>4. CASE Shutdown
  <2>1. queue' # <<>>
    BY <1>0, <1>4, PutLatestItems DEF Shutdown
  <2>2. worker = "final" => Spent' + phaseAge' \in Nat
    BY <1>0, <1>4 DEF Shutdown, workerVars, Spent, FinalRequests
  <2>3. QED
    BY <1>0, <1>4, <2>1, <2>2 DEF Shutdown, ForgetBridge, workerVars
<1>5. CASE JoinDone \/ JoinTerminate \/ BridgeKilled
  BY <1>5 DEF JoinDone, JoinTerminate, BridgeKilled, workerVars
<1>6. CASE WorkerReady
  <2>1. stopEvent => ~entered'
    BY <1>6, Zenon DEF WorkerReady
  <2>2. QED
    BY <1>0, <1>6, <2>1 DEF WorkerReady, LoopTop, bridgeVars, tickVars
<1>7. CASE WorkerReturns
  <2>1. zeros' = FinalRequests => Spent' = RpcTimeout
    BY DEF Spent, FinalRequests
  <2>2. QED
    BY <1>0, <1>7, <2>1 DEF WorkerReturns, LoopTop, bridgeVars, tickVars
<1>8. CASE WorkerDequeue \/ WorkerGetTimeout
  BY <1>0, <1>8 DEF WorkerDequeue, WorkerGetTimeout, bridgeVars, tickVars
<1>9. CASE RobotReceives \/ WorkerKilled
  BY <1>0, <1>9 DEF RobotReceives, WorkerKilled, bridgeVars, tickVars
<1>10. CASE WorkerFails
  <2>1. zeros' = FinalRequests => Spent' = RpcTimeout
    BY DEF Spent, FinalRequests
  <2>2. QED
    BY <1>0, <1>10, <2>1 DEF WorkerFails, bridgeVars, tickVars
<1>11. CASE FinalReturns
  <2>1. CASE zeros = 1
    BY <1>0, <1>11, <2>1 DEF FinalReturns, bridgeVars, tickVars
  <2>2. CASE zeros > 1
    <3>1. /\ zeros' = zeros - 1 /\ phaseAge' = 0 /\ worker' = worker
          /\ entered' = entered /\ bridge' = bridge /\ tickAge' = tickAge
          /\ stopEvent' = stopEvent
      BY <1>0, <1>11, <2>2 DEF FinalReturns, bridgeVars, tickVars
    <3>2. Spent' = Spent + RpcTimeout /\ Spent \in Nat
      BY <1>0, <3>1 DEF Spent, FinalRequests
    <3>3. QED
      BY <1>0, <1>11, <3>1, <3>2 DEF FinalReturns
  <2>3. QED
    BY <1>0, <1>11, <2>1, <2>2 DEF FinalReturns
<1>12. CASE Elapse
  <2>1. Spent' = Spent /\ (worker = "final" => Spent \in Nat)
    BY <1>0, <1>12 DEF Elapse, Spent, FinalRequests
  <2>2. QED
    BY <1>0, <1>12, <2>1 DEF Elapse
<1>13. CASE UNCHANGED vars
  BY <1>13 DEF vars, bridgeVars, tickVars, workerVars, Spent
<1>14. QED
  BY <1>1, <1>2, <1>3, <1>4, <1>5, <1>6, <1>7, <1>8, <1>9, <1>10, <1>11, <1>12,
     <1>13
  DEF Next, Scripts, Bridge, Worker, Faults

(* A worker that had entered its loop when it was asked to stop is never    *)
(* terminated (ShutdownSendsZeros), for all timeouts of which the join's    *)
(* outlasts a call and the five final requests, and however long the set-up *)
(* may take.                                                                *)
THEOREM AlwaysShutdownSendsZeros ==
  ASSUME JoinIsPatient
  PROVE  Spec => []ShutdownSendsZeros
<1>1. Init => Phased /\ Stopping
  BY DEF Init, Phased, Stopping
<1>2. IInv /\ Phased /\ Stopping => ShutdownSendsZeros
  <2> SUFFICES ASSUME IInv, Phased, Stopping, bridge = "stopping",
                      tickAge >= JoinTimeout, entered, worker # "dead"
               PROVE  FALSE
    BY DEF ShutdownSendsZeros
  <2>1. /\ tickAge \in Nat /\ phaseAge \in Nat /\ zeros \in 0..5
        /\ worker \in {"get", "call", "acked", "final"}
        /\ worker = "final" => zeros \in 1..5
    BY DEF IInv, TypeOK, Ages, Finals, FinalRequests, Stopping
  <2>2. 6 * RpcTimeout < JoinTimeout /\ RpcTimeout \in Nat /\ JoinTimeout \in Nat
    BY TimingAssumption DEF JoinIsPatient, FinalRequests
  <2>3. CASE worker = "final"
    <3>1. Spent <= 5 * RpcTimeout /\ Spent \in Nat
      BY <2>1, <2>2, <2>3 DEF Spent, FinalRequests
    <3>2. QED
      BY <2>1, <2>2, <2>3, <3>1 DEF Phased, Stopping
  <2>4. QED
    BY <2>1, <2>2, <2>3 DEF Phased, Stopping
<1>3. QED
  BY <1>1, <1>2, StoppingStep, Invariance, PTL DEF Spec
----------------------------------------------------------------------------
(* Revocation.  Motion enters the queue only while it is permitted, so how  *)
(* long permission has been gone bounds how far a moving item has come: it  *)
(* waits for the call in progress and for the items before it.              *)

(* What the k-th item may have waited more than one that just fitted in.    *)
Behind(k) == IF k = 1 THEN RpcTimeout ELSE 0

Observed == revoked \in Nat /\ (Permit => revoked = 0)

(* During the set-up of the worker its bridge cannot have been armed longer *)
(* than it lives.                                                           *)
SetUp ==
  bridge = "running" /\ worker = "init" /\ wasArmed => armedAge <= phaseAge

(* A moving item of the queue, of the call and of the robot.                *)
InQueue ==
  \A k \in 1..Len(queue) :
    queue[k] # Zero =>
      /\ worker = "init" => revoked + ArmSettle <= phaseAge
      /\ worker = "get" => revoked <= RpcTimeout + Behind(k)
      /\ worker \in {"call", "acked"} => revoked <= Behind(k) + phaseAge

InCall == worker = "call" /\ item # Zero => revoked <= 2 * RpcTimeout + phaseAge

Executed == robot # Zero => revoked <= 3 * RpcTimeout + robotAge

Timed == Observed /\ SetUp /\ Phased /\ InQueue /\ InCall /\ Executed

(* A tick that asks for motion has permission, and the bridge has been      *)
(* armed for ArmSettle.                                                     *)
LEMMA TickNeedsPermit ==
  ASSUME IInv, Tick, out' # Zero
  PROVE  /\ Permit
         /\ wasArmed /\ armedAge >= ArmSettle
<1>1. ~(token /\ ~wasArmed)
  <2> SUFFICES ASSUME token /\ ~wasArmed PROVE FALSE
    OBVIOUS
  <2>1. out' = Zero
    BY TimingAssumption DEF Tick, CommandHeld, Enabled
  <2>2. QED
    BY <2>1
<1>2. /\ token /\ armedAge >= ArmSettle
      /\ latest # NoCmd /\ latestAge <= CmdTimeout
  BY <1>1 DEF Tick, CommandHeld, Enabled
<1>3. QED
  BY <1>1, <1>2 DEF Tick, Permit

(* An age that has not grown keeps its distance to a limit.                 *)
LEMMA NotLater ==
  ASSUME NEW a \in Nat, NEW b \in Nat, a <= b
  PROVE  \A c, d \in Nat : b + c <= d => a + c <= d
OBVIOUS

(* Items that stay where they are, or move forward, keep their bound, and a *)
(* new one has just been permitted.                                         *)
LEMMA QueueKept ==
  ASSUME IInv, Timed, NEW v \in Velocity, queue' \in PutLatest(queue, v),
         v # Zero => revoked = 0 /\ (worker = "init" => ArmSettle <= phaseAge),
         revoked' \in Nat, revoked' <= revoked, worker' = worker, phaseAge' = phaseAge
  PROVE  InQueue'
<1>0. /\ queue \in Seq(Velocity) /\ Len(queue) \in Nat /\ revoked \in Nat
      /\ phaseAge \in Nat /\ RpcTimeout \in Nat /\ ArmSettle \in Nat
  BY TimingAssumption DEF IInv, TypeOK, Ages, Timed, Observed
<1>1. worker' = worker /\ phaseAge' = phaseAge
  OBVIOUS
<1>2. SUFFICES ASSUME NEW k \in 1..Len(queue'), queue'[k] # Zero
               PROVE  /\ worker = "init" => revoked' + ArmSettle <= phaseAge
                      /\ worker = "get" => revoked' <= RpcTimeout + Behind(k)
                      /\ worker \in {"call", "acked"} =>
                           revoked' <= Behind(k) + phaseAge
  BY <1>1 DEF InQueue, Behind
<1>3. revoked' \in Nat /\ revoked' <= revoked
  OBVIOUS
<1>4. CASE queue'[k] = v
  <2>1. revoked = 0 /\ (worker = "init" => ArmSettle <= phaseAge)
    BY <1>2, <1>4
  <2>2. revoked' = 0
    BY <1>3, <2>1
  <2>3. Behind(k) \in Nat
    BY <1>0 DEF Behind
  <2>4. QED
    BY <1>0, <2>1, <2>2, <2>3
<1>5. CASE \E j \in k..Len(queue) : queue'[k] = queue[j]
  <2>1. PICK j \in k..Len(queue) : queue'[k] = queue[j]
    BY <1>5
  <2>2. j \in 1..Len(queue) /\ queue[j] # Zero /\ Behind(j) <= Behind(k)
        /\ Behind(j) \in Nat /\ Behind(k) \in Nat
    BY <1>0, <1>2, <2>1 DEF Behind
  <2>3. /\ worker = "init" => revoked + ArmSettle <= phaseAge
        /\ worker = "get" => revoked <= RpcTimeout + Behind(j)
        /\ worker \in {"call", "acked"} => revoked <= Behind(j) + phaseAge
    BY <2>2 DEF Timed, InQueue
  <2>4. worker = "init" => revoked' + ArmSettle <= phaseAge
    BY <1>0, <1>3, <2>3, NotLater
  <2>5. worker = "get" => revoked' <= RpcTimeout + Behind(k)
    BY <1>0, <1>3, <2>2, <2>3
  <2>6. worker \in {"call", "acked"} => revoked' <= Behind(k) + phaseAge
    BY <1>0, <1>3, <2>2, <2>3
  <2>7. QED
    BY <2>4, <2>5, <2>6
<1>6. queue'[k] = v \/ \E j \in k..Len(queue) : queue'[k] = queue[j]
  BY <1>0, PutLatestItems
<1>7. QED
  BY <1>4, <1>5, <1>6

(* What the observer does in a step that is not time passing: permission    *)
(* that holds after the step has been gone for no time.                     *)
Watched == revoked' = IF Permit' THEN 0 ELSE revoked

LEMMA WatchedStep ==
  ASSUME Timed, Watched
  PROVE  Observed' /\ revoked' \in Nat /\ revoked' <= revoked
BY DEF Timed, Observed, Watched

(* A tick: what it queues it was permitted to.                              *)
LEMMA TimedTick ==
  ASSUME IInv, IInv', Timed, Tick, Watched
  PROVE  Timed'
<1>0. /\ revoked \in Nat /\ armedAge \in Nat /\ phaseAge \in Nat
      /\ out' \in Velocity
  BY DEF Timed, Observed, IInv, TypeOK, Ages
<1>1. Observed' /\ revoked' \in Nat /\ revoked' <= revoked
  BY WatchedStep
<1>2. /\ worker' = worker /\ item' = item /\ phaseAge' = phaseAge
      /\ robot' = robot /\ robotAge' = robotAge /\ bridge' = bridge
      /\ queue' \in PutLatest(queue, out') /\ bridge = "running"
  BY DEF Tick, workerVars, robotVars
<1>3. SetUp'
  <2>1. wasArmed' => armedAge' = 0 \/ (wasArmed /\ armedAge' = armedAge)
    BY DEF Tick
  <2>2. QED
    BY <1>0, <1>2, <2>1 DEF Timed, SetUp
<1>4. InQueue'
  <2>1. out' # Zero => revoked = 0 /\ (worker = "init" => ArmSettle <= phaseAge)
    BY <1>0, <1>2, TickNeedsPermit, TimingAssumption DEF Timed, Observed, SetUp
  <2>2. QED
    BY <1>0, <1>1, <1>2, <2>1, QueueKept
<1>5. Phased' /\ InCall' /\ Executed'
  BY <1>0, <1>1, <1>2, TimingAssumption
  DEF Timed, Phased, InCall, Executed, IInv, TypeOK, Ages
<1>6. QED
  BY <1>1, <1>3, <1>4, <1>5 DEF Timed

(* A shutdown queues a zero.                                                *)
LEMMA TimedShutdown ==
  ASSUME IInv, IInv', Timed, Shutdown, Watched
  PROVE  Timed'
<1>1. Observed' /\ revoked' \in Nat /\ revoked' <= revoked
  BY WatchedStep
<1>2. /\ worker' = worker /\ item' = item /\ phaseAge' = phaseAge
      /\ robot' = robot /\ robotAge' = robotAge /\ bridge' = "stopping"
      /\ queue' \in PutLatest(queue, Zero)
  BY DEF Shutdown, workerVars, robotVars
<1>3. InQueue'
  <2>1. Zero \in Velocity
    BY DEF Zero, Velocity
  <2>2. QED
    BY <1>1, <1>2, <2>1, QueueKept
<1>4. SetUp' /\ Phased' /\ InCall' /\ Executed'
  BY <1>1, <1>2, TimingAssumption
  DEF Timed, Observed, SetUp, Phased, InCall, Executed, IInv, TypeOK, Ages
<1>5. QED
  BY <1>1, <1>3, <1>4 DEF Timed

(* Taking an item brings those behind it forward by one call.               *)
LEMMA TimedDequeue ==
  ASSUME IInv, IInv', Timed, WorkerDequeue, Watched
  PROVE  Timed'
<1>0. /\ queue \in Seq(Velocity) /\ Len(queue) \in Nat /\ Len(queue) <= 2
      /\ revoked \in Nat /\ RpcTimeout \in Nat
  BY TimingAssumption DEF IInv, TypeOK, QueueMax, Timed, Observed
<1>1. Observed' /\ revoked' \in Nat /\ revoked' <= revoked
  BY WatchedStep
<1>2. /\ worker = "get" /\ worker' = "call" /\ phaseAge' = 0
      /\ robot' = robot /\ robotAge' = robotAge
  BY DEF WorkerDequeue, robotVars
<1>3. PICK k \in 1..Len(queue) :
        item' \in {queue[k], Zero} /\ queue' = SubSeq(queue, k + 1, Len(queue))
  BY DEF WorkerDequeue
<1>4. \A j \in 1..Len(queue) : queue[j] # Zero => revoked <= RpcTimeout + Behind(j)
  BY <1>2 DEF Timed, InQueue
<1>5. InCall'
  <2>1. item' # Zero => revoked <= RpcTimeout + Behind(k)
    BY <1>3, <1>4
  <2>2. QED
    BY <1>0, <1>1, <1>2, <2>1 DEF InCall, Behind
<1>6. InQueue'
  <2>1. SUFFICES ASSUME NEW j \in 1..Len(queue'), queue'[j] # Zero
                 PROVE  revoked' <= Behind(j)
    BY <1>0, <1>2 DEF InQueue, Behind
  <2>2. Len(queue') = Len(queue) - k /\ queue'[j] = queue[k + j]
    BY <1>0, <1>3, SubSeqProperties
  <2>3. k = 1 /\ j = 1
    BY <1>0, <1>3, <2>1, <2>2
  <2>4. revoked <= RpcTimeout
    BY <1>0, <1>3, <1>4, <2>1, <2>2, <2>3 DEF Behind
  <2>5. QED
    BY <1>0, <1>1, <2>3, <2>4 DEF Behind
<1>7. SetUp' /\ Phased' /\ Executed'
  BY <1>0, <1>1, <1>2 DEF SetUp, Phased, Executed, Timed, IInv, TypeOK, Ages
<1>8. QED
  BY <1>1, <1>5, <1>6, <1>7 DEF Timed

(* Whoever else acts, a pipeline that is left alone keeps its bounds.       *)
LEMMA PipelineKept ==
  ASSUME IInv, Timed, revoked' \in Nat, revoked' <= revoked,
         worker' = worker, phaseAge' = phaseAge, item' = item, queue' = queue
  PROVE  InQueue' /\ InCall' /\ Phased'
<1>0. /\ revoked \in Nat /\ phaseAge \in Nat
      /\ RpcTimeout \in Nat /\ ArmSettle \in Nat
  BY TimingAssumption DEF IInv, TypeOK, Ages, Timed, Observed
<1>1. revoked' \in Nat /\ revoked' <= revoked
  OBVIOUS
<1>2. ASSUME NEW k \in 1..Len(queue), queue[k] # Zero
      PROVE  /\ worker = "init" => revoked' + ArmSettle <= phaseAge
             /\ worker = "get" => revoked' <= RpcTimeout + Behind(k)
             /\ worker \in {"call", "acked"} => revoked' <= Behind(k) + phaseAge
  <2>1. /\ worker = "init" => revoked + ArmSettle <= phaseAge
        /\ worker = "get" => revoked <= RpcTimeout + Behind(k)
        /\ worker \in {"call", "acked"} => revoked <= Behind(k) + phaseAge
    BY <1>2 DEF Timed, InQueue
  <2>2. Behind(k) \in Nat
    BY <1>0 DEF Behind
  <2>3. worker = "init" => revoked' + ArmSettle <= phaseAge
    BY <1>0, <1>1, <2>1, NotLater
  <2>4. worker = "get" => revoked' <= RpcTimeout + Behind(k)
    BY <1>0, <1>1, <2>1, <2>2
  <2>5. worker \in {"call", "acked"} => revoked' <= Behind(k) + phaseAge
    BY <1>0, <1>1, <2>1, <2>2
  <2>6. QED
    BY <2>3, <2>4, <2>5
<1>3. InQueue'
  BY <1>2 DEF InQueue, Behind
<1>4. InCall' /\ Phased'
  BY <1>0, <1>1 DEF Timed, InCall, Phased
<1>5. QED
  BY <1>3, <1>4

(* The worker's other steps.  Coming out of the set-up, an item has waited  *)
(* no longer than behind a call.                                            *)
LEMMA TimedWorker ==
  ASSUME InitIsPrompt, IInv, IInv', Timed, Watched,
         \/ WorkerReady \/ WorkerReturns \/ WorkerGetTimeout \/ RobotReceives
         \/ FinalReceived \/ FinalReturns \/ OrphanSendsZero
         \/ WorkerFails \/ WorkerKilled
  PROVE  Timed'
<1>0. /\ revoked \in Nat /\ phaseAge \in Nat /\ robotAge \in Nat
      /\ RpcTimeout \in Nat /\ ArmSettle \in Nat /\ InitLimit \in Nat
      /\ \A k \in 1..Len(queue) : Behind(k) \in Nat
      /\ worker \in {"init", "get", "call", "acked", "final", "dead"}
  BY TimingAssumption DEF IInv, TypeOK, Ages, Timed, Observed, Behind
<1>1. Observed' /\ revoked' \in Nat /\ revoked' <= revoked
  BY WatchedStep
<1>2. ASSUME NEW k \in 1..Len(queue), queue[k] # Zero
      PROVE  /\ worker = "init" => revoked + ArmSettle <= phaseAge
             /\ worker = "get" => revoked <= RpcTimeout + Behind(k)
             /\ worker \in {"call", "acked"} => revoked <= Behind(k) + phaseAge
  BY <1>2 DEF Timed, InQueue
<1>3. /\ worker = "init" => phaseAge <= InitLimit
      /\ worker \in {"call", "acked", "final"} => phaseAge <= RpcTimeout
  BY DEF Timed, Phased
<1>4. CASE WorkerReady
  <2>1. /\ worker = "init" /\ worker' \in {"get", "final"} /\ phaseAge' = 0
        /\ queue' = queue /\ robot' = robot /\ robotAge' = robotAge
    BY <1>4 DEF WorkerReady, LoopTop, robotVars
  <2>2. InQueue'
    <3>1. SUFFICES ASSUME NEW k \in 1..Len(queue), queue[k] # Zero
                   PROVE  revoked' <= RpcTimeout + Behind(k)
      BY <2>1 DEF InQueue, Behind
    <3>2. revoked + ArmSettle <= InitLimit
      BY <1>0, <1>2, <1>3, <2>1, <3>1
    <3>3. revoked <= RpcTimeout
      BY <1>0, <3>2 DEF InitIsPrompt
    <3>4. QED
      BY <1>0, <1>1, <3>3
  <2>3. QED
    BY <1>0, <1>1, <2>1, <2>2 DEF Timed, SetUp, Phased, InCall, Executed
<1>5. CASE WorkerReturns
  <2>1. /\ worker \in {"call", "acked"} /\ worker' \in {"get", "final"}
        /\ phaseAge' = 0
        /\ queue' = queue /\ robot' = robot /\ robotAge' = robotAge
    BY <1>5 DEF WorkerReturns, LoopTop, robotVars
  <2>2. InQueue'
    <3>1. SUFFICES ASSUME NEW k \in 1..Len(queue), queue[k] # Zero
                   PROVE  revoked' <= RpcTimeout + Behind(k)
      BY <2>1 DEF InQueue, Behind
    <3>2. QED
      BY <1>0, <1>1, <1>2, <1>3, <2>1, <3>1
  <2>3. QED
    BY <1>0, <1>1, <2>1, <2>2 DEF Timed, SetUp, Phased, InCall, Executed
<1>6. CASE WorkerGetTimeout
  <2>1. /\ worker' = "call" /\ phaseAge' = 0 /\ item' = Zero /\ queue' = <<>>
        /\ robot' = robot /\ robotAge' = robotAge
    BY <1>6 DEF WorkerGetTimeout, robotVars
  <2>2. QED
    BY <1>0, <1>1, <2>1
    DEF Timed, SetUp, Phased, InQueue, InCall, Executed
<1>7. CASE RobotReceives
  <2>1. /\ worker = "call" /\ worker' = "acked" /\ phaseAge' = phaseAge
        /\ queue' = queue /\ robot' = item /\ robotAge' = 0
    BY <1>7 DEF RobotReceives
  <2>2. InQueue'
    <3>1. SUFFICES ASSUME NEW k \in 1..Len(queue), queue[k] # Zero
                   PROVE  revoked' <= Behind(k) + phaseAge
      BY <2>1 DEF InQueue, Behind
    <3>2. QED
      BY <1>0, <1>1, <1>2, <2>1, <3>1
  <2>3. Executed'
    BY <1>0, <1>1, <1>3, <2>1 DEF Timed, InCall, Executed
  <2>4. QED
    BY <1>1, <1>3, <2>1, <2>2, <2>3 DEF Timed, SetUp, Phased, InCall
<1>8. CASE FinalReturns \/ WorkerFails \/ WorkerKilled
  <2>1. /\ worker' \in {"final", "dead"} /\ phaseAge' = 0
        /\ robot' = robot /\ robotAge' = robotAge
    BY <1>8 DEF FinalReturns, WorkerFails, WorkerKilled, WorkerEnds, robotVars
  <2>2. InQueue' /\ InCall' /\ SetUp' /\ Phased'
    BY <1>0, <2>1 DEF InQueue, InCall, SetUp, Phased
  <2>3. Executed'
    BY <1>0, <1>1, <2>1 DEF Timed, Executed
  <2>4. QED
    BY <1>1, <2>2, <2>3 DEF Timed
<1>9. CASE OrphanSendsZero \/ FinalReceived
  <2>1. /\ worker' = worker /\ phaseAge' = phaseAge /\ item' = item
        /\ queue' = queue /\ robot' = Zero
        /\ bridge' = bridge /\ wasArmed' = wasArmed /\ armedAge' = armedAge
    BY <1>9 DEF OrphanSendsZero, FinalReceived, workerVars, bridgeVars, tickVars
  <2>2. InQueue' /\ InCall' /\ Phased'
    BY <1>1, <2>1, PipelineKept
  <2>3. QED
    BY <1>1, <2>1, <2>2 DEF Timed, SetUp, Executed
<1>10. QED
  BY <1>4, <1>5, <1>6, <1>7, <1>8, <1>9

(* The scripts and the bridge's other steps leave the pipeline alone, or    *)
(* start or end a worker.                                                   *)
LEMMA TimedOthers ==
  ASSUME IInv, IInv', Timed, Watched,
         \/ Scripts \/ (\E c \in Commands : OnCmd(c))
         \/ JoinDone \/ JoinTerminate \/ BridgeKilled
  PROVE  Timed'
<1>1. Observed' /\ revoked' \in Nat /\ revoked' <= revoked /\ revoked \in Nat
  BY WatchedStep DEF Timed, Observed
<1>2. CASE ArmCheck \/ ArmTouch \/ Stop \/ StartRemove \/ StartAlreadyRunning
           \/ (\E c \in Commands : OnCmd(c)) \/ JoinDone \/ BridgeKilled
  <2>1. /\ worker' = worker /\ phaseAge' = phaseAge /\ item' = item
        /\ queue' = queue /\ robot' = robot /\ robotAge' = robotAge
    BY <1>2 DEF ArmCheck, ArmTouch, Stop, StartRemove, StartAlreadyRunning,
       OnCmd, JoinDone, BridgeKilled, workerVars, robotVars
  <2>2. \/ bridge' = bridge /\ wasArmed' = wasArmed /\ armedAge' = armedAge
        \/ bridge' = "down"
    BY <1>2 DEF ArmCheck, ArmTouch, Stop, StartRemove, StartAlreadyRunning,
       OnCmd, JoinDone, BridgeKilled, bridgeVars, tickVars
  <2>3. InQueue' /\ InCall' /\ Phased'
    BY <1>1, <2>1, PipelineKept
  <2>4. SetUp'
    BY <2>1, <2>2 DEF Timed, SetUp
  <2>5. Executed'
    BY <1>1, <2>1, TimingAssumption DEF Timed, Executed, IInv, TypeOK, Ages
  <2>6. QED
    BY <1>1, <2>3, <2>4, <2>5 DEF Timed
<1>3. CASE StartLaunch
  <2>1. /\ worker' = "init" /\ phaseAge' = 0 /\ queue' = <<>> /\ ~wasArmed'
        /\ robot' = robot /\ robotAge' = robotAge
    BY <1>3 DEF StartLaunch, WorkerStarts, ForgetBridge, robotVars
  <2>2. InQueue' /\ InCall' /\ Phased' /\ SetUp'
    BY <2>1, TimingAssumption DEF InQueue, InCall, Phased, SetUp
  <2>3. Executed'
    BY <1>1, <2>1, TimingAssumption DEF Timed, Executed, IInv, TypeOK, Ages
  <2>4. QED
    BY <1>1, <2>2, <2>3 DEF Timed
<1>4. CASE JoinTerminate
  <2>1. /\ worker' = "dead" /\ robot' = robot /\ robotAge' = robotAge
    BY <1>4 DEF JoinTerminate, WorkerEnds, robotVars
  <2>2. InQueue' /\ InCall' /\ Phased' /\ SetUp'
    BY <2>1 DEF InQueue, InCall, Phased, SetUp
  <2>3. Executed'
    BY <1>1, <2>1, TimingAssumption DEF Timed, Executed, IInv, TypeOK, Ages
  <2>4. QED
    BY <1>1, <2>2, <2>3 DEF Timed
<1>5. QED
  BY <1>2, <1>3, <1>4 DEF Scripts

(* One unit of time: the age it is compared with grows as well, and a       *)
(* waiting worker lets no time pass over a queued item.                     *)
LEMMA TimedElapse ==
  ASSUME IInv, IInv', Timed, Elapse,
         revoked' = IF Permit \/ Permit' THEN 0 ELSE Older(revoked, Horizon)
  PROVE  Timed'
<1>0. /\ revoked \in Nat /\ phaseAge \in Nat /\ robotAge \in Nat
      /\ armedAge \in Nat
      /\ RpcTimeout \in Nat /\ ArmSettle \in Nat /\ InitLimit \in Nat
      /\ robotAge < SdkDuration /\ SdkDuration \in Nat
      /\ worker \in {"init", "get", "call", "acked", "final", "dead"}
  BY TimingAssumption DEF IInv, TypeOK, Ages, Timed, Observed
<1>1. revoked' \in Nat /\ revoked' <= revoked + 1 /\ Observed'
  BY <1>0, HorizonAssumption DEF Older, Observed
<1>2. /\ worker' = worker /\ item' = item /\ queue' = queue /\ bridge' = bridge
      /\ wasArmed' = wasArmed
      /\ worker # "dead" => phaseAge' = phaseAge + 1
      /\ worker = "get" => queue = <<>>
  BY DEF Elapse
<1>3. Phased'
  BY <1>0 DEF Timed, Phased, Elapse
<1>4. SetUp'
  BY <1>0, <1>2, TimingAssumption DEF Timed, SetUp, Elapse, Older
<1>5. InQueue'
  <2>1. SUFFICES ASSUME NEW k \in 1..Len(queue), queue[k] # Zero
                 PROVE  /\ worker = "init" =>
                             revoked' + ArmSettle <= phaseAge + 1
                        /\ worker \in {"call", "acked"} =>
                             revoked' <= Behind(k) + (phaseAge + 1)
    BY <1>2 DEF InQueue, Behind
  <2>2. /\ worker = "init" => revoked + ArmSettle <= phaseAge
        /\ worker \in {"call", "acked"} => revoked <= Behind(k) + phaseAge
        /\ Behind(k) \in Nat
    BY <1>0, <2>1 DEF Timed, InQueue, Behind
  <2>3. QED
    BY <1>0, <1>1, <2>2
<1>6. InCall'
  BY <1>0, <1>1, <1>2 DEF Timed, InCall
<1>7. Executed'
  <2>1. robot' # Zero => robot # Zero /\ robotAge' = robotAge + 1
    <3>1. robotAge + 1 < SdkDuration => (robotAge + 1) % SdkDuration = robotAge + 1
      BY <1>0
    <3>2. QED
      BY <1>0, <3>1 DEF Elapse
  <2>2. QED
    BY <1>0, <1>1, <2>1 DEF Timed, Executed
<1>8. QED
  BY <1>1, <1>3, <1>4, <1>5, <1>6, <1>7 DEF Timed

(* The observer adds no behaviour.                                          *)
LEMMA ObservedIsGateway == ObservedSpec => Spec
<1>1. ObservedInit => Init
  BY DEF ObservedInit
<1>2. [ObservedNext]_<<vars, revoked>> => [Next]_vars
  BY DEF ObservedNext, Next
<1>3. QED
  BY <1>1, <1>2, PTL DEF ObservedSpec, Spec

LEMMA TimedInvariance ==
  ASSUME InitIsPrompt
  PROVE  ObservedSpec => [](IInv /\ Timed)
<1>1. ASSUME ObservedInit, IInv PROVE Timed
  <2>1. /\ revoked \in Nat /\ ~token /\ ~wasArmed /\ worker = "dead"
        /\ robot = Zero
    BY <1>1, HorizonAssumption DEF ObservedInit, Init
  <2>2. QED
    BY <2>1
    DEF Timed, Observed, Permit, SetUp, Phased, InQueue, InCall, Executed
<1>2. ASSUME IInv, IInv', Timed, [ObservedNext]_<<vars, revoked>>
      PROVE  Timed'
  <2>1. CASE (Scripts \/ Bridge \/ Worker \/ Faults) /\ Watched
    BY <1>2, <2>1, TimedTick, TimedShutdown, TimedDequeue, TimedWorker,
       TimedOthers
    DEF Bridge, Worker, Faults
  <2>2. CASE Elapse /\ revoked' = IF Permit \/ Permit' THEN 0
                                  ELSE Older(revoked, Horizon)
    BY <1>2, <2>2, TimedElapse
  <2>3. CASE UNCHANGED <<vars, revoked>>
    BY <1>2, <2>3
    DEF vars, scriptVars, bridgeVars, cmdVars, tickVars, workerVars, robotVars,
        Timed, Observed, Permit, SetUp, Phased, InQueue, Behind, InCall, Executed
  <2>4. QED
    BY <1>2, <2>1, <2>2, <2>3 DEF ObservedNext, Watched
<1>3. QED
  BY <1>1, <1>2, ObservedIsGateway, Invariance, PTL DEF ObservedSpec

(* However permission to move ends, the robot stands still StopLatency      *)
(* later (StopsInTime), for all limits, timeouts and commands, provided     *)
(* that the SDK set-up is no longer than arming settles and one call lasts. *)
THEOREM AlwaysStopsInTime ==
  ASSUME InitIsPrompt
  PROVE  ObservedSpec => []StopsInTime
<1>1. IInv /\ Timed => StopsInTime
  <2> SUFFICES ASSUME IInv, Timed, revoked >= StopLatency, robot # Zero
               PROVE  FALSE
    BY DEF StopsInTime
  <2>1. /\ revoked \in Nat /\ robotAge \in Nat /\ robotAge < SdkDuration
        /\ RpcTimeout \in Nat /\ SdkDuration \in Nat
        /\ revoked <= 3 * RpcTimeout + robotAge
    BY TimingAssumption
    DEF IInv, TypeOK, Ages, Timed, Observed, Executed
  <2>2. StopLatency = 3 * RpcTimeout + SdkDuration
    BY <2>1 DEF StopLatency, QueueMax
  <2>3. QED
    BY <2>1, <2>2
<1>2. QED
  BY <1>1, TimedInvariance, PTL

(* Under the same proviso commands expire in the worker (CommandsExpire):   *)
(* what the long set-up shows wrong is its only cause.                      *)
THEOREM AlwaysCommandsExpire ==
  ASSUME InitIsPrompt
  PROVE  ObservedSpec => CommandsExpire
<1> DEFINE Expires == revoked >= StopLatency /\ RobotReceives => robot' = Zero
<1>1. IInv /\ Timed => Expires
  <2> SUFFICES ASSUME IInv, Timed, revoked >= StopLatency, RobotReceives,
                      item # Zero
               PROVE  FALSE
    BY DEF RobotReceives
  <2>1. /\ revoked \in Nat /\ phaseAge <= RpcTimeout /\ phaseAge \in Nat
        /\ RpcTimeout \in Nat /\ SdkDuration \in Nat \ {0}
        /\ revoked <= 2 * RpcTimeout + phaseAge
    BY TimingAssumption
    DEF IInv, TypeOK, Ages, Timed, Observed, InCall, Phased, RobotReceives
  <2>2. StopLatency = 3 * RpcTimeout + SdkDuration
    BY <2>1 DEF StopLatency, QueueMax
  <2>3. QED
    BY <2>1, <2>2
<1>2. QED
  BY <1>1, TimedInvariance, PTL DEF ObservedSpec, CommandsExpire
=============================================================================
