--------------------------- MODULE MotionGateway ---------------------------
(***************************************************************************)
(* The motion gateway: host/g1_cmd_vel_bridge.py and the scripts that arm, *)
(* stop and start it.  Two processes share a bounded multiprocessing       *)
(* queue:                                                                  *)
(*                                                                         *)
(*   bridge   ROS node; receives Nav2 commands, looks at the arm token on  *)
(*            every timer tick, limits the velocity and queues it;         *)
(*   worker   owns the Unitree SDK client; takes the newest queued item    *)
(*            and calls SetVelocity, or sends zero when none arrives.      *)
(*                                                                         *)
(* The robot (external) executes a SetVelocity request for SdkDuration and *)
(* then stops by itself.                                                   *)
(*                                                                         *)
(* Time is discrete.  The code compares time.monotonic() differences; each *)
(* such difference is an age here, advanced by Elapse and saturated just   *)
(* above the largest value it is compared with.                            *)
(***************************************************************************)
EXTENDS Integers, Sequences

CONSTANTS
  Commands,      (* Twist messages Nav2 may publish: [vx, wz] records       *)
  NoCmd,         (* self.latest is None                                     *)
  NonFinite,     (* a NaN or infinite component                             *)
  MaxVx, MaxWz, FirstMaxVx, FirstMaxWz,
  DvPerUnit,     (* MAX_DVX_PER_S, per unit of time                         *)
  DwPerUnit,     (* MAX_DWZ_PER_S, per unit of time                         *)
  DtCap,         (* the 0.25 s cap on a tick's dt                           *)
  CmdTimeout, ArmSettle, FirstMotion,
  QueueTimeout,  (* SDK_QUEUE_TIMEOUT_S                                     *)
  SdkDuration,   (* SDK_COMMAND_DURATION_S                                  *)
  RpcTimeout,    (* client.SetTimeout                                       *)
  InitLimit,     (* longest set-up of the SDK participant in the worker     *)
  JoinTimeout,   (* sdk_process.join(timeout)                               *)
  MaxGap         (* longest time between two ticks: timer period and delay  *)

Velocity == [vx : Int, wz : Int]
Envelope == [vx : 0..MaxVx, wz : -MaxWz..MaxWz]

(* An operator that stands just before another and extends its name is its *)
(* mutated form, listed in PROJECT.json; no other definition uses it.      *)

ASSUME CommandsAssumption ==
  /\ NonFinite \notin Int
  /\ Commands \subseteq [vx : Int \cup {NonFinite}, wz : Int \cup {NonFinite}]
  /\ NoCmd \notin Commands

ASSUME LimitsAssumption ==
  /\ MaxVx \in Nat /\ MaxWz \in Nat
  /\ FirstMaxVx \in Nat /\ FirstMaxWz \in Nat
  /\ DvPerUnit \in Nat /\ DwPerUnit \in Nat

ASSUME TimingAssumption ==
  /\ DtCap \in Nat \ {0} /\ CmdTimeout \in Nat \ {0}
  /\ ArmSettle \in Nat \ {0} /\ FirstMotion \in Nat \ {0}
  /\ QueueTimeout \in Nat \ {0} /\ SdkDuration \in Nat \ {0}
  /\ RpcTimeout \in Nat \ {0} /\ InitLimit \in Nat \ {0}
  /\ JoinTimeout \in Nat \ {0} /\ MaxGap \in Nat \ {0}

QueueMax == 2                     (* ctx.Queue(maxsize=2) *)
FinalRequests == 5                (* for _ in range(5) in the finally clause *)
Zero     == [vx |-> 0, wz |-> 0]
NoAge    == -1                    (* self.motion_since is None *)

VARIABLES
  token,        (* ARM_FILE exists                                          *)
  armScript,    (* g1-motion-arm: "idle", or "checked" after kill -0        *)
  startScript,  (* g1-motion-bridge-start: "idle", or "removed" after rm    *)
  bridge,       (* "down", "running", "stopping" (in main's finally)        *)
  latest,       (* Bridge.latest                                            *)
  latestAge,    (* now - latest_time                                        *)
  wasArmed,     (* Bridge.was_armed                                         *)
  armedAge,     (* now - armed_since                                        *)
  motionAge,    (* now - motion_since, or NoAge                             *)
  out,          (* last_vx, last_wz                                         *)
  tickAge,      (* now - last_tick; while stopping, time spent in join      *)
  queue,        (* items in the multiprocessing queue, oldest first         *)
  stopEvent,
  worker,       (* "init", "get", "call", "acked", "final", "dead"          *)
  item,         (* the worker's vx, wz                                      *)
  phaseAge,     (* time the worker has been in its present phase or request *)
  zeros,        (* final zero requests it has still to finish               *)
  entered,      (* history: it entered its loop before it was asked to stop *)
  orphan,       (* a worker outlived its bridge and a new pair was started  *)
  robot,        (* velocity the robot executes                              *)
  robotAge      (* time since the request it executes                       *)

scriptVars == <<token, armScript, startScript>>
cmdVars    == <<latest, latestAge>>
tickVars   == <<wasArmed, armedAge, motionAge, out, tickAge>>
bridgeVars == <<bridge, cmdVars, tickVars>>
workerVars == <<worker, item, phaseAge, zeros, entered>>
robotVars  == <<robot, robotAge>>
vars == <<scriptVars, bridgeVars, queue, stopEvent, workerVars, orphan,
          robotVars>>

----------------------------------------------------------------------------
(* Pure parts of the handlers.                                             *)

LesserUncapped(a, b) == a
Lesser(a, b) == IF a < b THEN a ELSE b

(* max(low, min(high, value)), and 0 for a value that is not finite.       *)
FiniteClampAbove(v, low, high) ==
  IF v = NonFinite THEN 0 ELSE IF v > high THEN high ELSE v
FiniteClamp(v, low, high) ==
  IF v = NonFinite THEN 0
  ELSE IF v > high THEN (IF high < low THEN low ELSE high)
  ELSE IF v < low THEN low ELSE v

(* The queue after _put_latest(queue, v).  The drain stops at the first     *)
(* Empty, which it also gets while the worker holds the read lock or while  *)
(* the feeder thread has not flushed an item, so it removes any prefix; a   *)
(* full queue drops the new item.                                           *)
PutLatest(q, v) ==
  {IF Len(rest) < QueueMax THEN Append(rest, v) ELSE rest :
     rest \in {SubSeq(q, k + 1, Len(q)) : k \in 0..Len(q)}}

(* A counter of elapsed time that stops at cap.                             *)
Older(age, cap) == IF age < cap THEN age + 1 ELSE age

Init ==
  /\ token = FALSE
  /\ armScript = "idle" /\ startScript = "idle"
  /\ bridge = "down"
  /\ latest = NoCmd /\ latestAge = 0
  /\ wasArmed = FALSE /\ armedAge = 0 /\ motionAge = NoAge
  /\ out = Zero /\ tickAge = 0
  /\ queue = <<>> /\ stopEvent = FALSE
  /\ worker = "dead" /\ item = Zero /\ phaseAge = 0
  /\ zeros = 0 /\ entered = FALSE
  /\ orphan = FALSE
  /\ robot = Zero /\ robotAge = 0

----------------------------------------------------------------------------
(* Operator scripts.                                                        *)

(* g1-motion-arm: the pid is alive ...                                      *)
ArmCheck ==
  /\ armScript = "idle"
  /\ bridge # "down"
  /\ armScript' = "checked"
  /\ UNCHANGED <<token, startScript, bridgeVars, queue, stopEvent, workerVars,
                 orphan, robotVars>>

(* ... and then the token is touched.                                       *)
ArmTouch ==
  /\ armScript = "checked"
  /\ armScript' = "idle"
  /\ token' = TRUE
  /\ UNCHANGED <<startScript, bridgeVars, queue, stopEvent, workerVars, orphan,
                 robotVars>>

(* g1-motion-stop, also the first act of killnav.                           *)
Stop ==
  /\ token' = FALSE
  /\ UNCHANGED <<armScript, startScript, bridgeVars, queue, stopEvent,
                 workerVars, orphan, robotVars>>

(* g1-motion-bridge-start removes the token ...                             *)
StartRemove ==
  /\ startScript = "idle"
  /\ startScript' = "removed"
  /\ token' = FALSE
  /\ UNCHANGED <<armScript, bridgeVars, queue, stopEvent, workerVars, orphan,
                 robotVars>>

(* ... reports a live gateway and exits ...                                 *)
StartAlreadyRunning ==
  /\ startScript = "removed"
  /\ bridge # "down"
  /\ startScript' = "idle"
  /\ UNCHANGED <<token, armScript, bridgeVars, queue, stopEvent, workerVars,
                 orphan, robotVars>>

(* The bridge's memory is read by no one once it has stopped ticking, and   *)
(* starts afresh with the process: __init__'s values.                       *)
ForgetBridge ==
  /\ latest' = NoCmd /\ latestAge' = 0
  /\ wasArmed' = FALSE /\ armedAge' = 0 /\ motionAge' = NoAge
  /\ out' = Zero /\ tickAge' = 0

(* A worker that is no more, and one that begins its set-up.                *)
WorkerEnds == worker' = "dead" /\ item' = Zero /\ phaseAge' = 0
              /\ zeros' = 0 /\ entered' = FALSE
WorkerStarts == worker' = "init" /\ item' = Zero /\ phaseAge' = 0
                /\ zeros' = 0 /\ entered' = FALSE

(* ... or launches a bridge with a worker and queue of its own.  A worker   *)
(* whose bridge was killed keeps waiting on the old queue: by the time a    *)
(* new interpreter has started it has run dry and only sends zero.          *)
StartLaunch ==
  /\ startScript = "removed"
  /\ bridge = "down"
  /\ worker = "dead" \/ (queue = <<>> /\ item = Zero)
  /\ startScript' = "idle"
  /\ bridge' = "running" /\ ForgetBridge
  /\ queue' = <<>> /\ stopEvent' = FALSE
  /\ WorkerStarts
  /\ orphan' = (orphan \/ worker # "dead")
  /\ UNCHANGED <<token, armScript, robotVars>>

----------------------------------------------------------------------------
(* Bridge callbacks.                                                        *)

OnCmd(c) ==
  /\ bridge = "running"
  /\ latest' = c /\ latestAge' = 0
  /\ UNCHANGED <<scriptVars, bridge, tickVars, queue, stopEvent, workerVars,
                 orphan, robotVars>>

(* A new arming edge discards the command received before it.               *)
CommandHeld(rising) == IF rising THEN NoCmd ELSE latest

EnabledUnsettled(settled, fresh) == token /\ fresh
Enabled(settled, fresh) == token /\ settled >= ArmSettle /\ fresh

(* One tick: read the token, notice its edges, decide whether motion is     *)
(* enabled, clamp and slew the command, and queue the result.               *)
Tick ==
  LET rising  == token /\ ~wasArmed
      cmd     == CommandHeld(rising)
      settled == IF rising THEN 0 ELSE armedAge
      since   == IF rising THEN NoAge ELSE motionAge
      fresh   == cmd # NoCmd /\ latestAge <= CmdTimeout
      enabled == Enabled(settled, fresh)
      target  == IF enabled THEN [vx |-> FiniteClamp(cmd.vx, 0, MaxVx),
                                  wz |-> FiniteClamp(cmd.wz, -MaxWz, MaxWz)]
                 ELSE Zero
      moving  == target # Zero
      motion  == IF ~moving THEN NoAge ELSE IF since = NoAge THEN 0 ELSE since
      goal    == IF motion # NoAge /\ motion < FirstMotion
                 THEN [vx |-> Lesser(target.vx, FirstMaxVx),
                       wz |-> FiniteClamp(target.wz, -FirstMaxWz, FirstMaxWz)]
                 ELSE target
      dt      == Lesser(tickAge, DtCap)
      dv      == DvPerUnit * dt
      dw      == DwPerUnit * dt
  IN
  /\ bridge = "running"
  /\ tickAge > 0
  /\ wasArmed' = token
  /\ armedAge' = settled
  /\ latest' = cmd
  /\ motionAge' = motion
  /\ out' = IF enabled
            THEN [vx |-> FiniteClamp(goal.vx, out.vx - dv, out.vx + dv),
                  wz |-> FiniteClamp(goal.wz, out.wz - dw, out.wz + dw)]
            ELSE Zero
  /\ tickAge' = 0
  /\ queue' \in PutLatest(queue, out')
  /\ UNCHANGED <<scriptVars, bridge, latestAge, stopEvent, workerVars, orphan,
                 robotVars>>

(* SIGTERM, SIGINT or an exception ends spin; main's finally queues a zero, *)
(* sets the stop event and joins the worker.                                *)
Shutdown ==
  /\ bridge = "running"
  /\ bridge' = "stopping" /\ ForgetBridge
  /\ queue' \in PutLatest(queue, Zero)
  /\ stopEvent' = TRUE
  /\ UNCHANGED <<scriptVars, workerVars, orphan, robotVars>>

(* The worker ended within the join timeout.                                *)
JoinDoneDrained ==
  /\ bridge = "stopping"
  /\ worker = "dead" /\ queue = <<>>
  /\ bridge' = "down" /\ ForgetBridge
  /\ UNCHANGED <<scriptVars, queue, stopEvent, workerVars, orphan, robotVars>>

JoinDone ==
  /\ bridge = "stopping"
  /\ worker = "dead"
  /\ bridge' = "down" /\ ForgetBridge
  /\ UNCHANGED <<scriptVars, queue, stopEvent, workerVars, orphan, robotVars>>

(* It did not: terminate() ends it, whatever is left of its final requests. *)
JoinTerminate ==
  /\ bridge = "stopping"
  /\ worker # "dead"
  /\ tickAge >= JoinTimeout
  /\ bridge' = "down" /\ ForgetBridge
  /\ WorkerEnds
  /\ UNCHANGED <<scriptVars, queue, stopEvent, orphan, robotVars>>

(* SIGKILL: no finally clause runs and the worker is not told.              *)
BridgeKilled ==
  /\ bridge # "down"
  /\ bridge' = "down" /\ ForgetBridge
  /\ UNCHANGED <<scriptVars, queue, stopEvent, workerVars, orphan, robotVars>>

----------------------------------------------------------------------------
(* SDK worker.                                                              *)

(* The top of the loop: while not stop_event.is_set().  After the loop, the *)
(* finally clause makes its requests one after the other.                   *)
LoopTopForever == worker' = "get" /\ phaseAge' = 0 /\ zeros' = 0

LoopTop == /\ worker' = IF stopEvent THEN "final" ELSE "get"
           /\ zeros' = IF stopEvent THEN FinalRequests ELSE 0
           /\ phaseAge' = 0

(* ChannelFactoryInitialize and LocoClient.Init return.                     *)
WorkerReady ==
  /\ worker = "init"
  /\ LoopTop
  /\ entered' = ~stopEvent
  /\ UNCHANGED <<scriptVars, bridgeVars, queue, stopEvent, item, orphan,
                 robotVars>>

(* get(timeout) returns an item and the drain moves on to the last item the *)
(* feeder has flushed.  The watchdog comparison that follows can only       *)
(* replace the item by zero, when the process was suspended in between.     *)
WorkerDequeue ==
  /\ worker = "get"
  /\ \E k \in 1..Len(queue) :
       /\ item' \in {queue[k], Zero}
       /\ queue' = SubSeq(queue, k + 1, Len(queue))
  /\ worker' = "call" /\ phaseAge' = 0
  /\ UNCHANGED <<scriptVars, bridgeVars, stopEvent, zeros, entered, orphan,
                 robotVars>>

(* get(timeout) raises Empty: the velocity becomes zero.                    *)
WorkerGetTimeoutHolds ==
  /\ worker = "get"
  /\ queue = <<>>
  /\ phaseAge >= QueueTimeout
  /\ worker' = "call" /\ phaseAge' = 0
  /\ UNCHANGED <<scriptVars, bridgeVars, queue, stopEvent, item, zeros, entered,
                 orphan, robotVars>>

WorkerGetTimeout ==
  /\ worker = "get"
  /\ queue = <<>>
  /\ phaseAge >= QueueTimeout
  /\ item' = Zero
  /\ worker' = "call" /\ phaseAge' = 0
  /\ UNCHANGED <<scriptVars, bridgeVars, queue, stopEvent, zeros, entered,
                 orphan, robotVars>>

(* The SetVelocity request reaches the robot.                               *)
RobotReceives ==
  /\ worker = "call"
  /\ robot' = item /\ robotAge' = 0
  /\ worker' = "acked"
  /\ UNCHANGED <<scriptVars, bridgeVars, queue, stopEvent, item, phaseAge,
                 zeros, entered, orphan>>

(* SetVelocity returns, with the reply or with its timeout code; the code   *)
(* is only logged.                                                          *)
WorkerReturns ==
  /\ worker = "acked" \/ (worker = "call" /\ phaseAge >= RpcTimeout)
  /\ LoopTop
  /\ UNCHANGED <<scriptVars, bridgeVars, queue, stopEvent, item, entered,
                 orphan, robotVars>>

(* An exception in the loop runs the finally clause; in the SDK set-up,     *)
(* before the try, it just ends the process.                                *)
WorkerFails ==
  /\ \/ worker = "init" /\ WorkerEnds
     \/ /\ worker \in {"get", "call", "acked"}
        /\ worker' = "final" /\ zeros' = FinalRequests
        /\ item' = Zero /\ phaseAge' = 0
        /\ UNCHANGED entered
  /\ UNCHANGED <<scriptVars, bridgeVars, queue, stopEvent, orphan, robotVars>>

(* One of the final zero requests reaches the robot ...                     *)
FinalReceived ==
  /\ worker = "final"
  /\ robot' = Zero /\ robotAge' = 0
  /\ UNCHANGED <<scriptVars, bridgeVars, queue, stopEvent, workerVars, orphan>>

(* ... and returns, raises or times out, received or not; the process ends  *)
(* after the last one.                                                      *)
FinalReturns ==
  /\ worker = "final"
  /\ \/ zeros = 1 /\ WorkerEnds
     \/ /\ zeros > 1 /\ zeros' = zeros - 1 /\ phaseAge' = 0
        /\ UNCHANGED <<worker, item, entered>>
  /\ UNCHANGED <<scriptVars, bridgeVars, queue, stopEvent, orphan, robotVars>>

(* The worker process is killed; the bridge never looks at it.              *)
WorkerKilled ==
  /\ worker # "dead"
  /\ WorkerEnds
  /\ UNCHANGED <<scriptVars, bridgeVars, queue, stopEvent, orphan, robotVars>>

(* A worker left behind by a killed bridge times out on its own queue for   *)
(* ever and keeps requesting zero.                                          *)
OrphanSendsZero ==
  /\ orphan
  /\ robot' = Zero /\ robotAge' = 0
  /\ UNCHANGED <<scriptVars, bridgeVars, queue, stopEvent, workerVars, orphan>>

----------------------------------------------------------------------------
(* One unit of time.  The guard is the scheduling assumption: a tick is at  *)
(* most MaxGap after the last one, a waiting worker takes a queued item at  *)
(* once, and each of its requests, the final ones too, returns by its       *)
(* timeout.  The robot forgets a request after SdkDuration.                 *)
Elapse ==
  /\ bridge = "running" => tickAge < MaxGap
  /\ bridge = "stopping" => tickAge < JoinTimeout /\ worker # "dead"
  /\ worker = "get" => queue = <<>> /\ phaseAge < QueueTimeout
  /\ worker = "init" => phaseAge < InitLimit
  /\ worker \in {"call", "acked", "final"} => phaseAge < RpcTimeout
  /\ latestAge' = IF latest = NoCmd THEN 0 ELSE Older(latestAge, CmdTimeout + 1)
  /\ armedAge' = IF wasArmed THEN Older(armedAge, ArmSettle) ELSE 0
  /\ motionAge' = IF motionAge = NoAge THEN NoAge
                  ELSE Older(motionAge, FirstMotion)
  /\ tickAge' = IF bridge = "down" THEN 0 ELSE tickAge + 1
  /\ phaseAge' = IF worker = "dead" THEN 0 ELSE phaseAge + 1
  /\ robotAge' = IF robot = Zero THEN 0 ELSE (robotAge + 1) % SdkDuration
  /\ robot' = IF robotAge + 1 = SdkDuration THEN Zero ELSE robot
  /\ UNCHANGED <<scriptVars, bridge, latest, wasArmed, out, queue, stopEvent,
                 worker, item, zeros, entered, orphan>>

Scripts == \/ ArmCheck \/ ArmTouch \/ Stop
           \/ StartRemove \/ StartAlreadyRunning \/ StartLaunch

Bridge == \/ \E c \in Commands : OnCmd(c)
          \/ Tick \/ Shutdown \/ JoinDone \/ JoinTerminate

Worker == \/ WorkerReady \/ WorkerDequeue \/ WorkerGetTimeout
          \/ RobotReceives \/ WorkerReturns
          \/ FinalReceived \/ FinalReturns \/ OrphanSendsZero

Faults == BridgeKilled \/ WorkerFails \/ WorkerKilled

Next == Scripts \/ Bridge \/ Worker \/ Faults \/ Elapse

Spec == Init /\ [][Next]_vars

(* The two processes and the clock keep running; scripts, commands, signals *)
(* and faults need never happen.                                            *)
Fairness == /\ WF_vars(Elapse)
            /\ WF_vars(Tick) /\ WF_vars(JoinDone) /\ WF_vars(JoinTerminate)
            /\ WF_vars(WorkerReady) /\ WF_vars(WorkerDequeue)
            /\ WF_vars(WorkerGetTimeout) /\ WF_vars(WorkerReturns)
            /\ WF_vars(FinalReturns)

FairSpec == Spec /\ Fairness

----------------------------------------------------------------------------
(* Properties.                                                              *)

Ages == /\ latestAge \in 0..(CmdTimeout + 1)
        /\ armedAge \in 0..ArmSettle
        /\ motionAge \in {NoAge} \cup 0..FirstMotion
        /\ tickAge \in Nat /\ phaseAge \in Nat
        /\ robotAge \in 0..(SdkDuration - 1)

Finals == /\ zeros \in 0..FinalRequests /\ (worker = "final" => zeros > 0)
          /\ entered \in BOOLEAN

(* Type invariant.  Velocities are only known to be integers here; their    *)
(* limits are Limited.                                                      *)
TypeOK ==
  /\ token \in BOOLEAN /\ wasArmed \in BOOLEAN
  /\ stopEvent \in BOOLEAN /\ orphan \in BOOLEAN
  /\ armScript \in {"idle", "checked"}
  /\ startScript \in {"idle", "removed"}
  /\ bridge \in {"down", "running", "stopping"}
  /\ worker \in {"init", "get", "call", "acked", "final", "dead"}
  /\ latest \in Commands \cup {NoCmd}
  /\ out \in Velocity /\ item \in Velocity /\ robot \in Velocity
  /\ queue \in Seq(Velocity) /\ Len(queue) <= QueueMax
  /\ Ages /\ Finals

(* Whatever Nav2 publishes (reverse, overspeed, NaN) and however the slew   *)
(* limiter, the queue and the worker interleave, every velocity in the      *)
(* pipeline stays within the envelope the operator is told: no reverse, at  *)
(* most MaxVx forward and MaxWz of yaw.                                     *)
Limited ==
  /\ out \in Envelope /\ item \in Envelope /\ robot \in Envelope
  /\ \A k \in 1..Len(queue) : queue[k] \in Envelope

(* A command received before the arming edge the bridge saw is never acted  *)
(* on after it: while armed, the command held is not older than the arming. *)
CommandAfterArming ==
  wasArmed /\ latest # NoCmd => Lesser(latestAge, ArmSettle) <= armedAge

(* The bridge's limited velocity is nonzero only between a tick that found  *)
(* the token present, settled for ArmSettle, with a command in hand that is *)
(* no older than CmdTimeout plus one tick, and the next tick.               *)
MotionNeedsArming ==
  out # Zero => /\ bridge = "running"
                /\ wasArmed /\ armedAge = ArmSettle
                /\ latest # NoCmd
                /\ latestAge <= CmdTimeout + tickAge

(* However late a tick is, and however motion was interrupted before it,    *)
(* the limited velocity moves by at most the ramp over the capped dt, or    *)
(* drops to zero.                                                           *)
BridgeRamp ==
  [][out' # Zero =>
       /\ out'.vx - out.vx \in -(DvPerUnit * DtCap)..(DvPerUnit * DtCap)
       /\ out'.wz - out.wz \in -(DwPerUnit * DtCap)..(DwPerUnit * DtCap)]_vars

(* terminate() would cut the worker's final zero requests short.  The join  *)
(* never times out on a live worker that had entered its loop when it was   *)
(* asked to stop: what is left of the call or the wait it is in and five    *)
(* requests that all time out still fit in JoinTimeout.  A worker that was  *)
(* in its set-up then has no such promise.                                  *)
ShutdownSendsZeros ==
  bridge = "stopping" /\ tickAge >= JoinTimeout /\ entered => worker = "dead"

(* A shutdown ends, whatever the worker is doing when it is asked to stop.  *)
ShutdownEnds == bridge = "stopping" ~> bridge # "stopping"
=============================================================================
