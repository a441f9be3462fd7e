# Verification of the humanoid navigation stack

TLA+ models, TLC runs and TLAPS proofs of the parts of this repository that
decide *whether* the robot moves, where it is believed to be, where it is sent,
and what the people at its display and its log files are told. How well
registration, filtering and planning do their numerical work is not modelled;
what the program does with any outcome of theirs is.

## 1. The system

A Unitree G1 carries a Livox lidar. In a container, Fast-LIO builds odometry and
maps, a localizer finds the robot in a map, and Nav2 plans and emits velocity
commands. On the host, a gateway decides which of them reach the robot. A
websocket bridge shows all this in a browser and takes goals from it. Scripts
set the system up and judge recordings of it.

| Part | Code | State it keeps | Operations | Interacts by |
|---|---|---|---|---|
| Motion gateway, bridge | `host/g1_cmd_vel_bridge.py` (`main`, `Bridge`) | latest command and its time, arming edge, first-motion time, last output | `on_cmd`, 10 Hz `tick`, shutdown | ROS topic in; arm token file; two-slot multiprocessing queue out |
| Motion gateway, SDK worker | same file, `sdk_worker` | velocity, last dequeue time | dequeue, time out, `SetVelocity`, five final zeros | queue and stop event in; Unitree RPC out |
| Gateway scripts | `host/bin/g1-motion-*` | token and pid files | arm, stop, start | files, signals |
| Reinitialization supervisor | `reinitialization_supervisor_{policy,node}.py` | episode state, attempts, walked list, pending reply; fixes and velocities for moving seeds | one timer, four callbacks | request topic, alignment status, asynchronous query service, `/initialpose` |
| Goal adapter | `nav/g1_goal_to_nav.py` | goal and spin handles, pending click, stamps, grace period | clicks, cancel, and the callbacks of goal, cancel and result futures | Nav2 actions |
| ICP localizer | `src/localizer.py` | matched and broadcast transforms, filters, counters of loss and drift | one timer, two subscriptions | topics, TF |
| Global localization | `global_localization_{node,query}.py`, `make_bbs_relocalization_attempts.py`, `generate_occupancy_map_from_pcd.py` | last scan; during a query, the search's heap and the candidates | query: search, registration, final pass | service, map files |
| Odometry and pose nodes | `publish_{odom_from_twist,cmd_vel_odom,pose_from_odom,odom_from_localization}.py` | integrated pose, last stamp, latched transform | messages, a timer | topics, TF |
| Nav2 launch, initial poses | `nav2_navigation.launch.py`, `republish_initialpose_on_reinit.py` | rewritten parameters; burst counters and times | launch, request, pose, timer | launch arguments, topics |
| Relocalization artefact scripts | eleven scripts around `make_relocalization_reset_commands.py` | attempts, candidates, jobs, scans, scores, plan, commands, observation | each reads files and writes one | files |
| Acceptance and recovery experiments | `experiments/*`, `run_*_experiments.py` | staleness, rejection streak, guard latches | one decision per sample | Python calls |
| IMU comparison | `run_lidar_localization_imu_comparison.py`, `validation_model.py` | a directory of reports and logs | run modes, validate, compare, render | processes, files |
| Bringup doctor | `create_lidar_localization_config.py`, `check_lidar_localization_bringup.py`, `bringup_model.py`, `ros_doctor.py` | what it has seen | configure, listen, judge | files, topics |
| rosbridge overlay | `visualization/rosbridge/python/rosbridge_library` | per client: tables of subscriptions and advertisements, receive buffers; shared: subscribers, publishers, fragments | protocol operations, executor callbacks, queue worker, timers | websockets, threads, shared tables |
| Localizer (C++) | `lidar_localization_component.cpp`, `*_policy.hpp` | pose, prediction, recovery counters, request latch | scan, odometry, IMU, initial pose, lifecycle | topics, TF |
| Fast-LIO | `laserMapping.cpp`, `ikd_Tree.cpp` | scan, time and IMU buffers, map tree, rebuild log | sensor callbacks, main timer, map save, rebuild thread | topics, threads |
| Stack and navigation scripts | `scripts/*.sh`, `nav/*.sh`, `host/bin/*` | pid files, processes, map file | start in order, save, stop | files, signals, Docker |
| Pose bridge, relays, display | `nav/g1_nav_pose_bridge.py`, two relays, `livox_viz_node.cpp` | last pose, clouds | timer, relays | TF, topics |

What is hard in it:

* two processes with a lossy queue, timeouts on both sides, kill and restart of
  either, and an operator who acts through files between two polls (gateway);
* answers that come late, after the one who asked has moved on (supervisor,
  goal adapter), and what one query leaves behind for the next (seed motion);
* budgets and latches that must survive every branch of an episode (supervisor);
* tables shared by threads without a lock, a worker that sleeps on a condition
  while another thread waits for it to end, a table changed while it is iterated
  over, text that arrives cut and joined (websocket bridge);
* a search that prunes, over grids that were written, turned upside down, padded,
  coarsened and dilated by different programs (global localization);
* a lock on the wrong place that later matches would smooth instead of reject
  (ICP localizer);
* frames latched at whatever message came first (odometry nodes);
* files that go stale between scripts run by hand in any order, and exit codes
  that speak about files an earlier invocation left (scripts).

What makes each part correct is stated with its properties in section 3;
`hazards` in PROJECT.json has the list by source line.

## 2. The modules

| Module | What it is |
|---|---|
| `MotionGateway` | bridge, worker, queue, scripts, faults and time |
| `MotionGatewayRevocation` | the gateway with an observer of how long permission has been gone |
| `ReinitPolicy`, `ReinitSupervisor` | `decide` as a reducer on one variable; the node around it, which extends it |
| `ResetBudget`, `ReinitAudit` | abstract: what the supervisor promises about resets; the supervisor with an observer of published resets, mapped to it |
| `SeedMotion` | how the node moves a seed by the motion since the query, open to any order of the policy's decisions |
| `GoalToNav` | the goal adapter with Nav2 as its clients see it |
| `IcpLocalizer` | the single-file localizer on a line, with any outcome of its registrations |
| `OccupancyMap` | pure operators: cloud to occupancy image to matching grid, and scan to offsets |
| `BranchAndBound` | the pyramid, the heap and the candidates of the global search |
| `Ordered` | picking from sequences and sorting them, told by how many elements come before; for the search and the scripts |
| `GlobalQuery` | a query around it: registration of the candidates, ranking, final pass; extends it |
| `OdomFrames` | the four odometry and pose nodes on a grid with quarter turns |
| `InitialPoseBurst` | the launch file's rewriting of parameters and the republisher's bursts |
| `MessageHandlers` | one subscription's plain, throttling and queueing handlers and their threads |
| `TopicSubscriptions` | clients' Subscribe capabilities over the shared SubscriberManager |
| `TopicPublishers` | the lock-free PublisherManager under Advertise and Publish, with its timers |
| `Fragments` | the fragment table all clients share |
| `ClientProtocol` | one client's receive buffer, operations and answers |
| `ResetPipeline` | the chain of relocalization scripts over their files |
| `MeasurementGates` | the experiments' policies and the harnesses that feed them |
| `ImuComparison` | invocations of the comparison over one directory |
| `BringupDoctor` | generated configuration, printed command, doctor |
| `MotionGatewayProofs`, `ReinitProofs`, `GoalToNavProofs` | proofs about the gateway, the supervisor (and that it implements `ResetBudget`) and the goal adapter |
| `PatientUserProofs` | what `MCGoalToNav`'s patient user adds to them |
| `LocalizationProofs`, `BridgeThreadsProofs`, `BridgeTablesProofs`, `OfflineScriptsProofs` | proofs about the parts of the composition `MC*` of the same name, over its specification: `GlobalQuery` with the search it extends, `IcpLocalizer`, `SeedMotion`, `OdomFrames`, `InitialPoseBurst`; `MessageHandlers`, `TopicPublishers`; `TopicSubscriptions`, `ClientProtocol`, `Fragments`; `MeasurementGates`, `ImuComparison`, `BringupDoctor`, `ResetPipeline` |
| `MC*` | small instances, and the composition of independent parts into one run |

An operator that stands just before another one and extends its name
(`FiniteClampAbove`, `FiniteClamp`) is that operator with a plausible mistake in
it. PROJECT.json pairs it with the property that the mistake must break, so that
every property is known to depend on the code it is about. No other definition
uses such an operator.

`map` in PROJECT.json names the source lines of every definition. The sections
below say what a reader of both needs beyond that.

### MotionGateway

Time is discrete. The code compares differences of `time.monotonic()`; each
difference is an *age*, advanced by `Elapse` and saturated just above the value
it is compared with. `Elapse` also carries the scheduling assumption: at most
`MaxGap` between two ticks, a waiting worker takes a queued item at once, calls
return by their timeouts, and the SDK set-up takes at most `InitLimit`.

| Code | Action |
|---|---|
| `g1-motion-arm` 15-25 | `ArmCheck`, `ArmTouch`: the pid check and the touch are two steps |
| `g1-motion-stop` (and `killnav` 10) | `Stop` |
| `g1-motion-bridge-start` | `StartRemove`, then `StartAlreadyRunning` or `StartLaunch` |
| `Bridge.on_cmd`, `Bridge.tick` | `OnCmd`, `Tick` |
| signal, `finally` of `main` | `Shutdown`, then `JoinDone` or `JoinTerminate` |
| SIGKILL of the bridge or the worker | `BridgeKilled`, `WorkerKilled` |
| `sdk_worker` | `WorkerReady`, `WorkerDequeue`, `WorkerGetTimeout`, `RobotReceives`, `WorkerReturns`, `WorkerFails`; `FinalReceived` and `FinalReturns`, five times |
| a worker whose bridge was killed, next to a new pair | `OrphanSendsZero` |

`_put_latest` drains with `get_nowait` while the worker may hold the read lock
and the feeder thread may still be flushing, so `PutLatest` leaves any suffix of
the queue; a full queue drops the new item. `RobotReceives` is separate from
`WorkerReturns`, because the RPC may be lost or its reply late. The finally clause
makes `FinalRequests` = 5 requests one after the other, each of which takes up to
`RpcTimeout`, is received or not, and raises or returns (`zeros` are left). `entered`
is history: the worker's set-up was over before it was told to stop.

### ReinitPolicy, ReinitSupervisor, ReinitAudit, SeedMotion

`decide(params, state, obs)` is one operator per state name and one disjunct per
reason it returns. `sup` is the `SupervisorState`; `Seen(o)` is the common head
of `decide`. Times are ages. A fitness sample is reduced to *none, poor or good*,
a cross-check to *none, within or beyond*, a score to its order relative to
`min_candidate_score`. The node adds what the policy cannot see: a query is
asynchronous, is never cancelled and its reply carries no identity, so
`OnQueryResponse` may bring the reply of an abandoned query at any time.
`AnswersInTime` restricts this to replies that come before the policy's timeout.
`ReinitAudit` adds observer variables and maps the supervisor to `ResetBudget`.

`SeedMotion` is the node's other state: `_prev_sim`, `_prev_wall`, the latest
pose and the velocities made of pairs of them. Positions are on a line, a
velocity is a fraction. It does not compose with `ReinitPolicy` step by step: it
lets the policy ask, publish, walk and end an episode in any order, which
includes every order the policy has.

### GoalToNav

`goals` is external: every goal from its request to its result as Nav2 and the
network hold it. The node's callbacks take from it in any order. A new goal
preempts the one its server runs. `Waits` is an assumption about the user only, the
patient one: no click or cancel until every goal has been answered, runs, and is not
being cancelled. Nothing is assumed about the network: a goal's result may come
before or after the answer to its cancel and after the response of a newer goal, as
ROS allows. `disowned` is history: open goals whose handle was cleared by an answer
about an older one. The final heading spin is switched off by
`start_nav_planning.sh:24`; the model has it because the code has it.

### IcpLocalizer

Each callback runs in the one executor thread and is one action. A transform is
a position in a corridor; what a registration returns (position, fitness, whether
residual and attitude are acceptable) is anything within the bounds of its
search. `matches` is history: positions matched since the last lock. Kept in full
are the order of the gates, the counters that end in loss, the search radius that
grows with drift, and which filters a lock seeds.

### OccupancyMap, BranchAndBound, GlobalQuery

`OccupancyMap` computes: the generator's ground, obstacle and inflation cells,
its padding or route crop, the image it writes upside down, and what the search
reads back; and the scan's range filter, voxels, thinning and rotation. Lengths
are integers in quarters of a matching cell. `BranchAndBound` takes one step per
node of the heap. `GlobalQuery` lets each registration end in any allowed
fitness. Initial tasks are maps that `OccupancyMap` makes of surveyed clouds and
scans taken in them, never grids made up.

### OdomFrames, InitialPoseBurst

Quarter turns make the composition of frames exact, so that the frame algebra is
the code's without its rounding. In `InitialPoseBurst`, time is how long ago the
last pose was published and how long until the next; launch arguments and
parameter file are chosen initially, `_rewrite_localization_params` decides
between them.

### The rosbridge modules

A step is what runs between two points at which another thread may come in: a
method under a lock is one action, a method without one has an action per access
to a shared table. `TopicPublishers` numbers publishers and timers in the order
they are made, so that one that dropped out of the manager's tables is still
there. `met` in it, `doubled` and `refused` in `TopicSubscriptions` are history
by which the properties exclude, by name, the interleavings in which the code
does not keep them. In `Fragments` a behaviour fixes what each client sends: its
messages in order, each with an id, the total its fragments announce and their
numbers in the order they are sent, any of which may be shared, wrong or repeated; a
fragment is lost by a handler that breaks off. `Lone` and `Ascending` say of one
message that its id is its own and its numbers ascend. In `ClientProtocol` a call
has an id of `CallIds`, which an earlier call may have had, or none, and then its
fragments are numbered 0 (`NoId`) like those of subscriptions. A text is its brackets, each of which
knows (unseen by the code) in which message it was sent: an opening bracket is
named after the operation it begins, a closing one is `close`.

### The scripts' modules

A file is its content or `NoFile`. `ResetPipeline` has one action per script with
its refusal to overwrite and its waivers (`Waivers` of the publisher, `oracle` of the
two validations); the alignment log grows between them. The waiver for accepted source
plans is left out, as no script writes such a plan. `ImuComparison`
has one action per step of an invocation and stamps every file with the number of
the invocation that wrote it. `MeasurementGates` and `BringupDoctor` decide as
the code does, over steps and samples on both sides of each threshold.

## 3. The runs

A run may hold several parts of the system that share nothing (`bridge_threads`,
`bridge_tables`, `localization`, `offline_scripts`): a variable says which part is
at work, the others rest in an initial state. The states of such a run are the
union of the parts' states, not their product, and nothing is claimed about their
interplay, of which the code has none. Such a module declares its parts' constants
and its .cfg gives them their values, so that the theorems of section 4 are about
the very specification the run checks, for all values.

| Run | Instance | What it shows |
|---|---|---|
| `gateway_limits` | wild commands (reverse, too fast, NaN), every timeout 1, ticks up to 2 late with dt capped at 1 | `Limited`: all velocities stay in the envelope; `BridgeRamp`: the bridge's output ramps |
| `gateway_stop` | 1 unit = 0.25 s, the code's settling, call and join times | `StopsInTime`: however permission ends, the robot stands `StopLatency` later; `MotionNeedsArming`; `ShutdownSendsZeros`: a worker whose set-up was over is done with its five requests when the join gives up; `ShutdownEnds` |
| `gateway_expire` | the same with an SDK set-up longer than the horizon | disagreement: commands do not expire in the worker |
| `reinit_episodes` | a prompt and a late query service, three attempts, walks of two | `AliasEndsWithEpisode`; `StandDownNeedsEvidence`; `EpisodeEnds`; the refinement `ImplementsBudget` |
| `goal_adapter` | a patient and an impatient user, two places, three goals in flight | patient: `SingleGoalPatient`, `TracksRunningPatient`, but for `disowned` goals; impatient: `PendingIsSentImpatient`; both: `HandlesAreOpen` |
| `bridge_threads` | two clients in the publisher manager; one client's stream with two subscriptions | `KeptWhileAdvertised`, `FinishCompletes`, `TakenDown`; `InOrder`, `NoMissedMessage`, `JoinEnds` |
| `bridge_tables` | two clients and topics; two clients with fragments; one client's protocol | `NoLeakedClient`, `FinishCompletes`, `SettledMissNothing`; `DeliveredIntact`; `HandledInOrder`, `AnswersTellApart` |
| `fragments_kept` | the same | disagreement: a fragment is lost when another list times out |
| `localization` | seeds, global search, ICP localizer, odometry, initial poses | `SimFixIsTop`; `OneVoxelization`, `Exhaustive`, `TruePoseFound`; `PublishedWithinMatches`; `MotionPreserved`; `BurstBounded`, `SameInitialPose` |
| `seed_implausible` | the same, pairs of fixes one unit apart allowed | disagreement: a seed of an implausible query is moved |
| `search_admissible` | maps cropped around a route | disagreement: a block's bound is below a pose's score |
| `offline_scripts` | the four sets of scripts | `IdsDenoteWindows`, `PublishedIsGated`, `AcceptedSawStreak`; `VetoNeedsRefresh`; `ZeroVouches`; `PassMeansUsable` |

### Bounds and why they are enough

* **Gateway.** One speed where only moving or not matters, three where the ramp
  does. The queue has its real size. Ages saturate, so no bound on running time is
  needed, and any number of restarts happens. `Horizon` only ends the observer's
  count. In `gateway_stop` a unit
  is 0.25 s, so that settling (4), a call (1) and the join (8) are the code's; the
  other periods are rounded up. `InitLimit` 5 is *needed*, not a convenience: a bridge killed during the
  worker's SDK set-up leaves its queue behind, and `gateway_expire` shows what a
  slower set-up does.
* **Supervisor.** Two scores (trusted, weak), lists of up to three candidates so
  that both the list's end and `max_walk_candidates` = 2 end a walk, three
  attempts, `Delays` of one and two so that a timeout may be met or overshot.
  `MaxInFlight` = 2 bounds the replies that may still come; a query beyond it is
  issued and never answered.
* **Goal adapter.** Three goals in flight and two cancels; `Room` delays the user,
  never a callback, until slots are free. Three are what it takes for the late
  result of one goal to clear the handle of the next and a third to be sent beside
  it. The single-goal properties need the patient user, and the exception for
  `disowned` goals, and fail without either.
* **Handlers.** `MaxMsgs` = 3 with throttles up to 2 and a queue bound of 1 or 2:
  a message is dropped from a full queue, one waits while another is held, and
  handlers change under both. Ages saturate at the largest throttle.
* **Publishers, subscriptions.** `MaxRequests` = 4, `MaxPubs` = 2, `MaxTimers` = 3:
  advertise, leave, advertise again during the take-down, with a second client in
  each gap; `MaxMsgs` = 2 messages reach the first and the joining subscriber.
  Clients, topics and ids are interchangeable in `bridge_tables`, which has no
  temporal property, and symmetry is used there.
* **Fragments, protocol.** Two messages of each client: with ids of their own; with
  one id for both; the first in the wrong order and the second with a fragment sent
  twice. Two clients share no id, one or both. Lists time out under other messages.
  In the protocol, three messages cut anywhere, two published, two ids for calls, so
  that two calls may have one id, and calls without: without its `PieceIds \ {NoId}`
  `AnswersTellApart` is violated.
* **Search.** In `localization`, maps of 11 by 11 matching cells with a pyramid of
  depth 2 and the generator's padding, wider than a block of the top level; all
  subsets of two pillars and a stranger, two places and two yaws. At depth 2 a
  block has children past the odd edge of the grid. In `search_admissible`, maps
  of 6 by 5 cells cropped around a route: without the padding `Admissible` fails,
  which is the finding. 5 m of padding exceeds a top block at the default
  resolution and depth only.
* **Seeds.** Times 0..3, two queries, replies at most one old: the second reply
  overlaps the first. `MinPairDt` = 2 for `SimFixIsTop`, 1 for `seed_implausible`.
* **ICP localizer.** A corridor of six positions, three fitness values on both
  sides of both thresholds, loss after two bad ticks, a sparse place at the end.
* **Odometry, bursts.** Four steps of odometry; counts, intervals and cooldowns on
  both sides of their clamps.
* **Scripts.** A log of up to four rows (`AcceptedSawStreak` needs them), one run
  of a script that replaces a file in all (`MaxOverwrites`), windows of three rows
  and streaks of two. A chain remade from end to end replaces six files, which is
  beyond this run; the theorems about these properties hold for any
  `MaxOverwrites`. Two invocations of the comparison in one directory; sequences of
  six steps for the experiments.

### Fairness

* Gateway: the clock, the bridge's timer and join, and the worker's own steps are
  weakly fair, as both are running processes whose calls have timeouts; scripts,
  commands, signals and faults need never happen.
* Supervisor: the timer, and answers of the prompt service. A late service need
  never answer, and `EpisodeEnds` holds all the same.
* Goal adapter: only the delivery of cancel answers; Nav2 need not finish anything.
* Bridge: each client's own thread, each timer thread once armed, the queue's
  worker, and time. Messages and requests may stop. `JoinEnds` names the two ways
  in which the code does not keep its promise: a worker that falls asleep after
  the only notify, and one that publishes its head again and again.
* The other parts have safety properties only.

### Disagreements between the code and its own text

`findings` in PROJECT.json quotes the four that runs show. Others were met while
modelling; the models contain the behaviour, and no run checks it:

* `docs/COMMANDS.md:47` (settling) and `docs/COMMANDS.md:51` (the ramp) promise
  more than the bridge does: a stop and an arm between two ticks are one edge to it, and the robot's
  velocity (unlike the bridge's) may jump when items of the queue are dropped.
* A reply to an abandoned query may bring a weak candidate to publication
  (`reinitialization_supervisor_policy.py:29`).
* A shutdown that begins while the worker is in its SDK set-up: the worker then
  comes out of it straight into its five requests, which may take 1.25 s, and after a
  set-up of more than 0.75 s of the join `join(timeout=2.0)` gives up
  (`g1_cmd_vel_bridge.py:293`): `terminate()` hits a live worker. No motion is cut
  off, because the worker's loop never ran.
* "Send every Foxglove click as a single active NavigateToPose goal."
  (`g1_goal_to_nav.py:113`) does not hold, for an impatient user nor for a patient
  one. When the result of an old goal comes after the answer to its cancel and after
  the response of the newer goal, `_on_result` clears the handle whichever goal it is
  about (`g1_goal_to_nav.py:428`). From then on `cancel_navigation` does not reach
  the newer goal, and the next click is sent beside it at once.
* `QueueMessageHandler.finish` says it pushes all buffered messages; the loop
  after the flag publishes `queue[0]` and leaves it there.
* Fragments: the `total` of an outgoing fragment is a float, so a peer rarely sees
  the count reach it; the id is 0 unless the message has one, though the comment
  says
  all need one. Ids of two clients collide in the shared table, and a client may use
  an id again: of messages with one id and one total, fragments are put together as
  they come, also after one of them lost a fragment; and the values of the table are
  joined in the order they arrived, whatever their numbers.
* An answer to a call without an id is fragmented with the number 0, which the
  fragments of all subscriptions have (`fragmentation.py:67-69`,
  `call_service.py:109`): on one socket they cannot be told apart.
* Protocol: `old_buffer` is never reset, so the tail of a repeated batch waits; a
  truncated message with a nested object deafens its client; an unknown operation
  leaves the rest of its batch waiting; `call_service` blocks the client's thread.
* `localizer.py` logs "Publishing hint transform." and publishes its smoothed one;
  the "stricter floor" of re-localization (0.6) is below the ordinary one (0.7).
* `correction_conditioned` refuses good scores for ever if degraded ones it accepts
  keep the prediction fresh (`correction_conditioned.py:42-56`); `VetoNeedsRefresh`
  says that it takes one of those for every two refusals; arbitration downweights a category it does not know although its
  comment says to be conservative; after one rejection the post-reject gate locks
  out 5.5 to 6.
* The observation joins execution and commands by `command_id`, the position of a
  row (`observe_relocalization_reset_execution.py:172`, 214-218), and compares no
  attempt ids: after the commands were remade from another plan, a row has the
  attempt of one and the window of the other. `IdsDenoteWindows` leaves this file out.
* The observer's window of a reset begins at the trigger's stamp, not at the time
  of publishing. Attempts and candidates made from different sources never join,
  and the result is no jobs and no message.
* `bbs` takes the nearest scan however far away it is; docstrings speak of 36 yaws
  where 72 are searched; unknown map cells count as free; a point exactly on a
  manual crop bound falls in the last cell.
* Seed motion: the branch that would use the difference of two poses is never
  taken; late replies underestimate the wall clock's latency.
* A twist whose stamp goes back sets `last_stamp` back, so that its interval is
  integrated again; odometry from the localizer carries its twist in its own axes
  and not the base's; the launch file lets the two demo nodes form a loop that
  never starts; a clock that jumps back silences the republisher.
* The doctor's arguments admit the legacy IMU mode with deskewing; an unknown
  `imu_preintegration_status` gets no result.
* The pose bridge restamps the last transform it got. `send_nav2_goal` leaves its
  goal running when it times out. `g1_goal_to_plan`: an old result wipes the handle
  of a newer goal.

## 4. The proofs

The theorems hold for every value of the constants that satisfies the named
assumption of the module or the ASSUME of the theorem. These are mostly types and
positivity. What goes beyond is named in the theorem:

| Assumption | Needed by | In the code |
|---|---|---|
| `InitIsPrompt` (SDK set-up no longer than `ArmSettle + RpcTimeout`), `JoinIsPatient` (the join outlasts six requests: a call and the five final ones) | the timed theorems of the gateway | 1.0 s, 0.25 s and 2.0 s for settling, call and join; nothing bounds the set-up, which `JoinIsPatient` does not speak of and `ShutdownSendsZeros` excludes |
| `FinalSpin = FALSE` | `AlwaysTracksRunningPatient` | so set by `start_nav_planning.sh`; with the spin on, two final spins may be in flight and the handle of one be overwritten, which TLC shows |
| `ScriptsAssumption` (a client has something to send, and a message a fragment) | `AlwaysDeliveredIntact` | one that sends nothing is one less client |
| `FragmentSize` positive | `AlwaysAnswersTellApart` | left to the client; zero is an exception in `fragment`, a negative one sends nothing |
| `PaddingAssumption` (what stands in a map keeps a block of the pyramid's top level from its lower borders) | `AlwaysAdmissible`, `AlwaysExhaustive`, `AlwaysTruePoseFound` | a map of the whole cloud is padded by 5 m, 0.6 m of which inflation may fill, and a top block is 3.2 m with the default resolution and depth. Nothing relates the two, and a crop around a route or by hand may cut through obstacles: `search_admissible` shows what then happens. TLC evaluates the assumption on the maps of `localization` |
| `TrueScans` (where a scan was taken, its points fall on the map, and the scan has as many points at every yaw) | `AlwaysTruePoseFound` | that writer, reader and preparation agree is what the run of `TruePoseFound` computes for its maps and scans; turning a scan keeps its points |
| `PipelineAssumption` (places and stamps are integers, counts are positive, there is a reference row and a scan) | `AlwaysIdsDenoteWindows`, `AlwaysPublishedIsGated`, `AlwaysAcceptedSawStreak` | scripts that find no row or no scan end with an error |
| `SelectionsAssumption` (only modes are selected) | `AlwaysZeroVouches` | the choices of the argument parser |

* **Gateway.** `IInv` is the types, `Pipeline` (what was last put, what the
  worker holds, what the robot executes and what is queued are all in the
  envelope), `CommandAfterArming` and `MotionNeedsArming`, proved together because
  one lemma about `Tick` serves them all. The clamp has two shapes (bounds that
  may cross, bounds that do not); the slew limiter moves a value of the envelope
  towards another, so it stays inside; `Tick` discards the command on a rising
  edge and both ages advance together. `Limited` and `BridgeRamp` follow.
* **Gateway, time.** `AlwaysStopsInTime`: motion enters the queue only while it is
  permitted, so `revoked` bounds how far a moving item has come. `Timed` says so
  for each place: the k-th item of the queue (`InQueue`), the call (`InCall`) and
  the robot (`Executed`); each may have waited one call more than the place behind
  it. Items only move forward (`PutLatestItems`), no time passes over a queued item
  while the worker waits, and during the set-up the bridge cannot have been armed
  longer than the worker lives (`SetUp`), which is where `InitIsPrompt` enters.
  `AlwaysCommandsExpire` follows as well: the long set-up that `gateway_expire`
  shows is the only cause of that disagreement.
  `AlwaysShutdownSendsZeros`: while stopping, the join is no older than the call the
  worker was in and the requests it has made since (`Stopping`, `Spent`), each of
  them within `RpcTimeout`, and a waiting worker is woken by the zero.
* **Supervisor.** `Sound(sup)` is the strengthening: attempts never exceed the
  maximum and are below it in *await_candidates*; in *settling* the walk index is
  inside the list and the ceiling, an attempt was paid and the reset has an age;
  the alias latch is on in the five states of an episode only. `Cost` relates the
  attempts and the index before and after a step. `AttemptsBounded`,
  `WalkBounded` and `AliasEndsWithEpisode` follow.
* **Refinement.** `Paid` ties the observer to the policy: resets never exceed
  `attempts * MaxWalkCandidates`, and a walk in progress has used no more of its
  attempt than its index says. With it every tick is a step or a stutter of
  `ResetBudget`, and `ResetsBounded` follows. `AlwaysEvidence`: the policy comes to
  a cross-check or a stand-down from settling or with the request cleared only
  (`Entered`), so whoever has stood down has evidence, even if the request is
  asserted again (`Evidenced`).
* **Goal adapter.** `IInv` is the types and `HandlesAreOpen`: every told goal
  keeps its slot until its result is delivered. `PendingHasCancel` counts: the
  branch that keeps a click adds a cancel, only the last cancel answer's callback
  takes one away, and that callback empties `pending`.
* **Goal adapter, patient user.** `OneAtATime` says that the node was told of one
  navigation goal at most and asked for one more at most: the one told of is its
  handle until it is being stopped or disowned, and only then is another asked for,
  with no click kept beside it. `SingleGoalPatient` follows from it, and
  `TracksRunningPatient` with `OnlyNavigates` (no spin is ever asked for).
* **Handlers.** `AlwaysInOrder`, for any subscriptions, parameters and number of
  messages. `InOrder` is not inductive: what was published is in order only
  because what the worker holds and what waits in the queue is. `IInv` says that
  `out` and `held` are not beyond the queue, the queue is in order, what is being
  delivered is not before what was published, and a handler without a thread has
  neither queue nor worker, so that a direct publish can overtake nothing. Three
  lemmas say what taking the newest, appending and taking the head do to such a
  queue. `AlwaysNoMissedMessage`: throttles and what is left of them stay below
  *for ever* (`Timed`), so a worker sleeps without a timeout only over an empty
  queue, and a put into an empty queue notifies.
* **Publisher manager.** `AlwaysKeptWhileAdvertised`, for any number of clients and
  advertisements. The manager has no lock: a client may meet another between each
  two of its table accesses. The invariant follows every call through its accesses
  and says what of the tables it may still rely on when nobody was met; `met` is
  what excludes the rest. The attempt found an interleaving of *three* clients
  that the two-client instance does not have (two that saw no publisher create one
  each, while a third works with the first); what counts as a meeting (`Replacing`,
  `Overlapped`) takes it in now. `AlwaysFinishCompletes` is of
  the same invariant: an unregister that met nobody finds what it found before.
* **Subscriptions.** `TablesInv` relates the three tables: who is registered with a
  topic's `MultiSubscriber` (settled, or still at the second subscription), who has
  a `Subscription` of its own, and the two ways in which these differ, both by
  name (`doubled`, `refused`). `MessagesInv`: what waits is owed to settled clients
  only, and what is owed waits.
* **Protocol.** `OrderInv`: what was handled, what is in the buffer and what is
  still to come never overlap and each is in the order sent (`InTurn`, `Precede`);
  every way the buffer is cut keeps a later part of it. `AnswersInv` does the same
  for fragments: answers are cut and sent by one thread, one after the other, so that
  between two of its fragments nobody sends any with an id other than 0 (`Continues`,
  `Together`).
* **Fragments.** `FragmentsInv` says of the shared table that its ids are apart, that
  a fragment is in the list of its message's id (`Filed`), and that a list with the id
  of a `Good` message, one with an id to itself and ascending numbers, holds that
  message's fragments only, in ascending order (`Owned`), whatever thread was
  interrupted where: a list as long as the message leaves none out. Nothing is said
  of the lists of other messages, and nothing assumed.
* **Search.** `AlwaysAdmissible`: the maximum of a block is at least every cell in
  it; a point hits the block of its cell or the one before, which the dilation
  covers unless it would lie below the border, where a map with padding has no hit;
  and four quarters make up a block, less those that begin past the edge
  (`BoundIsAdmissible`, `QuartersAre`, `TopCellsAre`). `AlwaysExhaustive`: a bound
  never grows downwards (`BoundNeverGrows`) and the heap gives the greatest first,
  so the leaves come in the order of their scores (`BestFirst`). From it follows
  that a leaf never pushes out or replaces a better one, and that a pose is kept,
  suppressed by one as good, or still under an open node (`Covered`), through all
  steps: `SearchInv`. When the heap is empty the last case is gone; when nothing in
  it can improve a full list, what is left is no better than the worst kept.
  `AlwaysTruePoseFound`: the place the scan was taken at scores with every point,
  which nothing exceeds; it is accounted for, and the list begins with its greatest
  score (`Foremost`). `AlwaysOneVoxelization`: what waits, what is ranked and what
  is answered carry the pass they were scored in, by the stage of the query
  (`PassInv`). The sortings rest on lemmas about ranks in a finite order
  (`RanksInOrder`, `ArrangedKeeps`, `SortedFinds`).
* **ICP localizer.** `AlwaysWithinMatches`: `PublishedWithinMatches` is inductive
  once positions are known to be integers; a smoothing step goes between two
  values that both have matches on either side, and a lock reseeds everything
  from the match it starts with. `TypeCorrect` besides.
* **Seed motion.** `AlwaysSimFixIsTop`: a reply replaces the fix, its velocity and
  the candidates together; every other action leaves fix and candidates alone, and
  the velocity too or clears it.
* **Odometry.** `AlwaysMotionPreserved` rests on an algebra of quarter turns: a
  turn and its inverse, composition with an inverse, and that the motion seen
  between two poses is the same after any frame is put before both.
* **Initial poses.** `AlwaysBurstBounded`: the poses still due fit into what is
  left of the burst (`Due`). `AlwaysSameInitialPose`: `Origins` says where the two
  poses came from, for all combinations of launch arguments and parameter file.

* **Acceptance gates.** `vetoes <= 2 * refreshed + rejected`, and the gap grows with
  `rejected`, so a third refusal of a good score since something was accepted would
  need a fresh prediction, which is stale by then.
* **Comparison.** `ZeroVouches` is about the end; the invariant says of each planned
  mode that each command has either done its part or still waits (`Progress`), and
  that every recording that waits is followed by a validation (`InOrder`): a mode
  named twice is recorded twice, which makes its first verdict stale. The commands
  come from `FlattenSeq`, a recursive function; that it exists and what it returns
  (`Flattened`) is proved first, by the least position that lacks it
  (`EveryPosition`). While the exit code stands, files and plan are those it was
  given for, so a report rendered again says the same (`Finished`).
* **Doctor.** The printed command requires what the parameters need
  (`CommandFits`), and what is required and missing fails (`NothingIsMissing`,
  `StatusIsStrict`).
* **Relocalization scripts.** `AlwaysIdsDenoteWindows`: a row appended to the log keeps every window it had, as
  the first windows of a longer list; the invariant says of each file, also of the
  jobs, scans and scores between, that its rows name a window by its id. What
  sorting, picking and cutting return are rows of what they were given.
  `AlwaysPublishedIsGated` puts `GatedInv` on top of that invariant: scans, scores,
  plan and commands each say of a row what registering its seed with the scan next to
  its window made of it (`Registered`). The plan's step is the one that needs work:
  the row at the head of a sorted list of eligible ones is one of them (`ChosenIs`),
  for which a least element is found by score, rank and place (`BestExists`). Its
  trigger is taken from the attempt's first row and belongs to the chosen one because
  both have the attempt's id. Whatever was waived or validated plays no part.
  `AlwaysAcceptedSawStreak`: a published row of the execution has its pose among
  what was sent, and the streak counted by `Longer` row by row is a run of ok rows
  that stands in the log, which only grows.

The types that no run lists (`TypeOK` of the gateway, the supervisor, the goal
adapter and the ICP localizer), and `CommandAfterArming`, `AttemptsBounded`,
`WalkBounded`, `ResetsBounded` and `PendingHasCancel`, are proved and not run.

Only model-checked:

* liveness (`ShutdownEnds`, `EpisodeEnds`, `PendingIsSentImpatient`, `TakenDown`,
  `JoinEnds`), which is out of this prover's reach;
* that what `OccupancyMap` makes of a cloud and of a scan agree (`TrueScans`): a
  computation over the run's maps;
* the four disagreements, each a counterexample.

## 5. What is not modelled

* Registration, filtering, planning, transforms as values: numerical. Models allow
  any outcome.
* The C++ localizer: besides its registration, counters over scans; the supervisor
  sees them as alignment statuses, which `ReinitSupervisor` leaves open.
* Fast-LIO's buffers and the ikd-Tree's rebuild thread: in the plan below.
* Container and navigation shell scripts, except those of the gateway: sequential,
  their races are over pid files.
* Pose bridge and relays: one message in, one out. `g1_goal_to_plan.py`: launched
  by nothing. The Livox display node.
* Services offered by websocket clients: `RosbridgeProtocol` does not register that
  capability. CBOR, message conversion, `rosapi`: conversions.
* The gateway's passive heading audit, the token removed and put back within one
  tick as a *property* (the model contains it), all logging.
* Reports, dashboards, dataset converters and benchmark scripts: they read results
  and nothing of the system reads theirs. Vendored SDK and registration libraries.

## 6. Plan

Sections 1 to 5 are done. What would come next, in this order:

1. `LocalizerRecovery`: `recovery_supervisor.hpp`, its state policy, the request
   latch and initial-pose admission; then its composition with `ReinitSupervisor`
   into the closed loop. Abstract: a request is asserted from loss to confirmed
   recovery.
2. `ScanIntake`: Fast-LIO's scan, time and IMU buffers; property: a scan is
   processed with its own time. Map save against shutdown.
3. `TreeRebuild`: the ikd-Tree rebuild thread against updates and searches;
   abstract: a set of points with atomic operations.
4. `StackScripts`: pid files and map files; one instance, no map lost.
5. Proofs: the refinements of 1 and 3; that the grid and the scan `OccupancyMap`
   makes agree (`TrueScans`) for any cloud.
