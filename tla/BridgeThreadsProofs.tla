------------------------- MODULE BridgeThreadsProofs -------------------------
(* The two parts of the rosbridge overlay without a lock, for any number of  *)
(* clients, advertisements, subscriptions and messages. First the order in   *)
(* which one subscription's messages reach the socket, for any throttles and *)
(* queue bounds; then the publisher manager that clients share.              *)
EXTENDS MCBridgeThreads, SequenceTheorems, TLAPS

(* A queue of messages in order, none before low and none after high.        *)
InLine(q, low, high) ==
    /\ q \in Seq(Nat)
    /\ \A i \in 1 .. Len(q) : low <= q[i] /\ q[i] <= high
    /\ \A i, j \in 1 .. Len(q) : i <= j => q[i] <= q[j]

(* What was published, what the worker holds and what waits in the queue are *)
(* in order of arrival, and a handler without a thread leaves nothing behind *)
(* that could be published late.                                             *)
IInv ==
    /\ clients \in [Sids -> Params \union {NotThere}]
    /\ handler \in [kind : {"plain", "throttle", "queue"}, throttle : Nat, qlen : Nat]
    /\ arrived \in Nat /\ out \in Nat /\ held \in Nat
    /\ out <= arrived /\ held <= arrived
    /\ InLine(queue, out, arrived)
    /\ InLine(queue, held, arrived)
    /\ worker = "deliver" => out <= held
    /\ handler.kind # "queue" => worker = "none" /\ queue = <<>>

-----------------------------------------------------------------------------
(* What the operations of a deque do to such a queue.                        *)

LEMMA MaxWithZero ==
  ASSUME NEW n \in Int
  PROVE  Max({n, 0}) = IF n >= 0 THEN n ELSE 0
<1> DEFINE m == IF n >= 0 THEN n ELSE 0
<1>1. m \in {n, 0} /\ \A y \in {n, 0} : m >= y
  OBVIOUS
<1>2. \A x \in {n, 0} : (\A y \in {n, 0} : x >= y) => x = m
  OBVIOUS
<1> HIDE DEF m
<1>3. (CHOOSE x \in {n, 0} : \A y \in {n, 0} : x >= y) = m
  BY <1>1, <1>2
<1> QED
  BY <1>3 DEF Max, m

LEMMA NewestInLine ==
  ASSUME NEW q, NEW low \in Nat, NEW high \in Nat, InLine(q, low, high), NEW n \in Nat
  PROVE  InLine(Newest(q, n), low, high)
<1> DEFINE k == Max({Len(q) - n, 0})
<1>1. q \in Seq(Nat) /\ Len(q) \in Nat /\ \A i \in 1 .. Len(q) : q[i] \in Nat
  BY LenProperties DEF InLine
<1>2. k \in Nat /\ k <= Len(q)
  BY <1>1, MaxWithZero
<1> HIDE DEF k
<1> DEFINE p == SubSeq(q, k + 1, Len(q))
<1>3. \A i \in (k + 1) .. Len(q) : q[i] \in Nat
  BY <1>1, <1>2
<1>4. /\ p \in Seq(Nat)
      /\ Len(p) = IF k + 1 <= Len(q) THEN Len(q) - (k + 1) + 1 ELSE 0
      /\ \A i \in 1 .. Len(q) - (k + 1) + 1 : p[i] = q[k + 1 + i - 1]
  BY <1>1, <1>2, <1>3, SubSeqProperties
<1> HIDE DEF p
<1>5. \A i \in 1 .. Len(p) : i + k \in 1 .. Len(q) /\ p[i] = q[i + k]
  BY <1>1, <1>2, <1>4
<1>6. \A i \in 1 .. Len(p) : low <= p[i] /\ p[i] <= high
  BY <1>5 DEF InLine
<1>7. ASSUME NEW i \in 1 .. Len(p), NEW j \in 1 .. Len(p), i <= j PROVE p[i] <= p[j]
  <2>1. i + k \in 1 .. Len(q) /\ j + k \in 1 .. Len(q) /\ p[i] = q[i + k] /\ p[j] = q[j + k]
    BY <1>5
  <2>2. i + k <= j + k
    BY <1>2, <1>7
  <2> QED
    BY <2>1, <2>2 DEF InLine
<1>8. InLine(p, low, high)
  BY <1>4, <1>6, <1>7 DEF InLine
<1> QED
  BY <1>8 DEF p, k, Newest

LEMMA AppendInLine ==
  ASSUME NEW q, NEW low \in Nat, NEW high \in Nat, InLine(q, low, high),
         NEW m \in Nat, high <= m, low <= m
  PROVE  InLine(Append(q, m), low, m)
<1> DEFINE p == Append(q, m)
<1>1. q \in Seq(Nat) /\ Len(q) \in Nat /\ \A i \in 1 .. Len(q) : q[i] \in Nat
  BY LenProperties DEF InLine
<1>2. /\ p \in Seq(Nat)
      /\ Len(p) = Len(q) + 1
      /\ \A i \in 1 .. Len(q) : p[i] = q[i]
      /\ p[Len(q) + 1] = m
  BY <1>1, AppendProperties
<1> HIDE DEF p
<1>3. \A i \in 1 .. Len(p) : i = Len(q) + 1 \/ i \in 1 .. Len(q)
  BY <1>1, <1>2
<1>4. ASSUME NEW i \in 1 .. Len(p) PROVE low <= p[i] /\ p[i] <= m
  <2>1. CASE i = Len(q) + 1
    BY <1>2, <2>1
  <2>2. CASE i \in 1 .. Len(q)
    <3>1. low <= q[i] /\ q[i] <= high /\ q[i] \in Nat
      BY <1>1, <2>2 DEF InLine
    <3> QED
      BY <1>2, <2>2, <3>1
  <2> QED
    BY <1>3, <2>1, <2>2
<1>5. ASSUME NEW i \in 1 .. Len(p), NEW j \in 1 .. Len(p), i <= j PROVE p[i] <= p[j]
  <2>1. CASE j = Len(q) + 1
    BY <1>2, <1>4, <2>1
  <2>2. CASE j \in 1 .. Len(q)
    <3>1. i \in 1 .. Len(q)
      BY <1>1, <1>3, <1>5, <2>2
    <3> QED
      BY <1>2, <1>5, <2>2, <3>1 DEF InLine
  <2> QED
    BY <1>3, <2>1, <2>2
<1>6. InLine(p, low, m)
  BY <1>2, <1>4, <1>5 DEF InLine
<1> QED
  BY <1>6 DEF p

LEMMA HeadInLine ==
  ASSUME NEW q, NEW low \in Nat, NEW high \in Nat, InLine(q, low, high), q # <<>>
  PROVE  /\ Head(q) \in Nat /\ low <= Head(q) /\ Head(q) <= high
         /\ InLine(q, Head(q), high)
         /\ InLine(Tail(q), low, high)
         /\ InLine(Tail(q), Head(q), high)
<1>1. q \in Seq(Nat) /\ Len(q) \in Nat \ {0} /\ \A i \in 1 .. Len(q) : q[i] \in Nat
  BY LenProperties, EmptySeq DEF InLine
<1>2. Head(q) = q[1] /\ 1 \in 1 .. Len(q)
  BY <1>1
<1>3. Head(q) \in Nat /\ low <= Head(q) /\ Head(q) <= high
  BY <1>1, <1>2 DEF InLine
<1>4. \A i \in 1 .. Len(q) : Head(q) <= q[i]
  BY <1>2 DEF InLine
<1>5. InLine(q, Head(q), high)
  BY <1>4 DEF InLine
<1> DEFINE p == Tail(q)
<1>6. p \in Seq(Nat) /\ Len(p) = Len(q) - 1 /\ \A i \in 1 .. Len(p) : p[i] = q[i + 1]
  BY <1>1, HeadTailProperties
<1> HIDE DEF p
<1>7. \A i \in 1 .. Len(p) : i + 1 \in 1 .. Len(q)
  BY <1>1, <1>6
<1>8. \A i, j \in 1 .. Len(p) : i <= j => p[i] <= p[j]
  <2>1. SUFFICES ASSUME NEW i \in 1 .. Len(p), NEW j \in 1 .. Len(p), i <= j PROVE p[i] <= p[j]
    OBVIOUS
  <2>2. p[i] = q[i + 1] /\ p[j] = q[j + 1] /\ i + 1 <= j + 1
    BY <1>6, <2>1
  <2> QED
    BY <1>7, <2>2 DEF InLine
<1>9. InLine(p, low, high) /\ InLine(p, Head(q), high)
  BY <1>4, <1>6, <1>7, <1>8 DEF InLine
<1> QED
  BY <1>3, <1>5, <1>9 DEF p

LEMMA EmptyInLine == ASSUME NEW low, NEW high PROVE InLine(<<>>, low, high)
BY EmptySeq DEF InLine

-----------------------------------------------------------------------------
(* The threads' steps.                                                       *)

Step == out' >= out /\ out' <= arrived'

LEMMA InitIInv == Init => IInv
BY EmptyInLine DEF Init, IInv

(* A step that leaves messages and the queue handler's thread alone.         *)
LEMMA Undisturbed ==
  ASSUME IInv,
         clients' \in [Sids -> Params \union {NotThere}],
         handler' \in [kind : {"plain", "throttle", "queue"}, throttle : Nat, qlen : Nat],
         handler'.kind = "queue" <=> handler.kind = "queue",
         UNCHANGED <<queue, worker, held, arrived, out>>
  PROVE  IInv' /\ Step
BY DEF IInv, Step, InLine

(* subscribe, unsubscribe and the two setters.                               *)
LEMMA ParametersStep ==
  ASSUME Params \subseteq [throttle : Nat, qlen : Nat], IInv,
         \/ \E sid \in Sids, p \in Params : Subscribe(sid, p)
         \/ \E gone \in {{sid} : sid \in Sids} \union {Sids} : Unsubscribe(gone) \/ Unregister(gone)
         \/ SetThrottle
         \/ SetQueueLength
  PROVE  IInv' /\ Step
<1> USE DEF workerVars, outVars
<1>0. \A s \in Subscribed : clients[s].throttle \in Nat /\ clients[s].qlen \in Nat
  BY DEF IInv, Subscribed
<1>1. ASSUME NEW sid \in Sids, NEW p \in Params, Subscribe(sid, p) PROVE IInv' /\ Step
  <2>1. clients' \in [Sids -> Params \union {NotThere}]
    BY <1>1 DEF Subscribe, IInv
  <2>2. UNCHANGED <<handler, queue, worker, held, arrived, out>>
    BY <1>1 DEF Subscribe
  <2>3. handler' \in [kind : {"plain", "throttle", "queue"}, throttle : Nat, qlen : Nat]
    BY <2>2 DEF IInv
  <2> QED
    BY <2>1, <2>2, <2>3, Undisturbed
<1>2. ASSUME NEW gone, Unsubscribe(gone) \/ Unregister(gone) PROVE IInv' /\ Step
  <2>1. clients' \in [Sids -> Params \union {NotThere}]
    <3>1. \/ clients' = [s \in Sids |-> IF s \in gone THEN NotThere ELSE clients[s]]
          \/ clients' = [s \in Sids |-> NotThere]
      BY <1>2 DEF Unsubscribe, Unregister
    <3> QED
      BY <3>1 DEF IInv
  <2>2. UNCHANGED <<handler, queue, worker, held, arrived, out>>
    BY <1>2 DEF Unsubscribe, Unregister
  <2>3. handler' \in [kind : {"plain", "throttle", "queue"}, throttle : Nat, qlen : Nat]
    BY <2>2 DEF IInv
  <2> QED
    BY <2>1, <2>2, <2>3, Undisturbed
<1>3. CASE SetThrottle \/ SetQueueLength
  <2>1. PICK s \in Subscribed : \/ handler' = [handler EXCEPT !.throttle = clients[s].throttle]
                                \/ handler' = [handler EXCEPT !.qlen = clients[s].qlen]
    BY <1>3 DEF SetThrottle, SetQueueLength
  <2>2. UNCHANGED <<clients, queue, worker, held, arrived, out>>
    BY <1>3 DEF SetThrottle, SetQueueLength
  <2>3. /\ handler' \in [kind : {"plain", "throttle", "queue"}, throttle : Nat, qlen : Nat]
        /\ handler'.kind = handler.kind
    BY <1>0, <2>1 DEF IInv
  <2>4. clients' \in [Sids -> Params \union {NotThere}]
    BY <2>2 DEF IInv
  <2> QED
    BY <2>2, <2>3, <2>4, Undisturbed
<1> QED
  BY <1>1, <1>2, <1>3

(* The changes of handler.                                                   *)
LEMMA TransitionStep ==
  ASSUME IInv,
         TransitionPlainly \/ TransitionToQueue \/ TransitionWithinQueue \/ Finish \/ Joined
  PROVE  IInv' /\ Step
<1> USE DEF workerVars, outVars
<1>0. KindFor(handler) \in {"plain", "throttle", "queue"}
  BY DEF KindFor
<1>1. CASE TransitionPlainly
  <2>1. /\ handler' \in [kind : {"plain", "throttle", "queue"}, throttle : Nat, qlen : Nat]
        /\ handler'.kind # "queue" /\ handler.kind # "queue"
    BY <1>0, <1>1 DEF TransitionPlainly, IInv
  <2>2. UNCHANGED <<clients, queue, worker, held, arrived, out>>
    BY <1>1 DEF TransitionPlainly
  <2>3. clients' \in [Sids -> Params \union {NotThere}]
    BY <2>2 DEF IInv
  <2> QED
    BY <2>1, <2>2, <2>3, Undisturbed
<1>2. CASE TransitionToQueue
  <2>1. /\ handler' \in [kind : {"plain", "throttle", "queue"}, throttle : Nat, qlen : Nat]
        /\ handler'.kind = "queue"
        /\ queue' = <<>> /\ worker' = "check"
        /\ UNCHANGED <<clients, held, arrived, out>>
    BY <1>2 DEF TransitionToQueue, IInv
  <2>2. InLine(queue', out', arrived') /\ InLine(queue', held', arrived')
    BY <2>1, EmptyInLine
  <2> QED
    BY <2>1, <2>2 DEF IInv, Step
<1>3. CASE TransitionWithinQueue
  <2>1. /\ queue' = Newest(queue, handler.qlen)
        /\ handler.kind = "queue"
        /\ UNCHANGED <<clients, handler, worker, held, arrived, out>>
    BY <1>3 DEF TransitionWithinQueue
  <2>2. handler.qlen \in Nat
    BY DEF IInv
  <2>3. InLine(Newest(queue, handler.qlen), out, arrived) /\ InLine(Newest(queue, handler.qlen), held, arrived)
    BY <2>2, NewestInLine DEF IInv
  <2>4. InLine(queue', out', arrived') /\ InLine(queue', held', arrived')
    BY <2>1, <2>3
  <2> QED
    BY <2>1, <2>4 DEF IInv, Step
<1>4. CASE Finish
  <2>1. UNCHANGED <<clients, handler, queue, worker, held, arrived, out>>
    BY <1>4 DEF Finish
  <2>2. /\ clients' \in [Sids -> Params \union {NotThere}]
        /\ handler' \in [kind : {"plain", "throttle", "queue"}, throttle : Nat, qlen : Nat]
    BY <2>1 DEF IInv
  <2> QED
    BY <2>1, <2>2, Undisturbed
<1>5. CASE Joined
  <2>1. /\ handler' \in [kind : {"plain", "throttle", "queue"}, throttle : Nat, qlen : Nat]
        /\ queue' = <<>> /\ worker = "none"
        /\ UNCHANGED <<clients, worker, held, arrived, out>>
    BY <1>0, <1>5 DEF Joined, IInv
  <2>2. InLine(queue', out', arrived') /\ InLine(queue', held', arrived')
    BY <2>1, EmptyInLine
  <2> QED
    BY <2>1, <2>2 DEF IInv, Step
<1> QED
  BY <1>1, <1>2, <1>3, <1>4, <1>5

(* A message that arrives is newer than all that are on their way.           *)
LEMMA ArriveStep == ASSUME IInv, Arrive PROVE IInv' /\ Step
<1> DEFINE m == arrived + 1
<1>1. /\ arrived' = m /\ m \in Nat
      /\ out <= m /\ held <= m /\ arrived <= m
      /\ UNCHANGED <<clients, handler, worker, held>>
  BY DEF Arrive, clientVars, IInv
<1>2. CASE Direct
  <2>1. queue' = queue /\ out' = m /\ handler.kind # "queue"
    BY <1>1, <1>2 DEF Direct, Publish
  <2>2. queue' = <<>> /\ worker = "none"
    BY <2>1 DEF IInv
  <2>3. InLine(queue', out', arrived') /\ InLine(queue', held', arrived')
    BY <2>2, EmptyInLine
  <2> QED
    BY <1>1, <2>1, <2>2, <2>3 DEF IInv, Step
<1>3. CASE Dropped
  <2>1. queue' = queue /\ out' = out
    BY <1>3 DEF Dropped, outVars
  <2>2. InLine(queue', out', arrived') /\ InLine(queue', held', arrived')
    BY SMTT(30), <1>1, <2>1 DEF IInv, InLine
  <2> QED
    BY <1>1, <2>1, <2>2 DEF IInv, Step
<1>4. CASE Queued
  <2>1. queue' = Newest(Append(queue, m), handler.qlen) /\ out' = out /\ handler.kind = "queue"
    BY <1>1, <1>4 DEF Queued, outVars
  <2>2. InLine(Append(queue, m), out, m) /\ InLine(Append(queue, m), held, m)
    BY <1>1, AppendInLine DEF IInv
  <2>3. handler.qlen \in Nat
    BY DEF IInv
  <2>4. /\ InLine(Newest(Append(queue, m), handler.qlen), out, m)
        /\ InLine(Newest(Append(queue, m), handler.qlen), held, m)
    BY <1>1, <2>2, <2>3, NewestInLine DEF IInv
  <2>5. InLine(queue', out', arrived') /\ InLine(queue', held', arrived')
    BY <1>1, <2>1, <2>4
  <2> QED
    BY <1>1, <2>1, <2>5 DEF IInv, Step
<1> QED
  BY <1>2, <1>3, <1>4 DEF Arrive

(* The queue handler's thread.                                               *)
LEMMA WorkerStep == ASSUME IInv, WorkerSteps PROVE IInv' /\ Step
<1> USE DEF clientVars, workerVars, outVars
<1>1. CASE Check \/ Wait \/ TailEnd
  <2>1. /\ UNCHANGED <<clients, handler, queue, held, arrived, out>>
        /\ worker # "none" /\ worker' # "deliver"
    BY <1>1 DEF Check, Wait, TailEnd
  <2>2. InLine(queue', out', arrived') /\ InLine(queue', held', arrived')
    BY <2>1 DEF IInv
  <2> QED
    BY <2>1, <2>2 DEF IInv, Step
<1>2. CASE Wake
  <2>1. worker = "wait" /\ UNCHANGED <<clients, handler, arrived, out>>
    BY <1>2 DEF Wake
  <2>2. CASE UNCHANGED <<held, queue>> /\ worker' = "check"
    <3>1. InLine(queue', out', arrived') /\ InLine(queue', held', arrived')
      BY <2>1, <2>2 DEF IInv
    <3> QED
      BY <2>1, <2>2, <3>1 DEF IInv, Step
  <2>3. CASE queue # <<>> /\ held' = Head(queue) /\ queue' = Tail(queue) /\ worker' = "deliver"
    <3>1. /\ Head(queue) \in Nat /\ out <= Head(queue) /\ Head(queue) <= arrived
          /\ InLine(Tail(queue), out, arrived)
          /\ InLine(Tail(queue), Head(queue), arrived)
      BY <2>3, HeadInLine DEF IInv
    <3>2. InLine(queue', out', arrived') /\ InLine(queue', held', arrived')
      BY <2>1, <2>3, <3>1
    <3> QED
      BY <2>1, <2>3, <3>1, <3>2 DEF IInv, Step
  <2> QED
    BY <1>2, <2>2, <2>3 DEF Wake
<1>3. CASE Deliver
  <2>1. /\ worker = "deliver" /\ out' = held /\ worker' = "check" /\ held' = 0
        /\ UNCHANGED <<clients, handler, queue, arrived>>
    BY <1>3 DEF Deliver, Publish
  <2>2. InLine(queue', out', arrived')
    BY <2>1 DEF IInv
  <2>3. InLine(queue', held', arrived')
    <3>1. InLine(queue, 0, arrived)
      <4>1. \A i \in 1 .. Len(queue) : queue[i] \in Nat
        BY LenProperties DEF IInv, InLine
      <4> QED
        BY <4>1 DEF IInv, InLine
    <3> QED
      BY <2>1, <3>1
  <2> QED
    BY <2>1, <2>2, <2>3 DEF IInv, Step
<1>4. CASE TailPublish
  <2>1. /\ worker = "tail" /\ queue # <<>> /\ out' = Head(queue)
        /\ UNCHANGED <<clients, handler, queue, worker, held, arrived>>
    BY <1>4 DEF TailPublish, Publish
  <2>2. /\ Head(queue) \in Nat /\ out <= Head(queue) /\ Head(queue) <= arrived
        /\ InLine(queue, Head(queue), arrived)
    BY <2>1, HeadInLine DEF IInv
  <2>3. InLine(queue', out', arrived') /\ InLine(queue', held', arrived')
    BY <2>1, <2>2 DEF IInv
  <2> QED
    BY <2>1, <2>2, <2>3 DEF IInv, Step
<1> QED
  BY <1>1, <1>2, <1>3, <1>4 DEF WorkerSteps

LEMMA StepIInv ==
  ASSUME Params \subseteq [throttle : Nat, qlen : Nat]
  PROVE  IInv /\ [Next]_vars => IInv' /\ [Step]_vars
<1> SUFFICES ASSUME IInv, [Next]_vars PROVE IInv' /\ (Step \/ UNCHANGED vars)
  OBVIOUS
<1>1. ASSUME UNCHANGED <<clients, handler, queue, worker, held, arrived, out>> PROVE IInv' /\ Step
  <2>1. /\ clients' \in [Sids -> Params \union {NotThere}]
        /\ handler' \in [kind : {"plain", "throttle", "queue"}, throttle : Nat, qlen : Nat]
    BY <1>1 DEF IInv
  <2> QED
    BY <1>1, <2>1, Undisturbed
<1>2. CASE UNCHANGED vars \/ Tick
  BY <1>1, <1>2 DEF vars, clientVars, workerVars, outVars, Tick
<1>3. CASE ClientSteps
  BY <1>3, ParametersStep, TransitionStep DEF ClientSteps
<1>4. CASE Arrive
  BY <1>4, ArriveStep
<1>5. CASE WorkerSteps
  BY <1>5, WorkerStep
<1>6. CASE \/ \E sid \in Sids, p \in Params : Subscribe(sid, p)
           \/ \E gone \in {{sid} : sid \in Sids} \union {Sids} : Unsubscribe(gone) \/ Unregister(gone)
  BY <1>6, ParametersStep
<1> QED
  BY <1>2, <1>3, <1>4, <1>5, <1>6 DEF Next

(* One client's messages never overtake each other, whatever handlers its    *)
(* subscription goes through: InOrder, for any parameters of the right type. *)
THEOREM AlwaysInOrder ==
  ASSUME Params \subseteq [throttle : Nat, qlen : Nat]
  PROVE  Spec => InOrder
<1>1. IInv /\ [Next]_vars => IInv' /\ [Step]_vars
  BY StepIInv
<1> QED
  BY <1>1, InitIInv, PTL DEF Spec, InOrder, Step

-----------------------------------------------------------------------------
(* A worker that waits for ever has nothing to send.                         *)

Throttles == {p.throttle : p \in Params} \union {0}
ThrottlesHaveGreatest == \E m \in Throttles : \A t \in Throttles : t <= m

(* A wait with a timeout can be told from one without: throttles and what is *)
(* left of them are below Forever.                                           *)
Timed ==
    /\ clients \in [Sids -> Params \union {NotThere}]
    /\ handler \in [kind : {"plain", "throttle", "queue"}, throttle : 0 .. MaxThrottle, qlen : Nat]
    /\ since \in 0 .. MaxThrottle
    /\ timer \in 0 .. Forever
    /\ NoMissedMessage

LEMMA MaxThrottleType ==
  ASSUME Params \subseteq [throttle : Nat, qlen : Nat], ThrottlesHaveGreatest
  PROVE  /\ MaxThrottle \in Nat
         /\ \A p \in Params : p.throttle \in 0 .. MaxThrottle
<1>1. \A t \in Throttles : t \in Nat
  BY DEF Throttles
<1>2. PICK m \in Throttles : \A t \in Throttles : m >= t
  BY <1>1 DEF ThrottlesHaveGreatest
<1>3. MaxThrottle = CHOOSE x \in Throttles : \A t \in Throttles : x >= t
  BY DEF MaxThrottle, Throttles, Max
<1>4. MaxThrottle \in Throttles /\ \A t \in Throttles : MaxThrottle >= t
  BY <1>2, <1>3
<1>5. \A p \in Params : p.throttle \in Throttles
  BY DEF Throttles
<1> QED
  BY <1>1, <1>4, <1>5

LEMMA TimeRemainingBelowForever ==
  ASSUME MaxThrottle \in Nat, Timed
  PROVE  TimeRemaining \in 0 .. MaxThrottle
<1> DEFINE n == handler.throttle - since
<1>1. n \in Int /\ n <= MaxThrottle
  BY DEF Timed
<1> HIDE DEF n
<1>2. Max({n, 0}) = IF n >= 0 THEN n ELSE 0
  BY <1>1, MaxWithZero
<1> QED
  BY <1>1, <1>2 DEF TimeRemaining, n

LEMMA MinWithTop ==
  ASSUME NEW n \in Nat, NEW top \in Nat
  PROVE  Min({n, top}) \in 0 .. top
<1> DEFINE m == IF n <= top THEN n ELSE top
<1>1. m \in {n, top} /\ \A y \in {n, top} : m <= y
  OBVIOUS
<1>2. \A x \in {n, top} : (\A y \in {n, top} : x <= y) => x = m
  OBVIOUS
<1> HIDE DEF m
<1>3. (CHOOSE x \in {n, top} : \A y \in {n, top} : x <= y) = m
  BY <1>1, <1>2
<1>4. m \in 0 .. top
  BY DEF m
<1> QED
  BY <1>3, <1>4 DEF Min

LEMMA StepTimed ==
  ASSUME Params \subseteq [throttle : Nat, qlen : Nat], ThrottlesHaveGreatest,
         Timed, [Next]_vars
  PROVE  Timed'
<1>0. /\ MaxThrottle \in Nat
      /\ Forever \in Nat /\ 0 # Forever /\ 0 .. MaxThrottle \subseteq 0 .. Forever
      /\ \A t \in 0 .. MaxThrottle : t # Forever
  BY MaxThrottleType DEF Forever
<1>t. TimeRemaining \in 0 .. MaxThrottle
  BY <1>0, TimeRemainingBelowForever
<1>n. Notified \in 0 .. Forever /\ (worker = "wait" => Notified = 0)
  BY <1>0 DEF Notified, Timed
<1>w. \A p \in Params : p.throttle \in 0 .. MaxThrottle /\ p.qlen \in Nat
  BY MaxThrottleType
<1>k. KindFor(handler) \in {"plain", "throttle", "queue"}
  BY DEF KindFor
<1> USE DEF clientVars, workerVars, outVars
<1>1. ASSUME clients' \in [Sids -> Params \union {NotThere}],
             handler' \in [kind : {"plain", "throttle", "queue"}, throttle : 0 .. MaxThrottle, qlen : Nat],
             UNCHANGED <<queue, worker, timer, since>>
      PROVE  Timed'
  BY <1>1 DEF Timed, NoMissedMessage
<1>2. ASSUME NEW sid \in Sids, NEW p \in Params, Subscribe(sid, p) PROVE Timed'
  <2>1. clients' \in [Sids -> Params \union {NotThere}] /\ UNCHANGED <<handler, queue, worker, timer, since>>
    BY <1>2 DEF Subscribe, Timed
  <2> QED
    BY <1>1, <2>1 DEF Timed
<1>3. ASSUME NEW gone, Unsubscribe(gone) PROVE Timed'
  <2>1. clients' \in [Sids -> Params \union {NotThere}] /\ UNCHANGED <<handler, queue, worker, timer, since>>
    BY <1>3 DEF Unsubscribe, Timed
  <2> QED
    BY <1>1, <2>1 DEF Timed
<1>4. ASSUME NEW gone, Unregister(gone) PROVE Timed'
  <2>1. /\ clients' \in [Sids -> Params \union {NotThere}]
        /\ timer' = Notified \/ timer' = timer
        /\ UNCHANGED <<handler, queue, worker, since>>
    BY <1>4 DEF Unregister, Timed
  <2> QED
    BY <1>0, <1>n, <2>1 DEF Timed, NoMissedMessage
<1>5. CASE SetThrottle \/ SetQueueLength
  <2>1. PICK s \in Subscribed : \/ handler' = [handler EXCEPT !.throttle = clients[s].throttle]
                                \/ handler' = [handler EXCEPT !.qlen = clients[s].qlen]
    BY <1>5 DEF SetThrottle, SetQueueLength
  <2>2. clients[s] \in Params
    BY DEF Subscribed, Timed
  <2>3. clients[s].throttle \in 0 .. MaxThrottle /\ clients[s].qlen \in Nat
    BY <1>w, <2>2
  <2>4. handler' \in [kind : {"plain", "throttle", "queue"}, throttle : 0 .. MaxThrottle, qlen : Nat]
    BY <2>1, <2>3 DEF Timed
  <2>5. UNCHANGED <<clients, queue, worker, timer, since>>
    BY <1>5 DEF SetThrottle, SetQueueLength
  <2> QED
    BY <1>1, <2>4, <2>5 DEF Timed
<1>6. CASE TransitionPlainly
  <2>1. /\ handler' \in [kind : {"plain", "throttle", "queue"}, throttle : 0 .. MaxThrottle, qlen : Nat]
        /\ UNCHANGED <<clients, queue, worker, timer, since>>
    BY <1>6, <1>k DEF TransitionPlainly, Timed
  <2> QED
    BY <1>1, <2>1 DEF Timed
<1>7. CASE TransitionToQueue
  <2>1. /\ handler' \in [kind : {"plain", "throttle", "queue"}, throttle : 0 .. MaxThrottle, qlen : Nat]
        /\ worker' = "check" /\ UNCHANGED <<clients, timer, since>>
    BY <1>7 DEF TransitionToQueue, Timed
  <2> QED
    BY <2>1 DEF Timed, NoMissedMessage
<1>8. CASE TransitionWithinQueue \/ Finish
  <2>1. timer' = Notified /\ UNCHANGED <<clients, handler, worker, since>>
    BY <1>8 DEF TransitionWithinQueue, Finish
  <2> QED
    BY <1>0, <1>n, <2>1 DEF Timed, NoMissedMessage
<1>9. CASE Joined
  <2>1. /\ handler' \in [kind : {"plain", "throttle", "queue"}, throttle : 0 .. MaxThrottle, qlen : Nat]
        /\ worker' # "wait" /\ UNCHANGED <<clients, timer, since>>
    BY <1>9, <1>k DEF Joined, Timed
  <2> QED
    BY <2>1 DEF Timed, NoMissedMessage
<1>10. CASE Arrive
  <2>1. UNCHANGED <<clients, handler, worker>>
    BY <1>10 DEF Arrive
  <2>2. CASE Direct \/ Dropped
    <3>1. UNCHANGED <<queue, timer>> /\ since' \in 0 .. MaxThrottle
      BY <1>0, <2>2 DEF Direct, Dropped, Publish, Timed
    <3> QED
      BY <2>1, <3>1 DEF Timed, NoMissedMessage
  <2>3. CASE Queued
    <3>1. timer' = (IF queue = <<>> THEN Notified ELSE timer) /\ since' = since
      BY <2>3 DEF Queued
    <3>2. timer' \in 0 .. Forever
      BY <1>n, <3>1 DEF Timed
    <3>3. worker' = "wait" => timer' # Forever
      BY <1>0, <1>n, <2>1, <3>1 DEF Timed, NoMissedMessage
    <3> QED
      BY <2>1, <3>1, <3>2, <3>3 DEF Timed, NoMissedMessage
  <2> QED
    BY <1>10, <2>2, <2>3 DEF Arrive
<1>11. CASE Wait
  <2>1. /\ timer' = IF queue = <<>> THEN Forever ELSE TimeRemaining
        /\ UNCHANGED <<clients, handler, queue, since>>
    BY <1>11 DEF Wait
  <2> QED
    BY <1>0, <1>t, <2>1 DEF Timed, NoMissedMessage
<1>12. CASE Check \/ Wake \/ Deliver \/ TailEnd
  <2>1. /\ worker' # "wait" /\ (timer' = timer \/ timer' = Forever)
        /\ (since' = since \/ since' = 0)
        /\ UNCHANGED <<clients, handler>>
    BY <1>12 DEF Check, Wake, Deliver, TailEnd, Publish
  <2> QED
    BY <1>0, <2>1 DEF Timed, NoMissedMessage
<1>13. CASE TailPublish
  <2>1. worker' = "tail" /\ since' = 0 /\ UNCHANGED <<clients, handler, timer>>
    BY <1>13 DEF TailPublish, Publish
  <2> QED
    BY <1>0, <2>1 DEF Timed, NoMissedMessage
<1>14. CASE Tick
  <2>1. /\ since' = Min({since + 1, MaxThrottle})
        /\ timer' = IF worker = "wait" /\ timer \in 1 .. MaxThrottle THEN timer - 1 ELSE timer
        /\ UNCHANGED <<clients, handler, queue, worker>>
    BY <1>14 DEF Tick
  <2>2. since' \in 0 .. MaxThrottle
    BY <1>0, <2>1, MinWithTop DEF Timed
  <2>3. timer' \in 0 .. Forever /\ (timer' = Forever => timer = Forever)
    BY <1>0, <2>1 DEF Timed
  <2> QED
    BY <2>1, <2>2, <2>3 DEF Timed, NoMissedMessage
<1>15. CASE UNCHANGED vars
  BY <1>1, <1>15 DEF vars, Timed
<1> QED
  BY <1>2, <1>3, <1>4, <1>5, <1>6, <1>7, <1>8, <1>9, <1>10, <1>11, <1>12, <1>13, <1>14, <1>15
  DEF Next, ClientSteps, WorkerSteps

(* However handlers change, lengths shrink and threads interleave, a worker  *)
(* that sleeps without a timeout has an empty queue: NoMissedMessage, for    *)
(* any parameters with a greatest throttle.                                  *)
THEOREM AlwaysNoMissedMessage ==
  ASSUME Params \subseteq [throttle : Nat, qlen : Nat], ThrottlesHaveGreatest
  PROVE  Spec => []NoMissedMessage
<1>1. Init => Timed
  <2>1. MaxThrottle \in Nat
    BY MaxThrottleType
  <2> QED
    BY <2>1 DEF Init, Timed, NoMissedMessage, Forever
<1>2. Timed /\ [Next]_vars => Timed'
  BY StepTimed
<1>3. Timed => NoMissedMessage
  BY DEF Timed
<1> QED
  BY <1>1, <1>2, <1>3, PTL DEF Spec

-----------------------------------------------------------------------------
(* PublisherManager: the threads of its clients and of its timers.           *)

Registers == {"look", "create", "enrol", "fetch", "send"}
Rearms == {"timer", "cancel", "forget", "arm", "start"}
Unregisters == {"leave", "withdraw", "left"} \union Rearms

Types ==
    /\ pc \in [Clients -> Registers \union Unregisters \union {"idle", "gone", "aborted"}]
    /\ op \in [Clients -> {"none", "advertise", "publish", "publish again",
                           "unadvertise", "finish", "finish again"}]
    /\ adv \in [Clients -> SUBSET AdvIds]
    /\ pub \in Manager!Pubs \union {Manager!None} /\ pubs \in Nat
    /\ users \in [Manager!Pubs -> SUBSET Clients] /\ open \subseteq Manager!Pubs
    /\ takeDown \in Manager!Timers \union {Manager!None} /\ timers \in Nat
    /\ tstate \in [Manager!Timers -> {"none", "new", "stillborn", "armed", "cancelled",
                                      "destroy", "delete", "forget", "done"}]

(* A client is in the part of the manager that its message calls, and one    *)
(* that unadvertises is there only when no advertisement is left.            *)
Works(c) ==
    /\ pc[c] \in Registers => op[c] \in {"advertise", "publish", "publish again"}
    /\ pc[c] \in Unregisters => op[c] \in {"unadvertise", "finish", "finish again"}
    /\ pc[c] \in Unregisters /\ op[c] = "unadvertise" => adv[c] = {}

(* The publisher in the table is closed only while a timer deletes it.       *)
OpenUntilDeleted ==
    pub # Manager!None => pub \in open \/ \E t \in Manager!Timers : tstate[t] = "delete"

(* A timer that is yet to be made has no state.                              *)
Unmade == \A t \in Manager!Timers : t > timers => tstate[t] = "none"

OverlapIsMet == \A c \in Clients : Manager!Overlapped(c) => c \in met

(* What a client that met nobody found in the tables is still there.         *)
FindsAgain(c) ==
    /\ pc[c] = "withdraw" => pub # Manager!None
    /\ pc[c] \in {"cancel", "forget"} => takeDown # Manager!None
    /\ pc[c] = "start" => takeDown # Manager!None /\ tstate[takeDown] = "new"
    /\ pc[c] # "aborted"

(* A user's publisher is in the table and open, no client is making another, *)
(* and no timer is about to take it down.                                    *)
Kept(c) ==
    /\ pub # Manager!None /\ c \in users[pub] /\ pub \in open
    /\ \A d \in Clients : pc[d] # "create"
    /\ \A t \in Manager!Timers : tstate[t] \notin {"destroy", "delete"}
KeptWhileInForce(c) == adv[c] # {} /\ pc[c] \in Registers \union {"idle"} => Kept(c)

ManagerInv ==
    /\ Types
    /\ \A c \in Clients : Works(c)
    /\ Unmade
    /\ OpenUntilDeleted
    /\ OverlapIsMet
    /\ \A c \in Clients \ met : FindsAgain(c) /\ KeptWhileInForce(c)

LEMMA ManagerInit == Manager!Init => ManagerInv
BY DEF Manager!Init, ManagerInv, Types, Works, Unmade, OpenUntilDeleted, OverlapIsMet, FindsAgain,
       KeptWhileInForce, Registers, Unregisters, Rearms, Manager!Overlapped, Manager!Firing,
       Manager!Inside, Manager!Rearming, Manager!Timers, Manager!Pubs, Manager!None

(* Whoever overlaps another after a step is noted in it.                     *)
LEMMA StepNotes ==
  ASSUME Types, Manager!Noted
  PROVE  met \subseteq met' /\ OverlapIsMet'
BY DEF Manager!Noted, OverlapIsMet

(* What a step of client c does to the others and to what they share.        *)
Touches(c) ==
    /\ \A d \in Clients \ {c} : pc'[d] = pc[d] /\ op'[d] = op[d] /\ adv'[d] = adv[d]
    /\ pub' = pub \/ (pc[c] = "create" /\ pub' # Manager!None)
    /\ pc[c] # "create" => pub' = pub
    /\ open \subseteq open' /\ (pub' = pub \/ pub' \in open')
    /\ \A p \in Manager!Pubs : users[p] \ {c} \subseteq users'[p]
    /\ pc[c] \in Rearms \/ UNCHANGED <<takeDown, tstate>>
    /\ \A t \in Manager!Timers : \A s \in {"destroy", "delete"} : tstate'[t] = s <=> tstate[t] = s
    /\ pc'[c] = "create" => pub = Manager!None /\ pub' = pub
    /\ Manager!Noted

(* Its own place, and the tables, after the step.                            *)
Lands(c) == Types' /\ Works(c)' /\ Unmade'

LEMMA RequestsTouch ==
  ASSUME ManagerInv, NEW c \in Clients, Manager!Requests(c)
  PROVE  Touches(c) /\ Lands(c)
<1> USE DEF ManagerInv, Types, Works, Unmade, Touches, Lands, Registers, Unregisters, Rearms,
            Manager!Message, Manager!Goto, Manager!pubVars, Manager!timerVars
<1>1. CASE Manager!Advertise(c)
  BY <1>1 DEF Manager!Advertise
<1>2. CASE Manager!PublishMsg(c)
  BY <1>2 DEF Manager!PublishMsg
<1>3. CASE Manager!Finish(c)
  BY <1>3 DEF Manager!Finish
<1>4. ASSUME NEW gone, Manager!Unadvertise(c, gone) PROVE Touches(c) /\ Lands(c)
  BY <1>4 DEF Manager!Unadvertise
<1> QED
  BY <1>1, <1>2, <1>3, <1>4 DEF Manager!Requests

LEMMA RegisterTouches ==
  ASSUME MaxPubs \in Nat, ManagerInv, NEW c \in Clients,
         \/ Manager!Look(c) \/ Manager!Create(c) \/ Manager!CreateRaises(c)
         \/ Manager!Enrol(c) \/ Manager!Fetch(c) \/ Manager!Send(c) \/ Manager!KeyError(c)
  PROVE  Touches(c) /\ Lands(c)
<1>0. ASSUME Manager!Create(c)
      PROVE  pubs + 1 \in Manager!Pubs /\ pubs + 1 # Manager!None /\ pubs + 1 \in Nat
  <2>1. pubs < MaxPubs
    BY <1>0 DEF Manager!Create
  <2>2. pubs \in Nat
    BY DEF ManagerInv, Types
  <2> QED
    BY <2>1, <2>2 DEF Manager!Pubs, Manager!None
<1> USE DEF ManagerInv, Types, Works, Unmade, Touches, Lands, Registers, Unregisters, Rearms,
            Manager!Goto, Manager!Raise, Manager!pubVars, Manager!timerVars
<1>1. CASE Manager!Look(c)
  BY ZenonT(30), <1>1 DEF Manager!Look
<1>2. CASE Manager!Create(c)
  BY <1>2, <1>0 DEF Manager!Create
<1>3. CASE Manager!CreateRaises(c)
  BY <1>3 DEF Manager!CreateRaises
<1>4. CASE Manager!Enrol(c)
  <2>0. /\ pc[c] = "enrol" /\ pub \in Manager!Pubs /\ Manager!Noted
        /\ users' = [users EXCEPT ![pub] = @ \union {c}]
        /\ UNCHANGED <<pub, open, pubs, takeDown, tstate, timers>>
    BY <1>4 DEF Manager!Enrol
  <2>a. users' \in [Manager!Pubs -> SUBSET Clients]
        /\ \A p \in Manager!Pubs : users[p] \ {c} \subseteq users'[p]
    BY <2>0
  <2>1. CASE op[c] = "advertise"
    <3>1. /\ pc' = [pc EXCEPT ![c] = "idle"] /\ op' = op
          /\ \E id \in AdvIds : adv' = [adv EXCEPT ![c] = @ \union {id}]
      BY <1>4, <2>1 DEF Manager!Enrol
    <3>2. PICK id \in AdvIds : adv' = [adv EXCEPT ![c] = @ \union {id}]
      BY <3>1
    <3>3. /\ adv' \in [Clients -> SUBSET AdvIds]
          /\ \A d \in Clients \ {c} : adv'[d] = adv[d]
      BY <3>2
    <3>4. pc' \in [Clients -> Registers \union Unregisters \union {"idle", "gone", "aborted"}]
          /\ pc'[c] = "idle" /\ \A d \in Clients \ {c} : pc'[d] = pc[d]
      BY <3>1
    <3>5. Touches(c)
      BY <2>0, <2>a, <3>1, <3>3, <3>4
    <3>6. Types'
      BY <2>0, <2>a, <3>1, <3>3, <3>4
    <3>7. Works(c)' /\ Unmade'
      BY <2>0, <3>4
    <3> QED
      BY <3>5, <3>6, <3>7
  <2>2. CASE op[c] = "publish"
    <3>1. /\ pc' = [pc EXCEPT ![c] = "look"] /\ op' = [op EXCEPT ![c] = "publish again"]
          /\ adv' = adv
      BY <1>4, <2>2 DEF Manager!Enrol
    <3> QED
      BY <2>0, <2>a, <3>1
  <2>3. CASE op[c] = "publish again"
    BY ZenonT(30), <1>4, <2>3 DEF Manager!Enrol
  <2> QED
    BY <1>4, <2>1, <2>2, <2>3 DEF Manager!Enrol
<1>5. CASE Manager!Fetch(c)
  BY <1>5 DEF Manager!Fetch
<1>6. CASE Manager!Send(c)
  BY ZenonT(30), <1>6 DEF Manager!Send
<1>7. CASE Manager!KeyError(c)
  BY <1>7 DEF Manager!KeyError
<1> QED
  BY <1>1, <1>2, <1>3, <1>4, <1>5, <1>6, <1>7

LEMMA UnregisterTouches ==
  ASSUME MaxTimers \in Nat, ManagerInv, NEW c \in Clients,
         \/ Manager!Leave(c) \/ Manager!Withdraw(c) \/ Manager!LookForTimer(c)
         \/ Manager!Cancel(c) \/ Manager!Forget(c) \/ Manager!Arm(c) \/ Manager!Start(c)
         \/ Manager!Left(c)
  PROVE  Touches(c) /\ Lands(c)
<1>0. ASSUME Manager!Arm(c)
      PROVE  /\ timers + 1 \in Manager!Timers /\ timers + 1 \in Nat
             /\ \A t \in Manager!Timers : t > timers + 1 => t > timers /\ t # timers + 1
             /\ tstate[timers + 1] = "none"
  <2>1. timers < MaxTimers
    BY <1>0 DEF Manager!Arm
  <2>2. timers \in Nat /\ Unmade
    BY DEF ManagerInv, Types
  <2> QED
    BY <2>1, <2>2 DEF Manager!Timers, Unmade
<1> USE DEF ManagerInv, Types, Works, Unmade, Touches, Lands, Registers, Unregisters, Rearms,
            Manager!Goto, Manager!Raise, Manager!pubVars, Manager!timerVars
<1>1. CASE Manager!Leave(c)
  BY <1>1 DEF Manager!Leave
<1>2. CASE Manager!Withdraw(c)
  BY <1>2 DEF Manager!Withdraw
<1>3. CASE Manager!LookForTimer(c)
  BY <1>3 DEF Manager!LookForTimer
<1>4. CASE Manager!Cancel(c)
  BY <1>4 DEF Manager!Cancel, Manager!Cancelled
<1>5. CASE Manager!Forget(c)
  BY <1>5 DEF Manager!Forget
<1>6. CASE Manager!Arm(c)
  <2>0. /\ pc[c] = "arm" /\ pc' = [pc EXCEPT ![c] = "start"] /\ Manager!Noted
        /\ tstate' = [tstate EXCEPT ![timers + 1] = "new"]
        /\ UNCHANGED <<op, adv, pub, users, open, pubs>>
    BY <1>6 DEF Manager!Arm
  <2>a. \A t \in Manager!Timers : \A s \in {"destroy", "delete"} : tstate'[t] = s <=> tstate[t] = s
    BY <1>0, <1>6, <2>0
  <2>1. Touches(c)
    BY <2>0, <2>a
  <2>b. takeDown' = timers + 1 /\ timers' = timers + 1
    BY <1>6 DEF Manager!Arm
  <2>2. Types' /\ Works(c)'
    BY <1>0, <1>6, <2>0, <2>b
  <2>3. Unmade'
    <3>1. \A t \in Manager!Timers : t > timers + 1 => tstate[t] = "none" /\ t # timers + 1
      BY <1>0, <1>6
    <3> QED
      BY <2>0, <2>b, <3>1
  <2> QED
    BY <2>1, <2>2, <2>3
<1>7. CASE Manager!Start(c)
  <2>1. Touches(c)
    BY ZenonT(30), <1>7 DEF Manager!Start
  <2>2. Types' /\ Works(c)'
    BY ZenonT(30), <1>7 DEF Manager!Start
  <2>3. Unmade'
    BY <1>7 DEF Manager!Start
  <2> QED
    BY <2>1, <2>2, <2>3
<1>8. CASE Manager!Left(c)
  <2>1. CASE op[c] = "unadvertise"
    BY ZenonT(30), <1>8, <2>1 DEF Manager!Left
  <2>2. CASE op[c] = "finish"
    BY ZenonT(30), <1>8, <2>2 DEF Manager!Left
  <2>3. CASE op[c] = "finish again"
    <3>1. /\ pc[c] = "left" /\ pc' = [pc EXCEPT ![c] = "gone"]
          /\ UNCHANGED <<op, pub, users, open, pubs, takeDown, tstate, timers>>
          /\ Manager!Noted
      BY <1>8, <2>3 DEF Manager!Left
    <3>2. adv' = [adv EXCEPT ![c] = adv[c]]
      BY <1>8, <2>3 DEF Manager!Left
    <3>3. adv' = adv
      BY <3>2
    <3> QED
      BY <3>1, <3>3
  <2> QED
    BY <1>8, <2>1, <2>2, <2>3 DEF Manager!Left
<1> QED
  BY <1>1, <1>2, <1>3, <1>4, <1>5, <1>6, <1>7, <1>8

(* A client's step takes nothing from another that met nobody.               *)
LEMMA OthersKeep ==
  ASSUME ManagerInv, NEW c \in Clients, Touches(c), NEW d \in Clients \ {c}, d \notin met'
  PROVE  FindsAgain(d)' /\ KeptWhileInForce(d)'
<1>1. d \notin met
  BY StepNotes DEF Touches, ManagerInv
<1>2. FindsAgain(d) /\ KeptWhileInForce(d)
  BY <1>1 DEF ManagerInv
<1>3. pc'[d] = pc[d] /\ adv'[d] = adv[d]
  BY DEF Touches
<1>4. FindsAgain(d)'
  <2>1. CASE pc[d] \in Rearms
    <3>1. pc[c] \notin Rearms
      BY <1>1, <2>1 DEF ManagerInv, OverlapIsMet, Manager!Overlapped, Manager!Rearming, Rearms
    <3> QED
      BY <1>2, <1>3, <2>1, <3>1 DEF Touches, FindsAgain, Rearms
  <2>2. CASE pc[d] \notin Rearms
    BY <1>2, <1>3, <2>2 DEF Touches, FindsAgain, Rearms
  <2> QED
    BY <2>1, <2>2
<1>5. ASSUME adv'[d] # {}, pc'[d] \in Registers \union {"idle"} PROVE Kept(d)'
  <2>1. Kept(d)
    BY <1>2, <1>3, <1>5 DEF KeptWhileInForce
  <2>2. pub' = pub /\ open \subseteq open'
    BY <2>1 DEF Kept, Touches
  <2>3. pub \in Manager!Pubs
    BY <2>1 DEF Kept, ManagerInv, Types
  <2>4. d \in users'[pub]
    BY <2>1, <2>3 DEF Kept, Touches
  <2>5. \A e \in Clients : pc'[e] # "create"
    BY <2>1 DEF Kept, Touches
  <2> QED
    BY <2>1, <2>2, <2>4, <2>5 DEF Kept, Touches
<1> QED
  BY <1>4, <1>5 DEF KeptWhileInForce

(* The same for a client that goes on without the manager's publishers.      *)
LEMMA KeptStays ==
  ASSUME ManagerInv, NEW c \in Clients, Touches(c), KeptWhileInForce(c),
         pc[c] \in Registers \union {"idle"}, adv'[c] \subseteq adv[c], UNCHANGED <<users, pub>>,
         pc'[c] = "create" => adv'[c] = {}
  PROVE  KeptWhileInForce(c)'
<1> SUFFICES ASSUME adv'[c] # {} PROVE Kept(c)'
  BY DEF KeptWhileInForce
<1>1. Kept(c) /\ pc'[c] # "create"
  BY DEF KeptWhileInForce
<1>2. \A e \in Clients : pc'[e] # "create"
  BY <1>1 DEF Kept, Touches
<1> QED
  BY <1>1, <1>2 DEF Kept, Touches

LEMMA OwnKeep ==
  ASSUME MaxPubs \in Nat, MaxTimers \in Nat, ManagerInv,
         NEW c \in Clients, Manager!Requests(c) \/ Manager!Progress(c),
         Touches(c), c \notin met'
  PROVE  FindsAgain(c)' /\ KeptWhileInForce(c)'
<1>1. c \notin met
  BY StepNotes DEF Touches, ManagerInv
<1>2. FindsAgain(c) /\ KeptWhileInForce(c) /\ Works(c)
  BY <1>1 DEF ManagerInv
<1>3. pc \in [Clients -> Registers \union Unregisters \union {"idle", "gone", "aborted"}]
      /\ op \in [Clients -> {"none", "advertise", "publish", "publish again",
                             "unadvertise", "finish", "finish again"}]
      /\ adv \in [Clients -> SUBSET AdvIds]
  BY DEF ManagerInv, Types
<1> USE DEF Manager!Goto, Manager!Raise, Manager!clientVars, Manager!pubVars, Manager!timerVars
<1>4. CASE Manager!Requests(c)
  <2> DEFINE After == /\ pc[c] = "idle" /\ pc'[c] \in {"look", "leave", "idle", "gone"}
                      /\ adv'[c] \subseteq adv[c] /\ UNCHANGED <<users, pub>>
  <2>1. After
    <3>1. CASE Manager!Advertise(c) \/ Manager!PublishMsg(c) \/ Manager!Finish(c)
      BY <1>3, <3>1 DEF Manager!Advertise, Manager!PublishMsg, Manager!Finish, Manager!Message
    <3>2. ASSUME NEW gone, Manager!Unadvertise(c, gone) PROVE After
      BY <1>3, <3>2 DEF Manager!Unadvertise, Manager!Message
    <3> QED
      BY <1>4, <3>1, <3>2 DEF Manager!Requests
  <2>2. FindsAgain(c)'
    BY <2>1 DEF FindsAgain
  <2> QED
    BY <1>2, <2>1, <2>2, KeptStays
<1>5. CASE Manager!Look(c) \/ Manager!Fetch(c) \/ Manager!Send(c)
  <2>1. /\ pc[c] \in {"look", "fetch", "send"}
        /\ pc'[c] \in {"create", "enrol", "idle", "send"}
        /\ pc'[c] = "create" => pub = Manager!None
        /\ adv' = adv /\ UNCHANGED <<users, pub>>
    BY <1>2, <1>3, <1>5 DEF Manager!Look, Manager!Fetch, Manager!Send, Works, Registers
  <2>2. FindsAgain(c)'
    BY <2>1 DEF FindsAgain
  <2>3. pc'[c] = "create" => adv'[c] = {}
    BY <1>2, <2>1 DEF KeptWhileInForce, Kept, Registers
  <2> QED
    BY <1>2, <2>1, <2>2, <2>3, KeptStays DEF Registers
<1>6. CASE Manager!Create(c) \/ Manager!CreateRaises(c)
  <2>1. pc[c] = "create" /\ pc'[c] \in {"enrol", "idle"} /\ adv' = adv
    BY <1>3, <1>6 DEF Manager!Create, Manager!CreateRaises
  <2>2. adv[c] = {}
    BY <1>2, <2>1 DEF KeptWhileInForce, Kept, Registers
  <2> QED
    BY <2>1, <2>2 DEF FindsAgain, KeptWhileInForce
<1>7. CASE Manager!Enrol(c)
  <2>1. /\ pc[c] = "enrol" /\ pub # Manager!None /\ pc'[c] \in {"idle", "look", "fetch"}
        /\ users' = [users EXCEPT ![pub] = @ \union {c}]
        /\ UNCHANGED <<pub, open, tstate>>
    BY <1>3, <1>7 DEF Manager!Enrol
  <2>2. ~Manager!Overlapped(c) /\ Manager!Inside(c)
    BY <1>1, <2>1 DEF ManagerInv, OverlapIsMet, Manager!Inside
  <2>3. /\ \A t \in Manager!Timers : tstate[t] \notin {"destroy", "delete"}
        /\ \A d \in Clients \ {c} : pc[d] # "create"
    BY <2>1, <2>2 DEF Manager!Overlapped, Manager!Firing, Manager!Replacing
  <2>4. pub \in open
    BY <2>1, <2>3 DEF ManagerInv, OpenUntilDeleted
  <2>5. c \in users'[pub]
    BY <2>1 DEF ManagerInv, Types
  <2>6. \A d \in Clients : pc'[d] # "create"
    BY <2>1, <2>3 DEF Touches
  <2>7. Kept(c)'
    BY <2>1, <2>3, <2>4, <2>5, <2>6 DEF Kept
  <2> QED
    BY <2>1, <2>7 DEF FindsAgain, KeptWhileInForce
<1>8. CASE Manager!KeyError(c)
  <2>1. pc[c] \in {"enrol", "fetch"} /\ pub = Manager!None
    BY <1>2, <1>8 DEF Manager!KeyError, FindsAgain
  <2>2. pc'[c] = "idle" /\ UNCHANGED <<users, pub, adv>>
    BY <1>2, <1>3, <1>8, <2>1 DEF Manager!KeyError, Works, Registers
  <2>3. FindsAgain(c)'
    BY <2>2 DEF FindsAgain
  <2> QED
    BY <1>2, <2>1, <2>2, <2>3, KeptStays DEF Registers
<1>9. CASE \/ Manager!Leave(c) \/ Manager!Withdraw(c) \/ Manager!LookForTimer(c)
           \/ Manager!Cancel(c) \/ Manager!Forget(c)
  <2>1. /\ pc'[c] \in Unregisters
        /\ FindsAgain(c)'
    BY <1>3, <1>9 DEF Manager!Leave, Manager!Withdraw, Manager!LookForTimer, Manager!Cancel,
                      Manager!Forget, Unregisters, Rearms, FindsAgain
  <2> QED
    BY <2>1 DEF KeptWhileInForce, Registers, Unregisters, Rearms
<1>10. CASE Manager!Arm(c)
  <2>1. pc'[c] = "start" /\ takeDown' = timers + 1 /\ tstate' = [tstate EXCEPT ![timers + 1] = "new"]
    BY <1>3, <1>10 DEF Manager!Arm
  <2>2. timers + 1 \in Manager!Timers /\ timers + 1 # Manager!None
    <3>1. timers < MaxTimers
      BY <1>10 DEF Manager!Arm
    <3>2. timers \in Nat
      BY DEF ManagerInv, Types
    <3> QED
      BY <3>1, <3>2 DEF Manager!Timers, Manager!None
  <2>3. tstate'[timers + 1] = "new"
    BY <2>1, <2>2 DEF ManagerInv, Types
  <2> QED
    BY <2>1, <2>2, <2>3 DEF FindsAgain, KeptWhileInForce, Registers
<1>11. CASE Manager!Start(c)
  <2>1. pc[c] = "start" /\ tstate[takeDown] = "new"
    BY <1>2, <1>11 DEF Manager!Start, FindsAgain
  <2>2. pc'[c] = "left"
    BY <1>3, <1>11, <2>1 DEF Manager!Start
  <2> QED
    BY <2>2 DEF FindsAgain, KeptWhileInForce, Registers
<1>12. CASE Manager!Left(c)
  <2>1. pc[c] = "left"
    BY <1>12 DEF Manager!Left
  <2>2. CASE op[c] = "unadvertise"
    <3>1. pc'[c] = "idle" /\ adv' = [adv EXCEPT ![c] = adv[c]]
      BY <1>3, <1>12, <2>2 DEF Manager!Left
    <3>2. adv'[c] = {}
      BY <1>2, <1>3, <2>1, <2>2, <3>1 DEF Works, Unregisters
    <3> QED
      BY <3>1, <3>2 DEF FindsAgain, KeptWhileInForce
  <2>3. CASE op[c] \in {"finish", "finish again"}
    <3>1. pc'[c] \in {"leave", "gone"}
      BY <1>3, <1>12, <2>3 DEF Manager!Left
    <3> QED
      BY <3>1 DEF FindsAgain, KeptWhileInForce, Registers
  <2> QED
    BY <1>12, <2>2, <2>3 DEF Manager!Left
<1> QED
  BY <1>4, <1>5, <1>6, <1>7, <1>8, <1>9, <1>10, <1>11, <1>12 DEF Manager!Progress

(* A client's step.                                                          *)
LEMMA ClientStep ==
  ASSUME MaxPubs \in Nat, MaxTimers \in Nat, ManagerInv,
         NEW c \in Clients, Manager!Requests(c) \/ Manager!Progress(c)
  PROVE  ManagerInv'
<1>1. Touches(c) /\ Lands(c)
  BY RequestsTouch, RegisterTouches, UnregisterTouches DEF Manager!Progress
<1>2. OverlapIsMet'
  BY <1>1, StepNotes DEF Touches, ManagerInv
<1>3. Types' /\ Unmade' /\ \A d \in Clients : Works(d)'
  <2>1. ASSUME NEW d \in Clients \ {c} PROVE Works(d)'
    BY <1>1, <2>1 DEF Touches, Works, ManagerInv
  <2> QED
    BY <1>1, <2>1 DEF Lands
<1>4. OpenUntilDeleted'
  BY <1>1 DEF Touches, ManagerInv, OpenUntilDeleted
<1>5. ASSUME NEW d \in Clients \ met' PROVE FindsAgain(d)' /\ KeptWhileInForce(d)'
  BY <1>1, <1>5, OthersKeep, OwnKeep
<1> QED
  BY <1>2, <1>3, <1>4, <1>5 DEF ManagerInv

(* A step of a timer's thread. Only a publisher nobody uses is taken down,   *)
(* and a client inside the manager meanwhile has met the timer.              *)
LEMMA TimerStep ==
  ASSUME ManagerInv, NEW t \in Manager!Timers, Manager!Expiry(t)
  PROVE  ManagerInv'
<1> USE DEF Manager!TimerGoto, Manager!clientVars, Manager!pubVars
<1>0. /\ tstate \in [Manager!Timers -> {"none", "new", "stillborn", "armed", "cancelled",
                                        "destroy", "delete", "forget", "done"}]
      /\ Manager!Noted
      /\ UNCHANGED <<pc, op, adv, pubs, timers>>
      /\ tstate[t] \in {"armed", "destroy", "delete", "forget"}
      /\ \E s \in {"done", "destroy", "delete", "forget"} : tstate' = [tstate EXCEPT ![t] = s]
  BY DEF ManagerInv, Types, Manager!Expiry, Manager!Fire, Manager!Destroy, Manager!Delete,
         Manager!ForgetItself
<1>1. OverlapIsMet' /\ met \subseteq met'
  BY <1>0, StepNotes DEF ManagerInv
<1>2. Types'
  <2>1. tstate' \in [Manager!Timers -> {"none", "new", "stillborn", "armed", "cancelled",
                                        "destroy", "delete", "forget", "done"}]
    BY <1>0
  <2>2. CASE Manager!Fire(t)
    BY <1>0, <2>1, <2>2 DEF Manager!Fire, ManagerInv, Types
  <2>3. CASE Manager!Destroy(t)
    BY <1>0, <2>1, <2>3 DEF Manager!Destroy, ManagerInv, Types
  <2>4. CASE Manager!Delete(t)
    BY <1>0, <2>1, <2>4 DEF Manager!Delete, ManagerInv, Types
  <2>5. CASE Manager!ForgetItself(t)
    BY <1>0, <2>1, <2>5 DEF Manager!ForgetItself, ManagerInv, Types
  <2> QED
    BY <2>2, <2>3, <2>4, <2>5 DEF Manager!Expiry
<1>3. Unmade' /\ \A c \in Clients : Works(c)'
  <2>1. \A c \in Clients : Works(c)'
    BY <1>0 DEF ManagerInv, Works
  <2>2. Unmade'
    BY <1>0 DEF ManagerInv, Unmade
  <2> QED
    BY <2>1, <2>2
<1>4. OpenUntilDeleted'
  <2>1. CASE Manager!Fire(t) \/ Manager!ForgetItself(t)
    <3>1. /\ UNCHANGED <<pub, open>>
          /\ \A s \in Manager!Timers : tstate[s] = "delete" => tstate'[s] = "delete"
      BY <1>0, <2>1 DEF Manager!Fire, Manager!ForgetItself
    <3> QED
      BY <3>1 DEF ManagerInv, OpenUntilDeleted
  <2>2. CASE Manager!Destroy(t)
    <3>1. pub' = pub /\ (pub # Manager!None => tstate'[t] = "delete")
      BY <1>0, <2>2 DEF Manager!Destroy
    <3> QED
      BY <3>1 DEF OpenUntilDeleted
  <2>3. CASE Manager!Delete(t)
    BY <2>3 DEF Manager!Delete, OpenUntilDeleted
  <2> QED
    BY <2>1, <2>2, <2>3 DEF Manager!Expiry
<1>5. ASSUME NEW c \in Clients \ met' PROVE FindsAgain(c)' /\ KeptWhileInForce(c)'
  <2>1. c \in Clients \ met /\ FindsAgain(c) /\ KeptWhileInForce(c)
    BY <1>1, <1>5 DEF ManagerInv
  <2>2. CASE Manager!Fire(t)
    <3>1. /\ tstate[t] = "armed" /\ UNCHANGED <<pub, users, open, takeDown>>
          /\ tstate'[t] = "destroy" => pub # Manager!None /\ users[pub] = {}
          /\ tstate'[t] # "delete"
      BY <1>0, <2>2 DEF Manager!Fire
    <3>2. FindsAgain(c)'
      BY <1>0, <2>1, <3>1 DEF FindsAgain
    <3>3. Kept(c) => Kept(c)'
      BY <1>0, <3>1 DEF Kept
    <3> QED
      BY <1>0, <2>1, <3>2, <3>3 DEF KeptWhileInForce
  <2>3. CASE Manager!Destroy(t) \/ Manager!Delete(t) \/ Manager!ForgetItself(t)
    <3>1. Manager!Firing
      BY <2>3 DEF Manager!Destroy, Manager!Delete, Manager!ForgetItself, Manager!Firing
    <3>2. pc[c] \in {"idle", "gone", "aborted"}
      BY <2>1, <3>1 DEF ManagerInv, OverlapIsMet, Manager!Overlapped, Manager!Inside
    <3>3. FindsAgain(c)'
      BY <1>0, <2>1, <3>2 DEF FindsAgain
    <3>4. Kept(c) => Kept(c)'
      <4>1. CASE Manager!ForgetItself(t)
        BY <1>0, <4>1 DEF Manager!ForgetItself, Kept
      <4>2. CASE Manager!Destroy(t) \/ Manager!Delete(t)
        BY <4>2 DEF Manager!Destroy, Manager!Delete, Kept
      <4> QED
        BY <2>3, <4>1, <4>2
    <3> QED
      BY <1>0, <2>1, <3>3, <3>4 DEF KeptWhileInForce
  <2> QED
    BY <2>2, <2>3 DEF Manager!Expiry
<1> QED
  BY <1>1, <1>2, <1>3, <1>4, <1>5 DEF ManagerInv

LEMMA ManagerStep ==
  ASSUME MaxPubs \in Nat, MaxTimers \in Nat, ManagerInv, [Manager!Next]_managerVars
  PROVE  ManagerInv'
<1>1. CASE Manager!Next
  BY <1>1, ClientStep, TimerStep DEF Manager!Next
<1>2. CASE UNCHANGED managerVars
  <2>1. Types' /\ Unmade' /\ OpenUntilDeleted' /\ \A c \in Clients : Works(c)'
    BY <1>2 DEF managerVars, ManagerInv, Types, Unmade, OpenUntilDeleted, Works
  <2>2. OverlapIsMet'
    BY <1>2 DEF managerVars, ManagerInv, OverlapIsMet, Manager!Overlapped, Manager!Firing,
                Manager!Inside, Manager!Replacing, Manager!Rearming
  <2>3. \A c \in Clients \ met' : FindsAgain(c)' /\ KeptWhileInForce(c)'
    BY <1>2 DEF managerVars, ManagerInv, FindsAgain, KeptWhileInForce, Kept
  <2> QED
    BY <2>1, <2>2, <2>3 DEF ManagerInv
<1> QED
  BY <1>1, <1>2

LEMMA Invariance ==
  ASSUME MaxPubs \in Nat, MaxTimers \in Nat
  PROVE  ThreadsSpec => []ManagerInv
<1>1. ThreadsInit => ManagerInv
  BY ManagerInit DEF ThreadsInit
<1>2. ManagerInv /\ [ThreadsNext]_threadVars => ManagerInv'
  BY ManagerStep DEF ThreadsNext, Streaming, Publishing, threadVars
<1> QED
  BY <1>1, <1>2, PTL DEF ThreadsSpec

(* Whatever other clients and timers do between two steps, an advertisement  *)
(* in force has an open publisher with its client among the users, unless    *)
(* the client met one of the races the manager has no lock against.          *)
THEOREM AlwaysKeptWhileAdvertised ==
  ASSUME MaxPubs \in Nat, MaxTimers \in Nat
  PROVE  ThreadsSpec => []KeptWhileAdvertised
<1>1. ManagerInv => KeptWhileAdvertised
  BY DEF ManagerInv, KeptWhileInForce, Kept, KeptWhileAdvertised, Manager!KeptWhileAdvertised
<1> QED
  BY <1>1, Invariance, PTL

(* Nor does a disconnect end in an exception half way (FinishCompletes),     *)
(* with the same exception: the unregister of a client that met nobody finds *)
(* again what it found.                                                      *)
THEOREM AlwaysFinishCompletes ==
  ASSUME MaxPubs \in Nat, MaxTimers \in Nat
  PROVE  ThreadsSpec => []FinishCompletes
<1>1. ManagerInv => FinishCompletes
  BY DEF ManagerInv, FindsAgain, FinishCompletes, Manager!FinishCompletes
<1> QED
  BY <1>1, Invariance, PTL

-----------------------------------------------------------------------------

(* A behaviour that is model-checked is one of either component, so that the *)
(* theorems about Spec above are about it as well.                           *)
THEOREM ThreadsAreBoth == ThreadsSpec => Spec /\ Manager!Spec
<1>1. ThreadsInit => Init /\ Manager!Init
  BY DEF ThreadsInit
<1>2. [ThreadsNext]_threadVars => [Next]_vars
  BY DEF ThreadsNext, Streaming, Publishing, threadVars
<1>3. [ThreadsNext]_threadVars => [Manager!Next]_(Manager!vars)
  BY DEF ThreadsNext, Streaming, Publishing, threadVars, managerVars, Manager!vars,
         Manager!clientVars, Manager!pubVars, Manager!timerVars, Manager!history
<1> QED
  BY <1>1, <1>2, <1>3, PTL DEF ThreadsSpec, Spec, Manager!Spec

=============================================================================
