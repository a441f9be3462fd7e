--------------------------- MODULE MessageHandlers ---------------------------
(***************************************************************************)
(* The throttling and buffering between one client's subscription and the  *)
(* socket: Subscription.update_params and on_msg of capabilities/          *)
(* subscribe.py, and the three handlers of internal/subscription_          *)
(* modifiers.py.  Three threads meet here: the executor that brings a      *)
(* message (Arrive), the client's own thread that changes the parameters,  *)
(* and the worker thread of a QueueMessageHandler.  handler_lock is held   *)
(* exactly while `client` is neither "idle" nor "gone"; the condition `c`  *)
(* of the queue handler is held within one action and released by wait().  *)
(*                                                                         *)
(* Messages are numbered in order of arrival.  Time is kept as ages, so    *)
(* that it needs no horizon: `since` is the time since the last publish,   *)
(* counted up to the largest throttle.                                     *)
(*                                                                         *)
(* An operator that stands just before another and extends its name is its *)
(* mutated form, listed in PROJECT.json; no other definition uses it.      *)
(***************************************************************************)
EXTENDS Integers, Sequences, FiniteSetsExt, SequencesExt

CONSTANTS Sids,        \* subscription ids one client uses on the topic
          Params,      \* records [throttle, qlen] a subscribe may carry
          NotThere,    \* a sid with no entry in Subscription.clients
          MaxMsgs      \* bound: messages that arrive

VARIABLES clients,     \* Subscription.clients
          client,      \* where the client's thread is
          handler,     \* kind, throttle_rate and queue_length of self.handler
          queue,       \* QueueMessageHandler.queue
          alive,       \* QueueMessageHandler.alive
          worker,      \* where the queue handler's thread is
          timer,       \* what is left of its wait(); Forever without a timeout
          held,        \* the message it took off the queue
          since,       \* time since last_publish
          arrived,     \* messages that reached on_msg
          out          \* the last message passed to publish

clientVars == <<clients, client>>
workerVars == <<worker, timer, held>>
outVars == <<since, out>>
vars == <<clientVars, handler, queue, alive, workerVars, arrived, outVars>>

MaxThrottle == Max({p.throttle : p \in Params} \union {0})
Forever == MaxThrottle + 1

TypeOK ==
    /\ clients \in [Sids -> Params \union {NotThere}]
    /\ client \in {"idle", "throttle", "swap", "qlen", "swap again",
                   "join", "join again", "gone"}
    /\ handler \in [kind : {"plain", "throttle", "queue"},
                    throttle : 0..MaxThrottle,
                    qlen : {p.qlen : p \in Params} \union {0}]
    /\ queue \in Seq(1..MaxMsgs)
    /\ alive \in BOOLEAN
    /\ worker \in {"none", "check", "lock", "wait", "deliver", "tail"}
    /\ timer \in 0..Forever
    /\ {held, arrived, out} \subseteq 0..MaxMsgs
    /\ since \in 0..MaxThrottle

-----------------------------------------------------------------------------

Init ==
    /\ clients = [s \in Sids |-> NotThere]
    /\ client = "idle"
    /\ handler = [kind |-> "plain", throttle |-> 0, qlen |-> 0]
    /\ queue = <<>>
    /\ alive = FALSE
    /\ worker = "none"
    /\ timer = Forever
    /\ held = 0
    /\ since = MaxThrottle      \* last_publish = 0, long ago
    /\ arrived = 0
    /\ out = 0

Subscribed == {s \in Sids : clients[s] # NotThere}

\* update_params: no subscription asked for less of this than s did.
LeastDemanding(s, field) == \A r \in Subscribed : clients[s][field] <= clients[r][field]

TimeRemaining == Max({handler.throttle - since, 0})

\* A deque(maxlen=n) keeps the newest n of what is put into it.
Newest(s, n) == SubSeq(s, Max({Len(s) - n, 0}) + 1, Len(s))

\* notify(): wakes the worker if it waits, and is lost otherwise.
Notified == IF worker = "wait" THEN 0 ELSE timer

\* handle_message of the base class: stamp, then publish.
Publish(m) ==
    /\ since' = 0
    /\ out' = m

-----------------------------------------------------------------------------
(* The client's thread: subscribe and unsubscribe messages, one at a time. *)

\* subscribe(): note the details, then update_params takes handler_lock.
Subscribe(sid, p) ==
    /\ client = "idle"
    /\ clients' = [clients EXCEPT ![sid] = p]
    /\ client' = "throttle"
    /\ UNCHANGED <<handler, queue, alive, workerVars, arrived, outVars>>

\* unsubscribe(sid), with None for every sid; the others' wishes are applied.
Unsubscribe(gone) ==
    /\ client = "idle"
    /\ Subscribed \ gone # {}
    /\ clients' = [s \in Sids |-> IF s \in gone THEN NotThere ELSE clients[s]]
    /\ client' = "throttle"
    /\ UNCHANGED <<handler, queue, alive, workerVars, arrived, outVars>>

\* The last sid leaves: unregister() finishes the handler without waiting.
Unregister(gone) ==
    /\ client = "idle"
    /\ Subscribed # {}
    /\ Subscribed \ gone = {}
    /\ clients' = [s \in Sids |-> NotThere]
    /\ client' = "gone"
    /\ alive' = FALSE
    /\ timer' = IF handler.kind = "queue" THEN Notified ELSE timer
    /\ UNCHANGED <<handler, queue, worker, held, arrived, outVars>>

\* set_throttle_rate assigns, and only then calls transition().
SetThrottle ==
    /\ client = "throttle"
    /\ \E s \in Subscribed :
           /\ LeastDemanding(s, "throttle")
           /\ handler' = [handler EXCEPT !.throttle = clients[s].throttle]
    /\ client' = "swap"
    /\ UNCHANGED <<clients, queue, alive, workerVars, arrived, outVars>>

SetQueueLength ==
    /\ client = "qlen"
    /\ \E s \in Subscribed :
           /\ LeastDemanding(s, "qlen")
           /\ handler' = [handler EXCEPT !.qlen = clients[s].qlen]
    /\ client' = "swap again"
    /\ UNCHANGED <<clients, queue, alive, workerVars, arrived, outVars>>

\* The handler transition() picks for a throttle and a queue length.
KindFor(h) ==
    IF h.qlen # 0 THEN "queue" ELSE IF h.throttle # 0 THEN "throttle" ELSE "plain"

AfterSwap == IF client \in {"swap", "join"} THEN "qlen" ELSE "idle"

\* Between handlers without a thread, or from one to itself, nothing is lost.
TransitionPlainly ==
    /\ client \in {"swap", "swap again"}
    /\ handler.kind # "queue"
    /\ KindFor(handler) # "queue"
    /\ handler' = [handler EXCEPT !.kind = KindFor(handler)]
    /\ client' = AfterSwap
    /\ UNCHANGED <<clients, queue, alive, workerVars, arrived, outVars>>

\* A new QueueMessageHandler starts its thread.
TransitionToQueue ==
    /\ client \in {"swap", "swap again"}
    /\ handler.kind # "queue"
    /\ KindFor(handler) = "queue"
    /\ handler' = [handler EXCEPT !.kind = "queue"]
    /\ queue' = <<>>
    /\ alive' = TRUE
    /\ worker' = "check"
    /\ client' = AfterSwap
    /\ UNCHANGED <<clients, timer, held, arrived, outVars>>

\* A queue handler that stays one refills a deque of the new length.
TransitionWithinQueue ==
    /\ client \in {"swap", "swap again"}
    /\ handler.kind = "queue"
    /\ KindFor(handler) = "queue"
    /\ queue' = Newest(queue, handler.qlen)
    /\ timer' = Notified
    /\ client' = AfterSwap
    /\ UNCHANGED <<clients, handler, alive, worker, held, arrived, outVars>>

\* finish(): the flag and the notify, then join() with handler_lock still held.
Finish ==
    /\ client \in {"swap", "swap again"}
    /\ handler.kind = "queue"
    /\ KindFor(handler) # "queue"
    /\ alive' = FALSE
    /\ timer' = Notified
    /\ client' = IF client = "swap" THEN "join" ELSE "join again"
    /\ UNCHANGED <<clients, handler, queue, worker, held, arrived, outVars>>

\* join() returns: the old handler, and what is left in its queue, is dropped.
Joined ==
    /\ client \in {"join", "join again"}
    /\ worker = "none"
    /\ handler' = [handler EXCEPT !.kind = KindFor(handler)]
    /\ queue' = <<>>
    /\ client' = AfterSwap
    /\ UNCHANGED <<clients, alive, workerVars, arrived, outVars>>

-----------------------------------------------------------------------------
(* The executor's thread: on_msg, under handler_lock.                      *)

Direct ==
    /\ \/ handler.kind = "plain"
       \/ handler.kind = "throttle" /\ TimeRemaining = 0
    /\ Publish(arrived')
    /\ UNCHANGED <<queue, timer>>

Dropped ==
    /\ \/ handler.kind = "throttle" /\ TimeRemaining # 0
       \/ handler.kind = "queue" /\ ~alive
    /\ UNCHANGED <<queue, timer, outVars>>

QueuedSilent ==
    /\ handler.kind = "queue"
    /\ alive
    /\ queue' = Newest(Append(queue, arrived'), handler.qlen)
    /\ UNCHANGED <<timer, outVars>>

Queued ==
    /\ handler.kind = "queue"
    /\ alive
    /\ queue' = Newest(Append(queue, arrived'), handler.qlen)
    /\ timer' = IF queue = <<>> THEN Notified ELSE timer
    /\ UNCHANGED outVars

Arrive ==
    /\ client = "idle"
    /\ Subscribed # {}
    /\ arrived < MaxMsgs
    /\ arrived' = arrived + 1
    /\ Direct \/ Dropped \/ Queued
    /\ UNCHANGED <<clientVars, handler, alive, worker, held>>

-----------------------------------------------------------------------------
(* QueueMessageHandler.run                                                 *)

CheckAlways ==
    /\ worker = "check"
    /\ worker' = "lock"
    /\ UNCHANGED <<clientVars, handler, queue, alive, timer, held, arrived, outVars>>

\* `while self.alive`, read without the condition's lock.
Check ==
    /\ worker = "check"
    /\ worker' = IF alive THEN "lock" ELSE "tail"
    /\ UNCHANGED <<clientVars, handler, queue, alive, timer, held, arrived, outVars>>

\* wait() on an empty queue has no timeout.
Wait ==
    /\ worker = "lock"
    /\ worker' = "wait"
    /\ timer' = IF queue = <<>> THEN Forever ELSE TimeRemaining
    /\ UNCHANGED <<clientVars, handler, queue, alive, held, arrived, outVars>>

WakeNewest ==
    /\ worker = "wait"
    /\ timer = 0
    /\ timer' = Forever
    /\ IF alive /\ TimeRemaining = 0 /\ queue # <<>>
       THEN held' = Last(queue) /\ queue' = Front(queue) /\ worker' = "deliver"
       ELSE worker' = "check" /\ UNCHANGED <<held, queue>>
    /\ UNCHANGED <<clientVars, handler, alive, arrived, outVars>>

Wake ==
    /\ worker = "wait"
    /\ timer = 0
    /\ timer' = Forever
    /\ IF alive /\ TimeRemaining = 0 /\ queue # <<>>
       THEN /\ held' = Head(queue)
            /\ queue' = Tail(queue)
            /\ worker' = "deliver"
       ELSE /\ worker' = "check"
            /\ UNCHANGED <<held, queue>>
    /\ UNCHANGED <<clientVars, handler, alive, arrived, outVars>>

\* The condition is released before the message is published.
Deliver ==
    /\ worker = "deliver"
    /\ Publish(held)
    /\ worker' = "check"
    /\ held' = 0
    /\ UNCHANGED <<clientVars, handler, queue, alive, timer, arrived>>

\* The loop after the flag fell: it publishes the head, and leaves it there.
TailPublish ==
    /\ worker = "tail"
    /\ TimeRemaining = 0
    /\ queue # <<>>
    /\ Publish(Head(queue))
    /\ UNCHANGED <<clientVars, handler, queue, alive, workerVars, arrived>>

TailEnd ==
    /\ worker = "tail"
    /\ TimeRemaining # 0 \/ queue = <<>>
    /\ worker' = "none"
    /\ UNCHANGED <<clientVars, handler, queue, alive, timer, held, arrived, outVars>>

\* Time passes: ages grow, a wait with a timeout runs down.
Tick ==
    /\ since < MaxThrottle \/ (worker = "wait" /\ timer \in 1..MaxThrottle)
    /\ since' = Min({since + 1, MaxThrottle})
    /\ timer' = IF worker = "wait" /\ timer \in 1..MaxThrottle THEN timer - 1 ELSE timer
    /\ UNCHANGED <<clientVars, handler, queue, alive, worker, held, arrived, out>>

-----------------------------------------------------------------------------

ClientSteps == SetThrottle \/ SetQueueLength \/ TransitionPlainly \/ TransitionToQueue
               \/ TransitionWithinQueue \/ Finish \/ Joined
WorkerSteps == Check \/ Wait \/ Wake \/ Deliver \/ TailPublish \/ TailEnd

Next ==
    \/ \E sid \in Sids, p \in Params : Subscribe(sid, p)
    \/ \E gone \in {{sid} : sid \in Sids} \union {Sids} : Unsubscribe(gone) \/ Unregister(gone)
    \/ ClientSteps
    \/ Arrive
    \/ WorkerSteps
    \/ Tick

Spec == Init /\ [][Next]_vars

\* A thread that can go on does, and time passes; messages and requests may stop.
FairSpec == Spec /\ WF_vars(ClientSteps) /\ WF_vars(WorkerSteps) /\ WF_vars(Tick)

-----------------------------------------------------------------------------

\* A worker asleep without a timeout has nothing to send: a message put into
\* an empty queue always wakes it (should_notify in handle_message).
NoMissedMessage == worker = "wait" /\ timer = Forever => queue = <<>>

\* Messages reach the socket in the order of their arrival, and none that has
\* not arrived, across every change of handler; out' = out is a repetition.
InOrder == [][out' >= out /\ out' <= arrived']_vars

\* A change of parameters that has to wait for the worker ends, unless the
\* worker fell asleep after the notify or goes on repeating its head.
Stuck == \/ worker = "wait" /\ timer = Forever
         \/ worker = "tail" /\ queue # <<>>
JoinEnds == (client \in {"join", "join again"}) ~> (client \in {"qlen", "idle"} \/ Stuck)

=============================================================================
