-------------------------- MODULE TopicSubscriptions --------------------------
(***************************************************************************)
(* Who is subscribed to what in the rosbridge: the Subscribe capability of *)
(* each websocket client (capabilities/subscribe.py) over the one          *)
(* SubscriberManager and its MultiSubscriber per topic                     *)
(* (internal/subscribers.py).  The messages of one client are handled one  *)
(* after another; clients run in parallel, and so do the executor's        *)
(* callbacks.  The manager's lock makes each of its operations one step,   *)
(* the MultiSubscriber's rlock each callback.                              *)
(*                                                                         *)
(* An operator that stands just before another and extends its name is its *)
(* mutated form, listed in PROJECT.json; no other definition uses it.      *)
(***************************************************************************)
EXTENDS Integers, Sequences, FiniteSets, SequencesExt

CONSTANTS Clients, Topics,
          Sids,        \* subscription ids, the same for every client
          NoEntry,     \* a topic with no Subscription in a client's table
          NoSub,       \* a topic with no MultiSubscriber
          MaxMsgs,     \* bound: messages published on the topics
          MaxRequests  \* bound: subscribe requests of all clients

ASSUME NoEntryAssumption == \A sids \in SUBSET Sids : NoEntry # sids

VARIABLES conn,        \* a client's websocket: open, closing, closed, aborted
          entry,       \* Subscribe._subscriptions: the sids of each Subscription
          multi,       \* SubscriberManager._subscribers
          advertised,  \* topics the ROS graph knows, with the type "right"
          main, fresh, \* messages waiting at subscriber and at new_subscriber
          count,       \* messages published so far
          requests,    \* subscribe requests so far
          owed,        \* history: published while the client was settled, not yet delivered
          doubled,     \* history: subscribed again while it already was
          refused      \* history: the manager raised before it registered the client

tables == <<conn, entry, multi, doubled, refused>>
messages == <<main, fresh, count, owed>>
vars == <<tables, messages, advertised, requests>>

Types == {"right", "wrong"}
MultiSubscribers == [subscriptions : SUBSET Clients, new : SUBSET Clients,
                     second : BOOLEAN]

ASSUME NoSubAssumption == NoSub \notin MultiSubscribers

TypeOK ==
    /\ conn \in [Clients -> {"open", "closing", "closed", "aborted"}]
    /\ entry \in [Clients -> [Topics -> (SUBSET Sids) \union {NoEntry}]]
    /\ multi \in [Topics -> MultiSubscribers \union {NoSub}]
    /\ advertised \subseteq Topics
    /\ main \in [Topics -> Seq(1..MaxMsgs)] /\ fresh \in [Topics -> Seq(1..MaxMsgs)]
    /\ count \in 0..MaxMsgs /\ requests \in 0..MaxRequests
    /\ owed \in [Clients -> SUBSET (1..MaxMsgs)]
    /\ doubled \subseteq Clients \X Topics /\ refused \subseteq Clients \X Topics

Init ==
    /\ conn = [c \in Clients |-> "open"]
    /\ entry = [c \in Clients |-> [t \in Topics |-> NoEntry]]
    /\ multi = [t \in Topics |-> NoSub]
    /\ advertised = {}
    /\ main = [t \in Topics |-> <<>>] /\ fresh = [t \in Topics |-> <<>>]
    /\ count = 0 /\ requests = 0
    /\ owed = [c \in Clients |-> {}]
    /\ doubled = {} /\ refused = {}

Registered(c, t) == multi[t] # NoSub /\ c \in multi[t].subscriptions \union multi[t].new
Settled(c, t) == multi[t] # NoSub /\ c \in multi[t].subscriptions
Wants(c, t) == entry[c][t] \notin {NoEntry, {}}

-----------------------------------------------------------------------------
(* SubscriberManager.subscribe, under its lock.                            *)

\* MultiSubscriber.__init__ raises for a type it cannot infer, or that is not
\* the type the topic is established with.  "none": no type was given.
CannotCreate(t, type) ==
    \/ type = "none" /\ t \notin advertised
    \/ type # "none" /\ t \in advertised /\ type # "right"

NewMulti(c) == [subscriptions |-> {c}, new |-> {}, second |-> FALSE]

\* MultiSubscriber.subscribe: everyone but the first waits for a message on
\* the new_subscriber.  verify_type, which may raise, comes after it and
\* changes nothing.
Joining(ms, c) == [ms EXCEPT !.new = @ \union {c}, !.second = TRUE]

\* Subscribe.subscribe with Subscription.subscribe: the sid is noted first,
\* and stays when the manager raises.
Subscribe(c, t, sid, type) ==
    /\ conn[c] = "open"
    /\ requests < MaxRequests
    /\ requests' = requests + 1
    /\ entry' = [entry EXCEPT ![c][t] = IF @ = NoEntry THEN {sid} ELSE @ \union {sid}]
    /\ \/ /\ multi[t] = NoSub
          /\ CannotCreate(t, type)
          /\ refused' = refused \union {<<c, t>>}
          /\ UNCHANGED <<multi, doubled>>
       \/ /\ multi[t] = NoSub
          /\ ~CannotCreate(t, type)
          /\ multi' = [multi EXCEPT ![t] = NewMulti(c)]
          /\ UNCHANGED <<doubled, refused>>
       \/ /\ multi[t] # NoSub
          /\ multi' = [multi EXCEPT ![t] = Joining(@, c)]
          /\ doubled' = IF Settled(c, t) THEN doubled \union {<<c, t>>} ELSE doubled
          /\ UNCHANGED refused
    /\ UNCHANGED <<conn, advertised, messages>>

-----------------------------------------------------------------------------
(* SubscriberManager.unsubscribe, under its lock.                          *)

RaisesKeyErrorWaiting(c, t) == multi[t] # NoSub /\ ~Settled(c, t)

\* `del self.subscriptions[client_id]` of a client that is in neither table.
RaisesKeyError(c, t) == multi[t] # NoSub /\ ~Registered(c, t)

LeavingEarly(ms, c) == [ms EXCEPT !.new = @ \ {c}]

Leaving(ms, c) ==
    IF c \in ms.new THEN [ms EXCEPT !.new = @ \ {c}]
                    ELSE [ms EXCEPT !.subscriptions = @ \ {c}]

\* The last one destroys both subscriptions, with the messages they hold.  A
\* callback between the removal and the destruction would reach nobody.
ManagerUnsubscribe(c, t) ==
    IF multi[t] = NoSub
    THEN UNCHANGED <<multi, main, fresh, owed>>
    ELSE LET ms == Leaving(multi[t], c)
             last == ms.subscriptions \union ms.new = {}
         IN /\ multi' = [multi EXCEPT ![t] = IF last THEN NoSub ELSE ms]
            /\ main' = [main EXCEPT ![t] = IF last THEN <<>> ELSE @]
            /\ fresh' = [fresh EXCEPT ![t] = IF last THEN <<>> ELSE @]
            /\ owed' = [owed EXCEPT ![c] = IF c \in ms.subscriptions THEN @
                                           ELSE @ \ ToSet(main[t])]

\* Subscribe.unsubscribe for one sid, or without one for all of them.
UnsubscribeSome(c, t, gone) ==
    /\ conn[c] = "open"
    /\ entry[c][t] # NoEntry
    /\ entry[c][t] \ gone # {}
    /\ entry' = [entry EXCEPT ![c][t] = @ \ gone]
    /\ UNCHANGED <<conn, multi, advertised, requests, doubled, refused, messages>>

UnsubscribeLast(c, t, gone) ==
    /\ conn[c] = "open"
    /\ entry[c][t] # NoEntry
    /\ entry[c][t] \ gone = {}
    /\ ~RaisesKeyError(c, t)
    /\ ManagerUnsubscribe(c, t)
    /\ entry' = [entry EXCEPT ![c][t] = NoEntry]
    /\ UNCHANGED <<conn, advertised, requests, doubled, refused, count>>

\* The exception leaves the Subscription behind, with no sid in it.
UnsubscribeRaises(c, t, gone) ==
    /\ conn[c] = "open"
    /\ entry[c][t] # NoEntry
    /\ entry[c][t] \ gone = {}
    /\ RaisesKeyError(c, t)
    /\ entry' = [entry EXCEPT ![c][t] = {}]
    /\ UNCHANGED <<conn, multi, advertised, requests, doubled, refused, messages>>

\* The socket closes; finish() then unregisters one Subscription after another.
Close(c) ==
    /\ conn[c] = "open"
    /\ conn' = [conn EXCEPT ![c] = "closing"]
    /\ UNCHANGED <<entry, multi, advertised, requests, doubled, refused, messages>>

FinishTopic(c, t) ==
    /\ conn[c] = "closing"
    /\ entry[c][t] # NoEntry
    /\ ~RaisesKeyError(c, t)
    /\ ManagerUnsubscribe(c, t)
    /\ entry' = [entry EXCEPT ![c][t] = NoEntry]
    /\ UNCHANGED <<conn, advertised, requests, doubled, refused, count>>

\* The first exception ends the loop, and with it the whole of finish().
FinishAborts(c) ==
    /\ conn[c] = "closing"
    /\ \E t \in Topics : entry[c][t] # NoEntry /\ RaisesKeyError(c, t)
    /\ conn' = [conn EXCEPT ![c] = "aborted"]
    /\ UNCHANGED <<entry, multi, advertised, requests, doubled, refused, messages>>

FinishEnds(c) ==
    /\ conn[c] = "closing"
    /\ \A t \in Topics : entry[c][t] = NoEntry
    /\ conn' = [conn EXCEPT ![c] = "closed"]
    /\ UNCHANGED <<entry, multi, advertised, requests, doubled, refused, messages>>

-----------------------------------------------------------------------------
(* The ROS side: publishers come up, and the executor runs callbacks.      *)

Advertise(t) ==
    /\ t \notin advertised
    /\ advertised' = advertised \union {t}
    /\ UNCHANGED <<tables, messages, requests>>

\* A message reaches each rclpy subscription that exists when it is published.
Publish(t) ==
    /\ count < MaxMsgs
    /\ t \in advertised
    /\ multi[t] # NoSub
    /\ count' = count + 1
    /\ main' = [main EXCEPT ![t] = Append(@, count')]
    /\ fresh' = [fresh EXCEPT ![t] = IF multi[t].second THEN Append(@, count') ELSE @]
    /\ owed' = [c \in Clients |-> IF Settled(c, t) THEN owed[c] \union {count'} ELSE owed[c]]
    /\ UNCHANGED <<tables, advertised, requests>>

\* MultiSubscriber.callback.
Callback(t) ==
    /\ main[t] # <<>>
    /\ main' = [main EXCEPT ![t] = Tail(@)]
    /\ owed' = [c \in Clients |-> IF Settled(c, t) THEN owed[c] \ {Head(main[t])} ELSE owed[c]]
    /\ UNCHANGED <<tables, advertised, requests, fresh, count>>

\* _new_sub_callback: the waiting clients, or when they have all left again
\* everybody else, get the message; new_subscriber is destroyed.
Served(ms) == IF ms.new = {} THEN ms.subscriptions ELSE ms.new

NewSubCallbackRestart(t) ==
    /\ fresh[t] # <<>>
    /\ owed' = [c \in Clients |-> IF c \in Served(multi[t]) THEN owed[c] \ {Head(fresh[t])}
                                                           ELSE owed[c]]
    /\ multi' = [multi EXCEPT ![t].subscriptions = @ \union multi[t].new,
                              ![t].new = {}, ![t].second = FALSE]
    /\ fresh' = [fresh EXCEPT ![t] = <<>>]
    /\ main' = [main EXCEPT ![t] = <<>>]
    /\ UNCHANGED <<conn, entry, advertised, requests, count, doubled, refused>>

NewSubCallback(t) ==
    /\ fresh[t] # <<>>
    /\ owed' = [c \in Clients |-> IF c \in Served(multi[t]) THEN owed[c] \ {Head(fresh[t])}
                                                           ELSE owed[c]]
    /\ multi' = [multi EXCEPT ![t].subscriptions = @ \union multi[t].new,
                              ![t].new = {}, ![t].second = FALSE]
    /\ fresh' = [fresh EXCEPT ![t] = <<>>]
    /\ UNCHANGED <<conn, entry, advertised, requests, main, count, doubled, refused>>

Next ==
    \/ \E c \in Clients, t \in Topics :
        \/ \E sid \in Sids, type \in Types \union {"none"} : Subscribe(c, t, sid, type)
        \/ \E gone \in {{sid} : sid \in Sids} \union {Sids} :
               UnsubscribeSome(c, t, gone) \/ UnsubscribeLast(c, t, gone)
               \/ UnsubscribeRaises(c, t, gone)
        \/ FinishTopic(c, t)
    \/ \E c \in Clients : Close(c) \/ FinishAborts(c) \/ FinishEnds(c)
    \/ \E t \in Topics : Advertise(t) \/ Publish(t) \/ Callback(t) \/ NewSubCallback(t)

Spec == Init /\ [][Next]_vars

-----------------------------------------------------------------------------

\* Nobody is registered, and served, without a Subscription of its own, unless
\* it had subscribed twice (unsubscribe takes only one of the two entries).
NoLeakedClient ==
    \A c \in Clients, t \in Topics :
        Registered(c, t) /\ ~Wants(c, t) => <<c, t>> \in doubled

\* A disconnect runs to its end unless a topic had been refused to the client
\* before: only then can unregister meet a client the manager does not know.
FinishCompletes ==
    \A c \in Clients : conn[c] = "aborted" => \E t \in Topics : <<c, t>> \in refused

\* A settled subscriber misses nothing: what was published since it settled
\* has been delivered to it or still waits at the first subscription, whoever
\* else comes and goes.
SettledMissNothing ==
    \A c \in Clients : owed[c] \subseteq UNION {ToSet(main[t]) : t \in Topics}

=============================================================================
