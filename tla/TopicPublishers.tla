---------------------------- MODULE TopicPublishers ----------------------------
(***************************************************************************)
(* The one topic websocket clients may write (the goal pose: the globs set *)
(* in RosbridgeProtocol.__init__ turn every other topic away), and the     *)
(* PublisherManager they share (internal/publishers.py) under the          *)
(* Advertise and Publish capabilities.  The manager has no lock: every     *)
(* step of a client's thread, and of the Timer threads that take an unused *)
(* publisher down, can fall between two steps of another.                  *)
(*                                                                         *)
(* Publishers and timers are numbered in the order they are made, so that  *)
(* one that dropped out of the manager's tables is still there.            *)
(*                                                                         *)
(* An operator that stands just before another and extends its name is its *)
(* mutated form, listed in PROJECT.json; no other definition uses it.      *)
(***************************************************************************)
EXTENDS Integers, FiniteSets

CONSTANTS Clients, AdvIds,
          MaxPubs, MaxTimers,  \* bounds: publishers and timers made in all,
          MaxRequests          \* and messages of all clients

Pubs == 1..MaxPubs
Timers == 1..MaxTimers
None == 0

VARIABLES pc, op,        \* a client's step, and the message it works on
          adv,           \* adv ids of its Registration
          registration,  \* Advertise._registrations has the topic
          published,     \* Publish._published has the topic
          sending,       \* the publisher it fetched for its message
          pub,           \* PublisherManager._publishers[topic]
          users, open,   \* clients of each MultiPublisher; its ROS publisher lives
          timer,         \* PublisherManager.unregister_timers[topic]
          tstate,        \* where each Timer is
          pubs, timers,  \* how many were made
          requests,      \* how many messages the clients have sent
          failed,        \* history: publish messages that ended in an exception
          met            \* history: clients that met another thread in the manager

clientVars == <<pc, op, adv, registration, published, sending>>
pubVars == <<pub, users, open, pubs>>
timerVars == <<timer, tstate, timers>>
history == <<failed, met, requests>>
vars == <<clientVars, pubVars, timerVars, history>>

TypeOK ==
    /\ pc \in [Clients -> {"idle", "look", "create", "enrol", "fetch", "send",
                           "leave", "withdraw", "timer", "cancel", "forget", "arm", "start",
                           "left", "gone", "aborted"}]
    /\ op \in [Clients -> {"none", "advertise", "publish", "publish again",
                           "unadvertise", "finish", "finish again"}]
    /\ adv \in [Clients -> SUBSET AdvIds]
    /\ registration \subseteq Clients /\ published \subseteq Clients
    /\ sending \in [Clients -> Pubs \union {None}]
    /\ pub \in Pubs \union {None}
    /\ users \in [Pubs -> SUBSET Clients] /\ open \subseteq Pubs
    /\ timer \in Timers \union {None}
    /\ tstate \in [Timers -> {"none", "new", "stillborn", "armed", "cancelled",
                               "destroy", "delete", "forget", "done"}]
    /\ pubs \in 0..MaxPubs /\ timers \in 0..MaxTimers
    /\ failed \subseteq Clients /\ met \subseteq Clients
    /\ requests \in 0..MaxRequests

Init ==
    /\ pc = [c \in Clients |-> "idle"]
    /\ op = [c \in Clients |-> "none"]
    /\ adv = [c \in Clients |-> {}]
    /\ registration = {} /\ published = {}
    /\ sending = [c \in Clients |-> None]
    /\ pub = None /\ open = {} /\ pubs = 0
    /\ users = [p \in Pubs |-> {}]
    /\ timer = None /\ timers = 0
    /\ tstate = [t \in Timers |-> "none"]
    /\ failed = {} /\ met = {} /\ requests = 0

Goto(c, step) == pc' = [pc EXCEPT ![c] = step]

\* An exception in a handler is logged by Protocol.incoming, and the next
\* message is taken; in finish() it ends the client's clean-up.
Raise(c) ==
    /\ Goto(c, IF op[c] \in {"finish", "finish again"} THEN "aborted" ELSE "idle")
    /\ failed' = IF op[c] \in {"publish", "publish again"} THEN failed \union {c} ELSE failed

\* What the code has no lock against: a timer's clean-up while the client is
\* inside the manager; another client about to replace the publisher in the
\* table, as one that still saw none does; and another that rearms the timer.
Inside(c) == pc[c] \notin {"idle", "gone", "aborted"}
Firing == \E t \in Timers : tstate[t] \in {"destroy", "delete", "forget"}
Replacing(d) == pc[d] = "create" /\ pub # None
Rearming(c) == pc[c] \in {"timer", "cancel", "forget", "arm", "start"}
Overlapped(c) ==
    \/ Firing /\ Inside(c)
    \/ \E d \in Clients \ {c} : (Inside(c) /\ Replacing(d)) \/ (Rearming(c) /\ Rearming(d))

Noted == met' = met \union {c \in Clients : Overlapped(c)'}

-----------------------------------------------------------------------------
(* The messages of a client: Advertise.advertise, Publish.publish,         *)
(* Advertise.unadvertise, and finish() when its socket closes.             *)

Message(c, kind) ==
    /\ pc[c] = "idle"
    /\ requests < MaxRequests
    /\ requests' = requests + 1
    /\ op' = [op EXCEPT ![c] = kind]

Advertise(c) ==
    /\ Message(c, "advertise")
    /\ registration' = registration \union {c}
    /\ Goto(c, "look")
    /\ UNCHANGED <<adv, published, sending, pubVars, timerVars, failed>>
    /\ Noted

PublishMsg(c) ==
    /\ Message(c, "publish")
    /\ Goto(c, "look")
    /\ UNCHANGED <<adv, registration, published, sending, pubVars, timerVars, failed>>
    /\ Noted

Unadvertise(c, gone) ==
    /\ Message(c, "unadvertise")
    /\ c \in registration
    /\ adv' = [adv EXCEPT ![c] = @ \ gone]
    /\ Goto(c, IF adv'[c] = {} THEN "leave" ELSE "idle")
    /\ UNCHANGED <<registration, published, sending, pubVars, timerVars, failed>>
    /\ Noted

Finish(c) ==
    /\ Message(c, IF c \in registration THEN "finish" ELSE "finish again")
    /\ Goto(c, IF c \in registration \union published THEN "leave" ELSE "gone")
    /\ UNCHANGED <<adv, registration, published, sending, pubVars, timerVars, failed>>
    /\ Noted

-----------------------------------------------------------------------------
(* PublisherManager.register, and publish, which registers once more.      *)

\* `topic not in self._publishers`.  An advertisement with another type than
\* the publisher's is refused by verify_type.
Look(c) ==
    /\ pc[c] = "look"
    /\ \/ pub = None /\ Goto(c, "create")
       \/ pub # None /\ Goto(c, "enrol")
       \/ pub # None /\ op[c] = "advertise" /\ Goto(c, "idle")
    /\ UNCHANGED <<op, adv, registration, published, sending, pubVars, timerVars, failed, requests>>
    /\ Noted

\* MultiPublisher(...), then the assignment.
Create(c) ==
    /\ pc[c] = "create"
    /\ pubs < MaxPubs
    /\ pubs' = pubs + 1
    /\ pub' = pubs'
    /\ open' = open \union {pubs'}
    /\ Goto(c, "enrol")
    /\ UNCHANGED <<op, adv, registration, published, sending, users, timerVars, failed, requests>>
    /\ Noted

\* The constructor raises: no type to infer, or another one established.
CreateRaises(c) ==
    /\ pc[c] = "create"
    /\ Goto(c, "idle")
    /\ UNCHANGED <<op, adv, registration, published, sending, pubVars, timerVars, failed, requests>>
    /\ Noted

\* register_client, and what the caller does when register returns.
Enrol(c) ==
    /\ pc[c] = "enrol"
    /\ pub # None
    /\ users' = [users EXCEPT ![pub] = @ \union {c}]
    /\ \/ /\ op[c] = "advertise"
          /\ \E id \in AdvIds : adv' = [adv EXCEPT ![c] = @ \union {id}]
          /\ Goto(c, "idle")
          /\ UNCHANGED <<op, published>>
       \/ /\ op[c] = "publish"
          /\ published' = published \union {c}
          /\ op' = [op EXCEPT ![c] = "publish again"]
          /\ Goto(c, "look")
          /\ UNCHANGED adv
       \/ /\ op[c] = "publish again"
          /\ Goto(c, "fetch")
          /\ UNCHANGED <<op, adv, published>>
    /\ UNCHANGED <<registration, sending, pub, open, pubs, timerVars, failed, requests>>
    /\ Noted

\* self._publishers[topic].publish: the look-up, and then the message.
Fetch(c) ==
    /\ pc[c] = "fetch"
    /\ pub # None
    /\ sending' = [sending EXCEPT ![c] = pub]
    /\ Goto(c, "send")
    /\ UNCHANGED <<op, adv, registration, published, pubVars, timerVars, failed, requests>>
    /\ Noted

Send(c) ==
    /\ pc[c] = "send"
    /\ IF sending[c] \in open THEN Goto(c, "idle") /\ UNCHANGED failed ELSE Raise(c)
    /\ sending' = [sending EXCEPT ![c] = None]
    /\ UNCHANGED <<op, adv, registration, published, pubVars, timerVars, requests>>
    /\ Noted

\* Each step looks its table up again: KeyError when the entry has gone.
KeyError(c) ==
    /\ \/ pc[c] \in {"enrol", "fetch", "withdraw"} /\ pub = None
       \/ pc[c] \in {"cancel", "forget", "start"} /\ timer = None
    /\ Raise(c)
    /\ UNCHANGED <<op, adv, registration, published, sending, pubVars, timerVars, requests>>
    /\ Noted

-----------------------------------------------------------------------------
(* PublisherManager.unregister                                             *)

LeaveSurely(c) ==
    /\ pc[c] = "leave"
    /\ Goto(c, "withdraw")
    /\ UNCHANGED <<op, adv, registration, published, sending, pubVars, timerVars, failed, requests>>
    /\ Noted

Leave(c) ==
    /\ pc[c] = "leave"
    /\ Goto(c, IF pub = None THEN "left" ELSE "withdraw")
    /\ UNCHANGED <<op, adv, registration, published, sending, pubVars, timerVars, failed, requests>>
    /\ Noted

WithdrawNobody(c) ==
    /\ pc[c] = "withdraw"
    /\ pub # None
    /\ Goto(c, "timer")
    /\ UNCHANGED <<op, adv, registration, published, sending, pubVars, timerVars, failed, requests>>
    /\ Noted

Withdraw(c) ==
    /\ pc[c] = "withdraw"
    /\ pub # None
    /\ users' = [users EXCEPT ![pub] = @ \ {c}]
    /\ Goto(c, "timer")
    /\ UNCHANGED <<op, adv, registration, published, sending, pub, open, pubs, timerVars, failed, requests>>
    /\ Noted

LookForTimer(c) ==
    /\ pc[c] = "timer"
    /\ Goto(c, IF timer = None THEN "arm" ELSE "cancel")
    /\ UNCHANGED <<op, adv, registration, published, sending, pubVars, timerVars, failed, requests>>
    /\ Noted

\* cancel() stops a timer that has not run yet.
Cancelled(state) ==
    IF state = "armed" THEN "cancelled" ELSE IF state = "new" THEN "stillborn" ELSE state

Cancel(c) ==
    /\ pc[c] = "cancel"
    /\ timer # None
    /\ tstate' = [tstate EXCEPT ![timer] = Cancelled(@)]
    /\ Goto(c, "forget")
    /\ UNCHANGED <<op, adv, registration, published, sending, pubVars, timer, timers, failed, requests>>
    /\ Noted

Forget(c) ==
    /\ pc[c] = "forget"
    /\ timer # None
    /\ timer' = None
    /\ Goto(c, "arm")
    /\ UNCHANGED <<op, adv, registration, published, sending, pubVars, tstate, timers, failed, requests>>
    /\ Noted

Arm(c) ==
    /\ pc[c] = "arm"
    /\ timers < MaxTimers
    /\ timers' = timers + 1
    /\ timer' = timers'
    /\ tstate' = [tstate EXCEPT ![timers'] = "new"]
    /\ Goto(c, "start")
    /\ UNCHANGED <<op, adv, registration, published, sending, pubVars, failed, requests>>
    /\ Noted

\* start() of whatever timer the table holds by now; one already started raises.
Start(c) ==
    /\ pc[c] = "start"
    /\ timer # None
    /\ \/ /\ tstate[timer] = "new"
          /\ tstate' = [tstate EXCEPT ![timer] = "armed"]
          /\ Goto(c, "left") /\ UNCHANGED failed
       \/ /\ tstate[timer] = "stillborn"
          /\ tstate' = [tstate EXCEPT ![timer] = "done"]
          /\ Goto(c, "left") /\ UNCHANGED failed
       \/ /\ tstate[timer] \notin {"new", "stillborn"}
          /\ Raise(c) /\ UNCHANGED tstate
    /\ UNCHANGED <<op, adv, registration, published, sending, pubVars, timer, timers, requests>>
    /\ Noted

\* The caller of unregister: unadvertise, Advertise.finish, Publish.finish.
Left(c) ==
    /\ pc[c] = "left"
    /\ \/ /\ op[c] = "unadvertise"
          /\ registration' = registration \ {c}
          /\ Goto(c, "idle")
          /\ UNCHANGED <<op, published>>
       \/ /\ op[c] = "finish"
          /\ registration' = registration \ {c}
          /\ op' = [op EXCEPT ![c] = "finish again"]
          /\ Goto(c, IF c \in published THEN "leave" ELSE "gone")
          /\ UNCHANGED published
       \/ /\ op[c] = "finish again"
          /\ published' = published \ {c}
          /\ Goto(c, "gone")
          /\ UNCHANGED <<op, registration>>
    /\ adv' = [adv EXCEPT ![c] = IF op[c] = "finish" THEN {} ELSE @]
    /\ UNCHANGED <<sending, pubVars, timerVars, failed, requests>>
    /\ Noted

-----------------------------------------------------------------------------
(* _unregister_impl, in a Timer's own thread.  An exception ends it.       *)

TimerGoto(t, state) == tstate' = [tstate EXCEPT ![t] = state]

FireRegardless(t) ==
    /\ tstate[t] = "armed"
    /\ TimerGoto(t, IF pub = None THEN "done" ELSE "destroy")
    /\ UNCHANGED <<clientVars, pubVars, timer, timers, failed, requests>>
    /\ Noted

Fire(t) ==
    /\ tstate[t] = "armed"
    /\ TimerGoto(t, IF pub = None THEN "done"
                    ELSE IF users[pub] = {} THEN "destroy" ELSE "forget")
    /\ UNCHANGED <<clientVars, pubVars, timer, timers, failed, requests>>
    /\ Noted

Destroy(t) ==
    /\ tstate[t] = "destroy"
    /\ IF pub = None
       THEN TimerGoto(t, "done") /\ UNCHANGED <<open, users>>
       ELSE /\ open' = open \ {pub}
            /\ users' = [users EXCEPT ![pub] = {}]
            /\ TimerGoto(t, "delete")
    /\ UNCHANGED <<clientVars, pub, pubs, timer, timers, failed, requests>>
    /\ Noted

Delete(t) ==
    /\ tstate[t] = "delete"
    /\ TimerGoto(t, IF pub = None THEN "done" ELSE "forget")
    /\ pub' = None
    /\ UNCHANGED <<clientVars, users, open, pubs, timer, timers, failed, requests>>
    /\ Noted

ForgetItself(t) ==
    /\ tstate[t] = "forget"
    /\ TimerGoto(t, "done")
    /\ timer' = None
    /\ UNCHANGED <<clientVars, pubVars, timers, failed, requests>>
    /\ Noted

-----------------------------------------------------------------------------

Requests(c) ==
    \/ Advertise(c) \/ PublishMsg(c) \/ Finish(c)
    \/ \E gone \in {{id} : id \in AdvIds} \union {AdvIds} : Unadvertise(c, gone)

Progress(c) ==
    \/ Look(c) \/ Create(c) \/ CreateRaises(c) \/ Enrol(c) \/ Fetch(c) \/ Send(c) \/ KeyError(c)
    \/ Leave(c) \/ Withdraw(c) \/ LookForTimer(c) \/ Cancel(c) \/ Forget(c) \/ Arm(c)
    \/ Start(c) \/ Left(c)

Expiry(t) == Fire(t) \/ Destroy(t) \/ Delete(t) \/ ForgetItself(t)

Next ==
    \/ \E c \in Clients : Requests(c) \/ Progress(c)
    \/ \E t \in Timers : Expiry(t)

Spec == Init /\ [][Next]_vars

\* A started timer runs and a client's thread goes on; requests may stop.
FairSpec ==
    /\ Spec
    /\ \A c \in Clients : WF_vars(Progress(c))
    /\ \A t \in Timers : WF_vars(Expiry(t))

-----------------------------------------------------------------------------

\* A client with an advertisement in force is among the users of the publisher
\* in the manager's table, and that publisher is open (Registration, register,
\* _unregister_impl), unless the client itself met a clean-up or one who replaces publishers.
KeptWhileAdvertised ==
    \A c \in Clients : pc[c] = "idle" /\ adv[c] # {} =>
        c \in met \/ (pub # None /\ c \in users[pub] /\ pub \in open)

\* A client's finish() runs to its end unless it met another thread: an
\* exception there would skip the clean-up of its subscriptions.
FinishCompletes == \A c \in Clients : pc[c] = "aborted" => c \in met

\* When all clients are gone the publisher is taken down by the timer of the
\* last unregister, again unless threads met.
AllGone == \A c \in Clients : pc[c] \in {"gone", "aborted"}
TakenDown == AllGone ~> (open = {} \/ met # {})

=============================================================================
