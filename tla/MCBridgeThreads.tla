--------------------------- MODULE MCBridgeThreads ---------------------------
(* The threads of the rosbridge overlay, its two parts without a lock: the   *)
(* handlers of one client's subscription, and the publisher manager that     *)
(* clients share. They share nothing: a behaviour is one of one part, and    *)
(* the other rests where it starts.                                          *)
EXTENDS MessageHandlers

P(t, q) == [throttle |-> t, qlen |-> q]
Wishes == {P(0, 0), P(2, 0), P(2, 2), P(0, 2), P(1, 1)}

CONSTANTS Clients, AdvIds, MaxPubs, MaxTimers, MaxRequests      \* of TopicPublishers

VARIABLES
    part,                                                       \* the part at work
    pc, op, adv, registration, published, sending, pub, users,
    open, takeDown, tstate, pubs, timers, requests, failed, met \* TopicPublishers

Manager == INSTANCE TopicPublishers WITH timer <- takeDown

managerVars == <<pc, op, adv, registration, published, sending, pub, users, open, takeDown,
                 tstate, pubs, timers, requests, failed, met>>
threadVars == <<part, vars, managerVars>>

ThreadsInit == part \in {"publishers", "stream"} /\ Init /\ Manager!Init

Streaming(A) == part = "stream" /\ A /\ UNCHANGED <<part, managerVars>>
Publishing(A) == part = "publishers" /\ A /\ UNCHANGED <<part, vars>>

ThreadsNext == Streaming(Next) \/ Publishing(Manager!Next)

(* The fairness of the two parts.                                            *)
ThreadsSpec ==
    /\ ThreadsInit /\ [][ThreadsNext]_threadVars
    /\ WF_threadVars(Streaming(ClientSteps))
    /\ WF_threadVars(Streaming(WorkerSteps))
    /\ WF_threadVars(Streaming(Tick))
    /\ \A c \in Clients : WF_threadVars(Publishing(Manager!Progress(c)))
    /\ \A t \in Manager!Timers : WF_threadVars(Publishing(Manager!Expiry(t)))

-----------------------------------------------------------------------------

(* TopicPublishers: an advertisement in force has its publisher.             *)
KeptWhileAdvertised == Manager!KeptWhileAdvertised
(* TopicPublishers: a disconnect runs to its end.                            *)
FinishCompletes == Manager!FinishCompletes
(* TopicPublishers: what nobody uses any more is taken down.                 *)
TakenDown == Manager!TakenDown
=============================================================================
