----------------------------- MODULE ClientProtocol -----------------------------
(***************************************************************************)
(* One websocket client's Protocol (rosbridge_library/protocol.py): how    *)
(* its thread finds messages in the text it receives, works on them one    *)
(* after another, and answers service calls, while the threads of its      *)
(* subscriptions send on the same socket.                                  *)
(*                                                                         *)
(* A text is its brackets: one that opens an object is the op and the id   *)
(* the object has, and "close" closes any. Each bracket knows the number   *)
(* of the message it was sent in, which the code does not see. A message's *)
(* data holds no object with an op, the limitation protocol.py states.     *)
(*                                                                         *)
(* An operator that stands just before another and extends its name is its *)
(* mutated form, listed in PROJECT.json; no other definition uses it.      *)
(***************************************************************************)
EXTENDS Integers, Sequences, FiniteSetsExt, SequencesExt

CONSTANTS CallIds,                      \* what a client may give a service call for an id
          MaxMessages, MaxPublished,    \* bounds: messages of the client, and to it
          FragmentSize                  \* the fragment_size a client asks for

VARIABLES coming,           \* text the client is sending
          sent,             \* how many messages it has begun to send
          pc,               \* its thread in incoming()
          buffer, old_buffer, fragment_size,
          cid,              \* call_service(): the id of the call it is in
          handled,          \* history: numbers of the messages given to an operation
          sending,          \* [thread -> the pieces send() has still to pass on]
          published,        \* how many messages subscriptions have sent
          collected         \* the client: [id -> pieces with that id since a first one]

incomingVars == <<pc, buffer, old_buffer, fragment_size, cid, handled>>
clientVars == <<coming, sent>>
wireVars == <<sending, published, collected>>
vars == <<clientVars, incomingVars, wireVars>>

-----------------------------------------------------------------------------
(* Messages: a service call, one of another op that sets fragment_size (a  *)
(* subscription), one of an unknown op, and none at all. A call has an id, *)
(* perhaps that of an earlier one, or none: its fragments then get the     *)
(* number 0, as they do when 0 is its id.                                  *)

Kinds == {"call", "subscribe", "unknown", "op-less"}
Text(kind) == IF kind = "subscribe" THEN <<kind, "op-less", "close", "close">> ELSE <<kind, "close">>

Texts(text) == [i \in DOMAIN text |-> <<text[i].bracket, text[i].id>>]

Threads == {"socket", "subscription"}
NoId == 0                   \* fragmentation_seed of a new Fragmentation
PieceIds == CallIds \cup {NoId}
Pieces == [id : PieceIds, num : Nat, of : Threads \X Nat]

TypeOK ==
    /\ sent \in 0 .. MaxMessages /\ published \in 0 .. MaxPublished
    /\ pc \in {"idle", "parse", "call", "send", "more"}
    /\ buffer \in Seq([bracket : Kinds \cup {"close"}, n : 1 .. MaxMessages, id : PieceIds])
    /\ fragment_size \in {0, FragmentSize}          \* 0: None, or above any length
    /\ cid \in PieceIds
    /\ handled \in Seq(1 .. MaxMessages)
    /\ sending \in [Threads -> Seq(Pieces)]
    /\ collected \in [PieceIds -> Seq(Pieces)]

Init ==
    /\ coming = <<>> /\ sent = 0
    /\ pc = "idle" /\ buffer = <<>> /\ old_buffer = <<>> /\ fragment_size = 0
    /\ cid = NoId /\ handled = <<>>
    /\ sending = [t \in Threads |-> <<>>] /\ published = 0
    /\ collected = [id \in PieceIds |-> <<>>]

-----------------------------------------------------------------------------
(* The client and its socket: texts arrive in order, cut anywhere and      *)
(* joined, and the rest of a text may never come.                          *)

Say(kind, id) ==
    /\ sent < MaxMessages /\ sent' = sent + 1
    /\ kind # "call" => id = NoId
    /\ coming' = coming \o [i \in DOMAIN Text(kind) |->
                               [bracket |-> Text(kind)[i], n |-> sent + 1, id |-> id]]
    /\ UNCHANGED <<incomingVars, wireVars>>

BreakOff ==
    /\ coming # <<>> /\ coming' = <<>>
    /\ UNCHANGED <<sent, incomingVars, wireVars>>

\* incoming(): what came is put behind what is left from before.
Receive(k) ==
    /\ pc = "idle" /\ k \in DOMAIN coming
    /\ buffer' = buffer \o SubSeq(coming, 1, k)
    /\ coming' = SubSeq(coming, k + 1, Len(coming))
    /\ pc' = "parse"
    /\ UNCHANGED <<sent, old_buffer, fragment_size, cid, handled, wireVars>>

-----------------------------------------------------------------------------
(* incoming(): the search for a message.                                   *)

Depth(text, i) == Cardinality({j \in 1 .. i : text[j].bracket # "close"})
                  - Cardinality({j \in 1 .. i : text[j].bracket = "close"})

\* deserialize() takes the text from i to j: it is one object.
Object(text, i, j) ==
    LET part == SubSeq(text, i, j) IN
    /\ i < j /\ Depth(part, Len(part)) = 0
    /\ \A k \in 1 .. Len(part) - 1 : Depth(part, k) > 0

\* The whole buffer, or the object of the first opening bracket that has one.
Starts == {i \in DOMAIN buffer : \E j \in DOMAIN buffer : Object(buffer, i, j)}
Start == Min(Starts)
End == CHOOSE j \in DOMAIN buffer : Object(buffer, Start, j)
Whole == Object(buffer, 1, Len(buffer))

Found == buffer[Start].bracket

\* What is in front of a message is thrown away with it; the text of an object
\* without an op stays, unless it is the whole buffer.
RestKept == IF Whole THEN <<>> ELSE buffer
Rest == IF Whole THEN <<>>
        ELSE IF Found = "op-less" THEN buffer ELSE SubSeq(buffer, End + 1, Len(buffer))

Parse ==
    /\ pc = "parse"
    /\ \/ Starts = {} /\ pc' = "idle" /\ UNCHANGED <<buffer, fragment_size, cid, handled>>
       \/ /\ Starts # {} /\ Found \notin {"call", "subscribe"}      \* logged, and no more
          /\ buffer' = Rest /\ pc' = "idle" /\ UNCHANGED <<fragment_size, cid, handled>>
       \/ /\ Starts # {} /\ Found \in {"call", "subscribe"}
          /\ buffer' = Rest
          /\ fragment_size' = IF Found = "subscribe" THEN FragmentSize ELSE fragment_size
          /\ cid' = IF Found = "call" THEN buffer[Start].id ELSE cid
          /\ handled' = Append(handled, buffer[Start].n)
          /\ pc' = IF Found = "call" THEN "call" ELSE "more"
    /\ UNCHANGED <<old_buffer, clientVars, wireVars>>

\* What is left is looked at again, unless it reads as it did the last time
\* something was left.
More ==
    /\ pc = "more"
    /\ IF buffer # <<>> /\ old_buffer # Texts(buffer)
       THEN old_buffer' = Texts(buffer) /\ pc' = "parse"
       ELSE pc' = "idle" /\ UNCHANGED old_buffer
    /\ UNCHANGED <<buffer, fragment_size, cid, handled, clientVars, wireVars>>

-----------------------------------------------------------------------------
(* send(), Fragmentation.fragment and _fragment_generator                  *)

Fragmented(thread, n, id, length) ==
    IF fragment_size = 0 \/ length <= fragment_size THEN <<>>
    ELSE [i \in 1 .. (length - 1) \div fragment_size + 1 |-> [id |-> id, num |-> i - 1, of |-> <<thread, n>>]]

\* A message that is sent whole takes one step, in which nothing is collected.
Send(thread, n, id, length) == sending' = [sending EXCEPT ![thread] = Fragmented(thread, n, id, length)]

\* call_service runs in the client's thread until the service has answered or
\* failed, however long that takes; a result that cannot be serialized (length
\* 0) is not sent. The answer has the call's id if the call has one, and so
\* have its fragments.
Answer(length) ==
    /\ pc = "call" /\ pc' = "send"
    /\ Send("socket", Last(handled), cid, length)
    /\ cid' = NoId
    /\ UNCHANGED <<buffer, old_buffer, fragment_size, handled, clientVars, published, collected>>

Answered ==
    /\ pc = "send" /\ sending["socket"] = <<>> /\ pc' = "more"
    /\ UNCHANGED <<buffer, old_buffer, fragment_size, cid, handled, clientVars, wireVars>>

\* A subscription's message has no id, and every one of them gets a seed of its
\* own, which is 0.
PublishSeeded(length) ==
    /\ published < MaxPublished /\ published' = published + 1
    /\ sending["subscription"] = <<>>
    /\ Send("subscription", published + 1, published, length)
    /\ UNCHANGED <<incomingVars, clientVars, collected>>

Publish(length) ==
    /\ published < MaxPublished /\ published' = published + 1
    /\ sending["subscription"] = <<>>
    /\ Send("subscription", published + 1, NoId, length)
    /\ UNCHANGED <<incomingVars, clientVars, collected>>

\* outgoing(), and the client, which collects by id.
Outgoing(thread) ==
    /\ sending[thread] # <<>>
    /\ LET p == Head(sending[thread]) IN
          collected' = [collected EXCEPT ![p.id] = IF p.num = 0 THEN <<p>> ELSE Append(@, p)]
    /\ sending' = [sending EXCEPT ![thread] = Tail(@)]
    /\ UNCHANGED <<incomingVars, clientVars, published>>

Next ==
    \/ \E kind \in Kinds, id \in PieceIds : Say(kind, id)
    \/ BreakOff
    \/ \E k \in 1 .. Len(coming) : Receive(k)
    \/ Parse \/ More
    \/ \E length \in {0, FragmentSize, 2 * FragmentSize + 1} : Answer(length) \/ Publish(length)
    \/ Answered
    \/ \E thread \in Threads : Outgoing(thread)

Spec == Init /\ [][Next]_vars

-----------------------------------------------------------------------------

\* However the text is cut, joined and broken off, and whatever lies in front of
\* a message or is left behind it, messages are handled in the order they were
\* sent and none of them twice.
HandledInOrder == \A i, j \in DOMAIN handled : i < j => handled[i] < handled[j]

\* The fragments of an answer to a call with an id can be put together, although
\* subscriptions send fragments in between and a later call may have the same id:
\* those with the id, from the first one on, are of one answer, in order and none
\* missing. Calls without an id have no such promise: their answers' fragments
\* have the number that those of subscriptions have, and mix with them.
AnswersTellApart ==
    \A id \in PieceIds \ {NoId} : \A i, j \in DOMAIN collected[id] :
        collected[id][i].of[1] = "socket" =>
            collected[id][j].of = collected[id][i].of /\ collected[id][j].num = j - 1
=============================================================================
