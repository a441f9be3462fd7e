---------------------------- MODULE MCBridgeTables ----------------------------
(* What the clients of the rosbridge overlay share, the tables of            *)
(* subscriptions and of fragments, and what each has for itself, the state   *)
(* of its protocol. A behaviour is one of one of them, and the others rest   *)
(* where they start. Clients, topics and ids are interchangeable.            *)
EXTENDS TopicSubscriptions, TLC

CONSTANTS
    Ids, Scripts, NoList,                                       \* of Fragments
    CallIds, MaxMessages, MaxPublished, FragmentSize            \* of ClientProtocol

VARIABLES
    part,                                                       \* what is in use
    sends, pc, size, victim, turn, at, table, sent,             \* Fragments
    coming, said, thread, buffer, old_buffer, fragment_size, cid,
    handled, sending, published, collected                      \* ClientProtocol

(* Two messages: with an id each, with one id for both, or the first in the  *)
(* wrong order and the second with a fragment sent twice. What two clients   *)
(* send shares no id, one or both.                                           *)
Message(id, total, nums) == [id |-> id, total |-> total, nums |-> nums]
ThreeIds == 1 .. 3
ThreeScripts ==
    {<<Message(1, 2, <<0, 1>>), Message(3, 3, <<0, 1, 2>>)>>,
     <<Message(2, 2, <<0, 1>>), Message(2, 2, <<0, 1>>)>>,
     <<Message(2, 2, <<1, 0>>), Message(1, 2, <<0, 0, 1>>)>>}

Pieces == INSTANCE Fragments WITH delivered <- sent

(* Every client has something to send, and every message a fragment.         *)
ASSUME ScriptsAssumption ==
    /\ Scripts \subseteq Seq(Pieces!Messages) \ {<<>>}
    /\ \A script \in Scripts : \A n \in DOMAIN script : script[n].nums # <<>>

Client == INSTANCE ClientProtocol WITH sent <- said, pc <- thread

Interchangeable ==
    Permutations(Clients) \union Permutations(Topics) \union Permutations(Sids)

fragmentVars == <<sends, pc, size, victim, turn, at, table, sent>>
protocolVars == <<coming, said, thread, buffer, old_buffer, fragment_size, cid, handled,
                  sending, published, collected>>
tableVars == <<part, vars, fragmentVars, protocolVars>>

TablesInit ==
    /\ part \in {"subscriptions", "fragments", "protocol"}
    /\ Init /\ Pieces!Init /\ Client!Init
    /\ part # "fragments" => \A c \in Clients : sends[c] = CHOOSE script \in Scripts : TRUE
TablesNext ==
    /\ UNCHANGED part
    /\ \/ part = "subscriptions" /\ Next /\ UNCHANGED <<fragmentVars, protocolVars>>
       \/ part = "fragments" /\ Pieces!Next /\ UNCHANGED <<vars, protocolVars>>
       \/ part = "protocol" /\ Client!Next /\ UNCHANGED <<vars, fragmentVars>>

TablesSpec == TablesInit /\ [][TablesNext]_tableVars

(* Fragments: a message with an id to itself is passed on whole and in order. *)
DeliveredIntact == Pieces!DeliveredIntact
(* Fragments: "3.b) append the new fragment to 'the' list".                  *)
FragmentKept == Pieces!FragmentKept
(* ClientProtocol: messages are handled in order, none twice.                *)
HandledInOrder == Client!HandledInOrder
(* ClientProtocol: the fragments of an answer with an id can be put together. *)
AnswersTellApart == Client!AnswersTellApart
=============================================================================
