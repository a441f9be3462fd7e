------------------------------- MODULE Fragments -------------------------------
(***************************************************************************)
(* Messages that websocket clients send in fragments (capabilities/        *)
(* defragmentation.py). ReceivedFragments.lists is an attribute of the     *)
(* class, so all clients put their fragments into one table; each client's *)
(* thread works on it without a lock, and every fragment received looks    *)
(* for lists that have timed out.                                          *)
(*                                                                         *)
(* A socket delivers in order, but what clients put on it is their affair: *)
(* they may give several messages one id, and send fragments twice or out  *)
(* of order. A fragment's data is who sent it, in which message, and its   *)
(* number. What Protocol.incoming does with a message put together again   *)
(* is the other modules' matter. Threads with one id can also meet between *)
(* the lines Add and AddFails stand for; only lists of shared ids show it. *)
(*                                                                         *)
(* An operator that stands just before another and extends its name is its *)
(* mutated form, listed in PROJECT.json; no other definition uses it.      *)
(***************************************************************************)
EXTENDS Integers, Sequences, SequencesExt

CONSTANTS Clients,
          Ids,            \* the ids clients give their messages
          Scripts,        \* what a client may send: messages in order, each with its id, the
                          \* total its fragments announce and their numbers as they are sent
          NoList          \* no id

VARIABLES sends,              \* what the clients of this behaviour send
          pc, size, victim,     \* a client's thread; the size of the table it iterates
                                \* over, and the list it is about to remove
          turn, at,             \* the message a client sends, and the next fragment of it
          table,                \* ReceivedFragments.lists, in the order of insertion
          delivered             \* history: messages passed on, as what they were made of

threadVars == <<pc, size, victim>>
clientVars == <<turn, at>>
vars == <<sends, threadVars, clientVars, table, delivered>>

Messages == [id : Ids, total : Nat, nums : Seq(Nat)]
Pieces == [of : Clients, turn : Nat, num : Nat]

\* Whether a list's last fragment is older than fragment_timeout.
Lists == [id : Ids, total : Nat, fragments : Seq(Pieces), stale : BOOLEAN, reconstructing : BOOLEAN]

TypeOK ==
    /\ pc \in [Clients -> {"idle", "sweep", "drop", "open", "add", "deliver", "remove", "gone"}]
    /\ size \in [Clients -> Nat] /\ victim \in [Clients -> Ids \union {NoList}]
    /\ sends \in [Clients -> Scripts] /\ turn \in [Clients -> Nat] /\ at \in [Clients -> Nat]
    /\ table \in Seq(Lists)

Init ==
    /\ sends \in [Clients -> Scripts]
    /\ pc = [c \in Clients |-> "idle"]
    /\ size = [c \in Clients |-> 0] /\ victim = [c \in Clients |-> NoList]
    /\ turn = [c \in Clients |-> 1] /\ at = [c \in Clients |-> 1]
    /\ table = <<>>
    /\ delivered = {}

Goto(c, step) == pc' = [pc EXCEPT ![c] = step]

Now(c) == sends[c][turn[c]]
Id(c) == Now(c).id
Num(c) == Now(c).nums[at[c]]
Listed(id) == \E i \in DOMAIN table : table[i].id = id
Place(id) == CHOOSE i \in DOMAIN table : table[i].id = id
Without(id) == IF Listed(id) THEN RemoveAt(table, Place(id)) ELSE table

\* The client's next fragment, or its next message, or nothing more.
Handled(c) ==
    IF at[c] < Len(Now(c).nums)
    THEN at' = [at EXCEPT ![c] = @ + 1] /\ Goto(c, "idle") /\ UNCHANGED turn
    ELSE /\ at' = [at EXCEPT ![c] = 1]
         /\ IF turn[c] < Len(sends[c])
            THEN turn' = [turn EXCEPT ![c] = @ + 1] /\ Goto(c, "idle")
            ELSE Goto(c, "gone") /\ UNCHANGED turn

-----------------------------------------------------------------------------
(* defragment(): an exception ends it and is logged by Protocol.incoming.  *)

\* The iteration over the keys of the table begins.
Receive(c) ==
    /\ pc[c] = "idle"
    /\ Goto(c, "sweep")
    /\ size' = [size EXCEPT ![c] = Len(table)]
    /\ UNCHANGED <<victim, clientVars, table, delivered>>

\* A list that timed out, unless the fragment is for this list.
TimedOut(l, c) == l.stale /\ ~l.reconstructing /\ l.id # Id(c)

\* Another thread inserted or removed a list during the iteration: RuntimeError.
SweepRaises(c) ==
    /\ pc[c] = "sweep"
    /\ Len(table) # size[c]
    /\ Handled(c)
    /\ UNCHANGED <<size, victim, table, delivered>>

Sweep(c) ==
    /\ pc[c] = "sweep"
    /\ Len(table) = size[c]
    /\ IF \E i \in DOMAIN table : TimedOut(table[i], c)
       THEN /\ victim' = [victim EXCEPT ![c] = SelectSeq(table, LAMBDA l : TimedOut(l, c))[1].id]
            /\ Goto(c, "drop")
       ELSE Goto(c, "open") /\ UNCHANGED victim
    /\ UNCHANGED <<size, clientVars, table, delivered>>

\* The list is removed in the middle of the iteration, which raises at its next
\* key unless another thread has put a list in its place; or the list has gone
\* already, which raises as well.
Drop(c) ==
    /\ pc[c] = "drop"
    /\ table' = Without(victim[c])
    /\ victim' = [victim EXCEPT ![c] = NoList]
    /\ IF Listed(victim[c]) /\ Len(table') = size[c]
       THEN Goto(c, "sweep") /\ UNCHANGED clientVars
       ELSE Handled(c)
    /\ UNCHANGED <<size, delivered>>

Open(c) ==
    /\ pc[c] = "open"
    /\ Goto(c, "add")
    /\ table' = IF Listed(Id(c)) THEN table
                ELSE Append(table, [id |-> Id(c), total |-> Now(c).total, fragments |-> <<>>,
                                    stale |-> FALSE, reconstructing |-> FALSE])
    /\ UNCHANGED <<size, victim, clientVars, delivered>>

\* `msg_num <= total' lets the number after the last one in.
Fits(l, c) ==
    /\ \A i \in DOMAIN l.fragments : l.fragments[i].num # Num(c)
    /\ Num(c) <= l.total
    /\ Now(c).total = l.total

CompleteAtTheLast(l) == Last(l.fragments).num = l.total - 1

Complete(l) ==
    /\ Len(l.fragments) = l.total
    /\ \A n \in 0 .. l.total - 1 : \E i \in DOMAIN l.fragments : l.fragments[i].num = n

Added(l, c) ==
    LET longer == Append(l.fragments, [of |-> c, turn |-> turn[c], num |-> Num(c)])
        grown == [l EXCEPT !.fragments = longer, !.stale = FALSE]
    IN [grown EXCEPT !.reconstructing = Complete(grown)]

Add(c) ==
    /\ pc[c] = "add"
    /\ Listed(Id(c)) /\ Fits(table[Place(Id(c))], c)
    /\ table' = [table EXCEPT ![Place(Id(c))] = Added(@, c)]
    /\ IF table'[Place(Id(c))].reconstructing
       THEN Goto(c, "deliver") /\ UNCHANGED clientVars
       ELSE Handled(c)
    /\ UNCHANGED <<size, victim, delivered>>

\* The fragment does not fit; or another thread removed the list: KeyError.
AddFails(c) ==
    /\ pc[c] = "add"
    /\ Listed(Id(c)) => ~Fits(table[Place(Id(c))], c)
    /\ Handled(c)
    /\ UNCHANGED <<size, victim, table, delivered>>

\* The values are joined in the order they were put in.
Deliver(c) ==
    /\ pc[c] = "deliver"
    /\ IF Listed(Id(c))
       THEN /\ delivered' = delivered \union {table[Place(Id(c))].fragments}
            /\ Goto(c, "remove") /\ UNCHANGED clientVars
       ELSE Handled(c) /\ UNCHANGED delivered
    /\ UNCHANGED <<size, victim, table>>

Forget(c) ==
    /\ pc[c] = "remove"
    /\ table' = Without(Id(c))
    /\ Handled(c)
    /\ UNCHANGED <<size, victim, delivered>>

\* finish(): the socket closes between two fragments. The lists stay.
Finish(c) ==
    /\ pc[c] = "idle"
    /\ Goto(c, "gone")
    /\ UNCHANGED <<size, victim, clientVars, table, delivered>>

\* fragment_timeout goes by; no thread takes that long over one fragment.
TimeOut(i) ==
    /\ ~table[i].stale
    /\ \A c \in Clients : pc[c] \in {"idle", "gone"}
    /\ table' = [table EXCEPT ![i].stale = TRUE]
    /\ UNCHANGED <<threadVars, clientVars, delivered>>

Next ==
    /\ UNCHANGED sends
    /\ \/ \E c \in Clients : Receive(c) \/ SweepRaises(c) \/ Sweep(c) \/ Drop(c) \/ Open(c)
                             \/ Add(c) \/ AddFails(c) \/ Deliver(c) \/ Forget(c) \/ Finish(c)
       \/ \E i \in DOMAIN table : TimeOut(i)

Spec == Init /\ [][Next]_vars

-----------------------------------------------------------------------------

\* No other message, of this client or another, has the id of client c's n-th.
Lone(c, n) ==
    \A d \in Clients : \A k \in DOMAIN sends[d] :
        sends[d][k].id = sends[c][n].id => d = c /\ k = n

\* Its fragments may be sent more than once, but never after one of a higher number.
Ascending(c, n) ==
    LET nums == sends[c][n].nums IN
    /\ \A i \in DOMAIN nums : nums[i] < sends[c][n].total
    /\ \A i, j \in DOMAIN nums : i <= j => nums[i] <= nums[j]

\* A message with an id to itself whose fragments are sent in ascending order is
\* passed on whole, in order and with nothing of another's, whatever is lost,
\* timed out or raised, and whatever others do that use one id between them or
\* send fragments out of order (defragment joins the values of a dict in the
\* order they came, and asks for no more than an equal id and total).
DeliveredIntact ==
    \A m \in delivered : \A i \in DOMAIN m :
        LET c == m[i].of
            n == m[i].turn
        IN Lone(c, n) /\ Ascending(c, n) =>
              /\ Len(m) = sends[c][n].total
              /\ \A j \in DOMAIN m : m[j] = [of |-> c, turn |-> n, num |-> j - 1]

\* "2.a) remove timed out lists (only if new fragment is not for this list)",
\* and then "3.b) append the new fragment": the handler that removes a list
\* goes on to the fragment it was called for.
FragmentKept == [][\A c \in Clients : pc[c] = "drop" => pc'[c] \in {"drop", "sweep", "open"}]_vars
=============================================================================
