-------------------------- MODULE BridgeTablesProofs --------------------------
(* What the clients of the rosbridge overlay share and what each has for     *)
(* itself, for any number of clients, topics, ids, messages and fragments.   *)
EXTENDS MCBridgeTables, SequenceTheorems, FiniteSetTheorems, WellFoundedInduction, TLAPS

-----------------------------------------------------------------------------
(* SubscriberManager and the clients' tables of subscriptions.               *)

Tables ==
    /\ conn \in [Clients -> {"open", "closing", "closed", "aborted"}]
    /\ entry \in [Clients -> [Topics -> (SUBSET Sids) \union {NoEntry}]]
    /\ multi \in [Topics -> MultiSubscribers \union {NoSub}]

(* A client in both tables of a topic had subscribed twice.                  *)
TwiceIsNoted ==
    \A c \in Clients, t \in Topics :
        multi[t] # NoSub /\ c \in multi[t].subscriptions /\ c \in multi[t].new
            => <<c, t>> \in doubled

(* A Subscription the manager does not know of is left from a refusal.       *)
RefusedUnlessRegistered ==
    \A c \in Clients, t \in Topics :
        entry[c][t] # NoEntry /\ ~Registered(c, t) => <<c, t>> \in refused

TablesInv == Tables /\ TwiceIsNoted /\ RefusedUnlessRegistered /\ NoLeakedClient /\ FinishCompletes

(* The messages that wait, and to whom they are owed: only to clients that   *)
(* are settled, who are served when they come up.                            *)
Waiting ==
    /\ main \in [Topics -> Seq(Nat)] /\ fresh \in [Topics -> Seq(Nat)]
    /\ owed \in [Clients -> SUBSET Nat] /\ count \in Nat
    /\ \A t \in Topics : ToSet(main[t]) \subseteq 1 .. count
    /\ \A t \in Topics : fresh[t] # <<>> => multi[t] # NoSub
OwedToSettled ==
    \A c \in Clients, t \in Topics : owed[c] \cap ToSet(main[t]) # {} => Settled(c, t)

MessagesInv == Waiting /\ OwedToSettled /\ SettledMissNothing

-----------------------------------------------------------------------------
(* Sequences as the sets of their elements.                                  *)

LEMMA ToSetOfAppend ==
  ASSUME NEW S, NEW s \in Seq(S), NEW e \in S
  PROVE  Append(s, e) \in Seq(S) /\ ToSet(Append(s, e)) = ToSet(s) \union {e}
<1>1. /\ Append(s, e) \in Seq(S)
      /\ DOMAIN Append(s, e) = DOMAIN s \union {Len(s) + 1}
      /\ Append(s, e)[Len(s) + 1] = e
      /\ \A i \in DOMAIN s : Append(s, e)[i] = s[i]
  BY LenProperties, AppendProperties
<1> QED
  BY <1>1 DEF ToSet

LEMMA ToSetOfTail ==
  ASSUME NEW S, NEW s \in Seq(S), s # <<>>
  PROVE  /\ Tail(s) \in Seq(S) /\ Head(s) \in ToSet(s)
         /\ ToSet(s) = ToSet(Tail(s)) \union {Head(s)}
<1>1. /\ Len(s) \in Nat \ {0} /\ DOMAIN s = 1 .. Len(s)
      /\ Tail(s) \in Seq(S) /\ DOMAIN Tail(s) = 1 .. (Len(s) - 1)
      /\ \A i \in 1 .. (Len(s) - 1) : Tail(s)[i] = s[i + 1]
      /\ Head(s) = s[1]
  BY LenProperties, HeadTailProperties, EmptySeq
<1>2. \A i \in DOMAIN s : i = 1 \/ (i - 1 \in DOMAIN Tail(s) /\ s[i] = Tail(s)[i - 1])
  BY <1>1
<1>3. \A i \in DOMAIN Tail(s) : i + 1 \in DOMAIN s /\ Tail(s)[i] = s[i + 1]
  BY <1>1
<1>4. Head(s) \in ToSet(s) /\ ToSet(Tail(s)) \subseteq ToSet(s)
  BY <1>1, <1>3 DEF ToSet
<1>5. ToSet(s) \subseteq ToSet(Tail(s)) \union {Head(s)}
  BY <1>1, <1>2 DEF ToSet
<1> QED
  BY <1>1, <1>4, <1>5

LEMMA ToSetOfEmpty == ToSet(<<>>) = {}
BY DEF ToSet

-----------------------------------------------------------------------------

LEMMA TablesStart == Init => TablesInv /\ MessagesInv
<1> SUFFICES ASSUME Init PROVE TablesInv /\ MessagesInv
  OBVIOUS
<1>1. TablesInv
  BY DEF Init, TablesInv, Tables, TwiceIsNoted, RefusedUnlessRegistered, NoLeakedClient,
         FinishCompletes, Registered
<1>2. MessagesInv
  BY ToSetOfEmpty DEF Init, MessagesInv, Waiting, OwedToSettled, SettledMissNothing
<1> QED
  BY <1>1, <1>2

(* A step that leaves the manager's tables and the clients' alone.           *)
LEMMA TablesKept ==
  ASSUME TablesInv, UNCHANGED <<entry, multi, doubled, refused>>,
         conn' \in [Clients -> {"open", "closing", "closed", "aborted"}],
         \A c \in Clients : conn'[c] = "aborted" => conn[c] = "aborted"
  PROVE  TablesInv'
BY DEF TablesInv, Tables, TwiceIsNoted, RefusedUnlessRegistered, NoLeakedClient, FinishCompletes,
       Registered, Wants

LEMMA SubscribeTables ==
  ASSUME TablesInv, NEW c \in Clients, NEW t \in Topics, NEW sid \in Sids, NEW type,
         Subscribe(c, t, sid, type)
  PROVE  TablesInv'
<1> DEFINE sids == IF entry[c][t] = NoEntry THEN {sid} ELSE entry[c][t] \union {sid}
<1>1. /\ conn' = conn /\ entry' = [entry EXCEPT ![c][t] = sids]
      /\ sids \in SUBSET Sids /\ sids # {} /\ sids # NoEntry
  <2>1. entry[c][t] \in (SUBSET Sids) \union {NoEntry}
    BY DEF TablesInv, Tables
  <2>2. sids \in SUBSET Sids /\ sids # {}
    BY <2>1
  <2> QED
    BY <2>2, NoEntryAssumption DEF Subscribe
<1> HIDE DEF sids
<1>2. /\ entry' \in [Clients -> [Topics -> (SUBSET Sids) \union {NoEntry}]]
      /\ entry'[c][t] = sids
      /\ \A d \in Clients, u \in Topics : <<d, u>> # <<c, t>> => entry'[d][u] = entry[d][u]
  BY <1>1 DEF TablesInv, Tables
<1>3. CASE multi' = multi /\ doubled' = doubled /\ refused' = refused \union {<<c, t>>}
  BY <1>1, <1>2, <1>3 DEF TablesInv, Tables, TwiceIsNoted, RefusedUnlessRegistered, NoLeakedClient,
                          FinishCompletes, Registered, Wants
<1>4. CASE multi[t] = NoSub /\ multi' = [multi EXCEPT ![t] = NewMulti(c)] /\ UNCHANGED <<doubled, refused>>
  <2>1. /\ multi' \in [Topics -> MultiSubscribers \union {NoSub}]
        /\ multi'[t] = [subscriptions |-> {c}, new |-> {}, second |-> FALSE] /\ multi'[t] # NoSub
        /\ \A u \in Topics \ {t} : multi'[u] = multi[u]
    <3>1. /\ NewMulti(c) = [subscriptions |-> {c}, new |-> {}, second |-> FALSE]
          /\ NewMulti(c) \in MultiSubscribers
      BY DEF NewMulti, MultiSubscribers
    <3> QED
      BY <1>4, <3>1, NoSubAssumption DEF TablesInv, Tables
  <2> QED
    BY <1>1, <1>2, <1>4, <2>1 DEF TablesInv, Tables, TwiceIsNoted, RefusedUnlessRegistered,
                                  NoLeakedClient, FinishCompletes, Registered, Wants
<1>5. CASE /\ multi[t] # NoSub /\ multi' = [multi EXCEPT ![t] = Joining(@, c)]
           /\ doubled' = IF Settled(c, t) THEN doubled \union {<<c, t>>} ELSE doubled
           /\ refused' = refused
  <2>0. multi[t] \in MultiSubscribers
    BY <1>5 DEF TablesInv, Tables
  <2>1. /\ multi' \in [Topics -> MultiSubscribers \union {NoSub}]
        /\ multi'[t].subscriptions = multi[t].subscriptions
        /\ multi'[t].new = multi[t].new \union {c} /\ multi'[t] # NoSub
        /\ \A u \in Topics \ {t} : multi'[u] = multi[u]
    <3> DEFINE ms == Joining(multi[t], c)
    <3>1. /\ ms \in MultiSubscribers
          /\ ms.subscriptions = multi[t].subscriptions /\ ms.new = multi[t].new \union {c}
      BY <2>0 DEF Joining, MultiSubscribers
    <3>2. multi' = [multi EXCEPT ![t] = ms]
      BY <1>5
    <3> HIDE DEF ms
    <3> QED
      BY <3>1, <3>2, NoSubAssumption DEF TablesInv, Tables
  <2>2. TwiceIsNoted'
    BY <1>5, <2>1 DEF TablesInv, TwiceIsNoted, Settled
  <2>3. RefusedUnlessRegistered' /\ NoLeakedClient' /\ FinishCompletes'
    <3>1. RefusedUnlessRegistered'
      BY ZenonT(30), <1>1, <1>2, <1>5, <2>1 DEF TablesInv, RefusedUnlessRegistered, Registered, Wants
    <3>2. NoLeakedClient'
      BY ZenonT(30), <1>1, <1>2, <1>5, <2>1 DEF TablesInv, NoLeakedClient, Registered, Wants
    <3>3. FinishCompletes'
      BY ZenonT(30), <1>1, <1>2, <1>5, <2>1 DEF TablesInv, FinishCompletes, Registered, Wants
    <3> QED
      BY <3>1, <3>2, <3>3
  <2> QED
    BY <1>1, <1>2, <2>1, <2>2, <2>3 DEF TablesInv, Tables
<1> QED
  BY <1>3, <1>4, <1>5 DEF Subscribe

(* UnsubscribeSome and UnsubscribeRaises change the client's table only.     *)
LEMMA UnsubscribeTables ==
  ASSUME TablesInv, NEW c \in Clients, NEW t \in Topics, NEW gone,
         UnsubscribeSome(c, t, gone) \/ UnsubscribeRaises(c, t, gone)
  PROVE  TablesInv'
<1>1. PICK sids \in SUBSET Sids :
         /\ entry' = [entry EXCEPT ![c][t] = sids]
         /\ sids = {} => ~Registered(c, t)
  <2>0. entry[c][t] # NoEntry => entry[c][t] \in SUBSET Sids
    BY DEF TablesInv, Tables
  <2>1. CASE UnsubscribeSome(c, t, gone)
    BY <2>0, <2>1 DEF UnsubscribeSome
  <2>2. CASE UnsubscribeRaises(c, t, gone)
    BY <2>2 DEF UnsubscribeRaises, RaisesKeyError
  <2> QED
    BY <2>1, <2>2
<1>2. UNCHANGED <<conn, multi, doubled, refused>> /\ entry[c][t] # NoEntry
  BY DEF UnsubscribeSome, UnsubscribeRaises
<1>3. /\ entry' \in [Clients -> [Topics -> (SUBSET Sids) \union {NoEntry}]]
      /\ entry'[c][t] = sids /\ sids # NoEntry
      /\ \A d \in Clients, u \in Topics : <<d, u>> # <<c, t>> => entry'[d][u] = entry[d][u]
  BY <1>1, NoEntryAssumption DEF TablesInv, Tables
<1> QED
  BY <1>1, <1>2, <1>3 DEF TablesInv, Tables, TwiceIsNoted, RefusedUnlessRegistered, NoLeakedClient,
                          FinishCompletes, Registered, Wants

(* The manager's unsubscribe takes one entry of the client, and no other's.  *)
LEMMA ManagerUnsubscribes ==
  ASSUME Tables, NEW c \in Clients, NEW t \in Topics, ManagerUnsubscribe(c, t)
  PROVE  /\ multi' \in [Topics -> MultiSubscribers \union {NoSub}]
         /\ \A u \in Topics \ {t} : multi'[u] = multi[u]
         /\ \A d \in Clients \ {c} : /\ Registered(d, t)' <=> Registered(d, t)
                                     /\ Settled(d, t)' <=> Settled(d, t)
         /\ multi'[t] # NoSub => /\ multi[t] # NoSub
                                 /\ multi'[t].subscriptions \subseteq multi[t].subscriptions
                                 /\ multi'[t].new \subseteq multi[t].new
         /\ Registered(c, t)' => c \in multi[t].subscriptions /\ c \in multi[t].new
         /\ multi'[t] = NoSub => \A d \in Clients \ {c} : ~Registered(d, t)
<1>1. CASE multi[t] = NoSub
  <2>1. multi' = multi
    BY <1>1 DEF ManagerUnsubscribe
  <2> QED
    BY <1>1, <2>1 DEF Tables, Registered, Settled
<1>2. CASE multi[t] # NoSub
  <2> DEFINE ms == Leaving(multi[t], c)
             last == ms.subscriptions \union ms.new = {}
             m == multi[t]
  <2>1. multi' = [multi EXCEPT ![t] = IF last THEN NoSub ELSE ms]
    BY <1>2 DEF ManagerUnsubscribe
  <2>2. m \in MultiSubscribers
    BY <1>2 DEF Tables
  <2>3. /\ ms \in MultiSubscribers
        /\ IF c \in m.new
           THEN ms.new = m.new \ {c} /\ ms.subscriptions = m.subscriptions
           ELSE ms.new = m.new /\ ms.subscriptions = m.subscriptions \ {c}
    BY <2>2 DEF Leaving, MultiSubscribers
  <2>4. m.new \subseteq Clients /\ m.subscriptions \subseteq Clients /\ ms # NoSub
    BY <2>2, <2>3, NoSubAssumption DEF MultiSubscribers
  <2> HIDE DEF ms
  <2>5. /\ multi' \in [Topics -> MultiSubscribers \union {NoSub}]
        /\ \A u \in Topics \ {t} : multi'[u] = multi[u]
        /\ multi'[t] = IF last THEN NoSub ELSE ms
    BY <2>1, <2>3 DEF Tables
  <2>6. CASE last
    BY <1>2, <2>3, <2>4, <2>5, <2>6 DEF Registered, Settled
  <2>7. CASE ~last
    BY <1>2, <2>3, <2>4, <2>5, <2>7 DEF Registered, Settled
  <2> QED
    BY <2>6, <2>7
<1> QED
  BY <1>1, <1>2

LEMMA LeaveTables ==
  ASSUME TablesInv, NEW c \in Clients, NEW t \in Topics, ManagerUnsubscribe(c, t),
         entry' = [entry EXCEPT ![c][t] = NoEntry], UNCHANGED <<conn, doubled, refused>>
  PROVE  TablesInv'
<1>1. /\ entry' \in [Clients -> [Topics -> (SUBSET Sids) \union {NoEntry}]]
      /\ entry'[c][t] = NoEntry
      /\ \A d \in Clients, u \in Topics : <<d, u>> # <<c, t>> => entry'[d][u] = entry[d][u]
  BY DEF TablesInv, Tables
<1>2. /\ multi' \in [Topics -> MultiSubscribers \union {NoSub}]
      /\ \A u \in Topics \ {t} : multi'[u] = multi[u]
      /\ \A d \in Clients \ {c} : Registered(d, t)' <=> Registered(d, t)
      /\ multi'[t] # NoSub => /\ multi[t] # NoSub
                              /\ multi'[t].subscriptions \subseteq multi[t].subscriptions
                              /\ multi'[t].new \subseteq multi[t].new
      /\ Registered(c, t)' => c \in multi[t].subscriptions /\ c \in multi[t].new
  BY ManagerUnsubscribes DEF TablesInv
<1>3. \A d \in Clients, u \in Topics : <<d, u>> # <<c, t>> => (Registered(d, u)' <=> Registered(d, u))
  BY <1>2 DEF Registered
<1>4. Tables' /\ FinishCompletes'
  BY <1>1, <1>2 DEF TablesInv, Tables, FinishCompletes
<1>5. TwiceIsNoted'
  BY <1>2 DEF TablesInv, TwiceIsNoted
<1>6. RefusedUnlessRegistered'
  BY <1>1, <1>3 DEF TablesInv, RefusedUnlessRegistered
<1>7. NoLeakedClient'
  <2>1. Registered(c, t)' => <<c, t>> \in doubled'
    <3>1. Registered(c, t)' => multi[t] # NoSub
      BY <1>2 DEF Registered
    <3> QED
      BY <1>2, <3>1 DEF TablesInv, TwiceIsNoted
  <2> QED
    BY <1>1, <1>3, <2>1 DEF TablesInv, NoLeakedClient, Wants
<1> QED
  BY <1>4, <1>5, <1>6, <1>7 DEF TablesInv

LEMMA CallbackTables ==
  ASSUME TablesInv, NEW t \in Topics, multi[t] # NoSub, NewSubCallback(t)
  PROVE  TablesInv'
<1> DEFINE ms == [multi[t] EXCEPT !.subscriptions = @ \union multi[t].new, !.new = {}, !.second = FALSE]
<1>1. multi[t] \in MultiSubscribers
  BY DEF TablesInv, Tables
<1>2. /\ ms \in MultiSubscribers
      /\ ms.subscriptions = multi[t].subscriptions \union multi[t].new /\ ms.new = {}
  BY <1>1 DEF MultiSubscribers
<1>3. multi' = [multi EXCEPT ![t] = ms] /\ UNCHANGED <<conn, entry, doubled, refused>>
  BY <1>1 DEF NewSubCallback, MultiSubscribers, TablesInv, Tables
<1> HIDE DEF ms
<1>4. /\ multi' \in [Topics -> MultiSubscribers \union {NoSub}]
      /\ multi'[t] = ms /\ ms # NoSub
      /\ \A u \in Topics \ {t} : multi'[u] = multi[u]
  BY <1>2, <1>3, NoSubAssumption DEF TablesInv, Tables
<1>5. \A d \in Clients, u \in Topics : Registered(d, u)' <=> Registered(d, u)
  BY <1>2, <1>4 DEF Registered
<1>6. TwiceIsNoted'
  BY <1>2, <1>3, <1>4 DEF TablesInv, TwiceIsNoted
<1>7. RefusedUnlessRegistered' /\ NoLeakedClient'
  BY <1>3, <1>5 DEF TablesInv, RefusedUnlessRegistered, NoLeakedClient, Wants
<1> QED
  BY <1>3, <1>4, <1>6, <1>7 DEF TablesInv, Tables, FinishCompletes

LEMMA TablesStep ==
  ASSUME TablesInv, Waiting, [Next]_vars
  PROVE  TablesInv'
<1> USE DEF vars, tables, messages
<1>1. ASSUME NEW c \in Clients, NEW t \in Topics, NEW sid \in Sids, NEW type, Subscribe(c, t, sid, type)
      PROVE  TablesInv'
  BY <1>1, SubscribeTables
<1>2. ASSUME NEW c \in Clients, NEW t \in Topics, NEW gone,
             UnsubscribeSome(c, t, gone) \/ UnsubscribeRaises(c, t, gone)
      PROVE  TablesInv'
  BY <1>2, UnsubscribeTables
<1>3. ASSUME NEW c \in Clients, NEW t \in Topics, NEW gone,
             UnsubscribeLast(c, t, gone) \/ FinishTopic(c, t)
      PROVE  TablesInv'
  BY <1>3, LeaveTables DEF UnsubscribeLast, FinishTopic
<1>4. ASSUME NEW c \in Clients, Close(c) \/ FinishEnds(c) PROVE TablesInv'
  <2>1. /\ UNCHANGED <<entry, multi, doubled, refused>>
        /\ conn' \in [Clients -> {"open", "closing", "closed", "aborted"}]
        /\ \A d \in Clients : conn'[d] = "aborted" => conn[d] = "aborted"
    BY <1>4 DEF Close, FinishEnds, TablesInv, Tables
  <2> QED
    BY <2>1, TablesKept
<1>5. ASSUME NEW c \in Clients, FinishAborts(c) PROVE TablesInv'
  <2>1. UNCHANGED <<entry, multi, doubled, refused>> /\ conn' = [conn EXCEPT ![c] = "aborted"]
    BY <1>5 DEF FinishAborts
  <2>2. \E t \in Topics : <<c, t>> \in refused
    BY <1>5 DEF FinishAborts, RaisesKeyError, TablesInv, RefusedUnlessRegistered
  <2> QED
    BY <2>1, <2>2 DEF TablesInv, Tables, TwiceIsNoted, RefusedUnlessRegistered, NoLeakedClient,
                      FinishCompletes, Registered, Wants
<1>6. ASSUME NEW t \in Topics, NewSubCallback(t) PROVE TablesInv'
  <2>1. multi[t] # NoSub
    BY <1>6 DEF NewSubCallback, Waiting
  <2> QED
    BY <1>6, <2>1, CallbackTables
<1>7. ASSUME UNCHANGED tables PROVE TablesInv'
  <2>1. UNCHANGED <<conn, entry, multi, doubled, refused>>
    BY <1>7
  <2>2. conn' \in [Clients -> {"open", "closing", "closed", "aborted"}]
    BY <2>1 DEF TablesInv, Tables
  <2> QED
    BY <2>1, <2>2, TablesKept
<1>8. ASSUME NEW t \in Topics, Advertise(t) \/ Publish(t) \/ Callback(t) PROVE TablesInv'
  BY <1>7, <1>8 DEF Advertise, Publish, Callback
<1>9. CASE UNCHANGED vars
  BY <1>7, <1>9
<1>10. CASE Next
  BY <1>1, <1>2, <1>3, <1>4, <1>5, <1>6, <1>8, <1>10 DEF Next
<1> QED
  BY <1>9, <1>10

-----------------------------------------------------------------------------
(* The messages that wait.                                                   *)

(* Whoever is settled stays so while no message moves.                       *)
LEMMA MessagesKept ==
  ASSUME MessagesInv, UNCHANGED <<main, fresh, count, owed>>,
         \A c \in Clients, t \in Topics : Settled(c, t) => Settled(c, t)',
         \A t \in Topics : multi[t] # NoSub => multi'[t] # NoSub
  PROVE  MessagesInv'
BY DEF MessagesInv, Waiting, OwedToSettled, SettledMissNothing

LEMMA SubscribeMessages ==
  ASSUME Tables, MessagesInv, NEW c \in Clients, NEW t \in Topics, NEW sid \in Sids, NEW type,
         Subscribe(c, t, sid, type)
  PROVE  MessagesInv'
<1>1. UNCHANGED <<main, fresh, count, owed>>
  BY DEF Subscribe, messages
<1>2. CASE multi' = multi
  BY <1>1, <1>2, MessagesKept DEF Settled
<1>3. CASE multi[t] = NoSub /\ multi' = [multi EXCEPT ![t] = NewMulti(c)]
  <2>1. NewMulti(c) # NoSub
    <3>1. NewMulti(c) \in MultiSubscribers
      BY DEF NewMulti, MultiSubscribers
    <3> QED
      BY <3>1, NoSubAssumption
  <2>2. /\ \A d \in Clients, u \in Topics : Settled(d, u) => Settled(d, u)'
        /\ \A u \in Topics : multi[u] # NoSub => multi'[u] # NoSub
    BY <1>3, <2>1 DEF Settled, Tables
  <2> QED
    BY <1>1, <2>2, MessagesKept
<1>4. CASE multi[t] # NoSub /\ multi' = [multi EXCEPT ![t] = Joining(@, c)]
  <2> DEFINE ms == Joining(multi[t], c)
  <2>1. multi[t] \in MultiSubscribers
    BY <1>4 DEF Tables
  <2>2. ms \in MultiSubscribers /\ ms.subscriptions = multi[t].subscriptions
    BY <2>1 DEF Joining, MultiSubscribers
  <2>3. multi' = [multi EXCEPT ![t] = ms]
    BY <1>4
  <2> HIDE DEF ms
  <2>4. ms # NoSub
    BY <2>2, NoSubAssumption
  <2>5. /\ \A d \in Clients, u \in Topics : Settled(d, u) => Settled(d, u)'
        /\ \A u \in Topics : multi[u] # NoSub => multi'[u] # NoSub
    BY <2>2, <2>3, <2>4 DEF Settled, Tables
  <2> QED
    BY <1>1, <2>5, MessagesKept
<1> QED
  BY <1>2, <1>3, <1>4 DEF Subscribe

(* The last client's unsubscribe drops messages that are owed to nobody else.*)
LEMMA LeaveMessages ==
  ASSUME Tables, MessagesInv, NEW c \in Clients, NEW t \in Topics, ManagerUnsubscribe(c, t),
         count' = count
  PROVE  MessagesInv'
<1>1. CASE multi[t] = NoSub
  BY <1>1, MessagesKept DEF ManagerUnsubscribe, Settled
<1>2. CASE multi[t] # NoSub
  <2> DEFINE ms == Leaving(multi[t], c)
             last == ms.subscriptions \union ms.new = {}
             kept == IF c \in ms.subscriptions THEN owed[c] ELSE owed[c] \ ToSet(main[t])
             empty == IF last THEN <<>> ELSE main[t]
             none == IF last THEN <<>> ELSE fresh[t]
  <2>1. /\ multi' = [multi EXCEPT ![t] = IF last THEN NoSub ELSE ms]
        /\ main' = [main EXCEPT ![t] = empty]
        /\ fresh' = [fresh EXCEPT ![t] = none]
        /\ owed' = [owed EXCEPT ![c] = kept]
    BY <1>2 DEF ManagerUnsubscribe
  <2>2. multi[t] \in MultiSubscribers
    BY <1>2 DEF Tables
  <2>3. ms \in MultiSubscribers
    BY <2>2 DEF Leaving, MultiSubscribers
  <2>4. ms # NoSub
    BY <2>3, NoSubAssumption
  <2> HIDE DEF ms
  <2>5. /\ \A u \in Topics \ {t} : multi'[u] = multi[u] /\ main'[u] = main[u] /\ fresh'[u] = fresh[u]
        /\ \A d \in Clients \ {c} : owed'[d] = owed[d]
        /\ multi'[t] = IF last THEN NoSub ELSE ms
        /\ main'[t] = empty /\ fresh'[t] = none /\ owed'[c] = kept
    BY <2>1 DEF Tables, MessagesInv, Waiting
  <2>6. \A d \in Clients \ {c} : Settled(d, t)' <=> Settled(d, t)
    BY ManagerUnsubscribes
  <2>7. Settled(c, t)' <=> c \in ms.subscriptions
    BY <2>4, <2>5 DEF Settled
  <2>8. Waiting'
    <3>1. empty \in Seq(Nat) /\ none \in Seq(Nat) /\ kept \in SUBSET Nat
      BY DEF MessagesInv, Waiting
    <3>2. ToSet(empty) \subseteq 1 .. count
      BY ToSetOfEmpty DEF MessagesInv, Waiting
    <3>3. main' \in [Topics -> Seq(Nat)] /\ fresh' \in [Topics -> Seq(Nat)] /\ owed' \in [Clients -> SUBSET Nat]
      BY <2>1, <3>1 DEF MessagesInv, Waiting
    <3>4. \A u \in Topics : fresh'[u] # <<>> => multi'[u] # NoSub
      BY <2>4, <2>5 DEF MessagesInv, Waiting
    <3>5. \A u \in Topics : ToSet(main'[u]) \subseteq 1 .. count
      BY <2>5, <3>2 DEF MessagesInv, Waiting
    <3> QED
      BY <3>3, <3>4, <3>5 DEF MessagesInv, Waiting
  <2>9. OwedToSettled'
    <3>1. SUFFICES ASSUME NEW d \in Clients, NEW u \in Topics, owed'[d] \cap ToSet(main'[u]) # {}
                   PROVE  Settled(d, u)'
      BY DEF OwedToSettled
    <3>2. owed'[d] \subseteq owed[d] /\ ToSet(main'[u]) \subseteq ToSet(main[u])
      BY <2>5, ToSetOfEmpty
    <3>3. Settled(d, u)
      BY <3>1, <3>2 DEF MessagesInv, OwedToSettled
    <3>4. CASE u # t
      BY <2>5, <3>3, <3>4 DEF Settled
    <3>5. CASE u = t /\ d # c
      BY <2>6, <3>3, <3>5
    <3>6. CASE u = t /\ d = c
      BY <2>5, <2>7, <3>1, <3>2, <3>6
    <3> QED
      BY <3>4, <3>5, <3>6
  <2>10. SettledMissNothing'
    <3>1. SUFFICES ASSUME NEW d \in Clients, NEW m \in owed'[d]
                   PROVE  \E u \in Topics : m \in ToSet(main'[u])
      BY DEF SettledMissNothing
    <3>2. m \in owed[d]
      BY <2>5
    <3>3. PICK u \in Topics : m \in ToSet(main[u])
      BY <3>2 DEF MessagesInv, SettledMissNothing
    <3>4. CASE u # t
      BY <2>5, <3>3, <3>4
    <3>5. CASE u = t
      <4>1. Settled(d, t)
        BY <3>2, <3>3, <3>5 DEF MessagesInv, OwedToSettled
      <4>2. Settled(d, t)'
        BY <2>5, <2>6, <2>7, <3>1, <3>3, <3>5, <4>1
      <4>3. ~last
        BY <2>5, <4>2 DEF Settled
      <4> QED
        BY <2>5, <3>3, <3>5, <4>3
    <3> QED
      BY <3>4, <3>5
  <2> QED
    BY <2>8, <2>9, <2>10 DEF MessagesInv
<1> QED
  BY <1>1, <1>2

LEMMA PublishMessages ==
  ASSUME MessagesInv, NEW t \in Topics, Publish(t)
  PROVE  MessagesInv'
<1> DEFINE m == count + 1
<1>1. /\ main' = [main EXCEPT ![t] = Append(main[t], m)]
      /\ fresh' = [fresh EXCEPT ![t] = IF multi[t].second THEN Append(fresh[t], m) ELSE fresh[t]]
      /\ owed' = [c \in Clients |-> IF Settled(c, t) THEN owed[c] \union {m} ELSE owed[c]]
      /\ count' = m /\ m \in Nat /\ m \notin 1 .. count /\ multi' = multi /\ multi[t] # NoSub
  BY DEF Publish, tables, MessagesInv, Waiting
<1>2. main[t] \in Seq(Nat) /\ fresh[t] \in Seq(Nat)
  BY DEF MessagesInv, Waiting
<1>3. /\ Append(main[t], m) \in Seq(Nat) /\ Append(fresh[t], m) \in Seq(Nat)
      /\ ToSet(Append(main[t], m)) = ToSet(main[t]) \union {m}
  BY ZenonT(30), <1>1, <1>2, ToSetOfAppend
<1>4. /\ \A u \in Topics \ {t} : main'[u] = main[u] /\ fresh'[u] = fresh[u]
      /\ ToSet(main'[t]) = ToSet(main[t]) \union {m}
      /\ \A u \in Topics : ToSet(main[u]) \subseteq ToSet(main'[u])
  BY <1>1, <1>3 DEF MessagesInv, Waiting
<1>5. \A u \in Topics : ToSet(main[u]) \subseteq 1 .. count
  BY DEF MessagesInv, Waiting
<1>6. count \in Nat /\ 1 .. count \subseteq 1 .. m /\ m \in 1 .. m
  BY DEF MessagesInv, Waiting
<1> HIDE DEF m
<1>7. Waiting'
  <2>1. main' \in [Topics -> Seq(Nat)] /\ fresh' \in [Topics -> Seq(Nat)] /\ owed' \in [Clients -> SUBSET Nat]
    BY <1>1, <1>3 DEF MessagesInv, Waiting
  <2>2. \A u \in Topics : fresh'[u] # <<>> => multi'[u] # NoSub
    BY <1>1, <1>4 DEF MessagesInv, Waiting
  <2>3. \A u \in Topics : ToSet(main'[u]) \subseteq 1 .. m
    BY <1>4, <1>5, <1>6
  <2> QED
    BY <1>1, <2>1, <2>2, <2>3 DEF Waiting
<1>8. OwedToSettled'
  <2>1. SUFFICES ASSUME NEW d \in Clients, NEW u \in Topics, NEW n \in owed'[d] \cap ToSet(main'[u])
                 PROVE  Settled(d, u)
    BY <1>1 DEF OwedToSettled, Settled
  <2>2. CASE n = m
    <3>1. u = t
      BY <1>1, <1>4, <1>5, <2>1, <2>2
    <3>2. m \notin owed[d]
      BY <1>1, <1>5 DEF MessagesInv, SettledMissNothing
    <3> QED
      BY <1>1, <2>1, <2>2, <3>1, <3>2
  <2>3. CASE n # m
    <3>1. n \in owed[d] /\ n \in ToSet(main[u])
      BY <1>1, <1>4, <2>1, <2>3
    <3> QED
      BY <3>1 DEF MessagesInv, OwedToSettled
  <2> QED
    BY <2>2, <2>3
<1>9. SettledMissNothing'
  <2>1. SUFFICES ASSUME NEW d \in Clients, NEW n \in owed'[d] PROVE \E u \in Topics : n \in ToSet(main'[u])
    BY DEF SettledMissNothing
  <2>2. CASE n = m
    BY <1>4, <2>2
  <2>3. CASE n # m
    <3>1. PICK u \in Topics : n \in ToSet(main[u])
      BY <1>1, <2>1, <2>3 DEF MessagesInv, SettledMissNothing
    <3> QED
      BY <1>4, <3>1
  <2> QED
    BY <2>2, <2>3
<1> QED
  BY <1>7, <1>8, <1>9 DEF MessagesInv

LEMMA CallbackMessages ==
  ASSUME MessagesInv, NEW t \in Topics, Callback(t)
  PROVE  MessagesInv'
<1> DEFINE m == Head(main[t])
<1>1. /\ main' = [main EXCEPT ![t] = Tail(main[t])]
      /\ owed' = [c \in Clients |-> IF Settled(c, t) THEN owed[c] \ {m} ELSE owed[c]]
      /\ UNCHANGED <<multi, fresh, count>>
  BY DEF Callback, tables
<1>2. main[t] \in Seq(Nat) /\ main[t] # <<>>
  BY DEF MessagesInv, Waiting, Callback
<1>3. /\ Tail(main[t]) \in Seq(Nat)
      /\ m \in ToSet(main[t]) /\ ToSet(main[t]) = ToSet(Tail(main[t])) \union {m}
  BY <1>2, ToSetOfTail
<1> HIDE DEF m
<1>4. /\ \A u \in Topics \ {t} : main'[u] = main[u]
      /\ ToSet(main[t]) = ToSet(main'[t]) \union {m}
      /\ \A u \in Topics : ToSet(main'[u]) \subseteq ToSet(main[u])
      /\ \A d \in Clients : owed'[d] \subseteq owed[d]
  BY <1>1, <1>3 DEF MessagesInv, Waiting
<1>5. Waiting'
  BY <1>1, <1>3, <1>4 DEF MessagesInv, Waiting
<1>6. OwedToSettled'
  BY <1>1, <1>4 DEF MessagesInv, OwedToSettled, Settled
<1>7. SettledMissNothing'
  <2>1. SUFFICES ASSUME NEW d \in Clients, NEW n \in owed'[d] PROVE \E u \in Topics : n \in ToSet(main'[u])
    BY DEF SettledMissNothing
  <2>2. PICK u \in Topics : n \in ToSet(main[u])
    BY <1>4, <2>1 DEF MessagesInv, SettledMissNothing
  <2>3. CASE u = t /\ n = m
    <3>1. Settled(d, t)
      BY <1>4, <2>1, <2>2, <2>3 DEF MessagesInv, OwedToSettled
    <3> QED
      BY <1>1, <2>1, <2>3, <3>1
  <2> QED
    BY <1>4, <2>2, <2>3
<1> QED
  BY <1>5, <1>6, <1>7 DEF MessagesInv

LEMMA NewSubMessages ==
  ASSUME Tables, MessagesInv, NEW t \in Topics, NewSubCallback(t)
  PROVE  MessagesInv'
<1>1. /\ fresh' = [fresh EXCEPT ![t] = <<>>]
      /\ owed' = [c \in Clients |-> IF c \in Served(multi[t]) THEN owed[c] \ {Head(fresh[t])} ELSE owed[c]]
      /\ UNCHANGED <<main, count>> /\ multi[t] # NoSub
  BY DEF NewSubCallback, MessagesInv, Waiting
<1> DEFINE ms == [multi[t] EXCEPT !.subscriptions = @ \union multi[t].new, !.new = {}, !.second = FALSE]
<1>2. multi[t] \in MultiSubscribers
  BY <1>1 DEF Tables
<1>3. ms \in MultiSubscribers /\ ms.subscriptions = multi[t].subscriptions \union multi[t].new
  BY <1>2 DEF MultiSubscribers
<1>4. multi' = [multi EXCEPT ![t] = ms]
  BY <1>2 DEF NewSubCallback, MultiSubscribers, Tables
<1> HIDE DEF ms
<1>5. /\ \A d \in Clients, u \in Topics : Settled(d, u) => Settled(d, u)'
      /\ \A u \in Topics : multi[u] # NoSub => multi'[u] # NoSub
  BY <1>3, <1>4, NoSubAssumption DEF Settled, Tables
<1>6. \A d \in Clients : owed'[d] \subseteq owed[d]
  BY <1>1
<1>7. Waiting'
  <2>1. fresh' \in [Topics -> Seq(Nat)] /\ owed' \in [Clients -> SUBSET Nat]
    <3>1. owed' \in [Clients -> SUBSET Nat]
      BY <1>1 DEF MessagesInv, Waiting
    <3>2. <<>> \in Seq(Nat)
      BY EmptySeq
    <3> QED
      BY <1>1, <3>1, <3>2 DEF MessagesInv, Waiting
  <2>2. \A u \in Topics : fresh'[u] # <<>> => fresh[u] # <<>>
    BY <1>1 DEF MessagesInv, Waiting
  <2> QED
    BY <1>1, <1>5, <2>1, <2>2 DEF MessagesInv, Waiting
<1>8. OwedToSettled' /\ SettledMissNothing'
  BY <1>1, <1>5, <1>6 DEF MessagesInv, OwedToSettled, SettledMissNothing
<1> QED
  BY <1>7, <1>8 DEF MessagesInv

LEMMA MessagesStep ==
  ASSUME TablesInv, MessagesInv, [Next]_vars
  PROVE  MessagesInv'
<1> USE DEF vars, tables, messages
<1>0. Tables
  BY DEF TablesInv
<1>1. ASSUME NEW c \in Clients, NEW t \in Topics, NEW sid \in Sids, NEW type, Subscribe(c, t, sid, type)
      PROVE  MessagesInv'
  BY <1>0, <1>1, SubscribeMessages
<1>2. ASSUME NEW c \in Clients, NEW t \in Topics, NEW gone,
             UnsubscribeLast(c, t, gone) \/ FinishTopic(c, t)
      PROVE  MessagesInv'
  BY <1>0, <1>2, LeaveMessages DEF UnsubscribeLast, FinishTopic
<1>3. ASSUME UNCHANGED <<multi, main, fresh, count, owed>> PROVE MessagesInv'
  BY <1>3, MessagesKept DEF Settled
<1>4. ASSUME NEW c \in Clients, NEW t \in Topics, NEW gone,
             UnsubscribeSome(c, t, gone) \/ UnsubscribeRaises(c, t, gone)
      PROVE  MessagesInv'
  BY <1>3, <1>4 DEF UnsubscribeSome, UnsubscribeRaises
<1>5. ASSUME NEW c \in Clients, Close(c) \/ FinishEnds(c) \/ FinishAborts(c) PROVE MessagesInv'
  BY <1>3, <1>5 DEF Close, FinishEnds, FinishAborts
<1>6. ASSUME NEW t \in Topics, Publish(t) \/ Callback(t) \/ NewSubCallback(t) PROVE MessagesInv'
  BY <1>0, <1>6, PublishMessages, CallbackMessages, NewSubMessages
<1>7. ASSUME NEW t \in Topics, Advertise(t) PROVE MessagesInv'
  BY <1>3, <1>7 DEF Advertise
<1>8. CASE UNCHANGED vars
  BY <1>3, <1>8
<1>9. CASE Next
  BY <1>1, <1>2, <1>4, <1>5, <1>6, <1>7, <1>9 DEF Next
<1> QED
  BY <1>8, <1>9

LEMMA TablesInvariance == TablesSpec => [](TablesInv /\ MessagesInv)
<1>1. TablesInit => TablesInv /\ MessagesInv
  BY TablesStart DEF TablesInit
<1>2. [TablesNext]_tableVars => [Next]_vars
  BY DEF TablesNext, tableVars
<1>3. TablesInv /\ MessagesInv /\ [Next]_vars => (TablesInv /\ MessagesInv)'
  BY TablesStep, MessagesStep DEF MessagesInv
<1> QED
  BY <1>1, <1>2, <1>3, PTL DEF TablesSpec

(* Nobody is served without a Subscription of its own, whatever clients come *)
(* and go and whatever the manager refuses, unless it had subscribed twice   *)
(* (Subscription.unregister, SubscriberManager.unsubscribe).                 *)
THEOREM AlwaysNoLeakedClient == TablesSpec => []NoLeakedClient
<1>1. TablesInv => NoLeakedClient
  BY DEF TablesInv
<1> QED
  BY <1>1, TablesInvariance, PTL

(* A disconnect (Subscribe.finish) is cut short only by a Subscription left  *)
(* from a topic that the manager had refused to the client.                  *)
THEOREM AlwaysDisconnectCompletes == TablesSpec => []FinishCompletes
<1>1. TablesInv => FinishCompletes
  BY DEF TablesInv
<1> QED
  BY <1>1, TablesInvariance, PTL

(* What was published for a settled client waits until it is served, however *)
(* the second subscription of newcomers is made and destroyed beside it      *)
(* (MultiSubscriber.subscribe, callback, _new_sub_callback).                 *)
THEOREM AlwaysSettledMissNothing == TablesSpec => []SettledMissNothing
<1>1. MessagesInv => SettledMissNothing
  BY DEF MessagesInv
<1> QED
  BY <1>1, TablesInvariance, PTL

-----------------------------------------------------------------------------
(* One client's protocol: the pieces of answers and of subscriptions.        *)

Piece == [id : Client!PieceIds, num : Nat, of : Client!Threads \X Nat]

(* What is still to be sent of an answer continues what the client has of it,*)
(* if the answer has an id.                                                  *)
Continues(q) ==
    /\ \A i \in 1 .. Len(q) : q[i].id = q[1].id /\ q[i].of = q[1].of /\ q[i].num = q[1].num + i - 1
    /\ q # <<>> /\ q[1].num > 0 /\ q[1].id # Client!NoId =>
          /\ Len(collected[q[1].id]) = q[1].num
          /\ \A i \in 1 .. Len(collected[q[1].id]) : collected[q[1].id][i].of = q[1].of

(* What the client has collected with an id is of one message, from its      *)
(* first piece on.                                                           *)
Together(id) ==
    id # Client!NoId =>
        \A i \in 1 .. Len(collected[id]) :
            collected[id][i].of = collected[id][1].of /\ collected[id][i].num = i - 1

(* The pieces of subscriptions have no id.                                   *)
AnswersInv ==
    /\ published \in Nat
    /\ fragment_size \in {0, FragmentSize} /\ cid \in Client!PieceIds
    /\ sending \in [Client!Threads -> Seq(Piece)]
    /\ collected \in [Client!PieceIds -> Seq(Piece)]
    /\ \A i \in 1 .. Len(sending["subscription"]) : sending["subscription"][i].id = Client!NoId
    /\ Continues(sending["socket"])
    /\ \A id \in Client!PieceIds : Together(id)

(* The pieces of one message.                                                *)
PiecesOf(q, origin, n, id) ==
    /\ q \in Seq(Piece)
    /\ \A i \in 1 .. Len(q) : q[i].id = id /\ q[i].num = i - 1 /\ q[i].of = <<origin, n>>

LEMMA FragmentedPieces ==
  ASSUME FragmentSize \in Nat \ {0}, fragment_size \in {0, FragmentSize},
         NEW origin \in Client!Threads, NEW n \in Nat, NEW id \in Client!PieceIds, NEW length \in Nat
  PROVE  PiecesOf(Client!Fragmented(origin, n, id, length), origin, n, id)
<1>1. CASE fragment_size = 0 \/ length <= fragment_size
  <2>1. Client!Fragmented(origin, n, id, length) = <<>>
    BY <1>1 DEF Client!Fragmented
  <2> QED
    BY <2>1, EmptySeq DEF PiecesOf
<1>2. CASE ~(fragment_size = 0 \/ length <= fragment_size)
  <2> DEFINE k == (length - 1) \div fragment_size + 1
             q == [i \in 1 .. k |-> [id |-> id, num |-> i - 1, of |-> <<origin, n>>]]
  <2>1. k \in Nat
    BY <1>2
  <2>2. Client!Fragmented(origin, n, id, length) = q
    BY <1>2 DEF Client!Fragmented
  <2> HIDE DEF k
  <2>3. \A i \in 1 .. k : q[i] \in Piece
    BY <2>1 DEF Piece
  <2>4. \A i \in 1 .. k : q[i].id = id /\ q[i].num = i - 1 /\ q[i].of = <<origin, n>>
    BY <2>1
  <2>5. q \in [1 .. k -> Piece]
    BY <2>3
  <2>6. q \in Seq(Piece) /\ Len(q) = k
    BY <2>1, <2>5
  <2> HIDE DEF q
  <2> QED
    BY <2>2, <2>4, <2>6 DEF PiecesOf
<1> QED
  BY <1>1, <1>2

LEMMA AnswersStart == Client!Init => AnswersInv
BY EmptySeq DEF Client!Init, AnswersInv, Continues, Together, Client!Threads, Client!PieceIds

LEMMA AnswerKeeps ==
  ASSUME FragmentSize \in Nat \ {0}, AnswersInv, NEW n \in Nat, NEW id \in Client!PieceIds,
         NEW length \in Nat, Client!Send("socket", n, id, length),
         cid' \in Client!PieceIds, UNCHANGED <<fragment_size, collected, published>>
  PROVE  AnswersInv'
<1>0. PICK q : q = Client!Fragmented("socket", n, id, length)
  OBVIOUS
<1>1. PiecesOf(q, "socket", n, id)
  BY <1>0, FragmentedPieces DEF AnswersInv, Client!Threads
<1>2. sending' = [sending EXCEPT !["socket"] = q]
  BY <1>0 DEF Client!Send
<1> USE DEF PiecesOf
<1>3. /\ sending' \in [Client!Threads -> Seq(Piece)]
      /\ sending'["socket"] = q /\ sending'["subscription"] = sending["subscription"]
  BY <1>1, <1>2 DEF AnswersInv, Client!Threads
<1>4. Continues(q)'
  <2>1. Len(q) \in Nat /\ (q # <<>> => 1 \in 1 .. Len(q))
    BY <1>1, LenProperties, EmptySeq
  <2>2. q # <<>> => q[1].num = 0
    BY <1>1, <2>1
  <2>3. PICK origin : origin = <<"socket", n>>
    OBVIOUS
  <2>4. \A i \in 1 .. Len(q) : q[i].id = id /\ q[i].of = origin /\ q[i].num = i - 1
    BY <1>1, <2>3
  <2>5. \A i \in 1 .. Len(q) : 1 \in 1 .. Len(q)
    BY <2>1
  <2>6. \A i \in 1 .. Len(q) : q[i].id = q[1].id /\ q[i].of = q[1].of /\ q[i].num = q[1].num + i - 1
    BY <2>4, <2>5
  <2> QED
    BY <2>1, <2>2, <2>6 DEF Continues
<1> QED
  BY <1>3, <1>4 DEF AnswersInv, Together, Continues

LEMMA PublishKeeps ==
  ASSUME FragmentSize \in Nat \ {0}, AnswersInv, NEW n \in Nat, NEW length \in Nat,
         Client!Send("subscription", n, Client!NoId, length), UNCHANGED <<fragment_size, cid, collected>>,
         published' \in Nat
  PROVE  AnswersInv'
<1>0. PICK q : q = Client!Fragmented("subscription", n, Client!NoId, length)
  OBVIOUS
<1>1. PiecesOf(q, "subscription", n, Client!NoId)
  BY <1>0, FragmentedPieces DEF AnswersInv, Client!Threads, Client!PieceIds
<1>2. sending' = [sending EXCEPT !["subscription"] = q]
  BY <1>0 DEF Client!Send
<1> USE DEF PiecesOf
<1>3. /\ sending' \in [Client!Threads -> Seq(Piece)]
      /\ sending'["subscription"] = q /\ sending'["socket"] = sending["socket"]
  BY <1>1, <1>2 DEF AnswersInv, Client!Threads
<1>4. \A i \in 1 .. Len(q) : q[i].id = Client!NoId
  BY <1>1
<1> QED
  BY <1>3, <1>4 DEF AnswersInv, Together, Continues

-----------------------------------------------------------------------------
(* One client's protocol: which messages are handled.                        *)

Names(mark) == mark.bracket \in {"call", "subscribe"}
Mark == [bracket : Client!Kinds \cup {"close"}, n : Nat \ {0}, id : Client!PieceIds]

(* The brackets that name a message to handle are in the order of messages.  *)
InTurn(text) ==
    \A i, j \in 1 .. Len(text) : i < j /\ Names(text[i]) /\ Names(text[j]) => text[i].n < text[j].n
Precede(text, later) ==
    \A i \in 1 .. Len(text), j \in 1 .. Len(later) :
        Names(text[i]) /\ Names(later[j]) => text[i].n < later[j].n
(* Every message handled was sent before those in a text, which are before   *)
(* those to come.                                                            *)
After(text) ==
    /\ text \in Seq(Mark)
    /\ \A i \in 1 .. Len(text) : text[i].n <= said
    /\ \A k \in 1 .. Len(handled), i \in 1 .. Len(text) : Names(text[i]) => handled[k] < text[i].n

OrderInv ==
    /\ said \in Nat
    /\ handled \in Seq(Nat \ {0}) /\ \A k \in 1 .. Len(handled) : handled[k] <= said
    /\ After(buffer) /\ InTurn(buffer)
    /\ After(coming) /\ InTurn(coming)
    /\ Precede(buffer, coming)
    /\ thread = "call" => handled # <<>>
    /\ HandledInOrder

(* A set of places in a text has a least one: of its initial parts none is   *)
(* smaller than all others unless it ends at the least.                      *)
LEMMA HasLeast ==
  ASSUME NEW top \in Nat, NEW S \in SUBSET (1 .. top), S # {}
  PROVE  Client!Min(S) \in S /\ \A n \in S : Client!Min(S) <= n
<1> DEFINE Upto(k) == {n \in S : n <= k}
           Parts == {Upto(k) : k \in S}
<1>1. IsWellFoundedOn(StrictSubsetOrdering(1 .. top), FiniteSubsetsOf(1 .. top))
  BY FS_StrictSubsetOrderingWellFounded
<1>2. IsFiniteSet(1 .. top)
  BY FS_Interval
<1>3. Parts \subseteq FiniteSubsetsOf(1 .. top) /\ Parts # {}
  <2>1. ASSUME NEW k \in S PROVE Upto(k) \in FiniteSubsetsOf(1 .. top)
    <3>1. Upto(k) \in SUBSET (1 .. top)
      OBVIOUS
    <3> HIDE DEF Upto
    <3>2. IsFiniteSet(Upto(k))
      BY <1>2, <3>1, FS_Subset
    <3> QED
      BY <3>1, <3>2 DEF FiniteSubsetsOf
  <2> QED
    BY <2>1
<1>4. PICK smallest \in Parts : \A other \in Parts : ~ <<other, smallest>> \in StrictSubsetOrdering(1 .. top)
  BY <1>1, <1>3, WFMin
<1>5. PICK m \in S : smallest = Upto(m)
  BY <1>4
<1>6. \A n \in S : m <= n
  <2>1. SUFFICES ASSUME NEW n \in S, ~ m <= n PROVE FALSE
    OBVIOUS
  <2>2. \A k \in S : k \in Int
    OBVIOUS
  <2>3. n < m /\ m \in Upto(m) /\ m \notin Upto(n)
    BY <2>1, <2>2
  <2>4. Upto(n) \subseteq Upto(m)
    <3>1. \A k \in S : k <= n => k <= m
      BY <2>2, <2>3
    <3> QED
      BY <3>1
  <2>5. Upto(n) \in Parts /\ Upto(n) \in SUBSET (1 .. top) /\ Upto(m) \in SUBSET (1 .. top)
    OBVIOUS
  <2> HIDE DEF Upto
  <2>6. <<Upto(n), Upto(m)>> \in StrictSubsetOrdering(1 .. top)
    BY <2>3, <2>4, <2>5 DEF StrictSubsetOrdering
  <2> QED
    BY <1>4, <1>5, <2>5, <2>6
<1> QED
  BY <1>6 DEF Client!Min

LEMMA OrderStart == Client!Init => OrderInv
BY EmptySeq DEF Client!Init, OrderInv, After, InTurn, Precede, HandledInOrder, Client!HandledInOrder

(* A piece of a text.                                                        *)
LEMMA SubText ==
  ASSUME NEW text \in Seq(Mark), NEW m \in Nat \ {0}, NEW n \in Nat, n <= Len(text)
  PROVE  LET s == SubSeq(text, m, n) IN
         /\ s \in Seq(Mark)
         /\ \A i \in 1 .. Len(s) : m + i - 1 \in m .. n /\ m + i - 1 \in 1 .. Len(text)
                                   /\ s[i] = text[m + i - 1]
<1>1. Len(text) \in Nat /\ \A i \in 1 .. Len(text) : text[i] \in Mark
  BY LenProperties
<1>2. \A i \in m .. n : i \in 1 .. Len(text)
  BY <1>1
<1> DEFINE s == SubSeq(text, m, n)
<1>3. /\ s \in Seq(Mark)
      /\ Len(s) = IF m <= n THEN n - m + 1 ELSE 0
      /\ \A i \in 1 .. n - m + 1 : s[i] = text[m + i - 1]
  BY <1>1, <1>2, SubSeqProperties
<1> HIDE DEF s
<1>4. \A i \in 1 .. Len(s) : m + i - 1 \in m .. n /\ i \in 1 .. n - m + 1
  BY <1>3
<1>5. /\ s \in Seq(Mark)
      /\ \A i \in 1 .. Len(s) : m + i - 1 \in m .. n /\ m + i - 1 \in 1 .. Len(text)
                                /\ s[i] = text[m + i - 1]
  BY <1>2, <1>3, <1>4
<1> QED
  BY <1>5 DEF s

(* What holds of a text holds of a piece of it.                              *)
LEMMA SubOrder ==
  ASSUME NEW text, After(text), InTurn(text), NEW m \in Nat \ {0}, NEW n \in Nat, n <= Len(text),
         NEW s, s = SubSeq(text, m, n)
  PROVE  /\ After(s) /\ InTurn(s)
         /\ \A later : Precede(text, later) => Precede(s, later)
         /\ \A earlier : Precede(earlier, text) => Precede(earlier, s)
<1>1. text \in Seq(Mark)
  BY DEF After
<1>2. /\ s \in Seq(Mark) /\ Len(s) \in Nat
      /\ \A i \in 1 .. Len(s) : m + i - 1 \in 1 .. Len(text) /\ s[i] = text[m + i - 1]
  BY <1>1, SubText, LenProperties
<1>3. After(s)
  BY <1>2 DEF After
<1>4. InTurn(s)
  <2>1. SUFFICES ASSUME NEW i \in 1 .. Len(s), NEW j \in 1 .. Len(s), i < j, Names(s[i]), Names(s[j])
                 PROVE  s[i].n < s[j].n
    BY DEF InTurn
  <2>2. m + i - 1 < m + j - 1
    BY <1>2, <2>1
  <2> QED
    BY <1>2, <2>1, <2>2 DEF InTurn
<1>5. /\ \A later : Precede(text, later) => Precede(s, later)
      /\ \A earlier : Precede(earlier, text) => Precede(earlier, s)
  BY <1>2 DEF Precede
<1> QED
  BY <1>3, <1>4, <1>5

(* Two texts in order, joined.                                               *)
LEMMA JoinOrder ==
  ASSUME NEW text, NEW later, After(text), InTurn(text), After(later), InTurn(later),
         Precede(text, later), NEW s, s = text \o later
  PROVE  /\ After(s) /\ InTurn(s)
         /\ \A more : Precede(text, more) /\ Precede(later, more) => Precede(s, more)
         /\ \A earlier : Precede(earlier, text) /\ Precede(earlier, later) => Precede(earlier, s)
<1>1. text \in Seq(Mark) /\ later \in Seq(Mark)
  BY DEF After
<1>2. /\ s \in Seq(Mark) /\ Len(s) = Len(text) + Len(later)
      /\ \A i \in 1 .. Len(s) : s[i] = IF i <= Len(text) THEN text[i] ELSE later[i - Len(text)]
  BY <1>1, ConcatProperties
<1>3. Len(text) \in Nat /\ Len(later) \in Nat
  BY <1>1, LenProperties
<1>4. \A i \in 1 .. Len(s) : \/ i \in 1 .. Len(text) /\ s[i] = text[i]
                             \/ /\ i - Len(text) \in 1 .. Len(later) /\ s[i] = later[i - Len(text)]
                                /\ i \notin 1 .. Len(text)
  BY <1>2, <1>3
<1>5. After(s)
  BY <1>2, <1>4 DEF After
<1>6. InTurn(s)
  <2>1. SUFFICES ASSUME NEW i \in 1 .. Len(s), NEW j \in 1 .. Len(s), i < j, Names(s[i]), Names(s[j])
                 PROVE  s[i].n < s[j].n
    BY DEF InTurn
  <2>2. CASE i \in 1 .. Len(text) /\ j \in 1 .. Len(text)
    BY <1>4, <2>1, <2>2 DEF InTurn
  <2>3. CASE i \in 1 .. Len(text) /\ j \notin 1 .. Len(text)
    BY <1>4, <2>1, <2>3 DEF Precede
  <2>4. CASE i \notin 1 .. Len(text)
    <3>1. /\ i - Len(text) \in 1 .. Len(later) /\ s[i] = later[i - Len(text)]
          /\ j - Len(text) \in 1 .. Len(later) /\ s[j] = later[j - Len(text)]
          /\ i - Len(text) < j - Len(text)
      BY <1>2, <1>3, <1>4, <2>1, <2>4
    <3> QED
      BY <2>1, <3>1 DEF InTurn
  <2> QED
    BY <2>2, <2>3, <2>4
<1>7. /\ \A more : Precede(text, more) /\ Precede(later, more) => Precede(s, more)
      /\ \A earlier : Precede(earlier, text) /\ Precede(earlier, later) => Precede(earlier, s)
  BY <1>4 DEF Precede
<1> QED
  BY <1>5, <1>6, <1>7

(* The text of a message: only its first bracket may name one to handle.     *)
LEMMA Spoken ==
  ASSUME NEW n \in Nat \ {0}, NEW kind \in Client!Kinds, NEW id \in Client!PieceIds,
         NEW t, t = Client!Text(kind),
         NEW s, s = [i \in DOMAIN t |-> [bracket |-> t[i], n |-> n, id |-> id]]
  PROVE  /\ s \in Seq(Mark) /\ InTurn(s)
         /\ \A i \in 1 .. Len(s) : s[i].n = n
<1>1. /\ Len(t) \in Nat /\ DOMAIN t = 1 .. Len(t)
      /\ \A i \in 1 .. Len(t) : /\ t[i] \in Client!Kinds \cup {"close"}
                                /\ t[i] \in {"call", "subscribe"} => i = 1
  <2>1. CASE kind = "subscribe"
    BY <2>1 DEF Client!Text, Client!Kinds
  <2>2. CASE kind # "subscribe"
    BY <2>2 DEF Client!Text, Client!Kinds
  <2> QED
    BY <2>1, <2>2
<1>2. /\ DOMAIN s = 1 .. Len(t) /\ s = [i \in DOMAIN s |-> s[i]]
      /\ \A i \in 1 .. Len(t) : s[i] = [bracket |-> t[i], n |-> n, id |-> id]
  BY <1>1
<1>3. \A i \in 1 .. Len(t) : s[i] \in Mark /\ s[i].n = n /\ (Names(s[i]) => i = 1)
  BY <1>1, <1>2 DEF Mark, Names
<1>4. s \in [1 .. Len(t) -> Mark]
  BY <1>2, <1>3
<1>5. s \in Seq(Mark) /\ Len(s) = Len(t)
  BY <1>1, <1>4
<1>6. \A i \in 1 .. Len(s) : s[i].n = n /\ (Names(s[i]) => i = 1)
  BY <1>3, <1>5
<1> HIDE DEF Names
<1>7. InTurn(s)
  <2>1. Len(s) \in Nat
    BY <1>5, LenProperties
  <2>2. SUFFICES ASSUME NEW i \in 1 .. Len(s), NEW j \in 1 .. Len(s), i < j, Names(s[i]), Names(s[j])
                 PROVE  FALSE
    BY ZenonT(20) DEF InTurn
  <2>3. i = 1 /\ j = 1
    BY <1>6, <2>2
  <2> QED
    BY <2>2, <2>3
<1> QED
  BY <1>5, <1>6, <1>7

(* Where the object that is found begins and ends.                           *)
LEMMA FoundInside ==
  ASSUME buffer \in Seq(Mark), Client!Starts # {}
  PROVE  /\ Client!Start \in 1 .. Len(buffer) /\ Client!End \in 1 .. Len(buffer)
         /\ Client!Start < Client!End
<1>1. Len(buffer) \in Nat /\ DOMAIN buffer = 1 .. Len(buffer)
  BY LenProperties
<1>2. Client!Starts \in SUBSET (1 .. Len(buffer))
  BY <1>1 DEF Client!Starts
<1>3. Client!Start \in Client!Starts
  BY <1>1, <1>2, HasLeast DEF Client!Start
<1>4. \E j \in DOMAIN buffer : Client!Object(buffer, Client!Start, j)
  BY <1>3 DEF Client!Starts
<1>5. Client!End \in DOMAIN buffer /\ Client!Object(buffer, Client!Start, Client!End)
  BY <1>4 DEF Client!End
<1>6. Client!Start < Client!End
  BY <1>5 DEF Client!Object
<1> QED
  BY <1>1, <1>2, <1>3, <1>5, <1>6

(* Each step keeps the order.                                                *)
LEMMA SayOrder ==
  ASSUME OrderInv, NEW kind \in Client!Kinds, NEW id \in Client!PieceIds, Client!Say(kind, id)
  PROVE  OrderInv'
<1>0. PICK t : t = Client!Text(kind)
  OBVIOUS
<1>1. PICK s : s = [i \in DOMAIN t |-> [bracket |-> t[i], n |-> said + 1, id |-> id]]
  OBVIOUS
<1>2. /\ coming' = coming \o s /\ said' = said + 1
      /\ UNCHANGED <<buffer, handled, thread>>
  BY <1>0, <1>1 DEF Client!Say, Client!incomingVars
<1>3. said \in Nat /\ said + 1 \in Nat \ {0}
  BY DEF OrderInv
<1>4. /\ s \in Seq(Mark) /\ InTurn(s)
      /\ \A i \in 1 .. Len(s) : s[i].n = said + 1
  BY <1>0, <1>1, <1>3, Spoken
<1>5. /\ \A k \in 1 .. Len(handled) : handled[k] \in Nat /\ handled[k] <= said
      /\ \A i \in 1 .. Len(buffer) : buffer[i].n \in Nat /\ buffer[i].n <= said
      /\ \A i \in 1 .. Len(coming) : coming[i].n \in Nat /\ coming[i].n <= said
  <2>1. /\ \A k \in 1 .. Len(handled) : handled[k] \in Nat
        /\ \A i \in 1 .. Len(buffer) : buffer[i] \in Mark
        /\ \A i \in 1 .. Len(coming) : coming[i] \in Mark
    BY LenProperties DEF OrderInv, After
  <2>2. \A mark \in Mark : mark.n \in Nat
    BY DEF Mark
  <2> QED
    BY <2>1, <2>2 DEF OrderInv, After
<1>6. Precede(buffer, s) /\ Precede(coming, s)
  <2>1. \A n \in Nat : n <= said => n < said + 1
    BY <1>3
  <2> QED
    BY ZenonT(30), <1>4, <1>5, <2>1 DEF Precede
<1>7. /\ coming \o s \in Seq(Mark)
      /\ \A i \in 1 .. Len(coming \o s) :
            \/ i \in 1 .. Len(coming) /\ (coming \o s)[i] = coming[i]
            \/ /\ i - Len(coming) \in 1 .. Len(s) /\ (coming \o s)[i] = s[i - Len(coming)]
               /\ i \notin 1 .. Len(coming)
  <2>1. coming \in Seq(Mark) /\ Len(coming) \in Nat /\ Len(s) \in Nat
    BY <1>4, LenProperties DEF OrderInv, After
  <2> QED
    BY <1>4, <2>1, ConcatProperties
<1>8. After(coming)'
  <2>1. \A i \in 1 .. Len(coming \o s) : (coming \o s)[i].n <= said + 1
    BY <1>3, <1>4, <1>5, <1>7
  <2>2. ASSUME NEW k \in 1 .. Len(handled), NEW i \in 1 .. Len(coming \o s), Names((coming \o s)[i])
        PROVE  handled[k] < (coming \o s)[i].n
    <3>1. CASE i \in 1 .. Len(coming) /\ (coming \o s)[i] = coming[i]
      BY <2>2, <3>1 DEF OrderInv, After
    <3>2. CASE i - Len(coming) \in 1 .. Len(s) /\ (coming \o s)[i] = s[i - Len(coming)]
      <4>1. (coming \o s)[i].n = said + 1
        BY <1>4, <3>2
      <4> QED
        BY <1>3, <1>5, <4>1
    <3> QED
      BY <1>7, <3>1, <3>2
  <2> QED
    BY <1>2, <1>7, <2>1, <2>2 DEF After
<1>9. InTurn(coming \o s)
  <2>1. Len(coming) \in Nat /\ Len(s) \in Nat /\ Len(coming \o s) = Len(coming) + Len(s)
    BY <1>4, LenProperties, ConcatProperties DEF OrderInv, After
  <2>2. SUFFICES ASSUME NEW i \in 1 .. Len(coming \o s), NEW j \in 1 .. Len(coming \o s), i < j,
                        Names((coming \o s)[i]), Names((coming \o s)[j])
                 PROVE  (coming \o s)[i].n < (coming \o s)[j].n
    BY DEF InTurn
  <2>3. CASE j \in 1 .. Len(coming)
    <3>1. i \in 1 .. Len(coming)
      BY <2>1, <2>2, <2>3
    <3> QED
      BY <1>7, <2>2, <2>3, <3>1 DEF OrderInv, InTurn
  <2>4. CASE i \in 1 .. Len(coming) /\ j \notin 1 .. Len(coming)
    BY <1>6, <1>7, <2>2, <2>4 DEF Precede
  <2>5. CASE i \notin 1 .. Len(coming) /\ j \notin 1 .. Len(coming)
    <3>1. i - Len(coming) < j - Len(coming)
      BY <2>1, <2>2
    <3> QED
      BY <1>4, <1>7, <2>2, <2>5, <3>1 DEF InTurn
  <2> QED
    BY <2>3, <2>4, <2>5
<1>10. Precede(buffer, coming \o s)
  BY <1>6, <1>7 DEF OrderInv, Precede
<1>11. After(buffer)' /\ \A k \in 1 .. Len(handled) : handled[k] <= said'
  <2>1. \A n \in Nat : n <= said => n <= said + 1
    BY <1>3
  <2> QED
    BY ZenonT(30), <1>2, <1>5, <2>1 DEF OrderInv, After
<1> QED
  BY <1>2, <1>3, <1>8, <1>9, <1>10, <1>11 DEF OrderInv, InTurn, Precede, HandledInOrder, Client!HandledInOrder

LEMMA ReceiveOrder ==
  ASSUME OrderInv, NEW k \in 1 .. Len(coming), Client!Receive(k)
  PROVE  OrderInv'
<1>1. coming \in Seq(Mark) /\ Len(coming) \in Nat /\ k \in Nat /\ k <= Len(coming)
      /\ k + 1 \in Nat \ {0} /\ 1 \in Nat \ {0} /\ Len(coming) <= Len(coming)
  BY LenProperties DEF OrderInv, After
<1>0. /\ After(buffer) /\ InTurn(buffer) /\ After(coming) /\ InTurn(coming)
      /\ Precede(buffer, coming)
  BY DEF OrderInv
<1>2. PICK first : first = SubSeq(coming, 1, k)
  OBVIOUS
<1>3. PICK rest : rest = SubSeq(coming, k + 1, Len(coming))
  OBVIOUS
<1>4. PICK joined : joined = buffer \o first
  OBVIOUS
<1>5. /\ buffer' = joined /\ coming' = rest /\ thread' = "parse"
      /\ UNCHANGED <<said, handled>>
  BY <1>2, <1>3, <1>4 DEF Client!Receive
<1>6. /\ After(first) /\ InTurn(first) /\ Precede(buffer, first)
  <2>1. PICK m \in Nat \ {0} : m = 1
    OBVIOUS
  <2>2. first = SubSeq(coming, m, k)
    BY <1>2, <2>1
  <2> QED
    BY <1>1, <1>0, <2>2, SubOrder
<1>7. /\ After(rest) /\ InTurn(rest) /\ Precede(buffer, rest)
  <2>1. PICK m \in Nat \ {0} : m = k + 1
    BY <1>1
  <2>2. rest = SubSeq(coming, m, Len(coming))
    BY <1>3, <2>1
  <2> QED
    BY <1>1, <1>0, <2>2, SubOrder
<1>8. Precede(first, rest)
  <2>1. /\ \A i \in 1 .. Len(first) : /\ i \in 1 .. k /\ i \in 1 .. Len(coming)
                                      /\ first[i] = coming[i]
    <3>1. \A i \in 1 .. Len(first) : /\ 1 + i - 1 \in 1 .. k /\ 1 + i - 1 \in 1 .. Len(coming)
                                     /\ first[i] = coming[1 + i - 1]
      BY <1>1, <1>2, SubText
    <3> QED
      BY <3>1, <1>6, LenProperties DEF After
  <2>2. /\ \A i \in 1 .. Len(rest) : /\ k + 1 + i - 1 \in k + 1 .. Len(coming)
                                     /\ k + 1 + i - 1 \in 1 .. Len(coming)
                                     /\ rest[i] = coming[k + 1 + i - 1]
    BY <1>1, <1>3, SubText
  <2>3. ASSUME NEW i \in 1 .. Len(first), NEW j \in 1 .. Len(rest), Names(first[i]), Names(rest[j])
        PROVE  first[i].n < rest[j].n
    <3>1. i < k + 1 + j - 1
      BY <1>1, <2>1, <2>2
    <3> QED
      BY <2>1, <2>2, <2>3, <3>1 DEF OrderInv, InTurn
  <2> QED
    BY <2>3 DEF Precede
<1>9. After(joined) /\ InTurn(joined) /\ Precede(joined, rest)
  BY ZenonT(30), <1>4, <1>6, <1>7, <1>8, JoinOrder DEF OrderInv
<1> QED
  BY <1>5, <1>7, <1>9 DEF OrderInv, After, InTurn, Precede, HandledInOrder, Client!HandledInOrder

LEMMA ParseOrder ==
  ASSUME OrderInv, Client!Parse
  PROVE  OrderInv'
<1>1. buffer \in Seq(Mark) /\ Len(buffer) \in Nat
  BY LenProperties DEF OrderInv, After
<1>2. UNCHANGED <<coming, said>>
  BY DEF Client!Parse, Client!clientVars
<1>3. CASE UNCHANGED <<buffer, handled>> /\ thread' = "idle"
  BY <1>2, <1>3 DEF OrderInv, After, InTurn, Precede, HandledInOrder, Client!HandledInOrder
<1>4. CASE Client!Starts # {} /\ buffer' = Client!Rest
  <2>1. /\ Client!Start \in 1 .. Len(buffer) /\ Client!End \in 1 .. Len(buffer)
        /\ Client!Start < Client!End
    BY <1>1, <1>4, FoundInside
  <2>2. PICK rest : rest = Client!Rest
    OBVIOUS
  <2>3. After(rest) /\ InTurn(rest) /\ Precede(rest, coming)
    <3>1. CASE rest = <<>>
      BY <3>1, EmptySeq DEF After, InTurn, Precede
    <3>2. CASE rest = buffer
      BY <3>2 DEF OrderInv
    <3>3. CASE rest = SubSeq(buffer, Client!End + 1, Len(buffer))
      <4>1. PICK m \in Nat \ {0} : m = Client!End + 1
        BY <2>1
      <4>2. rest = SubSeq(buffer, m, Len(buffer)) /\ Len(buffer) <= Len(buffer)
        BY <1>1, <3>3, <4>1
      <4>3. After(buffer) /\ InTurn(buffer) /\ Precede(buffer, coming)
        BY DEF OrderInv
      <4> QED
        BY <1>1, <4>2, <4>3, SubOrder
    <3> QED
      BY <2>2, <3>1, <3>2, <3>3 DEF Client!Rest
  <2>4. CASE UNCHANGED handled /\ thread' = "idle"
    BY <1>2, <1>4, <2>2, <2>3, <2>4 DEF OrderInv, After, InTurn, Precede, HandledInOrder, Client!HandledInOrder
  <2>5. CASE /\ Client!Found \in {"call", "subscribe"}
             /\ handled' = Append(handled, buffer[Client!Start].n)
    <3>1. PICK n : n = buffer[Client!Start].n
      OBVIOUS
    <3>2. buffer[Client!Start] \in Mark /\ Names(buffer[Client!Start])
      BY <1>1, <2>1, <2>5, LenProperties DEF Client!Found, Names
    <3>3. n \in Nat \ {0} /\ n <= said
      BY <2>1, <3>1, <3>2 DEF OrderInv, After, Mark
    <3>4. \A k \in 1 .. Len(handled) : handled[k] < n
      BY <2>1, <3>1, <3>2 DEF OrderInv, After
    <3>5. \A i \in 1 .. Len(rest) : Names(rest[i]) => n < rest[i].n
      \* A named message that is found does not stay in the buffer.
      <4>1. rest = <<>> \/ rest = SubSeq(buffer, Client!End + 1, Len(buffer))
        BY <2>2, <2>5 DEF Client!Rest
      <4>2. CASE rest = <<>>
        BY <4>2
      <4>3. CASE rest = SubSeq(buffer, Client!End + 1, Len(buffer))
        <5>1. Client!End + 1 \in Nat \ {0}
          BY <2>1
        <5>2. \A i \in 1 .. Len(rest) :
                 /\ Client!End + 1 + i - 1 \in Client!End + 1 .. Len(buffer)
                 /\ Client!End + 1 + i - 1 \in 1 .. Len(buffer)
                 /\ rest[i] = buffer[Client!End + 1 + i - 1]
          BY <1>1, <4>3, <5>1, SubText
        <5>3. ASSUME NEW i \in 1 .. Len(rest), Names(rest[i])
              PROVE  n < rest[i].n
          <6>1. Client!Start < Client!End + 1 + i - 1
            BY <2>1, <5>2
          <6> QED
            BY <2>1, <3>1, <3>2, <5>2, <5>3, <6>1 DEF OrderInv, InTurn
        <5> QED
          BY <5>3
      <4> QED
        BY <4>1, <4>2, <4>3
    <3>6. \A i \in 1 .. Len(coming) : Names(coming[i]) => n < coming[i].n
      BY <2>1, <3>1, <3>2 DEF OrderInv, Precede
    <3>7. /\ handled' \in Seq(Nat \ {0}) /\ handled' # <<>>
          /\ Len(handled') = Len(handled) + 1 /\ Len(handled) \in Nat
          /\ \A k \in 1 .. Len(handled') :
                \/ k \in 1 .. Len(handled) /\ handled'[k] = handled[k]
                \/ k = Len(handled) + 1 /\ handled'[k] = n
      BY <2>5, <3>1, <3>3, AppendProperties, LenProperties DEF OrderInv
    <3>8. After(rest)' /\ After(coming)'
      BY <1>2, <2>3, <3>5, <3>6, <3>7 DEF OrderInv, After
    <3>9. HandledInOrder'
      <4>1. DOMAIN handled = 1 .. Len(handled) /\ DOMAIN handled' = 1 .. Len(handled')
        BY <3>7, LenProperties DEF OrderInv
      <4>2. \A i, j \in 1 .. Len(handled) : i < j => handled[i] < handled[j]
        BY <4>1 DEF OrderInv, HandledInOrder, Client!HandledInOrder
      <4>3. ASSUME NEW i \in 1 .. Len(handled'), NEW j \in 1 .. Len(handled'), i < j
            PROVE  handled'[i] < handled'[j]
        <5>1. i \in 1 .. Len(handled) /\ handled'[i] = handled[i]
          BY <3>7, <4>3
        <5> QED
          BY <3>4, <3>7, <4>2, <4>3, <5>1
      <4> QED
        BY <4>1, <4>3 DEF HandledInOrder, Client!HandledInOrder
    <3>10. \A k \in 1 .. Len(handled') : handled'[k] <= said'
      BY <1>2, <3>3, <3>7 DEF OrderInv
    <3> QED
      BY <1>2, <1>4, <2>2, <2>3, <3>7, <3>8, <3>9, <3>10 DEF OrderInv, After, InTurn, Precede
  <2> QED
    BY <1>4, <2>4, <2>5 DEF Client!Parse
<1> QED
  BY <1>3, <1>4 DEF Client!Parse

LEMMA OrderStep == ASSUME OrderInv, Client!Next PROVE OrderInv'
<1>1. CASE \E kind \in Client!Kinds, id \in Client!PieceIds : Client!Say(kind, id)
  BY <1>1, SayOrder
<1>2. CASE \E k \in 1 .. Len(coming) : Client!Receive(k)
  BY <1>2, ReceiveOrder
<1>3. CASE Client!Parse
  BY <1>3, ParseOrder
<1>4. CASE Client!BreakOff
  BY <1>4, EmptySeq DEF Client!BreakOff, Client!incomingVars, OrderInv, After, InTurn, Precede,
                        HandledInOrder, Client!HandledInOrder
<1>5. ASSUME UNCHANGED <<coming, said, buffer, handled>>, thread' # "call" \/ thread' = thread
      PROVE  OrderInv'
  BY <1>5 DEF OrderInv, After, InTurn, Precede, HandledInOrder, Client!HandledInOrder
<1>6. CASE Client!More
  BY <1>5, <1>6 DEF Client!More, Client!clientVars
<1>7. CASE Client!Answered
  BY <1>5, <1>7 DEF Client!Answered, Client!clientVars
<1>8. ASSUME NEW length, Client!Answer(length) PROVE OrderInv'
  BY <1>5, <1>8 DEF Client!Answer, Client!clientVars
<1>9. ASSUME NEW length, Client!Publish(length) PROVE OrderInv'
  BY <1>5, <1>9 DEF Client!Publish, Client!clientVars, Client!incomingVars
<1>10. ASSUME NEW origin, Client!Outgoing(origin) PROVE OrderInv'
  BY <1>5, <1>10 DEF Client!Outgoing, Client!clientVars, Client!incomingVars
<1> QED
  BY <1>1, <1>2, <1>3, <1>4, <1>6, <1>7, <1>8, <1>9, <1>10 DEF Client!Next

LEMMA OrderInvariance == TablesSpec => []OrderInv
<1>1. TablesInit => OrderInv
  BY OrderStart DEF TablesInit
<1>2. OrderInv /\ [TablesNext]_tableVars => OrderInv'
  <2> SUFFICES ASSUME OrderInv, [TablesNext]_tableVars PROVE OrderInv'
    OBVIOUS
  <2>1. CASE Client!Next
    BY <2>1, OrderStep
  <2>2. CASE UNCHANGED protocolVars
    BY <2>2 DEF protocolVars, OrderInv, After, InTurn, Precede, HandledInOrder, Client!HandledInOrder
  <2> QED
    BY <2>1, <2>2 DEF TablesNext, tableVars
<1> QED
  BY <1>1, <1>2, PTL DEF TablesSpec

(* Messages are handled in the order in which they were sent and none of     *)
(* them twice, however the text of any number of messages is cut, joined or  *)
(* broken off (Protocol.incoming): what stays in the buffer, and what is     *)
(* thrown away, is never before a message that was handled.                  *)
THEOREM AlwaysHandledInOrder == TablesSpec => []HandledInOrder
<1>1. OrderInv => HandledInOrder
  BY DEF OrderInv
<1> QED
  BY <1>1, OrderInvariance, PTL

-----------------------------------------------------------------------------
(* One client's protocol: each step keeps the pieces apart.                  *)

(* What is left of a message once its first piece is sent.                   *)
LEMMA TailPieces ==
  ASSUME NEW q \in Seq(Piece), q # <<>>
  PROVE  /\ q[1] \in Piece /\ Head(q) = q[1] /\ Len(q) \in Nat /\ 1 \in 1 .. Len(q)
         /\ Tail(q) \in Seq(Piece) /\ Len(Tail(q)) \in Nat /\ (Tail(q) # <<>> => 1 \in 1 .. Len(Tail(q)))
         /\ \A i \in 1 .. Len(Tail(q)) : i + 1 \in 1 .. Len(q) /\ Tail(q)[i] = q[i + 1]
BY LenProperties, HeadTailProperties, EmptySeq

LEMMA SocketKeeps ==
  ASSUME AnswersInv, Client!Outgoing("socket")
  PROVE  AnswersInv'
<1>1. PICK q : q = sending["socket"]
  OBVIOUS
<1>2. PICK rest : rest = Tail(q)
  OBVIOUS
<1>3. PICK p : p = Head(q)
  OBVIOUS
<1>4. q \in Seq(Piece) /\ q # <<>>
  BY <1>1 DEF Client!Outgoing, AnswersInv, Client!Threads
<1>5. /\ p \in Piece /\ p = q[1] /\ Len(q) \in Nat /\ 1 \in 1 .. Len(q)
      /\ rest \in Seq(Piece) /\ Len(rest) \in Nat /\ (rest # <<>> => 1 \in 1 .. Len(rest))
      /\ \A i \in 1 .. Len(rest) : i + 1 \in 1 .. Len(q) /\ rest[i] = q[i + 1]
  BY <1>2, <1>3, <1>4, TailPieces
<1>6. /\ sending' \in [Client!Threads -> Seq(Piece)]
      /\ sending'["socket"] = rest /\ sending'["subscription"] = sending["subscription"]
      /\ UNCHANGED <<fragment_size, cid, published>>
  BY <1>1, <1>2, <1>5 DEF Client!Outgoing, Client!incomingVars, AnswersInv, Client!Threads
<1>7. /\ \A i \in 1 .. Len(q) : q[i].id = p.id /\ q[i].of = p.of /\ q[i].num = p.num + i - 1
      /\ p.num > 0 /\ p.id # Client!NoId =>
            /\ Len(collected[p.id]) = p.num
            /\ \A i \in 1 .. Len(collected[p.id]) : collected[p.id][i].of = p.of
      /\ p.num \in Nat /\ p.id \in Client!PieceIds
  <2>1. Continues(q)
    BY <1>1 DEF AnswersInv
  <2>2. p.num \in Nat /\ p.id \in Client!PieceIds
    BY <1>5 DEF Piece
  <2> QED
    BY <1>4, <1>5, <2>1, <2>2 DEF Continues
<1>8. \A i \in 1 .. Len(rest) : /\ rest[i].id = rest[1].id /\ rest[i].of = rest[1].of
                                /\ rest[i].num = rest[1].num + i - 1
                                /\ rest[1].id = p.id /\ rest[1].of = p.of /\ rest[1].num = p.num + 1
  <2>1. ASSUME NEW i \in 1 .. Len(rest)
        PROVE  rest[i].id = p.id /\ rest[i].of = p.of /\ rest[i].num = p.num + i
    <3>1. PICK j \in 1 .. Len(q) : j = i + 1 /\ rest[i] = q[j]
      BY <1>5
    <3>2. p.num + j - 1 = p.num + i
      BY <1>7, <3>1
    <3> QED
      BY <1>7, <3>1, <3>2
  <2>2. ASSUME NEW i \in 1 .. Len(rest)
        PROVE  1 \in 1 .. Len(rest)
    BY <1>5
  <2> QED
    BY <1>7, <2>1, <2>2
<1>9. PICK now : now = IF p.num = 0 THEN <<p>> ELSE Append(collected[p.id], p)
  OBVIOUS
<1>10. collected' = [collected EXCEPT ![p.id] = now]
  BY <1>1, <1>3, <1>9 DEF Client!Outgoing
<1>11. /\ collected[p.id] \in Seq(Piece) /\ Len(collected[p.id]) \in Nat
       /\ p.id # Client!NoId => \A i \in 1 .. Len(collected[p.id]) : collected[p.id][i].num = i - 1
  BY <1>7, LenProperties DEF AnswersInv, Together
<1>12. now \in Seq(Piece)
  BY <1>5, <1>9, <1>11, AppendProperties
<1>13. p.id # Client!NoId => /\ Len(now) = p.num + 1
                             /\ \A i \in 1 .. Len(now) : now[i].of = p.of /\ now[i].num = i - 1
  <2> SUFFICES ASSUME p.id # Client!NoId
               PROVE  /\ Len(now) = p.num + 1
                      /\ \A i \in 1 .. Len(now) : now[i].of = p.of /\ now[i].num = i - 1
    OBVIOUS
  <2>1. CASE p.num = 0
    <3>1. now = <<p>>
      BY <1>9, <2>1
    <3>2. Len(now) = 1 /\ now[1] = p
      BY <1>5, <3>1
    <3> QED
      BY <2>1, <3>2
  <2>2. CASE p.num # 0
    <3>1. now = Append(collected[p.id], p) /\ Len(collected[p.id]) = p.num
      BY <1>7, <1>9, <2>2
    <3>2. /\ Len(now) = p.num + 1
          /\ \A i \in 1 .. Len(now) : \/ i \in 1 .. Len(collected[p.id]) /\ now[i] = collected[p.id][i]
                                      \/ i = p.num + 1 /\ now[i] = p
      BY <1>5, <1>11, <3>1, AppendProperties
    <3>3. ASSUME NEW i \in 1 .. Len(now)
          PROVE  now[i].of = p.of /\ now[i].num = i - 1
      <4>1. CASE i \in 1 .. Len(collected[p.id]) /\ now[i] = collected[p.id][i]
        BY <1>7, <1>11, <2>2, <4>1
      <4>2. CASE i = p.num + 1 /\ now[i] = p
        BY <1>7, <4>2
      <4> QED
        BY <3>2, <4>1, <4>2
    <3> QED
      BY <3>2, <3>3
  <2> QED
    BY <2>1, <2>2
<1>14. /\ collected' \in [Client!PieceIds -> Seq(Piece)] /\ collected'[p.id] = now
       /\ \A id \in Client!PieceIds : id # p.id => collected'[id] = collected[id]
  BY <1>7, <1>10, <1>12 DEF AnswersInv
<1>15. Continues(rest)'
  BY <1>5, <1>8, <1>13, <1>14 DEF Continues
<1>16. \A id \in Client!PieceIds : Together(id)'
  <2>1. Together(p.id)'
    <3>1. Len(now) \in Nat /\ \A i \in 1 .. Len(now) : 1 \in 1 .. Len(now)
      BY <1>12, LenProperties
    <3> QED
      BY <1>13, <1>14, <3>1 DEF Together
  <2>2. ASSUME NEW id \in Client!PieceIds, id # p.id
        PROVE  Together(id)'
    BY <1>14, <2>2 DEF AnswersInv, Together
  <2> QED
    BY <2>1, <2>2
<1> QED
  BY <1>6, <1>14, <1>15, <1>16 DEF AnswersInv, Continues

LEMMA SubscriptionKeeps ==
  ASSUME AnswersInv, Client!Outgoing("subscription")
  PROVE  AnswersInv'
<1>1. PICK q : q = sending["subscription"]
  OBVIOUS
<1>2. PICK rest : rest = Tail(q)
  OBVIOUS
<1>3. PICK p : p = Head(q)
  OBVIOUS
<1>4. q \in Seq(Piece) /\ q # <<>>
  BY <1>1 DEF Client!Outgoing, AnswersInv, Client!Threads
<1>5. /\ p \in Piece /\ p = q[1] /\ Len(q) \in Nat /\ 1 \in 1 .. Len(q)
      /\ rest \in Seq(Piece)
      /\ \A i \in 1 .. Len(rest) : i + 1 \in 1 .. Len(q) /\ rest[i] = q[i + 1]
  BY <1>2, <1>3, <1>4, TailPieces
<1>6. /\ sending' \in [Client!Threads -> Seq(Piece)]
      /\ sending'["subscription"] = rest /\ sending'["socket"] = sending["socket"]
      /\ UNCHANGED <<fragment_size, cid, published>>
  BY <1>1, <1>2, <1>5 DEF Client!Outgoing, Client!incomingVars, AnswersInv, Client!Threads
<1>7. \A i \in 1 .. Len(q) : q[i].id = Client!NoId
  BY <1>1 DEF AnswersInv
<1>8. /\ p.id = Client!NoId /\ p.id \in Client!PieceIds
      /\ \A i \in 1 .. Len(rest) : rest[i].id = Client!NoId
  BY <1>5, <1>7 DEF Piece
<1>9. PICK now : now = IF p.num = 0 THEN <<p>> ELSE Append(collected[p.id], p)
  OBVIOUS
<1>10. collected' = [collected EXCEPT ![p.id] = now]
  BY <1>1, <1>3, <1>9 DEF Client!Outgoing
<1>11. now \in Seq(Piece)
  BY <1>5, <1>8, <1>9, AppendProperties DEF AnswersInv
<1>12. /\ collected' \in [Client!PieceIds -> Seq(Piece)]
       /\ \A id \in Client!PieceIds : id # Client!NoId => collected'[id] = collected[id]
  BY <1>8, <1>10, <1>11 DEF AnswersInv
<1>13. \A id \in Client!PieceIds : Together(id)'
  BY <1>12 DEF AnswersInv, Together
\* What is left of an answer with an id is not disturbed by a piece without one.
<1>14. Continues(sending["socket"])'
  <2>1. PICK a : a = sending["socket"]
    OBVIOUS
  <2>2. a \in Seq(Piece) /\ Continues(a)
    BY <2>1 DEF AnswersInv, Client!Threads
  <2>3. a # <<>> => a[1].id \in Client!PieceIds
    <3>1. a # <<>> => a[1] \in Piece
      BY <2>2, TailPieces
    <3> QED
      BY <3>1 DEF Piece
  <2> QED
    BY <1>6, <1>12, <2>1, <2>2, <2>3 DEF Continues
<1> QED
  BY <1>6, <1>8, <1>12, <1>13, <1>14 DEF AnswersInv

LEMMA AnswersStep ==
  ASSUME FragmentSize \in Nat \ {0}, OrderInv, AnswersInv, Client!Next
  PROVE  AnswersInv'
<1>1. ASSUME UNCHANGED <<sending, collected, published>>, fragment_size' \in {0, FragmentSize},
             cid' \in Client!PieceIds
      PROVE  AnswersInv'
  BY <1>1 DEF AnswersInv, Continues, Together
<1>2. ASSUME UNCHANGED <<fragment_size, cid, sending, collected, published>>
      PROVE  AnswersInv'
  BY <1>1, <1>2 DEF AnswersInv
<1>3. CASE \E kind \in Client!Kinds, id \in Client!PieceIds : Client!Say(kind, id)
  BY <1>2, <1>3 DEF Client!Say, Client!incomingVars, Client!wireVars
<1>4. CASE Client!BreakOff
  BY <1>2, <1>4 DEF Client!BreakOff, Client!incomingVars, Client!wireVars
<1>5. CASE \E k \in 1 .. Len(coming) : Client!Receive(k)
  BY <1>2, <1>5 DEF Client!Receive, Client!wireVars
<1>6. CASE Client!Parse
  <2>1. Client!Starts # {} => buffer[Client!Start].id \in Client!PieceIds
    <3>1. buffer \in Seq(Mark)
      BY DEF OrderInv, After
    <3>2. Client!Starts # {} => buffer[Client!Start] \in Mark
      BY <3>1, FoundInside, LenProperties
    <3> QED
      BY <3>2 DEF Mark
  <2>2. UNCHANGED <<sending, collected, published>> /\ fragment_size' \in {0, FragmentSize}
    BY <1>6 DEF Client!Parse, Client!wireVars, AnswersInv
  <2>3. cid' \in Client!PieceIds
    BY <1>6, <2>1 DEF Client!Parse, AnswersInv
  <2> QED
    BY <1>1, <2>2, <2>3
<1>7. CASE Client!More
  BY <1>2, <1>7 DEF Client!More, Client!wireVars
<1>8. CASE Client!Answered
  BY <1>2, <1>8 DEF Client!Answered, Client!wireVars
<1>9. ASSUME NEW length \in Nat, Client!Answer(length) PROVE AnswersInv'
  <2>1. PICK n : n = Client!Last(handled)
    OBVIOUS
  <2>2. handled \in Seq(Nat \ {0}) /\ handled # <<>>
    BY <1>9 DEF Client!Answer, OrderInv
  <2>3. n \in Nat
    <3>1. Len(handled) \in 1 .. Len(handled) /\ \A k \in 1 .. Len(handled) : handled[k] \in Nat \ {0}
      BY <2>2, LenProperties, EmptySeq
    <3> QED
      BY <2>1, <3>1 DEF Client!Last
  <2>4. cid \in Client!PieceIds /\ cid' \in Client!PieceIds
    BY <1>9 DEF Client!Answer, AnswersInv, Client!PieceIds
  <2> QED
    BY <1>9, <2>1, <2>3, <2>4, AnswerKeeps DEF Client!Answer
<1>10. ASSUME NEW length \in Nat, Client!Publish(length) PROVE AnswersInv'
  <2>1. PICK n : n = published + 1
    OBVIOUS
  <2>2. n \in Nat /\ published' \in Nat
    BY <1>10, <2>1 DEF Client!Publish, AnswersInv
  <2> QED
    BY <1>10, <2>1, <2>2, PublishKeeps DEF Client!Publish, Client!incomingVars
<1>11. CASE \E origin \in Client!Threads : Client!Outgoing(origin)
  BY <1>11, SocketKeeps, SubscriptionKeeps DEF Client!Threads
<1>12. {0, FragmentSize, 2 * FragmentSize + 1} \in SUBSET Nat
  OBVIOUS
<1> QED
  BY <1>3, <1>4, <1>5, <1>6, <1>7, <1>8, <1>9, <1>10, <1>11, <1>12 DEF Client!Next

(* The client tells answers apart by the ids of its calls, whichever it      *)
(* gives them and however many have the same: of the fragments that have an  *)
(* id, those since the last first one are all of one answer, in order and    *)
(* without a gap, however many fragments subscriptions send in between       *)
(* (CallService._success, Protocol.send, _fragment_generator). FragmentSize  *)
(* is positive: of a size of zero fragment raises an exception, of a         *)
(* negative one it makes nothing. Of calls without an id nothing is said.    *)
THEOREM AlwaysAnswersTellApart ==
  ASSUME FragmentSize \in Nat \ {0}
  PROVE  TablesSpec => []AnswersTellApart
<1>1. TablesInit => AnswersInv
  BY AnswersStart DEF TablesInit
<1>2. OrderInv /\ AnswersInv /\ [TablesNext]_tableVars => AnswersInv'
  <2> SUFFICES ASSUME OrderInv, AnswersInv, [TablesNext]_tableVars PROVE AnswersInv'
    OBVIOUS
  <2>1. CASE Client!Next
    BY <2>1, AnswersStep
  <2>2. CASE UNCHANGED protocolVars
    BY ZenonT(30), <2>2 DEF protocolVars, AnswersInv, Continues, Together
  <2> QED
    BY <2>1, <2>2 DEF TablesNext, tableVars
<1>3. AnswersInv => AnswersTellApart
  <2> SUFFICES ASSUME AnswersInv, NEW id \in Client!PieceIds \ {Client!NoId},
                      NEW i \in DOMAIN collected[id], NEW j \in DOMAIN collected[id],
                      collected[id][i].of[1] = "socket"
               PROVE  collected[id][j].of = collected[id][i].of /\ collected[id][j].num = j - 1
    BY DEF AnswersTellApart, Client!AnswersTellApart
  <2>1. i \in 1 .. Len(collected[id]) /\ j \in 1 .. Len(collected[id]) /\ Together(id)
    BY LenProperties DEF AnswersInv
  <2> QED
    BY <2>1 DEF Together
<1> QED
  BY <1>1, <1>2, <1>3, OrderInvariance, PTL DEF TablesSpec

-----------------------------------------------------------------------------
(* The table of fragments. What is said of a message is said of one that has *)
(* an id to itself and is sent in ascending order; others do as they like.   *)

Good(c, n) == Pieces!Lone(c, n) /\ Pieces!Ascending(c, n)

(* Fragments of one message in the order of their numbers. The numbers lie   *)
(* apart by at least the distance of their places, so that a message with as *)
(* many fragments as it is made of leaves none out.                          *)
MadeOf(fragments, c, n) ==
    /\ \A k \in 1 .. Len(fragments) :
          /\ fragments[k].of = c /\ fragments[k].turn = n
          /\ fragments[k].num < sends[c][n].total
    /\ \A k, l \in 1 .. Len(fragments) : k <= l => fragments[l].num - fragments[k].num >= l - k

(* A list of the n-th message of client c: while c is at that message, its   *)
(* list holds nothing that comes after its next fragment.                    *)
Belongs(list, c, n) ==
    /\ list.total = sends[c][n].total /\ MadeOf(list.fragments, c, n)
    /\ n = turn[c] /\ pc[c] # "gone" =>
          \A k \in 1 .. Len(list.fragments) : list.fragments[k].num <= sends[c][n].nums[at[c]]
    /\ n = turn[c] /\ pc[c] = "deliver" => Len(list.fragments) = list.total

Senders ==
    /\ pc \in [Clients -> {"idle", "sweep", "drop", "open", "add", "deliver", "remove", "gone"}]
    /\ sends \in [Clients -> Scripts] /\ turn \in [Clients -> Nat] /\ at \in [Clients -> Nat]
    /\ \A c \in Clients : turn[c] \in 1 .. Len(sends[c])
    /\ \A c \in Clients : at[c] \in 1 .. Len(sends[c][turn[c]].nums)
Apart(lists) ==
    /\ lists \in Seq(Pieces!Lists)
    /\ \A i, j \in 1 .. Len(lists) : lists[i].id = lists[j].id => i = j

(* The list of a good message is its own, and no fragment is in a list of    *)
(* another id.                                                               *)
Owned(list) ==
    \A c \in Clients : \A n \in 1 .. Len(sends[c]) :
        Good(c, n) /\ list.id = sends[c][n].id => n <= turn[c] /\ Belongs(list, c, n)
Filed(list) ==
    \A k \in 1 .. Len(list.fragments) :
        /\ list.fragments[k].turn \in 1 .. Len(sends[list.fragments[k].of])
        /\ sends[list.fragments[k].of][list.fragments[k].turn].id = list.id
Whole(m, c, n) ==
    /\ Len(m) = sends[c][n].total
    /\ \A j \in DOMAIN m : m[j] = [of |-> c, turn |-> n, num |-> j - 1]
OneMessage(m) ==
    \A i \in DOMAIN m : Good(m[i].of, m[i].turn) => Whole(m, m[i].of, m[i].turn)

FragmentsInv ==
    /\ Senders /\ Apart(table)
    /\ \A i \in 1 .. Len(table) : Owned(table[i]) /\ Filed(table[i])
    /\ \A m \in sent : OneMessage(m)

LEMMA ScriptsAre ==
  ASSUME NEW script \in Scripts
  PROVE  /\ Len(script) \in Nat /\ DOMAIN script = 1 .. Len(script) /\ 1 \in 1 .. Len(script)
         /\ \A n \in 1 .. Len(script) :
               /\ script[n].id \in Ids /\ script[n].total \in Nat
               /\ Len(script[n].nums) \in Nat /\ 1 \in 1 .. Len(script[n].nums)
               /\ DOMAIN script[n].nums = 1 .. Len(script[n].nums)
               /\ \A k \in 1 .. Len(script[n].nums) : script[n].nums[k] \in Nat
<1>1. script \in Seq(Pieces!Messages) /\ script # <<>>
  BY ScriptsAssumption
<1>2. Len(script) \in Nat /\ DOMAIN script = 1 .. Len(script) /\ 1 \in 1 .. Len(script)
  BY <1>1, LenProperties, EmptySeq
<1>3. ASSUME NEW n \in 1 .. Len(script)
      PROVE  /\ script[n].id \in Ids /\ script[n].total \in Nat
             /\ script[n].nums \in Seq(Nat) /\ script[n].nums # <<>>
  <2>1. script[n] \in Pieces!Messages
    BY <1>1, LenProperties
  <2>2. script[n].nums # <<>>
    BY <1>2, ScriptsAssumption
  <2> QED
    BY <2>1, <2>2 DEF Pieces!Messages
<1>4. ASSUME NEW nums \in Seq(Nat), nums # <<>>
      PROVE  /\ Len(nums) \in Nat /\ 1 \in 1 .. Len(nums) /\ DOMAIN nums = 1 .. Len(nums)
             /\ \A k \in 1 .. Len(nums) : nums[k] \in Nat
  BY <1>4, LenProperties, EmptySeq
<1> QED
  BY <1>2, <1>3, <1>4

(* The message and the fragment a client is at.                              *)
LEMMA NowIs ==
  ASSUME Senders, NEW c \in Clients
  PROVE  /\ sends[c] \in Scripts /\ Len(sends[c]) \in Nat /\ DOMAIN sends[c] = 1 .. Len(sends[c])
         /\ turn[c] \in 1 .. Len(sends[c]) /\ turn[c] \in Nat
         /\ sends[c][turn[c]].id \in Ids /\ sends[c][turn[c]].total \in Nat
         /\ at[c] \in 1 .. Len(sends[c][turn[c]].nums) /\ at[c] \in Nat
         /\ sends[c][turn[c]].nums[at[c]] \in Nat
BY ScriptsAre DEF Senders

(* Whatever has the id of a client's present message is about that message,  *)
(* if it is about a good one.                                                *)
LEMMA OnlyOne ==
  ASSUME Senders, NEW c \in Clients, NEW d \in Clients, NEW n \in 1 .. Len(sends[d]),
         Good(d, n), sends[d][n].id = Pieces!Id(c)
  PROVE  d = c /\ n = turn[c]
<1>1. turn[c] \in DOMAIN sends[c] /\ sends[c][turn[c]].id = sends[d][n].id
  BY NowIs DEF Pieces!Id, Pieces!Now
<1> QED
  BY <1>1 DEF Good, Pieces!Lone

LEMMA FragmentsStart == ASSUME Pieces!Init PROVE FragmentsInv
<1>1. Senders
  BY ScriptsAre DEF Pieces!Init, Senders
<1> QED
  BY <1>1, EmptySeq DEF Pieces!Init, FragmentsInv, Apart

(* Where a list is.                                                          *)
LEMMA PlaceOf ==
  ASSUME table \in Seq(Pieces!Lists), NEW id, Pieces!Listed(id)
  PROVE  Pieces!Place(id) \in 1 .. Len(table) /\ table[Pieces!Place(id)].id = id
<1>1. DOMAIN table = 1 .. Len(table)
  BY LenProperties
<1> QED
  BY <1>1 DEF Pieces!Listed, Pieces!Place

LEMMA FragmentTypes ==
  ASSUME NEW list \in Pieces!Lists
  PROVE  /\ list.fragments \in Seq(Pieces!Pieces) /\ Len(list.fragments) \in Nat
         /\ DOMAIN list.fragments = 1 .. Len(list.fragments)
         /\ \A k \in 1 .. Len(list.fragments) :
               /\ list.fragments[k] \in Pieces!Pieces /\ list.fragments[k].num \in Nat
               /\ list.fragments[k].of \in Clients
<1>1. list.fragments \in Seq(Pieces!Pieces)
  BY DEF Pieces!Lists
<1>2. \A k \in 1 .. Len(list.fragments) : list.fragments[k] \in Pieces!Pieces
  BY <1>1, LenProperties
<1>3. \A piece \in Pieces!Pieces : piece.num \in Nat /\ piece.of \in Clients
  BY DEF Pieces!Pieces
<1> QED
  BY <1>1, <1>2, <1>3, LenProperties

(* What a client's step does to other lists: nothing.                        *)
Stays ==
    \A list \in Pieces!Lists : \A d \in Clients : \A n \in 1 .. Len(sends[d]) :
        Good(d, n) /\ n <= turn[d] /\ Belongs(list, d, n)
            => n <= turn'[d] /\ Belongs(list, d, n)'

LEMMA GotoStays ==
  ASSUME Senders, NEW c \in Clients,
         NEW step \in {"idle", "sweep", "drop", "open", "add", "remove", "gone"},
         pc' = [pc EXCEPT ![c] = step], UNCHANGED <<sends, turn, at>>, pc[c] # "gone"
  PROVE  Senders' /\ Stays
<1>1. Senders'
  BY DEF Senders
<1>2. ASSUME NEW list \in Pieces!Lists, NEW d \in Clients, NEW n \in 1 .. Len(sends[d]),
             n <= turn[d], Belongs(list, d, n)
      PROVE  n <= turn'[d] /\ Belongs(list, d, n)'
  <2>1. CASE d # c
    BY <1>2, <2>1 DEF Senders, Belongs, MadeOf
  <2>2. CASE d = c
    BY <1>2, <2>2 DEF Senders, Belongs, MadeOf
  <2> QED
    BY <2>1, <2>2
<1> QED
  BY <1>1, <1>2 DEF Stays

(* Done with a fragment, a client goes on to a later one, or goes.           *)
LEMMA HandledMoves ==
  ASSUME Senders, NEW c \in Clients, Pieces!Handled(c)
  PROVE  \E step \in {"idle", "gone"}, t \in 1 .. Len(sends[c]), k \in Nat :
            /\ pc' = [pc EXCEPT ![c] = step] /\ turn' = [turn EXCEPT ![c] = t] /\ at' = [at EXCEPT ![c] = k]
            /\ k \in 1 .. Len(sends[c][t].nums) /\ turn[c] <= t
            /\ t = turn[c] => k > at[c] \/ step = "gone"
<1>1. /\ Len(sends[c]) \in Nat /\ turn[c] \in 1 .. Len(sends[c])
      /\ at[c] \in 1 .. Len(sends[c][turn[c]].nums)
      /\ \A n \in 1 .. Len(sends[c]) : Len(sends[c][n].nums) \in Nat /\ 1 \in 1 .. Len(sends[c][n].nums)
  BY ScriptsAre DEF Senders
<1>2. CASE at[c] < Len(sends[c][turn[c]].nums)
  <2>1. /\ pc' = [pc EXCEPT ![c] = "idle"] /\ turn' = [turn EXCEPT ![c] = turn[c]]
        /\ at' = [at EXCEPT ![c] = at[c] + 1]
    BY <1>2 DEF Pieces!Handled, Pieces!Now, Pieces!Goto, Senders
  <2>2. PICK last \in Nat : last = Len(sends[c][turn[c]].nums)
    BY <1>1
  <2>3. at[c] + 1 \in Nat /\ at[c] + 1 \in 1 .. last /\ at[c] + 1 > at[c]
    <3>1. PICK k : k = at[c]
      OBVIOUS
    <3>2. k \in 1 .. last /\ k < last
      BY <1>1, <1>2, <2>2, <3>1
    <3>3. k + 1 \in Nat /\ k + 1 \in 1 .. last /\ k + 1 > k
      BY <3>2
    <3> QED
      BY <3>1, <3>3
  <2>4. turn[c] <= turn[c]
    BY <1>1
  <2>5. turn[c] \in 1 .. Len(sends[c])
    BY <1>1
  <2>6. at[c] + 1 \in Nat
    BY <2>3
  <2> WITNESS "idle" \in {"idle", "gone"}, turn[c] \in 1 .. Len(sends[c]), at[c] + 1 \in Nat
  <2> QED
    BY <2>1, <2>2, <2>3, <2>4
<1>3. CASE ~(at[c] < Len(sends[c][turn[c]].nums)) /\ turn[c] < Len(sends[c])
  <2>1. /\ pc' = [pc EXCEPT ![c] = "idle"] /\ turn' = [turn EXCEPT ![c] = turn[c] + 1]
        /\ at' = [at EXCEPT ![c] = 1]
    BY <1>3 DEF Pieces!Handled, Pieces!Now, Pieces!Goto, Senders
  <2>2. turn[c] + 1 \in 1 .. Len(sends[c])
    BY <1>1, <1>3
  <2>3. turn[c] <= turn[c] + 1 /\ turn[c] + 1 # turn[c]
    BY <1>1
  <2> WITNESS "idle" \in {"idle", "gone"}, turn[c] + 1 \in 1 .. Len(sends[c]), 1 \in Nat
  <2> QED
    BY <1>1, <2>1, <2>2, <2>3
<1>4. CASE ~(at[c] < Len(sends[c][turn[c]].nums)) /\ ~(turn[c] < Len(sends[c]))
  <2>1. /\ pc' = [pc EXCEPT ![c] = "gone"] /\ turn' = [turn EXCEPT ![c] = turn[c]]
        /\ at' = [at EXCEPT ![c] = 1]
    BY <1>4 DEF Pieces!Handled, Pieces!Now, Pieces!Goto, Senders
  <2>2. turn[c] \in 1 .. Len(sends[c])
    BY <1>1
  <2>3. turn[c] <= turn[c]
    BY <1>1
  <2> WITNESS "gone" \in {"idle", "gone"}, turn[c] \in 1 .. Len(sends[c]), 1 \in Nat
  <2> QED
    BY <1>1, <2>1, <2>2, <2>3
<1> QED
  BY <1>2, <1>3, <1>4

LEMMA HandledStays ==
  ASSUME Senders, NEW c \in Clients, Pieces!Handled(c), pc[c] # "gone", UNCHANGED sends
  PROVE  Senders' /\ Stays
<1>1. /\ Len(sends[c]) \in Nat /\ turn[c] \in 1 .. Len(sends[c]) /\ at[c] \in Nat
      /\ at[c] \in 1 .. Len(sends[c][turn[c]].nums)
  BY NowIs
<1>2. PICK step \in {"idle", "gone"}, t \in 1 .. Len(sends[c]), k \in Nat :
         /\ pc' = [pc EXCEPT ![c] = step] /\ turn' = [turn EXCEPT ![c] = t] /\ at' = [at EXCEPT ![c] = k]
         /\ k \in 1 .. Len(sends[c][t].nums) /\ turn[c] <= t
         /\ t = turn[c] => k > at[c] \/ step = "gone"
  BY HandledMoves
<1>3. Senders'
  BY <1>1, <1>2 DEF Senders
<1>4. ASSUME NEW list \in Pieces!Lists, NEW d \in Clients, NEW n \in 1 .. Len(sends[d]),
             Good(d, n), n <= turn[d], Belongs(list, d, n)
      PROVE  n <= turn'[d] /\ Belongs(list, d, n)'
  <2>1. CASE d # c
    BY <1>2, <1>4, <2>1 DEF Senders, Belongs, MadeOf
  <2>2. CASE d = c
    <3>1. /\ pc'[c] = step /\ turn'[c] = t /\ at'[c] = k /\ n <= turn'[c]
      BY <1>1, <1>2, <1>4, <2>2 DEF Senders
    <3>2. CASE n = t /\ step # "gone"
      <4>1. n = turn[c] /\ k > at[c]
        BY <1>1, <1>2, <1>4, <2>2, <3>1, <3>2
      <4>2. /\ sends[c][n].nums[at[c]] <= sends[c][n].nums[k]
            /\ sends[c][n].nums[at[c]] \in Nat /\ sends[c][n].nums[k] \in Nat
        <5>1. /\ DOMAIN sends[c][n].nums = 1 .. Len(sends[c][n].nums)
              /\ \A j \in 1 .. Len(sends[c][n].nums) : sends[c][n].nums[j] \in Nat
          BY <1>3, <1>4, <2>2, ScriptsAre DEF Senders
        <5>2. at[c] \in DOMAIN sends[c][n].nums /\ k \in DOMAIN sends[c][n].nums /\ at[c] <= k
          BY <1>1, <1>2, <3>2, <4>1, <5>1
        <5> QED
          BY <1>4, <2>2, <5>1, <5>2 DEF Good, Pieces!Ascending
      <4>3. ASSUME NEW j \in 1 .. Len(list.fragments)
            PROVE  list.fragments[j].num <= sends[c][n].nums[k]
        <5>1. list.fragments[j].num \in Nat
          BY FragmentTypes
        <5>2. list.fragments[j].num <= sends[c][n].nums[at[c]]
          BY <1>4, <2>2, <4>1 DEF Belongs
        <5>3. \A x, y, z \in Nat : x <= y /\ y <= z => x <= z
          OBVIOUS
        <5> QED
          BY ZenonT(30), <4>2, <5>1, <5>2, <5>3
      <4> QED
        BY <1>4, <2>2, <3>1, <3>2, <4>3 DEF Belongs, MadeOf
    <3>3. CASE n # t \/ step = "gone"
      BY <1>4, <2>2, <3>1, <3>3 DEF Belongs, MadeOf
    <3> QED
      BY <3>2, <3>3
  <2> QED
    BY <2>1, <2>2
<1> QED
  BY <1>3, <1>4 DEF Stays

LEMMA StaysOwned ==
  ASSUME NEW list \in Pieces!Lists, Stays, Owned(list), UNCHANGED sends
  PROVE  Owned(list)'
<1>1. \A c, n : Good(c, n)' <=> Good(c, n)
  BY DEF Good, Pieces!Lone, Pieces!Ascending
<1>2. ASSUME NEW c \in Clients, NEW n \in 1 .. Len(sends[c]), Good(c, n), list.id = sends[c][n].id
      PROVE  n <= turn'[c] /\ Belongs(list, c, n)'
  BY <1>2 DEF Owned, Stays
<1> QED
  BY <1>1, <1>2 DEF Owned

LEMMA OneStays == ASSUME UNCHANGED sends, NEW m, OneMessage(m) PROVE OneMessage(m)'
BY DEF OneMessage, Whole, Good, Pieces!Lone, Pieces!Ascending

LEMMA SameList ==
  ASSUME NEW i, NEW list, table'[i] = list
  PROVE  /\ Owned(list)' => Owned(table[i])'
         /\ Filed(list)' => Filed(table[i])'
<1>1. Owned(list)' => Owned(table[i])'
  BY DEF Owned, Belongs
<1>2. Filed(list)' => Filed(table[i])'
  BY DEF Filed
<1> QED
  BY <1>1, <1>2

(* A step keeps the invariant if it leaves lists as they are, or makes them  *)
(* lists of a message.                                                       *)
LEMMA FragmentsKeep ==
  ASSUME FragmentsInv, Senders', Stays, Apart(table)', UNCHANGED <<sends, sent>>,
         \A i \in 1 .. Len(table') :
            \/ Owned(table[i])' /\ Filed(table[i])'
            \/ \E j \in 1 .. Len(table) : table'[i] = table[j]
  PROVE  FragmentsInv'
<1>1. ASSUME NEW i \in 1 .. Len(table'), NEW j \in 1 .. Len(table), table'[i] = table[j]
      PROVE  Owned(table[i])' /\ Filed(table[i])'
  <2>1. PICK list \in Pieces!Lists : list = table[j]
    BY LenProperties DEF FragmentsInv, Apart
  <2>2. Owned(list) /\ Filed(list)
    BY <2>1 DEF FragmentsInv
  <2>3. Owned(list)'
    BY <2>2, StaysOwned
  <2>4. Filed(list)'
    BY <2>2 DEF Filed
  <2> QED
    BY <1>1, <2>1, <2>3, <2>4 DEF Owned, Filed, Belongs
<1>2. \A m \in sent' : OneMessage(m)'
  BY OneStays DEF FragmentsInv
<1> QED
  BY <1>1, <1>2 DEF FragmentsInv

LEMMA TableKeeps ==
  ASSUME FragmentsInv, Senders', Stays, UNCHANGED <<sends, table, sent>>
  PROVE  FragmentsInv'
<1>1. Apart(table)'
  BY DEF FragmentsInv, Apart
<1> QED
  BY <1>1, FragmentsKeep

LEMMA Removed ==
  ASSUME Apart(table), NEW id, NEW lists, lists = Pieces!Without(id)
  PROVE  Apart(lists) /\ \A i \in 1 .. Len(lists) : \E j \in 1 .. Len(table) : lists[i] = table[j]
<1>1. table \in Seq(Pieces!Lists) /\ Len(table) \in Nat /\ \A i \in 1 .. Len(table) : table[i] \in Pieces!Lists
  BY LenProperties DEF Apart
<1>2. CASE ~Pieces!Listed(id)
  <2>1. lists = table
    BY <1>2 DEF Pieces!Without
  <2> QED
    BY <2>1
<1>3. CASE Pieces!Listed(id)
  <2>1. PICK p \in 1 .. Len(table) : p = Pieces!Place(id)
    BY <1>1, <1>3, PlaceOf
  <2>2. PICK m \in Nat, n \in Nat \ {0} : m = p - 1 /\ n = p + 1
    BY <1>1, <2>1
  <2>3. PICK before : before = SubSeq(table, 1, m)
    OBVIOUS
  <2>4. PICK after : after = SubSeq(table, n, Len(table))
    OBVIOUS
  <2>5. lists = before \o after
    BY <1>3, <2>1, <2>2, <2>3, <2>4 DEF Pieces!Without, Pieces!RemoveAt
  <2>6. \A i \in 1 .. m : i \in 1 .. Len(table)
    BY <1>1, <2>1, <2>2
  <2>7. \A i \in n .. Len(table) : i \in 1 .. Len(table)
    BY <1>1, <2>1, <2>2
  <2>8. /\ before \in Seq(Pieces!Lists) /\ Len(before) = m
        /\ \A i \in 1 .. m : before[i] = table[i]
    <3>1. /\ before \in Seq(Pieces!Lists) /\ Len(before) = IF 1 <= m THEN m - 1 + 1 ELSE 0
          /\ \A i \in 1 .. m - 1 + 1 : before[i] = table[1 + i - 1]
      BY <1>1, <2>3, <2>6, SubSeqProperties
    <3> QED
      BY <2>2, <3>1
  <2>9. /\ after \in Seq(Pieces!Lists) /\ Len(after) = Len(table) - p
        /\ \A i \in 1 .. Len(table) - p : after[i] = table[p + i]
    <3>1. /\ after \in Seq(Pieces!Lists) /\ Len(after) = IF n <= Len(table) THEN Len(table) - n + 1 ELSE 0
          /\ \A i \in 1 .. Len(table) - n + 1 : after[i] = table[n + i - 1]
      BY <1>1, <2>4, <2>7, SubSeqProperties
    <3> QED
      BY SMTT(30), <1>1, <2>1, <2>2, <3>1
  <2>10. /\ lists \in Seq(Pieces!Lists) /\ Len(lists) = Len(table) - 1
         /\ \A i \in 1 .. Len(lists) : lists[i] = IF i < p THEN table[i] ELSE table[i + 1]
    <3>1. /\ lists \in Seq(Pieces!Lists) /\ Len(lists) = m + (Len(table) - p)
          /\ \A i \in 1 .. Len(lists) : lists[i] = IF i <= m THEN before[i] ELSE after[i - m]
      BY <2>5, <2>8, <2>9, ConcatProperties
    <3>2. ASSUME NEW i \in 1 .. Len(lists)
          PROVE  lists[i] = IF i < p THEN table[i] ELSE table[i + 1]
      <4>1. CASE i < p
        BY SMTT(30), <1>1, <2>1, <2>2, <2>8, <3>1, <4>1
      <4>2. CASE ~(i < p)
        <5>1. lists[i] = IF i <= m THEN before[i] ELSE after[i - m]
          BY <3>1
        <5>2. i \in Nat /\ i <= m + (Len(table) - p) /\ p \in Nat
          BY SMTT(30), <1>1, <2>1, <2>2, <3>1
        <5>3. i - m \in 1 .. Len(table) - p /\ p + (i - m) = i + 1 /\ ~(i <= m)
          BY <1>1, <2>2, <4>2, <5>2
        <5>4. after[i - m] = table[i + 1]
          BY <2>9, <5>3
        <5> QED
          BY <4>2, <5>1, <5>3, <5>4
      <4> QED
        BY <4>1, <4>2
    <3> QED
      BY SMTT(30), <1>1, <2>1, <2>2, <3>1, <3>2
  <2>11. \A i \in 1 .. Len(lists) : (i < p => i \in 1 .. Len(table)) /\ i + 1 \in 1 .. Len(table)
    BY <1>1, <2>1, <2>10
  <2>12. ASSUME NEW i \in 1 .. Len(lists), NEW j \in 1 .. Len(lists), lists[i].id = lists[j].id
         PROVE  i = j
    <3>1. CASE i < p /\ j < p
      BY <2>10, <2>11, <2>12, <3>1 DEF Apart
    <3>2. CASE i < p /\ ~(j < p)
      BY <2>1, <2>10, <2>11, <2>12, <3>2 DEF Apart
    <3>3. CASE ~(i < p) /\ j < p
      BY <2>1, <2>10, <2>11, <2>12, <3>3 DEF Apart
    <3>4. CASE ~(i < p) /\ ~(j < p)
      <4>1. i + 1 = j + 1
        BY <2>1, <2>10, <2>11, <2>12, <3>4 DEF Apart
      <4> QED
        BY <1>1, <2>10, <4>1
    <3> QED
      BY <3>1, <3>2, <3>3, <3>4
  <2> QED
    BY <2>10, <2>11, <2>12 DEF Apart
<1> QED
  BY <1>2, <1>3

LEMMA RemovedKeeps ==
  ASSUME FragmentsInv, Senders', Stays, NEW id, table' = Pieces!Without(id), UNCHANGED <<sends, sent>>
  PROVE  FragmentsInv'
<1>1. PICK lists : lists = Pieces!Without(id)
  OBVIOUS
<1>2. Apart(lists) /\ \A i \in 1 .. Len(lists) : \E j \in 1 .. Len(table) : lists[i] = table[j]
  BY <1>1, Removed DEF FragmentsInv
<1>3. Apart(table)'
  BY <1>1, <1>2 DEF Apart
<1> QED
  BY <1>1, <1>2, <1>3, FragmentsKeep

(* A list is replaced by one of the same id.                                 *)
LEMMA ReplacedKeeps ==
  ASSUME FragmentsInv, Senders', Stays, NEW p \in 1 .. Len(table), NEW list \in Pieces!Lists,
         list.id = table[p].id, Owned(list)', Filed(list)', table' = [table EXCEPT ![p] = list],
         UNCHANGED <<sends, sent>>
  PROVE  FragmentsInv'
<1>1. table \in Seq(Pieces!Lists) /\ Len(table) \in Nat
  BY LenProperties DEF FragmentsInv, Apart
<1>2. /\ table' \in Seq(Pieces!Lists) /\ Len(table') = Len(table)
      /\ \A i \in 1 .. Len(table) : table'[i] = IF i = p THEN list ELSE table[i]
  BY <1>1, ExceptSeq
<1>3. \A i \in 1 .. Len(table) : table'[i].id = table[i].id
  BY <1>2
<1>4. Apart(table)'
  BY <1>2, <1>3 DEF FragmentsInv, Apart
<1>5. \A i \in 1 .. Len(table') :
         \/ Owned(table[i])' /\ Filed(table[i])'
         \/ \E j \in 1 .. Len(table) : table'[i] = table[j]
  BY <1>2 DEF Owned, Belongs, Filed
<1> QED
  BY <1>4, <1>5, FragmentsKeep

(* A list with the id of a client's present message is its owner's if it     *)
(* belongs to that message, should the message be good.                      *)
LEMMA NewOwned ==
  ASSUME Senders, NEW c \in Clients, NEW list, list.id = Pieces!Id(c), UNCHANGED sends,
         NEW now, now = turn[c], now <= turn'[c], Good(c, now) => Belongs(list, c, now)'
  PROVE  Owned(list)'
<1>1. \A d, n : Good(d, n)' <=> Good(d, n)
  BY DEF Good, Pieces!Lone, Pieces!Ascending
<1>2. ASSUME NEW d \in Clients, NEW n \in 1 .. Len(sends[d]), Good(d, n), list.id = sends[d][n].id
      PROVE  n <= turn'[d] /\ Belongs(list, d, n)'
  <2>1. d = c /\ n = now
    BY <1>2, OnlyOne
  <2> QED
    BY <1>2, <2>1
<1> QED
  BY <1>1, <1>2 DEF Owned

LEMMA OpenKeeps ==
  ASSUME FragmentsInv, NEW c \in Clients, Pieces!Open(c), UNCHANGED sends
  PROVE  FragmentsInv'
<1>1. /\ pc[c] = "open" /\ pc' = [pc EXCEPT ![c] = "add"] /\ UNCHANGED <<turn, at, sent>>
  BY DEF Pieces!Open, Pieces!Goto, Pieces!clientVars
<1>2. Senders' /\ Stays
  BY <1>1, GotoStays DEF FragmentsInv
<1>3. CASE Pieces!Listed(Pieces!Id(c))
  <2>1. UNCHANGED table
    BY <1>3 DEF Pieces!Open
  <2> QED
    BY <1>1, <1>2, <2>1, TableKeeps
<1>4. CASE ~Pieces!Listed(Pieces!Id(c))
  <2>1. PICK list : list = [id |-> Pieces!Id(c), total |-> sends[c][turn[c]].total, fragments |-> <<>>,
                            stale |-> FALSE, reconstructing |-> FALSE]
    OBVIOUS
  <2>2. table' = Append(table, list)
    BY <1>4, <2>1 DEF Pieces!Open, Pieces!Now
  <2>3. list \in Pieces!Lists
    BY <2>1, NowIs, EmptySeq DEF FragmentsInv, Pieces!Lists, Pieces!Id, Pieces!Now
  <2>4. list.id = Pieces!Id(c) /\ list.total = sends[c][turn[c]].total /\ Len(list.fragments) = 0
    BY <2>1
  <2>5. PICK now \in Nat : now = turn[c] /\ now <= turn'[c]
    BY <1>1, NowIs DEF FragmentsInv
  <2>6. Owned(list)'
    <3>1. pc'[c] = "add"
      BY <1>1 DEF FragmentsInv, Senders
    <3>2. Belongs(list, c, now)'
      BY <1>1, <2>4, <2>5, <3>1 DEF Belongs, MadeOf
    <3> QED
      BY <2>4, <2>5, <3>2, NewOwned DEF FragmentsInv
  <2>7. Filed(list)'
    BY <2>4 DEF Filed
  <2>8. /\ table' \in Seq(Pieces!Lists) /\ Len(table') = Len(table) + 1 /\ Len(table) \in Nat
        /\ \A i \in 1 .. Len(table') : \/ i \in 1 .. Len(table) /\ table'[i] = table[i]
                                       \/ i = Len(table) + 1 /\ table'[i] = list
    BY <2>2, <2>3, AppendProperties, LenProperties DEF FragmentsInv, Apart
  <2>9. \A i \in 1 .. Len(table) : table[i].id # list.id
    BY <1>4, <2>1, LenProperties DEF Pieces!Listed, FragmentsInv, Apart
  <2>10. Apart(table)'
    <3>1. ASSUME NEW i \in 1 .. Len(table'), NEW j \in 1 .. Len(table'), table'[i].id = table'[j].id
          PROVE  i = j
      BY <2>8, <2>9, <3>1 DEF FragmentsInv, Apart
    <3> QED
      BY <2>8, <3>1 DEF Apart
  <2>11. \A i \in 1 .. Len(table') :
            \/ Owned(table[i])' /\ Filed(table[i])'
            \/ \E j \in 1 .. Len(table) : table'[i] = table[j]
    BY <2>6, <2>7, <2>8, SameList
  <2> QED
    BY <1>1, <1>2, <2>10, <2>11, FragmentsKeep
<1> QED
  BY <1>3, <1>4

(* What becomes of a list to which a fragment is added.                      *)
LEMMA AddedIs ==
  ASSUME Senders, NEW c \in Clients, NEW l \in Pieces!Lists, NEW added, added = Pieces!Added(l, c)
  PROVE  /\ added \in Pieces!Lists /\ added.id = l.id /\ added.total = l.total
         /\ Len(added.fragments) = Len(l.fragments) + 1
         /\ \A k \in 1 .. Len(added.fragments) :
               \/ k \in 1 .. Len(l.fragments) /\ added.fragments[k] = l.fragments[k]
               \/ /\ k = Len(l.fragments) + 1
                  /\ added.fragments[k]
                        = [of |-> c, turn |-> turn[c], num |-> sends[c][turn[c]].nums[at[c]]]
         /\ added.reconstructing => Len(added.fragments) = added.total
<1>1. PICK piece : piece = [of |-> c, turn |-> turn[c], num |-> sends[c][turn[c]].nums[at[c]]]
  OBVIOUS
<1>2. PICK longer : longer = Append(l.fragments, piece)
  OBVIOUS
<1>3. PICK grown : grown = [l EXCEPT !.fragments = longer, !.stale = FALSE]
  OBVIOUS
<1>4. added = [grown EXCEPT !.reconstructing = Pieces!Complete(grown)]
  BY <1>1, <1>2, <1>3 DEF Pieces!Added, Pieces!Num, Pieces!Now
<1>5. piece \in Pieces!Pieces
  BY <1>1, NowIs DEF Pieces!Pieces
<1>6. l.fragments \in Seq(Pieces!Pieces) /\ Len(l.fragments) \in Nat
  BY FragmentTypes
<1>7. /\ longer \in Seq(Pieces!Pieces) /\ Len(longer) = Len(l.fragments) + 1
      /\ \A k \in 1 .. Len(longer) : \/ k \in 1 .. Len(l.fragments) /\ longer[k] = l.fragments[k]
                                     \/ k = Len(l.fragments) + 1 /\ longer[k] = piece
  BY <1>2, <1>5, <1>6, AppendProperties
<1>8. /\ grown \in Pieces!Lists /\ grown.id = l.id /\ grown.total = l.total /\ grown.fragments = longer
  BY <1>3, <1>7 DEF Pieces!Lists
<1>9. Pieces!Complete(grown) \in BOOLEAN /\ (Pieces!Complete(grown) => Len(longer) = grown.total)
  BY <1>8 DEF Pieces!Complete
<1>10. /\ added \in Pieces!Lists /\ added.id = l.id /\ added.total = l.total /\ added.fragments = longer
       /\ added.reconstructing = Pieces!Complete(grown)
  BY <1>4, <1>8, <1>9 DEF Pieces!Lists
<1> QED
  BY <1>1, <1>7, <1>8, <1>9, <1>10

(* The fragment added to the list of a good message comes after the others.  *)
LEMMA AddedBelongs ==
  ASSUME Senders, NEW c \in Clients, pc[c] = "add", NEW l \in Pieces!Lists, Good(c, turn[c]),
         Pieces!Fits(l, c), Belongs(l, c, turn[c]), NEW added, added = Pieces!Added(l, c)
  PROVE  /\ MadeOf(added.fragments, c, turn[c])
         /\ \A k \in 1 .. Len(added.fragments) :
               added.fragments[k].num <= sends[c][turn[c]].nums[at[c]]
<1>1. PICK number : number = sends[c][turn[c]].nums[at[c]]
  OBVIOUS
<1>2. PICK longer : longer = added.fragments
  OBVIOUS
<1>3. /\ Len(longer) = Len(l.fragments) + 1
      /\ \A k \in 1 .. Len(longer) :
            \/ k \in 1 .. Len(l.fragments) /\ longer[k] = l.fragments[k]
            \/ /\ k = Len(l.fragments) + 1 /\ longer[k].of = c /\ longer[k].turn = turn[c]
               /\ longer[k].num = number
  <2>1. PICK piece : piece = [of |-> c, turn |-> turn[c], num |-> sends[c][turn[c]].nums[at[c]]]
    OBVIOUS
  <2>2. piece.of = c /\ piece.turn = turn[c] /\ piece.num = number
    BY <1>1, <2>1
  <2>3. /\ Len(longer) = Len(l.fragments) + 1
        /\ \A k \in 1 .. Len(longer) :
              \/ k \in 1 .. Len(l.fragments) /\ longer[k] = l.fragments[k]
              \/ k = Len(l.fragments) + 1 /\ longer[k] = piece
    BY <1>2, <2>1, AddedIs
  <2> QED
    BY <2>2, <2>3
<1>4. /\ Len(l.fragments) \in Nat /\ DOMAIN l.fragments = 1 .. Len(l.fragments)
      /\ \A k \in 1 .. Len(l.fragments) : l.fragments[k].num \in Nat
  BY FragmentTypes
<1>5. number \in Nat /\ number < sends[c][turn[c]].total /\ sends[c][turn[c]].total \in Nat
  <2>1. at[c] \in DOMAIN sends[c][turn[c]].nums
    BY NowIs, ScriptsAre
  <2> QED
    BY <1>1, <2>1, NowIs DEF Good, Pieces!Ascending
<1>6. \A k \in 1 .. Len(l.fragments) : l.fragments[k].num < number
  <2>1. ASSUME NEW k \in 1 .. Len(l.fragments) PROVE l.fragments[k].num < number
    <3>1. l.fragments[k].num # number
      BY <1>1, <1>4 DEF Pieces!Fits, Pieces!Num, Pieces!Now
    <3>2. l.fragments[k].num <= number
      BY <1>1 DEF Belongs
    <3> QED
      BY <1>4, <1>5, <3>1, <3>2
  <2> QED
    BY <2>1
<1>7. MadeOf(longer, c, turn[c])
  <2>1. \A k \in 1 .. Len(longer) :
           longer[k].of = c /\ longer[k].turn = turn[c] /\ longer[k].num < sends[c][turn[c]].total
    BY <1>3, <1>5 DEF Belongs, MadeOf
  <2>2. ASSUME NEW k \in 1 .. Len(longer), NEW j \in 1 .. Len(longer), k <= j
        PROVE  longer[j].num - longer[k].num >= j - k
    <3>1. CASE j \in 1 .. Len(l.fragments)
      <4>1. k \in 1 .. Len(l.fragments) /\ longer[k] = l.fragments[k] /\ longer[j] = l.fragments[j]
        BY <1>3, <1>4, <2>2, <3>1
      <4> QED
        BY <2>2, <3>1, <4>1 DEF Belongs, MadeOf
    <3>2. CASE j \notin 1 .. Len(l.fragments) /\ k \notin 1 .. Len(l.fragments)
      <4>1. j = k /\ longer[k].num \in Nat /\ k \in Nat
        BY <1>3, <1>4, <1>5, <3>2
      <4> QED
        BY <4>1
    <3>3. CASE j \notin 1 .. Len(l.fragments) /\ k \in 1 .. Len(l.fragments)
      <4>1. PICK last \in 1 .. Len(l.fragments) : last = Len(l.fragments)
        BY <1>4, <3>3
      <4>2. l.fragments[last].num - l.fragments[k].num >= last - k
        <5>1. k <= last /\ MadeOf(l.fragments, c, turn[c])
          BY <1>4, <3>3, <4>1 DEF Belongs
        <5> QED
          BY <3>3, <5>1 DEF MadeOf
      <4>3. l.fragments[last].num < number /\ l.fragments[last].num \in Nat /\ l.fragments[k].num \in Nat
        BY <1>4, <1>6, <3>3
      <4>4. longer[j].num = number /\ longer[k].num = l.fragments[k].num /\ j = last + 1
        BY <1>3, <1>4, <3>3, <4>1
      <4>5. k \in Nat /\ last \in Nat
        BY <3>3, <4>1
      <4>6. \A n, a, b, p, q \in Nat : a - b >= p - q /\ a < n => n - b >= (p + 1) - q
        OBVIOUS
      <4> QED
        BY ZenonT(30), <1>5, <4>2, <4>3, <4>4, <4>5, <4>6
    <3> QED
      BY <3>1, <3>2, <3>3
  <2> QED
    BY <2>1, <2>2 DEF MadeOf
<1>8. \A k \in 1 .. Len(longer) : longer[k].num <= number
  <2>1. ASSUME NEW k \in 1 .. Len(longer) PROVE longer[k].num <= number
    <3>1. CASE k \in 1 .. Len(l.fragments) /\ longer[k] = l.fragments[k]
      BY <1>4, <1>5, <1>6, <3>1
    <3>2. CASE longer[k].num = number
      BY <1>5, <3>2
    <3> QED
      BY <1>3, <3>1, <3>2
  <2> QED
    BY <2>1
<1> QED
  BY <1>1, <1>2, <1>7, <1>8

LEMMA AddKeeps ==
  ASSUME FragmentsInv, NEW c \in Clients, Pieces!Add(c), UNCHANGED sends
  PROVE  FragmentsInv'
<1>1. /\ table \in Seq(Pieces!Lists) /\ Len(table) \in Nat
      /\ \A i \in 1 .. Len(table) : table[i] \in Pieces!Lists
  BY LenProperties DEF FragmentsInv, Apart
<1>2. PICK p \in 1 .. Len(table) : p = Pieces!Place(Pieces!Id(c)) /\ table[p].id = Pieces!Id(c)
  BY <1>1, PlaceOf DEF Pieces!Add
<1>3. PICK added : added = Pieces!Added(table[p], c)
  OBVIOUS
<1>4. /\ pc[c] = "add" /\ table' = [table EXCEPT ![p] = added] /\ UNCHANGED sent
      /\ Pieces!Fits(table[p], c)
      /\ IF table'[p].reconstructing THEN Pieces!Goto(c, "deliver") /\ UNCHANGED <<turn, at>>
                                     ELSE Pieces!Handled(c)
  BY <1>2, <1>3 DEF Pieces!Add, Pieces!clientVars
<1>5. Senders /\ turn[c] \in 1 .. Len(sends[c]) /\ turn[c] \in Nat /\ at[c] \in Nat
  BY NowIs DEF FragmentsInv
<1>6. Good(c, turn[c]) => Belongs(table[p], c, turn[c])
  BY <1>2, <1>5 DEF FragmentsInv, Owned, Pieces!Id, Pieces!Now
<1>7. /\ added \in Pieces!Lists /\ added.id = table[p].id /\ added.total = table[p].total
      /\ added.reconstructing => Len(added.fragments) = added.total
      /\ \A k \in 1 .. Len(added.fragments) :
            \/ k \in 1 .. Len(table[p].fragments) /\ added.fragments[k] = table[p].fragments[k]
            \/ added.fragments[k].of = c /\ added.fragments[k].turn = turn[c]
  <2>1. PICK l \in Pieces!Lists : l = table[p]
    BY <1>1
  <2>2. PICK piece : piece = [of |-> c, turn |-> turn[c], num |-> sends[c][turn[c]].nums[at[c]]]
    OBVIOUS
  <2>3. piece.of = c /\ piece.turn = turn[c]
    BY <2>2
  <2>4. /\ added \in Pieces!Lists /\ added.id = l.id /\ added.total = l.total
        /\ added.reconstructing => Len(added.fragments) = added.total
        /\ \A k \in 1 .. Len(added.fragments) :
              \/ k \in 1 .. Len(l.fragments) /\ added.fragments[k] = l.fragments[k]
              \/ added.fragments[k] = piece
    BY <1>3, <1>5, <2>1, <2>2, AddedIs
  <2> QED
    BY <2>1, <2>3, <2>4
<1>8. Good(c, turn[c]) =>
         /\ added.total = sends[c][turn[c]].total /\ MadeOf(added.fragments, c, turn[c])
         /\ \A k \in 1 .. Len(added.fragments) :
               added.fragments[k].num <= sends[c][turn[c]].nums[at[c]]
  <2> SUFFICES ASSUME Good(c, turn[c])
               PROVE  /\ added.total = sends[c][turn[c]].total /\ MadeOf(added.fragments, c, turn[c])
                      /\ \A k \in 1 .. Len(added.fragments) :
                            added.fragments[k].num <= sends[c][turn[c]].nums[at[c]]
    OBVIOUS
  <2>1. added.total = sends[c][turn[c]].total
    BY <1>6, <1>7 DEF Belongs
  <2> QED
    BY <1>1, <1>3, <1>4, <1>5, <1>6, <2>1, AddedBelongs
<1>9. Filed(added)'
  <2>1. ASSUME NEW k \in 1 .. Len(added.fragments)
        PROVE  /\ added.fragments[k].turn \in 1 .. Len(sends[added.fragments[k].of])
               /\ sends[added.fragments[k].of][added.fragments[k].turn].id = added.id
    <3>1. CASE k \in 1 .. Len(table[p].fragments) /\ added.fragments[k] = table[p].fragments[k]
      <4>1. Filed(table[p])
        BY DEF FragmentsInv
      <4> QED
        BY ZenonT(30), <1>7, <3>1, <4>1 DEF Filed
    <3>2. CASE added.fragments[k].of = c /\ added.fragments[k].turn = turn[c]
      <4>1. added.id = sends[c][turn[c]].id
        <5>1. table[p].id = sends[c][turn[c]].id
          BY <1>2 DEF Pieces!Id, Pieces!Now
        <5> QED
          BY ZenonT(30), <1>7, <5>1
      <4> QED
        BY ZenonT(30), <1>5, <3>2, <4>1
    <3> QED
      BY <1>7, <3>1, <3>2
  <2> QED
    BY <2>1 DEF Filed
<1>10. /\ table' \in Seq(Pieces!Lists) /\ Len(table') = Len(table) /\ table'[p] = added
       /\ \A i \in 1 .. Len(table) : i # p => table'[i] = table[i]
  BY <1>1, <1>4, <1>7, ExceptSeq
\* The message is not complete.
<1>11. CASE ~added.reconstructing
  <2>1. Pieces!Handled(c)
    BY <1>4, <1>10, <1>11
  <2>2. Senders' /\ Stays
    BY <1>4, <1>5, <2>1, HandledStays
  <2>3. PICK now \in 1 .. Len(sends[c]) : now = turn[c] /\ now <= turn[c]
    BY <1>5
  <2>4. now <= turn'[c]
    BY <1>5, <2>1, <2>3, HandledMoves DEF Senders
  <2>5. ASSUME Good(c, now) PROVE Belongs(added, c, now)'
    <3>1. Belongs(added, c, now)
      BY <1>4, <1>8, <2>3, <2>5 DEF Belongs
    <3> QED
      BY <1>7, <2>2, <2>3, <2>5, <3>1 DEF Stays
  <2>6. Owned(added)'
    BY <1>2, <1>5, <1>7, <2>3, <2>4, <2>5, NewOwned
  <2> QED
    BY <1>4, <1>7, <1>9, <2>2, <2>6, ReplacedKeeps
\* It is, and is passed on next.
<1>12. CASE added.reconstructing
  <2>1. /\ pc' = [pc EXCEPT ![c] = "deliver"] /\ UNCHANGED <<turn, at, sent>>
    BY <1>4, <1>10, <1>12 DEF Pieces!Goto
  <2>2. Senders' /\ pc'[c] = "deliver"
    BY <1>5, <2>1 DEF Senders
  <2>3. PICK now \in Nat : now = turn[c] /\ now <= turn'[c]
    BY <1>5, <2>1
  <2>4. Owned(added)'
    <3>1. Good(c, now) => Belongs(added, c, now)'
      BY <1>7, <1>8, <1>12, <2>1, <2>2, <2>3 DEF Belongs, MadeOf
    <3> QED
      BY <1>2, <1>5, <1>7, <2>3, <3>1, NewOwned
  <2>5. ASSUME NEW i \in 1 .. Len(table), i # p PROVE Owned(table[i])' /\ Filed(table[i])'
    <3>1. PICK list \in Pieces!Lists : list = table[i]
      BY <1>1
    <3>2. list.id # Pieces!Id(c) /\ Owned(list) /\ Filed(list)
      BY <1>2, <2>5, <3>1 DEF FragmentsInv, Apart
    <3>3. \A d, n : Good(d, n)' <=> Good(d, n)
      BY DEF Good, Pieces!Lone, Pieces!Ascending
    <3>4. ASSUME NEW d \in Clients, NEW n \in 1 .. Len(sends[d]), Good(d, n), list.id = sends[d][n].id
          PROVE  n <= turn'[d] /\ Belongs(list, d, n)'
      <4>1. n <= turn[d] /\ Belongs(list, d, n)
        BY <3>2, <3>4 DEF Owned
      <4>2. ~(d = c /\ n = turn[c])
        BY <3>2, <3>4 DEF Pieces!Id, Pieces!Now
      <4>3. d # c => pc'[d] = pc[d]
        BY <1>5, <2>1 DEF Senders
      <4> QED
        BY <2>1, <4>1, <4>2, <4>3 DEF Belongs, MadeOf
    <3>5. Owned(list)'
      BY <3>3, <3>4 DEF Owned
    <3>6. Filed(list)'
      BY <3>2 DEF Filed
    <3>7. table'[i] = list
      BY <1>10, <2>5, <3>1
    <3> QED
      BY <3>5, <3>6, <3>7, SameList
  <2>6. Owned(table[p])' /\ Filed(table[p])'
    BY <1>9, <1>10, <2>4, SameList
  <2>7. Apart(table)'
    <3>1. \A i \in 1 .. Len(table) : table'[i].id = table[i].id
      BY <1>7, <1>10
    <3> QED
      BY <1>10, <3>1 DEF FragmentsInv, Apart
  <2>8. \A m \in sent' : OneMessage(m)'
    BY <2>1, OneStays DEF FragmentsInv
  <2>9. \A i \in 1 .. Len(table') : Owned(table[i])' /\ Filed(table[i])'
    BY <1>10, <2>5, <2>6
  <2> QED
    BY <2>2, <2>7, <2>8, <2>9 DEF FragmentsInv
<1> QED
  BY <1>11, <1>12

(* A list with as many fragments as its message is made of has them all.     *)
LEMMA CompleteIsMessage ==
  ASSUME Senders, NEW c \in Clients, NEW n \in 1 .. Len(sends[c]), NEW m \in Seq(Pieces!Pieces),
         MadeOf(m, c, n), Len(m) = sends[c][n].total
  PROVE  Whole(m, c, n)
<1>1. Len(m) \in Nat /\ DOMAIN m = 1 .. Len(m)
  BY LenProperties
<1>2. ASSUME NEW i \in 1 .. Len(m)
      PROVE  m[i] = [of |-> c, turn |-> n, num |-> i - 1]
  <2>1. m[i] \in Pieces!Pieces /\ 1 \in 1 .. Len(m) /\ Len(m) \in 1 .. Len(m)
    BY <1>1, LenProperties
  <2>2. PICK a, b, z : a = m[1].num /\ b = m[i].num /\ z = m[Len(m)].num
    OBVIOUS
  <2>3. a \in Nat /\ b \in Nat /\ z \in Nat
    <3>1. \A k \in 1 .. Len(m) : m[k] \in Pieces!Pieces
      BY LenProperties
    <3>2. \A k \in 1 .. Len(m) : m[k].num \in Nat
      BY <3>1 DEF Pieces!Pieces
    <3> QED
      BY <2>1, <2>2, <3>2
  <2>4. b - a >= i - 1
    BY <1>1, <2>1, <2>2 DEF MadeOf
  <2>5. z - b >= Len(m) - i
    <3>1. i <= Len(m)
      BY <1>1
    <3> QED
      BY ZenonT(30), <2>1, <2>2, <3>1 DEF MadeOf
  <2>6. z < Len(m)
    BY <2>1, <2>2 DEF MadeOf
  <2>7. b = i - 1
    <3>1. PICK len \in Nat : len = Len(m)
      BY <1>1
    <3>2. z - b >= len - i /\ z < len /\ b - a >= i - 1 /\ i \in Nat
      BY <2>4, <2>5, <2>6, <3>1
    <3> QED
      BY <2>3, <3>2
  <2>8. m[i].of = c /\ m[i].turn = n
    BY DEF MadeOf
  <2> QED
    BY <2>1, <2>2, <2>7, <2>8 DEF Pieces!Pieces
<1> QED
  BY <1>1, <1>2 DEF Whole

LEMMA DeliverKeeps ==
  ASSUME FragmentsInv, NEW c \in Clients, Pieces!Deliver(c), UNCHANGED sends
  PROVE  FragmentsInv'
<1>1. Senders /\ pc[c] = "deliver" /\ UNCHANGED table
  BY DEF FragmentsInv, Pieces!Deliver
<1>2. CASE ~Pieces!Listed(Pieces!Id(c))
  <2>1. Pieces!Handled(c) /\ UNCHANGED sent
    BY <1>2 DEF Pieces!Deliver
  <2>2. Senders' /\ Stays
    BY <1>1, <2>1, HandledStays
  <2> QED
    BY <1>1, <2>1, <2>2, TableKeeps
<1>3. CASE Pieces!Listed(Pieces!Id(c))
  <2>1. /\ table \in Seq(Pieces!Lists)
        /\ \A i \in 1 .. Len(table) : table[i] \in Pieces!Lists
    BY LenProperties DEF FragmentsInv, Apart
  <2>2. PICK p \in 1 .. Len(table) : p = Pieces!Place(Pieces!Id(c)) /\ table[p].id = Pieces!Id(c)
    BY <1>3, <2>1, PlaceOf
  <2>3. PICK list \in Pieces!Lists : list = table[p]
    BY <2>1
  <2>4. /\ sent' = sent \union {list.fragments} /\ pc' = [pc EXCEPT ![c] = "remove"]
        /\ UNCHANGED <<turn, at>>
    BY <1>3, <2>2, <2>3 DEF Pieces!Deliver, Pieces!Goto, Pieces!clientVars
  <2>5. OneMessage(list.fragments)
    <3>1. ASSUME NEW i \in DOMAIN list.fragments,
                 Good(list.fragments[i].of, list.fragments[i].turn)
          PROVE  Whole(list.fragments, list.fragments[i].of, list.fragments[i].turn)
      <4>1. i \in 1 .. Len(list.fragments)
        BY FragmentTypes
      <4>2. PICK d \in Clients : d = list.fragments[i].of
        BY <4>1, FragmentTypes
      <4>3. PICK n \in 1 .. Len(sends[d]) : n = list.fragments[i].turn /\ sends[d][n].id = list.id
        BY <2>3, <4>1, <4>2 DEF FragmentsInv, Filed
      <4>4. d = c /\ n = turn[c]
        BY <1>1, <2>2, <2>3, <3>1, <4>2, <4>3, OnlyOne
      <4>5. Belongs(list, d, n)
        BY <2>3, <3>1, <4>2, <4>3 DEF FragmentsInv, Owned
      <4>6. MadeOf(list.fragments, d, n) /\ Len(list.fragments) = sends[d][n].total
        BY <1>1, <4>4, <4>5 DEF Belongs
      <4>7. Whole(list.fragments, d, n)
        BY <1>1, <4>6, FragmentTypes, CompleteIsMessage
      <4> QED
        BY <4>2, <4>3, <4>7
    <3> QED
      BY <3>1 DEF OneMessage
  <2>6. Senders' /\ Stays
    BY <1>1, <2>4, GotoStays
  <2>7. \A i \in 1 .. Len(table) : Owned(table[i])' /\ Filed(table[i])'
    <3>1. ASSUME NEW i \in 1 .. Len(table) PROVE Owned(table[i])' /\ Filed(table[i])'
      <4>1. PICK l \in Pieces!Lists : l = table[i]
        BY <2>1
      <4>2. Owned(l) /\ Filed(l)
        BY <4>1 DEF FragmentsInv
      <4>3. Owned(l)'
        BY <2>6, <4>2, StaysOwned
      <4>4. Filed(l)'
        BY <4>2 DEF Filed
      <4> QED
        BY <1>1, <4>1, <4>3, <4>4, SameList
    <3> QED
      BY <3>1
  <2>8. Apart(table)'
    BY <1>1 DEF FragmentsInv, Apart
  <2>9. \A n \in sent' : OneMessage(n)'
    BY <2>4, <2>5, OneStays DEF FragmentsInv
  <2> QED
    BY <1>1, <2>6, <2>7, <2>8, <2>9 DEF FragmentsInv
<1> QED
  BY <1>2, <1>3

LEMMA DropKeeps ==
  ASSUME FragmentsInv, NEW c \in Clients, Pieces!Drop(c), UNCHANGED sends
  PROVE  FragmentsInv'
<1>1. Senders /\ pc[c] = "drop" /\ UNCHANGED sent
  BY DEF FragmentsInv, Pieces!Drop
<1>2. table' = Pieces!Without(victim[c])
  BY DEF Pieces!Drop
<1>3. CASE Pieces!Handled(c)
  <2>1. Senders' /\ Stays
    BY <1>1, <1>3, HandledStays
  <2> QED
    BY <1>1, <1>2, <2>1, RemovedKeeps
<1>4. CASE Pieces!Goto(c, "sweep") /\ UNCHANGED <<turn, at>>
  <2>1. Senders' /\ Stays
    BY <1>1, <1>4, GotoStays DEF Pieces!Goto
  <2> QED
    BY <1>1, <1>2, <2>1, RemovedKeeps
<1> QED
  BY <1>3, <1>4 DEF Pieces!Drop, Pieces!clientVars

LEMMA TimeOutKeeps ==
  ASSUME FragmentsInv, NEW i \in DOMAIN table, Pieces!TimeOut(i), UNCHANGED sends
  PROVE  FragmentsInv'
<1>1. i \in 1 .. Len(table) /\ table[i] \in Pieces!Lists
  BY LenProperties DEF FragmentsInv, Apart
<1>2. PICK list : list = [table[i] EXCEPT !.stale = TRUE]
  OBVIOUS
<1>3. table' = [table EXCEPT ![i] = list] /\ UNCHANGED <<pc, turn, at, sent>>
  BY <1>2 DEF Pieces!TimeOut, Pieces!threadVars, Pieces!clientVars
<1>4. /\ list \in Pieces!Lists /\ list.id = table[i].id /\ list.total = table[i].total
      /\ list.fragments = table[i].fragments
  BY <1>1, <1>2 DEF Pieces!Lists
<1>5. Senders'
  BY <1>3 DEF FragmentsInv, Senders
<1>6. Stays
  BY <1>3 DEF Stays, Belongs, MadeOf
<1>7. Owned(list) /\ Filed(list)
  <2>1. PICK old \in Pieces!Lists : old = table[i] /\ Owned(old) /\ Filed(old)
    BY <1>1 DEF FragmentsInv
  <2>2. Owned(list)
    BY <1>4, <2>1 DEF Owned, Belongs
  <2>3. Filed(list)
    BY <1>4, <2>1 DEF Filed
  <2> QED
    BY <2>2, <2>3
<1>8. Owned(list)'
  BY <1>4, <1>6, <1>7, StaysOwned
<1>9. Filed(list)'
  BY <1>7 DEF Filed
<1> QED
  BY <1>1, <1>3, <1>4, <1>5, <1>6, <1>8, <1>9, ReplacedKeeps

LEMMA FragmentsStep ==
  ASSUME FragmentsInv, Pieces!Next
  PROVE  FragmentsInv'
<1> UNCHANGED sends
  BY DEF Pieces!Next
<1>1. ASSUME NEW c \in Clients, Pieces!Handled(c), pc[c] # "gone", UNCHANGED <<table, sent>>
      PROVE  FragmentsInv'
  BY <1>1, HandledStays, TableKeeps DEF FragmentsInv
<1>2. ASSUME NEW c \in Clients, NEW step \in {"sweep", "drop", "open", "gone"}, Pieces!Goto(c, step),
             pc[c] \in {"idle", "sweep"}, UNCHANGED <<turn, at, table, sent>>
      PROVE  FragmentsInv'
  <2>1. Senders' /\ Stays
    BY <1>2, GotoStays DEF FragmentsInv, Pieces!Goto
  <2> QED
    BY <1>2, <2>1, TableKeeps
<1>3. ASSUME NEW c \in Clients, Pieces!Receive(c) PROVE FragmentsInv'
  BY <1>2, <1>3 DEF Pieces!Receive, Pieces!clientVars
<1>4. ASSUME NEW c \in Clients, Pieces!SweepRaises(c) PROVE FragmentsInv'
  BY <1>1, <1>4 DEF Pieces!SweepRaises
<1>5. ASSUME NEW c \in Clients, Pieces!Sweep(c) PROVE FragmentsInv'
  <2>1. pc[c] = "sweep" /\ UNCHANGED <<turn, at, table, sent>>
        /\ (Pieces!Goto(c, "drop") \/ Pieces!Goto(c, "open"))
    BY <1>5 DEF Pieces!Sweep, Pieces!clientVars
  <2> QED
    BY <1>2, <2>1
<1>6. ASSUME NEW c \in Clients, Pieces!AddFails(c) PROVE FragmentsInv'
  BY <1>1, <1>6 DEF Pieces!AddFails
<1>7. ASSUME NEW c \in Clients, Pieces!Forget(c) PROVE FragmentsInv'
  <2>1. Senders /\ pc[c] = "remove" /\ UNCHANGED sent /\ Pieces!Handled(c)
        /\ table' = Pieces!Without(Pieces!Id(c))
    BY <1>7 DEF FragmentsInv, Pieces!Forget
  <2>2. Senders' /\ Stays
    BY <2>1, HandledStays
  <2> QED
    BY <2>1, <2>2, RemovedKeeps
<1>8. ASSUME NEW c \in Clients, Pieces!Finish(c) PROVE FragmentsInv'
  BY <1>2, <1>8 DEF Pieces!Finish, Pieces!clientVars
<1> QED
  BY <1>3, <1>4, <1>5, <1>6, <1>7, <1>8, DropKeeps, OpenKeeps, AddKeeps, DeliverKeeps, TimeOutKeeps
     DEF Pieces!Next

(* A message that has an id to itself and whose fragments are sent in        *)
(* ascending order, some of them perhaps again, is passed on whole and in    *)
(* order, with nothing of another's, for any number of clients whose threads *)
(* work on the one table without a lock and whatever the other messages are: *)
(* lists that time out, are removed under another thread's hands or are      *)
(* begun twice lose messages, and never mix these (ReceivedFragments,        *)
(* Defragment.defragment).                                                   *)
THEOREM AlwaysDeliveredIntact == TablesSpec => []DeliveredIntact
<1>1. TablesInit => FragmentsInv
  BY FragmentsStart DEF TablesInit
<1>2. FragmentsInv /\ [TablesNext]_tableVars => FragmentsInv'
  <2> SUFFICES ASSUME FragmentsInv, [TablesNext]_tableVars PROVE FragmentsInv'
    OBVIOUS
  <2>1. CASE Pieces!Next
    BY <2>1, FragmentsStep
  <2>2. CASE UNCHANGED fragmentVars
    <3>1. Senders' /\ Stays /\ UNCHANGED <<sends, table, sent>>
      BY <2>2 DEF fragmentVars, FragmentsInv, Senders, Stays, Belongs, MadeOf
    <3> QED
      BY <3>1, TableKeeps
  <2> QED
    BY <2>1, <2>2 DEF TablesNext, tableVars
<1>3. FragmentsInv => DeliveredIntact
  BY DEF FragmentsInv, OneMessage, Whole, Good, DeliveredIntact, Pieces!DeliveredIntact
<1> QED
  BY <1>1, <1>2, <1>3, PTL DEF TablesSpec

=============================================================================
