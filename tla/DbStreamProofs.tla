--------------------------- MODULE DbStreamProofs ---------------------------
(***************************************************************************)
(* Proofs about DbStream, for any table, any contents and any number of    *)
(* changes and faults.                                                     *)
(***************************************************************************)
EXTENDS DbStream, TLAPS

---------------------------------------------------------------------------
(* Messages                                                                *)

\* A message carries rows of the table, each with its contents.
LEMMA MsgFacts ==
  ASSUME NEW m \in Msgs
  PROVE  /\ DOMAIN m \subseteq Keys
         /\ \A k \in DOMAIN m : m[k] \in Rows
         /\ m \in [DOMAIN m -> Rows]
  BY DEF Msgs

\* Any function from rows to contents is a message.
LEMMA MsgIntro ==
  ASSUME NEW D \in SUBSET Keys, NEW m \in [D -> Rows]
  PROVE  m \in Msgs
  BY DEF Msgs

\* The empty message carries no row.
LEMMA EmptyFacts == Empty \in Msgs /\ DOMAIN Empty = {}
<1>1. DOMAIN Empty = {} /\ Empty \in [{} -> Rows]
  BY DEF Empty
<1> QED
  BY <1>1, MsgIntro, Zenon

\* A message of one row carries that row.
LEMMA OneFacts ==
  ASSUME NEW k \in Keys, NEW v \in Rows
  PROVE  /\ One(k, v) \in Msgs /\ DOMAIN One(k, v) = {k} /\ One(k, v)[k] = v
         /\ One(k, v) # Empty
<1>1. DOMAIN One(k, v) = {k} /\ One(k, v)[k] = v /\ One(k, v) \in [{k} -> Rows]
  BY DEF One
<1> QED
  BY <1>1, MsgIntro, EmptyFacts

\* Merging keeps the rows of both, with the contents of the later one.
LEMMA MergeFacts ==
  ASSUME NEW f \in Msgs, NEW g \in Msgs
  PROVE  /\ Merge(f, g) \in Msgs
         /\ DOMAIN Merge(f, g) = DOMAIN f \cup DOMAIN g
         /\ \A k \in DOMAIN g : Merge(f, g)[k] = g[k]
         /\ \A k \in DOMAIN f \ DOMAIN g : Merge(f, g)[k] = f[k]
<1>1. /\ DOMAIN Merge(f, g) = DOMAIN f \cup DOMAIN g
      /\ \A k \in DOMAIN g : Merge(f, g)[k] = g[k]
      /\ \A k \in DOMAIN f \ DOMAIN g : Merge(f, g)[k] = f[k]
  BY DEF Merge
<1>2. Merge(f, g) \in [DOMAIN f \cup DOMAIN g -> Rows]
  BY MsgFacts DEF Merge
<1>3. DOMAIN f \cup DOMAIN g \in SUBSET Keys
  BY MsgFacts
<1> QED
  BY <1>1, <1>2, <1>3, MsgIntro

---------------------------------------------------------------------------
(* Type correctness                                                        *)

Events == Keys \X {"none", "hset", "del", "hdel"}
Typed == TypeOK /\ event \in Events

\* The types hold in every initial state.
LEMMA InitTyped == Init => Typed
<1>1. SUFFICES ASSUME Init PROVE Typed
  OBVIOUS
<1>2. row \in Keys
  BY <1>1, DbStreamAssumption DEF Init
<1>3. {msiAll, out, msi} \subseteq Msgs
  BY <1>1, EmptyFacts DEF Init
<1>4. view \in [Keys -> Rows]
  BY <1>1 DEF Init, Rows
<1>5. event \in Events
  BY <1>1, <1>2 DEF Init, Events
<1>6. q \in Seq(Msgs) /\ pub \in Seq(Keys \X {"hset", "del", "hdel"})
  BY <1>1 DEF Init
<1>7. ops \in 0..MaxOps
  BY <1>1, DbStreamAssumption DEF Init
<1> QED
  BY <1>1, <1>2, <1>3, <1>4, <1>5, <1>6, <1>7, Zenon DEF Init, Typed, TypeOK

\* The rows a subscription watches are rows of the table.
LEMMA WatchedKeys == ASSUME Typed PROVE Watched \subseteq Keys
  BY DEF Typed, TypeOK, Watched

\* Send either queues the message, or ends the goroutine of a closed session.
LEMMA SendFacts ==
  ASSUME Typed, NEW m \in Msgs, Send(m, "listen")
  PROVE  /\ q' \in Seq(Msgs) /\ pc' \in {"listen", "gone"}
         /\ session = "open" => q' = Append(q, m) /\ pc' = "listen"
         /\ session # "open" => q' = q /\ pc' = "gone"
<1>1. q \in Seq(Msgs) /\ Append(q, m) \in Seq(Msgs)
  BY DEF Typed, TypeOK
<1> QED
  BY <1>1 DEF Send

\* A change of the database keeps the types.
LEMMA ChangeTyped ==
  ASSUME Typed, NEW k \in Watched, Hset(k) \/ Del(k) \/ Hdel(k)
  PROVE  Typed'
<1>1. PICK op \in {"hset", "del", "hdel"}, v \in Rows : Change(k, op, v)
  BY DEF Hset, Del, Hdel, Rows
<1>2. k \in Keys
  BY WatchedKeys
<1>3. db' \in [Keys -> Rows] /\ ops' \in 0..MaxOps /\ deleted' \subseteq Keys
  BY <1>1, <1>2, DbStreamAssumption DEF Change, Typed, TypeOK
<1>4. <<k, op>> \in Keys \X {"hset", "del", "hdel"}
  BY <1>2
<1>5. pub' \in Seq(Keys \X {"hset", "del", "hdel"})
  BY <1>1, <1>4 DEF Change, Publish, Typed, TypeOK
<1> QED
  BY <1>1, <1>3, <1>5
  DEF Change, Typed, TypeOK, subscription, main, listener, rpc

\* A fault is one of the bounded changes.
LEMMA FaultTyped ==
  ASSUME Typed, NEW f, Fault(f)
  PROVE  ops' \in 0..MaxOps
  BY DbStreamAssumption DEF Fault, Typed, TypeOK

\* Subscribing and taking the snapshot keep the types.
LEMMA MainTyped ==
  ASSUME Typed, Subscribe \/ ListKeys \/ TableData2Msi
  PROVE  Typed'
<1>1. CASE Subscribe
  <2>1. ops' \in 0..MaxOps /\ fatal' \in BOOLEAN /\ pc' \in {"keys", "gone"}
    BY <1>1, FaultTyped, Zenon DEF Subscribe, Typed, TypeOK
  <2> QED
    BY <1>1, <2>1 DEF Subscribe, Typed, TypeOK, subscription, listener
<1>2. CASE ListKeys
  <2>1. toread' \subseteq Keys
    BY <1>2, WatchedKeys DEF ListKeys
  <2> QED
    BY <1>2, <2>1 DEF ListKeys, Typed, TypeOK, subscription, database, listener, rpc
<1>3. CASE TableData2Msi
  <2>1. PICK k \in toread :
          \/ msiAll' = Merge(msiAll, One(k, db[k])) /\ toread' = toread \ {k}
             /\ UNCHANGED <<ops, fatal, pc>>
          \/ Fault("row") /\ fatal' = TRUE /\ pc' = "gone" /\ UNCHANGED <<msiAll, toread>>
    BY <1>3 DEF TableData2Msi
  <2>2. k \in Keys /\ db[k] \in Rows /\ msiAll \in Msgs
    BY DEF Typed, TypeOK
  <2>3. msiAll' \in Msgs
    BY <2>1, <2>2, OneFacts, MergeFacts, Zenon
  <2>4. ops' \in 0..MaxOps /\ fatal' \in BOOLEAN /\ toread' \subseteq Keys
        /\ pc' \in {"subscribe", "keys", "snapshot", "poll", "listen", "gone"}
    BY <2>1, FaultTyped, Zenon DEF Typed, TypeOK
  <2> QED
    BY <1>3, <2>3, <2>4 DEF TableData2Msi, Typed, TypeOK, subscription, listener
<1> QED
  BY <1>1, <1>2, <1>3

\* Sending the snapshot, taking an update and the ticker keep the types.
LEMMA SendsTyped ==
  ASSUME Typed, SendAll \/ TakeUpdate \/ Tick \/ FieldSend
  PROVE  Typed'
<1>1. msiAll \in Msgs /\ out \in Msgs
  BY DEF Typed, TypeOK
<1>2. CASE SendAll
  BY <1>1, <1>2, SendFacts, EmptyFacts
  DEF SendAll, Typed, TypeOK, subscription, database
<1>3. CASE TakeUpdate
  <2>1. q' \in Seq(Msgs) /\ pc' \in {"listen", "gone"}
    BY <1>1, <1>3, SendFacts DEF TakeUpdate, Typed, TypeOK
  <2>2. Merge(msiAll, out) \in Msgs
    BY <1>1, MergeFacts, Zenon
  <2>3. msiAll' \in Msgs
    BY <1>1, <1>3, <2>2 DEF TakeUpdate
  <2> QED
    BY <1>3, <2>1, <2>3 DEF TakeUpdate, Typed, TypeOK, subscription, database
<1>4. CASE Tick
  BY <1>1, <1>4, SendFacts, EmptyFacts
  DEF Tick, Typed, TypeOK, subscription, database, listener
<1>5. CASE FieldSend
  <2>1. q' \in Seq(Msgs) /\ pc' \in {"listen", "gone"}
    BY <1>1, <1>5, SendFacts DEF FieldSend, Typed, TypeOK
  <2> QED
    BY <1>5, <2>1 DEF FieldSend, Typed, TypeOK, subscription, database, listener
<1> QED
  BY <1>2, <1>3, <1>4, <1>5

\* The steps of a listener keep the types.
LEMMA ListenerTyped ==
  ASSUME Typed, Receive \/ ReadRow
  PROVE  Typed'
<1>1. CASE Receive
  <2>1. Head(pub) \in Keys \X {"hset", "del", "hdel"}
        /\ Tail(pub) \in Seq(Keys \X {"hset", "del", "hdel"})
    BY <1>1 DEF Receive, Typed, TypeOK
  <2>2. Head(pub)[1] \in Keys /\ event' \in Events
    BY <1>1, <2>1 DEF Receive, Events
  <2>3. One(Head(pub)[1], Absent) \in Msgs
    BY <2>2, OneFacts, Zenon DEF Rows
  <2>5. out' \in Msgs
    BY <1>1, <2>3 DEF Receive, Typed, TypeOK
  <2>4. lpc' \in {"off", "recv", "read", "offer", "error", "gone"}
    BY <1>1 DEF Receive, Typed, TypeOK
  <2> QED
    BY <1>1, <2>1, <2>2, <2>4, <2>5
    DEF Receive, Typed, TypeOK, subscription, main, rpc
<1>2. CASE ReadRow
  <2>1. event[1] \in Keys /\ db[event[1]] \in Rows
    BY DEF Typed, TypeOK, Events
  <2>2. One(event[1], db[event[1]]) \in Msgs
    BY <2>1, OneFacts, Zenon
  <2>3. msi' \in Msgs /\ out' \in Msgs
    BY <1>2, <2>2, EmptyFacts DEF ReadRow, Typed, TypeOK
  <2>4. ops' \in 0..MaxOps /\ fatal' \in BOOLEAN
        /\ lpc' \in {"off", "recv", "read", "offer", "error", "gone"}
    BY <1>2, FaultTyped, Zenon DEF ReadRow, Typed, TypeOK
  <2> QED
    BY <1>2, <2>3, <2>4 DEF ReadRow, Typed, TypeOK, subscription, main
<1> QED
  BY <1>1, <1>2

\* Reading a field touches only what is left to read and the caches.
LEMMA FieldReadKeeps ==
  ASSUME FieldRead
  PROVE  /\ pc = "poll" /\ UNCHANGED <<db, pub, deleted, pc, q, fatal, session, view>>
         /\ UNCHANGED <<target, row, mode, updateOnly, lpc, event, out>>
<1>1. pc = "poll" /\ UNCHANGED <<subscription, db, pub, deleted, pc, listener, rpc, view>>
  BY Zenon DEF FieldRead
<1> QED
  BY <1>1 DEF subscription, listener, rpc

\* The polling of fields keeps the types.
LEMMA FieldTyped ==
  ASSUME Typed, FieldTick \/ FieldRead
  PROVE  Typed'
<1>1. CASE FieldTick
  BY <1>1, WatchedKeys, EmptyFacts, Zenon
  DEF FieldTick, Typed, TypeOK, subscription, database, listener, rpc
<1>2. CASE FieldRead
  <2>1. PICK k \in toread, val \in Rows :
          /\ toread' = toread \ {k}
          /\ UNCHANGED ops \/ Fault("row")
          /\ \/ UNCHANGED <<msi, msiAll>>
             \/ msi' = Merge(msi, One(k, val)) /\ msiAll' = Merge(msiAll, One(k, val))
    <3>1. PICK k \in toread :
            /\ toread' = toread \ {k}
            /\ \E err \in BOOLEAN : LET val == IF err THEN Absent ELSE db[k] IN
                 /\ IF err THEN Fault("row") ELSE UNCHANGED ops
                 /\ IF \/ target = "fields" /\ ~err /\ db[k] = Absent
                       \/ OnlyChanges /\ k \in DOMAIN msi /\ msi[k] = val
                    THEN UNCHANGED <<msi, msiAll>>
                    ELSE msi' = Merge(msi, One(k, val)) /\ msiAll' = Merge(msiAll, One(k, val))
      BY <1>2 DEF FieldRead
    <3>2. Absent \in Rows /\ db[k] \in Rows
      BY DEF Typed, TypeOK, Rows
    <3> QED
      BY <3>1, <3>2, Zenon
  <2>2. k \in Keys /\ msi \in Msgs /\ msiAll \in Msgs
    BY DEF Typed, TypeOK
  <2>3. msi' \in Msgs /\ msiAll' \in Msgs
    BY <2>1, <2>2, OneFacts, MergeFacts, Zenon
  <2>4. ops' \in 0..MaxOps /\ toread' \subseteq Keys
    BY <2>1, FaultTyped DEF Typed, TypeOK
  <2> QED
    BY <1>2, <2>3, <2>4, FieldReadKeeps DEF Typed, TypeOK
<1> QED
  BY <1>1, <1>2

\* Delivery, closing and stopping keep the types.
LEMMA OtherTyped ==
  ASSUME Typed, Stop \/ ReceiveError \/ ListenerStops \/ Deliver \/ CloseQueue \/ CloseStop
  PROVE  Typed'
<1>1. CASE Stop
  BY <1>1 DEF Stop, Typed, TypeOK, subscription, database, listener, rpc
<1>2. CASE ReceiveError
  BY <1>2, FaultTyped DEF ReceiveError, Typed, TypeOK, subscription, main, rpc
<1>3. CASE ListenerStops
  BY <1>3 DEF ListenerStops, Typed, TypeOK, subscription, database, main, rpc
<1>4. CASE Deliver
  <2>1. Head(q) \in Msgs /\ Tail(q) \in Seq(Msgs)
    BY <1>4 DEF Deliver, Typed, TypeOK
  <2>2. view' \in [Keys -> Rows]
    BY <1>4, <2>1, MsgFacts DEF Deliver, Typed, TypeOK
  <2> QED
    BY <1>4, <2>1, <2>2 DEF Deliver, Typed, TypeOK, subscription, database, main, listener
<1>5. CASE CloseQueue
  BY <1>5 DEF CloseQueue, Typed, TypeOK, subscription, database, main, listener
<1>6. CASE CloseStop
  BY <1>6 DEF CloseStop, Typed, TypeOK, subscription, database, main, listener
<1> QED
  BY <1>1, <1>2, <1>3, <1>4, <1>5, <1>6

\* Every step keeps the types.
LEMMA NextTyped == Typed /\ [Next]_vars => Typed'
<1>1. ASSUME Typed, UNCHANGED vars PROVE Typed'
  BY <1>1 DEF vars, subscription, database, main, listener, rpc, Typed, TypeOK
<1>2. ASSUME Typed, Next PROVE Typed'
  BY <1>2, ChangeTyped, MainTyped, SendsTyped, ListenerTyped, FieldTyped, OtherTyped
  DEF Next, Main, Listener
<1> QED
  BY <1>1, <1>2

\* Whatever the database, the listener and the peer do, the goroutines keep
\* well-formed caches, messages and views.
THEOREM TypeCorrect == Spec => []TypeOK
<1>1. Typed => TypeOK
  BY DEF Typed
<1> QED
  BY <1>1, InitTyped, NextTyped, PTL DEF Spec

---------------------------------------------------------------------------
(* The inductive invariant                                                 *)

\* What each stage of the subscription has already done: a table is silent
\* until its snapshot is sent, and only fields are polled.
Staged ==
  /\ mode = "ON_CHANGE" => updateOnly
  /\ pc = "gone" \/ lpc = "gone" => Over
  /\ Listens => pc # "poll"
  /\ ~Listens => lpc = "off" /\ pc \notin {"keys", "snapshot"}
  /\ pc = "subscribe" \/ pc = "keys" => msiAll = Empty
  /\ Listens /\ (pc = "subscribe" \/ pc = "keys") => \A k \in Keys : view[k] = Absent
  /\ Listens /\ (pc = "subscribe" \/ pc = "keys" \/ pc = "snapshot") =>
       q = <<>> /\ lpc = "off" /\ msi = Empty
  /\ Listens /\ pc = "listen" /\ mode = "ON_CHANGE" => msiAll = Empty

\* An event that is no set is about a deleted row, and an event is about a
\* row that exists unless it was deleted.
Published ==
  /\ \A i \in 1..Len(pub) :
       pub[i][1] \in deleted \/ (pub[i][2] = "hset" /\ db[pub[i][1]] # Absent)
  /\ lpc = "read" => event[1] \in deleted \/ db[event[1]] # Absent

\* The row the listener read last, and every field the poller has read, is
\* what the subscriber is told, unless the row was deleted since.
Cached ==
  ~Over => \A k \in DOMAIN msi :
    Told(k, msi[k]) \/ (Listens /\ k \in deleted /\ msi[k] # Absent)

\* Between two passes the poller has sent what it gathered.
Sent ==
  ~Over /\ ~Listens /\ pc = "listen" => \A k \in DOMAIN msiAll : Arrives(k, msiAll[k])

\* NothingMissed for a table or a row.
Caught ==
  ~Over /\ Listens /\ (pc = "snapshot" \/ pc = "listen") => \A k \in Watched :
    \/ Told(k, db[k]) \/ OnItsWay(k)
    \/ k \in deleted /\ (target = "key" \/ db[k] # Absent)

\* What was ever sent of a full SAMPLE subscription is gathered for good.
Grows ==
  Listens /\ mode = "SAMPLE" /\ ~updateOnly =>
    /\ \A k \in Keys : view[k] # Absent => k \in DOMAIN msiAll
    /\ \A i \in 1..Len(q) : DOMAIN q[i] \subseteq DOMAIN msiAll

IInv == Typed /\ Staged /\ Published /\ Cached /\ Sent /\ Caught /\ Grows

\* The inductive invariant holds in every initial state.
LEMMA InitIInv == Init => IInv
<1>1. SUFFICES ASSUME Init PROVE IInv
  OBVIOUS
<1>2. Typed
  BY <1>1, InitTyped
<1>3. Staged /\ Published
  BY <1>1 DEF Init, Staged, Published
<1>4. Cached /\ Sent /\ Caught
  BY <1>1, EmptyFacts DEF Init, Cached, Sent, Caught
<1>5. Grows
  BY <1>1 DEF Init, Grows
<1> QED
  BY <1>2, <1>3, <1>4, <1>5 DEF IInv

---------------------------------------------------------------------------
(* What the subscriber is told                                             *)

\* A queued message overrides, for the rows it carries, what came before it.
LEMMA ArrivesAppend ==
  ASSUME Typed, NEW m, q' = Append(q, m), view' = view, NEW k, NEW v
  PROVE  Arrives(k, v)' <=> IF k \in DOMAIN m THEN m[k] = v ELSE Arrives(k, v)
<1>1. q \in Seq(Msgs)
  BY DEF Typed, TypeOK
<1>2. /\ Len(q) \in Nat /\ Len(q') = Len(q) + 1 /\ q'[Len(q) + 1] = m
      /\ \A i \in 1..Len(q) : q'[i] = q[i]
  BY <1>1
<1> DEFINE n == Len(q)
<1>3. ASSUME k \in DOMAIN m PROVE Arrives(k, v)' <=> m[k] = v
  <2>1. ASSUME m[k] = v PROVE Arrives(k, v)'
    <3>1. /\ n + 1 \in 1..Len(q') /\ k \in DOMAIN q'[n + 1] /\ q'[n + 1][k] = v
          /\ \A j \in 1..Len(q') : ~(j > n + 1)
      BY <1>2, <1>3, <2>1
    <3> QED
      BY <3>1 DEF Arrives
  <2>2. ASSUME Arrives(k, v)' PROVE m[k] = v
    <3>1. n + 1 \in 1..Len(q') /\ k \in DOMAIN q'[n + 1]
      BY <1>2, <1>3
    <3>2. PICK i \in 1..Len(q') : /\ k \in DOMAIN q'[i] /\ q'[i][k] = v
                                  /\ \A j \in 1..Len(q') : j > i => k \notin DOMAIN q'[j]
      BY <2>2, <3>1 DEF Arrives
    <3>3. ~(n + 1 > i)
      BY <3>1, <3>2
    <3>4. i = n + 1
      BY <1>2, <3>2, <3>3
    <3> QED
      BY <1>2, <3>2, <3>4
  <2> QED
    BY <2>1, <2>2
<1>4. ASSUME k \notin DOMAIN m PROVE Arrives(k, v)' <=> Arrives(k, v)
  <2>1. \A i \in 1..Len(q') : i \in 1..n \/ i = n + 1
    BY <1>2
  <2>2. \A i \in 1..n : i \in 1..Len(q') /\ q'[i] = q[i]
    BY <1>2
  <2>3. \A i \in 1..Len(q') : k \in DOMAIN q'[i] => i \in 1..n
    BY <1>2, <1>4, <2>1
  <2>4. ASSUME Arrives(k, v) PROVE Arrives(k, v)'
    <3>1. CASE view[k] = v /\ \A i \in 1..Len(q) : k \notin DOMAIN q[i]
      BY <2>2, <2>3, <3>1 DEF Arrives
    <3>2. CASE \E i \in 1..Len(q) :
                  /\ k \in DOMAIN q[i] /\ q[i][k] = v
                  /\ \A j \in 1..Len(q) : j > i => k \notin DOMAIN q[j]
      <4>1. PICK i \in 1..Len(q) :
                  /\ k \in DOMAIN q[i] /\ q[i][k] = v
                  /\ \A j \in 1..Len(q) : j > i => k \notin DOMAIN q[j]
        BY <3>2
      <4>2. i \in 1..Len(q') /\ k \in DOMAIN q'[i] /\ q'[i][k] = v
        BY <2>2, <4>1
      <4>3. \A j \in 1..Len(q') : j > i => k \notin DOMAIN q'[j]
        BY <2>2, <2>3, <4>1
      <4> QED
        BY <4>2, <4>3 DEF Arrives
    <3> QED
      BY <2>4, <3>1, <3>2 DEF Arrives
  <2>5. ASSUME Arrives(k, v)' PROVE Arrives(k, v)
    <3>1. CASE view'[k] = v /\ \A i \in 1..Len(q') : k \notin DOMAIN q'[i]
      BY <2>2, <3>1 DEF Arrives
    <3>2. CASE \E i \in 1..Len(q') :
                  /\ k \in DOMAIN q'[i] /\ q'[i][k] = v
                  /\ \A j \in 1..Len(q') : j > i => k \notin DOMAIN q'[j]
      <4>1. PICK i \in 1..Len(q') :
                  /\ k \in DOMAIN q'[i] /\ q'[i][k] = v
                  /\ \A j \in 1..Len(q') : j > i => k \notin DOMAIN q'[j]
        BY <3>2
      <4>2. i \in 1..Len(q) /\ k \in DOMAIN q[i] /\ q[i][k] = v
        BY <2>2, <2>3, <4>1
      <4>3. \A j \in 1..Len(q) : j > i => k \notin DOMAIN q[j]
        BY <2>2, <4>1
      <4> QED
        BY <4>2, <4>3 DEF Arrives
    <3> QED
      BY <2>5, <3>1, <3>2 DEF Arrives
  <2> QED
    BY <2>4, <2>5
<1> QED
  BY <1>3, <1>4

\* Delivering a message does not change what arrives in the end.
LEMMA ArrivesDeliver ==
  ASSUME Typed, Deliver, NEW k \in Keys, NEW v
  PROVE  Arrives(k, v)' <=> Arrives(k, v)
<1> DEFINE n == Len(q)
<1>1. q \in Seq(Msgs) /\ q # <<>> /\ q' = Tail(q)
  BY DEF Deliver, Typed, TypeOK
<1>2. /\ n \in Nat \ {0} /\ Len(q') = n - 1 /\ Head(q) = q[1]
      /\ \A i \in 1..Len(q') : q'[i] = q[i + 1]
  BY <1>1
<1>3. view'[k] = IF k \in DOMAIN q[1] THEN q[1][k] ELSE view[k]
  BY <1>2 DEF Deliver
<1>4. \A i \in 1..Len(q') : i + 1 \in 1..n /\ i + 1 # 1
  BY <1>2
<1>5. \A i \in 1..n : i # 1 => i - 1 \in 1..Len(q') /\ q[i] = q'[i - 1]
  BY <1>2
<1>6. 1 \in 1..n /\ \A i \in 1..n : i # 1 => i > 1
  BY <1>2
<1>7. ASSUME Arrives(k, v) PROVE Arrives(k, v)'
  <2>1. CASE view[k] = v /\ \A i \in 1..Len(q) : k \notin DOMAIN q[i]
    <3>1. view'[k] = v /\ \A i \in 1..Len(q') : k \notin DOMAIN q'[i]
      BY <1>2, <1>3, <1>4, <1>6, <2>1
    <3> QED
      BY <3>1 DEF Arrives
  <2>2. CASE \E i \in 1..Len(q) :
                /\ k \in DOMAIN q[i] /\ q[i][k] = v
                /\ \A j \in 1..Len(q) : j > i => k \notin DOMAIN q[j]
    <3>1. PICK i \in 1..Len(q) :
                /\ k \in DOMAIN q[i] /\ q[i][k] = v
                /\ \A j \in 1..Len(q) : j > i => k \notin DOMAIN q[j]
      BY <2>2
    <3>2. CASE i = 1
      <4>1. view'[k] = v /\ \A j \in 1..Len(q') : k \notin DOMAIN q'[j]
        BY <1>2, <1>3, <1>4, <1>6, <3>1, <3>2
      <4> QED
        BY <4>1 DEF Arrives
    <3>3. CASE i # 1
      <4>1. i - 1 \in 1..Len(q') /\ k \in DOMAIN q'[i - 1] /\ q'[i - 1][k] = v
        BY <1>5, <3>1, <3>3
      <4>2. \A j \in 1..Len(q') : j > i - 1 => j + 1 > i
        BY <3>1, <1>2
      <4>3. \A j \in 1..Len(q') : j > i - 1 => k \notin DOMAIN q'[j]
        BY <1>2, <1>4, <3>1, <4>2
      <4> QED
        BY <4>1, <4>3 DEF Arrives
    <3> QED
      BY <3>2, <3>3
  <2> QED
    BY <1>7, <2>1, <2>2 DEF Arrives
<1>8. ASSUME Arrives(k, v)' PROVE Arrives(k, v)
  <2>1. CASE \E i \in 1..Len(q') :
                /\ k \in DOMAIN q'[i] /\ q'[i][k] = v
                /\ \A j \in 1..Len(q') : j > i => k \notin DOMAIN q'[j]
    <3>1. PICK i \in 1..Len(q') :
                /\ k \in DOMAIN q'[i] /\ q'[i][k] = v
                /\ \A j \in 1..Len(q') : j > i => k \notin DOMAIN q'[j]
      BY <2>1
    <3>2. i + 1 \in 1..n /\ k \in DOMAIN q[i + 1] /\ q[i + 1][k] = v
      BY <1>2, <1>4, <3>1
    <3>3. \A j \in 1..n : j > i + 1 => j # 1 /\ j - 1 > i
      BY <3>1, <1>2
    <3>4. \A j \in 1..n : j > i + 1 => k \notin DOMAIN q[j]
      BY <1>5, <3>1, <3>3
    <3> QED
      BY <3>2, <3>4 DEF Arrives
  <2>2. CASE view'[k] = v /\ \A i \in 1..Len(q') : k \notin DOMAIN q'[i]
    <3>1. \A i \in 1..n : i # 1 => k \notin DOMAIN q[i]
      BY <1>5, <2>2
    <3>2. CASE k \in DOMAIN q[1]
      <4>1. q[1][k] = v /\ \A j \in 1..n : j > 1 => k \notin DOMAIN q[j]
        BY <1>3, <1>6, <2>2, <3>1, <3>2
      <4> QED
        BY <1>6, <3>2, <4>1 DEF Arrives
    <3>3. CASE k \notin DOMAIN q[1]
      <4>1. view[k] = v /\ \A j \in 1..n : k \notin DOMAIN q[j]
        BY <1>3, <2>2, <3>1, <3>3
      <4> QED
        BY <4>1 DEF Arrives
    <3> QED
      BY <3>2, <3>3
  <2> QED
    BY <1>8, <2>1, <2>2 DEF Arrives
<1> QED
  BY <1>7, <1>8

\* Nothing is told by a step that moves no data.
LEMMA ToldStays ==
  ASSUME UNCHANGED <<q, view, msiAll>>, lpc' = "offer" <=> lpc = "offer",
         lpc = "offer" => out' = out
  PROVE  \A k, v : (Told(k, v)' <=> Told(k, v)) /\ (Arrives(k, v)' <=> Arrives(k, v))
  BY DEF Told, Arrives

\* A subscription that is over stays over.
LEMMA OverStays == ASSUME IInv, Next PROVE Over => Over'
<1>1. ASSUME NEW k \in Watched, Hset(k) \/ Del(k) \/ Hdel(k) PROVE Over => Over'
  BY <1>1 DEF Hset, Del, Hdel, Change, Over, listener, rpc
<1>2. CASE Main
  <2>1. CASE SendAll
    BY <2>1 DEF SendAll, Over, IInv, Staged, Typed, TypeOK, Listens
  <2>2. CASE TakeUpdate
    BY <2>2 DEF TakeUpdate, Over
  <2>3. CASE Subscribe \/ ListKeys \/ TableData2Msi \/ Tick
    BY <2>3 DEF Subscribe, ListKeys, TableData2Msi, Tick, Over, listener, rpc
  <2>4. CASE FieldTick \/ FieldRead \/ FieldSend
    BY <2>4, FieldReadKeeps DEF FieldTick, FieldSend, Over, listener, rpc
  <2> QED
    BY <1>2, <2>1, <2>2, <2>3, <2>4 DEF Main
<1>3. CASE Listener
  BY <1>3 DEF Listener, Receive, ReadRow, Over, rpc
<1>4. CASE Stop \/ ReceiveError \/ ListenerStops
  BY <1>4 DEF Stop, ReceiveError, ListenerStops, Over, listener, rpc
<1>5. CASE Deliver \/ CloseQueue \/ CloseStop
  BY <1>5 DEF Deliver, CloseQueue, CloseStop, Over, listener
<1> QED
  BY <1>1, <1>2, <1>3, <1>4, <1>5 DEF Next

---------------------------------------------------------------------------
(* The stages                                                              *)

\* Every step keeps what each stage of a subscription implies.
LEMMA NextStaged == ASSUME IInv, Next PROVE Staged'
<1>0. Staged
  BY DEF IInv
<1>1. ASSUME NEW k \in Watched, Hset(k) \/ Del(k) \/ Hdel(k) PROVE Staged'
  <2>1. UNCHANGED <<subscription, main, listener, msi, rpc, view>>
    BY <1>1 DEF Hset, Del, Hdel, Change
  <2> QED
    BY <1>0, <2>1 DEF Staged, Over, Listens, subscription, main, listener, rpc
<1>2. CASE Subscribe
  BY <1>0, <1>2 DEF Subscribe, Staged, Over, Listens, subscription, listener
<1>3. CASE ListKeys
  <2>1. pc = "keys" /\ pc' = "snapshot"
        /\ UNCHANGED <<target, mode, updateOnly, lpc, msi, q, fatal, session, view>>
    BY <1>3 DEF ListKeys, subscription, listener, rpc
  <2> QED
    BY <1>0, <2>1 DEF Staged, Over, Listens
<1>4. CASE TableData2Msi
  BY <1>0, <1>4 DEF TableData2Msi, Staged, Over, Listens, subscription, listener
<1>5. CASE SendAll
  <2>1. IF session = "open" THEN pc' = "listen" ELSE pc' = "gone"
    BY <1>5 DEF SendAll, Send
  <2> QED
    BY <1>0, <1>5, <2>1 DEF SendAll, Staged, Over, Listens, subscription
<1>6. CASE TakeUpdate
  <2>1. pc' = "listen" \/ (pc' = "gone" /\ session # "open")
    BY <1>6 DEF TakeUpdate, Send
  <2>2. Listens
    BY <1>0, <1>6 DEF TakeUpdate, Staged
  <2> QED
    BY <1>0, <1>6, <2>1, <2>2 DEF TakeUpdate, Staged, Over, Listens, subscription
<1>7. CASE Tick
  <2>1. IF session = "open" THEN pc' = "listen" ELSE pc' = "gone"
    BY <1>7 DEF Tick, Send
  <2> QED
    BY <1>0, <1>7, <2>1 DEF Tick, Staged, Over, Listens, subscription, listener
<1>8. CASE FieldTick
  BY <1>0, <1>8 DEF FieldTick, Staged, Over, Listens, subscription, listener, rpc
<1>9. CASE FieldRead
  BY <1>0, <1>9, FieldReadKeeps DEF Staged, Over, Listens
<1>10. CASE FieldSend
  <2>1. pc' = "listen" \/ (pc' = "gone" /\ session # "open")
    BY <1>10 DEF FieldSend, Send
  <2> QED
    BY <1>0, <1>10, <2>1 DEF FieldSend, Staged, Over, Listens, subscription, listener
<1>11. CASE Receive
  BY <1>0, <1>11 DEF Receive, Staged, Over, Listens, subscription, main, rpc
<1>12. CASE ReadRow
  BY <1>0, <1>12 DEF ReadRow, Staged, Over, Listens, subscription, main
<1>13. CASE Stop
  BY <1>0, <1>13 DEF Stop, Staged, Over, Listens, subscription, listener, rpc
<1>14. CASE ReceiveError \/ ListenerStops
  BY <1>0, <1>14
  DEF ReceiveError, ListenerStops, Staged, Over, Listens, subscription, main, rpc
<1>15. CASE Deliver
  BY <1>0, <1>15 DEF Deliver, Staged, Over, Listens, subscription, main, listener
<1>16. CASE CloseQueue \/ CloseStop
  BY <1>0, <1>16
  DEF CloseQueue, CloseStop, Staged, Over, Listens, subscription, main, listener
<1> QED
  BY <1>1, <1>2, <1>3, <1>4, <1>5, <1>6, <1>7, <1>8, <1>9, <1>10, <1>11, <1>12,
     <1>13, <1>14, <1>15, <1>16, Zenon DEF Next, Main, Listener

---------------------------------------------------------------------------
(* The events                                                              *)

\* A change of a row publishes its notification.
LEMMA ChangePublished ==
  ASSUME IInv, NEW k \in Watched, Hset(k) \/ Del(k) \/ Hdel(k)
  PROVE  Published'
<1>0. Typed /\ Published /\ k \in Keys
  BY WatchedKeys DEF IInv
<1>1. PICK op \in {"hset", "del", "hdel"}, v \in Rows :
        Change(k, op, v) /\ (op = "hset" => v # Absent)
  BY DbStreamAssumption DEF Hset, Del, Hdel, Rows
<1>2. db' = [db EXCEPT ![k] = v] /\ db \in [Keys -> Rows] /\ UNCHANGED <<lpc, event>>
      /\ deleted \subseteq deleted' /\ (op # "hset" => k \in deleted')
  BY <1>0, <1>1 DEF Change, listener, Typed, TypeOK
<1>3. \A j \in Keys : j \in deleted \/ db[j] # Absent => j \in deleted' \/ db'[j] # Absent
  BY <1>1, <1>2
<1>4. k \in deleted' \/ (op = "hset" /\ db'[k] # Absent)
  BY <1>0, <1>1, <1>2
<1>5. lpc' = "read" => event'[1] \in deleted' \/ db'[event'[1]] # Absent
  BY <1>0, <1>2, <1>3 DEF Published, Typed, Events
<1>6. \A i \in 1..Len(pub) : pub[i][1] \in Keys
  BY <1>0 DEF Typed, TypeOK
<1>7. pub' = pub \/ pub' = Append(pub, <<k, op>>)
  BY <1>1 DEF Change, Publish
<1>8. ASSUME NEW i \in 1..Len(pub')
      PROVE  pub'[i][1] \in deleted' \/ (pub'[i][2] = "hset" /\ db'[pub'[i][1]] # Absent)
  <2>1. (i \in 1..Len(pub) /\ pub'[i] = pub[i]) \/ pub'[i] = <<k, op>>
    <3>1. pub \in Seq(Keys \X {"hset", "del", "hdel"})
      BY <1>0 DEF Typed, TypeOK
    <3> QED
      BY <1>7, <1>8, <3>1
  <2>2. CASE i \in 1..Len(pub) /\ pub'[i] = pub[i]
    BY <1>0, <1>2, <1>3, <1>6, <2>2 DEF Published
  <2>3. CASE pub'[i] = <<k, op>>
    BY <1>4, <2>3
  <2> QED
    BY <2>1, <2>2, <2>3
<1> QED
  BY <1>5, <1>8 DEF Published

\* A notification that the listener takes is the oldest one.
LEMMA ReceivePublished == ASSUME IInv, Receive PROVE Published'
<1>0. Typed /\ Published
  BY DEF IInv
<1>1. pub \in Seq(Keys \X {"hset", "del", "hdel"}) /\ pub # <<>> /\ pub' = Tail(pub)
      /\ event' = Head(pub) /\ UNCHANGED <<db, deleted>> /\ lpc = "recv"
      /\ (lpc' = "read" => Head(pub)[2] = "hset")
  BY <1>0 DEF Receive, Typed, TypeOK
<1>2. /\ Head(pub) = pub[1] /\ 1 \in 1..Len(pub)
      /\ \A i \in 1..Len(pub') : i + 1 \in 1..Len(pub) /\ pub'[i] = pub[i + 1]
  BY <1>1
<1>3. lpc' = "read" => event'[1] \in deleted' \/ db'[event'[1]] # Absent
  BY <1>0, <1>1, <1>2 DEF Published
<1>4. \A i \in 1..Len(pub') :
        pub'[i][1] \in deleted' \/ (pub'[i][2] = "hset" /\ db'[pub'[i][1]] # Absent)
  BY <1>0, <1>1, <1>2 DEF Published
<1> QED
  BY <1>3, <1>4 DEF Published

\* Every step keeps the account of the notifications on their way.
LEMMA NextPublished == ASSUME IInv, Next PROVE Published'
<1>0. Published
  BY DEF IInv
<1>1. ASSUME NEW k \in Watched, Hset(k) \/ Del(k) \/ Hdel(k) PROVE Published'
  BY <1>1, ChangePublished
<1>2. CASE Receive
  BY <1>2, ReceivePublished
<1>3. ASSUME UNCHANGED <<db, pub, deleted, event>>, lpc' = "read" => lpc = "read"
      PROVE  Published'
  BY <1>0, <1>3 DEF Published
<1>4. CASE Main
  <2>1. UNCHANGED <<db, pub, deleted, event>> /\ (lpc' = "read" => lpc = "read")
    <3>1. CASE SendAll \/ TakeUpdate \/ Tick
      BY <3>1 DEF SendAll, TakeUpdate, Tick, database, listener
    <3>2. CASE Subscribe \/ ListKeys \/ TableData2Msi
      BY <3>2 DEF Subscribe, ListKeys, TableData2Msi, database, listener
    <3>3. CASE FieldTick \/ FieldSend
      BY <3>3 DEF FieldTick, FieldSend, database, listener
    <3>4. CASE FieldRead
      BY <3>4, FieldReadKeeps
    <3> QED
      BY <1>4, <3>1, <3>2, <3>3, <3>4 DEF Main
  <2> QED
    BY <1>3, <2>1
<1>5. CASE ReadRow
  <2>1. UNCHANGED <<db, pub, deleted, event>> /\ lpc = "read"
    BY <1>5 DEF ReadRow
  <2> QED
    BY <1>3, <2>1
<1>6. CASE Stop \/ ReceiveError \/ ListenerStops
  <2>1. UNCHANGED <<db, pub, deleted, event>> /\ (lpc' = "read" => lpc = "read")
    BY <1>6 DEF Stop, ReceiveError, ListenerStops, database, listener
  <2> QED
    BY <1>3, <2>1
<1>7. CASE Deliver \/ CloseQueue \/ CloseStop
  <2>1. UNCHANGED <<db, pub, deleted, event, lpc>>
    BY <1>7 DEF Deliver, CloseQueue, CloseStop, database, listener
  <2> QED
    BY <1>3, <2>1
<1> QED
  BY <1>1, <1>2, <1>4, <1>5, <1>6, <1>7 DEF Next, Listener

---------------------------------------------------------------------------
(* The data                                                                *)

Data == Cached /\ Sent /\ Caught
Open == IInv /\ ~Over /\ ~Over'

\* A step of the subscription goroutine that tells the subscriber the same as
\* before, and takes no read or event away, misses nothing.
Keeps ==
  /\ UNCHANGED <<target, row, db, deleted, msi>>
  /\ \A k \in Keys, v \in Rows : Told(k, v) => Told(k, v)'
  /\ \A k \in Keys : OnItsWay(k) => OnItsWay(k)'

\* What a listener has cached is the contents of a row.
LEMMA CachedTyped ==
  ASSUME Typed
  PROVE  /\ \A k \in DOMAIN msi : k \in Keys /\ msi[k] \in Rows
         /\ \A k \in DOMAIN msiAll : k \in Keys /\ msiAll[k] \in Rows
         /\ \A k \in Watched : k \in Keys /\ db[k] \in Rows
<1>1. msi \in Msgs /\ msiAll \in Msgs /\ db \in [Keys -> Rows]
  BY DEF Typed, TypeOK
<1> QED
  BY <1>1, MsgFacts, WatchedKeys

\* A step that touches neither rows nor messages keeps the account of both.
LEMMA KeepsData ==
  ASSUME Open, Keeps, Sent', pc' = "listen" => pc = "snapshot" \/ pc = "listen" \/ ~Listens,
         pc' = "snapshot" => pc = "snapshot"
  PROVE  Data'
<1>0. Typed /\ Cached /\ Caught /\ ~Over
  BY DEF Open, IInv
<1>1. Cached'
  <2>1. SUFFICES ASSUME NEW k \in DOMAIN msi
                 PROVE  Told(k, msi[k])' \/ (Listens /\ k \in deleted /\ msi[k] # Absent)'
    BY DEF Cached, Keeps
  <2>2. k \in Keys /\ msi[k] \in Rows
    BY <1>0, CachedTyped
  <2>3. Told(k, msi[k]) \/ (Listens /\ k \in deleted /\ msi[k] # Absent)
    BY <1>0 DEF Cached
  <2> QED
    BY <2>2, <2>3 DEF Keeps, Listens
<1>2. Caught'
  <2>1. SUFFICES ASSUME Listens, pc = "snapshot" \/ pc = "listen", NEW k \in Watched
                 PROVE  (\/ Told(k, db[k]) \/ OnItsWay(k)
                         \/ k \in deleted /\ (target = "key" \/ db[k] # Absent))'
    BY DEF Caught, Keeps, Listens, Watched
  <2>2. k \in Keys /\ db[k] \in Rows
    BY <1>0, CachedTyped
  <2>3. \/ Told(k, db[k]) \/ OnItsWay(k)
        \/ k \in deleted /\ (target = "key" \/ db[k] # Absent)
    BY <1>0, <2>1 DEF Caught
  <2> QED
    BY <2>2, <2>3 DEF Keeps
<1> QED
  BY <1>1, <1>2 DEF Data

\* A change of a row is on its way: its notification has been published.
LEMMA ChangeData ==
  ASSUME Open, NEW k \in Watched, Hset(k) \/ Del(k) \/ Hdel(k)
  PROVE  Data'
<1>0. Typed /\ Staged /\ Cached /\ Caught /\ Sent /\ ~Over /\ k \in Keys
  BY WatchedKeys DEF Open, IInv
<1>1. PICK op \in {"hset", "del", "hdel"}, v \in Rows : Change(k, op, v)
  BY DEF Hset, Del, Hdel, Rows
<1>2. /\ db' = [db EXCEPT ![k] = v] /\ db \in [Keys -> Rows] /\ deleted \subseteq deleted'
      /\ UNCHANGED <<target, row, pc, toread, msiAll, lpc, event, out, msi, q, view>>
  BY <1>0, <1>1 DEF Change, subscription, main, listener, rpc, Typed, TypeOK
<1>3. \A j, w : (Told(j, w)' <=> Told(j, w)) /\ (Arrives(j, w)' <=> Arrives(j, w))
  BY <1>2, ToldStays
<1>4. Cached' /\ Sent'
  <2>1. Cached'
    BY <1>0, <1>2, <1>3 DEF Cached, Listens
  <2>2. Sent'
    BY <1>0, <1>2, <1>3 DEF Sent, Listens
  <2> QED
    BY <2>1, <2>2
<1>5. SUFFICES ASSUME Listens, pc = "snapshot" \/ pc = "listen", NEW j \in Watched
               PROVE  (\/ Told(j, db[j]) \/ OnItsWay(j)
                       \/ j \in deleted /\ (target = "key" \/ db[j] # Absent))'
  BY <1>2, <1>4 DEF Data, Caught, Listens, Watched
<1>6. pub' = Append(pub, <<k, op>>)
  BY <1>0, <1>1, <1>5 DEF Change, Publish, Staged
<1>7. pub \in Seq(Keys \X {"hset", "del", "hdel"})
  BY <1>0 DEF Typed, TypeOK
<1>8. /\ Len(pub') \in 1..Len(pub') /\ pub'[Len(pub')] = <<k, op>>
      /\ \A i \in 1..Len(pub) : i \in 1..Len(pub') /\ pub'[i] = pub[i]
  BY <1>6, <1>7
<1>9. CASE j = k
  <2>1. pub'[Len(pub')][1] = k
    BY <1>8
  <2>2. OnItsWay(k)'
    BY <1>8, <2>1, Zenon DEF OnItsWay
  <2> QED
    BY <1>9, <2>2
<1>10. CASE j # k
  <2>1. db'[j] = db[j]
    BY <1>2, <1>10
  <2>2. OnItsWay(j) => OnItsWay(j)'
    BY <1>2, <1>8 DEF OnItsWay
  <2>3. \/ Told(j, db[j]) \/ OnItsWay(j)
        \/ j \in deleted /\ (target = "key" \/ db[j] # Absent)
    BY <1>0, <1>5 DEF Caught
  <2> QED
    BY <1>2, <1>3, <2>1, <2>2, <2>3
<1> QED
  BY <1>9, <1>10

\* Listing the keys comes before the rows are read.
LEMMA ListKeysData == ASSUME Open, ListKeys PROVE Data'
<1>0. Typed /\ Staged /\ Cached /\ ~Over /\ pc = "keys" /\ Listens
  BY DEF Open, IInv, Staged, ListKeys
<1>1. /\ UNCHANGED <<target, row, db, deleted, msiAll, lpc, event, out, msi, q, view>>
      /\ pc' = "snapshot"
  BY DEF ListKeys, subscription, database, listener, rpc
<1>2. msiAll = Empty /\ q = <<>> /\ lpc = "off" /\ msi = Empty
      /\ \A k \in Keys : view[k] = Absent
  BY <1>0 DEF Staged
<1>3. Cached' /\ Sent'
  BY <1>0, <1>1, <1>2, EmptyFacts DEF Cached, Sent, Listens
<1>4. ASSUME NEW k \in Watched PROVE Told(k, db[k])' \/ OnItsWay(k)'
  <2>1. CASE k \in toread'
    BY <1>1, <2>1 DEF OnItsWay
  <2>2. CASE k \notin toread'
    <3>1. db[k] = Absent /\ k \in Keys
      BY <1>0, <2>2, WatchedKeys DEF ListKeys
    <3>2. lpc' # "offer" /\ k \notin DOMAIN msiAll' /\ 1..Len(q') = {} /\ view'[k] = db'[k]
      BY <1>1, <1>2, <3>1, EmptyFacts
    <3> QED
      BY <3>2 DEF Told, Arrives
  <2> QED
    BY <2>1, <2>2
<1> QED
  BY <1>1, <1>3, <1>4 DEF Data, Caught, Watched

\* A row of the snapshot is read after its listener subscribed.
LEMMA TableData2MsiData == ASSUME Open, TableData2Msi PROVE Data'
<1>0. Typed /\ Staged /\ Cached /\ Caught /\ ~Over /\ pc = "snapshot" /\ Listens
  BY DEF Open, IInv, Staged, TableData2Msi
<1>a. fatal' # TRUE
  BY Zenon DEF Open, Over
<1>1. PICK k \in toread : /\ msiAll' = Merge(msiAll, One(k, db[k]))
                          /\ toread' = toread \ {k} /\ UNCHANGED pc
  BY <1>a, Zenon DEF TableData2Msi
<1>2. /\ UNCHANGED <<target, row, db, pub, deleted, lpc, event, out, msi, q, view>>
      /\ msi = Empty /\ lpc = "off"
  <2>1. UNCHANGED <<subscription, db, pub, deleted, listener, msi, q, view>>
    BY Zenon DEF TableData2Msi
  <2> QED
    BY <1>0, <2>1 DEF subscription, listener, Staged
<1>3. /\ k \in Keys /\ DOMAIN msiAll' = DOMAIN msiAll \cup {k} /\ msiAll'[k] = db[k]
      /\ \A j \in DOMAIN msiAll : j # k => msiAll'[j] = msiAll[j]
  <2>1. k \in Keys /\ db[k] \in Rows /\ msiAll \in Msgs
    BY <1>0 DEF Typed, TypeOK
  <2>2. One(k, db[k]) \in Msgs /\ DOMAIN One(k, db[k]) = {k} /\ One(k, db[k])[k] = db[k]
    BY <2>1, OneFacts, Zenon
  <2>3. /\ DOMAIN msiAll' = DOMAIN msiAll \cup DOMAIN One(k, db[k])
        /\ \A j \in DOMAIN One(k, db[k]) : msiAll'[j] = One(k, db[k])[j]
        /\ \A j \in DOMAIN msiAll \ DOMAIN One(k, db[k]) : msiAll'[j] = msiAll[j]
    BY <1>1, <2>1, <2>2, MergeFacts, Zenon
  <2>4. msiAll'[k] = db[k] /\ \A j \in DOMAIN msiAll : j # k => msiAll'[j] = msiAll[j]
    BY <2>2, <2>3, Zenon
  <2> QED
    BY <2>1, <2>2, <2>3, <2>4
<1>4. Told(k, db[k])'
  BY <1>2, <1>3 DEF Told
<1>5. \A j, w : j # k /\ Told(j, w) => Told(j, w)'
  BY <1>2, <1>3, Zenon DEF Told, Arrives
<1>6. ASSUME NEW j, j # k, OnItsWay(j) PROVE OnItsWay(j)'
  <2>1. j \in toread => j \in toread'
    BY <1>1, <1>6
  <2> QED
    BY <1>1, <1>2, <1>6, <2>1, Zenon DEF OnItsWay
<1>7. Cached' /\ Sent'
  BY <1>0, <1>2, EmptyFacts DEF Cached, Sent, Listens
<1>8. Caught'
  BY <1>0, <1>1, <1>2, <1>4, <1>5, <1>6 DEF Caught, Watched
<1> QED
  BY <1>7, <1>8 DEF Data

\* A message that is queued and forgotten, or queued and kept, tells the same.
LEMMA SendAllData == ASSUME Open, SendAll PROVE Data'
<1>0. Typed /\ Staged /\ Cached /\ Caught /\ pc = "snapshot" /\ Listens
  BY DEF Open, IInv, Staged, SendAll
<1>1. session = "open"
  BY DEF Open, Over
<1>2. /\ UNCHANGED <<target, row, db, pub, deleted, toread, event, out, msi, view>>
      /\ q' = Append(q, msiAll) /\ lpc' = "recv" /\ lpc = "off" /\ pc' = "listen" /\ toread = {}
      /\ (msiAll' = msiAll \/ msiAll' = Empty)
  BY <1>0, <1>1 DEF SendAll, Send, subscription, database, Staged
<1>3. \A k, v : Arrives(k, v)' <=> IF k \in DOMAIN msiAll THEN msiAll[k] = v ELSE Arrives(k, v)
  BY <1>0, <1>2, ArrivesAppend
<1>4. \A k, v : Told(k, v) => Told(k, v)'
  BY <1>2, <1>3, EmptyFacts DEF Told
<1>5. \A k : OnItsWay(k) => OnItsWay(k)'
  BY <1>2 DEF OnItsWay
<1>6. Keeps
  BY <1>2, <1>4, <1>5 DEF Keeps
<1>7. Sent'
  BY <1>0, <1>2 DEF Sent, Listens
<1> QED
  BY <1>0, <1>2, <1>6, <1>7, KeepsData

\* The ticker queues what was gathered.
LEMMA TickData == ASSUME Open, Tick PROVE Data'
<1>0. Typed /\ pc = "listen" /\ Listens
  BY DEF Open, IInv, Tick
<1>1. session = "open"
  BY DEF Open, Over
<1>2. /\ UNCHANGED <<target, row, db, pub, deleted, toread, lpc, event, out, msi, view>>
      /\ q' = Append(q, msiAll) /\ pc' = "listen"
      /\ (msiAll' = msiAll \/ msiAll' = Empty)
  BY <1>0, <1>1 DEF Tick, Send, subscription, database, listener
<1>3. \A k, v : Arrives(k, v)' <=> IF k \in DOMAIN msiAll THEN msiAll[k] = v ELSE Arrives(k, v)
  BY <1>0, <1>2, ArrivesAppend
<1>4. \A k, v : Told(k, v) => Told(k, v)'
  BY <1>2, <1>3, EmptyFacts DEF Told
<1>5. \A k : OnItsWay(k) => OnItsWay(k)'
  BY <1>0, <1>2 DEF OnItsWay
<1>6. Keeps
  BY <1>2, <1>4, <1>5 DEF Keeps
<1>7. Sent'
  BY <1>0, <1>2 DEF Sent, Listens
<1> QED
  BY <1>0, <1>2, <1>6, <1>7, KeepsData

\* An update is queued, or gathered for the ticker.
LEMMA TakeUpdateData == ASSUME Open, TakeUpdate PROVE Data'
<1>0. Typed /\ Staged /\ pc = "listen" /\ lpc = "offer" /\ Listens
  BY DEF Open, IInv, Staged, TakeUpdate
<1>1. session = "open" /\ msiAll \in Msgs /\ out \in Msgs
  BY <1>0 DEF Open, Over, Typed, TypeOK
<1>2. /\ UNCHANGED <<target, row, db, pub, deleted, toread, event, out, msi, view>>
      /\ lpc' = "recv" /\ pc' = "listen"
  BY <1>0, <1>1 DEF TakeUpdate, Send, subscription, database
<1>3. \A k, v : Told(k, v) => Told(k, v)'
  <2>1. CASE mode = "ON_CHANGE"
    <3>1. q' = Append(q, out) /\ msiAll' = msiAll /\ msiAll = Empty
      BY <1>0, <1>1, <2>1 DEF TakeUpdate, Send, Staged
    <3>2. \A k, v : Arrives(k, v)' <=> IF k \in DOMAIN out THEN out[k] = v ELSE Arrives(k, v)
      BY <1>0, <1>2, <3>1, ArrivesAppend
    <3> QED
      BY <1>0, <1>2, <3>1, <3>2, EmptyFacts, Zenon DEF Told
  <2>2. CASE mode # "ON_CHANGE"
    <3>1. msiAll' = Merge(msiAll, out) /\ q' = q
      BY <2>2 DEF TakeUpdate
    <3>2. /\ DOMAIN msiAll' = DOMAIN msiAll \cup DOMAIN out
          /\ \A k \in DOMAIN out : msiAll'[k] = out[k]
          /\ \A k \in DOMAIN msiAll \ DOMAIN out : msiAll'[k] = msiAll[k]
      BY <1>1, <3>1, MergeFacts, Zenon
    <3>3. \A k, v : Arrives(k, v)' <=> Arrives(k, v)
      BY <1>2, <3>1 DEF Arrives
    <3> QED
      BY <1>0, <1>2, <3>2, <3>3 DEF Told
  <2> QED
    BY <2>1, <2>2, Zenon
<1>4. \A k : OnItsWay(k) => OnItsWay(k)'
  BY <1>0, <1>2 DEF OnItsWay
<1>5. Keeps
  BY <1>2, <1>3, <1>4 DEF Keeps
<1>6. Sent'
  BY <1>0, <1>2 DEF Sent, Listens
<1> QED
  BY <1>0, <1>2, <1>5, <1>6, KeepsData

\* Delivery moves the oldest message into the view.
LEMMA DeliverData == ASSUME Open, Deliver PROVE Data'
<1>0. Typed /\ Sent /\ ~Over
  BY DEF Open, IInv
<1>1. UNCHANGED <<target, row, db, pub, deleted, pc, toread, msiAll, lpc, event, out, msi>>
  BY DEF Deliver, subscription, database, main, listener
<1>2. \A k \in Keys : \A v : Arrives(k, v)' <=> Arrives(k, v)
  BY <1>0, ArrivesDeliver
<1>3. \A k \in Keys, v \in Rows : Told(k, v) => Told(k, v)'
  BY <1>1, <1>2, Zenon DEF Told
<1>4. \A k : OnItsWay(k) => OnItsWay(k)'
  BY <1>1 DEF OnItsWay
<1>5. Keeps
  BY <1>1, <1>3, <1>4 DEF Keeps
<1>6. Sent'
  BY <1>0, <1>1, <1>2, CachedTyped DEF Sent, Listens
<1> QED
  BY <1>1, <1>5, <1>6, KeepsData

\* An event is followed by a read or reported; a deletion reported for a row
\* that is there again is the excused case.
LEMMA ReceiveData == ASSUME Open, Receive PROVE Data'
<1>0. Typed /\ Staged /\ Published /\ Cached /\ Caught /\ ~Over /\ lpc = "recv" /\ Listens
  BY DEF Open, IInv, Staged, Receive
<1>a. PICK k : k = Head(pub)[1]
  OBVIOUS
<1>1. /\ UNCHANGED <<target, row, db, deleted, pc, toread, msiAll, msi, q, view>>
      /\ pub # <<>> /\ pub' = Tail(pub) /\ event' = Head(pub)
      /\ \/ Head(pub)[2] = "hset" /\ lpc' = "read" /\ out' = out
         \/ Head(pub)[2] # "hset" /\ target = "table" /\ lpc' = "offer" /\ out' = One(k, Absent)
         \/ Head(pub)[2] # "hset" /\ target = "key" /\ lpc' = lpc /\ out' = out
  BY <1>0, <1>a DEF Receive, subscription, main, rpc, Listens
<1>2. pub \in Seq(Keys \X {"hset", "del", "hdel"})
  BY <1>0 DEF Typed, TypeOK
<1>3. /\ Head(pub) = pub[1] /\ 1 \in 1..Len(pub)
      /\ \A i \in 1..Len(pub) : i # 1 => i - 1 \in 1..Len(pub') /\ pub'[i - 1] = pub[i]
  BY <1>1, <1>2
<1>4. k \in Keys /\ (Head(pub)[2] # "hset" => k \in deleted)
  BY <1>a, <1>0, <1>2, <1>3 DEF Published
<1>5. ASSUME NEW j, j # k, OnItsWay(j) PROVE OnItsWay(j)'
  <2>1. CASE pc = "snapshot" /\ j \in toread
    BY <1>1, <2>1 DEF OnItsWay
  <2>2. CASE \E i \in 1..Len(pub) : pub[i][1] = j
    <3>1. PICK i \in 1..Len(pub) : pub[i][1] = j
      BY <2>2
    <3>2. i - 1 \in 1..Len(pub') /\ pub'[i - 1][1] = j
      BY <1>a, <1>3, <1>5, <3>1
    <3> QED
      BY <3>2 DEF OnItsWay
  <2> QED
    BY <1>0, <1>5, <2>1, <2>2 DEF OnItsWay
<1>6. CASE Head(pub)[2] = "hset" \/ target = "key"
  <2>1. \A j, v : Told(j, v)' <=> Told(j, v)
    BY <1>0, <1>1, <1>6, ToldStays
  <2>2. Cached' /\ Sent'
    <3>1. Cached'
      BY <1>0, <1>1, <2>1 DEF Cached, Listens
    <3> QED
      BY <1>0, <1>1, <3>1 DEF Sent, Listens
  <2>3. OnItsWay(k)' \/ (target = "key" /\ k \in deleted)
    BY <1>a, <1>1, <1>4, <1>6 DEF OnItsWay
  <2>4. SUFFICES ASSUME pc = "snapshot" \/ pc = "listen", NEW j \in Watched
                 PROVE  (\/ Told(j, db[j]) \/ OnItsWay(j)
                         \/ j \in deleted /\ (target = "key" \/ db[j] # Absent))'
    BY <1>1, <2>2 DEF Data, Caught, Watched
  <2>5. \/ Told(j, db[j]) \/ OnItsWay(j)
        \/ j \in deleted /\ (target = "key" \/ db[j] # Absent)
    BY <1>0, <2>4 DEF Caught
  <2>6. CASE j = k
    BY <1>1, <2>3, <2>6
  <2>7. CASE j # k
    BY <1>1, <1>5, <2>1, <2>5, <2>7
  <2> QED
    BY <2>6, <2>7
<1>7. CASE Head(pub)[2] # "hset" /\ target = "table"
  <2>1. lpc' = "offer" /\ out' = One(k, Absent) /\ k \in deleted
    BY <1>1, <1>4, <1>7
  <2>2. DOMAIN out' = {k} /\ out'[k] = Absent
    BY <1>4, <2>1, OneFacts, Zenon DEF Rows
  <2>3. Told(k, Absent)'
    BY <2>1, <2>2 DEF Told
  <2>4. \A j, v : j # k => (Told(j, v)' <=> Told(j, v))
    <3>1. \A j, v : Arrives(j, v)' <=> Arrives(j, v)
      BY <1>1 DEF Arrives
    <3>2. \A j : j # k => j \notin DOMAIN out'
      BY <2>2
    <3> QED
      BY <1>0, <1>1, <3>1, <3>2 DEF Told
  <2>5. Cached'
    <3>1. SUFFICES ASSUME NEW j \in DOMAIN msi
                   PROVE  Told(j, msi[j])' \/ (Listens /\ j \in deleted /\ msi[j] # Absent)'
      BY <1>1 DEF Cached
    <3>2. CASE j = k
      BY <1>0, <1>1, <2>1, <2>3, <3>2 DEF Listens
    <3>3. CASE j # k
      BY <1>0, <1>1, <2>4, <3>3 DEF Cached, Listens
    <3> QED
      BY <3>2, <3>3
  <2>6. Sent'
    BY <1>0, <1>1 DEF Sent, Listens
  <2>7. SUFFICES ASSUME pc = "snapshot" \/ pc = "listen", NEW j \in Watched
                 PROVE  (\/ Told(j, db[j]) \/ OnItsWay(j)
                         \/ j \in deleted /\ (target = "key" \/ db[j] # Absent))'
    BY <1>1, <2>5, <2>6 DEF Data, Caught, Watched
  <2>8. CASE j = k
    BY <1>1, <2>1, <2>3, <2>8
  <2>9. CASE j # k
    <3>1. \/ Told(j, db[j]) \/ OnItsWay(j)
          \/ j \in deleted /\ (target = "key" \/ db[j] # Absent)
      BY <1>0, <2>7 DEF Caught
    <3> QED
      BY <1>1, <1>5, <2>4, <2>9, <3>1
  <2> QED
    BY <2>8, <2>9
<1> QED
  BY <1>1, <1>6, <1>7

\* A read tells the row as it is; one that is left out was told before.
LEMMA ReadRowData == ASSUME Open, ReadRow PROVE Data'
<1>a. PICK k : k = event[1]
  OBVIOUS
<1> DEFINE newMsi == IF target = "key" /\ db[k] = Absent THEN Empty ELSE One(k, db[k])
<1>0. Typed /\ Staged /\ Published /\ Cached /\ Caught /\ ~Over /\ lpc = "read" /\ Listens
  BY DEF Open, IInv, Staged, ReadRow
<1>1. fatal' # TRUE
  BY Zenon DEF Open, Over
<1>2. /\ msi' = newMsi
      /\ IF newMsi = msi \/ newMsi = Empty
         THEN lpc' = "recv" /\ out' = out ELSE lpc' = "offer" /\ out' = newMsi
  BY <1>a, <1>1, Zenon DEF ReadRow
<1>3. UNCHANGED <<target, row, db, pub, deleted, pc, toread, msiAll, event, q, view>>
  <2>1. UNCHANGED <<subscription, db, pub, deleted, event, main, q, session, view>>
    BY Zenon DEF ReadRow
  <2> QED
    BY <2>1 DEF subscription, main
<1>4. k \in Keys /\ db[k] \in Rows
  BY <1>a, <1>0 DEF Typed, TypeOK, Events
<1>5. DOMAIN One(k, db[k]) = {k} /\ One(k, db[k])[k] = db[k] /\ One(k, db[k]) # Empty
  BY <1>4, OneFacts, Zenon
<1>6. \A j, v : Arrives(j, v)' <=> Arrives(j, v)
  BY <1>3, Zenon DEF Arrives
<1>7. \A j, v : j # k => (Told(j, v)' <=> Told(j, v))
  <2>1. lpc' = "offer" => \A j : j # k => j \notin DOMAIN out'
    BY <1>2, <1>5
  <2> QED
    BY <1>0, <1>3, <1>6, <2>1, Zenon DEF Told
<1>8. Told(k, db[k])' \/ (k \in deleted /\ (target = "key" \/ db[k] # Absent))
  <2>1. CASE newMsi = Empty
    <3>1. target = "key" /\ db[k] = Absent
      BY <1>5, <2>1
    <3> QED
      BY <1>a, <1>0, <3>1, Zenon DEF Published
  <2>2. CASE newMsi # Empty /\ newMsi = msi
    <3>1. k \in DOMAIN msi /\ msi[k] = db[k]
      BY <1>5, <2>2
    <3>2. Told(k, db[k]) \/ (k \in deleted /\ db[k] # Absent)
      BY <1>0, <3>1 DEF Cached
    <3>3. Told(k, db[k])' <=> Told(k, db[k])
      BY <1>0, <1>2, <1>3, <2>2, <1>6, Zenon DEF Told
    <3> QED
      BY <3>2, <3>3
  <2>3. CASE newMsi # Empty /\ newMsi # msi
    <3>1. lpc' = "offer" /\ k \in DOMAIN out' /\ out'[k] = db[k]
      BY <1>2, <1>5, <2>3
    <3> QED
      BY <1>3, <3>1, Zenon DEF Told
  <2> QED
    BY <2>1, <2>2, <2>3
<1>9. Cached'
  <2>1. DOMAIN msi' \subseteq {k}
    BY <1>2, <1>5, EmptyFacts
  <2>2. k \in DOMAIN msi' => msi'[k] = db[k] /\ newMsi # Empty
    BY <1>2, <1>5, EmptyFacts
  <2>3. k \in DOMAIN msi' => Told(k, db[k])' \/ (k \in deleted /\ db[k] # Absent)
    BY <1>8, <2>2
  <2> QED
    BY <1>0, <1>3, <2>1, <2>2, <2>3, Zenon DEF Cached, Listens
<1>10. Sent'
  BY <1>0, <1>3 DEF Sent, Listens
<1>11. SUFFICES ASSUME pc = "snapshot" \/ pc = "listen", NEW j \in Watched
               PROVE  (\/ Told(j, db[j]) \/ OnItsWay(j)
                       \/ j \in deleted /\ (target = "key" \/ db[j] # Absent))'
  BY <1>3, <1>9, <1>10 DEF Data, Caught, Watched
<1>12. CASE j = k
  BY <1>3, <1>8, <1>12
<1>13. CASE j # k
  <2>1. \/ Told(j, db[j]) \/ OnItsWay(j)
        \/ j \in deleted /\ (target = "key" \/ db[j] # Absent)
    BY <1>0, <1>11 DEF Caught
  <2>2. OnItsWay(j) => OnItsWay(j)'
    BY <1>a, <1>3, <1>13, Zenon DEF OnItsWay
  <2> QED
    BY <1>3, <1>7, <1>13, <2>1, <2>2
<1> QED
  BY <1>12, <1>13

\* Subscribing starts with nothing to account for.
LEMMA SubscribeData == ASSUME Open, Subscribe PROVE Data'
<1>0. Cached /\ ~Over /\ Listens
  BY DEF Open, IInv, Subscribe
<1>1. UNCHANGED <<target, deleted, msiAll, lpc, out, msi, q, view>>
      /\ pc' # "snapshot" /\ pc' # "listen"
  BY DEF Subscribe, subscription, listener
<1>2. \A j, w : Told(j, w)' <=> Told(j, w)
  BY <1>1, ToldStays
<1>3. Cached'
  BY <1>0, <1>1, <1>2 DEF Cached, Listens
<1> QED
  BY <1>1, <1>3 DEF Data, Sent, Caught

\* A new pass starts from what the previous one has sent.
LEMMA FieldTickData == ASSUME Open, FieldTick PROVE Data'
<1>0. Staged /\ Cached /\ Sent /\ ~Over /\ ~Listens /\ lpc # "offer"
  BY DEF Open, IInv, FieldTick, Staged
<1>1. UNCHANGED <<target, deleted, lpc, out, msi, q, view>> /\ pc' = "poll"
      /\ (pc = "subscribe" \/ pc = "listen") /\ DOMAIN msiAll' = {}
  BY EmptyFacts DEF FieldTick, subscription, database, listener, rpc
<1>2. \A j, w : Arrives(j, w)' <=> Arrives(j, w)
  BY <1>1 DEF Arrives
<1>3. \A j, w : Told(j, w) => Told(j, w)'
  <2>1. \A j \in DOMAIN msiAll : Arrives(j, msiAll[j])
    BY <1>0, <1>1, EmptyFacts, Zenon DEF Sent, Staged
  <2> QED
    BY <1>0, <1>1, <1>2, <2>1, Zenon DEF Told
<1>4. Cached'
  BY <1>0, <1>1, <1>3 DEF Cached, Listens
<1> QED
  BY <1>1, <1>4 DEF Data, Sent, Caught

\* A field that is left out was told before; any other is gathered.
LEMMA FieldReadData == ASSUME Open, FieldRead PROVE Data'
<1>0. Typed /\ Cached /\ ~Over /\ ~Listens /\ lpc # "offer"
  BY FieldReadKeeps DEF Open, IInv, Staged
<1>1. UNCHANGED <<target, deleted, lpc, out, q, view>> /\ pc' = "poll"
  BY FieldReadKeeps
<1>2. \A j, w : Arrives(j, w)' <=> Arrives(j, w)
  BY <1>1, Zenon DEF Arrives
<1>3. PICK k \in toread, val \in Rows :
        \/ UNCHANGED <<msi, msiAll>>
        \/ msi' = Merge(msi, One(k, val)) /\ msiAll' = Merge(msiAll, One(k, val))
  <2>1. Absent \in Rows /\ \A k \in toread : db[k] \in Rows
    BY <1>0 DEF Typed, TypeOK, Rows
  <2> QED
    BY <2>1, Zenon DEF FieldRead
<1>4. CASE UNCHANGED <<msi, msiAll>>
  <2>1. \A j, w : Told(j, w)' <=> Told(j, w)
    BY <1>1, <1>4, ToldStays
  <2> QED
    BY <1>0, <1>1, <1>4, <2>1 DEF Data, Sent, Caught, Cached, Listens
<1>5. CASE msi' = Merge(msi, One(k, val)) /\ msiAll' = Merge(msiAll, One(k, val))
  <2>1. k \in Keys /\ msi \in Msgs /\ msiAll \in Msgs
    BY <1>0 DEF Typed, TypeOK
  <2>2. One(k, val) \in Msgs /\ DOMAIN One(k, val) = {k} /\ One(k, val)[k] = val
    BY <2>1, OneFacts, Zenon
  <2>3. ASSUME NEW f \in Msgs
        PROVE  /\ DOMAIN Merge(f, One(k, val)) = DOMAIN f \cup {k}
               /\ Merge(f, One(k, val))[k] = val
               /\ \A j \in DOMAIN f : j # k => Merge(f, One(k, val))[j] = f[j]
    <3>1. /\ DOMAIN Merge(f, One(k, val)) = DOMAIN f \cup DOMAIN One(k, val)
          /\ \A j \in DOMAIN One(k, val) : Merge(f, One(k, val))[j] = One(k, val)[j]
          /\ \A j \in DOMAIN f \ DOMAIN One(k, val) : Merge(f, One(k, val))[j] = f[j]
      BY <2>2, MergeFacts, Zenon
    <3> QED
      BY <2>2, <3>1, Zenon
  <2>4. /\ DOMAIN msi' = DOMAIN msi \cup {k} /\ msi'[k] = val
        /\ \A j \in DOMAIN msi : j # k => msi'[j] = msi[j]
    BY <1>5, <2>1, <2>3, Zenon
  <2>5. /\ DOMAIN msiAll' = DOMAIN msiAll \cup {k} /\ msiAll'[k] = val
        /\ \A j \in DOMAIN msiAll : j # k => msiAll'[j] = msiAll[j]
    BY <1>5, <2>1, <2>3, Zenon
  <2>6. Told(k, val)'
    BY <1>0, <1>1, <2>5, Zenon DEF Told
  <2>7. \A j, w : j # k /\ Told(j, w) => Told(j, w)'
    BY <1>0, <1>1, <1>2, <2>5, Zenon DEF Told
  <2>8. ASSUME NEW j \in DOMAIN msi' PROVE Told(j, msi[j])'
    <3>1. CASE j = k
      BY <2>4, <2>6, <3>1
    <3>2. CASE j # k
      <4>1. j \in DOMAIN msi /\ msi'[j] = msi[j]
        BY <2>4, <2>8, <3>2
      <4>2. Told(j, msi[j])
        BY <1>0, <4>1 DEF Cached
      <4> QED
        BY <2>7, <3>2, <4>1, <4>2
    <3> QED
      BY <3>1, <3>2
  <2> QED
    BY <1>0, <1>1, <2>8, Zenon DEF Data, Sent, Caught, Cached, Listens
<1> QED
  BY <1>3, <1>4, <1>5

\* Sending what a pass gathered tells the same.
LEMMA FieldSendData == ASSUME Open, FieldSend PROVE Data'
<1>0. Typed /\ Cached /\ ~Over /\ ~Listens /\ lpc # "offer" /\ session = "open"
  BY DEF Open, IInv, Staged, FieldSend, Over
<1>1. UNCHANGED <<target, deleted, lpc, out, msi, msiAll, view>> /\ pc' = "listen"
      /\ (q' = Append(q, msiAll) \/ (q' = q /\ msiAll = Empty))
  BY <1>0 DEF FieldSend, Send, subscription, database, listener
<1>2. \A j, w : Arrives(j, w)' <=> IF j \in DOMAIN msiAll THEN msiAll[j] = w ELSE Arrives(j, w)
  <2>1. CASE q' = Append(q, msiAll)
    BY <1>0, <1>1, <2>1, ArrivesAppend
  <2>2. CASE q' = q /\ msiAll = Empty
    BY <1>1, <2>2, EmptyFacts DEF Arrives
  <2> QED
    BY <1>1, <2>1, <2>2
<1>3. \A j, w : Told(j, w) => Told(j, w)'
  BY <1>0, <1>1, <1>2, Zenon DEF Told
<1>4. Cached'
  BY <1>0, <1>1, <1>3 DEF Cached, Listens
<1>5. Sent'
  BY <1>1, <1>2, Zenon DEF Sent
<1> QED
  BY <1>0, <1>1, <1>4, <1>5 DEF Data, Caught, Listens

\* Every step of an open session keeps the account of rows and messages.
LEMMA NextData == ASSUME IInv, Next PROVE Data'
<1>1. CASE Over'
  BY <1>1, Zenon DEF Data, Cached, Sent, Caught
<1>2. CASE ~Over'
  <2>1. Open
    BY <1>2, OverStays DEF Open
  <2>2. ~(Stop \/ ReceiveError \/ ListenerStops \/ CloseQueue \/ CloseStop)
    BY <2>1 DEF Open, Over, Stop, ReceiveError, ListenerStops, CloseQueue, CloseStop
  <2> QED
    BY <2>1, <2>2, ChangeData, SubscribeData, ListKeysData, TableData2MsiData, SendAllData,
       TakeUpdateData, TickData, FieldTickData, FieldReadData, FieldSendData, ReceiveData,
       ReadRowData, DeliverData, Zenon
    DEF Next, Main, Listener
<1> QED
  BY <1>1, <1>2

---------------------------------------------------------------------------
(* Full samples                                                            *)

Full == Listens /\ mode = "SAMPLE" /\ ~updateOnly

\* A message is queued whole, and only by SendAll and Tick.
LEMMA FullSends ==
  ASSUME IInv, Next, Full
  PROVE  /\ q' = q \/ q' = <<>> \/ q' = Append(q, msiAll) \/ Deliver
         /\ q' = Append(q, msiAll) => UNCHANGED <<msiAll, view>>
         /\ DOMAIN msiAll \subseteq DOMAIN msiAll'
         /\ ~Deliver => view' = view
         /\ UNCHANGED <<target, mode, updateOnly>>
<1>0. Typed /\ Staged /\ msiAll \in Msgs /\ out \in Msgs /\ q \in Seq(Msgs)
  BY DEF IInv, Typed, TypeOK
<1> DEFINE Goal == /\ q' = q \/ q' = <<>> \/ q' = Append(q, msiAll) \/ Deliver
                   /\ q' = Append(q, msiAll) => UNCHANGED <<msiAll, view>>
                   /\ DOMAIN msiAll \subseteq DOMAIN msiAll'
                   /\ ~Deliver => view' = view
                   /\ UNCHANGED <<target, mode, updateOnly>>
<1>a. Append(q, msiAll) # q /\ Append(q, msiAll) # <<>>
  <2>1. Len(q) \in Nat /\ Len(Append(q, msiAll)) = Len(q) + 1
    BY <1>0
  <2> QED
    BY <2>1
<1>b. ASSUME UNCHANGED <<q, view, target, mode, updateOnly>>,
             DOMAIN msiAll \subseteq DOMAIN msiAll'
      PROVE  Goal
  BY <1>a, <1>b
<1>1. ASSUME NEW k \in Watched, Hset(k) \/ Del(k) \/ Hdel(k) PROVE Goal
  <2>1. UNCHANGED <<q, view, target, mode, updateOnly, msiAll>>
    BY <1>1 DEF Hset, Del, Hdel, Change, subscription, main, rpc
  <2> QED
    BY <1>b, <2>1
<1>2. CASE Subscribe \/ ListKeys
  <2>1. UNCHANGED <<q, view, target, mode, updateOnly, msiAll>>
    BY <1>2 DEF Subscribe, ListKeys, subscription, rpc
  <2> QED
    BY <1>b, <2>1
<1>3. CASE TableData2Msi
  <2>1. UNCHANGED <<q, view, target, mode, updateOnly>>
    BY <1>3 DEF TableData2Msi, subscription
  <2>2. PICK k \in toread : msiAll' = Merge(msiAll, One(k, db[k])) \/ msiAll' = msiAll
    BY <1>3, Zenon DEF TableData2Msi
  <2>3. k \in Keys /\ db[k] \in Rows
    BY <1>0 DEF Typed, TypeOK
  <2>4. One(k, db[k]) \in Msgs
    BY <2>3, OneFacts, Zenon
  <2>5. DOMAIN Merge(msiAll, One(k, db[k])) = DOMAIN msiAll \cup DOMAIN One(k, db[k])
    BY <1>0, <2>4, MergeFacts, Zenon
  <2>6. DOMAIN msiAll \subseteq DOMAIN msiAll'
    BY <2>2, <2>5
  <2> QED
    BY <1>b, <2>1, <2>6
<1>4. CASE SendAll \/ Tick
  <2>1. UNCHANGED <<view, target, mode, updateOnly, msiAll>>
        /\ (q' = Append(q, msiAll) \/ q' = q)
    BY <1>4 DEF SendAll, Tick, Send, subscription, Full
  <2> QED
    BY <2>1
<1>5. CASE TakeUpdate
  <2>1. msiAll' = Merge(msiAll, out) /\ UNCHANGED <<q, view, target, mode, updateOnly>>
    BY <1>5 DEF TakeUpdate, Full, subscription
  <2>2. DOMAIN Merge(msiAll, out) = DOMAIN msiAll \cup DOMAIN out
    BY <1>0, MergeFacts, Zenon
  <2> QED
    BY <1>b, <2>1, <2>2
<1>6. ~(FieldTick \/ FieldRead \/ FieldSend)
  BY <1>0, FieldReadKeeps DEF FieldTick, FieldSend, Full, Staged
<1>7. CASE Listener
  <2>1. UNCHANGED <<q, view, target, mode, updateOnly, msiAll>>
    BY <1>7, Zenon DEF Listener, Receive, ReadRow, subscription, main, rpc
  <2> QED
    BY <1>b, <2>1
<1>8. CASE Stop \/ ReceiveError \/ ListenerStops
  <2>1. UNCHANGED <<q, view, target, mode, updateOnly, msiAll>>
    BY <1>8 DEF Stop, ReceiveError, ListenerStops, subscription, main, rpc
  <2> QED
    BY <1>b, <2>1
<1>9. CASE Deliver
  <2>1. Len(Tail(q)) # Len(Append(q, msiAll))
    BY <1>0, <1>9 DEF Deliver
  <2>2. q' # Append(q, msiAll) /\ UNCHANGED <<target, mode, updateOnly, msiAll>>
    BY <1>9, <2>1, Zenon DEF Deliver, subscription, main
  <2> QED
    BY <1>9, <2>2
<1>10. CASE CloseQueue \/ CloseStop
  <2>1. UNCHANGED <<view, target, mode, updateOnly, msiAll>> /\ (q' = q \/ q' = <<>>)
    BY <1>10 DEF CloseQueue, CloseStop, subscription, main
  <2> QED
    BY <2>1
<1> QED
  BY <1>1, <1>2, <1>3, <1>4, <1>5, <1>6, <1>7, <1>8, <1>9, <1>10, Zenon DEF Next, Main

\* Every step keeps what the ticker gathers a superset of the view.
LEMMA NextGrows == ASSUME IInv, Next PROVE Grows'
<1>1. SUFFICES ASSUME Full'
               PROVE  /\ \A k \in Keys : view'[k] # Absent => k \in DOMAIN msiAll'
                      /\ \A i \in 1..Len(q') : DOMAIN q'[i] \subseteq DOMAIN msiAll'
  BY DEF Grows, Full
<1>2. Full
  <2>1. UNCHANGED subscription
    BY Zenon DEF Next, Hset, Del, Hdel, Change, Main, Listener, Subscribe, ListKeys,
       TableData2Msi, SendAll, TakeUpdate, Tick, FieldTick, FieldRead, FieldSend, Stop,
       Receive, ReadRow, ReceiveError, ListenerStops, Deliver, CloseQueue, CloseStop
  <2> QED
    BY <1>1, <2>1 DEF Full, Listens, subscription
<1>3. q \in Seq(Msgs) /\ DOMAIN msiAll \subseteq DOMAIN msiAll'
  BY <1>2, FullSends DEF IInv, Typed, TypeOK
<1>4. /\ \A k \in Keys : view[k] # Absent => k \in DOMAIN msiAll
      /\ \A i \in 1..Len(q) : DOMAIN q[i] \subseteq DOMAIN msiAll
  BY <1>2 DEF IInv, Grows, Full
<1>5. CASE Deliver
  <2>1. q # <<>> /\ q' = Tail(q)
    BY <1>5 DEF Deliver
  <2>2. /\ 1 \in 1..Len(q) /\ Head(q) = q[1]
        /\ \A i \in 1..Len(q') : i + 1 \in 1..Len(q) /\ q'[i] = q[i + 1]
    BY <1>3, <2>1
  <2>3. \A k \in Keys : view'[k] = IF k \in DOMAIN Head(q) THEN Head(q)[k] ELSE view[k]
    BY <1>5 DEF Deliver
  <2>4. \A k \in Keys : view'[k] # Absent => k \in DOMAIN msiAll'
    BY <1>3, <1>4, <2>2, <2>3, Zenon
  <2>5. \A i \in 1..Len(q') : DOMAIN q'[i] \subseteq DOMAIN msiAll'
    BY <1>3, <1>4, <2>2, Zenon
  <2> QED
    BY <2>4, <2>5
<1>6. CASE ~Deliver
  <2>1. view' = view /\ (q' = q \/ q' = <<>> \/ q' = Append(q, msiAll))
    BY <1>2, <1>6, FullSends
  <2>2. \A i \in 1..Len(q') : (i \in 1..Len(q) /\ q'[i] = q[i]) \/ q'[i] = msiAll
    BY <1>3, <2>1
  <2> QED
    BY <1>3, <1>4, <2>1, <2>2, Zenon
<1> QED
  BY <1>5, <1>6

---------------------------------------------------------------------------
(* The theorems                                                            *)

\* Every step preserves the inductive invariant.
LEMMA NextIInv == IInv /\ [Next]_vars => IInv'
<1>1. ASSUME IInv, Next PROVE IInv'
  <2>1. Typed'
    BY <1>1, NextTyped DEF IInv
  <2> QED
    BY <1>1, <2>1, NextStaged, NextPublished, NextData, NextGrows DEF IInv, Data
<1>2. ASSUME IInv, UNCHANGED vars PROVE IInv'
  <2>0. UNCHANGED <<target, row, mode, updateOnly, db, pub, ops, deleted, pc, toread>>
        /\ UNCHANGED <<msiAll, lpc, event, out, msi, q, fatal, session, view>>
    BY <1>2 DEF vars, subscription, database, main, listener, rpc
  <2>1. Typed'
    BY <1>2, NextTyped DEF IInv
  <2>2. Staged' /\ Published'
    BY <1>2, <2>0, Zenon DEF IInv, Staged, Published, Over, Listens
  <2>3. Grows'
    BY <1>2, <2>0, Zenon DEF IInv, Grows, Listens
  <2>4. Data'
    <3>1. \A j, w : (Told(j, w)' <=> Told(j, w)) /\ (Arrives(j, w)' <=> Arrives(j, w))
      BY <2>0, ToldStays
    <3>2. \A j : OnItsWay(j)' <=> OnItsWay(j)
      BY <2>0 DEF OnItsWay
    <3>3. Cached' /\ Sent'
      BY <1>2, <2>0, <3>1 DEF IInv, Cached, Sent, Over, Listens
    <3>4. Caught'
      BY <1>2, <2>0, <3>1, <3>2 DEF IInv, Caught, Over, Listens, Watched
    <3> QED
      BY <3>3, <3>4 DEF Data
  <2> QED
    BY <2>1, <2>2, <2>3, <2>4 DEF IInv, Data
<1> QED
  BY <1>1, <1>2

\* The invariant holds in every reachable state.
THEOREM SpecIInv == Spec => []IInv
  BY InitIInv, NextIInv, PTL DEF Spec

\* For every row a table or row subscription watches, from its snapshot on,
\* the subscriber is told what the database holds or a read of the row is to
\* come; a poller that leaves a field out has told its value before.
THEOREM MissesNothing == Spec => []NothingMissed
<1>1. IInv => NothingMissed
  <2>1. SUFFICES ASSUME IInv, ~Over, NEW k \in Watched
                 PROVE  IF Listens
                        THEN pc \in {"snapshot", "listen"} =>
                               \/ Told(k, db[k]) \/ OnItsWay(k)
                               \/ k \in deleted /\ (target = "key" \/ db[k] # Absent)
                        ELSE k \in DOMAIN msi => Told(k, msi[k])
    BY DEF NothingMissed
  <2>2. CASE Listens
    BY <2>1, <2>2 DEF IInv, Caught
  <2>3. CASE ~Listens
    BY <2>1, <2>3 DEF IInv, Cached
  <2> QED
    BY <2>2, <2>3, Zenon
<1> QED
  BY <1>1, SpecIInv, PTL

\* Nothing is on its way to the subscriber of a table or a row.
Quiet ==
  /\ ~Over /\ Listens /\ pc = "listen" /\ lpc = "recv"
  /\ pub = <<>> /\ q = <<>> /\ msiAll = Empty

\* When nothing is on its way, the subscriber has what the database holds,
\* and of a table it keeps no row that is gone: the safety core of Converges
\* and NoGhostRows.
THEOREM QuietInSync ==
  Spec => [](Quiet => \A k \in Watched :
                        /\ InSync(k)
                        /\ target = "table" /\ db[k] = Absent => view[k] = Absent)
<1>1. ASSUME IInv, Quiet, NEW k \in Watched
      PROVE  InSync(k) /\ (target = "table" /\ db[k] = Absent => view[k] = Absent)
  <2>1. \/ Told(k, db[k]) \/ OnItsWay(k)
        \/ k \in deleted /\ (target = "key" \/ db[k] # Absent)
    BY <1>1 DEF IInv, Caught, Quiet
  <2>2. ~OnItsWay(k)
    BY <1>1 DEF Quiet, OnItsWay
  <2>3. Told(k, db[k]) => view[k] = db[k]
    <3>1. lpc # "offer" /\ k \notin DOMAIN msiAll /\ 1..Len(q) = {}
      BY <1>1, EmptyFacts DEF Quiet
    <3> QED
      BY <3>1 DEF Told, Arrives
  <2> QED
    BY <1>1, <2>1, <2>2, <2>3 DEF InSync, Quiet
<1>2. IInv => (Quiet => \A k \in Watched :
                          /\ InSync(k)
                          /\ target = "table" /\ db[k] = Absent => view[k] = Absent)
  BY <1>1
<1> QED
  BY <1>2, SpecIInv, PTL

\* A message of the ticker of a SAMPLE subscription without suppress_redundant
\* carries every row the subscriber knows of.
THEOREM SamplesFull == Spec => FullSamples
<1> DEFINE A == Listens /\ mode = "SAMPLE" /\ ~updateOnly /\ Len(q') > Len(q)
                => {k \in Keys : view[k] # Absent} \subseteq DOMAIN q'[Len(q')]
<1>1. ASSUME IInv, Next PROVE A
  <2>1. SUFFICES ASSUME Full, Len(q') > Len(q)
                 PROVE  {k \in Keys : view[k] # Absent} \subseteq DOMAIN q'[Len(q')]
    BY DEF Full
  <2>2. q \in Seq(Msgs) /\ Len(q) \in Nat
    BY <1>1 DEF IInv, Typed, TypeOK
  <2>3. ~Deliver
    BY <2>1, <2>2 DEF Deliver
  <2>4. q' = Append(q, msiAll)
    BY <1>1, <2>1, <2>2, <2>3, FullSends
  <2>5. q'[Len(q')] = msiAll
    BY <2>2, <2>4
  <2>6. \A k \in Keys : view[k] # Absent => k \in DOMAIN msiAll
    BY <1>1, <2>1 DEF IInv, Grows, Full
  <2> QED
    BY <2>5, <2>6
<1>2. IInv /\ [Next]_vars => [A]_vars
  BY <1>1
<1> QED
  BY <1>2, SpecIInv, PTL DEF Spec, FullSamples
=============================================================================
