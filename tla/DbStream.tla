------------------------------ MODULE DbStream ------------------------------
(***************************************************************************)
(* What one STREAM subscription of DbClient or MixedDbClient tells its     *)
(* subscriber about the database (sonic_data_client/db_client.go and       *)
(* mixed_db_client.go): dbTableKeySubscribe with the listener goroutine    *)
(* dbSingleTableKeySubscribe for a table or one of its rows,               *)
(* dbFieldSubscribe and dbFieldMultiSubscribe for fields.                  *)
(*                                                                         *)
(* Every redis command is a step of its own.  A row, or a field, has one   *)
(* abstract value; an empty row and a missing one are both Absent, because *)
(* the messages do not tell them apart.  A message is a function from the  *)
(* rows it carries to their values.  The database publishes one keyspace   *)
(* event per change, delivered in order to those subscribed before it.     *)
(***************************************************************************)
EXTENDS Naturals, Sequences, FiniteSets

CONSTANTS Keys,       \* rows of the table, or fields of a wildcard path
          Values,     \* contents of a row
          Absent,
          Targets,    \* "table", "key", "field", "fields"
          Modes,      \* "ON_CHANGE", "SAMPLE"
          Ops,        \* what happens to the database: "hset", "del", "hdel"
          Faults,     \* "pubsub", "row", "close"
          MaxOps,     \* bound on changes and faults
          MaxQueue    \* bound on what the interval ticker queues

ASSUME DbStreamAssumption ==
  /\ Keys # {} /\ IsFiniteSet(Keys) /\ Absent \notin Values
  /\ Targets \subseteq {"table", "key", "field", "fields"}
  /\ Modes \subseteq {"ON_CHANGE", "SAMPLE"}
  /\ Ops \subseteq {"hset", "del", "hdel"}
  /\ Faults \subseteq {"pubsub", "row", "close"}
  /\ MaxOps \in Nat /\ MaxQueue \in Nat \ {0}

VARIABLES
  target, row,        \* what is subscribed to; row for "key" and "field"
  mode, updateOnly,   \* the subscription; ON_CHANGE is always updateOnly
  db, pub,            \* the database, and events not yet received
  ops, deleted,       \* changes so far, rows deleted since the subscription
  pc, toread, msiAll, \* the subscription goroutine
  lpc, event, out,    \* the listener goroutine
  msi,                \* the listener's or the poller's previous data
  q, fatal, session,  \* Client.q, a fatal value in it, the RPC
  view                \* what the subscriber knows

subscription == <<target, row, mode, updateOnly>>
database == <<db, pub, ops, deleted>>
main == <<pc, toread, msiAll>>
listener == <<lpc, event, out>>
rpc == <<q, fatal, session>>
vars == <<subscription, database, main, listener, msi, rpc, view>>

Rows == Values \cup {Absent}
Empty == [k \in {} |-> Absent]
One(k, v) == [x \in {k} |-> v]
Merge(f, g) == [k \in DOMAIN f \cup DOMAIN g |-> IF k \in DOMAIN g THEN g[k] ELSE f[k]]
Msgs == UNION {[D -> Rows] : D \in SUBSET Keys}

Listens == target \in {"table", "key"}
Watched == IF target \in {"table", "fields"} THEN Keys ELSE {row}

Init ==
  /\ target \in Targets /\ row = CHOOSE k \in Keys : TRUE
  /\ mode \in Modes /\ updateOnly \in BOOLEAN /\ (mode = "ON_CHANGE" => updateOnly)
  /\ db \in [Keys -> Rows] /\ (\A k \in Keys \ Watched : db[k] = Absent)
  /\ pub = <<>> /\ ops = 0 /\ deleted = {}
  /\ pc = "subscribe" /\ toread = {} /\ msiAll = Empty
  /\ lpc = "off" /\ event = <<row, "none">> /\ out = Empty
  /\ msi = Empty
  /\ q = <<>> /\ fatal = FALSE /\ session = "open"
  /\ view = [k \in Keys |-> Absent]

---------------------------------------------------------------------------
(* The database; only what is subscribed to is followed                    *)

Publish(k, payload) ==
  pub' = IF lpc # "gone" /\ pc \notin {"subscribe", "gone"} /\ Listens
         THEN Append(pub, <<k, payload>>) ELSE pub

Change(k, op, v) ==
  /\ op \in Ops /\ ops < MaxOps
  /\ ops' = ops + 1
  /\ db' = [db EXCEPT ![k] = v]
  /\ deleted' = IF op = "hset" THEN deleted ELSE deleted \cup {k}
  /\ Publish(k, op)
  /\ UNCHANGED <<subscription, main, listener, msi, rpc, view>>

Hset(k) == \E v \in Values : Change(k, "hset", v)
Del(k) == db[k] # Absent /\ Change(k, "del", Absent)
\* Some fields of a row go away.
Hdel(k) == db[k] # Absent /\ \E v \in Values \ {db[k]} : Change(k, "hdel", v)

\* A fault uses up one of the changes.
Fault(f) == f \in Faults /\ ops < MaxOps /\ ops' = ops + 1

---------------------------------------------------------------------------
(* Sending                                                                 *)

\* sendMsiData: a Put on a disposed queue ends the goroutine.
Send(m, next) ==
  IF session = "open"
  THEN q' = Append(q, m) /\ pc' = next
  ELSE pc' = "gone" /\ UNCHANGED q

---------------------------------------------------------------------------
(* dbTableKeySubscribe                                                     *)

\* PSubscribe, confirmed; then KEYS, if the path names no key.
Subscribe ==
  /\ pc = "subscribe" /\ Listens
  /\ \/ /\ pc' = "keys"
        /\ UNCHANGED <<ops, fatal>>
     \/ /\ Fault("pubsub")
        /\ fatal' = TRUE /\ pc' = "gone"
  /\ UNCHANGED <<subscription, db, pub, deleted, toread, msiAll, listener, msi,
                 q, session, view>>

ListKeys ==
  /\ pc = "keys"
  /\ toread' = {k \in Watched : target = "key" \/ db[k] # Absent}
  /\ pc' = "snapshot"
  /\ UNCHANGED <<subscription, database, msiAll, listener, msi, rpc, view>>

\* TableData2Msi: HGETALL of one row after the other.
TableData2Msi ==
  /\ pc = "snapshot"
  /\ \E k \in toread :
       \/ /\ msiAll' = Merge(msiAll, One(k, db[k]))
          /\ toread' = toread \ {k}
          /\ UNCHANGED <<ops, fatal, pc>>
       \/ /\ Fault("row")
          /\ fatal' = TRUE /\ pc' = "gone"
          /\ UNCHANGED <<msiAll, toread>>
  /\ UNCHANGED <<subscription, db, pub, deleted, listener, msi, q, session, view>>

\* The listeners subscribe anew, and miss what was published meanwhile.
SendAll_Resubscribe ==
  /\ pc = "snapshot" /\ toread = {}
  /\ Send(msiAll, "listen")
  /\ pub' = <<>>
  /\ lpc' = IF session = "open" THEN "recv" ELSE lpc
  /\ msiAll' = IF updateOnly THEN Empty ELSE msiAll
  /\ UNCHANGED <<subscription, db, ops, deleted, toread, event, out, msi, fatal,
                 session, view>>

\* The first message; the listeners start after it.
SendAll ==
  /\ pc = "snapshot" /\ toread = {}
  /\ Send(msiAll, "listen")
  /\ lpc' = IF session = "open" THEN "recv" ELSE lpc
  /\ msiAll' = IF updateOnly THEN Empty ELSE msiAll
  /\ UNCHANGED <<subscription, database, toread, event, out, msi, fatal, session,
                 view>>

\* An update is merged with what the ticker has not sent, and then lost.
TakeUpdate_Replace ==
  /\ pc = "listen" /\ lpc = "offer"
  /\ lpc' = "recv"
  /\ IF mode = "ON_CHANGE"
     THEN Send(out, "listen") /\ UNCHANGED msiAll
     ELSE msiAll' = out /\ UNCHANGED <<q, pc>>
  /\ UNCHANGED <<subscription, database, toread, event, out, msi, fatal, session,
                 view>>

\* The rendezvous on updateChannel.
TakeUpdate ==
  /\ pc = "listen" /\ lpc = "offer"
  /\ lpc' = "recv"
  /\ IF mode = "ON_CHANGE"
     THEN Send(out, "listen") /\ UNCHANGED msiAll
     ELSE msiAll' = Merge(msiAll, out) /\ UNCHANGED <<q, pc>>
  /\ UNCHANGED <<subscription, database, toread, event, out, msi, fatal, session,
                 view>>

Tick ==
  /\ pc = "listen" /\ Listens /\ mode = "SAMPLE" /\ Len(q) < MaxQueue
  /\ Send(msiAll, "listen")
  /\ msiAll' = IF updateOnly THEN Empty ELSE msiAll
  /\ UNCHANGED <<subscription, database, toread, listener, msi, fatal, session,
                 view>>

\* The stop channel is looked at only when an update has come in.
Stop_AfterUpdate ==
  /\ pc = "listen" /\ session = "stopped" /\ lpc = "offer"
  /\ pc' = "gone"
  /\ UNCHANGED <<subscription, database, toread, msiAll, listener, msi, rpc, view>>

\* The stop channel is closed: leave, and close the pubsub.
Stop ==
  /\ pc = "listen" /\ session = "stopped"
  /\ pc' = "gone"
  /\ UNCHANGED <<subscription, database, toread, msiAll, listener, msi, rpc, view>>

---------------------------------------------------------------------------
(* dbSingleTableKeySubscribe                                               *)

\* The key of a deleted row still carries the prefix of the channel.
Receive_Prefix ==
  /\ lpc = "recv" /\ pub # <<>>
  /\ event' = Head(pub) /\ pub' = Tail(pub)
  /\ IF Head(pub)[2] = "hset" THEN lpc' = "read" /\ UNCHANGED out
     ELSE lpc' = "offer" /\ out' = One(<<"table", Head(pub)[1]>>, Absent)
  /\ UNCHANGED <<subscription, db, ops, deleted, main, msi, rpc, view>>

\* Deletions are ignored for a table too.
Receive_NoDelete ==
  /\ lpc = "recv" /\ pub # <<>>
  /\ event' = Head(pub) /\ pub' = Tail(pub)
  /\ lpc' = IF Head(pub)[2] = "hset" THEN "read" ELSE "recv"
  /\ UNCHANGED <<subscription, db, ops, deleted, main, out, msi, rpc, view>>

\* A deletion is reported for a table and ignored for a single row; a set is
\* followed by a read.
Receive ==
  /\ lpc = "recv" /\ pub # <<>>
  /\ event' = Head(pub) /\ pub' = Tail(pub)
  /\ IF Head(pub)[2] = "hset" THEN lpc' = "read" /\ UNCHANGED out
     ELSE IF target = "table" THEN lpc' = "offer" /\ out' = One(Head(pub)[1], Absent)
     ELSE UNCHANGED <<lpc, out>>
  /\ UNCHANGED <<subscription, db, ops, deleted, main, msi, rpc, view>>

\* The row as it is by now; nothing is sent if it is what was read last, or
\* if a single row is empty.
ReadRow ==
  /\ lpc = "read"
  /\ \/ LET k == event[1]
            newMsi == IF target = "key" /\ db[k] = Absent THEN Empty ELSE One(k, db[k])
        IN /\ msi' = newMsi
           /\ IF newMsi = msi \/ newMsi = Empty
              THEN lpc' = "recv" /\ UNCHANGED out
              ELSE lpc' = "offer" /\ out' = newMsi
           /\ UNCHANGED <<ops, fatal>>
     \/ /\ Fault("row")
        /\ fatal' = TRUE /\ lpc' = "gone"
        /\ UNCHANGED <<msi, out>>
  /\ UNCHANGED <<subscription, db, pub, deleted, event, main, q, session, view>>

\* A broken pubsub connection: the listener waits for the stop channel.
ReceiveError ==
  /\ lpc = "recv" /\ Fault("pubsub")
  /\ lpc' = "error"
  /\ UNCHANGED <<subscription, db, pub, deleted, main, event, out, msi, rpc, view>>

ListenerStops ==
  /\ lpc \in {"recv", "error"} /\ session = "stopped"
  /\ lpc' = "gone"
  /\ UNCHANGED <<subscription, database, main, event, out, msi, rpc, view>>

---------------------------------------------------------------------------
(* dbFieldSubscribe and dbFieldMultiSubscribe: read on every tick          *)

\* The first pass, and one more for every tick.
FieldTick ==
  /\ pc \in {"subscribe", "listen"} /\ ~Listens /\ Len(q) < MaxQueue
  /\ toread' = Watched /\ msiAll' = Empty
  /\ pc' = "poll"
  /\ UNCHANGED <<subscription, database, listener, msi, rpc, view>>

OnlyChanges == mode = "ON_CHANGE" \/ (target = "fields" /\ updateOnly)

\* readVal for one field: an error reads as the empty string; a missing field
\* of a wildcard path is skipped, and so is an unchanged one.
FieldRead ==
  /\ pc = "poll"
  /\ \E k \in toread :
       /\ toread' = toread \ {k}
       /\ \E err \in BOOLEAN : LET val == IF err THEN Absent ELSE db[k] IN
            /\ IF err THEN Fault("row") ELSE UNCHANGED ops
            /\ IF \/ target = "fields" /\ ~err /\ db[k] = Absent
                  \/ OnlyChanges /\ k \in DOMAIN msi /\ msi[k] = val
               THEN UNCHANGED <<msi, msiAll>>
               ELSE msi' = Merge(msi, One(k, val)) /\ msiAll' = Merge(msiAll, One(k, val))
  /\ UNCHANGED <<subscription, db, pub, deleted, pc, listener, rpc, view>>

\* sendVal, unless ON_CHANGE found nothing new; the first pass always sends,
\* and finds everything new.
FieldSend ==
  /\ pc = "poll" /\ toread = {}
  /\ IF mode = "ON_CHANGE" /\ msiAll = Empty
     THEN pc' = "listen" /\ UNCHANGED q
     ELSE Send(msiAll, "listen")
  /\ UNCHANGED <<subscription, database, toread, msiAll, listener, msi, fatal,
                 session, view>>

---------------------------------------------------------------------------
(* The RPC                                                                 *)

Deliver ==
  /\ session = "open" /\ q # <<>>
  /\ view' = [k \in Keys |-> IF k \in DOMAIN Head(q) THEN Head(q)[k] ELSE view[k]]
  /\ q' = Tail(q)
  /\ UNCHANGED <<subscription, database, main, listener, msi, fatal, session>>

\* Client.Close: dispose the queue, then close the stop channel.
CloseQueue ==
  /\ session = "open" /\ (fatal \/ "close" \in Faults)
  /\ session' = "disposed" /\ q' = <<>>
  /\ UNCHANGED <<subscription, database, main, listener, msi, fatal, view>>

CloseStop ==
  /\ session = "disposed"
  /\ session' = "stopped"
  /\ UNCHANGED <<subscription, database, main, listener, msi, q, fatal, view>>

---------------------------------------------------------------------------
Main == Subscribe \/ ListKeys \/ TableData2Msi \/ SendAll \/ TakeUpdate \/ Tick
        \/ FieldTick \/ FieldRead \/ FieldSend
Listener == Receive \/ ReadRow
Next ==
  \/ \E k \in Watched : Hset(k) \/ Del(k) \/ Hdel(k)
  \/ Main \/ Stop \/ Listener \/ ReceiveError \/ ListenerStops
  \/ Deliver \/ CloseQueue \/ CloseStop

\* The goroutines run, the ticker ticks, the peer reads, and Close completes.
\* The stop channel is one of several that select finds ready each time
\* round, hence strong fairness for it.
Fairness ==
  /\ WF_vars(Subscribe \/ ListKeys \/ TableData2Msi \/ SendAll)
  /\ WF_vars(FieldTick \/ FieldRead \/ FieldSend)
  /\ WF_vars(TakeUpdate) /\ SF_vars(Tick) /\ SF_vars(Stop)
  /\ WF_vars(Listener) /\ SF_vars(ListenerStops)
  /\ WF_vars(Deliver) /\ WF_vars(fatal /\ CloseQueue) /\ WF_vars(CloseStop)

Spec == Init /\ [][Next]_vars
FairSpec == Spec /\ Fairness

---------------------------------------------------------------------------
(* Properties                                                              *)

\* Type correctness of the caches, the messages and the subscriber's view.
TypeOK ==
  /\ target \in Targets /\ row \in Keys /\ mode \in Modes /\ updateOnly \in BOOLEAN
  /\ db \in [Keys -> Rows] /\ view \in [Keys -> Rows]
  /\ pub \in Seq(Keys \X {"hset", "del", "hdel"})
  /\ ops \in 0..MaxOps /\ deleted \subseteq Keys /\ toread \subseteq Keys
  /\ pc \in {"subscribe", "keys", "snapshot", "poll", "listen", "gone"}
  /\ lpc \in {"off", "recv", "read", "offer", "error", "gone"}
  /\ {msiAll, out, msi} \subseteq Msgs /\ q \in Seq(Msgs)
  /\ fatal \in BOOLEAN /\ session \in {"open", "disposed", "stopped"}

\* The session is over or about to be, or the listener's connection broke.
Over == session # "open" \/ fatal \/ lpc = "error"

\* Once the database stops changing, the subscriber of an open session ends
\* up with exactly what the database holds, whatever changed while the
\* snapshot was taken and however events and reads interleaved.  Excused:
\* rows that were ever deleted, and missing fields of wildcard paths.
InSync(k) ==
  \/ view[k] = db[k]
  \/ Listens /\ k \in deleted
  \/ target = "fields" /\ db[k] = Absent
Converges == <>[](Over \/ \A k \in Watched : InSync(k))

\* The subscriber of a table, or of one field, does not keep a row that is
\* gone for good: deletions are never overtaken by older reads.
NoGhostRows ==
  <>[](\/ Over \/ target \in {"key", "fields"}
       \/ \A k \in Watched : db[k] = Absent => view[k] = Absent)

\* What the subscriber will be left with for row k is v, once the messages of
\* the queue, what the ticker has gathered and what the listener offers have
\* reached it.
Arrives(k, v) ==
  \/ view[k] = v /\ \A i \in 1..Len(q) : k \notin DOMAIN q[i]
  \/ \E i \in 1..Len(q) :
       /\ k \in DOMAIN q[i] /\ q[i][k] = v
       /\ \A j \in 1..Len(q) : j > i => k \notin DOMAIN q[j]
Told(k, v) ==
  IF lpc = "offer" /\ k \in DOMAIN out THEN out[k] = v
  ELSE IF k \in DOMAIN msiAll THEN msiAll[k] = v
  ELSE Arrives(k, v)

\* A read of row k is still to come: of the snapshot, for an event that has
\* been received, or for one that has been published.
OnItsWay(k) ==
  \/ pc = "snapshot" /\ k \in toread
  \/ lpc = "read" /\ event[1] = k
  \/ \E i \in 1..Len(pub) : pub[i][1] = k

\* No change falls between the snapshot, the events and the reads: from the
\* snapshot on, for every row, the subscriber is told what the database holds
\* or a read of the row is still to come.  Excused: rows deleted and set
\* again, and single rows that were deleted.  For polled fields: an unchanged
\* value that is left out is the one the subscriber is told.
NothingMissed ==
  ~Over => \A k \in Watched :
    IF Listens
    THEN pc \in {"snapshot", "listen"} =>
           \/ Told(k, db[k]) \/ OnItsWay(k)
           \/ k \in deleted /\ (target = "key" \/ db[k] # Absent)
    ELSE k \in DOMAIN msi => Told(k, msi[k])

\* SAMPLE without suppress_redundant sends everything each time: a message
\* of the ticker carries every row the subscriber knows of.
FullSamples ==
  [][Listens /\ mode = "SAMPLE" /\ ~updateOnly /\ Len(q') > Len(q)
       => {k \in Keys : view[k] # Absent} \subseteq DOMAIN q'[Len(q')]]_vars

\* A subscription goroutine leaves once its session is stopped, so that Run
\* can return, even when its listener is blocked on updateChannel.
StopEndsSubscription == (session = "stopped") ~> (pc = "gone")

\* An update is left out only if there is "No change from previous data":
\* the subscriber of a table ends up with what the database holds.
TableConverges ==
  <>[](Over \/ target # "table" \/ \A k \in Keys : view[k] = db[k])
=============================================================================
