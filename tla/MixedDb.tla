------------------------------ MODULE MixedDb ------------------------------
(***************************************************************************)
(* Set on DPU_APPL_DB / APPL_DB through MixedDbClient: the redis client    *)
(* map filled on demand (initRedisDbMap), the shared ZMQ clients, the path *)
(* checks made before anything is written, and the writes themselves       *)
(* (SetDB, handleTableData, DbSetTable, DbDelTable, RetryHelper) through   *)
(* a plain table, which writes the row, or a producer table, which leaves  *)
(* it to a consumer (sonic_data_client/mixed_db_client.go).                *)
(*                                                                         *)
(* An operation is [op, t, k, v]: "del" or "set", a table, a key or "*"    *)
(* for the whole table, and the rows of a set by key.  A row is a function *)
(* from fields to values; NotARow marks a member that is not an object.        *)
(***************************************************************************)
EXTENDS Naturals, Sequences, FiniteSets, SequencesExt

CONSTANTS MxRpcs,      \* the concurrent Set RPCs
          MxRequests,  \* the operation lists each may carry
          PlainTables, \* tables named DASH_HA_*: swsscommon.Table
          ZmqTables,   \* the other DASH_* tables: ZmqProducerStateTable
          StateTables, \* the rest: ProducerStateTable
          MxKeys,
          Instances,   \* the database instances of the configuration
          Target,      \* the one the RPCs name
          MaxRetry,    \* MAX_RETRY_COUNT
          MaxBreaks    \* bound: how often the ZMQ connection breaks or mends

NoRow == [row |-> "none"]
NotARow == [row |-> "not an object"]
Nothing == [row |-> "nothing to hand over"]
Tables == PlainTables \cup ZmqTables \cup StateTables

VARIABLES cfgOk,   \* the database configuration can be read
          instNum, \* DbInstNum
          redis,   \* the instances RedisDbMap has clients for
          zmq,     \* the ZMQ client is in zmqClientMap
          link,    \* the ZMQ connection works
          breaks,
          table,   \* the rows in redis
          pend,    \* what the producer tables hold for the consumer
          mx,      \* the RPCs
          log      \* every row written or deleted, in order (history)

mxVars == <<cfgOk, instNum, redis, zmq, link, breaks, table, pend, mx, log>>
stores == <<table, pend, log>>
clients == <<instNum, redis, zmq>>
env == <<cfgOk, link, breaks>>

Idle == [pc |-> "idle", ops |-> <<>>, i |-> 1, todo |-> {}, tries |-> 0, inst |-> {}]

\* The package's init() fills the map when the configuration is there.
MxInit ==
    /\ cfgOk \in BOOLEAN
    /\ instNum = IF cfgOk THEN Cardinality(Instances) ELSE 0
    /\ redis = IF cfgOk THEN Instances ELSE {}
    /\ zmq = FALSE /\ link = TRUE /\ breaks = 0
    /\ table = [t \in Tables |-> [k \in MxKeys |-> NoRow]]
    /\ pend = [t \in Tables |-> [k \in MxKeys |-> Nothing]]
    /\ mx = [r \in MxRpcs |-> Idle]
    /\ log = <<>>

ConfigAppears ==
    /\ ~cfgOk /\ cfgOk' = TRUE
    /\ UNCHANGED <<link, breaks, clients, stores, mx>>

LinkFlips ==
    /\ breaks < MaxBreaks
    /\ link' = ~link /\ breaks' = breaks + 1
    /\ UNCHANGED <<cfgOk, clients, stores, mx>>

--------------------------------------------------------------------------
(* Creating the client *)

At(r, pc) == mx[r].pc = pc
To(r, pc) == mx' = [mx EXCEPT ![r].pc = pc]

\* The deletes come first, then the replaces and the updates.
Receive(r) ==
    /\ At(r, "idle")
    /\ \E ops \in MxRequests[r] : mx' = [mx EXCEPT ![r] = [Idle EXCEPT !.pc = "new", !.ops = ops]]
    /\ UNCHANGED <<env, clients, stores>>

\* Nothing serialises the callers: the count is compared in one step and
\* the map cleared in another.
initRedisDbMap(r) ==
    /\ At(r, "new")
    /\ To(r, IF cfgOk /\ instNum # Cardinality(Instances) THEN "clear" ELSE "zmq")
    /\ UNCHANGED <<env, clients, stores>>

ClearMap(r) ==
    /\ At(r, "clear")
    /\ instNum' = Cardinality(Instances)
    /\ redis' = {}
    /\ mx' = [mx EXCEPT ![r].pc = "fill", ![r].inst = Instances]
    /\ UNCHANGED <<env, zmq, stores>>

FillMap(r) ==
    /\ At(r, "fill")
    /\ IF mx[r].inst = {}
       THEN To(r, "zmq") /\ UNCHANGED redis
       ELSE \E x \in mx[r].inst :
                /\ redis' = redis \cup {x}
                /\ mx' = [mx EXCEPT ![r].inst = @ \ {x}]
    /\ UNCHANGED <<env, instNum, zmq, stores>>

\* The address of a DPU is read from CONFIG_DB and may be missing.
getZmqClient(r) ==
    /\ At(r, "zmq")
    /\ \/ ZmqTables = {} /\ To(r, "resolve") /\ UNCHANGED zmq
       \/ ZmqTables # {} /\ zmq' = TRUE /\ To(r, "resolve")
       \/ ZmqTables # {} /\ To(r, "err") /\ UNCHANGED zmq
    /\ UNCHANGED <<env, instNum, redis, stores>>

--------------------------------------------------------------------------
(* Resolving the paths *)

HasClient == Target \in redis

\* Keys(table*): rows, and the key set a producer table keeps while it has
\* something for the consumer.
SomeKey(t) == \E k \in MxKeys : table[t][k] # NoRow \/ pend[t][k] # Nothing

\* getDbtablePath: a delete of a whole table must find a key; a set needs a
\* value of a supported type.
Resolves(o) ==
    /\ HasClient
    /\ o.op = "del" /\ o.k = "*" => SomeKey(o.t)
    /\ o.op = "set" => o.v # NotARow

\* Every delete is resolved before the first one is carried out.
getAllDbtablePath(r) ==
    /\ At(r, "resolve")
    /\ To(r, IF \A o \in ToSet(mx[r].ops) : o.op = "del" => Resolves(o)
             THEN "op" ELSE "err")
    /\ UNCHANGED <<env, clients, stores>>

\* The rows an operation is about: the keys of the table in redis for a
\* delete ("Can't remove entry in temporary state table").
Work(o) ==
    IF o.op = "del"
    THEN {[k |-> k, v |-> NoRow] :
              k \in IF o.k = "*" THEN {k \in MxKeys : table[o.t][k] # NoRow} ELSE {o.k}}
    ELSE {[k |-> k, v |-> o.v[k]] : k \in DOMAIN o.v}

SetDB(r) ==
    /\ At(r, "op")
    /\ LET c == mx[r] IN
       IF c.i > Len(c.ops) THEN To(r, "ok")
       ELSE LET o == c.ops[c.i] IN
            IF o.op = "set" /\ ~Resolves(o) THEN To(r, "err")
            ELSE mx' = [mx EXCEPT ![r].pc = "write", ![r].todo = Work(o)]
    /\ UNCHANGED <<env, clients, stores>>

--------------------------------------------------------------------------
(* Writing *)

Op(r) == mx[r].ops[mx[r].i]

\* A set keeps the fields it does not name.
Merge(old, new) ==
    IF new = NoRow \/ old = NoRow THEN new
    ELSE [f \in DOMAIN old \cup DOMAIN new |-> IF f \in DOMAIN new THEN new[f] ELSE old[f]]

\* What the producer table holds after one more SET or DEL of the key; a
\* SET after a DEL starts from an empty row.
Queue(p, v) ==
    IF v = NoRow THEN [fresh |-> TRUE, v |-> NoRow]
    ELSE IF p = Nothing THEN [fresh |-> FALSE, v |-> v]
    ELSE [p EXCEPT !.v = Merge(@, v)]

Apply(row, p) == IF p.fresh THEN p.v ELSE Merge(row, p.v)

\* GetTable: which kind of table writes t.
GetTable(t) == IF t \in PlainTables THEN "plain" ELSE "producer"

DbTable(t, k, v) ==
    IF GetTable(t) = "plain"
    THEN table' = [table EXCEPT ![t][k] = Merge(@, v)] /\ UNCHANGED pend
    ELSE pend' = [pend EXCEPT ![t][k] = Queue(@, v)] /\ UNCHANGED table

DbSetTable(t, k, v) == DbTable(t, k, v)
DbDelTable(t, k) == DbTable(t, k, NoRow)

Record(r, e) == log' = Append(log, [r |-> r, i |-> mx[r].i, t |-> Op(r).t, k |-> e.k, v |-> e.v])

\* Only a write through ZMQ meets the broken connection.
Reachable(t) == t \notin ZmqTables \/ link

Write(r) ==
    /\ At(r, "write")
    /\ \E e \in mx[r].todo :
        /\ e.v # NotARow /\ Reachable(Op(r).t)
        /\ IF e.v = NoRow THEN DbDelTable(Op(r).t, e.k) ELSE DbSetTable(Op(r).t, e.k, e.v)
        /\ mx' = [mx EXCEPT ![r].todo = @ \ {e}, ![r].tries = 0]
        /\ Record(r, e)
    /\ UNCHANGED <<env, clients>>

\* RetryHelper: reconnect, wait, try again.
Retry(r) == mx[r].tries <= MaxRetry

Tried(r) == mx[r].tries + 1

RetryHelper(r) ==
    /\ At(r, "write") /\ mx[r].todo # {} /\ ~Reachable(Op(r).t)
    /\ \E e \in mx[r].todo : e.v # NotARow
    /\ mx' = IF Retry(r) THEN [mx EXCEPT ![r].tries = Tried(r)]
                         ELSE [mx EXCEPT ![r].pc = "err"]
    /\ UNCHANGED <<env, clients, stores>>

\* A member of the value that is not an object ends the RPC when the
\* iteration over the map reaches it.
Unsupported(r) ==
    /\ At(r, "write")
    /\ \E e \in mx[r].todo : e.v = NotARow
    /\ To(r, "err")
    /\ UNCHANGED <<env, clients, stores>>

OpDone(r) ==
    /\ At(r, "write") /\ mx[r].todo = {}
    /\ mx' = [mx EXCEPT ![r].pc = "op", ![r].i = @ + 1]
    /\ UNCHANGED <<env, clients, stores>>

\* The orchagent behind a producer table takes what the table holds.
Consume ==
    /\ \E t \in Tables, k \in MxKeys :
        /\ pend[t][k] # Nothing
        /\ table' = [table EXCEPT ![t][k] = Apply(@, pend[t][k])]
        /\ pend' = [pend EXCEPT ![t][k] = Nothing]
    /\ UNCHANGED <<env, clients, mx, log>>

MxStep(r) ==
    \/ initRedisDbMap(r) \/ ClearMap(r) \/ FillMap(r) \/ getZmqClient(r)
    \/ getAllDbtablePath(r) \/ SetDB(r)
    \/ Write(r) \/ RetryHelper(r) \/ Unsupported(r) \/ OpDone(r)

MxNext ==
    \/ ConfigAppears \/ LinkFlips \/ Consume
    \/ \E r \in MxRpcs : Receive(r) \/ MxStep(r)

MxFair == \A r \in MxRpcs : WF_mxVars(MxStep(r))
MxSpec == MxInit /\ [][MxNext]_mxVars /\ MxFair

--------------------------------------------------------------------------
Pcs == {"idle", "new", "clear", "fill", "zmq", "resolve", "op", "write", "ok", "err"}

\* RetryHelper gives up after MAX_RETRY_COUNT + 1 retries, and a client is
\* never kept for an instance the configuration does not have.
MxTypeOK ==
    /\ redis \subseteq Instances /\ instNum \in {0, Cardinality(Instances)}
    /\ zmq \in BOOLEAN /\ link \in BOOLEAN /\ breaks \in 0..MaxBreaks
    /\ \A r \in MxRpcs : mx[r].pc \in Pcs /\ mx[r].tries \in 0..(MaxRetry + 1)
    /\ \A t \in PlainTables, k \in MxKeys : pend[t][k] = Nothing

RowAfter(t, k) ==
    FoldLeft(LAMBDA row, e : IF e.t = t /\ e.k = k THEN Merge(row, e.v) ELSE row, NoRow, log)

\* Whatever the interleaving of RPCs, retries and the consumer, a row whose
\* producer table has nothing left to hand over is the result of all the
\* writes made to it, in the order they were made: no DbSetTable is undone
\* by an earlier DbDelTable or the other way round.
Converges ==
    \A t \in Tables, k \in MxKeys : pend[t][k] = Nothing => table[t][k] = RowAfter(t, k)

\* SetDB stops at the first error: what a failed RPC has written is all the
\* rows of the operations before the one that failed and none after it, and
\* what a successful RPC has written is every row of every operation.
WritesPrefix ==
    \A r \in MxRpcs :
        LET mine == SelectSeq(log, LAMBDA e : e.r = r)
            c == mx[r]
        IN /\ \A j \in 1..Len(mine) : mine[j].i <= c.i
           /\ \A j \in 1..Len(mine) - 1 : mine[j].i <= mine[j + 1].i
           /\ \A i \in 1..Len(c.ops) : i < c.i /\ c.ops[i].op = "set" =>
                {e.k : e \in {x \in ToSet(mine) : x.i = i}} = DOMAIN c.ops[i].v
           /\ c.pc = "ok" => c.i = Len(c.ops) + 1

\* However the unsynchronised callers of initRedisDbMap interleave, the map
\* they clear and fill ends with a client for every instance.
MapWhole == (\A r \in MxRpcs : mx[r].pc # "fill") => redis \in {{}, Instances}

\* Every Set ends, with the ZMQ connection broken for good included.
MxOver(r) == mx[r].pc \in {"idle", "ok", "err"}
MxEnds == \A r \in MxRpcs : []<>MxOver(r)
=============================================================================
