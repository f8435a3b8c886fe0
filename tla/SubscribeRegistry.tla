------------------------- MODULE SubscribeRegistry -------------------------
(***************************************************************************)
(* What concurrent Subscribe RPCs share inside one server process: the     *)
(* client table of Server.Subscribe (gnmi_server/server.go), the global    *)
(* connectionManager with its connection table                             *)
(* (gnmi_server/client_subscribe.go, gnmi_server/connection_manager.go)    *)
(* and the copy of that table in STATE_DB's TELEMETRY_CONNECTIONS hash.    *)
(*                                                                         *)
(* A session is one slot for an RPC: when its RPC has returned, the slot   *)
(* may carry the next RPC of the same peer.  Every lock region and every   *)
(* redis command is a step of its own.  What happens inside Client.Run     *)
(* between Add and Remove is the module SubscribeSession.                  *)
(***************************************************************************)
EXTENDS Naturals, FiniteSets

CONSTANTS Sessions,     \* RPC slots
          Addrs,        \* peer addresses (Client.String())
          AddrOf,       \* the peer of each session
          QueryOf,      \* what createKey extracts from the session's query
          Threshold,    \* -threshold; 0 means no limit
          MaxSecond,    \* bound on the clock, in the seconds createKey prints
          Stale,        \* rows left in STATE_DB by an earlier process
          None

Queries == {QueryOf[s] : s \in Sessions}
Keys == Addrs \X Queries \X (0..MaxSecond)

ASSUME RegistryAssumption ==
  /\ IsFiniteSet(Sessions) /\ Sessions # {}
  /\ AddrOf \in [Sessions -> Addrs]
  /\ Threshold \in Nat /\ MaxSecond \in Nat \ {0}
  /\ Stale \subseteq Addrs \X Queries \X {0}
  /\ None \notin Sessions /\ None \notin Keys

VARIABLES
  pc,        \* where each RPC is
  manager,   \* the global connectionManager, named by the slot of the RPC
             \* that allocated it; None is nil
  conns,     \* connections of every manager that may be allocated
  added,     \* the manager whose Add the session called, or None
  removes,   \* the manager captured by the deferred Remove, or None
  key,       \* connectionKey of each session
  todel,     \* rows PrepareRedis has read and not yet deleted
  rclient,   \* the global redis client has been created
  redis,     \* rows of TELEMETRY_CONNECTIONS
  dbcfg,     \* the database configuration names STATE_DB
  clients,   \* Server.clients
  now        \* wall clock, in seconds; this process starts at 1

vars == <<pc, manager, conns, added, removes, key, todel, rclient,
          redis, dbcfg, clients, now>>

PCs == {"start", "make", "prepare", "hgetall", "hdel", "register", "first",
        "insert", "store", "defer", "run", "rmdel", "rmredis", "unregister"}

Goto(s, l) == pc' = [pc EXCEPT ![s] = l]

Init ==
  /\ pc = [s \in Sessions |-> "start"]
  /\ manager = None
  /\ conns = [m \in Sessions |-> {}]
  /\ added = [s \in Sessions |-> None]
  /\ removes = [s \in Sessions |-> None]
  /\ key = [s \in Sessions |-> None]
  /\ todel = [s \in Sessions |-> {}]
  /\ rclient = FALSE
  /\ redis = Stale
  /\ dbcfg \in BOOLEAN
  /\ clients = [a \in Addrs |-> None]
  /\ now = 1

---------------------------------------------------------------------------
(* setConnectionManager: the test, the allocation and PrepareRedis.        *)

\* The threshold of the configuration never changes, so only nil matters.
SetConnectionManager(s) ==
  /\ pc[s] = "start"
  /\ Goto(s, IF manager # None THEN "register" ELSE "make")
  /\ UNCHANGED <<manager, conns, added, removes, key, todel, rclient,
                 redis, dbcfg, clients, now>>

MakeManager(s) ==
  /\ pc[s] = "make"
  /\ manager' = s
  /\ Goto(s, "prepare")
  /\ UNCHANGED <<conns, added, removes, key, todel, rclient, redis, dbcfg,
                 clients, now>>

PrepareRedis(s) ==
  /\ pc[s] = "prepare"
  /\ IF dbcfg
     THEN rclient' = TRUE /\ Goto(s, "hgetall")
     ELSE Goto(s, "register") /\ UNCHANGED rclient
  /\ UNCHANGED <<manager, conns, added, removes, key, todel, redis,
                 dbcfg, clients, now>>

PrepareHGetAll(s) ==
  /\ pc[s] = "hgetall"
  /\ todel' = [todel EXCEPT ![s] = redis]
  /\ Goto(s, "hdel")
  /\ UNCHANGED <<manager, conns, added, removes, key, rclient, redis,
                 dbcfg, clients, now>>

\* The deletion loop of PrepareRedis that forgets to look at the database.
PrepareHDel_None(s) ==
  /\ pc[s] = "hdel"
  /\ todel' = [todel EXCEPT ![s] = {}]
  /\ Goto(s, "register")
  /\ UNCHANGED <<manager, conns, added, removes, key, rclient, redis,
                 dbcfg, clients, now>>

PrepareHDel(s) ==
  /\ pc[s] = "hdel"
  /\ \/ \E k \in todel[s] :
          /\ redis' = redis \ {k}
          /\ todel' = [todel EXCEPT ![s] = @ \ {k}]
          /\ pc' = pc
     \/ /\ todel[s] = {}
        /\ Goto(s, "register")
        /\ UNCHANGED <<redis, todel>>
  /\ UNCHANGED <<manager, conns, added, removes, key, rclient, dbcfg,
                 clients, now>>

---------------------------------------------------------------------------
(* Server.Subscribe's two critical sections on cMu.                        *)

\* The duplicate that Register closes may return from Run, which any RPC may
\* do at any time: RemoveCheck has no other guard.
Register(s) ==
  /\ pc[s] = "register"
  /\ clients' = [clients EXCEPT ![AddrOf[s]] = s]
  /\ Goto(s, "first")
  /\ UNCHANGED <<manager, conns, added, removes, key, todel, rclient,
                 redis, dbcfg, now>>

\* The RPC is over; its locals are gone and the slot is free.
Forget(s) ==
  /\ added' = [added EXCEPT ![s] = None]
  /\ removes' = [removes EXCEPT ![s] = None]
  /\ key' = [key EXCEPT ![s] = None]
  /\ Goto(s, "start")

\* An RPC that leaves its entry behind when it returns.
Unregister_Keep(s) ==
  /\ pc[s] = "unregister"
  /\ Forget(s)
  /\ UNCHANGED <<manager, conns, todel, rclient, redis, dbcfg, clients,
                 now>>

Unregister(s) ==
  /\ pc[s] = "unregister"
  /\ clients' = [clients EXCEPT ![AddrOf[s]] = None]
  /\ Forget(s)
  /\ UNCHANGED <<manager, conns, todel, rclient, redis, dbcfg, now>>

---------------------------------------------------------------------------
(* Client.Run around its body: the first message, Add, and the deferred    *)
(* Remove.                                                                 *)

\* The first message fails or is refused before Add is reached.
FirstMessageBad(s) ==
  /\ pc[s] = "first"
  /\ Goto(s, "unregister")
  /\ UNCHANGED <<manager, conns, added, removes, key, todel, rclient,
                 redis, dbcfg, clients, now>>

AtLimit(m) == Threshold # 0 /\ Cardinality(conns[m]) >= Threshold

\* Add's test under RLock; at the limit Run returns Unavailable.
AddCheck(s) ==
  /\ pc[s] = "first"
  /\ IF AtLimit(manager)
     THEN /\ Goto(s, "unregister")
          /\ UNCHANGED added
     ELSE /\ Goto(s, "insert")
          /\ added' = [added EXCEPT ![s] = manager]
  /\ UNCHANGED <<manager, conns, removes, key, todel, rclient, redis,
                 dbcfg, clients, now>>

\* A key stamped with the next second instead of the current one.
createKey_RoundUp(s) == <<AddrOf[s], QueryOf[s], now + 1>>

createKey(s) == <<AddrOf[s], QueryOf[s], now>>

AddInsert(s) ==
  /\ pc[s] = "insert"
  /\ key' = [key EXCEPT ![s] = createKey(s)]
  /\ conns' = [conns EXCEPT ![added[s]] = @ \cup {createKey(s)}]
  /\ Goto(s, "store")
  /\ UNCHANGED <<manager, added, removes, todel, rclient, redis,
                 dbcfg, clients, now>>

storeKeyRedis(s) ==
  /\ pc[s] = "store"
  /\ redis' = IF rclient THEN redis \cup {key[s]} ELSE redis
  /\ Goto(s, "defer")
  /\ UNCHANGED <<manager, conns, added, removes, key, todel, rclient,
                 dbcfg, clients, now>>

\* defer connectionManager.Remove(connectionKey) reads the global again.
DeferRemove(s) ==
  /\ pc[s] = "defer"
  /\ removes' = [removes EXCEPT ![s] = manager]
  /\ Goto(s, "run")
  /\ UNCHANGED <<manager, conns, added, key, todel, rclient, redis,
                 dbcfg, clients, now>>

\* The body of Run has returned, for whatever reason, and the deferred
\* Remove looks the key up under RLock.
RemoveCheck(s) ==
  /\ pc[s] = "run"
  /\ Goto(s, IF key[s] \in conns[removes[s]] THEN "rmdel" ELSE "rmredis")
  /\ UNCHANGED <<manager, conns, added, removes, key, todel, rclient,
                 redis, dbcfg, clients, now>>

\* Remove that drops the row of STATE_DB and keeps the key in memory.
RemoveDelete_Keep(s) ==
  /\ pc[s] = "rmdel"
  /\ Goto(s, "rmredis")
  /\ UNCHANGED <<manager, conns, added, removes, key, todel, rclient,
                 redis, dbcfg, clients, now>>

\* Remove that empties the table instead of deleting one key.
RemoveDelete_All(s) ==
  /\ pc[s] = "rmdel"
  /\ conns' = [conns EXCEPT ![removes[s]] = {}]
  /\ Goto(s, "rmredis")
  /\ UNCHANGED <<manager, added, removes, key, todel, rclient, redis,
                 dbcfg, clients, now>>

RemoveDelete(s) ==
  /\ pc[s] = "rmdel"
  /\ conns' = [conns EXCEPT ![removes[s]] = @ \ {key[s]}]
  /\ Goto(s, "rmredis")
  /\ UNCHANGED <<manager, added, removes, key, todel, rclient, redis,
                 dbcfg, clients, now>>

deleteKeyRedis(s) ==
  /\ pc[s] = "rmredis"
  /\ redis' = IF rclient THEN redis \ {key[s]} ELSE redis
  /\ Goto(s, "unregister")
  /\ UNCHANGED <<manager, conns, added, removes, key, todel, rclient,
                 dbcfg, clients, now>>

---------------------------------------------------------------------------
Tick ==
  /\ now < MaxSecond
  /\ now' = now + 1
  /\ UNCHANGED <<pc, manager, conns, added, removes, key, todel,
                 rclient, redis, dbcfg, clients>>

Step(s) ==
  \/ SetConnectionManager(s) \/ MakeManager(s) \/ PrepareRedis(s)
  \/ PrepareHGetAll(s) \/ PrepareHDel(s) \/ Register(s) \/ Unregister(s)
  \/ FirstMessageBad(s) \/ AddCheck(s) \/ AddInsert(s) \/ storeKeyRedis(s)
  \/ DeferRemove(s) \/ RemoveCheck(s) \/ RemoveDelete(s) \/ deleteKeyRedis(s)

Next == Tick \/ \E s \in Sessions : Step(s)

Spec == Init /\ [][Next]_vars

---------------------------------------------------------------------------
(* Properties                                                              *)

\* Type correctness of the shared tables and of each RPC's locals.
TypeOK ==
  /\ pc \in [Sessions -> PCs]
  /\ manager \in Sessions \cup {None}
  /\ conns \in [Sessions -> SUBSET Keys]
  /\ added \in [Sessions -> Sessions \cup {None}]
  /\ removes \in [Sessions -> Sessions \cup {None}]
  /\ key \in [Sessions -> Keys \cup {None}]
  /\ todel \in [Sessions -> SUBSET Keys]
  /\ rclient \in BOOLEAN /\ dbcfg \in BOOLEAN
  /\ redis \subseteq Keys
  /\ clients \in [Addrs -> Sessions \cup {None}]
  /\ now \in 1..MaxSecond

\* RPCs that own a connection key: from Add's insertion to the end of Remove.
Owning == {"store", "defer", "run", "rmdel"}
Live(s) == pc[s] \in Owning

\* Every key the current connection manager counts against the threshold is
\* the key of an RPC that is still running and will remove it: an RPC never
\* leaves a connection behind that would lock later clients out, although
\* Add and the deferred Remove read the global manager separately and the
\* manager may be replaced between them.
NoPhantomConnections ==
  manager # None =>
    \A k \in conns[manager] : \E s \in Sessions : Live(s) /\ key[s] = k

\* An RPC that is running is counted by the manager it was added to, unless
\* an RPC with the same peer and query could have made the same key.
SoleKey(s) == \A t \in Sessions \ {s} :
                 <<AddrOf[t], QueryOf[t]>> # <<AddrOf[s], QueryOf[s]>>
RunningIsCounted ==
  \A s \in Sessions :
    pc[s] \in {"store", "defer", "run"} /\ SoleKey(s)
      => key[s] \in conns[added[s]]

\* Every row of TELEMETRY_CONNECTIONS belongs to an RPC that will delete it,
\* is queued for deletion by PrepareRedis, or dates from before the first
\* PrepareRedis: rows of an earlier process do not survive it.
RedisRowsOwned ==
  \A k \in redis :
    \/ \E s \in Sessions : key[s] = k
                           /\ pc[s] \in {"defer", "run", "rmdel", "rmredis"}
    \/ \E s \in Sessions : k \in todel[s]
    \/ /\ k \in Stale
       /\ ~dbcfg \/ manager = None
          \/ \E s \in Sessions : pc[s] \in {"prepare", "hgetall"}

\* The client table only holds RPCs that have not returned: a duplicate
\* never closes the client of a finished RPC.
RegistryHoldsActive ==
  \A a \in Addrs : clients[a] # None =>
    /\ AddrOf[clients[a]] = a
    /\ pc[clients[a]] \in {"first", "insert", "store", "defer", "run",
                           "rmdel", "rmredis", "unregister"}

\* The flag -threshold is the "max number of client connections": the
\* number of admitted RPCs never exceeds it.
ThresholdRespected ==
  Threshold # 0 => Cardinality({s \in Sessions : Live(s)}) <= Threshold
=============================================================================
