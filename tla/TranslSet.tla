------------------------------ MODULE TranslSet ------------------------------
(***************************************************************************)
(* Get, Set and actions of gNMI and gNOI RPCs over translib: a Set of one  *)
(* operation is one call of translib, or an Update and a Replace; a Set of *)
(* several is one Bulk transaction; a Get reads path after path            *)
(* (sonic_data_client/transl_data_client.go, transl_utils/transl_utils.go).*)
(*                                                                         *)
(* An object is absent, <<>>, or holds in each field the RPC that wrote it *)
(* last, 0 for none.  An operation names an object and the fields it       *)
(* writes; the object "bad" is a path that the validator refuses, and a    *)
(* value that is not JSON_IETF has no payload.                             *)
(***************************************************************************)
EXTENDS Naturals, Sequences, FiniteSets

CONSTANTS TxRpcs,      \* the RPCs
          TxRequests,  \* what the RPCs may ask, as functions on them
          Objects, Fields,
          TxFaults     \* subset of {"translib"}: calls that fail

VARIABLES store,   \* what translib holds
          tx,      \* each RPC: request, where it is, what it has read
          order,   \* the Sets answered with success, in order (history)
          since,   \* what each object held since an RPC began (history)
          first,   \* what translib held at first (history)
          overwrote \* the RPCs whose Replace after a NotFound found an object (history)

txVars == <<store, tx, order, since, first, overwrote>>

--------------------------------------------------------------------------
(* translib, external: every call is a transaction *)

Blank == [f \in Fields |-> 0]
Written(base, r, fs) == [f \in Fields |-> IF f \in fs THEN r ELSE base[f]]

\* The effect of one operation of the RPC r on a store.
Deleted(s, o) == [s EXCEPT ![o] = <<>>]
Replaced(s, r, o, fs) == [s EXCEPT ![o] = <<Written(Blank, r, fs)>>]
Merged(s, r, o, fs) == [s EXCEPT ![o] = <<Written(@[1], r, fs)>>]

\* The operations of a request in the order of a Bulk transaction.
Operations(q) ==
  LET ops(s, k) == [i \in 1..Len(s) |-> [k |-> k, o |-> s[i].o, fs |-> s[i].fs, json |-> s[i].json]]
  IN ops(q.del, "delete") \o ops(q.rep, "replace") \o ops(q.upd, "update")

\* The store after the first n operations of a list, <<>> when an update
\* finds no object.
Effect(s, r, ops) ==
  LET after[n \in 0..Len(ops)] ==
        IF n = 0 THEN <<s>>
        ELSE LET p == ops[n]
                 b == after[n - 1]
             IN IF b = <<>> THEN <<>>
                ELSE CASE p.k = "delete" -> <<Deleted(b[1], p.o)>>
                       [] p.k = "replace" -> <<Replaced(b[1], r, p.o, p.fs)>>
                       [] p.k = "update" -> IF b[1][p.o] = <<>> THEN <<>> ELSE <<Merged(b[1], r, p.o, p.fs)>>
  IN after[Len(ops)]

--------------------------------------------------------------------------
(* transl_utils.go *)

\* ConvertToURI on the full path: the validator knows the path or not.
ConvertToURI(o) == o \in Objects

\* translib.NewVersion on the bundle version of the request.
NewVersionFails(q) == q.ver = "bad"

Take(r, s) ==
  /\ store' = s
  /\ order' = Append(order, r)
  /\ since' = [x \in TxRpcs |-> [o \in Objects |-> since[x][o] \cup {s[o]}]]

Keep == UNCHANGED <<store, order, since>>
Answer(r, pc) == tx' = [tx EXCEPT ![r].pc = pc]

TranslProcessDelete(r, p) ==
  IF ~ConvertToURI(p.o) \/ NewVersionFails(tx[r].q) THEN Answer(r, "failed") /\ Keep
  ELSE \/ Answer(r, "ok") /\ Take(r, Deleted(store, p.o))
       \/ "translib" \in TxFaults /\ Answer(r, "failed") /\ Keep

\* A value of another type has an empty payload, which translib may take as
\* an empty object or refuse.
TranslProcessReplace(r, p) ==
  IF ~ConvertToURI(p.o) \/ NewVersionFails(tx[r].q) THEN Answer(r, "failed") /\ Keep
  ELSE \/ Answer(r, "ok") /\ Take(r, Replaced(store, r, p.o, IF p.json THEN p.fs ELSE {}))
       \/ ("translib" \in TxFaults \/ ~p.json) /\ Answer(r, "failed") /\ Keep

\* The first call.  NotFound leads to a second one, translib.Replace, with
\* what other RPCs do in between.
TranslProcessUpdate(r, p) ==
  IF ~ConvertToURI(p.o) \/ NewVersionFails(tx[r].q) THEN Answer(r, "failed") /\ Keep
  ELSE \/ /\ store[p.o] # <<>>
          /\ Answer(r, "ok") /\ Take(r, Merged(store, r, p.o, IF p.json THEN p.fs ELSE {}))
       \/ store[p.o] = <<>> /\ Answer(r, "replace") /\ Keep
       \/ ("translib" \in TxFaults \/ ~p.json) /\ Answer(r, "failed") /\ Keep

UpdateCreates(r) ==
  /\ tx[r].pc = "replace"
  /\ LET p == tx[r].q.upd[1]
     IN \/ Answer(r, "ok") /\ Take(r, Replaced(store, r, p.o, IF p.json THEN p.fs ELSE {}))
        \/ ("translib" \in TxFaults \/ ~p.json) /\ Answer(r, "failed") /\ Keep
  /\ overwrote' = overwrote \cup {x \in {r} : tx'[x].pc = "ok" /\ store[tx[x].q.upd[1].o] # <<>>}
  /\ UNCHANGED first

\* Every path and value is converted before the one call of translib.
BulkRequest(q) ==
  /\ ~NewVersionFails(q)
  /\ \A i \in 1..Len(q.del) : ConvertToURI(q.del[i].o)
  /\ \A u \in {q.rep[i] : i \in 1..Len(q.rep)} \cup {q.upd[i] : i \in 1..Len(q.upd)} :
       ConvertToURI(u.o) /\ u.json

TranslProcessBulk(r) ==
  LET q == tx[r].q
  IN IF ~BulkRequest(q) THEN Answer(r, "failed") /\ Keep
     ELSE \/ LET s == Effect(store, r, Operations(q))
             IN IF s = <<>> THEN Answer(r, "failed") /\ Keep ELSE Answer(r, "ok") /\ Take(r, s[1])
          \/ "translib" \in TxFaults /\ Answer(r, "failed") /\ Keep

--------------------------------------------------------------------------
(* transl_data_client.go *)

TxInit ==
  /\ store \in [Objects -> {<<>>, <<Blank>>}]
  /\ \E q \in TxRequests : tx = [r \in TxRpcs |-> [q |-> q[r], pc |-> "new", todo |-> {}, got |-> {}]]
  /\ order = <<>> /\ first = store /\ overwrote = {}
  /\ since = [x \in TxRpcs |-> [o \in Objects |-> {}]]

\* Begins the history of what the RPC may read.
Since(r) == since' = [since EXCEPT ![r] = [o \in Objects |-> {store[o]}]]

\* Set: one operation by its own call, several by Bulk, none is a success.
Set(r) ==
  /\ tx[r].pc = "new" /\ tx[r].q.op = "set"
  /\ LET q == tx[r].q
         n == Len(q.del) + Len(q.rep) + Len(q.upd)
     IN CASE n > 1 -> TranslProcessBulk(r)
          [] n = 0 -> Answer(r, "ok") /\ Keep
          [] OTHER -> IF q.del # <<>> THEN TranslProcessDelete(r, q.del[1])
                      ELSE IF q.rep # <<>> THEN TranslProcessReplace(r, q.rep[1])
                      ELSE TranslProcessUpdate(r, q.upd[1])
  /\ UNCHANGED <<first, overwrote>>

\* NewTranslClient: PopulateClientPaths converts the paths or refuses the RPC.
NewTranslClient(r) ==
  /\ tx[r].pc = "new" /\ tx[r].q.op \in {"get", "subscribe"}
  /\ LET q == tx[r].q
     IN tx' = [tx EXCEPT ![r].pc = IF \E i \in 1..Len(q.del) : ~ConvertToURI(q.del[i].o) THEN "failed" ELSE q.op,
                         ![r].todo = 1..Len(q.del)]
  /\ Since(r) /\ UNCHANGED <<store, order, first, overwrote>>

\* Get: TranslProcessGet for one path after the other, in the order of a map.
Get(r, i) ==
  /\ tx[r].pc = "get" /\ i \in tx[r].todo
  /\ LET o == tx[r].q.del[i].o
     IN IF NewVersionFails(tx[r].q) \/ store[o] = <<>> THEN Answer(r, "failed")
        ELSE tx' = [tx EXCEPT ![r].todo = @ \ {i}, ![r].got = @ \cup {<<i, store[o]>>}]
  /\ Keep /\ UNCHANGED <<first, overwrote>>

GetReturns(r) ==
  /\ tx[r].pc = "get" /\ tx[r].todo = {}
  /\ Answer(r, "ok") /\ Keep /\ UNCHANGED <<first, overwrote>>

\* parseVersion, before a subscription runs: the version that translib could
\* not parse is kept, the one it could parse refuses the RPC.
parseVersion(q) == q.ver # "good"

Subscribe(r) ==
  /\ tx[r].pc = "subscribe"
  /\ Answer(r, IF parseVersion(tx[r].q) THEN "ok" ELSE "failed") /\ Keep /\ UNCHANGED <<first, overwrote>>

\* TranslProcessAction, one call of translib for the RPCs of gNOI.
TranslProcessAction(r) ==
  /\ tx[r].pc = "new" /\ tx[r].q.op = "action"
  /\ \/ ~NewVersionFails(tx[r].q) /\ Answer(r, "ok")
     \/ (NewVersionFails(tx[r].q) \/ "translib" \in TxFaults) /\ Answer(r, "failed")
  /\ Keep /\ UNCHANGED <<first, overwrote>>

TxNext ==
  \E r \in TxRpcs :
    \/ Set(r) \/ UpdateCreates(r) \/ NewTranslClient(r) \/ GetReturns(r) \/ Subscribe(r)
    \/ TranslProcessAction(r)
    \/ \E i \in tx[r].todo : Get(r, i)

TxSpec == TxInit /\ [][TxNext]_txVars /\ WF_txVars(TxNext)

--------------------------------------------------------------------------
(* Properties *)

\* What the RPCs of a sequence make of the first store, each as gNMI says.
Replay(rs) ==
  LET fields(p) == IF p.json THEN p.fs ELSE {}
      one(s, r, p) == CASE p.k = "delete" -> Deleted(s, p.o)
                        [] p.k = "replace" -> Replaced(s, r, p.o, fields(p))
                        [] p.k = "update" -> IF s[p.o] = <<>> THEN Replaced(s, r, p.o, fields(p))
                                             ELSE Merged(s, r, p.o, fields(p))
      all(s, r) == LET ops == Operations(tx[r].q)
                       after[n \in 0..Len(ops)] == IF n = 0 THEN s ELSE one(after[n - 1], r, ops[n])
                   IN after[Len(ops)]
      upTo[n \in 0..Len(rs)] == IF n = 0 THEN first ELSE all(upTo[n - 1], rs[n])
  IN upTo[Len(rs)]

TxOver(r) == tx[r].pc \in {"ok", "failed"}

\* The RPCs and the store keep their types.
TxTypeOK ==
  /\ \A r \in TxRpcs : tx[r].pc \in {"new", "replace", "get", "subscribe", "ok", "failed"}
  /\ \A r \in TxRpcs : /\ tx[r].pc = "replace" => tx[r].q.op = "set"
                       /\ tx[r].todo # {} => tx[r].q.op = "subscribe" \/ tx[r].pc \in {"get", "failed"}
  /\ \A o \in Objects : Len(store[o]) <= 1

\* A Set that fails leaves no trace, however many operations it has and
\* whichever of them is wrong (TranslProcessBulk converts all of them before
\* its one transaction; the second call of an Update is its only write).
FailedChangesNothing ==
  \A r \in TxRpcs : tx[r].pc = "failed" => \A i \in 1..Len(order) : order[i] # r

\* At every moment the store is what the Sets that succeeded make of the
\* first one, one after the other, each as gNMI defines it: deletes, then
\* replaces, then updates, which create what is not there.  Update and
\* Replace are two calls and still one operation, as long as nobody made the
\* object between them (TranslProcessUpdate, TranslProcessBulk).
Serial == overwrote = {} => store = Replay(order)

\* A Get that succeeds answers every path it was asked for, each with a value
\* the object held at some time during the RPC, though not all at the same.
GetAnswersAll ==
  \A r \in TxRpcs :
    tx[r].q.op = "get" /\ tx[r].pc = "ok"
      => \A i \in 1..Len(tx[r].q.del) :
           \E g \in tx[r].got : g[1] = i /\ g[2] \in since[r][tx[r].q.del[i].o] /\ g[2] # <<>>

\* Every RPC is answered, whatever the others do.
TxEnds == \A r \in TxRpcs : []<>TxOver(r)
=============================================================================
