---------------------------- MODULE TranslStream ----------------------------
(***************************************************************************)
(* What a Subscribe STREAM over translib tells its subscriber.  StreamRun  *)
(* samples a path by translib.Stream, processResponses turns each answer   *)
(* into a notification: for SAMPLE by the difference to what is cached of  *)
(* the path (ygotCache, ygot_diff.go), for ON_CHANGE and its heartbeats by *)
(* defaultMsgBuilder (sonic_data_client/transl_subscriber.go).             *)
(*                                                                         *)
(* A struct of ygot is a function from fields; Schema gives the kind of a  *)
(* field.  Leaves, unions and enums are numbers with 0 for nil, an empty   *)
(* leaf is 0 or 1, a leaf-list a sequence, a container a sequence of at    *)
(* most one struct, a list a function from keys.  A path is a sequence of  *)
(* elements, <<name>> or <<name, key>>.                                    *)
(***************************************************************************)
EXTENDS Naturals, Sequences, FiniteSets

CONSTANTS Schema,      \* the kind of each field
          Structs,     \* the structs an instance may hold
          InstKeys,    \* the instances of the subscribed list
          Starts,      \* what they may hold when the stream begins
          BadEnums,    \* enum values that ocbinds does not name
          TsModes,     \* subset of {"sample", "onchange"}
          LeafSubs,    \* subscribed leaf: <<>> for the list, <<f>> for a leaf
          MaxChanges, MaxTicks

VARIABLES sub,     \* the subscription: mode, suppress_redundant, updates_only, leaf
          data,    \* what translib reads: <<>> or <<struct>> for an instance
          changes, ticks,
          run,     \* doSample: where it is, what translib still reads
          hq, cq,  \* the queues of a sample and of doOnChange: translib to processResponses
          values,  \* ygotCache.values
          rcvd,    \* rcvdPaths
          replica, \* what the subscriber holds: <<path, value>> pairs
          seen,    \* the last answer for each instance (history)
          faults   \* what a notification did that it should not (history)

tsVars == <<sub, data, changes, ticks, run, hq, cq, values, rcvd, replica, seen, faults>>

Elem(k) == <<"inst", k>>

--------------------------------------------------------------------------
(* ygot_diff.go *)

NoMessage == [upd |-> {}, del |-> {}, err |-> FALSE]
Union(D) == [upd |-> UNION {d.upd : d \in D}, del |-> UNION {d.del : d \in D},
             err |-> \E d \in D : d.err]
pushPrefix(e, d) == [upd |-> {<<<<e>> \o u[1], u[2]>> : u \in d.upd},
                     del |-> {<<e>> \o p : p \in d.del}, err |-> d.err]
recordUpdate(f, v) == [NoMessage EXCEPT !.upd = {<<<<<<f>>>>, v>>}]
recordDelete(f) == [NoMessage EXCEPT !.del = {<<<<f>>>>}]

\* ygot.TogNMINotifications: an update for every leaf that is set.
RECURSIVE recordUpdates(_)
recordUpdates(s) ==
  Union({LET v == s[f] IN
         CASE Schema[f] = "cont"     -> IF v = <<>> THEN NoMessage ELSE pushPrefix(<<f>>, recordUpdates(v[1]))
           [] Schema[f] = "list"     -> Union({pushPrefix(<<f, k>>, recordUpdates(v[k])) : k \in DOMAIN v})
           [] Schema[f] \in {"leaflist", "unionlist"} -> IF v = <<>> THEN NoMessage ELSE recordUpdate(f, v)
           [] OTHER -> IF v = 0 THEN NoMessage
                       ELSE IF Schema[f] = "enum" /\ v \in BadEnums THEN [NoMessage EXCEPT !.err = TRUE]
                       ELSE recordUpdate(f, <<v>>) : f \in DOMAIN s})

forLeaf(f, v1, v2, all) ==
  IF v2 = 0 /\ Schema[f] # "empty" THEN IF v1 # 0 THEN recordDelete(f) ELSE NoMessage
  ELSE IF all \/ v1 # v2 THEN recordUpdate(f, <<v2>>) ELSE NoMessage

forEnum(f, v1, v2, all) ==
  IF v2 \in BadEnums /\ (all \/ v1 # v2) THEN [NoMessage EXCEPT !.err = TRUE] ELSE forLeaf(f, v1, v2, all)

\* The elements are compared as Go interfaces; a union holds a pointer, and
\* every sample makes new ones.
forLeafList(f, v1, v2, all) ==
  IF v2 = <<>> THEN IF v1 # <<>> THEN recordDelete(f) ELSE NoMessage
  ELSE IF all \/ v1 # v2 \/ Schema[f] = "unionlist" THEN recordUpdate(f, v2) ELSE NoMessage

\* The difference of two optional structs.
RECURSIVE forStruct(_, _, _)
\* Mutant: an instance that is new to the list is compared, not recorded.
MutForList(f, m1, m2, all) ==
  Union({pushPrefix(<<f, k>>, forStruct(<<m1[k]>>, <<m2[k]>>, all)) : k \in DOMAIN m1 \cap DOMAIN m2}
        \cup {[NoMessage EXCEPT !.del = {<<<<f, k>>>>}] : k \in DOMAIN m1 \ DOMAIN m2})

forList(f, m1, m2, all) ==
  Union({pushPrefix(<<f, k>>, forStruct(<<m1[k]>>, <<m2[k]>>, all)) : k \in DOMAIN m1 \cap DOMAIN m2}
        \cup {[NoMessage EXCEPT !.del = {<<<<f, k>>>>}] : k \in DOMAIN m1 \ DOMAIN m2}
        \cup {pushPrefix(<<f, k>>, recordUpdates(m2[k])) : k \in DOMAIN m2 \ DOMAIN m1})

forStruct(o1, o2, all) ==
  IF o1 = <<>> THEN IF o2 = <<>> THEN NoMessage ELSE recordUpdates(o2[1])
  ELSE IF o2 = <<>> THEN [NoMessage EXCEPT !.del = {<<>>}]
  ELSE Union({LET v1 == o1[1][f]
                  v2 == o2[1][f]
              IN CASE Schema[f] = "cont" -> pushPrefix(<<f>>, forStruct(v1, v2, all))
                   [] Schema[f] = "list" -> forList(f, v1, v2, all)
                   [] Schema[f] \in {"leaflist", "unionlist"} -> forLeafList(f, v1, v2, all)
                   [] Schema[f] = "enum" -> forEnum(f, v1, v2, all)
                   [] OTHER -> forLeaf(f, v1, v2, all) : f \in DOMAIN o1[1]})

Diff(old, new, all) == forStruct(old, <<new>>, all)

--------------------------------------------------------------------------
(* The subscriber *)

IsPrefix(p, s) == Len(p) <= Len(s) /\ SubSeq(s, 1, Len(p)) = p

\* The deletes of a notification come before its updates; an empty leaf that
\* is false is one that is not there.
Applied(r, d) ==
  {x \in r : (\A p \in d.del : ~IsPrefix(p, x[1])) /\ (\A u \in d.upd : u[1] # x[1])}
  \cup {u \in d.upd : u[2] # <<0>>}

--------------------------------------------------------------------------
(* translib, external *)

\* A subscribed leaf is answered with its parent holding that leaf alone.
View(s) == IF sub.leaf = <<>> THEN s
           ELSE [f \in DOMAIN s |-> IF f = sub.leaf[1] THEN s[f]
                                    ELSE IF Schema[f] \in {"leaf", "enum", "union", "empty"} THEN 0 ELSE <<>>]
Blank(s) == recordUpdates(s).upd = {} /\ ~recordUpdates(s).err

Fatal == run.pc = "fatal"
LeafPairs(o) == IF o = <<>> THEN {} ELSE recordUpdates(o[1]).upd

\* What translib reports of a change: the leaves that differ, or a delete of
\* the path itself with all the leaves of what replaces it.
Reports(old, new) ==
  LET gone == {u[1] : u \in LeafPairs(old)} \ {u[1] : u \in LeafPairs(new)}
  IN (IF new = <<>> THEN {} ELSE {[upd |-> LeafPairs(new) \ LeafPairs(old), del |-> gone]})
     \cup (IF old = <<>> THEN {} ELSE {[upd |-> LeafPairs(new), del |-> {<<>>}]})
Message(t, k, s, d) == [t |-> t, k |-> k, s |-> s, upd |-> d.upd, del |-> d.del]

Change(k, o) ==
  /\ changes < MaxChanges /\ data[k] # o /\ ~Fatal
  /\ changes' = changes + 1
  /\ data' = [data EXCEPT ![k] = o]
  /\ IF sub.mode = "sample" THEN cq' = cq
     ELSE \E d \in Reports(data[k], o) : cq' = Append(cq, Message("change", k, o, d))
  /\ UNCHANGED <<sub, ticks, run, hq, values, rcvd, replica, seen, faults>>

\* translib.Stream, and the first part of translib.Subscribe, read one
\* instance after the other and end with SyncComplete.
Read(k) ==
  /\ run.pc = "stream" /\ k \in run.todo
  /\ run' = [run EXCEPT !.todo = @ \ {k}]
  /\ LET o == data[k]
         send(s) == Message("update", k, <<s>>, recordUpdates(s))
         to(m) == IF run.subscribe THEN cq' = Append(cq, m) /\ UNCHANGED hq
                  ELSE hq' = Append(hq, m) /\ UNCHANGED cq
     IN \/ o # <<>> /\ to(send(View(o[1])))
        \/ (IF o = <<>> THEN TRUE ELSE Blank(View(o[1]))) /\ UNCHANGED <<hq, cq>>
  /\ UNCHANGED <<sub, data, changes, ticks, values, rcvd, replica, seen, faults>>

ReadEnds ==
  /\ run.pc = "stream" /\ run.todo = {}
  /\ run' = [run EXCEPT !.pc = "wait"]
  /\ LET m == Message("sync", "", <<>>, NoMessage)
     IN IF run.subscribe THEN cq' = Append(cq, m) /\ UNCHANGED hq
        ELSE hq' = Append(hq, m) /\ UNCHANGED cq
  /\ UNCHANGED <<sub, data, changes, ticks, values, rcvd, replica, seen, faults>>

\* An error of translib: the queue is disposed and the RPC ends.
ReadFails ==
  /\ run.pc = "stream"
  /\ run' = [run EXCEPT !.pc = "fatal"] /\ hq' = <<>> /\ cq' = <<>>
  /\ UNCHANGED <<sub, data, changes, ticks, values, rcvd, replica, seen, faults>>

--------------------------------------------------------------------------
(* transl_subscriber.go *)

\* StreamRun: the first sample, or doOnChange, before the timers.
TsInit ==
  /\ sub \in [mode : TsModes, suppress : BOOLEAN, updatesOnly : BOOLEAN, heartbeat : BOOLEAN, leaf : LeafSubs]
  /\ sub.mode = "onchange" => ~sub.suppress /\ sub.leaf = <<>>
  /\ data \in Starts
  /\ changes = 0 /\ ticks = 0
  /\ run = [pc |-> "stream", todo |-> InstKeys, dup |-> FALSE, filter |-> sub.updatesOnly,
            subscribe |-> sub.mode = "onchange"]
  /\ hq = <<>> /\ cq = <<>>
  /\ values = [k \in InstKeys |-> <<>>] /\ rcvd = {}
  /\ replica = {} /\ seen = [k \in InstKeys |-> <<>>] /\ faults = {}

\* A timer: the sample interval, or the heartbeat.
Tick(heartbeat) ==
  /\ run.pc = "idle" /\ ticks < MaxTicks
  /\ heartbeat => sub.heartbeat /\ (sub.suppress \/ sub.mode = "onchange")
  /\ ~heartbeat => sub.mode = "sample"
  /\ ticks' = ticks + 1
  /\ run' = [pc |-> "stream", todo |-> InstKeys, dup |-> ~heartbeat /\ sub.suppress,
             filter |-> FALSE, subscribe |-> FALSE]
  /\ rcvd' = {}
  /\ UNCHANGED <<sub, data, changes, hq, cq, values, replica, seen, faults>>

\* notify: a notification of the pairs d reaches the subscriber.  A message
\* suppressed for updates_only is what the subscriber is taken to know.
notify(d) ==
  /\ replica' = Applied(replica, d)
  /\ faults' = faults
       \cup {"redundant" : u \in IF run.dup /\ ~run.filter THEN d.upd \cap replica ELSE {}}
       \cup {"outside" : p \in {p \in d.del : sub.leaf # <<>> /\ Len(p) < 2}}

\* The last element of the path goes to the front of the updates and the
\* deletes when the path itself was deleted.
defaultMsgBuilder(v) ==
  LET extra == IF <<>> \in v.del THEN <<Elem(v.k)>> ELSE <<>>
      prefix == IF <<>> \in v.del THEN <<>> ELSE <<Elem(v.k)>>
  IN [upd |-> {<<prefix \o extra \o u[1], u[2]>> : u \in v.upd},
      del |-> {prefix \o extra \o p : p \in v.del}, err |-> FALSE]

\* doSample: only SAMPLE has a cache.
Cached(k, s) == IF sub.mode = "sample" THEN [values EXCEPT ![k] = s] ELSE values

msgBuilder(v) ==
  LET d == IF run.filter THEN recordUpdates(v.s[1]) ELSE Diff(values[v.k], v.s[1], ~run.dup)
  IN pushPrefix(Elem(v.k), d)

toDeletePath(k) == <<Elem(k)>> \o (IF sub.leaf = <<>> THEN <<>> ELSE <<sub.leaf>>)

\* The cached paths that this sample did not bring.
deleteMsgBuilder ==
  LET gone == IF run.filter THEN {} ELSE {k \in InstKeys : values[k] # <<>> /\ k \notin rcvd}
  IN /\ notify([NoMessage EXCEPT !.del = {toDeletePath(k) : k \in gone}])
     /\ values' = [k \in InstKeys |-> IF k \in gone THEN <<>> ELSE values[k]]

\* processResponses on the queue of a sample.
ProcessUpdate ==
  /\ hq # <<>> /\ hq[1].t = "update" /\ ~Fatal
  /\ hq' = Tail(hq)
  /\ LET v == hq[1]
         d == IF sub.mode = "sample" THEN msgBuilder(v) ELSE defaultMsgBuilder(v)
     IN /\ values' = Cached(v.k, v.s)
        /\ rcvd' = rcvd \cup {v.k}
        /\ seen' = [seen EXCEPT ![v.k] = v.s]
        /\ IF d.err /\ ~run.filter
           THEN run' = [run EXCEPT !.pc = "fatal"] /\ UNCHANGED <<replica, faults>>
           ELSE notify(d) /\ UNCHANGED run
  /\ UNCHANGED <<sub, data, changes, ticks, cq>>

ProcessSync ==
  /\ hq # <<>> /\ hq[1].t = "sync" /\ ~Fatal
  /\ hq' = Tail(hq)
  /\ IF sub.mode = "sample" THEN deleteMsgBuilder ELSE UNCHANGED <<replica, faults, values>>
  /\ run' = [run EXCEPT !.pc = "idle", !.filter = FALSE]
  /\ seen' = [k \in InstKeys |-> IF k \in rcvd THEN seen[k] ELSE <<>>]
  /\ UNCHANGED <<sub, data, changes, ticks, cq, rcvd>>

\* processResponses on the queue of doOnChange.
ProcessChange ==
  /\ cq # <<>> /\ ~Fatal
  /\ cq' = Tail(cq)
  /\ IF cq[1].t = "sync"
     THEN run' = [run EXCEPT !.pc = "idle", !.filter = FALSE] /\ UNCHANGED <<replica, faults>>
     ELSE notify(defaultMsgBuilder(cq[1])) /\ UNCHANGED run
  /\ UNCHANGED <<sub, data, changes, ticks, hq, values, rcvd, seen>>

TsNext ==
  \/ \E k \in InstKeys, o \in {<<>>} \cup {<<s>> : s \in Structs} : Change(k, o)
  \/ \E k \in InstKeys : Read(k)
  \/ ReadEnds \/ ReadFails \/ (\E heartbeat \in BOOLEAN : Tick(heartbeat))
  \/ ProcessUpdate \/ ProcessSync \/ ProcessChange

TsSpec == TsInit /\ [][TsNext]_tsVars

--------------------------------------------------------------------------
(* Properties *)

\* The subscriber's state keeps its types; only a sampling one caches values.
TsTypeOK ==
  /\ run.pc \in {"stream", "wait", "idle", "fatal"} /\ run.todo \subseteq InstKeys
  /\ rcvd \subseteq InstKeys /\ faults \subseteq {"redundant", "outside"}
  /\ \A k \in InstKeys : Len(values[k]) <= 1 /\ (values[k] # <<>> => sub.mode = "sample")

\* After every sample the subscriber that applied the notifications in order
\* holds exactly what that sample read: nothing is lost to the differences
\* against the cache, to suppress_redundant or to a delete that names the
\* wrong path (ygotCache.msgBuilder, deleteMsgBuilder, Diff).
ReplicaExact ==
  sub.mode = "sample" /\ run.pc = "idle"
    => replica = UNION {pushPrefix(Elem(k), [NoMessage EXCEPT !.upd = LeafPairs(seen[k])]).upd : k \in InstKeys}

\* An ON_CHANGE subscriber without heartbeats holds what is in the database
\* once the changes have been delivered (defaultMsgBuilder).
ChangesExact ==
  sub.mode = "onchange" /\ ~sub.heartbeat /\ run.pc = "idle" /\ cq = <<>>
    => replica = UNION {pushPrefix(Elem(k), [NoMessage EXCEPT !.upd = LeafPairs(data[k])]).upd : k \in InstKeys}

\* A subscription to a leaf never tells its subscriber to delete the parent
\* (toDeletePath).
DeletesInside == "outside" \notin faults

\* With suppress_redundant a sample carries "only modified or deleted leaf
\* paths" (the comment on ygotCache.msgBuilder).
OnlyModified == "redundant" \notin faults
=============================================================================
