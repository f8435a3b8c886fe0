------------------------------ MODULE DialOut -------------------------------
(***************************************************************************)
(* The dial-out telemetry client (dialout/dialout_client/dialout_client.go)*)
(* as CONFIG_DB's TELEMETRY_CLIENT table drives it: one loop applies the   *)
(* table's notifications, and every clientSubscription structure has a     *)
(* publishRun goroutine.  A notification only names the key; what is       *)
(* applied is what the table holds when it is read.                        *)
(***************************************************************************)
EXTENDS Naturals, Sequences, FiniteSets

CONSTANTS Names, Groups, Dests,
          MaxOps,     \* changes of the table
          MaxInst,    \* clientSubscription structures
          NoGroup

Ids == 1..MaxInst
Absent == {"absent"}

VARIABLES rdb,       \* the table: the group of each subscription, the
                     \* destinations of each group
          typ,       \* each subscription's report type
          events,    \* keyspace notifications not yet read
          ops,
          destGrp,   \* destGrpNameMap
          users,     \* DestGrp2ClientSubMap
          subMap,    \* ClientSubscriptionNameMap: the structure's number, or 0
          inst,      \* the structures and their publishRun
          last,      \* number of structures made
          cancelled, \* contexts that have been cancelled
          rel,       \* structures the configuration has closed and cancelled
          panic      \* why the process has died, or "no"

vars == <<rdb, typ, events, ops, destGrp, users, subMap, inst, last, cancelled, rel, panic>>
Config == <<destGrp, users, subMap, last, cancelled, rel>>
Table == <<rdb, typ, events, ops>>

NoInst == [name |-> "", grp |-> NoGroup, dests |-> {}, opened |-> FALSE, stop |-> FALSE,
           ctx |-> 0, cancel |-> 0, pc |-> "none"]

Init ==
  /\ rdb = [sub |-> [s \in Names |-> "absent"], grp |-> [g \in Groups |-> Absent]]
  /\ typ \in [Names -> {"stream", "periodic", "once"}]
  /\ events = <<>> /\ ops = 0
  /\ destGrp = [g \in Groups |-> Absent] /\ users = [g \in Groups |-> Absent]
  /\ subMap = [s \in Names |-> 0]
  /\ inst = [i \in Ids |-> NoInst]
  /\ last = 0 /\ cancelled = {} /\ rel = {} /\ panic = "no"

---------------------------------------------------------------------------
(* Changes of the table. *)

Notify(kind, key, op) ==
  /\ ops < MaxOps /\ ops' = ops + 1
  /\ events' = Append(events, [kind |-> kind, key |-> key, op |-> op])
  /\ UNCHANGED <<typ, Config, inst, panic>>

SetSub(s, g) == rdb' = [rdb EXCEPT !.sub[s] = g] /\ Notify("sub", s, "hset")
DelSub(s) == /\ rdb.sub[s] # "absent"
             /\ rdb' = [rdb EXCEPT !.sub[s] = "absent"] /\ Notify("sub", s, "del")
SetGrp(g, d) == rdb' = [rdb EXCEPT !.grp[g] = {d}] /\ Notify("grp", g, "hset")
DelGrp(g) == /\ rdb.grp[g] # Absent
             /\ rdb' = [rdb EXCEPT !.grp[g] = Absent] /\ Notify("grp", g, "del")
SetGlobal == rdb' = rdb /\ Notify("global", "Global", "hset")

Operator ==
  \/ \E s \in Names : DelSub(s) \/ \E g \in Groups \cup {NoGroup} : SetSub(s, g)
  \/ \E g \in Groups : DelGrp(g) \/ \E d \in Dests : SetGrp(g, d)
  \/ SetGlobal

---------------------------------------------------------------------------
(* The structures. *)

\* Close: what it stops is whatever publishRun made last.
Close(f, i) == IF f[i].opened THEN [f EXCEPT ![i].opened = FALSE, ![i].stop = TRUE] ELSE f
CloseAll(f, ids) == [i \in Ids |-> IF i \in ids THEN Close(f, i)[i] ELSE f[i]]
Cancels(ids) == cancelled \cup {inst[i].cancel : i \in ids}

\* NewInstance: a publishRun for the group's destinations, if it has any yet.
NewInstance(cs, groups) ==
  IF cs.grp \in Groups /\ groups[cs.grp] # Absent
  THEN [cs EXCEPT !.dests = groups[cs.grp], !.pc = "restart"]
  ELSE [cs EXCEPT !.pc = "none"]

\* The context that one call of processTelemetryClientConfig makes.
Ctx == ops - Len(events) + 1

UsersOf(g) == IF users[g] = Absent THEN {} ELSE users[g]
IdsOf(ns) == {subMap[s] : s \in ns}

\* setupDestGroupClients: a copy of each structure, with the copy's old cancel
\* function, gets an instance of its own under the new context.
Copies(f, ns, groups) ==
  LET order == CHOOSE o \in [1..Cardinality(ns) -> ns] : \A a, b \in DOMAIN o : o[a] = o[b] => a = b
  IN [i \in Ids |-> IF i - last \in DOMAIN order
                    THEN NewInstance([f[subMap[order[i - last]]] EXCEPT !.ctx = Ctx], groups)
                    ELSE f[i]]
Remap(ns) ==
  LET order == CHOOSE o \in [1..Cardinality(ns) -> ns] : \A a, b \in DOMAIN o : o[a] = o[b] => a = b
  IN [s \in Names |-> IF s \in ns THEN last + (CHOOSE k \in DOMAIN order : order[k] = s) ELSE subMap[s]]

\* Close and restart the clients of the subscriptions ns.
Renew(ns, groups) ==
  /\ last + Cardinality(ns) <= MaxInst
  /\ last' = last + Cardinality(ns)
  /\ inst' = Copies(CloseAll(inst, IdsOf(ns)), ns, groups)
  /\ subMap' = Remap(ns)
  /\ cancelled' = Cancels(IdsOf(ns)) /\ rel' = rel \cup IdsOf(ns)

---------------------------------------------------------------------------
(* processTelemetryClientConfig. *)

Stale(g) == \E s \in UsersOf(g) : subMap[s] = 0
Die(why) == panic' = why /\ UNCHANGED <<Config, inst>>

applyGlobal(e) ==
  /\ e.kind = "global"
  /\ LET grps == {g \in Groups : destGrp[g] # Absent}
         ns == UNION {UsersOf(g) : g \in grps}
     IN IF \E g \in grps : Stale(g) THEN Die("stale user")
        ELSE Renew(ns, destGrp) /\ UNCHANGED <<destGrp, users, panic>>

\* A group: its clients are closed whatever the operation turns out to be.
applyGroup(e) ==
  /\ e.kind = "grp"
  /\ LET g == e.key
         ids == IdsOf(UsersOf(g))
         dests == IF rdb.grp[g] = Absent THEN {} ELSE rdb.grp[g]
     IN IF Stale(g) THEN Die("stale user")
        ELSE IF e.op = "hset"
        THEN /\ destGrp' = [destGrp EXCEPT ![g] = dests]
             /\ Renew(UsersOf(g), destGrp') /\ UNCHANGED <<users, panic>>
        ELSE /\ inst' = CloseAll(inst, ids)
             /\ cancelled' = Cancels(ids) /\ rel' = rel \cup ids
             /\ destGrp' = [destGrp EXCEPT ![g] = IF users[g] = Absent THEN Absent ELSE @]
             /\ UNCHANGED <<users, subMap, last, panic>>

Released(s) == IF subMap[s] = 0 THEN {} ELSE {subMap[s]}
CloseSub(s) == /\ cancelled' = Cancels(Released(s)) /\ rel' = rel \cup Released(s)

DeleteSub(s) ==
  IF subMap[s] = 0 THEN Die("unknown subscription")
  ELSE LET g == inst[subMap[s]].grp
       IN /\ inst' = CloseAll(inst, Released(s)) /\ CloseSub(s)
          /\ users' = [users EXCEPT ![g] = UsersOf(g) \ {s}]
          /\ subMap' = [subMap EXCEPT ![s] = 0]
          /\ UNCHANGED <<destGrp, last, panic>>

\* A subscription that names no group is not kept.
UpdateSub(s) ==
  LET g == rdb.sub[s]
  IN IF g \notin Groups
     THEN /\ inst' = CloseAll(inst, Released(s)) /\ CloseSub(s)
          /\ UNCHANGED <<destGrp, users, subMap, last, panic>>
     ELSE /\ last < MaxInst /\ last' = last + 1
          /\ inst' = [CloseAll(inst, Released(s)) EXCEPT ![last + 1] =
                        NewInstance([NoInst EXCEPT !.name = s, !.grp = g, !.ctx = Ctx, !.cancel = Ctx], destGrp)]
          /\ CloseSub(s)
          /\ users' = [users EXCEPT ![g] = UsersOf(g) \cup {s}]
          /\ subMap' = [subMap EXCEPT ![s] = last + 1]
          /\ UNCHANGED <<destGrp, panic>>

applySub(e) ==
  /\ e.kind = "sub"
  /\ IF e.op = "del" THEN DeleteSub(e.key) ELSE UpdateSub(e.key)

Process ==
  /\ panic = "no" /\ events # <<>>
  /\ LET e == Head(events) IN applyGlobal(e) \/ applyGroup(e) \/ applySub(e)
  /\ events' = Tail(events)
  /\ UNCHANGED <<rdb, typ, ops>>

---------------------------------------------------------------------------
(* publishRun. *)

Set(i, f) == inst' = [inst EXCEPT ![i] = f]
At(i, pc) == panic = "no" /\ inst[i].pc = pc
Keep == UNCHANGED <<Table, Config>>

\* A fresh stop channel and queue; a group without destinations has no first.
Restart(i) ==
  /\ At(i, "restart")
  /\ IF inst[i].dests = {} THEN panic' = "no destination" /\ inst' = inst
     ELSE Set(i, [inst[i] EXCEPT !.opened = TRUE, !.stop = FALSE, !.pc = "dial"]) /\ panic' = panic
  /\ Keep

\* Dial with a timeout; a cancelled context ends the routine.
Dial(i) ==
  /\ At(i, "dial")
  /\ IF inst[i].ctx \in cancelled THEN Set(i, [Close(inst, i)[i] EXCEPT !.pc = "gone"])
     ELSE \E l \in {"restart", "publish"} : Set(i, [inst[i] EXCEPT !.pc = l])
  /\ Keep /\ UNCHANGED panic

Publish(i) ==
  /\ At(i, "publish")
  /\ \/ inst[i].ctx \notin cancelled /\ Set(i, [inst[i] EXCEPT !.pc = "run"])
     \/ Set(i, [Close(inst, i)[i] EXCEPT !.pc = "restart"])
  /\ Keep /\ UNCHANGED panic

\* One report, or the end: a periodic routine looks at the stop channel before
\* every report, a stream routine once; both start again when sending fails,
\* which it does once the queue or the connection has been closed.
Run(i) ==
  /\ At(i, "run")
  /\ LET t == typ[inst[i].name]
         fails == [Close(inst, i)[i] EXCEPT !.pc = "restart"]
     IN IF t = "once" \/ inst[i].stop THEN Set(i, [inst[i] EXCEPT !.pc = "gone"])
        ELSE IF t = "stream" THEN Set(i, [inst[i] EXCEPT !.pc = "send"])
        ELSE \/ Set(i, fails)
             \/ inst[i].ctx \notin cancelled /\ inst' = inst
  /\ Keep /\ UNCHANGED panic

Send(i) ==
  /\ At(i, "send") /\ Set(i, [Close(inst, i)[i] EXCEPT !.pc = "restart"])
  /\ Keep /\ UNCHANGED panic

Publisher(i) == Restart(i) \/ Dial(i) \/ Publish(i) \/ Run(i)
Next == Operator \/ Process \/ \E i \in Ids : Publisher(i) \/ Send(i)

\* A stream ends for sure once its queue has been disposed or its context
\* cancelled; a publisher that can go on does.
Ended(i) == inst[i].stop \/ inst[i].ctx \in cancelled
Fairness == /\ WF_vars(Process)
            /\ \A i \in Ids : WF_vars(Publisher(i)) /\ WF_vars(Ended(i) /\ Send(i))

Spec == Init /\ [][Next]_vars /\ Fairness

---------------------------------------------------------------------------
Own(i) == inst[i].ctx = inst[i].cancel
Live(i) == inst[i].pc \notin {"none", "gone"}

\* Subscriptions and publishers keep their types, and only what was made is closed.
TypeOK ==
  /\ \A s \in Names : subMap[s] \in 0..last
  /\ \A i \in Ids : inst[i].pc \in {"none", "restart", "dial", "publish", "run", "send", "gone"}
  /\ rel \subseteq 1..last

\* A structure that the configuration has closed and cancelled stops its
\* publishRun, if the cancel function it carries is that of its own context.
ClosedOver(i) == i \in rel /\ Own(i) => ~Live(i) \/ panic # "no"
ClosedEnds == \A i \in Ids : []<>ClosedOver(i)

\* Once the table has been applied, a subscription and its group that are in
\* it have a publisher with the group's destinations.
Applied(s) ==
  panic = "no" /\ events = <<>> /\ rdb.sub[s] \in Groups /\ typ[s] # "once"
    => LET d == rdb.grp[rdb.sub[s]]
       IN d # Absent => \E i \in Ids : inst[i].name = s /\ Live(i) /\ inst[i].dests = d
ConfigApplied == \A s \in Names : <>[]Applied(s)

\* A change of a group reaches every subscription that publishes to it: the
\* subscription is among the group's users as long as it is kept.
UsersComplete ==
  \A s \in Names : subMap[s] # 0 => s \in users[inst[subMap[s]].grp]
=============================================================================
