----------------------- MODULE SubscribeSessionProofs -----------------------
(***************************************************************************)
(* SubscribeSession for any set of paths, any bounds and any faults: the   *)
(* steps of the data clients preserve the invariant of SessionStepProofs.  *)
(* So the wait groups are never negative, Run waits for every goroutine    *)
(* that is in Client.w, and a stop channel is closed once.                 *)
(***************************************************************************)
EXTENDS SessionStepProofs

---------------------------------------------------------------------------
(* DbClient, MixedDbClient and NonDbClient                                 *)

\* Put of one item.
LEMMA PutOne ==
  ASSUME Typed, NEW x \in Subs \cup {"sync", "fatal"}, Put(x)
  PROVE  q' \in Seq(Subs \cup {"sync", "fatal"})
<1>1. <<x>> \in Seq(Subs \cup {"sync", "fatal"})
  OBVIOUS
<1>2. QED
  BY <1>1, PutTyped, Zenon DEF Typed, Put

\* A runner that returns, or stops when it is told to.
LEMMA RunnerEndsIInv ==
  ASSUME IInv, NoRunner \/ MainStops \/ PollStops
  PROVE  IInv'
<1>1. /\ Goto("main", "gone") /\ w' \in {w, w - 1}
      /\ pc["main"] \in {"start", "stopwait"}
      /\ UNCHANGED <<request, world, mu, q, disposed, ch, tokens, panic, data, peer>>
  BY DEF IInv, Counting, NoRunner, MainStops, PollStops, Started, At, Exit, WDone, client
<1>2. Typed'
  BY <1>1 DEF IInv, Typed, request, world, data, peer
<1>3. "main" \in Live
  BY <1>1, Names DEF Live, Exited
<1>4. Simple("main", "main", "gone")
  BY <1>1, <1>3, Names DEF Simple, Move, Counted1, WorkerOK, IInv, Placed, Counting, request, data
<1>5. QED
  BY <1>2, <1>4, Names, SimpleIInv DEF Labels

\* StreamRun sends sync_response.
LEMMA DbStreamSyncIInv ==
  ASSUME IInv, DbStreamSync
  PROVE  IInv'
<1>1. /\ Goto("main", "stopwait") /\ Put("sync")
      /\ pc["main"] = "syncwait" /\ Isdb
      /\ UNCHANGED <<request, world, mu, disposed, ch, tokens, w, panic, data, peer>>
  BY DEF DbStreamSync, At
<1>2. Typed'
  BY <1>1, PutOne DEF IInv, Typed, request, world, data, peer
<1>3. "main" \in Live /\ pc["resp"] # "initial"
  BY <1>1, Names DEF Live, Exited, IInv, Placed, WorkerOK, Isdb
<1>4. Simple("main", "main", "stopwait")
  BY <1>1, <1>3, Names DEF Simple, Move, Counted1, WorkerOK, IInv, Placed, Counting, request, data
<1>5. QED
  BY <1>2, <1>4, Names, SimpleIInv DEF Labels

\* A subscription goroutine puts its first value or fails.
LEMMA DbSubInitIInv ==
  ASSUME IInv, NEW p \in Subs, DbSubInit(p)
  PROVE  IInv'
<1>1. /\ pc[p] = "init" /\ synced' = synced - 1
      /\ \/ Put(p) /\ Goto(p, "loop") /\ w' = w
         \/ Put("fatal") /\ Goto(p, "gone") /\ w' = w - 1
      /\ UNCHANGED <<request, world, mu, disposed, ch, tokens, panic, todo, onchange, stopped,
                     changes, served, peer>>
  BY DEF DbSubInit, At, Exit, WDone
<1>2. Typed'
  BY <1>1, PutOne DEF IInv, Typed, request, world, peer
<1>3. p \in Live /\ p \in Initial /\ Isdb /\ p \in Workers /\ p \notin {"main", "get", "stats", "resp"}
  BY <1>1, Names DEF Live, Initial, Exited, IInv, Placed, WorkerOK, Isdb
<1>4. \E l \in {"loop", "gone"} : Simple(p, p, l)
  BY <1>1, <1>3 DEF Simple, Move, Counted1, WorkerOK, IInv, Counting, request
<1>5. QED
  BY <1>2, <1>3, <1>4, SimpleIInv DEF Labels

\* A subscription goroutine puts a value, fails or stops.
LEMMA DbSubIInv ==
  ASSUME IInv, NEW p \in Subs, DbSubChange(p) \/ DbSubStops(p) \/ streamSample(p)
  PROVE  IInv'
<1>1. pc[p] = "loop" /\ UNCHANGED <<request, world, mu, disposed, ch, tokens, panic, synced, todo,
                                    onchange, stopped, served, peer>>
  BY DEF DbSubChange, DbSubStops, streamSample, At, data
<1>2. q' = q \/ Put(p) \/ Put("fatal")
  BY DEF DbSubChange, DbSubStops, streamSample
<1>3. changes' \in 0 .. MaxChanges
  BY ClientAssumption DEF DbSubChange, DbSubStops, streamSample, data, IInv, Typed
<1>4. Typed'
  BY <1>1, <1>2, <1>3, PutOne DEF IInv, Typed, request, world, peer
<1>5. /\ p \in Workers /\ p \notin {"main", "get", "stats", "resp"}
      /\ pc \in [Threads -> Labels] /\ p \in Threads
      /\ Isdb \/ kind = "nondb"
      /\ Isdb => p \in Live
  BY <1>1, Names DEF IInv, Placed, WorkerOK, Live, Exited, Isdb
<1>6. pc' = pc => Goto(p, "loop")
  BY <1>1, <1>5 DEF Goto
<1>7. \/ Goto(p, "loop") /\ w' = w
      \/ Goto(p, "gone") /\ Isdb /\ w' = w - 1
      \/ Goto(p, "gone") /\ kind = "nondb" /\ w' = w
  BY <1>6 DEF DbSubChange, DbSubStops, streamSample, Exit, WDone
<1>8. \E l \in {"loop", "gone"} : Simple(p, p, l)
  BY <1>1, <1>5, <1>7 DEF Simple, Move, Counted1, WorkerOK, IInv, Counting, request
<1>9. QED
  BY <1>4, <1>5, <1>8, SimpleIInv DEF Labels

\* StreamRun starts the subscription goroutines, all or some.
LEMMA DbStreamStartIInv ==
  ASSUME IInv, DbStreamStart
  PROVE  IInv'
<1>1. PICK S \in SUBSET Subs :
        /\ synced' = Cardinality(S)
        /\ pc' = [t \in Threads |->
                    IF t \in S THEN "init"
                    ELSE IF t = "main" THEN IF S = Subs THEN "syncwait" ELSE "gone"
                    ELSE pc[t]]
        /\ IF S = Subs
           THEN w' = w + Cardinality(S) /\ UNCHANGED q
           ELSE w' = w + Cardinality(S) - 1 /\ Put("fatal")
  BY DEF DbStreamStart
<1>2. /\ pc["main"] = "start" /\ Isdb
      /\ UNCHANGED <<request, world, mu, disposed, ch, tokens, panic, todo, onchange, stopped,
                     changes, served, peer>>
  BY DEF DbStreamStart, Started, At
<1>3. Typed'
  BY <1>1, <1>2, PutOne DEF IInv, Typed, request, world, peer
<1>4. /\ \A t \in S : pc'[t] = "init"
      /\ pc'["main"] = IF S = Subs THEN "syncwait" ELSE "gone"
      /\ \A t \in Threads : t # "main" /\ t \notin S => pc'[t] = pc[t]
      /\ kind' = kind
  BY <1>1, <1>2, Names DEF request
<1>5. Placed'
  <2>1. pc' \in [Threads -> Labels]
    BY <1>1 DEF IInv, Placed, Labels
  <2>2. ASSUME NEW t \in Workers
        PROVE  WorkerOK(t, pc[t])'
    <3>1. WorkerOK(t, pc'[t])
      <4>1. CASE t \in S
        BY <1>2, <1>4, <4>1, Names DEF WorkerOK
      <4>2. CASE t = "main"
        BY <1>4, <4>2, Names DEF WorkerOK
      <4>3. CASE t # "main" /\ t \notin S
        BY <1>4, <4>3, Names DEF IInv, Placed
      <4>4. QED
        BY <4>1, <4>2, <4>3
    <3>2. QED
      BY <1>4, <3>1 DEF WorkerOK, Isdb
  <2>3. pc'["resp"] # "initial" /\ pc'["main"] # "start"
    BY <1>2, <1>4, Names DEF IInv, Placed
  <2>4. QED
    BY <2>1, <2>2, <2>3 DEF Placed
<1>6. Counting'
  <2>1. IsFiniteSet(S) /\ Cardinality(S) \in Nat
    BY ClientAssumption, FS_Subset, FS_CardinalityType
  <2>2. Initial' = S
    BY <1>2, <1>4, Names DEF Initial, IInv, Placed
  <2>3. /\ "main" \in Live /\ Late = 0 /\ Late' = 0
        /\ Live' = IF S = Subs THEN Live \cup S ELSE (Live \ {"main"}) \cup S
    <3>1. "main" \in Live /\ "main" \notin S
      BY <1>2, Names DEF Live, Exited
    <3>2. Late = 0 /\ Late' = 0
      BY <1>2, <1>4 DEF Late
    <3>3. \A t \in Workers : t \in Live' <=> t \in S \/ (t \in Live /\ (t = "main" => S = Subs))
      <4>1. \A t \in Workers : ~(kind = "nondb" /\ t \in Subs)
        BY <1>2 DEF Isdb
      <4>2. QED
        BY <1>4, <3>1, <4>1, Names DEF Live, Exited
    <3>4. Live \subseteq Workers /\ Live' \subseteq Workers /\ S \subseteq Workers
      BY Names DEF Live
    <3>5. QED
      BY <3>1, <3>2, <3>3, <3>4
  <2>4. IsFiniteSet(Live) /\ Cardinality(Live) \in Nat /\ w \in Int /\ w >= Cardinality(Live)
    BY <2>3, Finite DEF IInv, Counting
  <2>5. w' \in Int /\ w' >= Cardinality(Live')
    <3>1. CASE S = Subs
      <4>1. Live' = Live \cup S /\ w' = w + Cardinality(S)
        BY <1>1, <2>3, <3>1
      <4>2. QED
        BY <2>1, <2>4, <4>1, UnionBound
    <3>2. CASE S # Subs
      <4> DEFINE L == Live \ {"main"}
      <4>1. Live' = L \cup S /\ w' = w + Cardinality(S) - 1
        BY <1>1, <2>3, <3>2
      <4>2. IsFiniteSet(L) /\ Cardinality(L) = Cardinality(Live) - 1
        BY <2>3, <2>4, FS_RemoveElement
      <4> HIDE DEF L
      <4>3. QED
        BY <2>1, <2>4, <4>1, <4>2, UnionBound
    <3>3. QED
      BY <3>1, <3>2
  <2>6. synced' \in Int /\ synced' >= Cardinality(Initial')
    BY <1>1, <2>1, <2>2
  <2>7. Late' = 0
    BY <2>3
  <2>8. \A c : w' >= c => w' + 0 >= c
    BY <2>5
  <2>9. w' + Late' >= Cardinality(Live')
    BY <2>5, <2>7, <2>8
  <2>10. QED
    BY <2>5, <2>6, <2>9 DEF Counting
<1>7. WorkerStep("main")
  BY <1>2, <1>4, Names DEF WorkerStep, request
<1>8. QED
  BY <1>3, <1>5, <1>6, <1>7, Names, WorkerStepIInv

\* StreamRun of NonDbClient starts goroutines that are not in w.
LEMMA NonDbStreamStartIInv ==
  ASSUME IInv, NonDbStreamStart
  PROVE  IInv'
<1>1. /\ pc["main"] = "start" /\ kind = "nondb"
      /\ UNCHANGED <<request, world, mu, disposed, ch, tokens, panic, data, peer>>
  BY DEF NonDbStreamStart, Started, At
<1>2. CASE /\ PutAll(Append(AllPaths, "sync"))
           /\ pc' = [t \in Threads |-> IF t \in Subs THEN "loop"
                                       ELSE IF t = "main" THEN "stopwait" ELSE pc[t]]
           /\ w' = w
  <2>1. Append(AllPaths, "sync") \in Seq(Subs \cup {"sync", "fatal"})
    <3>1. AllPaths \in Seq(Subs)
      BY ListedSeq DEF AllPaths
    <3>2. QED
      BY <3>1
  <2>2. Typed'
    BY <1>1, <1>2, <2>1, PutTyped, Zenon DEF IInv, Typed, request, world, data, peer
  <2>3. /\ pc' \in [Threads -> Labels]
        /\ \A p \in Subs : pc'[p] = "loop"
        /\ pc'["main"] = "stopwait"
        /\ \A t \in Threads : t # "main" /\ t \notin Subs => pc'[t] = pc[t]
        /\ kind' = kind
    BY <1>1, <1>2, Names DEF IInv, Placed, Labels, request
  <2>4. Placed'
    <3>1. ASSUME NEW t \in Workers
          PROVE  WorkerOK(t, pc[t])'
      <4>1. WorkerOK(t, pc'[t])
        <5>1. CASE t \in Subs \/ t = "main"
          BY <1>1, <2>3, <5>1, Names DEF WorkerOK
        <5>2. CASE t \notin Subs /\ t # "main"
          BY <2>3, <5>2, Names DEF IInv, Placed
        <5>3. QED
          BY <5>1, <5>2
      <4>2. QED
        BY <2>3, <4>1 DEF WorkerOK, Isdb
    <3>2. pc'["resp"] # "initial"
      BY <1>1, <2>3, Names DEF IInv, Placed
    <3>3. QED
      BY <2>3, <3>1, <3>2 DEF Placed
  <2>5. Counting'
    <3>1. Live' = Live /\ Late' = Late /\ Initial' = Initial /\ w' = w /\ synced' = synced
      <4>1. \A t \in Workers : t \in Live' <=> t \in Live
        BY <1>1, <2>3, Names DEF Live, Exited
      <4>2. Initial' = {} /\ Initial = {}
        BY <1>1, <2>3 DEF Initial, IInv, Placed
      <4>3. QED
        BY <1>1, <1>2, <2>3, <4>1, <4>2 DEF Live, Late, data
    <3>2. QED
      BY <3>1 DEF IInv, Counting
  <2>6. WorkerStep("main")
    BY <1>1, <2>3, Names DEF WorkerStep, request
  <2>7. QED
    BY <2>2, <2>4, <2>5, <2>6, Names, WorkerStepIInv
<1>3. CASE Put("fatal") /\ Goto("main", "gone") /\ w' = w - 1
  <2>1. Typed'
    BY <1>1, <1>3, PutOne DEF IInv, Typed, request, world, data, peer
  <2>2. "main" \in Live
    BY <1>1, Names DEF Live, Exited
  <2>3. Simple("main", "main", "gone")
    BY <1>1, <1>3, <2>2, Names DEF Simple, Move, Counted1, WorkerOK, IInv, Placed, Counting, request, data
  <2>4. QED
    BY <2>1, <2>3, Names, SimpleIInv DEF Labels
<1>4. QED
  BY <1>2, <1>3 DEF NonDbStreamStart, Exit, WDone

\* PollRun answers a poll or ends on a failed read.
LEMMA PollServeIInv ==
  ASSUME IInv, PollServe
  PROVE  IInv'
<1>1. /\ pc["main"] = "start" /\ tokens > 0 /\ tokens' = tokens - 1 /\ served' = served + 1
      /\ UNCHANGED <<request, world, mu, disposed, ch, panic, synced, todo, onchange, stopped,
                     changes, peer>>
  BY DEF PollServe, Started, At
<1>2. \E items \in Seq(Subs \cup {"sync", "fatal"}) : PutAll(items)
  <2>1. \A S \in SUBSET Subs : /\ Append(Listed(S), "sync") \in Seq(Subs \cup {"sync", "fatal"})
                               /\ Listed(S) \in Seq(Subs \cup {"sync", "fatal"})
    <3>1. SUFFICES ASSUME NEW S \in SUBSET Subs
                   PROVE  /\ Append(Listed(S), "sync") \in Seq(Subs \cup {"sync", "fatal"})
                          /\ Listed(S) \in Seq(Subs \cup {"sync", "fatal"})
      OBVIOUS
    <3>2. Listed(S) \in Seq(S)
      BY ListedSeq
    <3>3. QED
      BY <3>2
  <2>2. QED
    BY <2>1, Zenon DEF PollServe
<1>3. Typed'
  BY <1>1, <1>2, PutTyped DEF IInv, Typed, request, world, peer
<1>4. "main" \in Live /\ pc \in [Threads -> Labels] /\ "main" \in Threads
  BY <1>1, Names DEF Live, Exited, IInv, Placed
<1>5. pc' = pc => Goto("main", "start")
  BY <1>1, <1>4 DEF Goto
<1>6. (Goto("main", "start") /\ w' = w) \/ (Goto("main", "gone") /\ w' = w - 1)
  BY <1>5 DEF PollServe, Exit, WDone
<1>7. \E l \in {"start", "gone"} : Simple("main", "main", l)
  BY <1>1, <1>4, <1>6, Names DEF Simple, Move, Counted1, WorkerOK, IInv, Placed, Counting, request
<1>8. QED
  BY <1>3, <1>7, Names, SimpleIInv DEF Labels

---------------------------------------------------------------------------
(* EventClient and TranslClient                                            *)

\* The runner goes on and a routine t starts, goes on or ends.  The runner is
\* late to add it to w if m is one of the event client's labels.
Pair(t, l, m) ==
  /\ pc' = [pc EXCEPT ![t] = l, !["main"] = m] /\ kind' = kind
  /\ WorkerOK(t, l) /\ WorkerOK("main", m) /\ m \notin {"off", "start", "gone"}
  /\ pc["main"] \notin {"off", "gone"}
  /\ l = "initial" => m = "syncwait"
  /\ t # "resp" => pc["resp"] # "initial"
  /\ w' \in Int /\ w' + Late' >= (w + Late) - 1
  /\ l # "gone" \/ pc[t] \in {"off", "gone"} => w' + Late' >= w + Late
  /\ l # "gone" /\ pc[t] \in {"off", "gone"} => w' + Late' >= w + Late + 1
  /\ UNCHANGED <<mode, mu, disposed, ch, panic, synced>>

\* Such a step preserves the invariant.
LEMMA PairIInv ==
  ASSUME IInv, NEW t \in Routines, NEW l \in Labels \ {"off"}, NEW m \in Labels, Pair(t, l, m), Typed'
  PROVE  IInv'
<1>1. /\ pc' \in [Threads -> Labels] /\ pc'[t] = l /\ pc'["main"] = m
      /\ \A u \in Threads : u # t /\ u # "main" => pc'[u] = pc[u]
      /\ t # "main" /\ t \notin Subs /\ t \in Workers
  BY Names, Zenon DEF Pair, IInv, Placed, Threads, Routines, Workers
<1>2. kind' = kind /\ w \in Int /\ w + Late >= Cardinality(Live)
  BY DEF Pair, IInv, Counting
<1>3. Placed'
  <2>1. ASSUME NEW u \in Workers
        PROVE  WorkerOK(u, pc[u])'
    <3>1. WorkerOK(u, pc'[u])
      BY <1>1, Names DEF Pair, IInv, Placed
    <3>2. QED
      BY <1>2, <3>1 DEF WorkerOK, Isdb
  <2>2. pc'["resp"] = "initial" => pc'["main"] = "syncwait"
    BY <1>1, Names DEF Pair
  <2>3. pc'["main"] # "start"
    BY <1>1 DEF Pair
  <2>4. QED
    BY <1>1, <2>1, <2>2, <2>3 DEF Placed
<1>4. Counting'
  <2>1. OthersStay(t)
    BY <1>1, Names DEF OthersStay, Pair
  <2>2. /\ t \in Live <=> pc[t] \notin {"off", "gone"}
        /\ t \in Live' <=> l # "gone"
    BY <1>1, <1>2 DEF Live, Exited
  <2>3. /\ w' \in Int /\ w' + Late' >= (w + Late) - 1
        /\ t \in Live' \/ t \notin Live => w' + Late' >= w + Late
        /\ t \in Live' /\ t \notin Live => w' + Late' >= w + Late + 1
    BY <2>2 DEF Pair
  <2>4. w' + Late' >= Cardinality(Live')
    BY <1>1, <1>2, <2>1, <2>3, CountOne
  <2>5. Initial' = Initial
    BY <1>1, Names DEF Initial
  <2>6. QED
    BY <2>3, <2>4, <2>5 DEF IInv, Counting, Pair
<1>5. WorkerStep("main")
  BY <1>1, Names DEF WorkerStep, Pair, Closers, Workers
<1>6. QED
  BY <1>3, <1>4, <1>5, Names, WorkerStepIInv

\* StreamRun of the event client starts get_events and update_stats.
LEMMA EventStartIInv ==
  ASSUME IInv, EventStart
  PROVE  IInv'
<1>1. kind = "events" /\ UNCHANGED <<request, world, mu, q, disposed, ch, tokens, panic, data, peer>>
  BY DEF EventStart
<1>2. Typed'
  BY <1>1 DEF IInv, Typed, request, world, data, peer
<1>3. w \in Int /\ pc["resp"] # "initial"
  BY <1>1, Names DEF IInv, Counting, Placed, WorkerOK
<1>4. ASSUME NEW t \in {"get", "stats"}, NEW m \in {"add1", "add2"},
             pc["main"] \in {"start", "add1"}, pc' = [pc EXCEPT ![t] = "loop", !["main"] = m],
             w' = IF pc["main"] = "start" THEN w ELSE w + 1
      PROVE  IInv'
  <2>1. pc'["main"] = m
    BY <1>4, Names DEF IInv, Placed
  <2>2. w' \in Int /\ w' + Late' = w + Late + 1
    BY <1>3, <1>4, <2>1 DEF Late
  <2>3. w + Late \in Int
    BY <1>3 DEF Late
  <2>4. WorkerOK(t, "loop") /\ WorkerOK("main", m)
    BY <1>1, Names DEF WorkerOK
  <2>5. Pair(t, "loop", m)
    BY <1>1, <1>3, <1>4, <2>2, <2>3, <2>4 DEF Pair, request, data
  <2>6. QED
    BY <1>2, <2>5, PairIInv DEF Routines, Labels
<1>5. ASSUME pc["main"] = "add2", Goto("main", "check"), w' = w + 1
      PROVE  IInv'
  <2>1. /\ pc' \in [Threads -> Labels] /\ pc'["main"] = "check"
        /\ \A u \in Threads : u # "main" => pc'[u] = pc[u]
    BY <1>5, Names, GotoFacts DEF IInv, Placed, Labels
  <2>2. Move("main", "check")
    BY <1>1, <1>3, <1>5, Names DEF Move, WorkerOK, request
  <2>3. Placed'
    BY <2>2, Names, MovePlaced DEF IInv, Labels
  <2>4. w' \in Int /\ w' + Late' = w + Late
    BY <1>3, <1>5, <2>1 DEF Late
  <2>5. w + Late \in Int
    BY <1>3 DEF Late
  <2>6. OthersStay("main") /\ "main" \in Live /\ kind' = kind
    BY <1>1, <1>5, <2>1, Names DEF OthersStay, Live, Exited, request
  <2>7. w' + Late' >= Cardinality(Live')
    BY <1>3, <2>4, <2>5, <2>6, Names, CountOne DEF IInv, Counting
  <2>8. Initial' = Initial /\ synced' = synced
    BY <1>1, <2>1, Names DEF Initial, data
  <2>9. Counting'
    BY <2>4, <2>7, <2>8 DEF IInv, Counting
  <2>10. WorkerStep("main")
    BY <1>1, <1>5, <2>1, Names DEF WorkerStep, request
  <2>11. QED
    BY <1>2, <2>3, <2>9, <2>10, Names, WorkerStepIInv
<1>6. QED
  BY <1>4, <1>5 DEF EventStart, Started, At

\* The event client's goroutines run and end.
LEMMA EventIInv ==
  ASSUME IInv, EventMain \/ get_events \/ update_stats
  PROVE  IInv'
<1>1. UNCHANGED <<request, world, mu, disposed, ch, tokens, panic, synced, todo, onchange, served, peer>>
  BY DEF EventMain, get_events, update_stats, data
<1>2. /\ q' = q \/ \E p \in Subs : Put(p)
      /\ stopped' \in BOOLEAN
  BY Zenon DEF EventMain, get_events, update_stats, data, IInv, Typed
<1>3. changes' \in 0 .. MaxChanges
  BY ClientAssumption DEF EventMain, get_events, update_stats, data, IInv, Typed
<1>4. Typed'
  BY <1>1, <1>2, <1>3, PutOne DEF IInv, Typed, request, world, peer
<1>5. pc \in [Threads -> Labels] /\ w \in Int
  BY DEF IInv, Placed, Counting
<1>6. CASE EventMain
  <2>1. /\ kind = "events" /\ pc["main"] \in {"check", "stopwait"}
        /\ (Goto("main", "stopwait") /\ w' = w) \/ (Goto("main", "gone") /\ w' = w - 1)
    BY <1>6 DEF EventMain, At, Exit, WDone
  <2>2. "main" \in Live /\ pc["resp"] # "initial"
    BY <2>1, Names DEF Live, Exited, IInv, Placed
  <2>3. \E l \in {"stopwait", "gone"} : Simple("main", "main", l)
    BY <1>1, <1>5, <2>1, <2>2, Names DEF Simple, Move, Counted1, WorkerOK, request
  <2>4. QED
    BY <1>4, <2>3, Names, SimpleIInv DEF Labels
<1>7. ASSUME NEW t \in {"get", "stats"}, pc[t] = "loop",
             (pc' = pc /\ w' = w) \/ (Goto(t, "gone") /\ w' = w - 1)
      PROVE  IInv'
  <2>1. t \in Workers /\ t \in Threads /\ t \notin Subs /\ t \in Live /\ kind = "events"
    BY <1>7, Names DEF Live, Exited, IInv, Placed, WorkerOK
  <2>2. pc' = pc => Goto(t, "loop")
    BY <1>5, <1>7, <2>1 DEF Goto
  <2>3. \E l \in {"loop", "gone"} : Simple(t, t, l)
    BY <1>1, <1>5, <1>7, <2>1, <2>2 DEF Simple, Move, Counted1, WorkerOK, request
  <2>4. QED
    BY <1>4, <2>1, <2>3, SimpleIInv DEF Labels
<1>8. QED
  BY <1>6, <1>7 DEF get_events, update_stats, At, Exit, WDone

\* The runner of TranslClient starts to sample, fails, or goes back to wait.
LEMMA TranslMainIInv ==
  ASSUME IInv, TranslFails \/ TranslStreamStart \/ TranslToken \/ SampleTick
  PROVE  IInv'
<1>1. /\ UNCHANGED <<request, world, mu, disposed, ch, panic, synced, stopped, peer>>
      /\ Istransl /\ pc["main"] \in {"start", "stopwait"}
  BY DEF TranslFails, TranslStreamStart, TranslToken, SampleTick, Started, At, data, client
<1>2. /\ q' = q \/ Put("fatal")
      /\ todo' \subseteq Subs /\ onchange' \subseteq Subs
  BY DEF TranslFails, TranslStreamStart, TranslToken, SampleTick, data, client, IInv, Typed
<1>3. changes' \in 0 .. MaxChanges /\ served' \in Nat /\ tokens' \in 0 .. 1
  <2>1. MaxChanges \in Nat /\ changes \in 0 .. MaxChanges /\ served \in Nat /\ tokens \in 0 .. 1
    BY ClientAssumption DEF IInv, Typed
  <2>2. /\ changes' = changes \/ (changes < MaxChanges /\ changes' = changes + 1)
        /\ served' = served \/ served' = served + 1
        /\ tokens' = tokens \/ (tokens > 0 /\ tokens' = tokens - 1)
    BY DEF TranslFails, TranslStreamStart, TranslToken, SampleTick, data, client
  <2>3. QED
    BY <2>1, <2>2
<1>4. Typed'
  BY <1>1, <1>2, <1>3, PutOne DEF IInv, Typed, request, world, peer
<1>5. \/ Goto("main", "gone") /\ w' = w - 1
      \/ \E l \in {"sample", "tick"} : Goto("main", l) /\ w' = w
  BY DEF TranslFails, TranslStreamStart, TranslToken, SampleTick, Exit, WDone, client
<1>6. "main" \in Live /\ pc["resp"] # "initial" /\ w \in Int /\ kind = "transl"
  BY <1>1, Names DEF Live, Exited, IInv, Placed, Counting, Istransl
<1>7. \E l \in {"gone", "sample", "tick"} : Simple("main", "main", l)
  BY <1>1, <1>5, <1>6, Names DEF Simple, Move, Counted1, WorkerOK, request
<1>8. QED
  BY <1>4, <1>7, Names, SimpleIInv DEF Labels

\* doSample adds its responder to w and starts it.
LEMMA doSampleIInv ==
  ASSUME IInv, doSample
  PROVE  IInv'
<1>1. PICK p \in todo : todo' = todo \ {p} /\ Goto(p, "respond")
  BY DEF doSample
<1>2. /\ pc["main"] \in {"sample", "tick"} /\ w' = w + 1
      /\ UNCHANGED <<request, world, mu, q, disposed, ch, tokens, panic, synced, onchange, stopped,
                     changes, served, peer>>
  BY DEF doSample
<1>3. p \in Subs /\ Typed'
  BY <1>1, <1>2 DEF IInv, Typed, request, world, peer
<1>4. kind = "transl" /\ w \in Int
  BY <1>2, Names DEF IInv, Placed, WorkerOK, Counting
<1>5. Simple("main", p, "respond")
  BY <1>1, <1>2, <1>3, <1>4, Names DEF Simple, Move, Counted1, WorkerOK, request
<1>6. QED
  BY <1>3, <1>5, Names, SimpleIInv DEF Labels

\* After the last doSample.
LEMMA SamplesDoneIInv ==
  ASSUME IInv, SamplesDone
  PROVE  IInv'
<1>1. /\ pc["main"] \in {"sample", "tick"}
      /\ q' = q \/ Put("sync")
      /\ UNCHANGED <<request, world, mu, disposed, ch, tokens, panic, data, peer>>
  BY DEF SamplesDone
<1>2. Typed'
  BY <1>1, PutOne DEF IInv, Typed, request, world, data, peer
<1>3. kind = "transl" /\ w \in Int /\ "main" \in Live /\ pc["resp"] # "initial"
  BY <1>1, Names DEF IInv, Placed, WorkerOK, Counting, Live, Exited
<1>4. CASE \/ Goto("main", "gone") /\ w' = w - 1
           \/ \E l \in {"start", "stopwait"} : Goto("main", l) /\ w' = w
  <2>1. \E l \in {"start", "gone", "stopwait"} : Simple("main", "main", l)
    BY <1>1, <1>3, <1>4, Names DEF Simple, Move, Counted1, WorkerOK, request, data
  <2>2. QED
    BY <1>2, <2>1, Names, SimpleIInv DEF Labels
<1>5. CASE pc' = [pc EXCEPT !["resp"] = "initial", !["main"] = "syncwait"] /\ w' = w + 1
  <2>1. pc'["main"] = "syncwait"
    BY <1>5, Names DEF IInv, Placed
  <2>2. w' \in Int /\ w' + Late' = w + Late + 1 /\ w + Late \in Int
    BY <1>1, <1>3, <1>5, <2>1 DEF Late
  <2>3. WorkerOK("resp", "initial") /\ WorkerOK("main", "syncwait")
    BY <1>3, Names DEF WorkerOK
  <2>4. Pair("resp", "initial", "syncwait")
    BY <1>1, <1>3, <1>5, <2>2, <2>3 DEF Pair, request, data
  <2>5. QED
    BY <1>2, <2>4, PairIInv DEF Routines, Labels
<1>6. QED
  BY <1>4, <1>5 DEF SamplesDone, Exit, WDone

\* A responder puts what it got, or fails, and ends.
LEMMA processResponsesIInv ==
  ASSUME IInv, NEW p \in Subs, processResponses(p)
  PROVE  IInv'
<1>1. /\ pc[p] = "respond" /\ Goto(p, "gone") /\ w' = w - 1
      /\ ch' = ch \/ (ch' = "closed" /\ "terminated" \in Faults)
      /\ UNCHANGED <<request, world, mu, disposed, tokens, panic, data, peer>>
  BY DEF processResponses, TerminatedBy, At, Exit, WDone
<1>2. \E items \in {<<p>>, <<"fatal">>, <<"fatal", "fatal">>} : PutAll(items)
  BY DEF processResponses, TerminatedBy, Put
<1>3. q' \in Seq(Subs \cup {"sync", "fatal"})
  <2>1. /\ <<p>> \in Seq(Subs \cup {"sync", "fatal"}) /\ <<"fatal">> \in Seq(Subs \cup {"sync", "fatal"})
        /\ <<"fatal", "fatal">> \in Seq(Subs \cup {"sync", "fatal"})
    OBVIOUS
  <2>2. QED
    BY <1>2, <2>1, PutTyped, Zenon DEF IInv, Typed
<1>4. Typed'
  BY <1>1, <1>3 DEF IInv, Typed, request, world, data, peer
<1>5. kind = "transl" /\ w \in Int /\ p \in Live
  BY <1>1, Names, Zenon DEF IInv, Placed, WorkerOK, Counting, Live, Exited
<1>6. Simple(p, p, "gone")
  BY <1>1, <1>5, Names DEF Simple, Move, Counted1, WorkerOK, request, data
<1>7. QED
  BY <1>4, <1>6, Names, SimpleIInv DEF Labels

\* The first values of the ON_CHANGE paths release StreamRun.
LEMMA OnChangeInitialIInv ==
  ASSUME IInv, OnChangeInitial
  PROVE  IInv'
<1>1. /\ pc["resp"] = "initial"
      /\ UNCHANGED <<request, world, mu, disposed, ch, tokens, panic, data, peer>>
  BY DEF OnChangeInitial, At
<1>2. q' \in Seq(Subs \cup {"sync", "fatal"})
  <2>1. Listed(onchange) \in Seq(onchange) /\ onchange \subseteq Subs
    BY ListedSeq DEF IInv, Typed
  <2>2. Append(Listed(onchange), "sync") \in Seq(Subs \cup {"sync", "fatal"})
    BY <2>1
  <2>3. QED
    BY <2>2, PutTyped, PutOne, Zenon DEF OnChangeInitial, IInv, Typed
<1>3. Typed'
  BY <1>1, <1>2 DEF IInv, Typed, request, world, data, peer
<1>4. kind = "transl" /\ w \in Int /\ pc["main"] = "syncwait"
  BY <1>1, Names DEF IInv, Placed, WorkerOK, Counting
<1>5. PICK l \in {"loop", "gone"} : /\ pc' = [pc EXCEPT !["resp"] = l, !["main"] = "stopwait"]
                                    /\ w' = IF l = "loop" THEN w ELSE w - 1
  BY DEF OnChangeInitial, WDone
<1>6. pc'["main"] = "stopwait"
  BY <1>5, Names DEF IInv, Placed
<1>7. /\ w' \in Int /\ w + Late \in Int /\ w' + Late' >= (w + Late) - 1
      /\ l # "gone" => w' + Late' >= w + Late
  BY <1>4, <1>5, <1>6 DEF Late
<1>8. WorkerOK("resp", l) /\ WorkerOK("main", "stopwait")
  BY <1>4, Names DEF WorkerOK
<1>9. Pair("resp", l, "stopwait")
  BY <1>1, <1>4, <1>5, <1>7, <1>8 DEF Pair, request, data
<1>10. QED
  BY <1>3, <1>9, PairIInv DEF Routines, Labels

\* The responder of doOnChange goes on, stops, or is told that translib has
\* terminated the subscription.
LEMMA OnChangeResponsesIInv ==
  ASSUME IInv, OnChangeResponses
  PROVE  IInv'
<1>1. /\ pc["resp"] = "loop"
      /\ ch' = ch \/ (ch' = "closed" /\ "terminated" \in Faults)
      /\ UNCHANGED <<request, world, mu, disposed, tokens, panic, synced, todo, onchange, stopped,
                     served, peer>>
  BY DEF OnChangeResponses, TerminatedBy, At
<1>2. changes' \in 0 .. MaxChanges
  BY ClientAssumption DEF OnChangeResponses, IInv, Typed
<1>3. q' \in Seq(Subs \cup {"sync", "fatal"})
  <2>1. <<"fatal">> \in Seq(Subs \cup {"sync", "fatal"}) /\ <<"fatal", "fatal">> \in Seq(Subs \cup {"sync", "fatal"})
    OBVIOUS
  <2>2. q' = q \/ (\E p \in onchange : Put(p)) \/ PutAll(<<"fatal">>) \/ PutAll(<<"fatal", "fatal">>)
    BY DEF OnChangeResponses, TerminatedBy
  <2>3. onchange \subseteq Subs /\ q \in Seq(Subs \cup {"sync", "fatal"})
    BY DEF IInv, Typed
  <2>4. QED
    BY <2>1, <2>2, <2>3, PutTyped, PutOne, Zenon DEF IInv
<1>4. Typed'
  BY <1>1, <1>2, <1>3 DEF IInv, Typed, request, world, peer
<1>5. /\ kind = "transl" /\ w \in Int /\ "resp" \in Live
      /\ pc \in [Threads -> Labels] /\ "resp" \in Threads
  BY <1>1, Names DEF IInv, Placed, WorkerOK, Counting, Live, Exited
<1>6. pc' = pc => Goto("resp", "loop")
  BY <1>1, <1>5 DEF Goto
<1>7. (Goto("resp", "loop") /\ w' = w) \/ (Goto("resp", "gone") /\ w' = w - 1)
  BY <1>6 DEF OnChangeResponses, TerminatedBy, Exit, WDone
<1>8. \E l \in {"loop", "gone"} : Simple("resp", "resp", l)
  <2>1. PICK l \in {"loop", "gone"} : /\ Goto("resp", l)
                                      /\ w' = IF l = "loop" THEN w ELSE w - 1
    BY <1>7
  <2>2. WorkerOK("resp", l) /\ kind' = kind
    BY <1>1, <1>5, Names DEF WorkerOK, request
  <2>3. Move("resp", l)
    BY <2>1, <2>2 DEF Move
  <2>4. Counted1("resp", l)
    BY <1>1, <1>5, <2>1 DEF Counted1
  <2>5. QED
    BY <1>1, <2>3, <2>4 DEF Simple, request
<1>9. QED
  BY <1>4, <1>8, Names, SimpleIInv DEF Labels

---------------------------------------------------------------------------
(* The theorems                                                            *)

\* The invariant implies type correctness: a wait group is at least the
\* number of goroutines that will call Done.
LEMMA IInvTypeOK ==
  ASSUME IInv
  PROVE  TypeOK
<1>1. w \in Nat
  <2>1. CASE pc["main"] \in {"add1", "add2"}
    <3>1. "main" \in Live
      BY <2>1, Names DEF Live, Exited
    <3>2. Cardinality(Live) # 0 /\ Cardinality(Live) \in Nat
      BY <3>1, Finite, FS_EmptySet
    <3>3. w \in Int /\ w + 1 >= Cardinality(Live)
      BY <2>1 DEF IInv, Counting, Late
    <3>4. QED
      BY <3>2, <3>3
  <2>2. CASE pc["main"] \notin {"add1", "add2"}
    <3>1. w \in Int /\ w + 0 >= Cardinality(Live)
      BY <2>2 DEF IInv, Counting, Late
    <3>2. QED
      BY <3>1, Finite
  <2>3. QED
    BY <2>1, <2>2
<1>2. synced \in Nat
  BY Finite DEF IInv, Counting
<1>3. DOMAIN pc = Threads /\ mu \in Closers \cup {"none"}
  BY DEF IInv, Placed, Locked
<1>4. QED
  BY <1>1, <1>2, <1>3 DEF IInv, Typed, TypeOK

\* The invariant holds initially.
LEMMA InitIInv ==
  ASSUME Init
  PROVE  IInv
<1>1. PICK r \in Requests : mode = r[1] /\ kind = r[2] /\ appdb = r[3]
  BY DEF Init
<1>2. mode \in Modes /\ kind \in Kinds /\ appdb \in BOOLEAN
  BY <1>1 DEF Requests
<1>3. Typed
  <2>1. inbox \in Seq({"poll", "other"}) /\ q \in Seq(Subs \cup {"sync", "fatal"})
    BY DEF Init
  <2>2. msgs \in 0 .. MaxMsgs /\ changes \in 0 .. MaxChanges /\ tokens \in 0 .. 1 /\ served \in Nat /\ nsync \in Nat
    BY ClientAssumption DEF Init
  <2>3. QED
    BY <1>2, <2>1, <2>2, Zenon DEF Init, Typed
<1>4. /\ pc \in [Threads -> Labels] /\ \A t \in Workers : pc[t] = "off"
      /\ pc["run"] = "setup" /\ pc["recv"] = "off"
      /\ \A t \in Closers : pc[t] \in {"setup", "off"}
  BY Names DEF Init, Labels, Closers
<1>5. Placed
  BY <1>4, Names DEF Placed, WorkerOK
<1>6. Counting
  <2>1. Live = {} /\ Initial = {} /\ Late = 0
    BY <1>4, Names DEF Live, Initial, Late, Exited
  <2>2. Cardinality({}) = 0
    BY FS_EmptySet
  <2>3. QED
    BY <2>1, <2>2 DEF Init, Counting
<1>7. Locked
  BY <1>4 DEF Init, Locked, Closers
<1>8. Spanned
  BY <1>4 DEF Spanned, RunWaitsForChildren
<1>9. QED
  BY <1>3, <1>5, <1>6, <1>7, <1>8 DEF IInv

\* Every step preserves it.
LEMMA NextIInv ==
  ASSUME IInv, [Next]_vars
  PROVE  IInv'
<1>1. CASE Client
  BY <1>1, CloseBeginIInv, CloseEndIInv, WalksIInv, RunStartsIInv, sendIInv, recvPollIInv DEF Client
<1>2. CASE Environment
  BY <1>2, PeerIInv, WalksIInv DEF Environment
<1>3. CASE DataClient
  BY <1>3, RunnerEndsIInv, DbStreamStartIInv, DbStreamSyncIInv, DbSubInitIInv, DbSubIInv,
     NonDbStreamStartIInv, PollServeIInv, EventStartIInv, EventIInv, TranslMainIInv, doSampleIInv,
     SamplesDoneIInv, OnChangeInitialIInv, OnChangeResponsesIInv, processResponsesIInv DEF DataClient
<1>4. CASE UNCHANGED vars
  <2>1. UNCHANGED <<request, pc, client, data, peer, world>>
    BY <1>4 DEF vars
  <2>2. Typed'
    BY <2>1 DEF IInv, Typed, request, client, data, peer, world
  <2>3. Locked'
    BY <2>1 DEF IInv, Locked, request, client
  <2>4. CloserStep
    BY <2>1 DEF CloserStep, IInv, Placed, Spanned, request, client, data
  <2>5. QED
    BY <2>2, <2>3, <2>4, CloserStepIInv
<1>5. QED
  BY <1>1, <1>2, <1>3, <1>4 DEF Next, Finished

\* The invariant holds in every reachable state.
THEOREM SpecIInv == Spec => []IInv
  BY InitIInv, NextIInv, PTL DEF Spec

\* Type correctness.  In particular neither Client.w nor the synced wait
\* group of a data client ever goes below zero, which would panic.
THEOREM TypeCorrect == Spec => []TypeOK
  BY SpecIInv, IInvTypeOK, PTL

\* When Run has returned, every goroutine that is in Client.w has exited, for
\* any number of paths, whichever way the session ended.
THEOREM RunWaits == Spec => []RunWaitsForChildren
<1>1. IInv => RunWaitsForChildren
  BY DEF IInv, Spanned
<1>2. QED
  BY <1>1, SpecIInv, PTL

\* In STREAM and ONCE sessions that translib does not terminate, Run, recv
\* and a duplicate RPC may call Close at any time and in any order, and the
\* channel is closed once.
THEOREM NoPanics ==
  ASSUME "POLL" \notin Modes, "terminated" \notin Faults
  PROVE  Spec => []NoPanic
<1>1. IInv => NoPanic
  BY DEF IInv, Locked, NoPanic
<1>2. QED
  BY <1>1, SpecIInv, PTL
=============================================================================
