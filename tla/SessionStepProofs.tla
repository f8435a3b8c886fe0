-------------------------- MODULE SessionStepProofs -------------------------
(***************************************************************************)
(* The invariant of SubscribeSession, for any set of paths, any bounds and *)
(* any faults, and the steps of Client.Run, recv, Close and the peer.      *)
(*                                                                         *)
(* Workers are the goroutines of the data client and Closers those that    *)
(* may call Close.  Every step is one of a worker or of a closer, and the  *)
(* invariant is split the same way.                                        *)
(***************************************************************************)
EXTENDS SubscribeSession, FiniteSetTheorems, TLAPS

Workers == {"main"} \cup Routines \cup Subs

Labels == {"setup", "send", "close", "closing", "wait", "returned", "recv", "put", "ctx",
           "off", "gone", "start", "init", "loop", "syncwait", "stopwait", "add1", "add2",
           "check", "sample", "tick", "respond", "initial"}

---------------------------------------------------------------------------
(* The inductive invariant                                                 *)

Typed ==
  /\ mode \in Modes /\ kind \in Kinds /\ appdb \in BOOLEAN
  /\ net \in {"open", "eof", "down"} /\ msgs \in 0..MaxMsgs
  /\ inbox \in Seq({"poll", "other"})
  /\ q \in Seq(Subs \cup {"sync", "fatal"})
  /\ disposed \in BOOLEAN /\ panic \in BOOLEAN /\ stopped \in BOOLEAN
  /\ ch \in {"nil", "open", "closed"} /\ tokens \in 0..1
  /\ todo \subseteq Subs /\ onchange \subseteq Subs
  /\ changes \in 0..MaxChanges /\ served \in Nat
  /\ fresh \subseteq Subs /\ nsync \in Nat

\* Where a goroutine of the data client can be, by the kind of the client.
WorkerOK(t, l) ==
  /\ t = "main" =>
       /\ l \in {"off", "start", "syncwait", "stopwait", "add1", "add2", "check", "sample",
                 "tick", "gone"}
       /\ l \in {"add1", "add2", "check"} => kind = "events"
       /\ l \in {"sample", "tick"} => kind = "transl"
  /\ t \in {"get", "stats"} => l \in {"off", "loop", "gone"} /\ (l = "loop" => kind = "events")
  /\ t = "resp" =>
       /\ l \in {"off", "initial", "loop", "gone"}
       /\ l \in {"initial", "loop"} => kind = "transl"
  /\ t \in Subs =>
       /\ l \in {"off", "init", "loop", "respond", "gone"}
       /\ l = "init" => Isdb
       /\ l = "respond" => kind = "transl"
       /\ l = "loop" => Isdb \/ kind = "nondb"

\* doOnChange waits while its responder is at the first values, and StreamRun
\* has started nothing before it starts the subscriptions.
Placed ==
  /\ pc \in [Threads -> Labels]
  /\ \A t \in Workers : WorkerOK(t, pc[t])
  /\ pc["resp"] = "initial" => pc["main"] = "syncwait"
  /\ pc["main"] = "start" => \A p \in Subs : pc[p] # "init"

\* The goroutines that will call w.Done(), those that will call
\* synced.Done(), and how many have started before they are in w.
Live == {t \in Workers : ~Exited(t) /\ ~(kind = "nondb" /\ t \in Subs)}
Initial == {p \in Subs : pc[p] = "init"}
Late == IF pc["main"] \in {"add1", "add2"} THEN 1 ELSE 0

\* Nobody calls Done on a wait group that is zero.
Counting ==
  /\ w \in Int /\ w + Late >= Cardinality(Live)
  /\ synced \in Int /\ synced >= Cardinality(Initial)

\* Close holds mu from the disposal of the queue until the channel is closed,
\* which nobody else closes.
Locked ==
  /\ mu \in Closers \cup {"none"}
  /\ \A t \in Closers : pc[t] = "closing" <=> mu = t
  /\ pc["recv"] = "put" => mode = "POLL"
  /\ mu # "none" => disposed
  /\ "terminated" \notin Faults /\ ch = "closed" => disposed /\ mu = "none"
  /\ "terminated" \notin Faults /\ "POLL" \notin Modes => ~panic

\* Before RunStarts there are no workers and no recv, and after Run has
\* returned no workers that it waits for.
Spanned ==
  /\ pc["run"] = "setup" => pc["recv"] = "off" /\ \A t \in Workers : pc[t] = "off"
  /\ RunWaitsForChildren

IInv == Typed /\ Placed /\ Counting /\ Locked /\ Spanned

---------------------------------------------------------------------------
(* Names, queues and counts                                                *)

\* The goroutines have different names, and no path is a message.
LEMMA Names ==
  /\ Threads = Workers \cup Closers /\ Workers \cap Closers = {}
  /\ {"main", "get", "stats", "resp"} \cap Subs = {} /\ {"main", "get", "stats", "resp"} \subseteq Workers
  /\ Subs \subseteq Workers /\ "sync" \notin Subs /\ "fatal" \notin Subs
  BY ClientAssumption DEF Threads, Workers, Closers, Routines

\* Listed puts every path of a set in the sequence, and nothing else.
LEMMA ListedSeq ==
  ASSUME NEW S \in SUBSET Subs
  PROVE  Listed(S) \in Seq(S) /\ \A p \in S : \E i \in DOMAIN Listed(S) : Listed(S)[i] = p
<1> DEFINE n == Cardinality(S)
<1>1. n \in Nat /\ Bijection(1 .. n, S) # {}
  BY ClientAssumption, FS_Subset, FS_CardinalityType DEF ExistsBijection
<1>2. Listed(S) \in Bijection(1 .. n, S)
  BY <1>1 DEF Listed
<1> HIDE DEF n
<1>3. Listed(S) \in [1 .. n -> S] /\ \A p \in S : \E i \in 1 .. n : Listed(S)[i] = p
  BY <1>2 DEF Bijection, Injection, Surjection
<1>4. QED
  BY <1>1, <1>3

\* What is put in the queue is a path, "sync" or "fatal".
LEMMA PutTyped ==
  ASSUME q \in Seq(Subs \cup {"sync", "fatal"}),
         NEW items \in Seq(Subs \cup {"sync", "fatal"}), PutAll(items)
  PROVE  q' \in Seq(Subs \cup {"sync", "fatal"})
  BY DEF PutAll

\* The goroutines are finitely many.
LEMMA Finite ==
  /\ IsFiniteSet(Live) /\ Cardinality(Live) \in Nat
  /\ IsFiniteSet(Initial) /\ Cardinality(Initial) \in Nat
<1>1. IsFiniteSet(Workers)
  <2>1. IsFiniteSet({"main"}) /\ IsFiniteSet({"get"}) /\ IsFiniteSet({"stats"}) /\ IsFiniteSet({"resp"})
    BY FS_Singleton, Zenon
  <2>2. IsFiniteSet({"get"} \cup {"stats"})
    BY <2>1, FS_Union, Zenon
  <2>3. IsFiniteSet(({"get"} \cup {"stats"}) \cup {"resp"})
    BY <2>1, <2>2, FS_Union, Zenon
  <2>4. IsFiniteSet({"main"} \cup (({"get"} \cup {"stats"}) \cup {"resp"}))
    BY <2>1, <2>3, FS_Union, Zenon
  <2>5. IsFiniteSet(({"main"} \cup (({"get"} \cup {"stats"}) \cup {"resp"})) \cup Subs)
    BY <2>4, ClientAssumption, FS_Union, Zenon
  <2>6. Workers = ({"main"} \cup (({"get"} \cup {"stats"}) \cup {"resp"})) \cup Subs
    BY DEF Workers, Routines
  <2>7. QED
    BY <2>5, <2>6
<1>2. Live \in SUBSET Workers /\ Initial \in SUBSET Subs
  BY DEF Live, Initial
<1>3. QED
  BY <1>1, <1>2, ClientAssumption, FS_Subset, FS_CardinalityType

\* The workers other than t start and end nothing.
OthersStay(t) ==
  \A u \in Workers : u # t => (pc'[u] \in {"off", "gone"} <=> pc[u] \in {"off", "gone"})

\* A bound on the size of a set that differs in t only.
LEMMA DifferInOne ==
  ASSUME NEW W, NEW L \in SUBSET W, NEW M \in SUBSET W, IsFiniteSet(L), NEW t,
         \A u \in W : u # t => (u \in M <=> u \in L),
         NEW a \in Int, NEW b \in Int, a >= Cardinality(L),
         b >= a - 1,
         t \in M \/ t \notin L => b >= a,
         t \in M /\ t \notin L => b >= a + 1
  PROVE  b >= Cardinality(M)
<1>1. Cardinality(L) \in Nat
  BY FS_CardinalityType
<1>2. CASE t \in L /\ t \in M
  <2>1. M = L
    BY <1>2
  <2>2. QED
    BY <1>1, <1>2, <2>1
<1>3. CASE t \notin L /\ t \notin M
  <2>1. M = L
    BY <1>3
  <2>2. QED
    BY <1>1, <1>3, <2>1
<1>4. CASE t \in L /\ t \notin M
  <2>1. M = L \ {t}
    BY <1>4
  <2>2. Cardinality(M) = Cardinality(L) - 1
    BY <1>4, <2>1, FS_RemoveElement
  <2>3. QED
    BY <1>1, <2>2
<1>5. CASE t \notin L /\ t \in M
  <2>1. M = L \cup {t}
    BY <1>5
  <2>2. Cardinality(M) = Cardinality(L) + 1
    BY <1>5, <2>1, FS_AddElement
  <2>3. QED
    BY <1>1, <1>5, <2>2
<1>6. QED
  BY <1>2, <1>3, <1>4, <1>5

\* The size of a union.
LEMMA UnionBound ==
  ASSUME NEW L, IsFiniteSet(L), NEW S, IsFiniteSet(S)
  PROVE  /\ Cardinality(L) \in Nat /\ Cardinality(S) \in Nat /\ Cardinality(L \cup S) \in Nat
         /\ Cardinality(L \cup S) <= Cardinality(L) + Cardinality(S)
<1>1. Cardinality(L) \in Nat /\ Cardinality(S) \in Nat
  BY FS_CardinalityType
<1>2. Cardinality(L \cap S) \in Nat
  <2>1. L \cap S \in SUBSET L
    OBVIOUS
  <2>2. IsFiniteSet(L \cap S)
    BY <2>1, FS_Subset
  <2>3. QED
    BY <2>2, FS_CardinalityType
<1>3. /\ IsFiniteSet(L \cup S)
      /\ Cardinality(L \cup S) = Cardinality(L) + Cardinality(S) - Cardinality(L \cap S)
  BY FS_Union
<1>4. Cardinality(L \cup S) \in Nat
  BY <1>3, FS_CardinalityType
<1>5. QED
  BY <1>1, <1>2, <1>3, <1>4

\* A worker that starts must be added to w and one that ends may be taken
\* from it.
LEMMA CountOne ==
  ASSUME NEW t \in Workers, OthersStay(t), kind' = kind, w \in Int, w' \in Int,
         w + Late >= Cardinality(Live),
         w' + Late' >= (w + Late) - 1,
         t \in Live' \/ t \notin Live => w' + Late' >= w + Late,
         t \in Live' /\ t \notin Live => w' + Late' >= w + Late + 1
  PROVE  w' + Late' >= Cardinality(Live')
<1> DEFINE L == Live
           M == Live'
           a == w + Late
           b == w' + Late'
<1>1. IsFiniteSet(L) /\ a \in Int /\ b \in Int
  BY Finite DEF Late
<1>2. \A u \in Workers : u # t => (u \in M <=> u \in L)
  BY DEF OthersStay, Live, Exited
<1>3. L \in SUBSET Workers /\ M \in SUBSET Workers
  BY DEF Live
<1>4. /\ a >= Cardinality(L) /\ b >= a - 1
      /\ t \in M \/ t \notin L => b >= a
      /\ t \in M /\ t \notin L => b >= a + 1
  OBVIOUS
<1>5. SUFFICES b >= Cardinality(M)
  OBVIOUS
<1> HIDE DEF L, M, a, b
<1>6. QED
  BY <1>1, <1>2, <1>3, <1>4, DifferInOne, Zenon

---------------------------------------------------------------------------
(* Steps of workers                                                        *)

\* Goto moves one goroutine.
LEMMA GotoFacts ==
  ASSUME pc \in [Threads -> Labels], NEW t \in Threads, NEW l \in Labels, Goto(t, l)
  PROVE  /\ pc' \in [Threads -> Labels] /\ pc'[t] = l
         /\ \A u \in Threads : u # t => pc'[u] = pc[u]
  BY DEF Goto

\* A worker goes to one of the places it may be at.
Move(t, l) ==
  /\ Goto(t, l) /\ kind' = kind
  /\ WorkerOK(t, l) /\ l \notin {"init", "initial"}
  /\ t = "main" /\ l # "syncwait" => pc["resp"] # "initial"
  /\ t = "main" /\ l = "start" => pc[t] = "start" \/ kind = "transl"

\* Such a move leaves the workers at places they may be at.
LEMMA MovePlaced ==
  ASSUME Placed, NEW t \in Workers, NEW l \in Labels, Move(t, l)
  PROVE  Placed'
<1>1. /\ pc' \in [Threads -> Labels] /\ pc'[t] = l
      /\ \A u \in Workers : u # t => pc'[u] = pc[u]
  BY Names, GotoFacts DEF Placed, Move
<1>2. kind' = kind
  BY DEF Move
<1>3. ASSUME NEW u \in Workers
      PROVE  WorkerOK(u, pc[u])'
  <2>1. WorkerOK(u, pc'[u])
    BY <1>1 DEF Placed, Move
  <2>2. QED
    BY <1>2, <2>1 DEF WorkerOK, Isdb
<1>4. pc'["resp"] = "initial" => pc'["main"] = "syncwait"
  BY <1>1, Names DEF Placed, Move
<1>5. pc'["main"] = "start" => \A p \in Subs : pc'[p] # "init"
  BY <1>1, Names DEF Placed, Move, WorkerOK, Isdb
<1>6. QED
  BY <1>1, <1>3, <1>4, <1>5 DEF Placed

\* The wait groups follow the move of a worker.
Counted1(t, l) ==
  /\ t = "main" => pc[t] \notin {"add1", "add2"} /\ l \notin {"add1", "add2"}
  /\ w' \in {w - 1, w, w + 1}
  /\ w' = w - 1 => t \in Live /\ l = "gone"
  /\ w' = w => l = "gone" \/ t \in Live \/ (kind = "nondb" /\ t \in Subs)
  /\ synced' = synced \/ (synced' = synced - 1 /\ t \in Initial)

\* Then nobody will call Done on a wait group that is zero.
LEMMA MoveCounting ==
  ASSUME Placed, Counting, NEW t \in Workers, NEW l \in Labels, Move(t, l), Counted1(t, l)
  PROVE  Counting'
<1>1. /\ pc'[t] = l /\ \A u \in Workers : u # t => pc'[u] = pc[u]
      /\ kind' = kind
  BY Names, GotoFacts DEF Placed, Move
<1>2. Late' = Late
  BY <1>1, Names DEF Late, Counted1
<1>3. OthersStay(t)
  BY <1>1 DEF OthersStay
<1>4. /\ t \in Live <=> pc[t] \notin {"off", "gone"} /\ ~(kind = "nondb" /\ t \in Subs)
      /\ t \in Live' <=> l \notin {"off", "gone"} /\ ~(kind = "nondb" /\ t \in Subs)
  BY <1>1 DEF Live, Exited
<1>5. w \in Int /\ w' \in Int /\ Late \in Int
  BY DEF Counting, Counted1, Late
<1>6. /\ w' + Late' >= (w + Late) - 1
      /\ t \in Live' \/ t \notin Live => w' + Late' >= w + Late
      /\ t \in Live' /\ t \notin Live => w' + Late' >= w + Late + 1
  <2>1. CASE w' = w - 1
    <3>1. t \in Live /\ t \notin Live'
      BY <1>4, <2>1 DEF Counted1
    <3>2. QED
      BY <1>2, <1>5, <2>1, <3>1
  <2>2. CASE w' = w
    <3>1. ~(t \in Live' /\ t \notin Live)
      BY <1>4, <2>2 DEF Counted1
    <3>2. QED
      BY <1>2, <1>5, <2>2, <3>1
  <2>3. CASE w' = w + 1
    BY <1>2, <1>5, <2>3
  <2>4. QED
    BY <2>1, <2>2, <2>3 DEF Counted1
<1>7. w' + Late' >= Cardinality(Live')
  BY <1>1, <1>3, <1>5, <1>6, CountOne DEF Counting
<1>8. synced' \in Int /\ synced' >= Cardinality(Initial')
  <2> DEFINE I == Initial
             J == Initial'
  <2>1. /\ IsFiniteSet(I) /\ Cardinality(I) \in Nat /\ I \in SUBSET Subs /\ J \in SUBSET Subs
        /\ t \notin J /\ \A u \in Subs : u # t => (u \in J <=> u \in I)
    BY <1>1, Finite, Names DEF Initial, Move
  <2>2. synced \in Int /\ synced >= Cardinality(I)
    BY DEF Counting
  <2>3. /\ synced' \in Int /\ synced' >= synced - 1
        /\ t \in J \/ t \notin I => synced' >= synced
        /\ t \in J /\ t \notin I => synced' >= synced + 1
    BY <2>1, <2>2 DEF Counted1
  <2>4. SUFFICES synced' >= Cardinality(J)
    BY <2>3
  <2> HIDE DEF I, J
  <2>5. QED
    BY <2>1, <2>2, <2>3, DifferInOne, Zenon
<1>9. QED
  BY <1>5, <1>7, <1>8 DEF Counting

\* A step of worker a leaves alone what belongs to the closers.  One that Run
\* does not wait for moves only itself.
WorkerStep(a) ==
  /\ pc[a] \notin {"off", "gone"}
  /\ \A u \in Closers : pc'[u] = pc[u]
  /\ kind = "nondb" /\ a \in Subs => \A u \in Workers : u # a => pc'[u] = pc[u]
  /\ UNCHANGED <<mode, kind, mu, disposed, panic>>
  /\ ch' = ch \/ "terminated" \in Faults

\* Such a step preserves what the invariant says of the closers.
LEMMA WorkerStepIInv ==
  ASSUME IInv, NEW a \in Workers, WorkerStep(a), Typed', Placed', Counting'
  PROVE  IInv'
<1>1. Locked'
  BY Names DEF IInv, Locked, WorkerStep, Closers
<1>2. Spanned'
  <2>1. pc["run"] # "setup" /\ pc'["run"] = pc["run"]
    BY DEF IInv, Spanned, WorkerStep, Closers
  <2>2. SUFFICES ASSUME pc["run"] = "returned", kind # "events", NEW t \in Threads,
                        t \in {"main", "resp"} \/ (t \in Subs /\ kind # "nondb")
                 PROVE  pc'[t] \in {"off", "gone"}
    BY <2>1 DEF Spanned, RunWaitsForChildren, Counted, Exited, WorkerStep
  <2>3. \A u \in {"main", "resp"} \cup Subs : u \in {"main", "resp"} \/ kind # "nondb" => pc[u] \in {"off", "gone"}
    BY <2>2, Names DEF IInv, Spanned, RunWaitsForChildren, Counted, Exited
  <2>4. a \notin {"get", "stats"}
    BY <2>2 DEF IInv, Placed, WorkerOK, WorkerStep
  <2>5. a \in Subs /\ kind = "nondb"
    BY <2>3, <2>4 DEF WorkerStep, Workers, Routines
  <2>6. t # a /\ t \in Workers /\ pc'[t] = pc[t]
    BY <2>2, <2>5, Names DEF WorkerStep
  <2>7. QED
    BY <2>2, <2>3, <2>6, Zenon
<1>3. QED
  BY <1>1, <1>2 DEF IInv

\* Worker a moves worker t, or itself.
Simple(a, t, l) ==
  /\ Move(t, l) /\ Counted1(t, l)
  /\ pc[a] \notin {"off", "gone"} /\ (a = t \/ a = "main")
  /\ UNCHANGED <<mode, mu, disposed, panic>>
  /\ ch' = ch \/ "terminated" \in Faults

\* Such a step preserves the invariant.
LEMMA SimpleIInv ==
  ASSUME IInv, NEW a \in Workers, NEW t \in Workers, NEW l \in Labels, Simple(a, t, l), Typed'
  PROVE  IInv'
<1>1. Placed' /\ Counting'
  BY MovePlaced, MoveCounting DEF IInv, Simple
<1>2. \A u \in Threads : u # t => pc'[u] = pc[u]
  BY Names, GotoFacts DEF IInv, Placed, Simple, Move
<1>3. WorkerStep(a)
  BY <1>2, Names DEF Simple, WorkerStep, Move
<1>4. QED
  BY <1>1, <1>3, WorkerStepIInv

---------------------------------------------------------------------------
(* Steps of closers, of the peer and of a duplicate                        *)

\* Nothing changes for the data client, and Run does not return before w is
\* zero unless it has started nothing.
CloserStep ==
  /\ pc' \in [Threads -> Labels] /\ \A t \in Workers : pc'[t] = pc[t]
  /\ UNCHANGED <<kind, w, synced>>
  /\ pc'["run"] = "setup" => pc["run"] = "setup" /\ pc'["recv"] = "off"
  /\ pc'["run"] = "returned" => pc["run"] \in {"setup", "returned"} \/ w = 0

\* When w is zero and the client is not the event client, no goroutine that
\* is in w is left.
LEMMA ZeroMeansExited ==
  ASSUME IInv, w = 0, kind # "events"
  PROVE  Live = {}
<1>1. Late = 0
  BY Names DEF IInv, Placed, WorkerOK, Late
<1>2. Cardinality(Live) = 0
  BY <1>1, Finite DEF IInv, Counting
<1>3. QED
  BY <1>2, Finite, FS_EmptySet

\* Such a step preserves what the invariant says of the data client.
LEMMA CloserStepIInv ==
  ASSUME IInv, CloserStep, Typed', Locked'
  PROVE  IInv'
<1>1. Placed'
  BY Names DEF IInv, Placed, CloserStep, WorkerOK, Isdb
<1>2. Counting'
  <2>1. Live' = Live /\ Initial' = Initial /\ Late' = Late
    BY Names DEF Live, Initial, Late, Exited, CloserStep
  <2>2. QED
    BY <2>1 DEF IInv, Counting, CloserStep
<1>3. Spanned'
  <2>1. pc'["run"] = "setup" => pc'["recv"] = "off" /\ \A t \in Workers : pc'[t] = "off"
    BY DEF IInv, Spanned, CloserStep
  <2>2. SUFFICES ASSUME pc'["run"] = "returned", kind # "events", NEW t \in Threads,
                        t \in {"main", "resp"} \/ (t \in Subs /\ kind # "nondb")
                 PROVE  pc'[t] \in {"off", "gone"}
    BY <2>1 DEF Spanned, RunWaitsForChildren, Counted, Exited, CloserStep
  <2>3. t \in Workers /\ pc'[t] = pc[t] /\ (t \in Subs => kind # "nondb")
    BY <2>2, Names DEF CloserStep
  <2>4. CASE pc["run"] = "setup"
    BY <2>3, <2>4 DEF IInv, Spanned
  <2>5. CASE pc["run"] = "returned"
    BY <2>2, <2>3, <2>5 DEF IInv, Spanned, RunWaitsForChildren, Counted, Exited
  <2>6. CASE w = 0
    BY <2>2, <2>3, <2>6, ZeroMeansExited DEF Live, Exited
  <2>7. QED
    BY <2>2, <2>4, <2>5, <2>6 DEF CloserStep
<1>4. QED
  BY <1>1, <1>2, <1>3 DEF IInv

\* Close disposes the queue under mu, or finds it disposed.
LEMMA CloseBeginIInv ==
  ASSUME IInv, NEW t \in Closers, CloseBegin(t)
  PROVE  IInv'
<1>1. /\ pc[t] = "close" /\ mu = "none" /\ disposed' = TRUE
      /\ UNCHANGED <<request, world, ch, tokens, w, panic, data, peer>>
      /\ \/ disposed /\ Goto(t, AfterClose(t)) /\ mu' = mu /\ q' = q
         \/ ~disposed /\ Goto(t, "closing") /\ mu' = t /\ q' = <<>>
  BY DEF CloseBegin, At, IInv, Typed
<1>2. Typed'
  <2>1. q' \in Seq(Subs \cup {"sync", "fatal"})
    <3>1. q \in Seq(Subs \cup {"sync", "fatal"}) /\ << >> \in Seq(Subs \cup {"sync", "fatal"})
      BY DEF IInv, Typed
    <3>2. q' = q \/ q' = << >>
      BY <1>1
    <3>3. QED
      BY <3>1, <3>2, Zenon
  <2>2. QED
    BY <1>1, <2>1 DEF IInv, Typed, request, world, data, peer
<1>3. PICK l \in {"wait", "gone", "closing"} :
        /\ Goto(t, l)
        /\ l = "closing" => ~disposed /\ mu' = t
        /\ l # "closing" => mu' = mu
  BY <1>1 DEF AfterClose
<1>4. /\ pc' \in [Threads -> Labels] /\ pc'[t] = l
      /\ \A u \in Threads : u # t => pc'[u] = pc[u]
  <2>1. pc \in [Threads -> Labels] /\ t \in Threads /\ l \in Labels
    BY <1>3, Names DEF IInv, Placed, Labels
  <2>2. QED
    BY <1>3, <2>1, GotoFacts
<1>5. Locked'
  <2>1. mu' \in Closers \cup {"none"} /\ \A u \in Closers : pc'[u] = "closing" <=> mu' = u
    BY <1>1, <1>3, <1>4, Names DEF IInv, Locked, Closers
  <2>2. pc'["recv"] = "put" => mode' = "POLL"
    BY <1>1, <1>3, <1>4, Names DEF IInv, Locked, Closers, request
  <2>3. /\ "terminated" \notin Faults /\ ch' = "closed" => disposed' /\ mu' = "none"
        /\ "terminated" \notin Faults /\ "POLL" \notin Modes => ~panic'
    BY <1>1 DEF IInv, Locked
  <2>4. QED
    BY <1>1, <2>1, <2>2, <2>3 DEF Locked
<1>6. CloserStep
  BY <1>1, <1>3, <1>4, Names DEF CloserStep, IInv, Spanned, request, data, Closers
<1>7. QED
  BY <1>2, <1>5, <1>6, CloserStepIInv

\* Close closes the channel and releases mu.
LEMMA CloseEndIInv ==
  ASSUME IInv, NEW t \in Closers, CloseEnd(t)
  PROVE  IInv'
<1>1. /\ pc[t] = "closing" /\ mu' = "none"
      /\ ch' = (IF ch = "open" THEN "closed" ELSE ch) /\ panic' = (ch = "closed")
      /\ UNCHANGED <<request, world, q, disposed, tokens, w, data, peer>>
  BY DEF CloseEnd, CloseChannel, At
<1>2. Typed'
  <2>1. panic' \in BOOLEAN /\ ch' \in {"nil", "open", "closed"}
    BY <1>1 DEF IInv, Typed
  <2>2. QED
    BY <1>1, <2>1 DEF IInv, Typed, request, world, data, peer
<1>3. PICK l \in {"wait", "gone"} : Goto(t, l)
  BY DEF CloseEnd, AfterClose
<1>4. /\ pc' \in [Threads -> Labels] /\ pc'[t] = l
      /\ \A u \in Threads : u # t => pc'[u] = pc[u]
  <2>1. pc \in [Threads -> Labels] /\ t \in Threads /\ l \in Labels
    BY <1>3, Names DEF IInv, Placed, Labels
  <2>2. QED
    BY <1>3, <2>1, GotoFacts
<1>5. mu = t /\ disposed /\ t # "none"
  BY <1>1 DEF IInv, Locked, Closers
<1>6. Locked'
  <2>1. \A u \in Closers : pc'[u] = "closing" <=> mu' = u
    BY <1>1, <1>3, <1>4, <1>5, Names DEF IInv, Locked, Closers
  <2>2. pc'["recv"] = "put" => mode' = "POLL"
    BY <1>1, <1>3, <1>4, Names DEF IInv, Locked, Closers, request
  <2>3. "terminated" \notin Faults => ch # "closed"
    BY <1>5 DEF IInv, Locked
  <2>4. "terminated" \notin Faults => ~panic'
    BY <1>1, <2>3, Zenon
  <2>5. QED
    BY <1>1, <1>5, <2>1, <2>2, <2>4 DEF Locked
<1>7. CloserStep
  BY <1>1, <1>3, <1>4, Names DEF CloserStep, IInv, Spanned, request, data, Closers
<1>8. QED
  BY <1>2, <1>6, <1>7, CloserStepIInv

\* A closer goes where it neither closes nor has closed, and leaves the lock,
\* the channel and the data client alone.
Walk(t, l) ==
  /\ Goto(t, l) /\ pc[t] # "closing"
  /\ l \in {"close", "recv", "put", "ctx", "send", "returned"}
  /\ l = "put" => mode = "POLL"
  /\ l = "returned" /\ t = "run" => pc["run"] = "setup" \/ w = 0
  /\ t = "recv" => pc["recv"] # "off"
  /\ UNCHANGED <<mode, kind, mu, disposed, ch, w, panic, synced>>

\* Such a step preserves the invariant.
LEMMA WalkIInv ==
  ASSUME IInv, NEW t \in Closers, NEW l \in Labels, Walk(t, l), Typed'
  PROVE  IInv'
<1>1. /\ pc' \in [Threads -> Labels] /\ pc'[t] = l
      /\ \A u \in Threads : u # t => pc'[u] = pc[u]
  BY Names, GotoFacts DEF IInv, Placed, Walk
<1>2. Locked'
  <2>1. \A u \in Closers : pc'[u] = "closing" <=> mu' = u
    BY <1>1, Names DEF IInv, Locked, Walk
  <2>2. pc'["recv"] = "put" => mode' = "POLL"
    BY <1>1, Names DEF IInv, Locked, Walk, Closers
  <2>3. QED
    BY <2>1, <2>2 DEF IInv, Locked, Walk
<1>3. CloserStep
  BY <1>1, Names DEF CloserStep, IInv, Spanned, Walk, Closers
<1>4. QED
  BY <1>2, <1>3, CloserStepIInv

\* Run refuses, returns after its children, and recv and a duplicate get to
\* their calls of Close.
LEMMA WalksIInv ==
  ASSUME IInv, RunRefuses \/ RunWait \/ recv \/ recvCtxDone \/ DuplicateArrives
  PROVE  IInv'
<1>1. UNCHANGED <<request, net, msgs, client, data, peer>>
  BY DEF RunRefuses, RunWait, recv, recvCtxDone, DuplicateArrives, world
<1>2. inbox' = inbox \/ (inbox # <<>> /\ inbox' = Tail(inbox))
  BY DEF RunRefuses, RunWait, recv, recvCtxDone, DuplicateArrives, world
<1>3. inbox' \in Seq({"poll", "other"})
  <2>1. inbox \in Seq({"poll", "other"})
    BY DEF IInv, Typed
  <2>2. QED
    BY <1>2, <2>1
<1>4. Typed'
  BY <1>1, <1>3 DEF IInv, Typed, request, client, data, peer
<1>5. \E t \in Closers, l \in {"close", "recv", "put", "ctx", "send", "returned"} : Walk(t, l)
  <2>1. CASE RunRefuses \/ RunWait
    <3>1. Walk("run", "returned")
      BY <1>1, <2>1 DEF RunRefuses, RunWait, At, Walk, request, client, data
    <3>2. QED
      BY <3>1 DEF Closers
  <2>2. CASE recv
    <3>1. pc["recv"] = "recv" /\ \E l \in {"close", "recv", "ctx", "put"} : Goto("recv", l) /\ (l = "put" => mode = "POLL")
      BY <2>2 DEF recv, At
    <3>2. \E l \in {"close", "recv", "ctx", "put"} : Walk("recv", l)
      BY <1>1, <3>1 DEF Walk, request, client, data
    <3>3. QED
      BY <3>2 DEF Closers
  <2>3. CASE recvCtxDone
    <3>1. Walk("recv", "close")
      BY <1>1, <2>3 DEF recvCtxDone, At, Walk, request, client, data
    <3>2. QED
      BY <3>1 DEF Closers
  <2>4. CASE DuplicateArrives
    <3>1. Walk("dup", "close")
      BY <1>1, <2>4 DEF DuplicateArrives, At, Walk, request, client, data
    <3>2. QED
      BY <3>1 DEF Closers
  <2>5. QED
    BY <2>1, <2>2, <2>3, <2>4
<1>6. QED
  BY <1>4, <1>5, WalkIInv DEF Labels

\* recv hands a poll to the channel; on a closed channel that is a panic.
LEMMA recvPollIInv ==
  ASSUME IInv, recvPoll
  PROVE  IInv'
<1>1. /\ pc["recv"] = "put" /\ Goto("recv", "recv")
      /\ UNCHANGED <<request, world, mu, q, disposed, ch, w, data, peer>>
      /\ tokens' \in 0 .. 1 /\ (panic' = panic \/ panic' = TRUE)
  BY DEF recvPoll, At, IInv, Typed
<1>2. Typed'
  BY <1>1, Zenon DEF IInv, Typed, request, world, data, peer
<1>3. "POLL" \in Modes
  BY <1>1 DEF IInv, Locked, Typed
<1>4. /\ pc' \in [Threads -> Labels] /\ pc'["recv"] = "recv"
      /\ \A u \in Threads : u # "recv" => pc'[u] = pc[u]
  BY <1>1, Names, GotoFacts DEF IInv, Placed, Labels, Closers
<1>5. Locked'
  BY <1>1, <1>3, <1>4, Names DEF IInv, Locked, Closers, request
<1>6. CloserStep
  BY <1>1, <1>4, Names DEF CloserStep, IInv, Spanned, request, data, Closers
<1>7. QED
  BY <1>2, <1>5, <1>6, CloserStepIInv

\* The send loop takes the next value or ends.
LEMMA sendIInv ==
  ASSUME IInv, send
  PROVE  IInv'
<1>1. /\ pc["run"] = "send"
      /\ UNCHANGED <<request, world, mu, disposed, ch, tokens, w, panic, data>>
  BY DEF send, At
<1>2. q' \in Seq(Subs \cup {"sync", "fatal"})
  <2>1. q \in Seq(Subs \cup {"sync", "fatal"})
    BY DEF IInv, Typed
  <2>2. q' = q \/ (q # <<>> /\ q' = Tail(q))
    BY DEF send
  <2>3. QED
    BY <2>1, <2>2
<1>3. fresh' \subseteq Subs /\ nsync' \in Nat
  <2>1. UNCHANGED peer \/ (q # <<>> /\ Head(q) # "fatal" /\ fresh' = (IF Head(q) = "sync" THEN {} ELSE fresh \cup {Head(q)})
                           /\ nsync' = IF Head(q) = "sync" THEN nsync + 1 ELSE nsync)
    BY DEF send
  <2>2. q # <<>> => Head(q) \in Subs \cup {"sync", "fatal"}
    BY DEF IInv, Typed
  <2>3. QED
    BY <2>1, <2>2 DEF IInv, Typed, peer
<1>4. Typed'
  BY <1>1, <1>2, <1>3 DEF IInv, Typed, request, world, data
<1>5. "run" \in Threads /\ pc \in [Threads -> Labels]
  BY Names DEF IInv, Placed, Closers
<1>6. pc' = pc => Goto("run", "send")
  BY <1>1, <1>5 DEF Goto
<1>7. \E l \in {"close", "send"} : Walk("run", l)
  BY <1>1, <1>6 DEF send, Walk, request, data
<1>8. QED
  BY <1>4, <1>7, WalkIInv DEF Labels, Closers

\* The peer sends, half closes or goes away.
LEMMA PeerIInv ==
  ASSUME IInv, PeerSends \/ PeerHalfCloses \/ PeerDisconnects
  PROVE  IInv'
<1>1. UNCHANGED <<request, pc, client, data, peer>>
  BY DEF PeerSends, PeerHalfCloses, PeerDisconnects
<1>2. net' \in {"open", "eof", "down"} /\ msgs' \in 0 .. MaxMsgs /\ inbox' \in Seq({"poll", "other"})
  <2>1. MaxMsgs \in Nat /\ msgs \in 0 .. MaxMsgs /\ inbox \in Seq({"poll", "other"}) /\ net \in {"open", "eof", "down"}
    BY ClientAssumption DEF IInv, Typed
  <2>2. CASE PeerSends
    <3>1. /\ msgs < MaxMsgs /\ msgs' = msgs + 1 /\ net' = net
          /\ \E m \in {"poll", "other"} : inbox' = Append(inbox, m)
      BY <2>2 DEF PeerSends
    <3>2. inbox' \in Seq({"poll", "other"})
      BY <2>1, <3>1
    <3>3. msgs' \in 0 .. MaxMsgs
      BY <2>1, <3>1
    <3>4. QED
      BY <2>1, <3>1, <3>2, <3>3
  <2>3. CASE PeerHalfCloses \/ PeerDisconnects
    BY <2>1, <2>3 DEF PeerHalfCloses, PeerDisconnects
  <2>4. QED
    BY <2>2, <2>3
<1>3. Typed'
  BY <1>1, <1>2 DEF IInv, Typed, request, client, data, peer
<1>4. Locked'
  BY <1>1 DEF IInv, Locked, request, client
<1>5. CloserStep
  BY <1>1 DEF CloserStep, IInv, Placed, Spanned, request, client, data
<1>6. QED
  BY <1>3, <1>4, <1>5, CloserStepIInv

\* Run starts the data client and recv.
LEMMA RunStartsIInv ==
  ASSUME IInv, RunStarts
  PROVE  IInv'
<1>1. /\ pc["run"] = "setup" /\ ch' = "open" /\ tokens' \in 0 .. 1 /\ w' = w + 1
      /\ pc' = [pc EXCEPT !["run"] = "send", !["recv"] = "recv", !["main"] = "start"]
      /\ UNCHANGED <<request, world, mu, q, disposed, panic, data, peer>>
  BY DEF RunStarts, At
<1>2. pc["recv"] = "off" /\ \A t \in Workers : pc[t] = "off"
  BY <1>1 DEF IInv, Spanned
<1>3. /\ pc' \in [Threads -> Labels]
      /\ pc'["run"] = "send" /\ pc'["recv"] = "recv" /\ pc'["main"] = "start"
      /\ \A u \in Threads : u \notin {"run", "recv", "main"} => pc'[u] = pc[u]
  BY <1>1, Names DEF IInv, Placed, Labels, Closers
<1>4. Typed'
  BY <1>1 DEF IInv, Typed, request, world, data, peer
<1>5. Placed'
  <2>1. kind' = kind /\ \A t \in Workers : t # "main" => pc'[t] = "off"
    BY <1>1, <1>2, <1>3, Names DEF request, Closers
  <2>2. ASSUME NEW t \in Workers
        PROVE  WorkerOK(t, pc[t])'
    <3>1. pc'[t] = IF t = "main" THEN "start" ELSE "off"
      BY <1>3, <2>1
    <3>2. QED
      BY <3>1, Names DEF WorkerOK
  <2>3. QED
    BY <1>3, <2>1, <2>2, Names DEF Placed
<1>6. Counting'
  <2>1. OthersStay("main") /\ kind' = kind
    BY <1>1, <1>3, Names DEF OthersStay, request, Closers
  <2>2. Late = 0 /\ Late' = 0 /\ w \in Int
    BY <1>2, <1>3, Names DEF Late, IInv, Counting
  <2>3. w' \in Int /\ w' + Late' = w + Late + 1 /\ w + Late \in Int
    BY <1>1, <2>2
  <2>4. w' + Late' >= Cardinality(Live')
    <3>1. w + Late >= Cardinality(Live) /\ "main" \in Workers
      BY Names DEF IInv, Counting
    <3>2. /\ w' + Late' >= (w + Late) - 1 /\ w' + Late' >= w + Late
          /\ w' + Late' >= w + Late + 1
      BY <2>3
    <3>3. QED
      BY <2>1, <2>2, <2>3, <3>1, <3>2, CountOne, Zenon
  <2>5. Initial' = Initial
    BY <1>3, Names DEF Initial, Closers
  <2>6. QED
    BY <1>1, <2>3, <2>4, <2>5 DEF Counting, IInv, data
<1>7. Locked'
  <2>1. \A u \in Closers : pc'[u] = "closing" <=> mu' = u
    BY <1>1, <1>2, <1>3, Names DEF IInv, Locked, Closers
  <2>2. pc'["recv"] # "put" /\ mu' = mu /\ disposed' = disposed /\ panic' = panic /\ ch' # "closed"
    BY <1>1, <1>3
  <2>3. QED
    BY <2>1, <2>2 DEF IInv, Locked
<1>8. Spanned'
  BY <1>3 DEF Spanned, RunWaitsForChildren
<1>9. QED
  BY <1>4, <1>5, <1>6, <1>7, <1>8 DEF IInv
=============================================================================
