-------------------------- MODULE SessionSyncProofs -------------------------
(***************************************************************************)
(* SubscribeSession: a sync_response reaches the peer only after every     *)
(* subscribed path has.  What the peer will know when it gets to a place   *)
(* of the queue is in the queue before that place and in fresh; the send   *)
(* loop and the data clients work on the two ends of it.                   *)
(***************************************************************************)
EXTENDS SubscribeSessionProofs

---------------------------------------------------------------------------
(* The invariant                                                           *)

\* When the send loop gets to place i of queue s, with f sent since the last
\* sync_response, it has met a fatal value or has sent p since the last one.
Reached(s, f, p, i) ==
  \/ \E j \in 1 .. i - 1 : s[j] = "fatal"
  \/ \E j \in 1 .. i - 1 : s[j] = p /\ \A k \in j .. i - 1 : s[k] # "sync"
  \/ p \in f /\ \A k \in 1 .. i - 1 : s[k] # "sync"

\* Every sync_response in the queue comes after all paths.
SyncsOK(s, f) ==
  \A i \in 1 .. Len(s) : s[i] = "sync" => \A p \in Subs : Reached(s, f, p, i)

\* A sync_response put now would come after p.
Sent(p) == Reached(q, fresh, p, Len(q) + 1)

\* The send loop may still send, and the property is about this session.
Sending == pc["run"] \in {"setup", "send"} /\ ~disposed /\ ~appdb /\ kind # "events"

\* The paths that a runner on its way to a sync_response still waits for.
SyncInv ==
  Sending =>
    /\ SyncsOK(q, fresh)
    /\ Isdb /\ pc["main"] = "syncwait" => \A p \in Subs : pc[p] = "init" \/ Sent(p)
    /\ pc["main"] = "sample" => \A p \in Subs : p \in todo \cup onchange \/ pc[p] = "respond" \/ Sent(p)
    /\ pc["resp"] = "initial" => \A p \in Subs : p \in onchange \/ Sent(p)

---------------------------------------------------------------------------
(* Queues                                                                  *)

Items == Subs \cup {"sync", "fatal"}

\* Reached looks at the places before i only.
LEMMA SamePrefix ==
  ASSUME NEW s, NEW t, NEW f, NEW p, NEW i \in Nat, \A j \in 1 .. i - 1 : t[j] = s[j],
         Reached(s, f, p, i)
  PROVE  Reached(t, f, p, i)
<1>1. CASE \E j \in 1 .. i - 1 : s[j] = "fatal"
  BY <1>1 DEF Reached
<1>2. CASE \E j \in 1 .. i - 1 : s[j] = p /\ \A k \in j .. i - 1 : s[k] # "sync"
  <2>1. PICK j \in 1 .. i - 1 : s[j] = p /\ \A k \in j .. i - 1 : s[k] # "sync"
    BY <1>2
  <2>2. t[j] = p /\ \A k \in j .. i - 1 : t[k] # "sync"
    BY <2>1
  <2>3. QED
    BY <2>2 DEF Reached
<1>3. CASE p \in f /\ \A k \in 1 .. i - 1 : s[k] # "sync"
  BY <1>3 DEF Reached
<1>4. QED
  BY <1>1, <1>2, <1>3 DEF Reached

\* It stays true until the next sync_response.
LEMMA LaterReached ==
  ASSUME NEW s, NEW f, NEW p, NEW i \in Nat \ {0}, NEW n \in Nat, n >= i,
         \A k \in i .. n - 1 : s[k] # "sync", Reached(s, f, p, i)
  PROVE  Reached(s, f, p, n)
<1>1. \A j \in 1 .. i - 1 : j \in 1 .. n - 1
  OBVIOUS
<1>2. \A k \in 1 .. n - 1 : k \in 1 .. i - 1 \/ k \in i .. n - 1
  OBVIOUS
<1>3. CASE \E j \in 1 .. i - 1 : s[j] = "fatal"
  BY <1>1, <1>3 DEF Reached
<1>4. CASE \E j \in 1 .. i - 1 : s[j] = p /\ \A k \in j .. i - 1 : s[k] # "sync"
  <2>1. PICK j \in 1 .. i - 1 : s[j] = p /\ \A k \in j .. i - 1 : s[k] # "sync"
    BY <1>4
  <2>2. \A k \in j .. n - 1 : k \in j .. i - 1 \/ k \in i .. n - 1
    OBVIOUS
  <2>3. \A k \in j .. n - 1 : s[k] # "sync"
    BY <2>1, <2>2
  <2>4. QED
    BY <1>1, <2>1, <2>3 DEF Reached
<1>5. CASE p \in f /\ \A k \in 1 .. i - 1 : s[k] # "sync"
  <2>1. \A k \in 1 .. n - 1 : s[k] # "sync"
    BY <1>2, <1>5
  <2>2. QED
    BY <1>5, <2>1 DEF Reached
<1>6. QED
  BY <1>3, <1>4, <1>5 DEF Reached

\* Nothing among the items is a sync_response.
NoSync(items) == \A i \in 1 .. Len(items) : items[i] # "sync"

\* Putting such items keeps what was said of the queue, and their paths have
\* been reached.
LEMMA PutItems ==
  ASSUME NEW s \in Seq(Items), NEW items \in Seq(Items), NEW f, NoSync(items)
  PROVE  /\ SyncsOK(s, f) => SyncsOK(s \o items, f)
         /\ \A p \in Subs : Reached(s, f, p, Len(s) + 1) => Reached(s \o items, f, p, Len(s \o items) + 1)
         /\ \A p \in Subs : (\E i \in 1 .. Len(items) : items[i] \in {p, "fatal"})
                              => Reached(s \o items, f, p, Len(s \o items) + 1)
<1> DEFINE t == s \o items
           m == Len(s)
           n == Len(items)
<1>1. /\ m \in Nat /\ n \in Nat /\ Len(t) = m + n
      /\ \A i \in 1 .. m : t[i] = s[i]
      /\ \A i \in 1 .. n : t[m + i] = items[i]
  OBVIOUS
<1>2. \A i \in 1 .. n : items[i] # "sync"
  BY DEF NoSync
<1> HIDE DEF t, m, n
<1>3. \A k \in m + 1 .. m + n : t[k] # "sync"
  <2>1. TAKE k \in m + 1 .. m + n
  <2>2. k - m \in 1 .. n /\ m + (k - m) = k
    BY <1>1
  <2>3. QED
    BY <1>1, <1>2, <2>2, Zenon
<1>4. ASSUME SyncsOK(s, f)
      PROVE  SyncsOK(t, f)
  <2>1. SUFFICES ASSUME NEW i \in 1 .. m + n, t[i] = "sync", NEW p \in Subs
                 PROVE  Reached(t, f, p, i)
    BY <1>1 DEF SyncsOK
  <2>2. i \in 1 .. m /\ i \in Nat
    BY <1>1, <1>3, <2>1
  <2>3. Reached(s, f, p, i)
    BY <1>1, <1>4, <2>1, <2>2 DEF SyncsOK, m
  <2>4. \A j \in 1 .. i - 1 : t[j] = s[j]
    BY <1>1, <2>2
  <2>5. QED
    BY <2>2, <2>3, <2>4, SamePrefix
<1>5. ASSUME NEW p \in Subs, Reached(s, f, p, m + 1)
      PROVE  Reached(t, f, p, (m + n) + 1)
  <2>1. Reached(t, f, p, m + 1)
    <3>1. m + 1 \in Nat /\ \A j \in 1 .. (m + 1) - 1 : t[j] = s[j]
      BY <1>1
    <3>2. QED
      BY <1>5, <3>1, SamePrefix
  <2>2. /\ m + 1 \in Nat \ {0} /\ (m + n) + 1 \in Nat /\ (m + n) + 1 >= m + 1
        /\ \A k \in m + 1 .. ((m + n) + 1) - 1 : t[k] # "sync"
    BY <1>1, <1>3
  <2>3. QED
    BY <2>1, <2>2, LaterReached
<1>6. ASSUME NEW p \in Subs, NEW i \in 1 .. n, items[i] \in {p, "fatal"}
      PROVE  Reached(t, f, p, (m + n) + 1)
  <2>1. /\ m + i \in 1 .. ((m + n) + 1) - 1 /\ t[m + i] \in {p, "fatal"}
        /\ \A k \in m + i .. ((m + n) + 1) - 1 : t[k] # "sync"
    BY <1>1, <1>3, <1>6
  <2>2. QED
    BY <2>1 DEF Reached
<1>7. QED
  BY <1>1, <1>4, <1>5, <1>6 DEF t, m, n

\* A sync_response may be put once all paths have been reached.
LEMMA PutSync ==
  ASSUME NEW s \in Seq(Items), NEW f, SyncsOK(s, f),
         \A p \in Subs : Reached(s, f, p, Len(s) + 1)
  PROVE  SyncsOK(s \o <<"sync">>, f)
<1> DEFINE t == s \o <<"sync">>
           m == Len(s)
<1>1. m \in Nat /\ Len(t) = m + 1 /\ \A i \in 1 .. m : t[i] = s[i]
  OBVIOUS
<1>2. \A i \in 1 .. m : s[i] = "sync" => \A p \in Subs : Reached(s, f, p, i)
  BY DEF SyncsOK
<1>3. \A p \in Subs : Reached(s, f, p, m + 1)
  OBVIOUS
<1> HIDE DEF t, m
<1>4. SUFFICES ASSUME NEW i \in 1 .. m + 1, t[i] = "sync", NEW p \in Subs
               PROVE  Reached(t, f, p, i)
  BY <1>1 DEF SyncsOK, t
<1>5. i \in Nat /\ \A j \in 1 .. i - 1 : t[j] = s[j]
  BY <1>1
<1>6. Reached(s, f, p, i)
  <2>1. CASE i = m + 1
    BY <1>3, <2>1
  <2>2. CASE i # m + 1
    BY <1>1, <1>2, <1>4, <2>2
  <2>3. QED
    BY <2>1, <2>2
<1>7. QED
  BY <1>5, <1>6, SamePrefix

\* The send loop takes the first value.
LEMMA TailReached ==
  ASSUME NEW s \in Seq(Items), s # << >>, s[1] # "fatal", NEW f,
         NEW g, g = (IF s[1] = "sync" THEN {} ELSE f \cup {s[1]}),
         NEW p \in Subs, NEW i \in 1 .. Len(s), Reached(s, f, p, i + 1)
  PROVE  Reached(Tail(s), g, p, i)
<1> DEFINE t == Tail(s)
           m == Len(s)
<1>1. m \in Nat /\ Len(t) = m - 1 /\ \A j \in 1 .. m - 1 : t[j] = s[j + 1]
  OBVIOUS
<1>2. i \in 1 .. m
  OBVIOUS
<1> HIDE DEF t, m
<1>3. i \in Nat /\ i + 1 \in Nat /\ (i + 1) - 1 = i
  BY <1>1, <1>2
<1>4. \A j \in 2 .. i : j - 1 \in 1 .. i - 1 /\ t[j - 1] = s[j]
  BY <1>1, <1>2
<1>5. \A j \in 1 .. i - 1 : j + 1 \in 2 .. i /\ t[j] = s[j + 1]
  BY <1>1, <1>2
<1>6. p # "sync" /\ p # "fatal"
  BY Names
<1>7. CASE \E j \in 1 .. i : s[j] = "fatal"
  <2>1. PICK j \in 1 .. i : s[j] = "fatal"
    BY <1>7
  <2>2. j \in 2 .. i
    BY <1>3, <2>1
  <2>3. QED
    BY <1>4, <2>1, <2>2 DEF Reached, t
<1>8. CASE \E j \in 1 .. i : s[j] = p /\ \A k \in j .. i : s[k] # "sync"
  <2>1. PICK j \in 1 .. i : s[j] = p /\ \A k \in j .. i : s[k] # "sync"
    BY <1>8
  <2>2. CASE j = 1
    <3>1. p \in g
      BY <1>6, <2>1, <2>2
    <3>2. \A k \in 1 .. i - 1 : k + 1 \in j .. i
      BY <1>3, <2>2
    <3>3. \A k \in 1 .. i - 1 : t[k] # "sync"
      BY <1>5, <2>1, <3>2, Zenon
    <3>4. QED
      BY <3>1, <3>3 DEF Reached, t
  <2>3. CASE j # 1
    <3>1. j \in 2 .. i /\ j - 1 \in 1 .. i - 1 /\ t[j - 1] = p
      BY <1>3, <1>4, <2>1, <2>3
    <3>2. \A k \in j - 1 .. i - 1 : k + 1 \in j .. i /\ k \in 1 .. i - 1
      BY <1>3, <3>1
    <3>3. \A k \in j - 1 .. i - 1 : t[k] # "sync"
      BY <1>5, <2>1, <3>2
    <3>4. QED
      BY <3>1, <3>3, Zenon DEF Reached, t
  <2>4. QED
    BY <2>2, <2>3
<1>9. CASE p \in f /\ \A k \in 1 .. i : s[k] # "sync"
  <2>1. s[1] # "sync" /\ p \in g
    BY <1>3, <1>2, <1>9
  <2>2. \A k \in 1 .. i - 1 : k + 1 \in 1 .. i
    BY <1>3
  <2>3. \A k \in 1 .. i - 1 : t[k] # "sync"
    BY <1>5, <1>9, <2>2
  <2>4. QED
    BY <2>1, <2>3 DEF Reached, t
<1>10. QED
  BY <1>3, <1>7, <1>8, <1>9 DEF Reached

\* It keeps what was said of the queue.
LEMMA TailOK ==
  ASSUME NEW s \in Seq(Items), s # << >>, s[1] # "fatal", NEW f,
         NEW g, g = (IF s[1] = "sync" THEN {} ELSE f \cup {s[1]})
  PROVE  /\ SyncsOK(s, f) => SyncsOK(Tail(s), g)
         /\ \A p \in Subs : Reached(s, f, p, Len(s) + 1) => Reached(Tail(s), g, p, Len(Tail(s)) + 1)
<1>1. /\ Len(s) \in Nat \ {0} /\ Len(Tail(s)) = Len(s) - 1
      /\ \A i \in 1 .. Len(s) - 1 : Tail(s)[i] = s[i + 1]
  OBVIOUS
<1>2. ASSUME SyncsOK(s, f), NEW i \in 1 .. Len(s) - 1, Tail(s)[i] = "sync", NEW p \in Subs
      PROVE  Reached(Tail(s), g, p, i)
  <2>1. i \in 1 .. Len(s) /\ i + 1 \in 1 .. Len(s) /\ s[i + 1] = "sync"
    BY <1>1, <1>2
  <2>2. Reached(s, f, p, i + 1)
    BY <1>2, <2>1 DEF SyncsOK
  <2>3. QED
    BY <2>1, <2>2, TailReached
<1>3. ASSUME NEW p \in Subs, Reached(s, f, p, Len(s) + 1)
      PROVE  Reached(Tail(s), g, p, Len(Tail(s)) + 1)
  <2>1. Len(s) \in 1 .. Len(s) /\ Len(Tail(s)) + 1 = Len(s)
    BY <1>1
  <2>2. QED
    BY <1>3, <2>1, TailReached
<1>4. QED
  BY <1>1, <1>2, <1>3, Zenon DEF SyncsOK

---------------------------------------------------------------------------
(* Steps                                                                   *)

\* A step that loses nothing of the queue.
Kept ==
  /\ SyncsOK(q, fresh) => SyncsOK(q, fresh)'
  /\ \A p \in Subs : Sent(p) => Sent(p)'

\* Nothing is put and nothing sent.
LEMMA SameKept ==
  ASSUME q' = q, fresh' = fresh
  PROVE  Kept
  BY DEF Kept, Sent, SyncsOK, Reached

\* Items other than sync_response are put.
LEMMA PutKept ==
  ASSUME Typed, ~disposed, NEW items \in Seq(Items), NoSync(items), PutAll(items), fresh' = fresh
  PROVE  Kept /\ \A p \in Subs : (\E i \in 1 .. Len(items) : items[i] \in {p, "fatal"}) => Sent(p)'
<1>1. q \in Seq(Items) /\ q' = q \o items
  BY DEF Typed, Items, PutAll
<1>2. QED
  BY <1>1, PutItems, Zenon DEF Kept, Sent

\* The same for one item.
LEMMA PutOneKept ==
  ASSUME Typed, ~disposed, NEW x \in Subs \cup {"fatal"}, Put(x), fresh' = fresh
  PROVE  Kept /\ \A p \in Subs : x \in {p, "fatal"} => Sent(p)'
<1>1. <<x>> \in Seq(Items) /\ Len(<<x>>) = 1 /\ <<x>>[1] = x
  BY DEF Items
<1>2. x # "sync"
  BY Names
<1>3. NoSync(<<x>>)
  BY <1>1, <1>2 DEF NoSync
<1>4. \A p \in Subs : x \in {p, "fatal"} => \E i \in 1 .. Len(<<x>>) : <<x>>[i] \in {p, "fatal"}
  BY <1>1
<1>5. QED
  BY <1>1, <1>3, <1>4, PutKept, Zenon DEF Put

\* The names of some paths are put.
LEMMA ListedKept ==
  ASSUME Typed, ~disposed, NEW S \in SUBSET Subs, PutAll(Listed(S)), fresh' = fresh
  PROVE  Kept
<1>1. Listed(S) \in Seq(S)
  BY ListedSeq
<1>2. Listed(S) \in Seq(Items) /\ \A i \in 1 .. Len(Listed(S)) : Listed(S)[i] \in Subs
  BY <1>1 DEF Items
<1>3. NoSync(Listed(S))
  BY <1>2, Names DEF NoSync
<1>4. QED
  BY <1>2, <1>3, PutKept

\* A sync_response is put when all paths have been reached.
LEMMA SyncPut ==
  ASSUME Typed, ~disposed, SyncsOK(q, fresh), \A p \in Subs : Sent(p), Put("sync"), fresh' = fresh
  PROVE  SyncsOK(q, fresh)'
<1>1. q \in Seq(Items) /\ q' = q \o <<"sync">>
  BY DEF Typed, Items, Put, PutAll
<1>2. QED
  BY <1>1, PutSync DEF Sent

\* Or together with the paths that have not.
LEMMA ListedPut ==
  ASSUME Typed, ~disposed, SyncsOK(q, fresh), NEW S \in SUBSET Subs,
         \A p \in Subs : p \in S \/ Sent(p), PutAll(Append(Listed(S), "sync")), fresh' = fresh
  PROVE  SyncsOK(q, fresh)'
<1> DEFINE items == Listed(S)
           t == q \o items
<1>1. items \in Seq(S) /\ \A p \in S : \E i \in DOMAIN items : items[i] = p
  BY ListedSeq
<1> HIDE DEF items
<1>2. /\ q \in Seq(Items) /\ items \in Seq(Items)
      /\ \A i \in 1 .. Len(items) : items[i] \in Subs
      /\ \A p \in S : \E i \in 1 .. Len(items) : items[i] = p
  BY <1>1 DEF Typed, Items
<1>3. NoSync(items)
  BY <1>2, Names DEF NoSync
<1>4. /\ t \in Seq(Items) /\ SyncsOK(t, fresh)
      /\ \A p \in Subs : Reached(t, fresh, p, Len(t) + 1)
  BY <1>2, <1>3, PutItems DEF Sent
<1>5. q' = t \o <<"sync">>
  <2>1. q' = q \o Append(items, "sync")
    BY Zenon DEF PutAll, items
  <2>2. Append(items, "sync") = items \o <<"sync">>
    BY <1>2
  <2>3. q \o (items \o <<"sync">>) = (q \o items) \o <<"sync">>
    BY <1>2
  <2>4. QED
    BY <2>1, <2>2, <2>3
<1> HIDE DEF t
<1>6. QED
  BY <1>4, <1>5, PutSync

\* No runner comes nearer to a sync_response without what it waits for.
Calm ==
  /\ UNCHANGED <<kind, appdb>> /\ Kept
  /\ pc'["main"] \in {"syncwait", "sample"} => pc'["main"] = pc["main"]
  /\ pc'["resp"] = "initial" => pc["resp"] = "initial"
  /\ \A p \in Subs : pc[p] \in {"init", "respond"} => pc'[p] = pc[p] \/ Sent(p)'
  /\ pc'["main"] = "sample" => \A p \in todo : p \in todo' \/ pc'[p] = "respond"
  /\ pc'["main"] = "sample" \/ pc'["resp"] = "initial" => onchange \subseteq onchange'

\* Such a step preserves the invariant.
LEMMA CalmSync ==
  ASSUME SyncInv, Sending' => Sending /\ Calm
  PROVE  SyncInv'
<1>1. SUFFICES ASSUME Sending'
               PROVE  /\ SyncsOK(q, fresh)'
                      /\ (Isdb /\ pc["main"] = "syncwait")' => \A p \in Subs : pc'[p] = "init" \/ Sent(p)'
                      /\ pc'["main"] = "sample" => \A p \in Subs : p \in todo' \cup onchange' \/ pc'[p] = "respond" \/ Sent(p)'
                      /\ pc'["resp"] = "initial" => \A p \in Subs : p \in onchange' \/ Sent(p)'
  BY DEF SyncInv
<1>2. Calm /\ Sending
  BY <1>1
<1>3. SyncsOK(q, fresh)'
  BY <1>2 DEF SyncInv, Calm, Kept
<1>4. (Isdb /\ pc["main"] = "syncwait")' => \A p \in Subs : pc'[p] = "init" \/ Sent(p)'
  BY <1>2 DEF SyncInv, Calm, Kept, Isdb
<1>5. pc'["main"] = "sample" => \A p \in Subs : p \in todo' \cup onchange' \/ pc'[p] = "respond" \/ Sent(p)'
  BY <1>2 DEF SyncInv, Calm, Kept
<1>6. pc'["resp"] = "initial" => \A p \in Subs : p \in onchange' \/ Sent(p)'
  BY <1>2 DEF SyncInv, Calm, Kept
<1>7. QED
  BY <1>3, <1>4, <1>5, <1>6

\* Worker t goes to l, and has put what it was to put.
Mild(t, l) ==
  /\ Goto(t, l) /\ UNCHANGED <<kind, appdb, disposed>>
  /\ t = "main" => l \notin {"syncwait", "sample"}
  /\ t = "resp" => l # "initial"
  /\ pc["main"] = "sample" \/ pc["resp"] = "initial" => UNCHANGED <<todo, onchange>>
  /\ Sending => Kept
  /\ Sending /\ t \in Subs /\ pc[t] \in {"init", "respond"} => Sent(t)'

\* Such a step preserves the invariant.
LEMMA MildSync ==
  ASSUME IInv, SyncInv, NEW t \in Workers, NEW l \in Labels, Mild(t, l)
  PROVE  SyncInv'
<1>1. pc'[t] = l /\ \A u \in Threads : u # t => pc'[u] = pc[u]
  BY Names, GotoFacts DEF IInv, Placed, Mild
<1>2. t # "run" /\ "run" \in Threads /\ pc'["run"] = pc["run"]
  BY <1>1, Names DEF Closers
<1>3. Sending' => Sending
  BY <1>2 DEF Sending, Mild
<1>4. Sending => Calm
  BY <1>1, Names DEF Calm, Mild
<1>5. QED
  BY <1>3, <1>4, CalmSync

\* After a step that leaves no runner on its way to a sync_response.
LEMMA DoneSync ==
  ASSUME pc'["main"] \notin {"syncwait", "sample"}, pc'["resp"] # "initial",
         Sending' => SyncsOK(q, fresh)'
  PROVE  SyncInv'
  BY DEF SyncInv

\* A closer goes where it does not send.
Aside(t, l) ==
  /\ Goto(t, l) /\ l \in {"close", "wait", "gone", "returned", "recv", "put", "ctx"}
  /\ UNCHANGED <<kind, appdb, disposed, q, fresh, todo, onchange>>

\* Such a step preserves the invariant.
LEMMA AsideSync ==
  ASSUME IInv, SyncInv, NEW t \in Closers, NEW l \in Labels, Aside(t, l)
  PROVE  SyncInv'
<1>1. pc'[t] = l /\ \A u \in Threads : u # t => pc'[u] = pc[u]
  BY Names, GotoFacts DEF IInv, Placed, Aside
<1>2. Sending' => Sending
  BY <1>1, Names DEF Sending, Aside, Closers
<1>3. Kept
  BY SameKept DEF Aside
<1>4. Calm
  BY <1>1, <1>3, Names DEF Calm, Aside
<1>5. QED
  BY <1>2, <1>4, CalmSync

---------------------------------------------------------------------------
(* The actions                                                             *)

\* Close, recv, a duplicate, the peer, and Run before and after it sends.
LEMMA ClosersSync ==
  ASSUME IInv, SyncInv, Client \/ Environment, ~send
  PROVE  SyncInv'
<1>1. ASSUME NEW t \in Closers, CloseBegin(t)
      PROVE  SyncInv'
  <2>1. CASE disposed
    <3>1. UNCHANGED <<kind, appdb, disposed, q, fresh, todo, onchange>> /\ Goto(t, AfterClose(t))
      BY <1>1, <2>1 DEF CloseBegin, request, data, peer
    <3>2. \E l \in {"wait", "gone"} : Aside(t, l)
      BY <3>1 DEF Aside, AfterClose
    <3>3. QED
      BY <3>2, AsideSync DEF Labels
  <2>2. CASE ~disposed
    <3>1. disposed'
      BY <1>1, <2>2 DEF CloseBegin
    <3>2. QED
      BY <3>1 DEF SyncInv, Sending
  <2>3. QED
    BY <2>1, <2>2
<1>2. ASSUME NEW t \in Closers, CloseEnd(t)
      PROVE  SyncInv'
  <2>1. UNCHANGED <<kind, appdb, disposed, q, fresh, todo, onchange>> /\ Goto(t, AfterClose(t))
    BY <1>2 DEF CloseEnd, request, data, peer
  <2>2. \E l \in {"wait", "gone"} : Aside(t, l)
    BY <2>1 DEF Aside, AfterClose
  <2>3. QED
    BY <2>2, AsideSync DEF Labels
<1>3. CASE RunRefuses \/ RunWait
  <2>1. Aside("run", "returned")
    BY <1>3 DEF RunRefuses, RunWait, Aside, request, client, data, peer
  <2>2. QED
    BY <2>1, AsideSync DEF Labels, Closers
<1>4. CASE recv \/ recvPoll \/ recvCtxDone
  <2>1. \E l \in {"close", "recv", "put", "ctx"} : Goto("recv", l)
    BY <1>4 DEF recv, recvPoll, recvCtxDone
  <2>2. UNCHANGED <<kind, appdb, disposed, q, fresh, todo, onchange>>
    BY <1>4 DEF recv, recvPoll, recvCtxDone, request, client, data, peer
  <2>3. \E l \in {"close", "recv", "put", "ctx"} : Aside("recv", l)
    BY <2>1, <2>2 DEF Aside
  <2>4. QED
    BY <2>3, AsideSync DEF Labels, Closers
<1>5. CASE DuplicateArrives
  <2>1. Aside("dup", "close")
    BY <1>5 DEF DuplicateArrives, Aside, request, client, data, peer
  <2>2. QED
    BY <2>1, AsideSync DEF Labels, Closers
<1>6. CASE PeerSends \/ PeerHalfCloses \/ PeerDisconnects
  <2>1. UNCHANGED <<kind, appdb, disposed, q, fresh, todo, onchange, pc>>
    BY <1>6 DEF PeerSends, PeerHalfCloses, PeerDisconnects, request, client, data, peer
  <2>2. Kept
    BY <2>1, SameKept
  <2>3. Calm /\ (Sending' => Sending)
    BY <2>1, <2>2 DEF Calm, Sending
  <2>4. QED
    BY <2>3, CalmSync
<1>7. CASE RunStarts
  <2>1. /\ pc' = [pc EXCEPT !["run"] = "send", !["recv"] = "recv", !["main"] = "start"]
        /\ UNCHANGED <<kind, appdb, disposed, q, fresh>> /\ pc["run"] = "setup"
    BY <1>7 DEF RunStarts, At, request, data, peer
  <2>2. pc'["main"] = "start" /\ pc'["resp"] = pc["resp"] /\ pc["resp"] = "off"
    BY <2>1, Names DEF IInv, Placed, Spanned, Closers
  <2>3. Kept /\ (Sending' => Sending)
    BY <2>1, SameKept DEF Sending
  <2>4. QED
    BY <2>2, <2>3, DoneSync DEF SyncInv, Kept
<1>8. QED
  BY <1>1, <1>2, <1>3, <1>4, <1>5, <1>6, <1>7 DEF Client, Environment

\* The send loop.
LEMMA sendSync ==
  ASSUME IInv, SyncInv, send
  PROVE  SyncInv'
<1>1. UNCHANGED <<kind, appdb, disposed, todo, onchange>> /\ pc["run"] = "send"
  BY DEF send, At, request, data
<1>2. CASE pc' = pc
  <2>1. /\ q # <<>> /\ q' = Tail(q) /\ Head(q) # "fatal"
        /\ fresh' = IF Head(q) = "sync" THEN {} ELSE fresh \cup {Head(q)}
    <3>1. ~Goto("run", "close")
      BY <1>1, <1>2, Names DEF Goto, IInv, Placed, Closers
    <3>2. QED
      BY <3>1 DEF send
  <2>2. q \in Seq(Items) /\ q # <<>> /\ q[1] = Head(q)
    BY <2>1 DEF IInv, Typed, Items
  <2>3. Kept
    BY <2>1, <2>2, TailOK, Zenon DEF Kept, Sent
  <2>4. Calm /\ (Sending' => Sending)
    BY <1>1, <1>2, <2>3 DEF Calm, Sending
  <2>5. QED
    BY <2>4, CalmSync
<1>3. CASE Goto("run", "close")
  <2>1. pc'["run"] = "close"
    BY <1>3, Names, GotoFacts DEF IInv, Placed, Labels, Closers
  <2>2. QED
    BY <2>1 DEF SyncInv, Sending
<1>4. QED
  BY <1>2, <1>3 DEF send

\* Runners that end, and subscription goroutines after their first values.
LEMMA EndsSync ==
  ASSUME IInv, SyncInv,
         NoRunner \/ MainStops \/ PollStops \/ TranslFails \/ SampleTick
  PROVE  SyncInv'
<1>1. /\ UNCHANGED <<kind, appdb, disposed, fresh>> /\ pc["main"] \in {"start", "stopwait"}
      /\ q' = q \/ Put("fatal")
      /\ \E l \in {"gone", "tick"} : Goto("main", l)
  BY Zenon DEF NoRunner, MainStops, PollStops, TranslFails, SampleTick, Started, At, Exit, request, client, data, peer
<1>2. Sending => Kept
  BY <1>1, SameKept, PutOneKept DEF Sending, IInv
<1>3. pc["resp"] # "initial"
  BY <1>1 DEF IInv, Placed
<1>4. \E l \in {"gone", "tick"} : Mild("main", l)
  BY <1>1, <1>2, <1>3, Names, Zenon DEF Mild
<1>5. QED
  BY <1>4, MildSync, Names DEF Labels

\* A subscription goroutine puts its first value or fails.
LEMMA DbSubInitSync ==
  ASSUME IInv, SyncInv, NEW p \in Subs, DbSubInit(p)
  PROVE  SyncInv'
<1>1. /\ UNCHANGED <<kind, appdb, disposed, fresh, todo, onchange>>
      /\ Put(p) \/ Put("fatal")
      /\ \E l \in {"loop", "gone"} : Goto(p, l)
  BY DEF DbSubInit, Exit, request, data, peer
<1>2. Sending => Kept /\ Sent(p)'
  BY <1>1, PutOneKept DEF Sending, IInv
<1>3. \E l \in {"loop", "gone"} : Mild(p, l)
  BY <1>1, <1>2, Names, Zenon DEF Mild
<1>4. QED
  BY <1>3, MildSync, Names DEF Labels

\* It goes on, or stops.
LEMMA DbSubSync ==
  ASSUME IInv, SyncInv, NEW p \in Subs, DbSubChange(p) \/ DbSubStops(p) \/ streamSample(p)
  PROVE  SyncInv'
<1>1. /\ UNCHANGED <<kind, appdb, disposed, fresh, todo, onchange>> /\ pc[p] = "loop"
      /\ q' = q \/ Put(p) \/ Put("fatal")
      /\ pc' = pc \/ Goto(p, "gone")
  BY DEF DbSubChange, DbSubStops, streamSample, At, Exit, request, data, peer
<1>2. Sending => Kept
  BY <1>1, SameKept, PutOneKept DEF Sending, IInv
<1>3. \E l \in {"loop", "gone"} : Goto(p, l)
  BY <1>1 DEF Goto, IInv, Placed
<1>4. \E l \in {"loop", "gone"} : Mild(p, l)
  BY <1>1, <1>2, <1>3, Names, Zenon DEF Mild
<1>5. QED
  BY <1>4, MildSync, Names DEF Labels

\* StreamRun of DbClient starts its goroutines, and later, when each of them
\* has put a first value or failed, puts sync_response.
LEMMA DbStreamSyncs ==
  ASSUME IInv, SyncInv, DbStreamStart \/ DbStreamSync
  PROVE  SyncInv'
<1>1. UNCHANGED <<kind, appdb, disposed, fresh>>
  BY DEF DbStreamStart, DbStreamSync, request, data, peer
<1>2. CASE DbStreamStart
  <2>1. PICK S \in SUBSET Subs :
          /\ pc' = [t \in Threads |->
                      IF t \in S THEN "init"
                      ELSE IF t = "main" THEN IF S = Subs THEN "syncwait" ELSE "gone"
                      ELSE pc[t]]
          /\ IF S = Subs THEN q' = q ELSE Put("fatal")
    BY <1>2 DEF DbStreamStart
  <2>2. pc["main"] = "start" /\ pc["resp"] # "initial"
    BY <1>2 DEF DbStreamStart, Started, At, IInv, Placed
  <2>3. /\ \A p \in S : pc'[p] = "init"
        /\ pc'["main"] = IF S = Subs THEN "syncwait" ELSE "gone"
        /\ pc'["resp"] = pc["resp"] /\ pc'["run"] = pc["run"]
    BY <2>1, Names DEF Closers
  <2>4. Sending' => Sending
    BY <1>1, <2>3 DEF Sending
  <2>5. Sending => Kept
    BY <1>1, <2>1, SameKept, PutOneKept DEF Sending, IInv
  <2>6. Sending' => SyncsOK(q, fresh)'
    BY <2>4, <2>5 DEF SyncInv, Kept
  <2>7. CASE S = Subs
    BY <2>2, <2>3, <2>6, <2>7, Zenon DEF SyncInv
  <2>8. CASE S # Subs
    BY <2>2, <2>3, <2>6, <2>8, DoneSync
  <2>9. QED
    BY <2>7, <2>8
<1>3. CASE DbStreamSync
  <2>1. /\ pc["main"] = "syncwait" /\ Isdb /\ synced = 0
        /\ Put("sync") /\ Goto("main", "stopwait")
    BY <1>3 DEF DbStreamSync, At
  <2>2. Initial = {}
    <3>1. Cardinality(Initial) = 0
      BY <2>1, Finite DEF IInv, Counting
    <3>2. QED
      BY <3>1, Finite, FS_EmptySet
  <2>3. Sending => SyncsOK(q, fresh) /\ \A p \in Subs : Sent(p)
    BY <2>1, <2>2 DEF SyncInv, Initial
  <2>4. pc'["main"] = "stopwait" /\ pc'["resp"] = pc["resp"] /\ pc'["run"] = pc["run"]
    BY <2>1, Names, GotoFacts DEF IInv, Placed, Labels, Closers
  <2>5. Sending' => Sending
    BY <1>1, <2>4 DEF Sending
  <2>6. Sending => SyncsOK(q, fresh)'
    BY <1>1, <2>1, <2>3, SyncPut DEF Sending, IInv
  <2>7. pc["resp"] # "initial"
    BY <2>1, Names DEF IInv, Placed, WorkerOK, Isdb
  <2>8. QED
    BY <2>4, <2>5, <2>6, <2>7, DoneSync
<1>4. QED
  BY <1>2, <1>3

\* NonDbClient and PollRun put all paths and sync_response in one go; a poll
\* that fails puts no sync_response.
LEMMA AtOnceSync ==
  ASSUME IInv, SyncInv, NonDbStreamStart \/ PollServe
  PROVE  SyncInv'
<1>1. /\ UNCHANGED <<kind, appdb, disposed, fresh, todo, onchange>>
      /\ pc["main"] = "start" /\ pc["resp"] # "initial"
  BY DEF NonDbStreamStart, PollServe, Started, At, request, data, peer, IInv, Placed
<1>2. ASSUME NEW S \in SUBSET Subs, appdb \/ S = Subs, PutAll(Append(Listed(S), "sync")),
             pc'["main"] \in {"start", "stopwait"}, pc'["resp"] = pc["resp"], pc'["run"] = pc["run"]
      PROVE  SyncInv'
  <2>1. Sending' => Sending
    BY <1>1, <1>2 DEF Sending
  <2>2. Sending => SyncsOK(q, fresh)'
    <3>1. ASSUME Sending PROVE SyncsOK(q, fresh)'
      <4>1. S = Subs /\ ~disposed /\ SyncsOK(q, fresh) /\ Typed
        BY <1>2, <3>1 DEF Sending, SyncInv, IInv
      <4>2. QED
        BY <1>1, <1>2, <4>1, ListedPut
    <3>2. QED
      BY <3>1
  <2>3. QED
    BY <1>1, <1>2, <2>1, <2>2, DoneSync
<1>3. ASSUME Sending => Kept, Goto("main", "gone")
      PROVE  SyncInv'
  <2>1. Mild("main", "gone")
    BY <1>1, <1>3, Names DEF Mild
  <2>2. QED
    BY <2>1, MildSync, Names DEF Labels
<1>4. CASE NonDbStreamStart
  <2>1. CASE /\ PutAll(Append(AllPaths, "sync"))
             /\ pc' = [t \in Threads |-> IF t \in Subs THEN "loop"
                                         ELSE IF t = "main" THEN "stopwait" ELSE pc[t]]
    <3>1. pc'["main"] = "stopwait" /\ pc'["resp"] = pc["resp"] /\ pc'["run"] = pc["run"]
      BY <2>1, Names DEF Closers
    <3>2. QED
      BY <1>2, <2>1, <3>1 DEF AllPaths
  <2>2. CASE Put("fatal") /\ Goto("main", "gone")
    <3>1. Sending => Kept
      BY <1>1, <2>2, PutOneKept DEF Sending, IInv
    <3>2. QED
      BY <1>3, <2>2, <3>1
  <2>3. QED
    BY <1>4, <2>1, <2>2 DEF NonDbStreamStart, Exit
<1>5. CASE PollServe
  <2>1. CASE /\ \E S \in SUBSET Subs : (appdb \/ S = Subs) /\ PutAll(Append(Listed(S), "sync"))
             /\ pc' = pc
    BY <1>1, <1>2, <2>1
  <2>2. CASE (\E S \in SUBSET Subs : PutAll(Listed(S))) /\ Goto("main", "gone")
    <3>1. Sending => Kept
      BY <1>1, <2>2, ListedKept DEF Sending, IInv
    <3>2. QED
      BY <1>3, <2>2, <3>1
  <2>3. QED
    BY <1>5, <2>1, <2>2 DEF PollServe, Exit
<1>6. QED
  BY <1>4, <1>5

\* The event client's sessions are not what SyncInv is about.
LEMMA EventSync ==
  ASSUME IInv, EventStart \/ EventMain \/ get_events \/ update_stats
  PROVE  SyncInv'
<1>1. kind = "events"
  BY Names, Zenon DEF EventStart, EventMain, get_events, update_stats, At, IInv, Placed, WorkerOK
<1>2. kind' = kind
  BY DEF EventStart, EventMain, get_events, update_stats, request
<1>3. QED
  BY <1>1, <1>2 DEF SyncInv, Sending

\* TranslClient decides what it has to sample.
LEMMA TranslStartSync ==
  ASSUME IInv, SyncInv, TranslStreamStart \/ TranslToken
  PROVE  SyncInv'
<1>1. /\ UNCHANGED <<kind, appdb, disposed, fresh, q>>
      /\ pc["main"] = "start" /\ pc["resp"] # "initial"
      /\ \/ Goto("main", "sample") /\ Subs \subseteq todo' \cup onchange'
         \/ Goto("main", "gone")
  BY Zenon DEF TranslStreamStart, TranslToken, Started, At, Exit, request, client, peer, IInv, Placed
<1>2. PICK l \in {"sample", "gone"} : Goto("main", l) /\ (l = "sample" => Subs \subseteq todo' \cup onchange')
  BY <1>1
<1>3. pc'["main"] = l /\ pc'["resp"] = pc["resp"] /\ pc'["run"] = pc["run"]
  BY <1>2, Names, GotoFacts DEF IInv, Placed, Labels, Closers
<1>4. Sending' => Sending
  BY <1>1, <1>3 DEF Sending
<1>5. Sending' => SyncsOK(q, fresh)'
  BY <1>1, <1>4, SameKept DEF SyncInv, Kept
<1>6. QED
  BY <1>1, <1>2, <1>3, <1>5 DEF SyncInv

\* doSample starts a responder.
LEMMA doSampleSync ==
  ASSUME IInv, SyncInv, doSample
  PROVE  SyncInv'
<1>1. PICK p \in todo : todo' = todo \ {p} /\ Goto(p, "respond")
  BY DEF doSample
<1>2. /\ UNCHANGED <<kind, appdb, disposed, fresh, q, onchange>> /\ \A x \in Subs : Exited(x)
      /\ p \in Subs
  BY DEF doSample, RespondersIdle, request, peer, IInv, Typed
<1>3. pc'[p] = "respond" /\ \A u \in Threads : u # p => pc'[u] = pc[u]
  BY <1>1, <1>2, Names, GotoFacts, Zenon DEF IInv, Placed, Labels
<1>4. /\ pc'["main"] = pc["main"] /\ pc'["resp"] = pc["resp"] /\ pc'["run"] = pc["run"]
      /\ \A x \in Subs : pc[x] \notin {"init", "respond"}
  BY <1>2, <1>3, Names DEF Closers, Exited
<1>5. Calm
  BY <1>1, <1>2, <1>3, <1>4, SameKept DEF Calm
<1>6. Sending' => Sending
  BY <1>2, <1>4 DEF Sending
<1>7. QED
  BY <1>5, <1>6, CalmSync

\* A responder puts what it got, or fails.
LEMMA processResponsesSync ==
  ASSUME IInv, SyncInv, NEW p \in Subs, processResponses(p)
  PROVE  SyncInv'
<1>1. /\ UNCHANGED <<kind, appdb, disposed, fresh, todo, onchange>> /\ Goto(p, "gone")
      /\ Put(p) \/ Put("fatal") \/ PutAll(<<"fatal", "fatal">>)
  BY DEF processResponses, TerminatedBy, Exit, Put, request, data, peer
<1>2. <<"fatal", "fatal">> \in Seq(Items) /\ NoSync(<<"fatal", "fatal">>) /\ 1 \in 1 .. Len(<<"fatal", "fatal">>)
      /\ <<"fatal", "fatal">>[1] = "fatal"
  BY DEF Items, NoSync
<1>3. ASSUME Sending PROVE Kept /\ Sent(p)'
  <2>1. ~disposed /\ Typed
    BY <1>3 DEF Sending, IInv
  <2>2. CASE Put(p) \/ Put("fatal")
    BY <1>1, <2>1, <2>2, PutOneKept
  <2>3. CASE PutAll(<<"fatal", "fatal">>)
    BY <1>1, <1>2, <2>1, <2>3, PutKept, Zenon
  <2>4. QED
    BY <1>1, <2>2, <2>3
<1>4. Mild(p, "gone")
  BY <1>1, <1>3, Names DEF Mild
<1>5. QED
  BY <1>4, MildSync, Names DEF Labels

\* The responder of doOnChange after the first values.
LEMMA OnChangeSync ==
  ASSUME IInv, SyncInv, OnChangeResponses
  PROVE  SyncInv'
<1>1. /\ UNCHANGED <<kind, appdb, disposed, fresh, todo, onchange>> /\ pc["resp"] = "loop"
      /\ pc' = pc \/ Goto("resp", "gone")
      /\ q' = q \/ (\E p \in onchange : Put(p)) \/ Put("fatal") \/ PutAll(<<"fatal", "fatal">>)
  BY DEF OnChangeResponses, TerminatedBy, At, Exit, Put, request, peer
<1>2. <<"fatal", "fatal">> \in Seq(Items) /\ NoSync(<<"fatal", "fatal">>)
  BY DEF Items, NoSync
<1>3. ASSUME Sending PROVE Kept
  <2>1. ~disposed /\ Typed /\ onchange \subseteq Subs
    BY <1>3 DEF Sending, IInv, Typed
  <2>2. CASE q' = q
    BY <1>1, <2>2, SameKept
  <2>3. CASE (\E p \in onchange : Put(p)) \/ Put("fatal")
    BY <1>1, <2>1, <2>3, PutOneKept
  <2>4. CASE PutAll(<<"fatal", "fatal">>)
    BY <1>1, <1>2, <2>1, <2>4, PutKept, Zenon
  <2>5. QED
    BY <1>1, <2>2, <2>3, <2>4
<1>4. \E l \in {"loop", "gone"} : Goto("resp", l)
  BY <1>1 DEF Goto, IInv, Placed
<1>5. \E l \in {"loop", "gone"} : Mild("resp", l)
  BY <1>1, <1>3, <1>4, Names, Zenon DEF Mild
<1>6. QED
  BY <1>5, MildSync, Names DEF Labels

\* When all responders of a round have ended: sync_response, doOnChange, or
\* back to the select loop.
LEMMA SamplesDoneSync ==
  ASSUME IInv, SyncInv, SamplesDone
  PROVE  SyncInv'
<1>1. /\ UNCHANGED <<kind, appdb, disposed, fresh, todo, onchange>> /\ todo = {}
      /\ \A p \in Subs : pc[p] # "respond"
      /\ kind = "transl" /\ pc["resp"] # "initial"
  BY Names, Zenon DEF SamplesDone, RespondersIdle, Exited, request, data, peer, IInv, Placed, WorkerOK
<1>2. pc["main"] = "sample" /\ Sending => SyncsOK(q, fresh) /\ \A p \in Subs : p \in onchange \/ Sent(p)
  BY <1>1 DEF SyncInv
<1>3. CASE /\ pc["main"] = "sample" /\ onchange = {} /\ Put("sync")
           /\ \E l \in {"gone", "start", "stopwait"} : Goto("main", l)
  <2>1. pc'["main"] \in {"gone", "start", "stopwait"} /\ pc'["resp"] = pc["resp"] /\ pc'["run"] = pc["run"]
    BY <1>3, Names, GotoFacts DEF IInv, Placed, Labels, Closers
  <2>2. Sending' => Sending
    BY <1>1, <2>1 DEF Sending
  <2>3. Sending => SyncsOK(q, fresh)'
    BY <1>1, <1>2, <1>3, SyncPut DEF Sending, IInv
  <2>4. QED
    BY <1>1, <2>1, <2>2, <2>3, DoneSync
<1>4. CASE /\ pc["main"] = "sample" /\ q' = q
           /\ pc' = [pc EXCEPT !["resp"] = "initial", !["main"] = "syncwait"]
  <2>1. pc'["main"] = "syncwait" /\ pc'["run"] = pc["run"]
    BY <1>4, Names DEF IInv, Placed, Closers
  <2>2. Sending' => Sending /\ Kept
    BY <1>1, <1>4, <2>1, SameKept DEF Sending
  <2>3. ~Isdb'
    BY <1>1 DEF Isdb
  <2>4. QED
    BY <1>1, <1>2, <1>4, <2>1, <2>2, <2>3 DEF SyncInv, Kept
<1>5. CASE q' = q /\ Goto("main", "stopwait")
  <2>1. Mild("main", "stopwait")
    BY <1>1, <1>5, SameKept, Names DEF Mild
  <2>2. QED
    BY <2>1, MildSync, Names DEF Labels
<1>6. QED
  BY <1>3, <1>4, <1>5, Zenon DEF SamplesDone, At, Exit

\* The first values of the ON_CHANGE paths and the sync_response.
LEMMA OnChangeInitialSync ==
  ASSUME IInv, SyncInv, OnChangeInitial
  PROVE  SyncInv'
<1>1. /\ UNCHANGED <<kind, appdb, disposed, fresh, todo, onchange>> /\ pc["resp"] = "initial"
      /\ PutAll(Append(Listed(onchange), "sync")) \/ Put("fatal")
      /\ \E l \in {"loop", "gone"} : pc' = [pc EXCEPT !["resp"] = l, !["main"] = "stopwait"]
  BY DEF OnChangeInitial, At, request, data, peer
<1>2. pc'["main"] = "stopwait" /\ pc'["resp"] # "initial" /\ pc'["run"] = pc["run"]
  BY <1>1, Names DEF IInv, Placed, Closers
<1>3. Sending' => Sending
  BY <1>1, <1>2 DEF Sending
<1>4. ASSUME Sending PROVE SyncsOK(q, fresh)'
  <2>1. /\ ~disposed /\ Typed /\ onchange \in SUBSET Subs /\ SyncsOK(q, fresh)
        /\ \A p \in Subs : p \in onchange \/ Sent(p)
    BY <1>1, <1>4 DEF Sending, IInv, Typed, SyncInv
  <2>2. CASE PutAll(Append(Listed(onchange), "sync"))
    BY <1>1, <2>1, <2>2, ListedPut
  <2>3. CASE Put("fatal")
    BY <1>1, <2>1, <2>3, PutOneKept DEF Kept
  <2>4. QED
    BY <1>1, <2>2, <2>3
<1>5. QED
  BY <1>2, <1>3, <1>4, DoneSync

---------------------------------------------------------------------------
(* The theorem                                                             *)

\* Every step preserves the invariant.
LEMMA NextSync ==
  ASSUME IInv, SyncInv, [Next]_vars
  PROVE  SyncInv'
<1>1. CASE Client \/ Environment
  BY <1>1, ClosersSync, sendSync
<1>2. CASE DataClient
  BY <1>2, EndsSync, DbSubInitSync, DbSubSync, DbStreamSyncs, AtOnceSync, EventSync, TranslStartSync,
     doSampleSync, processResponsesSync, OnChangeSync, SamplesDoneSync, OnChangeInitialSync DEF DataClient
<1>3. CASE UNCHANGED vars
  <2>1. UNCHANGED <<kind, appdb, disposed, q, fresh, todo, onchange, pc>>
    BY <1>3 DEF vars, request, client, data, peer
  <2>2. Calm /\ (Sending' => Sending)
    BY <2>1, SameKept DEF Calm, Sending
  <2>3. QED
    BY <2>2, CalmSync
<1>4. QED
  BY <1>1, <1>2, <1>3 DEF Next, Finished

\* It holds initially: the queue is empty and nothing runs.
LEMMA InitSync ==
  ASSUME Init
  PROVE  SyncInv
<1>1. q = << >> /\ pc = [t \in Threads |-> IF t = "run" THEN "setup" ELSE "off"]
  BY DEF Init
<1>2. pc["main"] = "off" /\ pc["resp"] = "off"
  BY <1>1 DEF Threads, Routines
<1>3. SyncsOK(q, fresh)
  BY <1>1 DEF SyncsOK
<1>4. QED
  BY <1>2, <1>3 DEF SyncInv

\* Only the send loop counts a sync_response.
LEMMA OnlySend ==
  ASSUME [Next]_vars, nsync' # nsync
  PROVE  send
<1>1. CASE Client
  BY <1>1, Zenon DEF Client, CloseBegin, CloseEnd, RunRefuses, RunStarts, RunWait, recv, recvPoll, recvCtxDone, peer
<1>2. CASE Environment
  BY <1>2 DEF Environment, PeerSends, PeerHalfCloses, PeerDisconnects, DuplicateArrives, peer
<1>3. CASE DataClient
  BY <1>3, Zenon DEF DataClient, NoRunner, MainStops, DbStreamStart, DbStreamSync, DbSubInit, DbSubChange,
     DbSubStops, NonDbStreamStart, streamSample, PollServe, PollStops, EventStart, EventMain,
     get_events, update_stats, TranslFails, TranslStreamStart, TranslToken, doSample, SamplesDone,
     SampleTick, OnChangeInitial, OnChangeResponses, processResponses, peer
<1>4. QED
  BY <1>1, <1>2, <1>3 DEF Next, Finished, vars, peer

\* The first value of the queue is a sync_response only if all paths have
\* been sent.
LEMMA StepSync ==
  ASSUME IInv, SyncInv, [Next]_vars
  PROVE  nsync' # nsync /\ kind # "events" /\ ~appdb => fresh = Subs
<1>1. SUFFICES ASSUME nsync' # nsync, kind # "events", ~appdb
               PROVE  fresh = Subs
  OBVIOUS
<1>2. send
  BY <1>1, OnlySend
<1>3. pc["run"] = "send" /\ ~disposed /\ q # << >> /\ Head(q) = "sync"
  BY <1>1, <1>2 DEF send, At, peer
<1>4. 1 \in 1 .. Len(q) /\ q[1] = "sync" /\ 1 - 1 = 0
  BY <1>3 DEF IInv, Typed
<1>5. SyncsOK(q, fresh)
  BY <1>1, <1>3 DEF SyncInv, Sending
<1>6. \A p \in Subs : Reached(q, fresh, p, 1)
  BY <1>4, <1>5 DEF SyncsOK
<1>7. \A p \in Subs : p \in fresh
  BY <1>6 DEF Reached
<1>8. QED
  BY <1>7, Zenon DEF IInv, Typed

\* Client.send passes on a sync_response only when every subscribed path has
\* been sent since the previous one: for any number of paths, any mode and
\* data client except events and APPL_DB polls, and any faults.
THEOREM SyncComplete == Spec => SyncCompletesPaths
<1>1. Init => SyncInv
  BY InitSync
<1>2. IInv /\ SyncInv /\ [Next]_vars => SyncInv'
  BY NextSync
<1>3. IInv /\ SyncInv /\ [Next]_vars => [nsync' # nsync /\ kind # "events" /\ ~appdb => fresh = Subs]_vars
  BY StepSync
<1>4. QED
  BY <1>1, <1>2, <1>3, SpecIInv, PTL DEF Spec, SyncCompletesPaths
=============================================================================
