--------------------------- MODULE SubscribeSession -------------------------
(***************************************************************************)
(* One Subscribe RPC: Client.Run with its send loop, the recv goroutine    *)
(* and Close (gnmi_server/client_subscribe.go), the gRPC stream, the peer, *)
(* a duplicate RPC that closes this client, and the goroutines of the data *)
(* client: DbClient and MixedDbClient (sonic_data_client/db_client.go,     *)
(* mixed_db_client.go), NonDbClient (non_db_client.go), EventClient        *)
(* (events_client.go) and TranslClient (transl_data_client.go,             *)
(* transl_subscriber.go).                                                  *)
(*                                                                         *)
(* The priority queue is external: Put fails once it is disposed, Get      *)
(* blocks while it is empty and fails once it is disposed, and Dispose     *)
(* drops what is pending.  Values are stamped when they are put, so the    *)
(* queue is modelled as first in, first out.  The stop, polled and once    *)
(* channels are one variable: a session makes exactly one of them.         *)
(*                                                                         *)
(* "main" is StreamRun, PollRun, AppDBPollRun or OnceRun; a path in Subs   *)
(* names the goroutine of that subscription; "get" and "stats" are the     *)
(* event client's get_events and update_stats; "resp" is the               *)
(* processResponses goroutine of doOnChange.  A goroutine that ends        *)
(* through a deferred w.Done() takes one from w.                           *)
(***************************************************************************)
EXTENDS Naturals, Sequences, FiniteSets, Functions

CONSTANTS Subs,       \* subscribed paths
          Modes,      \* SubscriptionList modes explored
          Kinds,      \* data clients explored
          Faults,     \* faults the environment may cause
          DupWhen,    \* when a duplicate RPC may close this client
          MaxMsgs,    \* bound on the peer's messages after the first
          MaxChanges  \* bound on data changes, events and sample ticks

Routines == {"get", "stats", "resp"}
Threads == {"run", "recv", "dup", "main"} \cup Routines \cup Subs

ASSUME ClientAssumption ==
  /\ Subs # {} /\ IsFiniteSet(Subs)
  /\ Subs \cap ({"run", "recv", "dup", "main", "sync", "fatal"} \cup Routines) = {}
  /\ Modes \subseteq {"STREAM", "POLL", "ONCE"}
  /\ Kinds \subseteq {"db", "mixed", "nondb", "events", "transl"}
  /\ Faults \subseteq {"mode", "read", "terminated"}
  /\ DupWhen \subseteq {"early", "late"}
  /\ MaxMsgs \in Nat /\ MaxChanges \in Nat

VARIABLES
  mode, kind, appdb,   \* the request: mode, data client, target APPL_DB
  net,        \* the peer's side: "open", half closed "eof", or "down"
  inbox,      \* messages the peer sent and Recv has not returned
  pc,         \* control state of every goroutine
  mu,         \* holder of Client.mu
  q, disposed,\* Client.q
  ch,         \* stop, polled or once: "nil", "open" or "closed"
  tokens,     \* what ch buffers (capacity 1)
  w,          \* Client.w
  synced,     \* the data client's synced wait group
  todo,       \* TranslClient: paths doSample has still to be called for
  onchange,   \* TranslClient: paths with an ON_CHANGE subscription
  stopped,    \* EventClient.stopped
  changes,    \* data changes so far
  msgs,       \* messages the peer sent so far
  panic,      \* a goroutine panicked and nothing recovers it
  fresh,      \* paths the peer got since the last sync_response
  nsync,      \* sync_responses the peer got
  served      \* polls PollRun has taken from the channel

request == <<mode, kind, appdb>>
world == <<net, inbox, msgs>>
client == <<mu, q, disposed, ch, tokens, w, panic>>
data == <<synced, todo, onchange, stopped, changes, served>>
peer == <<fresh, nsync>>
vars == <<request, world, pc, client, data, peer>>

Goto(t, l) == pc' = [pc EXCEPT ![t] = l]
\* Goroutine t of a process that has not panicked is at l.
At(t, l) == ~panic /\ pc[t] = l
Exited(t) == pc[t] \in {"off", "gone"}

\* A half-open request the dispatch of Run admits: EVENTS only with STREAM,
\* and only PollRun looks at the target.
Requests == {r \in Modes \X Kinds \X BOOLEAN :
               /\ r[2] = "events" => r[1] = "STREAM"
               /\ r[3] => r[1] = "POLL" /\ r[2] # "nondb"}

Init ==
  /\ \E r \in Requests : mode = r[1] /\ kind = r[2] /\ appdb = r[3]
  /\ net = "open" /\ inbox = <<>> /\ msgs = 0
  /\ pc = [t \in Threads |-> IF t = "run" THEN "setup" ELSE "off"]
  /\ mu = "none" /\ q = <<>> /\ disposed = FALSE
  /\ ch = "nil" /\ tokens = 0 /\ w = 0 /\ panic = FALSE
  /\ synced = 0 /\ todo = {} /\ onchange = {} /\ stopped = FALSE
  /\ changes = 0 /\ served = 0
  /\ fresh = {} /\ nsync = 0

---------------------------------------------------------------------------
(* The priority queue and the channel                                      *)

PutAll(items) == q' = IF disposed THEN q ELSE q \o items
Put(item) == PutAll(<<item>>)

\* close(ch): nothing for a nil channel, a panic for a closed one.
CloseChannel ==
  /\ ch' = IF ch = "open" THEN "closed" ELSE ch
  /\ panic' = (ch = "closed")

---------------------------------------------------------------------------
(* Client.Close, called by Run, by recv and by a duplicate RPC             *)

AfterClose(t) == IF t = "run" THEN "wait" ELSE "gone"

\* Close that does not ask whether the queue is already disposed.
CloseBegin_Again(t) ==
  /\ At(t, "close")
  /\ mu = "none"
  /\ disposed' = TRUE
  /\ q' = <<>>
  /\ mu' = t
  /\ Goto(t, "closing")
  /\ UNCHANGED <<request, world, ch, tokens, w, panic, data, peer>>

\* Under mu: return if the queue is disposed, else dispose it ...
CloseBegin(t) ==
  /\ At(t, "close")
  /\ mu = "none"
  /\ IF disposed
     THEN Goto(t, AfterClose(t)) /\ UNCHANGED <<q, disposed, mu>>
     ELSE /\ disposed' = TRUE
          /\ q' = <<>>
          /\ mu' = t
          /\ Goto(t, "closing")
  /\ UNCHANGED <<request, world, ch, tokens, w, panic, data, peer>>

\* ... and then close the channel this mode has made by now.
CloseEnd(t) ==
  /\ At(t, "closing")
  /\ CloseChannel
  /\ mu' = "none"
  /\ Goto(t, AfterClose(t))
  /\ UNCHANGED <<request, world, q, disposed, tokens, w, data, peer>>

---------------------------------------------------------------------------
(* Client.Run                                                              *)

\* Run returns before the mode switch has started anything.
RunRefuses ==
  /\ At("run", "setup")
  /\ Goto("run", "returned")
  /\ UNCHANGED <<request, world, client, data, peer>>

\* The mode switch: make the channel (preloaded unless STREAM), start the
\* data client and recv.
RunStarts ==
  /\ At("run", "setup")
  /\ ch' = "open"
  /\ tokens' = IF mode = "STREAM" THEN 0 ELSE 1
  /\ w' = w + 1
  /\ pc' = [pc EXCEPT !["run"] = "send", !["recv"] = "recv", !["main"] = "start"]
  /\ UNCHANGED <<request, world, mu, q, disposed, panic, data, peer>>

\* A send loop that skips fatal values.
send_IgnoreFatal ==
  /\ At("run", "send")
  /\ \/ /\ disposed
        /\ Goto("run", "close")
        /\ UNCHANGED <<q, peer>>
     \/ /\ ~disposed /\ q # <<>>
        /\ q' = Tail(q)
        /\ \/ /\ net = "down"
              /\ Goto("run", "close")
           \/ /\ net # "down"
              /\ pc' = pc
        /\ UNCHANGED peer
  /\ UNCHANGED <<request, world, mu, disposed, ch, tokens, w, panic, data>>

\* A send loop that asks a disposed queue again instead of returning.
send_Retry ==
  /\ At("run", "send")
  /\ \/ /\ disposed
        /\ UNCHANGED <<q, pc, peer>>
     \/ /\ ~disposed /\ q # <<>>
        /\ q' = Tail(q)
        /\ IF Head(q) = "fatal" THEN Goto("run", "close") ELSE pc' = pc
        /\ UNCHANGED peer
  /\ UNCHANGED <<request, world, mu, disposed, ch, tokens, w, panic, data>>

\* send: a disposed queue, a fatal value or a failing stream.Send ends it.
send ==
  /\ At("run", "send")
  /\ \/ /\ disposed
        /\ Goto("run", "close")
        /\ UNCHANGED <<q, peer>>
     \/ /\ ~disposed /\ q # <<>>
        /\ q' = Tail(q)
        /\ \/ /\ Head(q) = "fatal" \/ net = "down"
              /\ Goto("run", "close")
              /\ UNCHANGED peer
           \/ /\ Head(q) # "fatal" /\ net # "down"
              /\ fresh' = IF Head(q) = "sync" THEN {} ELSE fresh \cup {Head(q)}
              /\ nsync' = IF Head(q) = "sync" THEN nsync + 1 ELSE nsync
              /\ pc' = pc
  /\ UNCHANGED <<request, world, mu, disposed, ch, tokens, w, panic, data>>

\* Run that does not wait for the goroutines it started.
RunWait_Skip ==
  /\ At("run", "wait")
  /\ Goto("run", "returned")
  /\ UNCHANGED <<request, world, client, data, peer>>

RunWait ==
  /\ At("run", "wait") /\ w = 0
  /\ Goto("run", "returned")
  /\ UNCHANGED <<request, world, client, data, peer>>

---------------------------------------------------------------------------
(* Client.recv                                                             *)

Over == net = "down" \/ pc["run"] = "returned"   \* Recv fails, ctx is done

recv ==
  /\ At("recv", "recv")
  /\ \/ /\ inbox # <<>>
        /\ inbox' = Tail(inbox)
        /\ Goto("recv", IF mode # "POLL" THEN "recv"
                        ELSE IF Head(inbox) = "poll" THEN "put" ELSE "close")
     \/ /\ inbox = <<>> /\ net = "eof"
        /\ Goto("recv", IF mode = "STREAM" THEN "ctx" ELSE "close")
        /\ UNCHANGED inbox
     \/ /\ Over
        /\ Goto("recv", "close")
        /\ UNCHANGED inbox
  /\ UNCHANGED <<request, net, msgs, client, data, peer>>

\* A send on polled that does not block on a full channel.
recvPoll_NoBlock ==
  /\ At("recv", "put")
  /\ \/ ch = "open" /\ tokens' = tokens + 1 /\ UNCHANGED panic
     \/ ch = "closed" /\ panic' = TRUE /\ UNCHANGED tokens
  /\ Goto("recv", "recv")
  /\ UNCHANGED <<request, world, mu, q, disposed, ch, w, data, peer>>

\* c.polled <- struct{}{}: blocks on a full channel, panics on a closed one.
recvPoll ==
  /\ At("recv", "put")
  /\ \/ ch = "open" /\ tokens = 0 /\ tokens' = 1 /\ UNCHANGED panic
     \/ ch = "closed" /\ panic' = TRUE /\ UNCHANGED tokens
  /\ Goto("recv", "recv")
  /\ UNCHANGED <<request, world, mu, q, disposed, ch, w, data, peer>>

\* recv without its deferred Close.
recvCtxDone_NoClose ==
  /\ At("recv", "ctx") /\ Over
  /\ Goto("recv", "gone")
  /\ UNCHANGED <<request, world, client, data, peer>>

recvCtxDone ==
  /\ At("recv", "ctx") /\ Over
  /\ Goto("recv", "close")
  /\ UNCHANGED <<request, world, client, data, peer>>

---------------------------------------------------------------------------
(* The peer, the network, and Server.Subscribe of a duplicate RPC          *)

PeerSends ==
  /\ net = "open" /\ msgs < MaxMsgs
  /\ \E m \in {"poll", "other"} : inbox' = Append(inbox, m)
  /\ msgs' = msgs + 1
  /\ UNCHANGED <<request, net, pc, client, data, peer>>

PeerHalfCloses ==
  /\ net = "open"
  /\ net' = "eof"
  /\ UNCHANGED <<request, inbox, msgs, pc, client, data, peer>>

PeerDisconnects ==
  /\ net # "down"
  /\ net' = "down"
  /\ UNCHANGED <<request, inbox, msgs, pc, client, data, peer>>

\* "early": before Run has passed the mode switch; "late": after it.
DuplicateArrives ==
  /\ At("dup", "off")
  /\ pc["run"] # "returned"
  /\ (IF pc["run"] = "setup" THEN "early" ELSE "late") \in DupWhen
  /\ Goto("dup", "close")
  /\ UNCHANGED <<request, world, client, data, peer>>

---------------------------------------------------------------------------
(* The data clients                                                        *)

\* The elements of S in some order.
Listed(S) == CHOOSE s \in Bijection(1 .. Cardinality(S), S) : TRUE
AllPaths == Listed(Subs)
Started == At("main", "start")
StopClosed == ch = "closed"
Isdb == kind \in {"db", "mixed"}

Exit(t) == Goto(t, "gone")
WDone == w' = w - 1

---------------------------------------------------------------------------
(* Runners that return without w.Done(): OnceRun of DbClient,              *)
(* MixedDbClient and NonDbClient, AppDBPollRun of MixedDbClient and        *)
(* TranslClient.                                                           *)

ReturnsWithoutDone ==
  \/ mode = "ONCE" /\ kind # "transl"
  \/ mode = "POLL" /\ appdb /\ kind \in {"mixed", "transl"}

NoRunner ==
  /\ Started /\ ReturnsWithoutDone
  /\ Exit("main")
  /\ UNCHANGED <<request, world, client, data, peer>>

---------------------------------------------------------------------------
(* DbClient and MixedDbClient, STREAM                                      *)

\* StreamRun starts one goroutine per subscription; an unsupported mode or
\* sample interval ends it with a fatal value after some have started.
DbStreamStart ==
  /\ Started /\ mode = "STREAM" /\ Isdb
  /\ \E S \in SUBSET Subs :
       /\ S = Subs \/ "mode" \in Faults
       /\ synced' = Cardinality(S)
       /\ pc' = [t \in Threads |->
                   IF t \in S THEN "init"
                   ELSE IF t = "main" THEN IF S = Subs THEN "syncwait" ELSE "gone"
                   ELSE pc[t]]
       /\ IF S = Subs
          THEN w' = w + Cardinality(S) /\ UNCHANGED q
          ELSE w' = w + Cardinality(S) - 1 /\ Put("fatal")
  /\ UNCHANGED <<request, world, mu, disposed, ch, tokens, panic, todo,
                 onchange, stopped, changes, served, peer>>

\* StreamRun that does not wait for the goroutines' first values.
DbStreamSync_Early ==
  /\ At("main", "syncwait") /\ Isdb
  /\ Put("sync")
  /\ Goto("main", "stopwait")
  /\ UNCHANGED <<request, world, mu, disposed, ch, tokens, w, panic, data, peer>>

DbStreamSync ==
  /\ At("main", "syncwait") /\ Isdb
  /\ synced = 0
  /\ Put("sync")
  /\ Goto("main", "stopwait")
  /\ UNCHANGED <<request, world, mu, disposed, ch, tokens, w, panic, data, peer>>

\* A subscription goroutine reads and puts its first value; a failed read or
\* a failed Put is fatal.  Either way it signals synced.
DbSubInit(p) ==
  /\ At(p, "init")
  /\ synced' = synced - 1
  /\ \/ /\ ~disposed
        /\ Put(p) /\ Goto(p, "loop") /\ UNCHANGED w
     \/ /\ disposed \/ "read" \in Faults
        /\ Put("fatal") /\ Exit(p) /\ WDone
  /\ UNCHANGED <<request, world, mu, disposed, ch, tokens, panic, todo,
                 onchange, stopped, changes, served, peer>>

\* A change or a tick: read and put; a failed read or Put is fatal.
DbSubChange(p) ==
  /\ At(p, "loop") /\ Isdb
  /\ changes < MaxChanges /\ changes' = changes + 1
  /\ \/ /\ ~disposed
        /\ Put(p) /\ pc' = pc /\ UNCHANGED w
     \/ /\ disposed \/ "read" \in Faults
        /\ Put("fatal") /\ Exit(p) /\ WDone
  /\ UNCHANGED <<request, world, mu, disposed, ch, tokens, panic, synced,
                 todo, onchange, stopped, served, peer>>

DbSubStops(p) ==
  /\ At(p, "loop") /\ Isdb /\ StopClosed
  /\ Exit(p) /\ WDone
  /\ UNCHANGED <<request, world, mu, q, disposed, ch, tokens, panic, data, peer>>

\* <-c.channel at the end of StreamRun (DbClient, MixedDbClient, NonDbClient).
MainStops ==
  /\ At("main", "stopwait") /\ kind # "events" /\ StopClosed
  /\ Exit("main") /\ WDone
  /\ UNCHANGED <<request, world, mu, q, disposed, ch, tokens, panic, data, peer>>

---------------------------------------------------------------------------
(* NonDbClient, STREAM: first values and sync from StreamRun itself, then  *)
(* one streamSample goroutine per path, none of them in w.                 *)

NonDbStreamStart ==
  /\ Started /\ mode = "STREAM" /\ kind = "nondb"
  /\ \/ /\ PutAll(Append(AllPaths, "sync"))
        /\ pc' = [t \in Threads |-> IF t \in Subs THEN "loop"
                                    ELSE IF t = "main" THEN "stopwait" ELSE pc[t]]
        /\ UNCHANGED w
     \/ /\ "mode" \in Faults
        /\ Put("fatal") /\ Exit("main") /\ WDone
  /\ UNCHANGED <<request, world, mu, disposed, ch, tokens, panic, data, peer>>

streamSample(p) ==
  /\ At(p, "loop") /\ kind = "nondb"
  /\ \/ /\ StopClosed
        /\ Exit(p) /\ UNCHANGED <<q, changes>>
     \/ /\ changes < MaxChanges /\ changes' = changes + 1
        /\ Put(p) /\ pc' = pc
  /\ UNCHANGED <<request, world, mu, disposed, ch, tokens, w, panic, synced,
                 todo, onchange, stopped, served, peer>>

---------------------------------------------------------------------------
(* DbClient, MixedDbClient and NonDbClient, POLL                           *)

\* PollRun that leaves out a path.
PollServe_Partial ==
  /\ Started /\ mode = "POLL" /\ kind # "transl" /\ ~ReturnsWithoutDone
  /\ tokens > 0 /\ tokens' = tokens - 1
  /\ served' = served + 1
  /\ \E p \in Subs : PutAll(<<p, "sync">>)
  /\ UNCHANGED <<request, world, pc, mu, disposed, ch, w, panic, synced, todo,
                 onchange, stopped, changes, peer>>

\* PollRun that never sends sync_response.
PollServe_NoSync ==
  /\ Started /\ mode = "POLL" /\ kind # "transl" /\ ~ReturnsWithoutDone
  /\ tokens > 0 /\ tokens' = tokens - 1
  /\ served' = served + 1
  /\ PutAll(AllPaths)
  /\ UNCHANGED <<request, world, pc, mu, disposed, ch, w, panic, synced, todo,
                 onchange, stopped, changes, peer>>

\* Wait for a token; an APPL_DB poll skips the paths that have no data.  A
\* failed read ends PollRun with nothing more than a log line.
PollServe ==
  /\ Started /\ mode = "POLL" /\ kind # "transl" /\ ~ReturnsWithoutDone
  /\ tokens > 0 /\ tokens' = tokens - 1
  /\ served' = served + 1
  /\ \/ /\ \E S \in SUBSET Subs :
             /\ appdb \/ S = Subs
             /\ PutAll(Append(Listed(S), "sync"))
        /\ pc' = pc /\ UNCHANGED w
     \/ /\ Isdb /\ "read" \in Faults
        /\ \E S \in SUBSET Subs : S # Subs /\ PutAll(Listed(S))
        /\ Exit("main") /\ WDone
  /\ UNCHANGED <<request, world, mu, disposed, ch, panic, synced, todo,
                 onchange, stopped, changes, peer>>

PollStops ==
  /\ Started /\ mode = "POLL" /\ kind # "transl" /\ ~ReturnsWithoutDone
  /\ tokens = 0 /\ StopClosed
  /\ Exit("main") /\ WDone
  /\ UNCHANGED <<request, world, mu, q, disposed, ch, tokens, panic, data, peer>>

---------------------------------------------------------------------------
(* EventClient, STREAM                                                     *)

\* StreamRun starts get_events before it adds it to w, and likewise
\* update_stats.
EventStart ==
  /\ kind = "events"
  /\ \/ /\ Started
        /\ pc' = [pc EXCEPT !["get"] = "loop", !["main"] = "add1"]
        /\ UNCHANGED w
     \/ /\ At("main", "add1")
        /\ pc' = [pc EXCEPT !["stats"] = "loop", !["main"] = "add2"]
        /\ w' = w + 1
     \/ /\ At("main", "add2")
        /\ Goto("main", "check")
        /\ w' = w + 1
  /\ UNCHANGED <<request, world, mu, q, disposed, ch, tokens, panic, data, peer>>

\* for !isStopped() { <-channel; stopped = 1; return }
EventMain ==
  /\ kind = "events"
  /\ \/ /\ At("main", "check") /\ ~stopped
        /\ Goto("main", "stopwait") /\ UNCHANGED <<w, stopped>>
     \/ /\ At("main", "check") /\ stopped
        /\ Exit("main") /\ WDone /\ UNCHANGED stopped
     \/ /\ At("main", "stopwait") /\ StopClosed
        /\ stopped' = TRUE
        /\ Exit("main") /\ WDone
  /\ UNCHANGED <<request, world, mu, q, disposed, ch, tokens, panic, synced,
                 todo, onchange, changes, served, peer>>

\* get_events: put an event, stop on a failed Put or when told to.
get_events ==
  /\ At("get", "loop")
  /\ \/ /\ changes < MaxChanges /\ changes' = changes + 1
        /\ ~disposed
        /\ \E p \in Subs : Put(p)
        /\ pc' = pc /\ UNCHANGED <<w, stopped>>
     \/ /\ \/ stopped /\ UNCHANGED changes
           \/ disposed /\ changes < MaxChanges /\ changes' = changes + 1
        /\ stopped' = TRUE
        /\ Exit("get") /\ WDone /\ UNCHANGED q
  /\ UNCHANGED <<request, world, mu, disposed, ch, tokens, panic, synced,
                 todo, onchange, served, peer>>

update_stats ==
  /\ At("stats", "loop") /\ stopped
  /\ Exit("stats") /\ WDone
  /\ UNCHANGED <<request, world, mu, q, disposed, ch, tokens, panic, data, peer>>

---------------------------------------------------------------------------
(* TranslClient.  The paths still to be sampled are in todo; doSample      *)
(* starts a responder, in w, and waits until it has exited.                *)

Istransl == kind = "transl" /\ ~ReturnsWithoutDone
RespondersIdle == \A p \in Subs : Exited(p)

TranslFails ==
  /\ Started /\ Istransl /\ "mode" \in Faults
  /\ Put("fatal") /\ Exit("main") /\ WDone
  /\ UNCHANGED <<request, world, mu, disposed, ch, tokens, panic, data, peer>>

\* Some subscriptions are sampled; the others, if any, are ON_CHANGE.
TranslStreamStart ==
  /\ Started /\ Istransl /\ mode = "STREAM"
  /\ \E S \in SUBSET Subs :
       /\ todo' = S
       /\ onchange' = Subs \ S
  /\ Goto("main", "sample")
  /\ UNCHANGED <<request, world, client, synced, stopped, changes, served, peer>>

\* PollRun and OnceRun take a token, or leave when the channel is closed.
TranslToken ==
  /\ Started /\ Istransl /\ mode # "STREAM"
  /\ \/ /\ tokens > 0 /\ tokens' = tokens - 1
        /\ served' = served + 1
        /\ todo' = Subs
        /\ Goto("main", "sample") /\ UNCHANGED w
     \/ /\ tokens = 0 /\ StopClosed
        /\ Exit("main") /\ WDone /\ UNCHANGED <<tokens, served, todo>>
  /\ UNCHANGED <<request, world, mu, q, disposed, ch, panic, synced, onchange,
                 stopped, changes, peer>>

\* doSample: w.Add(1), synced.Add(1), go processResponses.
doSample ==
  /\ ~panic /\ pc["main"] \in {"sample", "tick"} /\ RespondersIdle
  /\ \E p \in todo :
       /\ todo' = todo \ {p}
       /\ Goto(p, "respond")
  /\ w' = w + 1
  /\ UNCHANGED <<request, world, mu, q, disposed, ch, tokens, panic, synced,
                 onchange, stopped, changes, served, peer>>

\* After the last doSample: the sync message, or doOnChange, or back to the
\* select loop.
SamplesDone ==
  /\ ~panic /\ pc["main"] \in {"sample", "tick"}
  /\ RespondersIdle /\ todo = {}
  /\ \/ /\ At("main", "sample") /\ onchange = {}
        /\ Put("sync")
        /\ IF mode = "ONCE" THEN Exit("main") /\ WDone
           ELSE Goto("main", IF mode = "POLL" THEN "start" ELSE "stopwait")
                /\ UNCHANGED w
     \/ /\ At("main", "sample") /\ onchange # {}
        /\ pc' = [pc EXCEPT !["resp"] = "initial", !["main"] = "syncwait"]
        /\ w' = w + 1 /\ UNCHANGED q
     \/ /\ At("main", "tick")
        /\ Goto("main", "stopwait") /\ UNCHANGED <<w, q>>
  /\ UNCHANGED <<request, world, mu, disposed, ch, tokens, panic, data, peer>>

SampleTick ==
  /\ At("main", "stopwait") /\ Istransl
  /\ changes < MaxChanges /\ changes' = changes + 1
  /\ \E p \in Subs : todo' = {p}
  /\ Goto("main", "tick")
  /\ UNCHANGED <<request, world, client, synced, onchange, stopped,
                 served, peer>>

\* close(c.channel) by a responder; recoverSubscribe turns a panic into one
\* more fatal value.
TerminatedBy(t) ==
  /\ "terminated" \in Faults
  /\ PutAll(IF StopClosed THEN <<"fatal", "fatal">> ELSE <<"fatal">>)
  /\ ch' = "closed"
  /\ Exit(t) /\ WDone

\* processResponses of a doSample.
processResponses(p) ==
  /\ At(p, "respond")
  /\ \/ /\ Put(p) /\ Exit(p) /\ WDone /\ UNCHANGED ch
     \/ /\ "read" \in Faults
        /\ Put("fatal") /\ Exit(p) /\ WDone /\ UNCHANGED ch
     \/ TerminatedBy(p)
  /\ UNCHANGED <<request, world, mu, disposed, tokens, panic, data, peer>>

\* processResponses of doOnChange: first values and sync release StreamRun;
\* then changes, until translib disposes its queue because the stop channel
\* is closed.  An error ends it, and releases StreamRun too.
OnChangeInitial ==
  /\ At("resp", "initial")
  /\ \/ /\ PutAll(Append(Listed(onchange), "sync"))
        /\ pc' = [pc EXCEPT !["resp"] = "loop", !["main"] = "stopwait"]
        /\ UNCHANGED w
     \/ /\ "read" \in Faults
        /\ Put("fatal")
        /\ pc' = [pc EXCEPT !["resp"] = "gone", !["main"] = "stopwait"]
        /\ WDone
  /\ UNCHANGED <<request, world, mu, disposed, ch, tokens, panic, data, peer>>

OnChangeResponses ==
  /\ At("resp", "loop")
  /\ \/ /\ changes < MaxChanges /\ changes' = changes + 1
        /\ \E p \in onchange : Put(p)
        /\ pc' = pc /\ UNCHANGED <<w, ch>>
     \/ /\ StopClosed
        /\ Exit("resp") /\ WDone /\ UNCHANGED <<q, ch, changes>>
     \/ TerminatedBy("resp") /\ UNCHANGED changes
  /\ UNCHANGED <<request, world, mu, disposed, tokens, panic, synced, todo,
                 onchange, stopped, served, peer>>

---------------------------------------------------------------------------
(* The specification                                                       *)

Closers == {"run", "recv", "dup"}

Client ==
  \/ \E t \in Closers : CloseBegin(t) \/ CloseEnd(t)
  \/ RunRefuses \/ RunStarts \/ send \/ RunWait
  \/ recv \/ recvPoll \/ recvCtxDone

Environment ==
  PeerSends \/ PeerHalfCloses \/ PeerDisconnects \/ DuplicateArrives

DataClient ==
  \/ NoRunner \/ MainStops
  \/ DbStreamStart \/ DbStreamSync
  \/ \E p \in Subs : DbSubInit(p) \/ DbSubChange(p) \/ DbSubStops(p)
  \/ NonDbStreamStart \/ \E p \in Subs : streamSample(p)
  \/ PollServe \/ PollStops
  \/ EventStart \/ EventMain \/ get_events \/ update_stats
  \/ TranslFails \/ TranslStreamStart \/ TranslToken \/ doSample
  \/ SamplesDone \/ SampleTick \/ OnChangeInitial \/ OnChangeResponses
  \/ \E p \in Subs : processResponses(p)

\* Nothing is left to do: the RPC has returned and every goroutine has
\* exited, or the process is gone.
Finished ==
  /\ net = "down"
  /\ panic \/ /\ pc["run"] = "returned"
              /\ \A t \in Threads \ {"run"} : Exited(t)
  /\ UNCHANGED vars

Next == Client \/ Environment \/ DataClient \/ Finished

\* Goroutines that can run eventually do, and a closed stop channel is
\* eventually selected although data keeps arriving.  Nothing is assumed of
\* the peer, of the data or of duplicates.
Fairness ==
  /\ \A t \in Closers : WF_vars((CloseBegin(t) \/ CloseEnd(t)))
  /\ WF_vars((RunRefuses \/ RunStarts)) /\ WF_vars(send)
  /\ WF_vars(RunWait)
  /\ WF_vars((recv \/ recvPoll \/ recvCtxDone))
  /\ WF_vars((NoRunner \/ MainStops \/ DbStreamStart \/ DbStreamSync
                       \/ NonDbStreamStart \/ PollServe \/ PollStops))
  /\ WF_vars((EventStart \/ EventMain)) /\ WF_vars(get_events)
  /\ WF_vars(update_stats)
  /\ WF_vars((TranslFails \/ TranslStreamStart \/ TranslToken
                       \/ doSample \/ SamplesDone))
  /\ WF_vars((OnChangeInitial \/ OnChangeResponses))
  /\ \A p \in Subs : WF_vars((DbSubInit(p) \/ DbSubStops(p)
                                        \/ streamSample(p) \/ processResponses(p)))

Spec == Init /\ [][Next]_vars
FairSpec == Spec /\ Fairness

---------------------------------------------------------------------------
(* Properties                                                              *)

\* Type correctness; in particular the wait groups never go negative, which
\* would panic.
TypeOK ==
  /\ mode \in Modes /\ kind \in Kinds /\ appdb \in BOOLEAN
  /\ net \in {"open", "eof", "down"} /\ msgs \in 0..MaxMsgs
  /\ inbox \in Seq({"poll", "other"})
  /\ DOMAIN pc = Threads
  /\ mu \in Closers \cup {"none"}
  /\ q \in Seq(Subs \cup {"sync", "fatal"})
  /\ disposed \in BOOLEAN /\ panic \in BOOLEAN /\ stopped \in BOOLEAN
  /\ ch \in {"nil", "open", "closed"} /\ tokens \in 0..1
  /\ w \in Nat /\ synced \in Nat
  /\ todo \subseteq Subs /\ onchange \subseteq Subs
  /\ changes \in 0..MaxChanges /\ served \in Nat
  /\ fresh \subseteq Subs /\ nsync \in Nat

\* No goroutine closes a closed channel or sends on one: Run, recv and a
\* duplicate RPC may all call Close at the same time.
NoPanic == ~panic

\* Goroutines that are in Client.w before they start.  Those of the event
\* client are added after they have started and may be missed.
Counted(t) == kind # "events" /\ (t \in {"main", "resp"} \/ (t \in Subs /\ kind # "nondb"))

\* "Wait until all child go routines exited": when Run has returned, every
\* goroutine it waits for has exited, whichever way the session ended and
\* although some of them are started while Run is already waiting.
RunWaitsForChildren ==
  pc["run"] = "returned" => \A t \in Threads : Counted(t) => Exited(t)

\* A sync_response reaches the peer only after every subscribed path has,
\* since the previous one; a failed path ends the session before that.
SyncCompletesPaths ==
  [][nsync' # nsync /\ kind # "events" /\ ~appdb => fresh = Subs]_vars

\* Run has returned, or the process is gone.
Ended == pc["run"] = "returned" \/ panic

\* "Once the client is started, it will run until the stream is closed":
\* Run returns once the connection is gone.
DisconnectEndsRun == (net = "down") ~> Ended

\* Disposing the queue (end of stream, fatal error or duplicate) ends Run.
CloseEndsRun == disposed ~> Ended

\* A fatal value ends the RPC, whatever the peer does.
FatalIn(s) == \E i \in 1..Len(s) : s[i] = "fatal"
FatalEndsRun == FatalIn(q) ~> Ended

\* Every poll PollRun takes is answered with a sync_response, unless the
\* session is closed or PollRun ends, on a read error, first.
PollsAnswered ==
  \A n \in 1..(MaxMsgs + 1) :
    (served = n) ~> (nsync >= n \/ disposed \/ panic \/ Exited("main"))
=============================================================================
