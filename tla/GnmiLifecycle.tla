--------------------------- MODULE GnmiLifecycle ----------------------------
(***************************************************************************)
(* The telemetry process (telemetry/telemetry.go) with TLS: the loop of    *)
(* startGNMIServer, the goroutine that watches the certificate directory   *)
(* (a new one for every turn of the loop), the signal handler, and the     *)
(* channels between them.  A certificate and its key are numbers, and a    *)
(* pair when they are equal; 0 is a missing file.                          *)
(***************************************************************************)
EXTENDS Naturals, Sequences, FiniteSets

CONSTANTS MaxTurns,   \* turns of the server loop
          MaxOps,     \* file operations of the operator
          Listeners,  \* "tcp" with a port, "uds" with a socket
          Faults      \* "watch": watcher errors, "new": NewServer fails,
                      \* "serve": a listener is lost

VARIABLES fs,      \* the files: cert, key, ca
          ops,     \* file operations so far
          w,       \* the watchers, one per turn
          ctl,     \* serverControlSignal, a channel of one
          main,    \* startGNMIServer: pc, turn, what it has loaded
          sh,      \* signalHandler: "wait", "send", "done"
          stopsh,  \* stopSignalHandler, a channel of one
          sig,     \* a signal has been delivered to the process
          rpc,     \* an RPC is being served
          missed   \* a change of a file already read went unwatched

vars == <<fs, ops, w, ctl, main, sh, stopsh, sig, rpc, missed>>

Signals == {"start", "restart", "stop"}
Turns == 1..MaxTurns
Gone == [st |-> "gone", q |-> <<>>, loaded |-> FALSE]
ValidPair == fs.cert = fs.key /\ fs.cert # 0
Watching(i) == w[i].st \notin {"new", "gone"}

Init ==
  /\ fs \in [cert : {0, 1}, key : {1}, ca : BOOLEAN]
  /\ ops = 0 /\ ctl = <<>> /\ stopsh = FALSE /\ sig = FALSE /\ rpc = FALSE
  /\ w = [i \in Turns |-> Gone]
  /\ main = [pc |-> "top", turn |-> 0, cert |-> 0, chain |-> FALSE, lis |-> {}, why |-> "none"]
  /\ sh = "wait" /\ missed = FALSE

Goto(l) == main' = [main EXCEPT !.pc = l]
ServerOf == <<ctl, main>>
Env == <<fs, ops, missed>>

---------------------------------------------------------------------------
(* The operator's changes to the files.  Every watcher that has been added *)
(* to the directory gets the event.                                        *)

Notify(e) == [i \in Turns |-> IF Watching(i) THEN [w[i] EXCEPT !.q = Append(@, e)] ELSE w[i]]

\* The loop has read the file f in this turn.
HasRead(f) ==
  CASE f = "cert" -> main.pc \notin {"top", "loadcert"}
    [] f = "key" -> main.pc \notin {"top", "loadcert", "loadkey"}
    [] OTHER -> main.pc \notin {"top", "loadcert", "loadkey", "loadca"}

Change(f, v, e) ==
  /\ ops < MaxOps /\ ops' = ops + 1
  /\ fs' = [fs EXCEPT ![f] = v]
  /\ w' = Notify(e)
  /\ missed' = (missed \/ (main.turn # 0 /\ w[main.turn].st = "new" /\ HasRead(f)))
  /\ UNCHANGED <<ctl, main, sh, stopsh, sig, rpc>>

Write(f) == \E v \in 1..2 : f # "ca" /\ v >= fs[f] /\ Change(f, v, "write")
RemoveFile(f) == f # "ca" /\ fs[f] # 0 /\ Change(f, 0, "remove")
WriteCA == ~fs.ca /\ Change("ca", TRUE, "write")

---------------------------------------------------------------------------
(* iNotifyCertMonitoring. *)

SetW(i, s) == w' = [w EXCEPT ![i].st = s]
Send(v) == Len(ctl) = 0 /\ ctl' = <<v>>

\* watcher.Add, after which the events of the directory arrive.
AddWatch(i) ==
  /\ w[i].st = "new"
  /\ \/ SetW(i, "watch")
     \/ "watch" \in Faults /\ SetW(i, "stop")
  /\ UNCHANGED <<Env, ctl, main, sh, stopsh, sig, rpc>>

MutWatchEvent(i) ==
  /\ w[i].st = "watch" /\ w[i].q # <<>>
  /\ w' = [w EXCEPT ![i].q = Tail(@),
                    ![i].st = IF Head(w[i].q) = "remove" THEN "restart" ELSE "watch"]
  /\ UNCHANGED <<Env, ctl, main, sh, stopsh, sig, rpc>>

\* An event: a written file is followed up once the pair on disk is valid.
WatchEvent(i) ==
  /\ w[i].st = "watch" /\ w[i].q # <<>>
  /\ w' = [w EXCEPT ![i].q = Tail(@),
                    ![i].st = CASE Head(w[i].q) = "remove" -> "restart"
                                [] Head(w[i].q) = "write" /\ ValidPair -> "start"
                                [] OTHER -> "watch"]
  /\ UNCHANGED <<Env, ctl, main, sh, stopsh, sig, rpc>>

WatchError(i) ==
  /\ w[i].st = "watch" /\ "watch" \in Faults /\ SetW(i, "stop")
  /\ UNCHANGED <<Env, ctl, main, sh, stopsh, sig, rpc>>

\* The blocking send; after a restart the watcher looks at certLoaded.
WatchSend(i) ==
  /\ w[i].st \in Signals /\ Send(w[i].st)
  /\ w' = [w EXCEPT ![i] = IF w[i].st = "restart" THEN [@ EXCEPT !.st = "sent"] ELSE Gone]
  /\ UNCHANGED <<Env, main, sh, stopsh, sig, rpc>>
WatchSent(i) ==
  /\ w[i].st = "sent"
  /\ w' = [w EXCEPT ![i] = IF @.loaded THEN Gone ELSE [@ EXCEPT !.st = "watch"]]
  /\ UNCHANGED <<Env, ctl, main, sh, stopsh, sig, rpc>>

---------------------------------------------------------------------------
(* signalHandler. *)

OsSignal == ~sig /\ sig' = TRUE /\ UNCHANGED <<Env, w, ServerOf, sh, stopsh, rpc>>

HandleSignal ==
  /\ \/ sh = "wait" /\ sig /\ sh' = "send" /\ UNCHANGED <<ctl, stopsh>>
     \/ sh = "send" /\ Send("stop") /\ sh' = "done" /\ UNCHANGED stopsh
     \/ sh = "wait" /\ stopsh /\ stopsh' = FALSE /\ sh' = "done" /\ UNCHANGED ctl
  /\ UNCHANGED <<Env, w, main, sig, rpc>>

---------------------------------------------------------------------------
(* startGNMIServer. *)

\* Close the previous chain, and start a watcher for this turn.
Top ==
  /\ main.pc = "top" /\ main.turn < MaxTurns
  /\ main' = [main EXCEPT !.pc = "loadcert", !.turn = @ + 1, !.chain = FALSE]
  /\ w' = [w EXCEPT ![main.turn + 1] = [Gone EXCEPT !.st = "new"]]
  /\ UNCHANGED <<Env, ctl, sh, stopsh, sig, rpc>>

\* LoadX509KeyPair reads two files; then the CA; then certLoaded is set.
Load ==
  /\ \/ main.pc = "loadcert" /\ main' = [main EXCEPT !.pc = "loadkey", !.cert = fs.cert]
     \/ /\ main.pc = "loadkey"
        /\ Goto(IF main.cert # 0 /\ fs.key = main.cert THEN "loadca" ELSE "wait")
     \/ main.pc = "loadca" /\ Goto(IF fs.ca THEN "flag" ELSE "wait")
  /\ UNCHANGED <<Env, w, ctl, sh, stopsh, sig, rpc>>

CertLoaded ==
  /\ main.pc = "flag" /\ Goto("new")
  /\ w' = [w EXCEPT ![main.turn].loaded = w[main.turn].st # "gone"]
  /\ UNCHANGED <<Env, ctl, sh, stopsh, sig, rpc>>

Exit(why) == main' = [main EXCEPT !.pc = "exit", !.chain = FALSE, !.why = why]

\* Without the certificates: wait for a start or a stop.
WaitCert ==
  /\ main.pc = "wait" /\ ctl # <<>> /\ ctl' = <<>>
  /\ CASE Head(ctl) = "stop" -> Exit("waiting")
       [] Head(ctl) = "start" -> Goto("top")
       [] OTHER -> Goto("wait")
  /\ UNCHANGED <<Env, w, sh, stopsh, sig, rpc>>

\* What NewServer returns: no server when the policy cannot be watched, or a
\* port or a socket cannot be had; a socket whose mode cannot be set is given up,
\* and a server without a listener is none.
NewServer ==
  LET tcp == Listeners \cap {"tcp"}
  IN {[ok |-> TRUE, lis |-> Listeners]}
     \cup (IF "new" \in Faults THEN {[ok |-> FALSE, lis |-> {}], [ok |-> tcp # {}, lis |-> tcp]} ELSE {})

\* NewServerChain, NewServer and the goroutine that serves.
StartServer ==
  /\ main.pc = "new"
  /\ \E s \in NewServer :
       main' = IF s.ok THEN [main EXCEPT !.pc = "serve", !.chain = TRUE, !.lis = s.lis]
               ELSE [main EXCEPT !.pc = "exit", !.lis = s.lis, !.why = "new"]
  /\ UNCHANGED <<Env, w, ctl, sh, stopsh, sig, rpc>>

\* One of the two goroutines of Serve ends with an error: it is logged, and the
\* loop goes on waiting.
Serve ==
  /\ main.pc = "serve" /\ "serve" \in Faults
  /\ \E l \in main.lis : main' = [main EXCEPT !.lis = @ \ {l}]
  /\ UNCHANGED <<Env, w, ctl, sh, stopsh, sig, rpc>>

ForceStop == main' = [main EXCEPT !.pc = "exit", !.chain = FALSE, !.lis = {}, !.why = "stopped"]

\* ForceStop and the end, or a graceful stop and another turn.
Serving ==
  /\ main.pc = "serve" /\ ctl # <<>> /\ ctl' = <<>>
  /\ IF Head(ctl) = "stop"
     THEN ForceStop /\ stopsh' = TRUE /\ rpc' = FALSE
     ELSE Goto("stopping") /\ UNCHANGED <<stopsh, rpc>>
  /\ UNCHANGED <<Env, w, sh, sig>>

\* GracefulStop returns when the last RPC has ended.
Stopped ==
  /\ main.pc = "stopping" /\ ~rpc /\ main' = [main EXCEPT !.pc = "top", !.lis = {}]
  /\ UNCHANGED <<Env, w, ctl, sh, stopsh, sig, rpc>>

RpcBegins == main.pc = "serve" /\ ~rpc /\ rpc' = TRUE /\ UNCHANGED <<Env, w, ServerOf, sh, stopsh, sig>>
RpcEnds == rpc /\ rpc' = FALSE /\ UNCHANGED <<Env, w, ServerOf, sh, stopsh, sig>>

Main == Top \/ Load \/ CertLoaded \/ WaitCert \/ StartServer \/ Serving \/ Stopped
Watcher(i) == AddWatch(i) \/ WatchEvent(i) \/ WatchSend(i) \/ WatchSent(i)
Operator == \/ \E f \in {"cert", "key"} : Write(f) \/ RemoveFile(f)
            \/ WriteCA
Next ==
  \/ Main \/ Serve \/ HandleSignal \/ OsSignal \/ RpcBegins \/ RpcEnds \/ Operator
  \/ \E i \in Turns : Watcher(i) \/ WatchError(i)

\* Goroutines run; nothing makes the operator, a signal or the end of an RPC
\* happen.
Fairness ==
  /\ WF_vars(Main) /\ WF_vars(HandleSignal)
  /\ \A i \in Turns : WF_vars(Watcher(i))

Spec == Init /\ [][Next]_vars /\ Fairness

---------------------------------------------------------------------------
Done == main.pc = "exit" /\ sh = "done"
Bounded == main.turn < MaxTurns

\* The files, the control channel, the loop and the watchers keep their types.
TypeOK ==
  /\ fs \in [cert : 0..2, key : 0..2, ca : BOOLEAN]
  /\ Len(ctl) <= 1 /\ \A i \in DOMAIN ctl : ctl[i] \in Signals
  /\ \A i \in Turns : w[i].st \in {"new", "watch", "sent", "gone"} \cup Signals
  /\ main.turn \in 0..MaxTurns /\ sh \in {"wait", "send", "done"}

\* Between two servers, and when the loop has ended, whichever way it got there,
\* the interceptor chain is closed and no listener is left open: the next
\* server could not have the port.
NothingLeftOpen ==
  /\ main.pc \in {"loadcert", "loadkey", "loadca", "wait", "exit"} => ~main.chain
  /\ main.pc \notin {"serve", "stopping"} => main.lis = {}

\* Once the files stop changing, a valid pair with its CA is the one served,
\* unless a change fell between a read and the start of the watch.
CurrentServed ==
  ValidPair /\ fs.ca /\ ~missed /\ ~rpc /\ main.pc # "exit" /\ Bounded
    => main.pc = "serve" /\ main.cert = fs.cert
ServesCurrent == <>[]CurrentServed

\* The loop has ended and there is still a value in its channel: the signal
\* handler's send blocks for good.
Blocked == main.pc = "exit" /\ ctl # <<>> /\ sh = "send"

\* A signal ends the process, while the RPCs that a graceful stop waits for
\* end and no watcher fills the channel of a loop that has ended.
SignalObeyed == sig /\ ~rpc /\ Bounded => Done \/ Blocked
SignalEnds == []<>SignalObeyed

\* The process ends when the server loop has been stopped while serving.
StopObeyed == main.pc = "exit" /\ main.why = "stopped" => Done \/ Blocked
StopEnds == []<>StopObeyed
=============================================================================
