------------------------------ MODULE DpuProxy ------------------------------
(***************************************************************************)
(* The DPU proxy interceptor (pkg/interceptors): requests that carry the   *)
(* DPU headers, the resolver's reads of STATE_DB and CONFIG_DB, the cache  *)
(* of connections and its lock, and the forwarding of a stream by a        *)
(* goroutine.  Requests run concurrently, one DPU is addressed.            *)
(***************************************************************************)
EXTENDS Naturals, Sequences, FiniteSets

CONSTANTS Reqs,       \* requests
          MaxMoves,   \* changes of the DPU's state
          Ips,        \* addresses the DPU may have
          PortsAtFirst, \* how the DPU's two ports behave
          MaxBody     \* the size limit of a download, in chunks

Ports == <<"configured", "common">>
Modes == [time |-> "forward", put |-> "forward", setpackage |-> "forward", transfer |-> "local",
          reboot |-> "local", other |-> "none"]

VARIABLES dpu,      \* the DPU: address, whether STATE_DB says it can be
                    \* reached, and what each port does with a connection
          conn,     \* the cached connection [ip, port], or "none"
          opened,   \* connections made and not closed
          lock,     \* connMu's writer, or "free"
          req,      \* the requests
          moves

dpVars == <<dpu, conn, opened, lock, req, moves>>

NoConn == [ip |-> "none", port |-> 0]
Idle == [pc |-> "idle", method |-> "time", info |-> NoConn, try |-> 1, at |-> NoConn, sent |-> 0, hashed |-> 0]

\* A port answers, refuses the connection, or drops what is sent to it.
PortStates == {"answers", "refuses", "drops"}

DpInit ==
  /\ dpu \in [ip : {CHOOSE i \in Ips : TRUE}, access : {TRUE}, port : PortsAtFirst]
  /\ conn = NoConn /\ opened = {} /\ lock = "free"
  /\ req = [r \in Reqs |-> Idle] /\ moves = 0

Move ==
  /\ moves < MaxMoves /\ moves' = moves + 1
  /\ \/ \E i \in Ips, a \in BOOLEAN : dpu' = [dpu EXCEPT !.ip = i, !.access = a]
     \/ \E p \in 1..2, s \in PortStates : dpu' = [dpu EXCEPT !.port[p] = s]
  /\ UNCHANGED <<conn, opened, lock, req>>

Set(r, f) == req' = [req EXCEPT ![r] = f]
To(r, pc) == Set(r, [req[r] EXCEPT !.pc = pc])
At(r, pc) == req[r].pc = pc

\* What the mode of the method makes of a request; the local handler of
\* TransferToRemote asks for the DPU's connection itself, that of Reboot does not.
Route(r, m) ==
  Set(r, [req[r] EXCEPT !.method = m,
            !.pc = CASE Modes[m] = "none" -> "rejected"
                     [] Modes[m] = "forward" -> "resolve"
                     [] OTHER -> IF m = "transfer" THEN "http" ELSE "handled"])

\* ExtractTargetMetadata: the headers of a request.
Headers == [type : {"", "dpu", "npu"}, index : {"", "0"}]
IsDPUTarget(h) == h.type = "dpu"

UnaryInterceptor(r) ==
  /\ At(r, "idle")
  /\ \E h \in Headers, m \in {"time", "transfer", "reboot", "other"} :
       IF IsDPUTarget(h) THEN Route(r, m) ELSE To(r, "handled")
  /\ UNCHANGED <<dpu, conn, opened, lock, moves>>

StreamInterceptor(r) ==
  /\ At(r, "idle")
  /\ \E h \in Headers, m \in {"put", "setpackage", "other"} :
       IF IsDPUTarget(h) THEN Route(r, m) ELSE To(r, "handled")
  /\ UNCHANGED <<dpu, conn, opened, lock, moves>>

\* The request is checked and the download begins before the DPU is looked up.
DownloadHTTPStreaming(r) ==
  /\ At(r, "http") /\ \E pc \in {"resolve", "error"} : To(r, pc)
  /\ UNCHANGED <<dpu, conn, opened, lock, moves>>

\* GetDPUInfo: one read of each database.
GetDPUInfo(r) ==
  /\ At(r, "resolve")
  /\ \/ To(r, "error")
     \/ Set(r, IF dpu.access THEN [req[r] EXCEPT !.pc = "cached", !.info = [ip |-> dpu.ip, port |-> 0]]
               ELSE [req[r] EXCEPT !.pc = "error"])
  /\ UNCHANGED <<dpu, conn, opened, lock, moves>>

\* getConnection: the look under the reader's lock.
LookUp(r) ==
  /\ At(r, "cached") /\ lock = "free"
  /\ IF conn # NoConn THEN Set(r, [req[r] EXCEPT !.pc = "forward", !.at = conn]) ELSE To(r, "lock")
  /\ UNCHANGED <<dpu, conn, opened, lock, moves>>

\* The writer's lock, and the second look.
Lock(r) ==
  /\ At(r, "lock") /\ lock = "free"
  /\ IF conn # NoConn
     THEN Set(r, [req[r] EXCEPT !.pc = "forward", !.at = conn]) /\ lock' = lock
     ELSE Set(r, [req[r] EXCEPT !.pc = "dial", !.try = 1]) /\ lock' = r
  /\ UNCHANGED <<dpu, conn, opened, moves>>

\* What the address and port do with the test call; an address the DPU has
\* left drops everything.
Reaction(r) == IF req[r].info.ip = dpu.ip THEN dpu.port[req[r].try] ELSE "drops"

\* The code a failed test call carries: no connection is Unavailable, no answer
\* within two seconds is DeadlineExceeded.
TestPasses(reaction) == reaction # "refuses"

\* One port: a client, and the Time call that tests it.
TryPort(r) ==
  /\ At(r, "dial") /\ lock = r
  /\ LET c == [req[r].info EXCEPT !.port = req[r].try]
     IN IF TestPasses(Reaction(r))
        THEN /\ conn' = c /\ opened' = opened \cup {<<r, c>>} /\ lock' = "free"
             /\ Set(r, [req[r] EXCEPT !.pc = "forward", !.at = c])
        ELSE /\ UNCHANGED <<conn, opened>>
             /\ IF req[r].try < Len(Ports)
                THEN Set(r, [req[r] EXCEPT !.try = @ + 1]) /\ lock' = lock
                ELSE To(r, "error") /\ lock' = "free"
  /\ UNCHANGED <<dpu, moves>>

\* The call, or the opening of the stream, on the connection.
Forward(r) ==
  /\ At(r, "forward")
  /\ LET works == req[r].at.ip = dpu.ip /\ dpu.port[req[r].at.port] = "answers"
     IN To(r, IF ~works THEN "error" ELSE IF req[r].method = "time" THEN "done"
                 ELSE IF req[r].method = "transfer" THEN "stream" ELSE "relay")
  /\ UNCHANGED <<dpu, conn, opened, lock, moves>>

\* The goroutine passes on what the client sends; its end, or an error of either
\* side, ends the call with the DPU's answer or an error.
Relay(r) ==
  \/ req[r].sent < 1 /\ Set(r, [req[r] EXCEPT !.sent = @ + 1])
  \/ \E pc \in {"done", "error"} : To(r, pc)

forwardFilePutStream(r) ==
  /\ At(r, "relay") /\ req[r].method = "put" /\ Relay(r)
  /\ UNCHANGED <<dpu, conn, opened, lock, moves>>

forwardSetPackageStream(r) ==
  /\ At(r, "relay") /\ req[r].method = "setpackage" /\ Relay(r)
  /\ UNCHANGED <<dpu, conn, opened, lock, moves>>

\* limitedReadCloser.Read: the chunk that exceeds the limit comes with an error.
LimitedRead(r) == req[r].hashed + 1 > MaxBody

\* A chunk of the download is hashed as it is read, then sent to the DPU; it is
\* sent also when an error came with it.
StreamChunk(r) ==
  /\ At(r, "stream")
  /\ \/ Set(r, [req[r] EXCEPT !.hashed = @ + 1, !.sent = @ + 1,
                 !.pc = IF LimitedRead(r) THEN "error" ELSE @]) /\ req[r].hashed <= MaxBody
     \/ Set(r, [req[r] EXCEPT !.hashed = @ + 1, !.pc = "error"])
     \/ To(r, "error")
  /\ UNCHANGED <<dpu, conn, opened, lock, moves>>

\* The end of the download: the hash is sent, and answered with.
StreamEnds(r) ==
  /\ At(r, "stream") /\ \E pc \in {"done", "error"} : To(r, pc)
  /\ UNCHANGED <<dpu, conn, opened, lock, moves>>

Handle(r) ==
  \/ UnaryInterceptor(r) \/ StreamInterceptor(r) \/ DownloadHTTPStreaming(r) \/ GetDPUInfo(r)
  \/ LookUp(r) \/ Lock(r) \/ TryPort(r) \/ Forward(r)
  \/ forwardFilePutStream(r) \/ forwardSetPackageStream(r) \/ StreamChunk(r) \/ StreamEnds(r)
DpNext == Move \/ \E r \in Reqs : Handle(r)
DpSpec == DpInit /\ [][DpNext]_dpVars /\ \A r \in Reqs : WF_dpVars(Handle(r))

---------------------------------------------------------------------------
Ended == {"done", "error", "rejected", "handled"}

\* connMu is held exactly by the request that dials.
DpTypeOK == /\ lock \in Reqs \cup {"free"}
            /\ \A r \in Reqs : lock = r <=> At(r, "dial")

\* However many requests race for it, one connection is made for the DPU and
\* kept for good.
OneConnection == Cardinality(opened) <= 1 /\ (opened # {} => conn # NoConn)

\* A request is passed on at the address and port of the cached connection.
ForwardsCached ==
  \A r \in Reqs : req[r].pc \in {"forward", "relay", "stream", "done"} => req[r].at = conn

\* A transfer that succeeds gave the DPU the chunks its hash is of, within the
\* limit, though a chunk is hashed before it is sent and sent before the error
\* that came with it is looked at.
TransferExact ==
  \A r \in Reqs : req[r].method = "transfer" /\ req[r].pc = "done" =>
    req[r].sent = req[r].hashed /\ req[r].sent <= MaxBody

\* Every request ends, also behind one that tries port after port.
RequestOver(r) == req[r].pc \in Ended
RequestsEnd == \A r \in Reqs : []<>RequestOver(r)
=============================================================================
