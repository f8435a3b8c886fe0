----------------------------- MODULE GnoiClient -----------------------------
(***************************************************************************)
(* The gnoi_client tool against the server it is shipped with: one call of *)
(* OS Install, File Put, File Get, Healthz Artifact, Containerz Deploy or  *)
(* System SetPackage over one gRPC stream.  A direction of the stream      *)
(* holds at most Window messages that the other side has not read; Send    *)
(* waits for room (flow control, external).                                *)
(*                                                                         *)
(* Chunks are counted: the stream keeps their order.  A hash is the pair   *)
(* of its method and of the number of chunks it was computed over.         *)
(***************************************************************************)
EXTENDS Naturals, Sequences

CONSTANTS Tools,      \* subset of {"install", "put", "get", "artifact", "deploy", "setpackage"}
          MaxChunk,   \* chunks of the file that is sent
          Window,
          ToolFaults  \* subset of {"args", "read", "host"}

VARIABLES tool,    \* the client: kind, n (chunks of its file), pc, sent, got, result
          up, down,\* the two directions of the stream
          stat,    \* what the handler returned: "open", "ok", "error"
          hd,      \* the handler: pc, got (chunks written), answer (to be sent)
          device   \* what the call left: image installed, file put

gcVars == <<tool, up, down, stat, hd, device>>

ToolOver == tool.pc = "over"
Exit(res) == tool' = [tool EXCEPT !.pc = "over", !.result = res]
Msg(t) == [t |-> t, h |-> <<"none", 0>>]
Hash(t, h) == [t |-> t, h |-> h]

--------------------------------------------------------------------------
(* gnoi_client *)

GcInit ==
  /\ tool \in [kind : Tools, n : 0..MaxChunk, pc : {"start"}, sent : {0}, got : {0}, result : {"none"}]
  /\ tool.kind \notin {"install", "put", "artifact"} => tool.n = 0
  /\ up = <<>> /\ down = <<>> /\ stat = "open"
  /\ hd = [pc |-> "new", got |-> 0, answer |-> "none"]
  /\ device = [image |-> <<>>, file |-> <<>>, temp |-> FALSE]

\* Sends while the RPC is open and there is room.  Of a stream that has ended
\* Send reports the end, or takes the message before it has noticed.
Send(m, next) ==
  \/ stat = "open" /\ Len(up) < Window /\ up' = Append(up, m) /\ tool' = next
  \/ stat # "open" /\ UNCHANGED up /\ (tool' = next \/ Exit("failed"))

To(pc) == [tool EXCEPT !.pc = pc]

\* Install: the arguments, the stream, the TransferRequest.
Install ==
  /\ tool.kind = "install" /\ tool.pc = "start"
  /\ \/ Send(Msg("request"), To("wait"))
     \/ "args" \in ToolFaults /\ Exit("failed") /\ UNCHANGED up
  /\ UNCHANGED <<down, stat, hd, device>>

\* The loop on the first responses; the file is opened once the target is ready.
InstallWait ==
  /\ tool.kind = "install" /\ tool.pc = "wait"
  /\ \/ /\ down # <<>> /\ down' = Tail(down)
        /\ CASE down[1].t = "validated" -> Exit("already")
             [] down[1].t = "error" -> Exit("failed")
             [] down[1].t = "ready" -> tool' = To("send") \/ ("read" \in ToolFaults /\ Exit("failed"))
     \/ down = <<>> /\ stat # "open" /\ Exit("failed") /\ UNCHANGED down
  /\ UNCHANGED <<up, stat, hd, device>>

\* One chunk of the file; no response is read before the last one is sent.
SendContent ==
  /\ tool.kind \in {"install", "put"} /\ tool.pc = "send" /\ tool.sent < tool.n
  /\ \/ Send(Msg("content"), [tool EXCEPT !.sent = @ + 1])
     \/ "read" \in ToolFaults /\ Exit("failed") /\ UNCHANGED up
  /\ UNCHANGED <<down, stat, hd, device>>

SendTransferEnd ==
  /\ tool.kind = "install" /\ tool.pc = "send" /\ tool.sent = tool.n
  /\ Send(Msg("end"), To("final"))
  /\ UNCHANGED <<down, stat, hd, device>>

\* The loop on the responses: the progress of every chunk, then the result.
InstallFinal ==
  /\ tool.kind = "install" /\ tool.pc = "final"
  /\ \/ /\ down # <<>> /\ down' = Tail(down)
        /\ CASE down[1].t = "validated" -> Exit("ok")
             [] down[1].t = "error" -> Exit("failed")
             [] OTHER -> UNCHANGED tool
     \/ down = <<>> /\ stat # "open" /\ Exit(IF stat = "ok" THEN "ended" ELSE "failed") /\ UNCHANGED down
  /\ UNCHANGED <<up, stat, hd, device>>

\* Put: the arguments, the file, the Open message.
Put ==
  /\ tool.kind = "put" /\ tool.pc = "start"
  /\ \/ Send(Msg("open"), To("send"))
     \/ ToolFaults \cap {"args", "read"} # {} /\ Exit("failed") /\ UNCHANGED up
  /\ UNCHANGED <<down, stat, hd, device>>

\* The hasher that saw the chunks is replaced by a new one before Sum.
PutHash == <<"sha256", 0>>

SendHash ==
  /\ tool.kind = "put" /\ tool.pc = "send" /\ tool.sent = tool.n
  /\ Send(Hash("hash", PutHash), To("close"))
  /\ UNCHANGED <<down, stat, hd, device>>

\* Deploy: the arguments, one request and the end of the requests.
Deploy ==
  /\ tool.kind = "deploy" /\ tool.pc = "start"
  /\ \/ Send(Msg("request"), To("recv"))
     \/ "args" \in ToolFaults /\ Exit("failed") /\ UNCHANGED up
  /\ UNCHANGED <<down, stat, hd, device>>

\* SetPackage: the flags, which must name a URL, and one request with it.
setPackageClient ==
  /\ tool.kind = "setpackage" /\ tool.pc = "start"
  /\ \/ Send(Msg("remote download"), To("close"))
     \/ "args" \in ToolFaults /\ Exit("failed") /\ UNCHANGED up
  /\ UNCHANGED <<down, stat, hd, device>>

\* The RPCs with a single request, which is sent with the call.
OpenStream ==
  /\ tool.kind \in {"artifact", "get"} /\ tool.pc = "start"
  /\ \/ up' = <<Msg("request")>> /\ tool' = To("recv")
     \/ "args" \in ToolFaults /\ Exit("failed") /\ UNCHANGED up
  /\ UNCHANGED <<down, stat, hd, device>>

\* CloseAndRecv of Put and SetPackage: the response and the status.
CloseAndRecv ==
  /\ tool.kind \in {"put", "setpackage"} /\ tool.pc = "close" /\ stat # "open"
  /\ Exit(IF stat = "ok" THEN "ok" ELSE "failed")
  /\ UNCHANGED <<up, down, stat, hd, device>>

\* Artifact: header, contents and trailer until the end of the stream.
ArtifactRecv ==
  /\ tool.kind = "artifact" /\ tool.pc = "recv"
  /\ \/ /\ down # <<>> /\ down' = Tail(down)
        /\ tool' = [tool EXCEPT !.got = @ + (IF down[1].t = "content" THEN 1 ELSE 0)]
     \/ down = <<>> /\ stat # "open" /\ Exit(IF stat = "ok" THEN "ok" ELSE "failed") /\ UNCHANGED down
  /\ UNCHANGED <<up, stat, hd, device>>

\* Get: the file is created, then the contents are written to it.
GetRecv ==
  /\ tool.kind = "get" /\ tool.pc = "recv"
  /\ \/ "read" \in ToolFaults /\ Exit("failed")
     \/ stat # "open" /\ Exit(IF stat = "ok" THEN "ok" ELSE "failed")
  /\ UNCHANGED <<up, down, stat, hd, device>>

\* Deploy: ImageTransferSuccess ends the loop, and so does any error.
DeployRecv ==
  /\ tool.kind = "deploy" /\ tool.pc = "recv"
  /\ \/ down # <<>> /\ down' = Tail(down) /\ Exit("ok")
     \/ down = <<>> /\ stat # "open" /\ Exit("ended") /\ UNCHANGED down
  /\ UNCHANGED <<up, stat, hd, device>>

Tool == Install \/ InstallWait \/ SendContent \/ SendTransferEnd \/ InstallFinal \/ Put \/ SendHash
        \/ Deploy \/ setPackageClient \/ OpenStream \/ CloseAndRecv \/ ArtifactRecv \/ GetRecv \/ DeployRecv

--------------------------------------------------------------------------
(* The handlers *)

Return(res) == stat' = res /\ hd' = [hd EXCEPT !.pc = "over"]
Host == "host" \in ToolFaults

\* A response that has been made is sent when there is room; to a client that
\* is gone it fails.  What follows it depends on the response.
HandlerSends ==
  /\ hd.answer # "none"
  /\ \/ /\ Len(down) < Window /\ ~ToolOver
        /\ down' = Append(down, Msg(hd.answer))
        /\ CASE hd.answer = "error" -> stat' = "error" /\ hd' = [hd EXCEPT !.pc = "over", !.answer = "none"]
             [] hd.answer \in {"validated", "success"} /\ hd.pc = "end" -> stat' = "ok" /\ hd' = [hd EXCEPT !.pc = "over", !.answer = "none"]
             [] OTHER -> hd' = [hd EXCEPT !.answer = "none"] /\ UNCHANGED stat
     \/ /\ ToolOver /\ UNCHANGED down
        /\ stat' = "error" /\ hd' = [hd EXCEPT !.pc = "over", !.answer = "none"]
  /\ UNCHANGED <<tool, up, device>>

\* A client that is gone ends a handler that waits for a request.
HandlerCancelled ==
  /\ ToolOver /\ up = <<>> /\ hd.answer = "none" /\ hd.pc \notin {"new", "over"}
  /\ Return("error")
  /\ device' = [device EXCEPT !.temp = FALSE]
  /\ UNCHANGED <<tool, up, down>>

Takes(kind) == tool.kind = kind /\ hd.answer = "none" /\ hd.pc # "over" /\ up # <<>> /\ up' = Tail(up)

\* OS Install: the TransferRequest; the host is ready, has the version, or
\* refuses.
InstallRequest ==
  /\ Takes("install") /\ hd.pc = "new"
  /\ \E a \in {"ready", "validated"} \cup (IF Host THEN {"error"} ELSE {}) :
       hd' = [hd EXCEPT !.pc = "content", !.answer = a]
  /\ UNCHANGED <<tool, down, stat, device>>

\* A chunk is appended and answered with the progress, or with an error.
InstallContent ==
  /\ Takes("install") /\ hd.pc = "content" /\ up[1].t = "content"
  /\ \/ hd' = [hd EXCEPT !.got = @ + 1, !.answer = "progress"]
     \/ Host /\ hd' = [hd EXCEPT !.answer = "error"]
  /\ UNCHANGED <<tool, down, stat, device>>

\* TransferEnd: the host installs what was received.
InstallEnd ==
  /\ Takes("install") /\ hd.pc = "content" /\ up[1].t = "end"
  /\ \/ hd' = [hd EXCEPT !.pc = "end", !.answer = "validated"] /\ device' = [device EXCEPT !.image = <<hd.got>>]
     \/ Host /\ hd' = [hd EXCEPT !.pc = "end", !.answer = "error"] /\ UNCHANGED device
  /\ UNCHANGED <<tool, down, stat>>

\* HandlePut: the Open message makes the temporary file.
PutOpen ==
  /\ Takes("put") /\ hd.pc = "new"
  /\ \/ hd' = [hd EXCEPT !.pc = "content"] /\ device' = [device EXCEPT !.temp = TRUE] /\ UNCHANGED stat
     \/ Host /\ Return("error") /\ UNCHANGED device
  /\ UNCHANGED <<tool, down>>

PutContents ==
  /\ Takes("put") /\ hd.pc = "content" /\ up[1].t = "content"
  /\ \/ hd' = [hd EXCEPT !.got = @ + 1] /\ UNCHANGED <<stat, device>>
     \/ Host /\ Return("error") /\ device' = [device EXCEPT !.temp = FALSE]
  /\ UNCHANGED <<tool, down>>

\* The Hash message: MD5 of the contents, then the rename and the response.
PutVerify ==
  /\ Takes("put") /\ hd.pc = "content" /\ up[1].t = "hash"
  /\ IF up[1].h # <<"md5", hd.got>> THEN Return("error") /\ device' = [device EXCEPT !.temp = FALSE]
     ELSE \/ Return("ok") /\ device' = [device EXCEPT !.temp = FALSE, !.file = <<hd.got>>]
          \/ Host /\ Return("error") /\ device' = [device EXCEPT !.temp = FALSE]
  /\ UNCHANGED <<tool, down>>

\* HandleSetPackage refuses a RemoteDownload, and may fail to install.
HandleSetPackage ==
  /\ Takes("setpackage")
  /\ \/ up[1].t # "remote download" /\ Return("ok")
     \/ (up[1].t = "remote download" \/ Host) /\ Return("error")
  /\ UNCHANGED <<tool, down, device>>

\* Deploy answers once, after download, load and removal.
DeployHandle ==
  /\ Takes("deploy") /\ hd.pc = "new"
  /\ \/ hd' = [hd EXCEPT !.pc = "end", !.answer = "success"] /\ UNCHANGED stat
     \/ Host /\ Return("error")
  /\ UNCHANGED <<tool, down, device>>

\* The File service has no Get.
GetHandle == Takes("get") /\ Return("error") /\ UNCHANGED <<tool, down, device>>

\* Artifact: the header, the contents chunk by chunk, the trailer.
ArtifactHandle ==
  /\ Takes("artifact") /\ hd.pc = "new"
  /\ \/ hd' = [hd EXCEPT !.pc = "content", !.answer = "header"] /\ UNCHANGED stat
     \/ Host /\ Return("error")
  /\ UNCHANGED <<tool, down, device>>

ArtifactContent ==
  /\ tool.kind = "artifact" /\ hd.pc = "content" /\ hd.answer = "none" /\ ~ToolOver
  /\ \/ IF hd.got < tool.n THEN hd' = [hd EXCEPT !.got = @ + 1, !.answer = "content"] /\ UNCHANGED stat
        ELSE hd' = [hd EXCEPT !.pc = "end", !.answer = "trailer"] /\ UNCHANGED stat
     \/ Host /\ Return("error")
  /\ UNCHANGED <<tool, up, down, device>>

ArtifactEnds ==
  /\ tool.kind = "artifact" /\ hd.pc = "end" /\ hd.answer = "none"
  /\ Return("ok")
  /\ UNCHANGED <<tool, up, down, device>>

Handle == HandlerSends \/ HandlerCancelled \/ InstallRequest \/ InstallContent \/ InstallEnd
          \/ PutOpen \/ PutContents \/ PutVerify \/ HandleSetPackage \/ DeployHandle \/ GetHandle
          \/ ArtifactHandle \/ ArtifactContent \/ ArtifactEnds

GcNext == Tool \/ Handle
GcSpec == GcInit /\ [][GcNext]_gcVars /\ WF_gcVars(Tool) /\ WF_gcVars(Handle)

--------------------------------------------------------------------------
(* Properties *)

\* The window bounds what is under way, and the RPC is over when its handler is.
GcTypeOK ==
  /\ Len(up) <= Window /\ Len(down) <= Window
  /\ tool.sent <= tool.n /\ hd.got <= tool.n
  /\ hd.pc = "over" <=> stat # "open"

\* What the tool reports is what the device did: after "OS installation
\* successful" the image of all the chunks is installed, after "Put operation
\* succeeded" the file is there, after "Artifact Response success" all of it
\* was received.
ReportIsTrue ==
  tool.result = "ok" =>
    /\ tool.kind = "install" => device.image = <<tool.n>>
    /\ tool.kind = "put" => device.file = <<tool.n>>
    /\ tool.kind = "artifact" => tool.got = tool.n

\* A Put that the tool reports as failed has not replaced the file, and its
\* temporary file is gone once the handler has returned (HandlePut).
FailedPutLeavesNothing ==
  tool.kind = "put" /\ stat = "error" => device.file = <<>> /\ ~device.temp

\* The call ends and so does the handler, if the responses the tool does not
\* read while it sends fit into the stream: Install reads none between
\* TransferReady and TransferEnd.
FittingOver ==
  \/ tool.kind = "install" /\ tool.n > 2 * Window
  \/ ToolOver /\ hd.pc \in {"new", "over"}
FittingCallsEnd == []<>FittingOver
=============================================================================
