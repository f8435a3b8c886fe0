----------------------------- MODULE DebugExec ------------------------------
(***************************************************************************)
(* The gNOI Debug RPC: HandleCommandRequest (pkg/gnoi/debug/debug.go) and  *)
(* RunCommand (internal/exec/command.go).  The command's two outputs go    *)
(* through a pipe, a reader goroutine, a channel of bounded capacity and a *)
(* sender goroutine to the client's stream, all of them at once.           *)
(***************************************************************************)
EXTENDS Naturals, Sequences, FiniteSets

CONSTANTS ChanCap,    \* capacity of outCh and errCh
          MaxOut      \* chunks the command writes to one output

Outs == {"out", "err"}

VARIABLES cmd,      \* the command: "running", "exited", "killed"
          left,     \* chunks the command has still to write, per output
          pipe,     \* chunks in the pipe, per output
          rd,       \* reader: "copy", "put" (it holds a chunk), "done"
          ch,       \* chunks in the channel
          closed,   \* the channels are closed
          snd,      \* sender: "recv", "done"
          rpc,      \* the handler
          done,     \* the context is done (timeout, or the client has gone)
          broken,   \* sending on the stream fails
          sent      \* responses on the stream

deVars == <<cmd, left, pipe, rd, ch, closed, snd, rpc, done, broken, sent>>

DeInit ==
  /\ cmd = "none" /\ left \in [Outs -> 0..MaxOut] /\ pipe = [o \in Outs |-> 0]
  /\ rd = [o \in Outs |-> "none"] /\ ch = [o \in Outs |-> 0] /\ closed = FALSE
  /\ snd = [o \in Outs |-> "none"] /\ rpc = "validate"
  /\ done = FALSE /\ broken = FALSE /\ sent = <<>>

Send(x) == sent' = IF broken THEN sent ELSE Append(sent, x)

\* The request is checked, and sent back as the first response.
HandleCommandRequest ==
  /\ rpc = "validate"
  /\ \/ rpc' = "error" /\ UNCHANGED <<snd, sent>>
     \/ /\ IF broken THEN rpc' = "error" /\ snd' = snd
           ELSE rpc' = "start" /\ snd' = [o \in Outs |-> "recv"]
        /\ Send("request")
  /\ UNCHANGED <<cmd, left, pipe, rd, ch, closed, done, broken>>

\* RunCommand: the pipes and the process; without them the channels are
\* closed and the handler returns without waiting for the senders.
StartCommand ==
  /\ rpc = "start"
  /\ \/ rpc' = "error" /\ closed' = TRUE /\ UNCHANGED <<cmd, rd>>
     \/ /\ rpc' = "wait" /\ closed' = closed
        /\ cmd' = "running" /\ rd' = [o \in Outs |-> "copy"]
  /\ UNCHANGED <<left, pipe, ch, snd, done, broken, sent>>

Produce(o) ==
  /\ cmd = "running" /\ left[o] > 0 /\ pipe[o] = 0
  /\ left' = [left EXCEPT ![o] = @ - 1] /\ pipe' = [pipe EXCEPT ![o] = 1]
  /\ UNCHANGED <<cmd, rd, ch, closed, snd, rpc, done, broken, sent>>

\* The command ends by itself, or is killed when its context is done.
CommandEnds ==
  /\ cmd = "running"
  /\ \/ cmd' = "exited" /\ \A o \in Outs : left[o] = 0
     \/ cmd' = "killed" /\ done
  /\ UNCHANGED <<left, pipe, rd, ch, closed, snd, rpc, done, broken, sent>>

\* outputReaderToChannel, one turn of io.CopyBuffer: a chunk is read, and
\* written to the channel when there is room.
ReadPipe(o) ==
  /\ rd[o] = "copy"
  /\ \/ pipe[o] > 0 /\ pipe' = [pipe EXCEPT ![o] = 0] /\ rd' = [rd EXCEPT ![o] = "put"]
     \/ pipe[o] = 0 /\ cmd # "running" /\ pipe' = pipe /\ rd' = [rd EXCEPT ![o] = "done"]
  /\ UNCHANGED <<cmd, left, ch, closed, snd, rpc, done, broken, sent>>

chanWriter(o) ==
  /\ rd[o] = "put" /\ ch[o] < ChanCap
  /\ ch' = [ch EXCEPT ![o] = @ + 1] /\ rd' = [rd EXCEPT ![o] = "copy"]
  /\ UNCHANGED <<cmd, left, pipe, closed, snd, rpc, done, broken, sent>>

\* Both readers have finished: the process is waited for, the channels closed.
RunCommand ==
  /\ rpc = "wait" /\ \A o \in Outs : rd[o] = "done"
  /\ cmd # "running"
  /\ closed' = TRUE /\ rpc' = "drain"
  /\ UNCHANGED <<cmd, left, pipe, rd, ch, snd, done, broken, sent>>

\* streamDataInChannel: a done context may be preferred to a chunk.
streamDataInChannel(o) ==
  /\ snd[o] = "recv"
  /\ \/ /\ done /\ snd' = [snd EXCEPT ![o] = "done"] /\ UNCHANGED <<ch, sent>>
     \/ /\ ch[o] > 0 /\ ch' = [ch EXCEPT ![o] = @ - 1] /\ Send(o)
        /\ snd' = IF broken THEN [snd EXCEPT ![o] = "done"] ELSE snd
     \/ /\ ch[o] = 0 /\ closed /\ snd' = [snd EXCEPT ![o] = "done"] /\ UNCHANGED <<ch, sent>>
  /\ UNCHANGED <<cmd, left, pipe, rd, closed, rpc, done, broken>>

SendStatus ==
  /\ rpc = "drain" /\ \A o \in Outs : snd[o] = "done"
  /\ rpc' = "ok" /\ Send("status")
  /\ UNCHANGED <<cmd, left, pipe, rd, ch, closed, snd, done, broken>>

\* The timeout of the request, or the client leaving.
ContextDone ==
  /\ ~done /\ done' = TRUE /\ broken' \in {broken, TRUE}
  /\ UNCHANGED <<cmd, left, pipe, rd, ch, closed, snd, rpc, sent>>

DeStep ==
  \/ HandleCommandRequest \/ StartCommand \/ RunCommand \/ SendStatus \/ CommandEnds
  \/ \E o \in Outs : Produce(o) \/ ReadPipe(o) \/ chanWriter(o) \/ streamDataInChannel(o)

DeNext == DeStep \/ ContextDone

DeSpec ==
  /\ DeInit /\ [][DeNext]_deVars
  /\ WF_deVars(HandleCommandRequest) /\ WF_deVars(StartCommand) /\ WF_deVars(RunCommand)
  /\ WF_deVars(SendStatus) /\ WF_deVars(CommandEnds)
  /\ \A o \in Outs : /\ WF_deVars(Produce(o)) /\ WF_deVars(ReadPipe(o))
                     /\ WF_deVars(chanWriter(o)) /\ WF_deVars(streamDataInChannel(o))

---------------------------------------------------------------------------
\* The channels and pipes of the command keep to their capacity.
DeTypeOK == \A o \in Outs : ch[o] \in 0..ChanCap /\ pipe[o] \in 0..1

Count(x) == Cardinality({k \in 1..Len(sent) : sent[k] = x})

\* The order the comment promises: the request first, the data, and the status
\* last and once.
ResponseOrder ==
  /\ sent # <<>> => sent[1] = "request" /\ Count("request") = 1
  /\ Count("status") > 0 => Count("status") = 1 /\ sent[Len(sent)] = "status"

\* Every chunk has been sent before the status, if the context was not done.
StatusIsLast ==
  \A o \in Outs : rpc = "drain" /\ rpc' = "ok" /\ ~done
    => pipe[o] = 0 /\ ch[o] = 0 /\ left[o] = 0
AllBeforeStatus == [][StatusIsLast]_deVars

\* A command whose client stays is run to its end and answered.
RunOver == rpc \notin {"start", "wait", "drain"} \/ done
Answered == []<>RunOver
=============================================================================
