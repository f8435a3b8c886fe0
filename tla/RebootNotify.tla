---------------------------- MODULE RebootNotify ----------------------------
(***************************************************************************)
(* Reboot, RebootStatus and CancelReboot (gnmi_server/gnoi_system.go): each*)
(* RPC subscribes to the response channel, publishes its request on the    *)
(* request channel and waits ten seconds for a response whose operation is *)
(* its own.  A response does not say which request it answers: every RPC   *)
(* that is subscribed when it is published receives it.                    *)
(***************************************************************************)
EXTENDS Naturals, Sequences, FiniteSets

CONSTANTS RbRpcs,
          RbOps,     \* the operations each RPC may ask for
          AlienOps, MaxAlien   \* responses nobody asked for

VARIABLES rb,       \* the RPCs: pc, op, answer taken
          box,      \* responses an RPC's subscription holds
          asked,    \* requests the back end has not answered
          answered, \* RPCs the back end has answered in time
          alien

rbVars == <<rb, box, asked, answered, alien>>

NoCall == [pc |-> "idle", op |-> "none", took |-> "none", wrong |-> FALSE]

RbInit ==
  /\ rb = [r \in RbRpcs |-> NoCall] /\ box = [r \in RbRpcs |-> <<>>]
  /\ asked = {} /\ answered = {} /\ alien = 0

At(r, pc) == rb[r].pc = pc
To(r, pc) == rb' = [rb EXCEPT ![r].pc = pc]

Begin(r, o, pcs) ==
  /\ At(r, "idle") /\ \E pc \in pcs : rb' = [rb EXCEPT ![r].op = o, ![r].pc = pc]
  /\ UNCHANGED <<box, asked, answered, alien>>

\* ValidateRebootRequest refuses a method or a delay; the reboot of a module needs
\* no back end; a redis that cannot be reached ends every RPC here.
Reboot(r) == "Reboot" \in RbOps[r] /\ Begin(r, "Reboot", {"subscribe", "error", "ok"})
RebootStatus(r) == "RebootStatus" \in RbOps[r] /\ Begin(r, "RebootStatus", {"subscribe", "error"})
CancelReboot(r) == "CancelReboot" \in RbOps[r] /\ Begin(r, "CancelReboot", {"subscribe", "error"})

Subscribe(r) ==
  /\ At(r, "subscribe") /\ \E pc \in {"send", "error"} : To(r, pc)
  /\ UNCHANGED <<box, asked, answered, alien>>

\* NotificationProducer.Send.
Send(r) ==
  /\ At(r, "send")
  /\ \/ To(r, "wait") /\ asked' = asked \cup {r}
     \/ To(r, "error") /\ asked' = asked
  /\ UNCHANGED <<box, answered, alien>>

Listening == {r \in RbRpcs : rb[r].pc \in {"send", "wait"}}
Deliver(m) == box' = [r \in RbRpcs |-> IF r \in Listening THEN Append(box[r], m) ELSE box[r]]

\* The back end, in any order and at any time.
BackEnd(r) ==
  /\ r \in asked /\ asked' = asked \ {r}
  /\ answered' = IF At(r, "wait") THEN answered \cup {r} ELSE answered
  /\ \E ok \in BOOLEAN, f \in {"good", "empty"} :
       Deliver([op |-> rb[r].op, to |-> r, form |-> f, ok |-> ok])
  /\ UNCHANGED <<rb, alien>>

Alien ==
  /\ alien < MaxAlien /\ alien' = alien + 1
  /\ \E o \in AlienOps, f \in {"good", "malformed"} :
       Deliver([op |-> o, to |-> "nobody", form |-> f, ok |-> TRUE])
  /\ UNCHANGED <<rb, asked, answered>>

\* One turn of the wait: a response of another operation is only remembered, and
\* a status without a message is an error.
Receive(r) ==
  /\ At(r, "wait") /\ box[r] # <<>>
  /\ LET m == Head(box[r])
     IN /\ box' = [box EXCEPT ![r] = Tail(@)]
        /\ rb' = IF m.form = "malformed" THEN [rb EXCEPT ![r].pc = "error"]
                 ELSE IF m.op # rb[r].op THEN [rb EXCEPT ![r].wrong = TRUE]
                 ELSE [rb EXCEPT ![r].took = m.to,
                         ![r].pc = IF m.ok /\ (m.op = "RebootStatus" => m.form = "good")
                                   THEN "ok" ELSE "error"]
  /\ UNCHANGED <<asked, answered, alien>>

\* The select may prefer the timer to a response that has just arrived.
Timeout(r) ==
  /\ At(r, "wait") /\ To(r, "timeout")
  /\ UNCHANGED <<box, asked, answered, alien>>

RbStep(r) == Reboot(r) \/ RebootStatus(r) \/ CancelReboot(r) \/ Subscribe(r) \/ Send(r) \/ Receive(r) \/ Timeout(r)
RbNext == Alien \/ \E r \in RbRpcs : RbStep(r) \/ BackEnd(r)
RbSpec == RbInit /\ [][RbNext]_rbVars /\ \A r \in RbRpcs : WF_rbVars(RbStep(r))

---------------------------------------------------------------------------
RbEnded == {"ok", "error", "timeout"}
\* Nothing waits in a subscription that has not been made.
RbTypeOK == /\ asked \subseteq RbRpcs
            /\ \A r \in RbRpcs : /\ rb[r].took \in RbRpcs \cup {"none", "nobody"}
                                 /\ rb[r].pc \in {"idle", "subscribe"} => box[r] = <<>>

\* An RPC takes a response of its own operation, to a request that had been
\* sent: its own, unless another RPC asked the same.
TakesOwnKind ==
  \A r \in RbRpcs : rb[r].took \in RbRpcs =>
    /\ rb[rb[r].took].op = rb[r].op
    /\ (\A q \in RbRpcs \ {r} : rb[q].op # rb[r].op) => rb[r].took = r

\* A response to a waiting RPC's request always reaches its subscription, which
\* is there before the request is: an RPC that reports a timeout was not
\* answered, or its answer came together with the timer.
NoMissedAnswer ==
  \A r \in RbRpcs : At(r, "timeout") /\ r \in answered =>
    \E i \in 1..Len(box[r]) : box[r][i].to = r

\* Every RPC ends, whatever the back end does.
RbOver(r) == rb[r].pc \in RbEnded \cup {"idle"}
RbEnds == \A r \in RbRpcs : []<>RbOver(r)
=============================================================================
