---------------------------- MODULE DialOutServer ----------------------------
(***************************************************************************)
(* The collector that dial-out clients publish to: Publish registers the   *)
(* stream under the address of its peer, receives until the stream ends    *)
(* and appends what it received to the data store                          *)
(* (dialout/dialout_server/dialout_server.go).  Streams of one connection  *)
(* have the same address.                                                  *)
(***************************************************************************)
EXTENDS Naturals, Sequences

CONSTANTS Streams, Addresses,
          MaxResponses   \* responses a client publishes on a stream

VARIABLES pub,       \* the Publish RPCs: address, pc
          sentBy,    \* responses each client has sent
          recvBy,    \* responses each Run has received
          clients,   \* the map: <<>> or <<stream>> of an address
          dataStore, \* what was received: <<stream, number>>
          serving    \* FALSE after Stop

dsVars == <<pub, sentBy, recvBy, clients, dataStore, serving>>

DsInit ==
  /\ pub \in [Streams -> {[addr |-> a, pc |-> "new"] : a \in Addresses}]
  /\ sentBy = [p \in Streams |-> 0] /\ recvBy = [p \in Streams |-> 0]
  /\ clients = [a \in Addresses |-> <<>>]
  /\ dataStore = <<>> /\ serving = TRUE

\* Publish up to Run: a client of the same address is closed, which does
\* nothing since its channels are nil, and its entry is replaced.
Publish(p) ==
  /\ pub[p].pc = "new" /\ serving
  /\ pub' = [pub EXCEPT ![p].pc = "run"]
  /\ clients' = [clients EXCEPT ![pub[p].addr] = <<p>>]
  /\ UNCHANGED <<sentBy, recvBy, dataStore, serving>>

\* The client sends, or ends its stream.
ClientSends(p) ==
  /\ pub[p].pc = "run" /\ sentBy[p] < MaxResponses
  /\ sentBy' = [sentBy EXCEPT ![p] = @ + 1]
  /\ UNCHANGED <<pub, recvBy, clients, dataStore, serving>>

\* The append under sRWMu.
Stored(p) == Append(dataStore, <<p, recvBy[p] + 1>>)

Run(p) ==
  /\ pub[p].pc = "run" /\ recvBy[p] < sentBy[p]
  /\ recvBy' = [recvBy EXCEPT ![p] = @ + 1]
  /\ dataStore' = Stored(p)
  /\ UNCHANGED <<pub, sentBy, clients, serving>>

\* Recv fails: the end of the stream after its last response, a broken
\* connection, or Stop.
RunEnds(p) ==
  /\ pub[p].pc = "run"
  /\ pub' = [pub EXCEPT ![p].pc = "ended"]
  /\ UNCHANGED <<sentBy, recvBy, clients, dataStore, serving>>

\* The entry of the address is deleted, whoever holds it.
Unregistered(p) == [clients EXCEPT ![pub[p].addr] = <<>>]

PublishReturns(p) ==
  /\ pub[p].pc = "ended"
  /\ pub' = [pub EXCEPT ![p].pc = "returned"]
  /\ clients' = Unregistered(p)
  /\ UNCHANGED <<sentBy, recvBy, dataStore, serving>>

Stop ==
  /\ serving /\ serving' = FALSE
  /\ UNCHANGED <<pub, sentBy, recvBy, clients, dataStore>>

DsNext ==
  \/ Stop
  \/ \E p \in Streams : Publish(p) \/ ClientSends(p) \/ Run(p) \/ RunEnds(p) \/ PublishReturns(p)

\* A stopped server ends its streams; a handler goes on to its return.
DsSpec == DsInit /\ [][DsNext]_dsVars
          /\ \A p \in Streams : WF_dsVars(~serving /\ RunEnds(p)) /\ WF_dsVars(PublishReturns(p))

--------------------------------------------------------------------------
(* Properties *)

\* The map has every client under its own address.
DsTypeOK ==
  /\ \A p \in Streams : pub[p].pc \in {"new", "run", "ended", "returned"} /\ recvBy[p] <= sentBy[p]
  /\ \A a \in Addresses : clients[a] # <<>> => pub[clients[a][1]].addr = a

\* What a stream received is in the data store once and in its order, also of
\* a client that another one of the same address has replaced in the map.
NothingLost ==
  \A p \in Streams :
    LET mine(x) == x[1] = p
    IN SelectSeq(dataStore, mine) = [n \in 1..recvBy[p] |-> <<p, n>>]

\* The map never holds a client whose handler has returned.
NoReturnedClient ==
  \A a \in Addresses : clients[a] # <<>> => pub[clients[a][1]].pc # "returned"

\* Stop ends every Publish.
StreamStopped(p) == serving \/ pub[p].pc # "run"
StopEndsStreams == \A p \in Streams : []<>StreamStopped(p)
=============================================================================
