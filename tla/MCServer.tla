------------------------------ MODULE MCServer ------------------------------
(***************************************************************************)
(* AuthzRotate, and beside it other components of the server process:      *)
(* authentication, lifecycle, counters, and the paths by which Get and     *)
(* Set reach the databases.  A behaviour is one of one component, which    *)
(* part names; the others stay as they start, and none influences another  *)
(* (CertzTelemetry is itself a composition).                               *)
(***************************************************************************)
EXTENDS AuthzRotate, Integers, Sequences, FiniteSets, TLC

VARIABLE part  \* the component that this behaviour is of

(* Requests of the components. *)
CertMsg(t, v, q) == [t |-> t, v |-> v, q |-> q]
CertzRestarts ==
  {<<CertMsg(t, 1, "good")>> : t \in {"cert", "tb", "crl"}}
  \cup {<<CertMsg("cert", 1, "good"), CertMsg("ap", 1, "bad")>>}

\* BypassSet: names are sequences of characters.
Vnet == <<"VNET">>
Acl == <<"ACL_RULE">>
Port == <<"PORT">>
Number(n) == [j |-> "num", v |-> n]
RowNames == {<<"a">>, <<"/">>, <<"~", "1">>, <<"~", "0", "/">>, <<"~">>}
Escaped(k) == CASE k = <<"/">> -> <<"~", "1">> [] k = <<"~", "1">> -> <<"~", "0", "1">>
                [] k = <<"~">> -> <<"~", "0">> [] k = <<"~", "0", "/">> -> <<"~", "0", "0", "~", "1">>
                [] OTHER -> k
NoFields == [f \in {} |-> Number(0)]
OneField == [f \in {<<"f">>} |-> [j |-> "str", v |-> "x"]]
TwoFields == [f \in {<<"f">>, <<"g">>} |-> IF f = <<"f">> THEN [j |-> "list", v |-> <<"x", "y">>] ELSE Number(5)]
Object(p, o) == [path |-> p, kind |-> "json", obj |-> o, val |-> Number(0)]
Scalar(p, x) == [path |-> p, kind |-> "scalar", obj |-> NoFields, val |-> x]
Garbage(p) == [path |-> p, kind |-> "bad", obj |-> NoFields, val |-> Number(0)]
Bulk == [k \in {<<"a">>, <<"b">>} |-> IF k = <<"a">> THEN OneField ELSE NoFields]
Bypass(h, p, d, u, ns) == [header |-> h, prefix |-> p, deletes |-> d, updates |-> u, names |-> ns]
ConfigDb == <<<<"CONFIG_DB">>, <<"localhost">>>>
BypassNamed == {Bypass(TRUE, ConfigDb, <<<<Vnet, Escaped(k)>>>>, <<Object(<<Vnet, Escaped(k)>>, o)>>, {k}) :
                  k \in RowNames, o \in {NoFields, OneField, TwoFields}}
BypassMixed == {Bypass(TRUE, ConfigDb \o <<Vnet>>, <<<<<<"a">>>>, <<<<"b">>, <<"f">>>>>>,
                       <<Object(<<>>, Bulk), Object(<<<<"a">>>>, TwoFields), Scalar(<<<<"b">>, <<"g">>>>, Number(n))>>,
                       {<<"a">>, <<"b">>}) : n \in {0, 7}}
BypassRefused ==
  {Bypass(FALSE, ConfigDb, <<>>, <<Object(<<Vnet, <<"a">>>>, OneField)>>, {<<"a">>}),
   Bypass(TRUE, ConfigDb, <<>>, <<Object(<<Vnet, <<"a">>>>, OneField), Object(<<Port, <<"a">>>>, OneField)>>, {<<"a">>}),
   Bypass(TRUE, <<>>, <<<<Acl, <<"a">>>>, <<Port, <<"a">>>>>>, <<Object(<<Acl, <<"a">>>>, OneField)>>, {<<"a">>}),
   Bypass(TRUE, ConfigDb, <<>>, <<>>, {}), Bypass(TRUE, ConfigDb, <<<<Acl>>>>, <<>>, {})}
BypassFailing ==
  {Bypass(TRUE, ConfigDb, <<<<Acl, <<"a">>>>>>,
          <<Object(<<Acl, <<"a">>>>, OneField), Garbage(<<Acl, <<"b">>>>), Object(<<Acl, <<"c">>>>, OneField)>>,
          {<<"a">>, <<"b">>, <<"c">>}),
   Bypass(TRUE, ConfigDb, <<>>, <<Scalar(<<Acl, <<"a">>>>, [j |-> "str", v |-> "x"]), Scalar(<<Acl>>, Number(0))>>, {<<"a">>}),
   Bypass(TRUE, ConfigDb, <<<<Acl>>>>, <<Object(<<Acl>>, [k \in {} |-> OneField])>>, {})}
BypassRequests ==
  (BypassNamed \cup BypassMixed \cup BypassRefused \cup BypassFailing)
  \X {Bypass(TRUE, ConfigDb, <<<<Vnet, <<"b">>>>>>, <<Object(<<Vnet, <<"a">>>>, OneField)>>, {<<"a">>, <<"b">>})}

\* AuthState: certificates with two, one and no distribution points.
CertPoints == [a |-> {<<"u1", "u2">>, <<>>}, b |-> {<<"u2">>}]

\* DbAccess: one request for two rows, one for one of them.
RowsAsked == [r1 |-> {{"k1", "k2"}}, r2 |-> {{"k1"}}]

\* VirtualDb: the counters of all ports, and the queues of one.
CounterPaths ==
  [l1 |-> {<<"COUNTERS", "Ethernet*">>, <<"COUNTERS", "Ethernet1/1", "Queues">>}, l2 |-> {<<"COUNTERS", "Ethernet*">>}]

\* TranslSet: requests on the objects x and y.
OnObj(o, fs, j) == [o |-> o, fs |-> fs, json |-> j]
TxRq(op, d, p, u, v) == [op |-> op, del |-> d, rep |-> p, upd |-> u, ver |-> v]
ObjX == OnObj("x", {}, TRUE)
ObjY == OnObj("y", {}, TRUE)
XwithF == OnObj("x", {"f"}, TRUE)
XwithG == OnObj("x", {"g"}, TRUE)
YwithF == OnObj("y", {"f"}, TRUE)
NotJson == OnObj("x", {"f"}, FALSE)
NoSuch == OnObj("bad", {"f"}, TRUE)
AnyRq ==
  {TxRq("set", <<ObjX>>, <<>>, <<>>, "none"), TxRq("set", <<>>, <<XwithF>>, <<>>, "good"),
   TxRq("set", <<>>, <<>>, <<XwithG>>, "none"), TxRq("set", <<>>, <<>>, <<XwithF>>, "bad"),
   TxRq("set", <<>>, <<>>, <<XwithF>>, "none"), TxRq("set", <<>>, <<>>, <<NotJson>>, "none"),
   TxRq("set", <<>>, <<NoSuch>>, <<>>, "none"), TxRq("set", <<>>, <<>>, <<>>, "none"),
   TxRq("set", <<ObjX>>, <<YwithF>>, <<>>, "none"), TxRq("set", <<ObjX, ObjY>>, <<>>, <<XwithG>>, "none"),
   TxRq("set", <<ObjY>>, <<XwithF>>, <<XwithG>>, "none"), TxRq("set", <<ObjY>>, <<NoSuch>>, <<>>, "none"),
   TxRq("set", <<ObjY>>, <<>>, <<NotJson>>, "none"), TxRq("get", <<ObjX, ObjY>>, <<>>, <<>>, "none"),
   TxRq("get", <<ObjX, NoSuch>>, <<>>, <<>>, "good"), TxRq("get", <<ObjY>>, <<>>, <<>>, "bad"),
   TxRq("subscribe", <<ObjX>>, <<>>, <<>>, "none"), TxRq("subscribe", <<ObjX>>, <<>>, <<>>, "good"),
   TxRq("action", <<>>, <<>>, <<>>, "none")}
FewRq == {q \in AnyRq : q.op = "set" /\ q.ver = "none" /\ q.upd # <<NotJson>> /\ q.rep = <<>>}
TranslRequests ==
  AnyRq \X FewRq \X {q \in AnyRq : q.del \in {<<ObjX, ObjY>>, <<ObjX, NoSuch>>} /\ q.op = "get"}

-----------------------------------------------------------------------------
VARIABLES disk, db, ctMem, h, up, hs, n, g, ctW, ctCtl, ctMain, ctSh,
          ctStopsh, ctSig
CT == INSTANCE CertzTelemetry WITH Requests <- CertzRestarts,
      CrlNames <- {"a"}, Faults <- {"send"}, MaxUploads <- 1, MaxRpcs <- 1,
      MaxCrashes <- 0, MaxTurns <- 3, mem <- ctMem, w <- ctW, ctl <- ctCtl,
      main <- ctMain, sh <- ctSh, stopsh <- ctStopsh, sig <- ctSig
certzTelemetryVars == <<disk, db, ctMem, h, up, hs, n, g, ctW, ctCtl, ctMain,
      ctSh, ctStopsh, ctSig>>

VARIABLES fs, ops, glW, glCtl, glMain, glSh, glStopsh, glSig, rpc, missed
GL == INSTANCE GnmiLifecycle WITH MaxTurns <- 3, MaxOps <- 2,
      Listeners <- {"tcp", "uds"}, Faults <- {"watch", "new", "serve"},
      w <- glW, ctl <- glCtl, main <- glMain, sh <- glSh, stopsh <- glStopsh,
      sig <- glSig
gnmiLifecycleVars == <<fs, ops, glW, glCtl, glMain, glSh, glStopsh, glSig,
      rpc, missed>>

VARIABLES clock, revoked, cache, vf, key, token, lapsed
AS == INSTANCE AuthState WITH AsRpcs <- {"a", "b"}, Points <- {"u1", "u2"},
      Certs <- CertPoints, ExpireAfter <- 1, JwtValidInt <- 2,
      JwtRefreshInt <- 1, MaxClock <- 3, MaxRestarts <- 1
authStateVars == <<clock, revoked, cache, vf, key, token, lapsed>>

VARIABLES rows, sku, skuMoves, bp, wrote
BP == INSTANCE BypassSet WITH BpRpcs <- {1, 2}, BpRequests <- BypassRequests,
      AllowedTables <- {Vnet, Acl}, ExpFrom <- 6, SkuChanges <- 1
bypassSetVars == <<rows, sku, skuMoves, bp, wrote>>

VARIABLES store, tx, order, since, first, overwrote
TX == INSTANCE TranslSet WITH TxRpcs <- {1, 2, 3},
      TxRequests <- TranslRequests, Objects <- {"x", "y"},
      Fields <- {"f", "g"}, TxFaults <- {"translib"}
translSetVars == <<store, tx, order, since, first, overwrote>>

VARIABLES daFiles, lib, sonic_db_init, clients, daRow, writes, da, early
DA == INSTANCE DbAccess WITH DaRpcs <- {"r1", "r2"}, DaKeys <- {"k1", "k2"},
      DaAsked <- RowsAsked, MaxWrites <- 1, files <- daFiles, row <- daRow
dbAccessVars == <<daFiles, lib, sonic_db_init, clients, daRow, writes, da,
      early>>

VARIABLES rdb, maps, once, vdGood, lk
VD == INSTANCE VirtualDb WITH Lookups <- {"l1", "l2"},
      Ports <- {"Ethernet0", "Ethernet4"},
      Alias <- [p \in {"Ethernet0", "Ethernet4"} |-> IF p = "Ethernet0" THEN "Ethernet1/1" ELSE "Ethernet2/1"],
      Paths <- CounterPaths, MaxChanges <- 1, good <- vdGood
virtualDbVars == <<rdb, maps, once, vdGood, lk>>

-----------------------------------------------------------------------------
Parts == {"AuthzRotate", "CertzTelemetry", "GnmiLifecycle", "AuthState",
          "BypassSet", "TranslSet", "DbAccess", "VirtualDb"}

\* Every component starts in one of its initial states, always the same one
\* if it is not the one that runs.
SuiteInit ==
  /\ part \in Parts
  /\ BP!BpInit /\ (part # "BypassSet" => ~bp[1].req.header)
  /\ TX!TxInit /\ (part # "TranslSet" => tx[1].q.op = "action" /\ tx[2].q.upd = <<XwithF>> /\ tx[3].q.ver = "good" /\ store["x"] = <<>> /\ store["y"] = <<>>)
  /\ CT!CTInit /\ (part # "CertzTelemetry" => disk.ca /\ disk.crl = {})
  /\ GL!Init /\ (part # "GnmiLifecycle" => fs.cert = 1 /\ fs.ca)
  /\ AS!AsInit
  /\ DA!DaInit /\ (part # "DbAccess" => daFiles = "none")
  /\ VD!VdInit /\ (part # "VirtualDb" => rdb.gen = 0 /\ rdb.cfg = {})
  /\ Init /\ (part # "AuthzRotate" => file = Missing /\ mem = Unknown)

\* A step of the component p leaves the variables of the others alone.
Only(p) ==
  /\ part = p /\ UNCHANGED part
  /\ p # "AuthzRotate" => UNCHANGED vars
  /\ p # "CertzTelemetry" => UNCHANGED certzTelemetryVars
  /\ p # "GnmiLifecycle" => UNCHANGED gnmiLifecycleVars
  /\ p # "AuthState" => UNCHANGED authStateVars
  /\ p # "BypassSet" => UNCHANGED bypassSetVars
  /\ p # "TranslSet" => UNCHANGED translSetVars
  /\ p # "DbAccess" => UNCHANGED dbAccessVars
  /\ p # "VirtualDb" => UNCHANGED virtualDbVars

\* Call, request or stream i of the component is not at work.
Over(i) ==
  /\ part = "AuthState" /\ i \in 1..2 => AS!Verified(<<"a", "b">>[i])
  /\ part = "BypassSet" /\ i \in 1..2 => BP!BpOver(i)
  /\ part = "TranslSet" /\ i \in 1..3 => TX!TxOver(i)
  /\ part = "DbAccess" /\ i \in 1..2 => DA!DaOver(<<"r1", "r2">>[i])
  /\ part = "VirtualDb" /\ i \in 1..2 => VD!LookupOver(<<"l1", "l2">>[i])

\* The work of the component is over, so that it may stop; any other state
\* without a successor is a deadlock.  Some components never stop.
Finished ==
  /\ part \notin {"AuthzRotate", "AuthState"}
  /\ \A i \in 1..3 : Over(i)
  /\ part = "CertzTelemetry" => h.pc = "idle" /\ ctMain.pc \in {"serve", "wait", "exit"}
  /\ part = "GnmiLifecycle" => glMain.pc \in {"serve", "wait", "exit"} \/ (glMain.pc = "top" /\ ~GL!Bounded)

Stopped == Finished /\ UNCHANGED <<part, vars>>
           /\ UNCHANGED <<certzTelemetryVars, gnmiLifecycleVars,
                         authStateVars, bypassSetVars, translSetVars,
                         dbAccessVars, virtualDbVars>>

SuiteNext ==
  \/ Stopped
  \/ Only("AuthzRotate") /\ Next
  \/ Only("CertzTelemetry") /\ CT!CTNext
  \/ Only("GnmiLifecycle") /\ GL!Next
  \/ Only("AuthState") /\ AS!AsNext
  \/ Only("BypassSet") /\ BP!BpNext
  \/ Only("TranslSet") /\ TX!TxNext
  \/ Only("DbAccess") /\ DA!DaNext
  \/ Only("VirtualDb") /\ VD!VdNext

suiteVars == <<part, vars, certzTelemetryVars, gnmiLifecycleVars,
               authStateVars, bypassSetVars, translSetVars, dbAccessVars,
               virtualDbVars>>

\* Each component with the fairness of its own specification.
SuiteSpec ==
  /\ SuiteInit /\ [][SuiteNext]_suiteVars
  /\ WF_certzTelemetryVars(part = "CertzTelemetry" /\ CT!ServerStep)
  /\ \A x \in 1..3 : WF_certzTelemetryVars(part = "CertzTelemetry" /\ CT!WatchStep(x))
  /\ WF_gnmiLifecycleVars(part = "GnmiLifecycle" /\ GL!Main)
  /\ WF_gnmiLifecycleVars(part = "GnmiLifecycle" /\ GL!HandleSignal)
  /\ \A x \in 1..3 : WF_gnmiLifecycleVars(part = "GnmiLifecycle" /\ GL!Watcher(x))
  /\ \A x \in {"a", "b"} : WF_authStateVars(part = "AuthState" /\ AS!AsStep(x))
  /\ \A x \in 1..2 : WF_bypassSetVars(part = "BypassSet" /\ BP!TrySet(x))
  /\ WF_translSetVars(part = "TranslSet" /\ TX!TxNext)
  /\ \A x \in {"main", "r1", "r2"} : WF_dbAccessVars(part = "DbAccess" /\ DA!DaStep(x))
  /\ \A x \in {"l1", "l2"} : WF_virtualDbVars(part = "VirtualDb" /\ VD!VdStep(x))

-----------------------------------------------------------------------------
\* The variables of every component have their types.
PartsTypeOK ==
  /\ part = "AuthzRotate" => TypeOK
  /\ part = "GnmiLifecycle" => GL!TypeOK
  /\ part = "AuthState" => AS!AsTypeOK
  /\ part = "BypassSet" => BP!BpTypeOK
  /\ part = "TranslSet" => TX!TxTypeOK
  /\ part = "DbAccess" => DA!DaTypeOK
  /\ part = "VirtualDb" => VD!VdTypeOK

\* Whoever is let in may be: revocation lists and tokens are in force whoever
\* else renews them, and a server that is gone holds no port.
AccessSound ==
  /\ part = "AuthState" => AS!RevokedRefused /\ AS!UsesFresh /\ AS!PassedHadList /\ AS!SessionUnbroken
  /\ part = "GnmiLifecycle" => GL!NothingLeftOpen

\* A Set that succeeds has done all it says, one that fails nothing or a first
\* part of it, and a Get is answered from the rows and maps of the place it
\* names, whatever other requests do.
RequestsExact ==
  /\ part = "BypassSet" => BP!OnlyAllowed /\ BP!RowsNamed /\ BP!PartialIsPrefix /\ BP!OkMeansStored
  /\ part = "TranslSet" => TX!FailedChangesNothing /\ TX!Serial /\ TX!GetAnswersAll
  /\ part = "DbAccess" => DA!NoEarlyQuery /\ DA!RightNamespace /\ DA!ReadsCurrent
  /\ part = "VirtualDb" => VD!FindsMostSpecific /\ VD!AgreeingAnswers /\ VD!PfcwdComplete /\ VD!WildcardIsUnion /\ VD!ResolvesIfLoaded

\* Under the fairness above whatever a component begins ends, and what was
\* asked of it is in force in the end: ServesAfterRevert, ServesCurrent,
\* SignalEnds, StopEnds, VerifyEnds, BpEnds, TxEnds, DaEnds and LookupEnds.
WorkGetsDone ==
  /\ \A i \in 1..3 : []<>Over(i)
  /\ []<>(part = "CertzTelemetry" => CT!ServesIfReverted)
  /\ <>[](part = "GnmiLifecycle" => GL!CurrentServed)
  /\ []<>(part = "GnmiLifecycle" => GL!SignalObeyed)
  /\ []<>(part = "GnmiLifecycle" => GL!StopObeyed)
=============================================================================
