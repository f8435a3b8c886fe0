----------------------------- MODULE MCServices -----------------------------
(***************************************************************************)
(* PathzRotate, and beside it the components that serve RPCs and streams:  *)
(* the gNOI services and their client, the DPU proxy, host and event       *)
(* statistics, operational Get, Set on mixed databases, dial-out and the   *)
(* show commands.  A behaviour is one of one component, which part names;  *)
(* the others stay as they start, and none influences another.             *)
(***************************************************************************)
EXTENDS PathzRotate, Integers, Sequences, FiniteSets, TLC

VARIABLE part  \* the component that this behaviour is of

(* Requests of the components. *)
\* OperationalGet: paths over a directory of two files and a subdirectory.
Elem(n, k) == [name |-> n, key |-> k]
SystemPrefix == <<Elem("sonic", "none"), Elem("system", "none")>>
DiskPath(at) == <<Elem("filesystem", at), Elem("disk-space", "none")>>
FilesPath(at, pat, f) == <<Elem("filesystem", at), Elem("files", pat)>> \o IF f = "" THEN <<>> ELSE <<Elem(f, "none")>>
OperationalRequests ==
  {<<DiskPath("/d")>>, <<SystemPrefix \o DiskPath("/d"), DiskPath("none")>>, <<DiskPath("/d"), SystemPrefix \o DiskPath("/e")>>,
   <<FilesPath("/d", "*.bin", "list")>>, <<FilesPath("/d", "none", "count"), DiskPath("/d")>>,
   <<FilesPath("/d", "[", "types"), FilesPath("/d", "none", "")>>, <<SystemPrefix \o FilesPath("/d", "none", "boot.bin")>>,
   <<FilesPath("none", "none", "")>>, <<<<Elem("disk-space", "none")>>>>, <<<<Elem("firmware", "/d"), Elem("files", "none")>>>>}
Directory == [n \in {"boot.bin", "sonic.img", "sub"} |->
  CASE n = "boot.bin" -> [dir |-> FALSE, ext |-> "bin", words |-> {"boot"}]
    [] n = "sonic.img" -> [dir |-> FALSE, ext |-> "img", words |-> {"sonic"}]
    [] OTHER -> [dir |-> TRUE, ext |-> "none", words |-> {}]]
DirGlobs == [p \in {"*", "*.bin"} |-> IF p = "*" THEN {"boot.bin", "sonic.img", "sub"} ELSE {"boot.bin"}]

\* DpuProxy: both ports answer, only the common one does, none does.
DpuPorts == {<<"answers", "answers">>, <<"drops", "answers">>, <<"refuses", "drops">>}

\* RebootNotify and HostServices: one RPC of any kind beside a few.
RebootOps == [r1 |-> {"Reboot", "RebootStatus", "CancelReboot"}, r2 |-> {"Reboot"}]
HostKinds ==
  [h1 |-> {"Deploy", "SetPackage", "Activate", "DPUReboot", "InstallOS", "Healthz", "Artifact", "Acknowledge",
           "KillProcess", "Stat", "Verify", "Action", "Reset"},
   h2 |-> {"SetPackage", "Artifact"}]
\* MixedDb: requests on a plain and on a ZMQ table.
OneRow(f, x) == [g1 \in {f} |-> x]
DelRow(t, k) == [op |-> "del", t |-> t, k |-> k]
SetRows(t, k, v) == [op |-> "set", t |-> t, k |-> k, v |-> v]
MixedRequests ==
  {<<DelRow(t, "k1"), SetRows(t, "k1", [k \in {"k1"} |-> OneRow("f", 1)])>> : t \in {"plain", "zmq"}} \cup
  {<<SetRows(t, "*", [k \in {"k1", "k2"} |-> IF k = "k1" THEN OneRow("g", 2) ELSE OneRow("f", 2)])>> : t \in {"plain", "zmq"}} \cup
  {<<DelRow("zmq", "*")>>} \cup
  {<<SetRows("plain", "*", [k \in {"k1", "k2"} |-> IF k = "k1" THEN OneRow("f", 3) ELSE [row |-> "not an object"]]),
     DelRow("zmq", "k1")>>}

\* MixedDb: the first request is any of them, the second one may be delayed.
MixedAsked ==
  [m1 |-> MixedRequests,
   m2 |-> {<<SetRows("zmq", "*", [k \in {"k1", "k2"} |-> IF k = "k1" THEN OneRow("g", 2) ELSE OneRow("f", 2)])>>}]

\* ShowCommands: SHOW/i takes any number of arguments (registered again),
\* SHOW/i/c one at most, SHOW/i/c/d exactly one and a required option.
Opt(req, type) == [req |-> req, type |-> type, enum |-> {<<"x">>}]
Command(path, min, max, opts) == [path |-> path, min |-> min, max |-> max, opts |-> opts]
ShowRegistered ==
  <<Command(<<"SHOW", "i">>, 0, 0, [s \in {"s"} |-> Opt("optional", "string")]),
    Command(<<"SHOW", "i", "c">>, 0, 1, [o \in {"p", "n"} |-> IF o = "p" THEN Opt("optional", "int") ELSE Opt("unimplemented", "string")]),
    Command(<<"SHOW">>, 0, 0, [s \in {} |-> 0]),
    Command(<<"SHOW", "i", "c", "d">>, 1, 1, [r \in {"r"} |-> Opt("required", "enum")]),
    Command(<<"SHOW", "i", "c", "e">>, 2, 1, [s \in {} |-> 0]),
    Command(<<"SHOW", "i">>, 0, -1, [s \in {"s"} |-> Opt("optional", "slice")])>>
HelpOption == [o \in {"help"} |-> Opt("optional", "bool")]

ShowNames == {<<>>, <<"e">>, <<"i">>, <<"i", "e", "e">>, <<"i", "c">>, <<"i", "c", "e">>,
              <<"i", "c", "e", "e">>, <<"i", "c", "d">>, <<"i", "c", "d", "e">>}
NoKeys == [o \in {} |-> <<>>]
ShowKeys == {NoKeys} \cup {[o \in {k} |-> t] : k \in {"p", "n", "r", "help", "z"}, t \in {<<"x">>, <<"5">>, <<"true">>}}
              \cup {[o \in {"s"} |-> <<"x", "y">>]}
Elements(ns, at, keys) == [k \in DOMAIN ns |-> [name |-> ns[k], keys |-> IF k = at THEN keys ELSE NoKeys]]
ShowPaths == {Elements(ns, at, keys) : ns \in ShowNames, at \in 1..4, keys \in ShowKeys}
TwoKeys == {[e \in 1..4 |-> [name |-> <<"i", "c", "d", "e">>[e],
              keys |-> CASE e = 3 -> [o \in {"r"} |-> <<"5">>] [] e = 4 -> [o \in {"r"} |-> <<"x">>] [] OTHER -> NoKeys]]}
SomePaths == {Elements(<<"i", "c">>, 2, k) : k \in ShowKeys} \cup {Elements(<<"e">>, 1, NoKeys)}
ShowRequests ==
  {[pre |-> <<>>, paths |-> <<es>>] : es \in ShowPaths \cup TwoKeys}
    \cup {[pre |-> <<>>, paths |-> <<e, f>>] : e \in SomePaths, f \in {Elements(<<"i", "c", "e">>, 2, k) : k \in {NoKeys, [o \in {"help"} |-> <<"true">>], [o \in {"z"} |-> <<"x">>]}}}
    \cup {[pre |-> Elements(<<"i">>, 0, NoKeys), paths |-> <<es>>] : es \in {Elements(<<"c", "e">>, 0, NoKeys), <<>>}}

\* DropStat: a counter is added, a statistic is taken over by another
\* counter, a row is missing; one RPC asks for all, the other filters.
DropRow(a, g, t) == [alias |-> a, group |-> g, type |-> t]
DropConfig1 == [stat |-> "n1" :> "s0", row |-> "n1" :> DropRow("a1", "g", "INGRESS")]
DropConfigs ==
  {DropConfig1,
   [stat |-> "n2" :> "s0" @@ "n1" :> "s1",
    row |-> "n2" :> DropRow("a2", "g", "EGRESS") @@ "n1" :> DropRow("a1", "h", "INGRESS")],
   [stat |-> "n2" :> "s1", row |-> [n \in {} |-> DropRow("", "", "")]]}
DropAsked ==
  <<{[group |-> "", type |-> ""]}, {[group |-> "g", type |-> "INGRESS"], [group |-> "", type |-> "ingress"]}>>

-----------------------------------------------------------------------------
VARIABLES counters, shm, copier, incs, life, dump
CO == INSTANCE Counters WITH CtRpcs <- {"c1", "c2"}, CounterSize <- 2,
      MaxIncs <- 2, MaxLives <- 2
countersVars == <<counters, shm, copier, incs, life, dump>>

VARIABLES buff, writeIdx, hist, hnStat, stash, vr
HN == INSTANCE HostStats WITH RingCap <- 3, Windows <- <<2, 3, 60>>,
      WordMod <- 512, MaxSamples <- 5, HsReaders <- {"v1", "v2"},
      stat <- hnStat
hostStatsVars == <<buff, writeIdx, hist, hnStat, stash, vr>>

VARIABLES cfgOk, instNum, redis, zmq, link, breaks, table, pend, mx, log
MX == INSTANCE MixedDb WITH MxRpcs <- {"m1", "m2"}, MxRequests <- MixedAsked,
      PlainTables <- {"plain"}, ZmqTables <- {"zmq"}, StateTables <- {},
      MxKeys <- {"k1", "k2"}, Instances <- {"host", "dpu0"}, Target <- "dpu0",
      MaxRetry <- 1, MaxBreaks <- 1
mixedDbVars == <<cfgOk, instNum, redis, zmq, link, breaks, table, pend, mx,
      log>>

VARIABLES names, data, ftCall, shared, ftCrashes
FT == INSTANCE FileTransfer WITH Calls <- {1, 2},
      Kinds <- {"put", "download", "remove"}, MaxChunks <- 3, MaxSize <- 1,
      MaxFtCrashes <- 1, call <- ftCall
fileTransferVars == <<names, data, ftCall, shared, ftCrashes>>

VARIABLES sem, image, present, total, os, handed, osCrashes
OS == INSTANCE OsInstall WITH MaxInstalls <- 3, MaxContent <- 2,
      MaxOsCrashes <- 1
osInstallVars == <<sem, image, present, total, os, handed, osCrashes>>

VARIABLES tool, up, down, gcStat, hd, device
GC == INSTANCE GnoiClient WITH Tools <- {"install", "put", "get", "artifact", "deploy", "setpackage"},
      MaxChunk <- 6, Window <- 2, ToolFaults <- {"args", "read", "host"},
      stat <- gcStat
gnoiClientVars == <<tool, up, down, gcStat, hd, device>>

VARIABLES cmd, left, pipe, rd, ch, closed, snd, rpc, done, broken, sent
DE == INSTANCE DebugExec WITH ChanCap <- 1, MaxOut <- 2
debugExecVars == <<cmd, left, pipe, rd, ch, closed, snd, rpc, done, broken,
      sent>>

VARIABLES dpu, conn, opened, lock, req, moves
DP == INSTANCE DpuProxy WITH Reqs <- {"q1", "q2"}, MaxMoves <- 1,
      Ips <- {"ip1", "ip2"}, PortsAtFirst <- DpuPorts, MaxBody <- 1
dpuProxyVars == <<dpu, conn, opened, lock, req, moves>>

VARIABLES rb, box, asked, answered, alien
RB == INSTANCE RebootNotify WITH RbRpcs <- {"r1", "r2"}, RbOps <- RebootOps,
      AlienOps <- {"Reboot"}, MaxAlien <- 1
rebootNotifyVars == <<rb, box, asked, answered, alien>>

VARIABLES job, host, reply, effects, artifact, sentAs, osMu
HS == INSTANCE HostServices WITH HsRpcs <- {"h1", "h2"}, HsKinds <- HostKinds,
      MaxChecks <- 1
hostServicesVars == <<job, host, reply, effects, artifact, sentAs, osMu>>

VARIABLES dir, tree, fsOps, og
OG == INSTANCE OperationalGet WITH OpRequests <- OperationalRequests,
      FileNames <- <<"boot.bin", "sonic.img", "sub">>, Kind <- Directory,
      Globs <- DirGlobs, MaxFsOps <- 1
operationalGetVars == <<dir, tree, fsOps, og>>

VARIABLES evMain, evGet, evStats, evWg, evSession, evStopped, evCnt, evErrs,
          evLat, evQ, evWr, evDb, evLog, evLife
EV == INSTANCE EventStats WITH PqMax <- 1, LatencySize <- 2,
      Latencies <- {2, 4}, MaxEvents <- 3, MaxMissed <- 1, MaxClients <- 1,
      EvFaults <- {"config"}
eventStatsVars == <<evMain, evGet, evStats, evWg, evSession, evStopped, evCnt,
      evErrs, evLat, evQ, evWr, evDb, evLog, evLife>>

VARIABLES rdb, typ, doEvents, ops, destGrp, users, subMap, inst, last,
          cancelled, rel, panic
DO == INSTANCE DialOut WITH Names <- {"s"}, Groups <- {"g1", "g2"},
      Dests <- {"d1"}, MaxOps <- 3, MaxInst <- 3, NoGroup <- "nogroup",
      events <- doEvents
dialOutVars == <<rdb, typ, doEvents, ops, destGrp, users, subMap, inst, last,
      cancelled, rel, panic>>

VARIABLES pub, sentBy, recvBy, clients, dataStore, serving
DS == INSTANCE DialOutServer WITH Streams <- {"p1", "p2"},
      Addresses <- {"a1", "a2"}, MaxResponses <- 3
dialOutServerVars == <<pub, sentBy, recvBy, clients, dataStore, serving>>

VARIABLES todo, trie, show, hw, shFile, shEvents, shCall, seen
SC == INSTANCE ShowCommands WITH Registrations <- ShowRegistered,
      ShowGets <- ShowRequests, GlobalOptions <- HelpOption,
      CounterPorts <- {"e0", "e4"}, ShowKinds <- {"port", "rif"},
      Asked <- {{}, {"e0"}}, Periods <- {-1000, -1, 0, 1}, MaxPeriod <- 1,
      MaxTraffic <- 2, MaxEvents <- 2,
      file <- shFile, events <- shEvents, call <- shCall
showCommandsVars == <<todo, trie, show>>
showCountersVars == <<hw, shFile, shEvents, shCall, seen>>

VARIABLES conf, caches, drop, changes, fails
DT == INSTANCE DropStat WITH DropRpcs <- {1, 2},
      CounterConfigs <- DropConfigs, DropFilters <- DropAsked,
      MaxReconfigs <- 1, MaxFails <- 1
dropStatVars == <<conf, caches, drop, changes, fails>>

-----------------------------------------------------------------------------
Parts == {"PathzRotate", "Counters", "HostStats", "MixedDb", "FileTransfer",
          "OsInstall", "GnoiClient", "DebugExec", "DpuProxy", "RebootNotify",
          "HostServices", "OperationalGet", "EventStats", "DialOut",
          "DialOutServer", "ShowCommands", "ShowCounters", "DropStat"}

\* Every component starts in one of its initial states, always the same one
\* if it is not the one that runs.
SuiteInit ==
  /\ part \in Parts
  /\ CO!CtInit
  /\ HN!HostInit
  /\ MX!MxInit /\ (part # "MixedDb" => cfgOk)
  /\ FT!FtInit
  /\ OS!OsInit
  /\ GC!GcInit /\ (part # "GnoiClient" => tool.kind = "get")
  /\ DE!DeInit /\ (part # "DebugExec" => left = [o \in DE!Outs |-> 0])
  /\ DP!DpInit /\ (part # "DpuProxy" => dpu.port[1] = "answers")
  /\ RB!RbInit
  /\ HS!HsInit
  /\ OG!OpInit /\ (part # "OperationalGet" => \A f \in DOMAIN tree : tree[f] = 0)
  /\ EV!EvInit
  /\ DO!Init /\ (part # "DialOut" => typ["s"] = "stream")
  /\ DS!DsInit /\ (part # "DialOutServer" => \A p \in {"p1", "p2"} : pub[p].addr = "a1")
  /\ SC!ScInit
  /\ SC!ShInit /\ (part # "ShowCounters" => \A p \in {"e0", "e4"} : hw[p].trimDrp = 0)
  /\ DT!DpsInit /\ (part # "DropStat" => conf = DropConfig1)
  /\ Init /\ (part # "PathzRotate" => file = Missing /\ mem = Unknown)

\* A step of the component p leaves the variables of the others alone.
Only(p) ==
  /\ part = p /\ UNCHANGED part
  /\ p # "PathzRotate" => UNCHANGED vars
  /\ p # "Counters" => UNCHANGED countersVars
  /\ p # "HostStats" => UNCHANGED hostStatsVars
  /\ p # "MixedDb" => UNCHANGED mixedDbVars
  /\ p # "FileTransfer" => UNCHANGED fileTransferVars
  /\ p # "OsInstall" => UNCHANGED osInstallVars
  /\ p # "GnoiClient" => UNCHANGED gnoiClientVars
  /\ p # "DebugExec" => UNCHANGED debugExecVars
  /\ p # "DpuProxy" => UNCHANGED dpuProxyVars
  /\ p # "RebootNotify" => UNCHANGED rebootNotifyVars
  /\ p # "HostServices" => UNCHANGED hostServicesVars
  /\ p # "OperationalGet" => UNCHANGED operationalGetVars
  /\ p # "EventStats" => UNCHANGED eventStatsVars
  /\ p # "DialOut" => UNCHANGED dialOutVars
  /\ p # "DialOutServer" => UNCHANGED dialOutServerVars
  /\ p # "ShowCommands" => UNCHANGED showCommandsVars
  /\ p # "ShowCounters" => UNCHANGED showCountersVars
  /\ p # "DropStat" => UNCHANGED dropStatVars

\* Call, request or stream i of the component is not at work.
Over(i) ==
  /\ part = "Counters" /\ i \in 1..2 => CO!Copied(<<"c1", "c2">>[i])
  /\ part = "HostStats" /\ i \in 1..2 => HN!Answered(<<"v1", "v2">>[i])
  /\ part = "MixedDb" /\ i \in 1..2 => MX!MxOver(<<"m1", "m2">>[i])
  /\ part = "FileTransfer" /\ i \in 1..2 => FT!CallOver(i)
  /\ part = "OsInstall" /\ i \in 1..3 => OS!LetsGo(i)
  /\ part = "GnoiClient" => GC!FittingOver
  /\ part = "DebugExec" => DE!RunOver
  /\ part = "DpuProxy" /\ i \in 1..2 => DP!RequestOver(<<"q1", "q2">>[i])
  /\ part = "RebootNotify" /\ i \in 1..2 => RB!RbOver(<<"r1", "r2">>[i])
  /\ part = "HostServices" /\ i \in 1..2 => HS!HsOver(<<"h1", "h2">>[i])
  /\ part = "OperationalGet" => OG!OpOver
  /\ part = "EventStats" => EV!EvOver
  /\ part = "DialOut" /\ i \in 1..3 => DO!ClosedOver(i)
  /\ part = "DialOutServer" /\ i \in 1..2 => DS!StreamStopped(<<"p1", "p2">>[i])
  /\ part = "ShowCounters" => SC!ShOver
  /\ part = "DropStat" /\ i \in 1..2 => DT!DpsOver(i)

\* The work of the component is over, so that it may stop; any other state
\* without a successor is a deadlock.  Some components never stop.
Finished ==
  /\ part \notin {"PathzRotate", "Counters", "HostStats"}
  /\ \A i \in 1..3 : Over(i)
  /\ part = "EventStats" => EV!AllEnded
  /\ part = "DialOut" => panic # "no" \/ doEvents = <<>>
  /\ part = "ShowCommands" => todo = <<>>

Stopped == Finished /\ UNCHANGED <<part, vars>>
           /\ UNCHANGED <<countersVars, hostStatsVars, mixedDbVars,
                         fileTransferVars, osInstallVars, gnoiClientVars,
                         debugExecVars, dpuProxyVars, rebootNotifyVars,
                         hostServicesVars, operationalGetVars, eventStatsVars,
                         dialOutVars, dialOutServerVars, showCommandsVars,
                         showCountersVars, dropStatVars>>

SuiteNext ==
  \/ Stopped
  \/ Only("PathzRotate") /\ Next
  \/ Only("Counters") /\ CO!CtNext
  \/ Only("HostStats") /\ HN!HostNext
  \/ Only("MixedDb") /\ MX!MxNext
  \/ Only("FileTransfer") /\ FT!FtNext
  \/ Only("OsInstall") /\ OS!OsNext
  \/ Only("GnoiClient") /\ GC!GcNext
  \/ Only("DebugExec") /\ DE!DeNext
  \/ Only("DpuProxy") /\ DP!DpNext
  \/ Only("RebootNotify") /\ RB!RbNext
  \/ Only("HostServices") /\ HS!HsNext
  \/ Only("OperationalGet") /\ OG!OpNext
  \/ Only("EventStats") /\ EV!EvNext
  \/ Only("DialOut") /\ DO!Next
  \/ Only("DialOutServer") /\ DS!DsNext
  \/ Only("ShowCommands") /\ SC!ScNext
  \/ Only("ShowCounters") /\ SC!ShNext
  \/ Only("DropStat") /\ DT!DpsNext

suiteVars == <<part, vars, countersVars, hostStatsVars, mixedDbVars,
               fileTransferVars, osInstallVars, gnoiClientVars, debugExecVars,
               dpuProxyVars, rebootNotifyVars, hostServicesVars,
               operationalGetVars, eventStatsVars, dialOutVars,
               dialOutServerVars, showCommandsVars, showCountersVars,
               dropStatVars>>

\* Each component with the fairness of its own specification.
SuiteSpec ==
  /\ SuiteInit /\ [][SuiteNext]_suiteVars
  /\ \A x \in {"c1", "c2"} : WF_countersVars(part = "Counters" /\ CO!CtStep(x))
  /\ \A x \in {"v1", "v2"} : WF_hostStatsVars(part = "HostStats" /\ (HN!getBuildVersion(x) \/ HN!LoadVersion(x)))
  /\ \A x \in {"m1", "m2"} : WF_mixedDbVars(part = "MixedDb" /\ MX!MxStep(x))
  /\ \A x \in 1..2 : WF_fileTransferVars(part = "FileTransfer" /\ FT!Work(x))
  /\ \A x \in 1..3 : WF_osInstallVars(part = "OsInstall" /\ OS!Handler(x))
  /\ WF_gnoiClientVars(part = "GnoiClient" /\ GC!Tool)
  /\ WF_gnoiClientVars(part = "GnoiClient" /\ GC!Handle)
  /\ WF_debugExecVars(part = "DebugExec" /\ DE!HandleCommandRequest)
  /\ WF_debugExecVars(part = "DebugExec" /\ DE!StartCommand)
  /\ WF_debugExecVars(part = "DebugExec" /\ DE!RunCommand)
  /\ WF_debugExecVars(part = "DebugExec" /\ DE!SendStatus)
  /\ WF_debugExecVars(part = "DebugExec" /\ DE!CommandEnds)
  /\ \A x \in {"out", "err"} : WF_debugExecVars(part = "DebugExec" /\ DE!Produce(x))
  /\ \A x \in {"out", "err"} : WF_debugExecVars(part = "DebugExec" /\ DE!ReadPipe(x))
  /\ \A x \in {"out", "err"} : WF_debugExecVars(part = "DebugExec" /\ DE!chanWriter(x))
  /\ \A x \in {"out", "err"} : WF_debugExecVars(part = "DebugExec" /\ DE!streamDataInChannel(x))
  /\ \A x \in {"q1", "q2"} : WF_dpuProxyVars(part = "DpuProxy" /\ DP!Handle(x))
  /\ \A x \in {"r1", "r2"} : WF_rebootNotifyVars(part = "RebootNotify" /\ RB!RbStep(x))
  /\ \A x \in {"h1", "h2"} : WF_hostServicesVars(part = "HostServices" /\ HS!HsStep(x))
  /\ \A x \in {"h1", "h2"} : WF_hostServicesVars(part = "HostServices" /\ HS!Returns(x))
  /\ WF_operationalGetVars(part = "OperationalGet" /\ OG!OpStep)
  /\ WF_eventStatsVars(part = "EventStats" /\ EV!StreamRun)
  /\ WF_eventStatsVars(part = "EventStats" /\ EV!get_events)
  /\ WF_eventStatsVars(part = "EventStats" /\ EV!update_stats)
  /\ WF_dialOutVars(part = "DialOut" /\ DO!Process)
  /\ \A x \in 1..3 : WF_dialOutVars(part = "DialOut" /\ DO!Publisher(x))
  /\ \A x \in 1..3 : WF_dialOutVars(part = "DialOut" /\ DO!Ended(x) /\ DO!Send(x))
  /\ \A x \in {"p1", "p2"} : WF_dialOutServerVars(part = "DialOutServer" /\ ~serving /\ DS!RunEnds(x))
  /\ \A x \in {"p1", "p2"} : WF_dialOutServerVars(part = "DialOutServer" /\ DS!PublishReturns(x))
  /\ WF_showCountersVars(part = "ShowCounters" /\ SC!ShStep)
  /\ \A x \in 1..2 : WF_dropStatVars(part = "DropStat" /\ DT!DpsStep(x))

-----------------------------------------------------------------------------
\* The variables of every component have their types.
PartsTypeOK ==
  /\ part = "PathzRotate" => TypeOK
  /\ part = "Counters" => CO!CtTypeOK
  /\ part = "HostStats" => HN!HostTypeOK
  /\ part = "MixedDb" => MX!MxTypeOK
  /\ part = "FileTransfer" => FT!FtTypeOK
  /\ part = "OsInstall" => OS!OsTypeOK
  /\ part = "GnoiClient" => GC!GcTypeOK
  /\ part = "DebugExec" => DE!DeTypeOK
  /\ part = "DpuProxy" => DP!DpTypeOK
  /\ part = "RebootNotify" => RB!RbTypeOK
  /\ part = "HostServices" => HS!HsTypeOK
  /\ part = "OperationalGet" => OG!OpTypeOK
  /\ part = "EventStats" => EV!EvTypeOK
  /\ part = "DialOut" => DO!TypeOK
  /\ part = "DialOutServer" => DS!DsTypeOK
  /\ part = "ShowCommands" => SC!ScTypeOK
  /\ part = "ShowCounters" => SC!ShTypeOK
  /\ part = "DropStat" => DT!DpsTypeOK

\* What an RPC or a writer has done to the host, the databases and its peers
\* is what its answer says, and nothing of it is left over.
EffectsExact ==
  /\ part = "MixedDb" => MX!Converges /\ MX!WritesPrefix /\ MX!MapWhole
  /\ part = "FileTransfer" => FT!NoTempLeft /\ FT!DownloadHash
  /\ part = "OsInstall" => OS!ImageRemoved
  /\ part = "GnoiClient" => GC!ReportIsTrue /\ GC!FailedPutLeavesNothing
  /\ part = "DpuProxy" => DP!OneConnection /\ DP!ForwardsCached /\ DP!TransferExact
  /\ part = "HostServices" => HS!EffectsInOrder /\ HS!OkMeansDone /\ HS!HealthyMeansReady /\ HS!ArtifactMatchesHeader
  /\ part = "DialOut" => DO!UsersComplete
  /\ part = "DialOutServer" => DS!NothingLost /\ DS!NoReturnedClient

\* What is reported agrees with what was observed: samples, files, events,
\* responses, counters and the command that was asked for.
AnswersFaithful ==
  /\ part = "Counters" => CO!NeverAhead
  /\ part = "HostStats" => HN!SlotIsRecent /\ HN!PercentInRange /\ HN!OneVersion
  /\ part = "DebugExec" => DE!ResponseOrder
  /\ part = "RebootNotify" => RB!TakesOwnKind /\ RB!NoMissedAnswer
  /\ part = "OperationalGet" => OG!ListingFaithful /\ OG!FilesConsistent /\ OG!AllOrNothing /\ OG!DiskOnly
  /\ part = "EventStats" => EV!WaitCountsAll /\ EV!Accounted
  /\ part = "ShowCommands" => SC!CallsNamed /\ SC!OptionsHonoured /\ SC!AllOrHelp
  /\ part = "ShowCounters" => SC!IntervalExact /\ SC!NeverNegative
  /\ part = "DropStat" => DT!CachesAgree /\ DT!FreshColumns

\* A step that hands something over hands over all of it and nothing else: the
\* file that is renamed, the image that is installed, the status after the
\* output, the counters that one copier copies, the latency of the latest
\* events, the columns of a filter.
HandsOverExact ==
  [][/\ part = "FileTransfer" => FT!PutRenamesVerified
     /\ part = "OsInstall" => OS!HandsOverWhole
     /\ part = "DebugExec" => DE!StatusIsLast
     /\ part = "Counters" => CO!AloneCopies
     /\ part = "EventStats" => EV!LatencyMoves
     /\ part = "DropStat" => DT!ShowsSelected]_suiteVars

\* Under the fairness above whatever a component begins ends, and what was
\* asked of it is in force in the end: CopiesEnd, VersionAnswered, MxEnds,
\* CallsEnd, InstallEnds, FittingCallsEnd, Answered, RequestsEnd, RbEnds,
\* HsEnds, OpEnds, StatsCatchUp, EvEnds, ClosedEnds, ConfigApplied,
\* StopEndsStreams, ShEnds and DpsEnds.
WorkGetsDone ==
  /\ \A i \in 1..3 : []<>Over(i)
  /\ []<>(part = "EventStats" => EV!StatsAreThere)
  /\ <>[](part = "DialOut" => DO!Applied("s"))
=============================================================================
