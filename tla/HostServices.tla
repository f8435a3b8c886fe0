---------------------------- MODULE HostServices ----------------------------
(***************************************************************************)
(* The gNOI handlers that work through the host: Containerz.Deploy,        *)
(* KillProcess, factory reset, OS Activate and Verify, File.Stat,          *)
(* SetPackage, the reboot of a DPU, Healthz Get, Artifact and Acknowledge, *)
(* the image and configuration actions of sonic_gnoi.  They reach the host *)
(* by D-Bus (sonic_service_client/dbus_client.go: DbusApi, one method per  *)
(* call), by nsenter (pkg/exec/command.go: RunHostCommand) or through      *)
(* translib (TranslProcessAction).  The first two give up after a timeout  *)
(* while the host goes on: a call that was given up may still take effect, *)
(* and nobody reads its answer.                                            *)
(***************************************************************************)
EXTENDS Naturals, Sequences, FiniteSets

CONSTANTS HsRpcs,
          HsKinds,    \* the kinds of request each RPC may be
          MaxChecks   \* polls of an artifact before its deadline

VARIABLES job,       \* the RPCs: kind, pc, i (calls made), answer
          host,      \* calls sent to the host and not performed: <<rpc, i>>
          reply,     \* answers in an RPC's channel of one
          effects,   \* per RPC, the calls that took effect
          artifact,  \* the file a collection writes: absent, partial, ready
          sentAs,    \* what an Artifact RPC has hashed and sent
          osMu       \* the mutex of InstallOS

hsVars == <<job, host, reply, effects, artifact, sentAs, osMu>>

---------------------------------------------------------------------------
(* The calls.  A D-Bus method may check the type of what it is given back; *)
(* all but the actions of translib have a timeout.                         *)

Dbus(name, typed) == [name |-> name, typed |-> typed, timed |-> TRUE]
RunHostCommand(name) == [name |-> name, typed |-> FALSE, timed |-> TRUE]
TranslProcessAction(name) == [name |-> name, typed |-> TRUE, timed |-> FALSE]

StopService == Dbus("stop_service", FALSE)
RestartService == Dbus("restart_service", FALSE)
\* Its caller parses the fields of a map that is empty if the type was wrong.
GetFileStat == Dbus("get_file_stat", TRUE)
DownloadFile == Dbus("download", FALSE)
RemoveFile == Dbus("remove", FALSE)
ListImages == Dbus("list_images", TRUE)
ActivateImage == Dbus("set_next_boot", FALSE)
LoadDockerImage == Dbus("load", FALSE)
FactoryReset == Dbus("issue_reset", TRUE)
InstallOS == Dbus("gnoi_install_os", TRUE)
HealthzCheck == Dbus("check", TRUE)
HealthzCollect == Dbus("collect", TRUE)
HealthzAck == Dbus("ack", TRUE)

\* Every sequence of calls a handler may make of a request it accepts.
Deploy == {<<DownloadFile, LoadDockerImage, RemoveFile>>}
KillOrRestartProcess == {<<StopService>>, <<RestartService>>}
Reset == {<<FactoryReset>>}
Activate == {<<ActivateImage>>}
Verify == {<<ListImages>>}
HandleVerify == {<<RunHostCommand("list")>>}
readFileStat == {<<GetFileStat>>}
installPackage == RunHostCommand("install")
activatePackage == RunHostCommand("set-default")
HandleSetPackage == {<<installPackage>>, <<installPackage, activatePackage>>}
HandleDPUReboot == {<<RunHostCommand("reboot")>>}
Install == {<<InstallOS>>}
getDebugData == {<<HealthzCollect, HealthzCheck>>}
Artifact == {<<>>}
Acknowledge == {<<HealthzAck>>}
ClearNeighbors == {<<TranslProcessAction("clear-neighbors")>>}
CopyConfig == {<<TranslProcessAction("copy")>>}
ShowTechsupport == {<<TranslProcessAction("techsupport")>>}
ImageInstall == {<<TranslProcessAction("image-install")>>}
ImageRemove == {<<TranslProcessAction("image-remove")>>}
ImageDefault == {<<TranslProcessAction("image-default")>>}

Handlers(k) ==
  CASE k = "Deploy"      -> Deploy
    [] k = "KillProcess" -> KillOrRestartProcess
    [] k = "Reset"       -> Reset
    [] k = "Activate"    -> Activate
    [] k = "Verify"      -> Verify \cup HandleVerify
    [] k = "Stat"        -> readFileStat
    [] k = "SetPackage"  -> HandleSetPackage
    [] k = "DPUReboot"   -> HandleDPUReboot
    [] k = "InstallOS"   -> Install
    [] k = "Healthz"     -> getDebugData
    [] k = "Artifact"    -> Artifact
    [] k = "Acknowledge" -> Acknowledge
    [] k = "Action"      -> ClearNeighbors \cup CopyConfig \cup ShowTechsupport
                            \cup ImageInstall \cup ImageRemove \cup ImageDefault

HsInit ==
  /\ job = [r \in HsRpcs |-> [kind |-> "none", pc |-> "idle", calls |-> <<>>, i |-> 0, checks |-> 0, ready |-> FALSE]]
  /\ host = {} /\ reply = [r \in HsRpcs |-> "none"]
  /\ effects = [r \in HsRpcs |-> <<>>]
  /\ artifact = "absent"
  /\ sentAs = [r \in HsRpcs |-> [hash |-> "none", off |-> "start", body |-> "none"]]
  /\ osMu = "free"

In(r, pc) == job[r].pc = pc
Goto(r, pc) == job' = [job EXCEPT ![r].pc = pc]

\* The request is checked before anything is sent: a Pid or another signal than
\* TERM, a relative file name, a first message that is no ImageTransfer, a path
\* that is no debug data.
Accept(r) ==
  /\ In(r, "idle")
  /\ \E k \in HsKinds[r], pc \in {"call", "error"} : \E cs \in Handlers(k) :
       job' = [job EXCEPT ![r].kind = k, ![r].calls = cs,
                 ![r].pc = IF pc = "call" /\ k = "Artifact" THEN "hash"
                           ELSE IF pc = "call" /\ k = "InstallOS" THEN "lock" ELSE pc]
  /\ UNCHANGED <<host, reply, effects, artifact, sentAs, osMu>>

InstallOSLock(r) ==
  /\ In(r, "lock") /\ osMu = "free" /\ osMu' = r /\ Goto(r, "call")
  /\ UNCHANGED <<host, reply, effects, artifact, sentAs>>

Release(r) == osMu' = IF osMu = r THEN "free" ELSE osMu

\* obj.Go and cmd.Run; there may be no system bus.
DbusApi(r) ==
  /\ In(r, "call")
  /\ \/ /\ job' = [job EXCEPT ![r].pc = "wait", ![r].i = @ + 1]
        /\ host' = host \cup {<<r, job[r].i + 1>>} /\ reply' = [reply EXCEPT ![r] = "none"]
        /\ UNCHANGED osMu
     \/ /\ Goto(r, IF job[r].kind = "DPUReboot" THEN "ok" ELSE "error")
        /\ Release(r) /\ UNCHANGED <<host, reply>>
  /\ UNCHANGED <<effects, artifact, sentAs>>

\* The call with number i of an RPC; a poll of Healthz repeats its last.
CallNo(r, i) == job[r].calls[IF i > Len(job[r].calls) THEN Len(job[r].calls) ELSE i]

\* The answer belongs to the call the RPC waits for, or to one it gave up: that
\* call had a channel of its own.
Answer(r, i, a) == reply' = IF In(r, "wait") /\ job[r].i = i THEN [reply EXCEPT ![r] = a] ELSE reply

\* The host: a collection starts the file, the check says whether it is
\* complete.  What was done may be answered in a form that cannot be read, or
\* with a result of another type.
Perform(r, i) ==
  /\ <<r, i>> \in host /\ host' = host \ {<<r, i>>}
  /\ \/ /\ effects' = [effects EXCEPT ![r] = Append(@, i)]
        /\ LET c == CallNo(r, i)
           IN /\ artifact' = CASE c = HealthzCollect -> "partial" [] c = HealthzAck -> "absent"
                               [] OTHER -> artifact
              /\ \E a \in {IF c = HealthzCheck THEN artifact ELSE "done", "invalid", "untyped"} : Answer(r, i, a)
     \/ Answer(r, i, "failed") /\ UNCHANGED <<effects, artifact>>
  /\ UNCHANGED <<job, sentAs, osMu>>

Collected ==
  /\ artifact = "partial" /\ artifact' = "ready"
  /\ UNCHANGED <<job, host, reply, effects, sentAs, osMu>>

\* The next call of the script, or the end of it.
Advance(r) ==
  job' = [job EXCEPT ![r].pc =
    IF job[r].i < Len(job[r].calls) THEN "call"
    ELSE IF job[r].kind = "Healthz" THEN "hash" ELSE "ok"]

Failed(r) ==
  job' = [job EXCEPT ![r].pc =
    IF job[r].kind = "DPUReboot" THEN "ok"
    ELSE IF job[r].kind = "Healthz" /\ job[r].i >= 2 THEN "sleep" ELSE "error"]

\* result[0] = 0 is success; Healthz keeps what the check said, and a readable
\* answer ends its wait whether the artifact is ready or not.
Result(r) ==
  /\ In(r, "wait") /\ reply[r] # "none"
  /\ IF \/ reply[r] \in {"failed", "invalid"}
        \/ reply[r] = "untyped" /\ CallNo(r, job[r].i).typed
     THEN Failed(r)
     ELSE IF job[r].kind = "Healthz" /\ job[r].i >= 2
     THEN job' = [job EXCEPT ![r].pc = "hash", ![r].ready = (reply[r] = "ready")]
     ELSE Advance(r)
  /\ reply' = [reply EXCEPT ![r] = "none"] /\ Release(r)
  /\ UNCHANGED <<host, effects, artifact, sentAs>>

GiveUp(r) ==
  /\ In(r, "wait") /\ reply[r] = "none" /\ CallNo(r, job[r].i).timed
  /\ Failed(r) /\ Release(r)
  /\ UNCHANGED <<host, reply, effects, artifact, sentAs>>

\* waitForArtifact, until the deadline of five minutes.
waitForArtifact(r) ==
  /\ In(r, "sleep")
  /\ job' = IF job[r].checks < MaxChecks THEN [job EXCEPT ![r].pc = "call", ![r].checks = @ + 1]
            ELSE [job EXCEPT ![r].pc = "error"]
  /\ UNCHANGED <<host, reply, effects, artifact, sentAs, osMu>>

\* getDebugData and Artifact hash the file to its end ...
HashFile(r) ==
  /\ In(r, "hash")
  /\ IF artifact = "absent" THEN Goto(r, "error") /\ UNCHANGED sentAs
     ELSE /\ sentAs' = [sentAs EXCEPT ![r].hash = artifact, ![r].off = "end"]
          /\ Goto(r, IF job[r].kind = "Artifact" THEN "seek" ELSE "ok")
  /\ UNCHANGED <<host, reply, effects, artifact, osMu>>

MutSeek(r) ==
  /\ In(r, "seek") /\ \E pc \in {"stream", "error"} : Goto(r, pc)
  /\ UNCHANGED <<host, reply, effects, artifact, sentAs, osMu>>

\* ... and Artifact goes back to its start, sends the header and the contents.
Seek(r) ==
  /\ In(r, "seek") /\ sentAs' = [sentAs EXCEPT ![r].off = "start"]
  /\ \E pc \in {"stream", "error"} : Goto(r, pc)
  /\ UNCHANGED <<host, reply, effects, artifact, osMu>>

\* An unlinked file is still read through its descriptor.
Stream(r) ==
  /\ In(r, "stream")
  /\ LET now == IF artifact = "absent" THEN sentAs[r].hash ELSE artifact
     IN sentAs' = [sentAs EXCEPT ![r].body = IF sentAs[r].off = "start" THEN now ELSE "empty"]
  /\ \E pc \in {"ok", "error"} : Goto(r, pc)
  /\ UNCHANGED <<host, reply, effects, artifact, osMu>>

HsStep(r) ==
  \/ Accept(r) \/ InstallOSLock(r) \/ DbusApi(r) \/ Result(r) \/ GiveUp(r)
  \/ waitForArtifact(r) \/ HashFile(r) \/ Seek(r) \/ Stream(r)
HsNext ==
  \/ Collected
  \/ \E r \in HsRpcs : HsStep(r) \/ \E i \in 1..(MaxChecks + 3) : Perform(r, i)
\* An action of translib runs in the process and returns.
Returns(r) == job[r].kind = "Action" /\ Perform(r, 1)
HsSpec == HsInit /\ [][HsNext]_hsVars /\ \A r \in HsRpcs : WF_hsVars(HsStep(r)) /\ WF_hsVars(Returns(r))

---------------------------------------------------------------------------
HsEnded == {"ok", "error"}
\* The artifact and the jobs keep their types; osMu is held by an Install under way.
HsTypeOK ==
  /\ artifact \in {"absent", "partial", "ready"} /\ osMu \in HsRpcs \cup {"free"}
  /\ \A r \in HsRpcs : osMu = r => job[r].kind = "InstallOS" /\ job[r].pc \in {"call", "wait"}

\* What an RPC did on the host is a prefix of its handler's calls, in their
\* order, each once: a later call is not sent before the earlier one took
\* effect (Deploy never loads an image it did not download), timeouts included.
EffectsInOrder ==
  \A r \in HsRpcs : job[r].kind # "Healthz" => effects[r] = [j \in 1..Len(effects[r]) |-> j]

\* An RPC that answers success has done everything: Deploy's file is loaded and
\* removed, SetPackage's image installed and activated.  (HandleDPUReboot
\* answers success whatever the command did.)
OkMeansDone ==
  \A r \in HsRpcs : In(r, "ok") /\ job[r].kind \notin {"Healthz", "Artifact", "DPUReboot"} =>
    Len(effects[r]) = Len(job[r].calls)

\* Healthz.Get reports STATUS_HEALTHY with the hash of a complete artifact only.
HealthyMeansReady ==
  \A r \in HsRpcs : In(r, "ok") /\ job[r].ready /\ artifact # "absent"
    /\ Cardinality({q \in HsRpcs : job[q].kind = "Healthz"}) = 1 => sentAs[r].hash = "ready"

\* The contents Artifact sends have the hash it announced, when the file was
\* complete and no new collection began.
ArtifactMatchesHeader ==
  \A r \in HsRpcs : In(r, "ok") /\ job[r].kind = "Artifact" /\ sentAs[r].hash = "ready"
    /\ Cardinality({q \in HsRpcs : job[q].kind = "Healthz"}) <= 1 => sentAs[r].body = "ready"

\* Every RPC ends though the host never answers: each call has a timeout, the
\* polling a deadline, and the mutex of InstallOS is given back.
HsOver(r) == job[r].pc \in HsEnded \cup {"idle"}
HsEnds == \A r \in HsRpcs : []<>HsOver(r)
=============================================================================
