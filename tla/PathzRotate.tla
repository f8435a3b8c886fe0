---------------------------- MODULE PathzRotate -----------------------------
(***************************************************************************)
(* The gNSI.pathz Rotate RPC (gnmi_server/gnsi_pathz.go) on a server that  *)
(* enforces pathz policies: the policy in the authorizer, the policy file  *)
(* with its backup, the version of the policy in memory, in STATE_DB and   *)
(* in the metadata file, and restarts of the process at any point.  A      *)
(* version stands for the pair of version and creation time.               *)
(***************************************************************************)
CONSTANTS Clients,    \* Rotate RPCs that may be open at once
          Policies,   \* policies the authorizer accepts
          Bad,        \* a policy or file content it rejects: no rules, no policy
          Nil,        \* the authorizer has no policy
          Versions,   \* versions, among them Unknown
          Unknown, Missing, None,
          Faults      \* "io": file operations may fail, "db": STATE_DB may

PathzConstants ==
  /\ None \notin Clients /\ Unknown \in Versions
  /\ Bad \notin Policies /\ Nil \notin Policies /\ Missing \notin Policies \cup {Bad}
  /\ Faults \subseteq {"io", "db"}

ASSUME PathzAssumption == PathzConstants

VARIABLES
  holder,               \* the holder of pathzMu
  pc,                   \* where each RPC is
  upload,               \* the policy being uploaded
  policy, policyCopy,   \* pathzProcessor's policy and its checkpoint
  policyUpdated,
  file, backup,         \* pathzV1Policy and pathzV1PolicyBackup
  mem,                  \* pathzMetadata; pathzMetadataCopy is an alias of it
  row,                  \* the version in STATE_DB's credentials table
  metafile,             \* PathzMetaFile
  good,                 \* the policy file a rotation must go back to
  failed                \* some file or STATE_DB operation has failed

processor == <<policy, policyCopy, policyUpdated>>
files == <<file, backup>>
meta == <<mem, row, metafile>>
vars == <<holder, pc, upload, processor, files, meta, good, failed>>

Contents == Policies \cup {Bad}
Files == Contents \cup {Missing}
Goto(c, l) == pc' = [pc EXCEPT ![c] = l]
\* A file or database operation does what it should, or fails.
Ok == failed' = failed
Fails(f) == f \in Faults /\ failed' = TRUE

\* UpdatePolicyFromFile of a new authorizer.
Load(f) == IF f \in Policies THEN f ELSE Nil

\* An update that takes the policy without looking at its rules.
UpdatePolicyFromProto_Unchecked(p) == policy' = p

\* UpdatePolicyFromProto: a policy that is rejected changes nothing.
UpdatePolicyFromProto(p) == policy' = IF p \in Policies THEN p ELSE policy

Init ==
  /\ holder = None /\ pc = [c \in Clients |-> "idle"]
  /\ file \in Files /\ backup = Missing /\ upload = file
  /\ policy = Load(file) /\ policyCopy = Nil /\ policyUpdated = FALSE
  /\ mem \in Versions /\ row = mem /\ metafile = mem
  /\ good = file /\ failed = FALSE

\* TryLock and fileCheck; without a file Rotate returns at once.
Begin(c) ==
  /\ pc[c] = "idle" /\ holder = None /\ file # Missing
  /\ holder' = c
  /\ Goto(c, "checkpoint")
  /\ UNCHANGED <<upload, processor, files, meta, good, failed>>

\* Rotate returns, giving up the mutex.
Return(c) == holder' = None /\ Goto(c, "idle")

createCheckpoint(c) ==
  /\ pc[c] = "checkpoint"
  /\ policyCopy' = policy /\ policyUpdated' = FALSE
  /\ \/ backup' = file /\ Ok /\ Goto(c, "recv") /\ holder' = holder
     \/ backup' = backup /\ Fails("io") /\ Return(c)
  /\ UNCHANGED <<upload, policy, file, meta, good>>

\* The peer is gone, the stream fails, the request is refused, or it is a
\* Finalize and nothing has been uploaded.
Abort(c) ==
  /\ pc[c] \in {"recv", "reply"}
  /\ Goto(c, "revert")
  /\ UNCHANGED <<holder, upload, processor, files, meta, good, failed>>

\* An UploadRequest that passes the checks sets the version first.
Upload(c) ==
  /\ pc[c] = "recv"
  /\ \E p \in Contents, v \in Versions, force \in BOOLEAN :
       /\ v # mem \/ force
       /\ upload' = p /\ mem' = v
  /\ Goto(c, "save")
  /\ UNCHANGED <<holder, processor, files, row, metafile, good, failed>>

\* The file is written in place and read back; a failed write removes it.
savePathzPolicyToFile(c) ==
  /\ pc[c] = "save"
  /\ \/ file' = upload /\ Ok /\ Goto(c, "update")
     \/ file' \in Files /\ Fails("io") /\ Goto(c, "revert")
  /\ UNCHANGED <<holder, upload, processor, backup, meta, good>>

updatePolicy(c) ==
  /\ pc[c] = "update"
  /\ UpdatePolicyFromProto(upload)
  /\ IF upload \in Policies
     THEN policyUpdated' = TRUE /\ Goto(c, "reply")
     ELSE UNCHANGED policyUpdated /\ Goto(c, "revert")
  /\ UNCHANGED <<holder, upload, policyCopy, files, meta, good, failed>>

Reply(c) ==
  /\ pc[c] = "reply"
  /\ Goto(c, "recv")
  /\ UNCHANGED <<holder, upload, processor, files, meta, good, failed>>

\* Revert that restores the file and leaves the authorizer alone.
revertPolicy_FileOnly(c) ==
  /\ pc[c] = "revert"
  /\ policyUpdated' = FALSE
  /\ file' = backup /\ backup' = Missing
  /\ Return(c)
  /\ UNCHANGED <<upload, policy, policyCopy, meta, good, failed>>

\* The authorizer goes back first; with no policy to go back to, Rotate gives
\* up and removes the backup.  Then the backup is renamed.  The version is
\* assigned from its own alias.
revertPolicy(c) ==
  /\ pc[c] = "revert"
  /\ policyUpdated' = FALSE
  /\ IF policyUpdated THEN UpdatePolicyFromProto(policyCopy) ELSE UNCHANGED policy
  /\ \/ /\ policyUpdated /\ policyCopy = Nil
        /\ backup' = Missing /\ file' = file /\ Ok
     \/ /\ ~(policyUpdated /\ policyCopy = Nil)
        /\ \/ file' = backup /\ backup' = Missing /\ Ok
           \/ UNCHANGED files /\ Fails("io")
  /\ Return(c)
  /\ UNCHANGED <<upload, policyCopy, meta, good>>

\* FinalizeRotation after an upload: the version goes to STATE_DB.  "Revert
\* won't be called if the final commit fails."
commitChanges(c) ==
  /\ pc[c] = "recv" /\ policyUpdated
  /\ good' = file
  /\ \/ row' = mem /\ Ok /\ Goto(c, "savemeta") /\ holder' = holder
     \/ row' \in {row, mem} /\ Fails("db") /\ Return(c)
  /\ UNCHANGED <<upload, processor, files, mem, metafile>>

\* Then to the metadata file, which a failed write removes.
savePathzFileFreshess(c) ==
  /\ pc[c] = "savemeta"
  /\ \/ metafile' = mem /\ backup' = Missing /\ Ok
     \/ metafile' \in {metafile, Unknown} /\ backup' = backup /\ Fails("io")
  /\ Return(c)
  /\ UNCHANGED <<upload, processor, file, mem, row, good>>

\* The process is killed and started again.  Both files are written in place:
\* a write that is cut short leaves anything of the policy and nothing that
\* can be read of the metadata.
Restart ==
  /\ holder' = None /\ pc' = [c \in Clients |-> "idle"]
  /\ file' \in {file} \cup (IF \E c \in Clients : pc[c] = "save" THEN Contents ELSE {})
  /\ metafile' \in {metafile} \cup (IF \E c \in Clients : pc[c] = "savemeta"
                                     THEN {mem, Unknown} ELSE {})
  /\ policy' = Load(file') /\ policyCopy' = Nil /\ policyUpdated' = FALSE
  /\ mem' = metafile' /\ row' = metafile'
  /\ good' = file'
  /\ UNCHANGED <<upload, backup, failed>>

Step(c) ==
  \/ Begin(c) \/ createCheckpoint(c) \/ Abort(c) \/ Upload(c)
  \/ savePathzPolicyToFile(c) \/ updatePolicy(c) \/ Reply(c) \/ revertPolicy(c)
  \/ commitChanges(c) \/ savePathzFileFreshess(c)

Next == Restart \/ \E c \in Clients : Step(c)

Spec == Init /\ [][Next]_vars

---------------------------------------------------------------------------
PCs == {"idle", "checkpoint", "recv", "save", "update", "reply", "revert", "savemeta"}

\* Type correctness of the authorizer, the files, the metadata and the RPCs.
TypeOK ==
  /\ holder \in Clients \cup {None} /\ pc \in [Clients -> PCs]
  /\ policy \in Policies \cup {Nil} /\ policyCopy \in Policies \cup {Nil}
  /\ policyUpdated \in BOOLEAN
  /\ file \in Files /\ backup \in Files /\ upload \in Files /\ good \in Files
  /\ mem \in Versions /\ row \in Versions /\ metafile \in Versions
  /\ failed \in BOOLEAN

\* Between rotations the authorizer enforces the last policy that was loaded
\* at a start or finalized, and a restart would load that same policy: a
\* rotation that is not finalized leaves neither the authorizer nor the policy
\* file changed, provided the authorizer had a policy when it began.
PolicyIsGood ==
  holder = None /\ ~failed /\ good \in Policies => policy = good /\ file = good

\* Between rotations STATE_DB and memory report the same version: "Revert all
\* changes made until now" includes the version of an upload that is undone.
VersionReverted == holder = None /\ ~failed => mem = row

---------------------------------------------------------------------------
(* For any number of RPCs, policies and versions: between rotations the    *)
(* authorizer and the policy file hold the last policy that was loaded or  *)
(* finalized, if the authorizer could load one.                            *)

\* An RPC that is under way holds the mutex.
Mutex == \A c \in Clients : pc[c] # "idle" => holder = c

\* Outside the steps that install and undo a policy, the good one is in force.
GoodInForce ==
  ~failed /\ good \in Policies =>
    /\ holder = None => policy = good /\ file = good
    /\ \A c \in Clients :
         pc[c] \in {"checkpoint", "savemeta"} => policy = good /\ file = good

\* In those steps the good policy is in the checkpoint, and in the authorizer
\* unless policyUpdated says otherwise.
Undoable ==
  ~failed /\ good \in Policies =>
    \A c \in Clients :
      pc[c] \in {"recv", "save", "update", "reply", "revert"} =>
        /\ backup = good /\ policyCopy = good
        /\ policyUpdated = FALSE => policy = good

\* After an upload the authorizer and the file agree.
Uploaded ==
  ~failed => \A c \in Clients :
    /\ pc[c] = "update" => file = upload
    /\ pc[c] \in {"recv", "reply"} /\ policyUpdated = TRUE =>
         policy = file /\ file \in Policies

IInv == TypeOK /\ Mutex /\ GoodInForce /\ Undoable /\ Uploaded
=============================================================================
