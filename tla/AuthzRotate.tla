---------------------------- MODULE AuthzRotate -----------------------------
(***************************************************************************)
(* The gNSI.authz Rotate RPC (gnmi_server/gnsi_authz.go): the policy file  *)
(* with its backup, the version of the policy in memory, in STATE_DB and   *)
(* in the metadata file, and restarts of the process at any point.  A      *)
(* version stands for the pair of version and creation time.               *)
(***************************************************************************)
CONSTANTS Clients,    \* Rotate RPCs that may be open at once
          Policies,   \* contents of the policy file
          Versions,   \* versions, among them Unknown
          Unknown, Missing, None,
          Faults      \* "io": file operations may fail, "db": STATE_DB may

ASSUME AuthzAssumption ==
  /\ None \notin Clients /\ Missing \notin Policies /\ Unknown \in Versions
  /\ Faults \subseteq {"io", "db"}

VARIABLES
  holder,         \* the holder of authzMu
  pc,             \* where each RPC is
  upload,         \* the policy being saved
  file, backup,   \* AuthzPolicyFile and its backup
  mem, copy,      \* authzMetadata and authzMetadataCopy
  row,            \* the version in STATE_DB's credentials table
  metafile,       \* AuthzMetaFile
  good,           \* the policy a rotation must go back to
  failed          \* some file or STATE_DB operation has failed

files == <<file, backup>>
meta == <<mem, copy, row, metafile>>
vars == <<holder, pc, upload, files, meta, good, failed>>

Files == Policies \cup {Missing}
Goto(c, l) == pc' = [pc EXCEPT ![c] = l]
\* A file or database operation does what it should, or fails.
Ok == failed' = failed
Fails(f) == f \in Faults /\ failed' = TRUE

Init ==
  /\ holder = None /\ pc = [c \in Clients |-> "idle"]
  /\ file \in Files /\ backup = Missing /\ upload = file
  /\ mem \in Versions /\ copy = mem /\ row = mem /\ metafile = mem
  /\ good = file /\ failed = FALSE

\* TryLock, then the checkpoint of the metadata.
Begin(c) ==
  /\ pc[c] = "idle" /\ holder = None
  /\ holder' = c /\ copy' = mem
  /\ Goto(c, "checkpoint")
  /\ UNCHANGED <<upload, files, mem, row, metafile, good, failed>>

\* Checkpoint of the metadata only.
checkpointAuthzFile_Skip(c) ==
  /\ pc[c] = "checkpoint"
  /\ Goto(c, "recv")
  /\ UNCHANGED <<holder, upload, files, meta, good, failed>>

\* copyFile to the backup, which needs a file; failing is only logged.
checkpointAuthzFile(c) ==
  /\ pc[c] = "checkpoint"
  /\ \/ backup' = (IF file = Missing THEN backup ELSE file) /\ Ok
     \/ Fails("io") /\ backup' = backup
  /\ Goto(c, "recv")
  /\ UNCHANGED <<holder, upload, file, meta, good>>

\* The peer is gone, the stream fails, or the request is refused.
Abort(c) ==
  /\ pc[c] \in {"recv", "reply"}
  /\ Goto(c, "revertfile")
  /\ UNCHANGED <<holder, upload, files, meta, good, failed>>

\* An UploadRequest that passes the checks on the request, the file and the
\* version; the version is written to STATE_DB and then to memory.
Upload(c) ==
  /\ pc[c] = "recv" /\ file # Missing
  /\ \E p \in Policies, v \in Versions, force \in BOOLEAN :
       /\ v # mem \/ force
       /\ upload' = p
       /\ \/ row' = v /\ mem' = v /\ Ok /\ Goto(c, "save")
          \/ row' \in {row, v} /\ mem' \in {mem, v} /\ Fails("db") /\ Goto(c, "revertfile")
  /\ UNCHANGED <<holder, files, copy, metafile, good>>

\* A save in place, which a full disk may cut short.
saveToAuthzFile_InPlace(c) ==
  /\ pc[c] = "save"
  /\ file' \in {upload, "torn"} /\ Ok /\ Goto(c, "reply")
  /\ UNCHANGED <<holder, upload, backup, meta, good>>

\* A temporary file is written and renamed.
saveToAuthzFile(c) ==
  /\ pc[c] = "save"
  /\ \/ file' = upload /\ Ok /\ Goto(c, "reply")
     \/ file' \in {file, upload} /\ Fails("io") /\ Goto(c, "revertfile")
  /\ UNCHANGED <<holder, upload, backup, meta, good>>

Reply(c) ==
  /\ pc[c] = "reply"
  /\ Goto(c, "recv")
  /\ UNCHANGED <<holder, upload, files, meta, good, failed>>

\* Revert that restores the metadata only.
revertFile_Skip(c) ==
  /\ pc[c] = "revertfile"
  /\ Goto(c, "revertmeta")
  /\ UNCHANGED <<holder, upload, files, meta, good, failed>>

revertFile(c) ==
  /\ pc[c] = "revertfile"
  /\ \/ file' = (IF backup = Missing THEN file ELSE backup) /\ Ok
     \/ Fails("io") /\ file' = file
  /\ Goto(c, "revertmeta")
  /\ UNCHANGED <<holder, upload, backup, meta, good>>

\* Revert that keeps the uploaded version.
revertAuthzFileFreshness_Skip(c) ==
  /\ pc[c] = "revertmeta"
  /\ holder' = None
  /\ Goto(c, "idle")
  /\ UNCHANGED <<upload, files, meta, good, failed>>

\* The checkpointed version goes back to STATE_DB and memory; Rotate returns.
revertAuthzFileFreshness(c) ==
  /\ pc[c] = "revertmeta"
  /\ \/ row' = copy /\ mem' = copy /\ Ok
     \/ Fails("db") /\ row' \in {row, copy} /\ mem' \in {mem, copy}
  /\ holder' = None
  /\ Goto(c, "idle")
  /\ UNCHANGED <<upload, files, copy, metafile, good>>

\* FinalizeRotation: the backup goes, if there is a file.
commitAuthzFileChanges(c) ==
  /\ pc[c] = "recv"
  /\ \/ backup' = (IF file = Missing THEN backup ELSE Missing) /\ Ok
     \/ Fails("io") /\ backup' = backup
  /\ good' = file
  /\ Goto(c, "savemeta")
  /\ UNCHANGED <<holder, upload, file, meta>>

\* A failed write removes the metadata file.  Rotate returns.
saveAuthzFileFreshess(c) ==
  /\ pc[c] = "savemeta"
  /\ \/ metafile' = mem /\ Ok
     \/ Fails("io") /\ metafile' \in {metafile, Unknown}
  /\ holder' = None
  /\ Goto(c, "idle")
  /\ UNCHANGED <<upload, files, mem, copy, row, good>>

\* The process is killed and started again: the version comes from the
\* metadata file, the policy is the one in the policy file.  The metadata is
\* written in place, so a write that is cut short leaves an unreadable file.
Restart ==
  /\ holder' = None /\ pc' = [c \in Clients |-> "idle"]
  /\ metafile' \in {metafile} \cup (IF \E c \in Clients : pc[c] = "savemeta"
                                     THEN {mem, Unknown} ELSE {})
  /\ mem' = metafile' /\ copy' = metafile' /\ row' = metafile'
  /\ good' = file
  /\ UNCHANGED <<upload, files, failed>>

Step(c) ==
  \/ Begin(c) \/ checkpointAuthzFile(c) \/ Abort(c) \/ Upload(c)
  \/ saveToAuthzFile(c) \/ Reply(c) \/ revertFile(c)
  \/ revertAuthzFileFreshness(c) \/ commitAuthzFileChanges(c)
  \/ saveAuthzFileFreshess(c)

Next == Restart \/ \E c \in Clients : Step(c)

Spec == Init /\ [][Next]_vars

---------------------------------------------------------------------------
PCs == {"idle", "checkpoint", "recv", "save", "reply", "revertfile",
        "revertmeta", "savemeta"}

\* Type correctness of the files, the metadata and the RPCs.
TypeOK ==
  /\ holder \in Clients \cup {None} /\ pc \in [Clients -> PCs]
  /\ file \in Files /\ backup \in Files /\ upload \in Files /\ good \in Files
  /\ mem \in Versions /\ copy \in Versions /\ row \in Versions
  /\ metafile \in Versions /\ failed \in BOOLEAN

\* Between rotations the version that memory and STATE_DB report is the one
\* a restart would report: neither an aborted rotation nor a restart in the
\* middle of one leaves a version behind that was never finalized.
VersionIsPersistent ==
  holder = None /\ ~failed => mem = metafile /\ row = metafile

\* Until it is finalized, a rotation can be undone: the backup has what the
\* policy file held when the rotation began.
BackupIsGood ==
  ~failed => \A c \in Clients :
    pc[c] \in {"recv", "save", "reply", "revertfile"} => backup = good

Abstract == INSTANCE Rotation WITH Creds <- Files, active <- file

\* Rotate implements the promise of a rotation: mutual exclusion, and no
\* effect unless finalized.
ImplementsRotation == Abstract!Spec
=============================================================================
