---------------------------- MODULE RotateProofs ----------------------------
(***************************************************************************)
(* The gNSI rotations for any number of RPCs, policies and versions.       *)
(* AuthzRotate: the version is persistent between rotations, a rotation    *)
(* can be undone until it is finalized, and Rotate implements the abstract *)
(* rotation.  PathzRotate: between rotations the last good policy is both  *)
(* enforced and stored.                                                    *)
(***************************************************************************)
EXTENDS AuthzRotate, TLAPS

\* An RPC that is under way holds the mutex.
Mutex == \A c \in Clients : pc[c] # "idle" => holder = c

\* A policy file never disappears; while there is none, there is no backup.
FilesExist ==
  /\ file = Missing => backup = Missing
  /\ good = Missing <=> file = Missing
  /\ \A c \in Clients : pc[c] = "save" => upload \in Policies /\ file # Missing

\* Outside the steps that install and undo a policy, the good one is in force.
GoodInForce ==
  ~failed =>
    /\ holder = None => file = good
    /\ \A c \in Clients :
         pc[c] \in {"checkpoint", "revertmeta", "savemeta"} => file = good

\* Until the end of a rotation the metadata file has the checkpointed version.
VersionStages ==
  ~failed =>
    /\ row = mem
    /\ holder = None => mem = metafile
    /\ \A c \in Clients :
         pc[c] \in PCs \ {"idle", "savemeta"} => copy = metafile

IInv == TypeOK /\ Mutex /\ FilesExist /\ BackupIsGood /\ GoodInForce /\ VersionStages

\* The inductive invariant holds in every initial state.
LEMMA InitIInv == Init => IInv
  BY AuthzAssumption, Zenon
  DEF Init, IInv, TypeOK, Mutex, FilesExist, BackupIsGood, GoodInForce,
      VersionStages, Files, PCs

\* Every step of the program preserves the inductive invariant.
LEMMA NextIInv == IInv /\ [Next]_vars => IInv'
<1> SUFFICES ASSUME IInv, [Next]_vars
             PROVE  IInv'
  OBVIOUS
<1> USE AuthzAssumption DEF IInv, TypeOK, Mutex, FilesExist, BackupIsGood,
        GoodInForce, VersionStages, Files, PCs, Goto, Ok, Fails, files, meta
<1>1. ASSUME NEW c \in Clients, Begin(c)
      PROVE  IInv'
  BY <1>1 DEF Begin
<1>2. ASSUME NEW c \in Clients, checkpointAuthzFile(c)
      PROVE  IInv'
  BY <1>2, Zenon DEF checkpointAuthzFile
<1>3. ASSUME NEW c \in Clients, Abort(c)
      PROVE  IInv'
  BY <1>3 DEF Abort
<1>4. ASSUME NEW c \in Clients, Upload(c)
      PROVE  IInv'
  <2>1. PICK p \in Policies, v \in Versions :
          /\ upload' = p
          /\ \/ row' = v /\ mem' = v /\ Ok /\ Goto(c, "save")
             \/ row' \in {row, v} /\ mem' \in {mem, v} /\ Fails("db") /\ Goto(c, "revertfile")
    BY <1>4 DEF Upload
  <2>2. /\ pc[c] = "recv" /\ file # Missing
        /\ UNCHANGED <<holder, file, backup, copy, metafile, good>>
    BY <1>4 DEF Upload
  <2>3. CASE row' = v /\ mem' = v /\ Ok /\ Goto(c, "save")
    BY <2>1, <2>2, <2>3
  <2>4. CASE row' \in {row, v} /\ mem' \in {mem, v} /\ Fails("db") /\ Goto(c, "revertfile")
    BY <2>1, <2>2, <2>4
  <2>5. QED
    BY <2>1, <2>3, <2>4, Zenon
<1>5. ASSUME NEW c \in Clients, saveToAuthzFile(c)
      PROVE  IInv'
  BY <1>5, Zenon DEF saveToAuthzFile
<1>6. ASSUME NEW c \in Clients, Reply(c)
      PROVE  IInv'
  BY <1>6 DEF Reply
<1>7. ASSUME NEW c \in Clients, revertFile(c)
      PROVE  IInv'
  BY <1>7, Zenon DEF revertFile
<1>8. ASSUME NEW c \in Clients, revertAuthzFileFreshness(c)
      PROVE  IInv'
  BY <1>8, Zenon DEF revertAuthzFileFreshness
<1>9. ASSUME NEW c \in Clients, commitAuthzFileChanges(c)
      PROVE  IInv'
  BY <1>9, Zenon DEF commitAuthzFileChanges
<1>10. ASSUME NEW c \in Clients, saveAuthzFileFreshess(c)
      PROVE  IInv'
  BY <1>10, Zenon DEF saveAuthzFileFreshess
<1>11. CASE Restart
  BY <1>11 DEF Restart
<1>12. CASE UNCHANGED vars
  BY <1>12 DEF vars
<1>13. QED
  BY <1>1, <1>2, <1>3, <1>4, <1>5, <1>6, <1>7, <1>8, <1>9, <1>10, <1>11, <1>12, Zenon DEF Next, Step

\* The invariant holds in every reachable state.
THEOREM SpecIInv == Spec => []IInv
  BY InitIInv, NextIInv, PTL DEF Spec

\* Between rotations memory and STATE_DB report the persistent version.
THEOREM VersionSafe == Spec => []VersionIsPersistent
<1>1. IInv => VersionIsPersistent
  BY DEF IInv, VersionStages, VersionIsPersistent
<1>2. QED
  BY <1>1, SpecIInv, PTL

\* Until it is finalized, a rotation can be undone from the backup.
THEOREM BackupSafe == Spec => []BackupIsGood
<1>1. IInv => BackupIsGood
  BY DEF IInv
<1>2. QED
  BY <1>1, SpecIInv, PTL

\* The initial states map to initial states of the abstract rotation.
LEMMA InitAbstract == Init => Abstract!Init
  BY DEF Init, Abstract!Init

\* Every step maps to a step of the abstract rotation or to none.
LEMMA NextAbstract == IInv /\ [Next]_vars => [Abstract!Next]_(Abstract!vars)
<1> SUFFICES ASSUME IInv, [Next]_vars
             PROVE  [Abstract!Next]_(Abstract!vars)
  OBVIOUS
<1> USE AuthzAssumption DEF IInv, TypeOK, Mutex, FilesExist, BackupIsGood,
        GoodInForce, Files, Ok, Fails, files, Abstract!vars, Abstract!Next, Abstract!Step
<1>1. ASSUME NEW c \in Clients, Begin(c)
      PROVE  [Abstract!Next]_(Abstract!vars)
  BY <1>1 DEF Begin, Abstract!Begin
<1>2. ASSUME NEW c \in Clients, checkpointAuthzFile(c)
      PROVE  [Abstract!Next]_(Abstract!vars)
  BY <1>2, Zenon DEF checkpointAuthzFile, Abstract!Install
<1>3. ASSUME NEW c \in Clients, Abort(c)
      PROVE  [Abstract!Next]_(Abstract!vars)
  BY <1>3 DEF Abort
<1>4. ASSUME NEW c \in Clients, Upload(c)
      PROVE  [Abstract!Next]_(Abstract!vars)
  BY <1>4, Zenon DEF Upload, Abstract!Install
<1>5. ASSUME NEW c \in Clients, saveToAuthzFile(c)
      PROVE  [Abstract!Next]_(Abstract!vars)
  BY <1>5, Zenon DEF saveToAuthzFile, Abstract!Install
<1>6. ASSUME NEW c \in Clients, Reply(c)
      PROVE  [Abstract!Next]_(Abstract!vars)
  BY <1>6 DEF Reply
<1>7. ASSUME NEW c \in Clients, revertFile(c)
      PROVE  [Abstract!Next]_(Abstract!vars)
  BY <1>7, Zenon DEF revertFile, Abstract!Install
<1>8. ASSUME NEW c \in Clients, revertAuthzFileFreshness(c)
      PROVE  [Abstract!Next]_(Abstract!vars)
  <2>1. holder = c /\ holder' = None /\ UNCHANGED <<file, good>>
    BY <1>8 DEF revertAuthzFileFreshness
  <2>2. ~failed => file = good
    BY <1>8 DEF revertAuthzFileFreshness
  <2>3. failed' = failed \/ failed' = TRUE
    BY <1>8 DEF revertAuthzFileFreshness
  <2>4. file = good \/ failed'
    BY <2>2, <2>3, Zenon
  <2>5. Abstract!Release(c)
    BY <2>1, <2>4 DEF Abstract!Release
  <2>6. QED
    BY <2>3, <2>5, Zenon
<1>9. ASSUME NEW c \in Clients, commitAuthzFileChanges(c)
      PROVE  [Abstract!Next]_(Abstract!vars)
  BY <1>9, Zenon DEF commitAuthzFileChanges, Abstract!Finalize
<1>10. ASSUME NEW c \in Clients, saveAuthzFileFreshess(c)
      PROVE  [Abstract!Next]_(Abstract!vars)
  <2>1. holder = c /\ holder' = None /\ UNCHANGED <<file, good>>
    BY <1>10 DEF saveAuthzFileFreshess
  <2>2. ~failed => file = good
    BY <1>10 DEF saveAuthzFileFreshess
  <2>3. failed' = failed \/ failed' = TRUE
    BY <1>10 DEF saveAuthzFileFreshess
  <2>4. file = good \/ failed'
    BY <2>2, <2>3, Zenon
  <2>5. Abstract!Release(c)
    BY <2>1, <2>4 DEF Abstract!Release
  <2>6. QED
    BY <2>3, <2>5, Zenon
<1>11. CASE Restart
  BY <1>11 DEF Restart, Abstract!Restart
<1>12. CASE UNCHANGED vars
  BY <1>12 DEF vars
<1>13. QED
  BY <1>1, <1>2, <1>3, <1>4, <1>5, <1>6, <1>7, <1>8, <1>9, <1>10, <1>11, <1>12, Zenon DEF Next, Step

\* Rotate of gNSI.authz implements the abstract rotation: one RPC at a time,
\* and no effect unless it is finalized or storage fails.
THEOREM Refinement == Spec => ImplementsRotation
  BY InitAbstract, NextAbstract, SpecIInv, PTL DEF Spec, ImplementsRotation, Abstract!Spec

---------------------------------------------------------------------------
(* PathzRotate for any number of RPCs, policies and versions               *)

CONSTANTS Bad, Nil
VARIABLES policy, policyCopy, policyUpdated

PZ == INSTANCE PathzRotate

\* The inductive invariant holds in every initial state.
LEMMA PathzInit == ASSUME PZ!PathzConstants PROVE PZ!Init => PZ!IInv
  BY Zenon
  DEF PZ!PathzConstants, PZ!Init, PZ!IInv, PZ!TypeOK, PZ!Mutex, PZ!GoodInForce, PZ!Undoable, PZ!Uploaded, PZ!Files, PZ!Contents,
      PZ!PCs, PZ!Load

\* Every step of the program preserves the inductive invariant.
LEMMA PathzNext == ASSUME PZ!PathzConstants PROVE PZ!IInv /\ [PZ!Next]_(PZ!vars) => PZ!IInv'
<1> SUFFICES ASSUME PZ!IInv, [PZ!Next]_(PZ!vars)
             PROVE  PZ!IInv'
  OBVIOUS
<1> USE DEF PZ!PathzConstants, PZ!IInv, PZ!TypeOK, PZ!Mutex, PZ!GoodInForce, PZ!Undoable, PZ!Uploaded,
        PZ!Files, PZ!Contents, PZ!PCs, PZ!Goto, PZ!Return, PZ!Ok, PZ!Fails, PZ!processor, PZ!files, PZ!meta
<1>1. ASSUME NEW c \in Clients, PZ!Begin(c)
      PROVE  PZ!IInv'
  BY <1>1 DEF PZ!Begin
<1>2. ASSUME NEW c \in Clients, PZ!createCheckpoint(c)
      PROVE  PZ!IInv'
  <2>1. PZ!TypeOK' /\ PZ!Mutex'
    BY <1>2, Zenon DEF PZ!createCheckpoint
  <2>2. PZ!GoodInForce'
    BY <1>2 DEF PZ!createCheckpoint
  <2>3. PZ!Undoable'
    BY <1>2 DEF PZ!createCheckpoint
  <2>4. PZ!Uploaded'
    BY <1>2 DEF PZ!createCheckpoint
  <2>5. QED
    BY <2>1, <2>2, <2>3, <2>4
<1>3. ASSUME NEW c \in Clients, PZ!Abort(c)
      PROVE  PZ!IInv'
  BY <1>3 DEF PZ!Abort
<1>4. ASSUME NEW c \in Clients, PZ!Upload(c)
      PROVE  PZ!IInv'
  BY <1>4 DEF PZ!Upload
<1>5. ASSUME NEW c \in Clients, PZ!savePathzPolicyToFile(c)
      PROVE  PZ!IInv'
  <2>1. PZ!TypeOK' /\ PZ!Mutex'
    <3>1. PZ!TypeOK'
      BY <1>5, Zenon DEF PZ!savePathzPolicyToFile
    <3>2. PZ!Mutex'
      BY <1>5 DEF PZ!savePathzPolicyToFile
    <3>3. QED
      BY <3>1, <3>2
  <2>2. PZ!GoodInForce'
    BY <1>5 DEF PZ!savePathzPolicyToFile
  <2>3. PZ!Undoable'
    BY <1>5 DEF PZ!savePathzPolicyToFile
  <2>4. PZ!Uploaded'
    BY <1>5 DEF PZ!savePathzPolicyToFile
  <2>5. QED
    BY <2>1, <2>2, <2>3, <2>4
<1>6. ASSUME NEW c \in Clients, PZ!updatePolicy(c)
      PROVE  PZ!IInv'
  <2>1. PZ!TypeOK' /\ PZ!Mutex'
    BY <1>6, Zenon DEF PZ!updatePolicy, PZ!UpdatePolicyFromProto
  <2>2. PZ!GoodInForce'
    BY <1>6 DEF PZ!updatePolicy, PZ!UpdatePolicyFromProto
  <2>3. PZ!Undoable'
    BY <1>6 DEF PZ!updatePolicy, PZ!UpdatePolicyFromProto
  <2>4. PZ!Uploaded'
    BY <1>6 DEF PZ!updatePolicy, PZ!UpdatePolicyFromProto
  <2>5. QED
    BY <2>1, <2>2, <2>3, <2>4
<1>7. ASSUME NEW c \in Clients, PZ!Reply(c)
      PROVE  PZ!IInv'
  BY <1>7 DEF PZ!Reply
<1>8. ASSUME NEW c \in Clients, PZ!revertPolicy(c)
      PROVE  PZ!IInv'
  <2>1. /\ pc[c] = "revert" /\ holder = c
        /\ UNCHANGED <<upload, policyCopy, mem, row, metafile, good>>
        /\ holder' = None /\ PZ!Goto(c, "idle") /\ policyUpdated' = FALSE
    BY <1>8 DEF PZ!revertPolicy
  <2>2. failed' = failed \/ failed' = TRUE
    BY <1>8 DEF PZ!revertPolicy
  <2>3. policy' \in Policies \cup {Nil} /\ file' \in PZ!Files /\ backup' \in PZ!Files
    BY <1>8 DEF PZ!revertPolicy, PZ!UpdatePolicyFromProto
  <2>4. ASSUME ~failed', good \in Policies
        PROVE  policy' = good /\ file' = good
    <3>1. ~failed
      BY <2>2, <2>4, Zenon
    <3>2. backup = good /\ policyCopy = good /\ (policyUpdated = FALSE => policy = good)
      BY <2>1, <2>4, <3>1
    <3>3. policyCopy # Nil
      BY <2>4, <3>2
    <3>4. policy' = good
      BY <1>8, <2>4, <3>2 DEF PZ!revertPolicy, PZ!UpdatePolicyFromProto
    <3>5. file' = backup
      BY <1>8, <2>4, <3>3 DEF PZ!revertPolicy
    <3>6. QED
      BY <3>2, <3>4, <3>5
  <2>5. PZ!TypeOK'
    BY <2>1, <2>2, <2>3, Zenon
  <2>6. PZ!Mutex' /\ pc'[c] = "idle" /\ \A d \in Clients : pc'[d] = "idle"
    BY <2>1
  <2>7. QED
    BY <2>1, <2>4, <2>5, <2>6
<1>9. ASSUME NEW c \in Clients, PZ!commitChanges(c)
      PROVE  PZ!IInv'
  <2>1. pc[c] = "recv" /\ policyUpdated = TRUE
    BY <1>9 DEF PZ!commitChanges
  <2>2. ~failed => policy = file /\ file \in Policies
    BY <2>1
  <2>3. PZ!TypeOK' /\ PZ!Mutex'
    BY <1>9, Zenon DEF PZ!commitChanges
  <2>4. PZ!GoodInForce'
    BY <1>9, <2>1, <2>2 DEF PZ!commitChanges
  <2>5. PZ!Undoable' /\ PZ!Uploaded'
    BY <1>9, <2>1 DEF PZ!commitChanges
  <2>6. QED
    BY <2>3, <2>4, <2>5
<1>10. ASSUME NEW c \in Clients, PZ!savePathzFileFreshess(c)
      PROVE  PZ!IInv'
  <2>1. PZ!TypeOK' /\ PZ!Mutex'
    <3>1. PZ!TypeOK'
      <4>1. metafile' \in Versions /\ backup' \in PZ!Files
        BY <1>10 DEF PZ!savePathzFileFreshess
      <4>2. failed' \in BOOLEAN
        BY <1>10, Zenon DEF PZ!savePathzFileFreshess
      <4>3. /\ UNCHANGED <<upload, PZ!processor, file, mem, row, good>>
            /\ holder' = None /\ pc' = [pc EXCEPT ![c] = "idle"]
        BY <1>10 DEF PZ!savePathzFileFreshess
      <4>4. QED
        BY <4>1, <4>2, <4>3
    <3>2. PZ!Mutex'
      BY <1>10 DEF PZ!savePathzFileFreshess
    <3>3. QED
      BY <3>1, <3>2
  <2>2. PZ!GoodInForce'
    BY <1>10 DEF PZ!savePathzFileFreshess
  <2>3. PZ!Undoable'
    BY <1>10 DEF PZ!savePathzFileFreshess
  <2>4. PZ!Uploaded'
    BY <1>10 DEF PZ!savePathzFileFreshess
  <2>5. QED
    BY <2>1, <2>2, <2>3, <2>4
<1>11. CASE PZ!Restart
  BY <1>11, Zenon DEF PZ!Restart, PZ!Load
<1>12. CASE UNCHANGED PZ!vars
  BY <1>12 DEF PZ!vars
<1>13. QED
  BY <1>1, <1>2, <1>3, <1>4, <1>5, <1>6, <1>7, <1>8, <1>9, <1>10, <1>11, <1>12, Zenon DEF PZ!Next, PZ!Step

\* The invariant holds in every reachable state.
THEOREM PathzIInv == ASSUME PZ!PathzConstants PROVE PZ!Spec => []PZ!IInv
  BY PathzInit, PathzNext, PTL DEF PZ!Spec

\* Between rotations the last good policy is enforced and stored, however the
\* rotations ended and wherever the process was killed.
THEOREM PolicySafe == ASSUME PZ!PathzConstants PROVE PZ!Spec => []PZ!PolicyIsGood
<1>1. PZ!IInv => PZ!PolicyIsGood
  BY DEF PZ!IInv, PZ!GoodInForce, PZ!PolicyIsGood
<1>2. QED
  BY <1>1, PathzIInv, PTL
=============================================================================
