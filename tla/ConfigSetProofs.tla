-------------------------- MODULE ConfigSetProofs ---------------------------
(***************************************************************************)
(* ConfigSet for any number of RPCs, any requests and any faults: what a   *)
(* Set that returned success has left in CONFIG_DB and config_db.json,     *)
(* what a Get sees of it, who the master is, and what the patch of a Set   *)
(* does, by induction over its edits.                                      *)
(***************************************************************************)
EXTENDS ConfigCallProofs, WellFoundedInduction

\* The properties follow from the invariant.
LEMMA IInvImplies == IInv => TypeOK /\ GetSeesSets /\ SuccessIsSaved /\ MasterIsHighest
<1> SUFFICES ASSUME IInv
             PROVE  TypeOK /\ GetSeesSets /\ SuccessIsSaved /\ MasterIsHighest
  OBVIOUS
<1>1. /\ \A r \in Sets : pc[r] = "call" <=> \E i \in DOMAIN calls : calls[i].by = r
      /\ \A i, j \in DOMAIN calls : calls[i].by = calls[j].by => i = j \/ calls[i].by = None
  BY DEF IInv, Queued, CallsOK, Waiting
<1>2. TypeOK
  BY <1>1 DEF IInv, Typed, TypeOK, PCs
<1>3. GetSeesSets
  BY DEF IInv, Reading, GetSeesSets
<1>4. SuccessIsSaved
  BY DEF IInv, Saving, SuccessIsSaved
<1>5. QED
  BY <1>2, <1>3, <1>4 DEF IInv, Mastered

\* The invariant holds in every initial state.
LEMMA InitIInv == Init => IInv
<1> SUFFICES ASSUME Init
             PROVE  IInv
  OBVIOUS
<1>1. CallsOK(calls) /\ \A r \in Sets, o \in Ops : ~Waiting(calls, r) /\ ~Calling(calls, o, r)
  <2>1. calls = <<>> /\ DOMAIN calls = {}
    BY DEF Init
  <2>2. calls \in Seq(Range(calls))
    BY <2>1
  <2>3. QED
    BY <2>1, <2>2 DEF CallsOK, Waiting, Calling
<1>2. Typed /\ Asked /\ Reading /\ Mastered
  <2>1. Typed
    <3>1. ver = 0 /\ saved = 0 /\ floor = 0 /\ 0 \in 0 .. ver
      BY DEF Init
    <3>2. tmp \in BOOLEAN /\ stuck \in BOOLEAN
      BY Zenon DEF Init
    <3>3. /\ pc \in [Sets -> PCs]
          /\ out \in [Sets -> {None, "ok", "err", "killed"}]
          /\ gpc \in [Gets -> {"idle", "checkpoint", "db", "done"}]
      BY DEF Init, PCs
    <3>4. /\ applied \in [Sets -> 0 .. ver]
          /\ answer \in [Gets -> 0 .. ver] /\ need \in [Gets -> 0 .. ver]
      BY <3>1 DEF Init
    <3>5. QED
      BY <3>1, <3>2, <3>3, <3>4 DEF Init, Typed
  <2>2. Asked /\ Reading
    BY DEF Init, Asked, Reading
  <2>3. Mastered
    BY DEF Init, Mastered, MasterIsHighest
  <2>4. QED
    BY <2>1, <2>2, <2>3
<1>3. Queued /\ Saving /\ Checkpoints
  BY <1>1 DEF Init, Queued, Saving, Checkpoints, Ops
<1>4. QED
  BY <1>2, <1>3 DEF IInv

---------------------------------------------------------------------------
(* The other steps                                                         *)

\* Arbitration lets in only Sets whose election id is not above the master's.
LEMMA ReqFromMasterIInv ==
  ASSUME IInv, NEW r \in Sets, ReqFromMaster(r)
  PROVE  IInv'
<1>1. PICK q \in Requests :
        LET c == IF q.eid = None THEN 0 ELSE Compare(masterEID, q.eid)
        IN /\ req' = [req EXCEPT ![r] = q]
           /\ masterEID' = IF c = -1 THEN q.eid ELSE masterEID
           /\ pc' = [pc EXCEPT ![r] = IF c = 1 THEN "done" ELSE "set"]
           /\ out' = [out EXCEPT ![r] = IF c = 1 THEN "err" ELSE None]
  BY Zenon DEF ReqFromMaster
<1> DEFINE c == IF q.eid = None THEN 0 ELSE Compare(masterEID, q.eid)
<1>2. /\ pc[r] = "idle"
      /\ UNCHANGED <<ver, ck, saved, tmp, calls, applied, gpc, answer, need, floor, stuck>>
  BY DEF ReqFromMaster, files, get, history
<1>3. /\ pc' \in [Sets -> PCs] /\ pc'[r] \in {"set", "done"} /\ (c = 1 <=> pc'[r] = "done")
      /\ \A x \in Sets : x # r => pc'[x] = pc[x]
  BY <1>1 DEF IInv, Typed, PCs
<1>4. /\ out' \in [Sets -> {None, "ok", "err", "killed"}] /\ (pc'[r] = "done" => out'[r] = "err")
      /\ \A x \in Sets : x # r => out'[x] = out[x]
  BY <1>1, <1>3 DEF IInv, Typed
<1>5. DOMAIN req' = Sets /\ req'[r] = q /\ \A x \in Sets : x # r => req'[x] = req[x]
  BY <1>1 DEF IInv, Asked
<1>6. Typed' /\ Reading'
  BY <1>2, <1>3, <1>4 DEF IInv, Typed, Reading
<1>7. ~Waiting(calls, r) /\ \A o \in Ops : ~Calling(calls, o, r)
  BY <1>2, CallingOne DEF IInv, Queued
<1>8. Queued'
  BY <1>2, <1>3, <1>7 DEF IInv, Queued
<1>9. Asked'
  BY <1>3, <1>5, ConfigAssumption DEF IInv, Asked
<1>10. Saving'
  BY <1>2, <1>3, <1>4, <1>7 DEF IInv, Saving, Ops
<1>11. Checkpoints'
  BY <1>2, <1>5, <1>7 DEF IInv, Checkpoints, Ops
<1>12. Mastered'
  <2> DEFINE m == masterEID
             below(e, n) == n[1] > e[1] \/ (n[1] = e[1] /\ n[2] >= e[2])
  <2>1. m \in Nat \X Nat /\ masterEID' = (IF c = -1 THEN q.eid ELSE m)
    BY <1>1 DEF IInv, Mastered
  <2>2. CASE q.eid = None
    <3>1. masterEID' = m
      BY <2>1, <2>2
    <3>2. QED
      BY <1>2, <1>3, <1>5, <2>1, <2>2, <3>1 DEF IInv, Mastered, MasterIsHighest
  <2>3. CASE q.eid # None
    <3>1. q.eid \in Nat \X Nat /\ c = Compare(m, q.eid)
      BY <2>3, ConfigAssumption
    <3>2. q.eid[1] \in Nat /\ q.eid[2] \in Nat /\ m[1] \in Nat /\ m[2] \in Nat
      BY <2>1, <3>1
    <3>3. m = q.eid <=> m[1] = q.eid[1] /\ m[2] = q.eid[2]
      BY <2>1, <3>1
    <3>4. /\ c = -1 => below(m, q.eid)
          /\ c \in {0, 1, -1}
          /\ c = 0 => m = q.eid
      BY <3>1, <3>2, <3>3 DEF Compare
    <3>5. masterEID' \in Nat \X Nat /\ below(m, masterEID') /\ (c # 1 => below(q.eid, masterEID'))
      BY <2>1, <3>1, <3>2, <3>4
    <3>6. ASSUME NEW x \in Sets, pc'[x] \notin {"idle", "done"}
          PROVE  req'[x].eid = None \/ below(req'[x].eid, masterEID')
      <4>1. CASE x = r
        BY <1>3, <1>5, <3>5, <3>6, <4>1
      <4>2. CASE x # r
        <5>1. pc[x] # "idle" /\ (req[x].eid = None \/ below(req[x].eid, m)) /\ req'[x] = req[x]
          BY <1>3, <1>5, <3>6, <4>2 DEF IInv, Mastered, MasterIsHighest
        <5>2. CASE masterEID' = m
          BY <5>1, <5>2
        <5>3. CASE c = -1 /\ req[x].eid # None
          <6>1. masterEID' = q.eid
            BY <2>1, <5>3
          <6>2. req[x].eid[1] \in Nat /\ req[x].eid[2] \in Nat
            BY <5>1, <5>3 DEF IInv, Asked
          <6>3. below(req[x].eid, q.eid)
            BY <3>2, <3>4, <5>1, <5>3, <6>2
          <6>4. QED
            BY <5>1, <6>1, <6>3
        <5>4. QED
          BY <2>1, <5>1, <5>2, <5>3
      <4>3. QED
        BY <4>1, <4>2
    <3>7. QED
      BY <3>5, <3>6 DEF Mastered, MasterIsHighest
  <2>4. QED
    BY <2>2, <2>3
<1>13. QED
  BY <1>6, <1>8, <1>9, <1>10, <1>11, <1>12 DEF IInv

\* Edits that are left are edits.
LEMMA TailEdits ==
  ASSUME NEW es, EditsOK(es), es # <<>>
  PROVE  EditsOK(Tail(es))
<1>1. es \in Seq(Range(es))
  BY DEF EditsOK
<1>2. /\ Tail(es) \in Seq(Range(es))
      /\ \A i \in DOMAIN Tail(es) : i + 1 \in DOMAIN es /\ Tail(es)[i] = es[i + 1]
  BY <1>1
<1>3. Tail(es) \in Seq(Range(Tail(es)))
  BY <1>2, SeqRange, Zenon
<1> QED
  BY <1>2, <1>3 DEF EditsOK

\* A Set ends without a call, or only writes rows: it has no version to save.
QuietStep(r, result) ==
  /\ pc[r] = "set"
  /\ (pc' = pc /\ out' = out) \/ Return(r, result)
  /\ ver' \in Nat /\ ver' >= ver /\ tmp' \in BOOLEAN
  /\ DOMAIN req' = Sets /\ DOMAIN req'[r] = {"kind", "eid", "edits"} /\ req'[r].eid = req[r].eid
  /\ EditsOK(req'[r].edits)
  /\ \A x \in Sets : x # r => req'[x] = req[x]
  /\ UNCHANGED <<ck, saved, calls, masterEID, applied, get, history>>

\* Such a step preserves the invariant.
LEMMA QuietIInv ==
  ASSUME IInv, NEW r \in Sets, NEW result \in {"ok", "err"}, QuietStep(r, result)
  PROVE  IInv'
<1>1. /\ pc[r] = "set"
      /\ pc' \in [Sets -> PCs] /\ pc'[r] \in {"set", "done"}
      /\ \A x \in Sets : x # r => pc'[x] = pc[x] /\ out'[x] = out[x]
      /\ out' \in [Sets -> {None, "ok", "err", "killed"}]
  BY DEF QuietStep, IInv, Typed, PCs, Return
<1>2. /\ UNCHANGED <<ck, saved, calls, masterEID, applied, gpc, answer, need, floor, stuck>>
      /\ ver' \in Nat /\ ver' >= ver /\ tmp' \in BOOLEAN
  BY DEF QuietStep, get, history
<1>3. /\ DOMAIN req' = Sets /\ DOMAIN req'[r] = {"kind", "eid", "edits"} /\ req'[r].eid = req[r].eid
      /\ \A x \in Sets : x # r => req'[x] = req[x]
      /\ EditsOK(req'[r].edits)
  BY DEF QuietStep
<1>4. ~Waiting(calls, r) /\ \A o \in Ops : ~Calling(calls, o, r)
  BY <1>1, CallingOne DEF IInv, Queued
<1>5. Typed'
  BY <1>1, <1>2 DEF IInv, Typed
<1>6. Queued'
  BY <1>1, <1>2, <1>4 DEF IInv, Queued
<1>7. Asked'
  BY <1>1, <1>3 DEF IInv, Asked
<1>8. Reading'
  BY <1>2 DEF IInv, Reading
<1>9. Saving'
  <2>1. applied[r] = 0 /\ saved >= applied[r]
    BY <1>1 DEF IInv, Typed, Saving
  <2>2. QED
    BY <1>1, <1>2, <1>4, <2>1 DEF IInv, Saving, Ops
<1>10. Checkpoints'
  BY <1>2, <1>3, <1>4 DEF IInv, Checkpoints, Ops
<1>11. Mastered'
  <2>1. masterEID \in Nat \X Nat /\ MasterIsHighest
    BY DEF IInv, Mastered
  <2>2. \A x \in Sets : req'[x].eid = req[x].eid /\ (pc'[x] \notin {"idle", "done"} => pc[x] = pc'[x])
    BY <1>1, <1>3
  <2>3. QED
    BY <1>2, <2>1, <2>2 DEF Mastered, MasterIsHighest
<1>12. QED
  BY <1>5, <1>6, <1>7, <1>8, <1>9, <1>10, <1>11 DEF IInv

\* A Set makes its first call, or the one after the checkpoint was read: it
\* has written nothing yet.
CallStep(r, o, es) ==
  /\ pc[r] \in {"set", "read"}
  /\ calls' = Append(calls, CallOf(r, o, es))
  /\ o = "startup" => req[r].kind # "incremental"
  /\ pc' = [pc EXCEPT ![r] = "call"] /\ tmp' \in BOOLEAN
  /\ out' = out \/ out' = [out EXCEPT ![r] = "ok"] \/ out' = [out EXCEPT ![r] = "err"]
  /\ UNCHANGED <<ver, ck, saved, masterEID, req, applied, get, history>>

\* Such a step preserves the invariant.
LEMMA CallIInv ==
  ASSUME IInv, NEW r \in Sets, NEW o \in Ops, NEW es, CallStep(r, o, es)
  PROVE  IInv'
<1>1. /\ UNCHANGED <<ver, ck, saved, masterEID, req, applied, gpc, answer, need, floor, stuck>>
      /\ tmp' \in BOOLEAN /\ pc[r] \in {"set", "read"}
      /\ o = "startup" => req[r].kind # "incremental"
  BY DEF CallStep, get, history
<1>2. ~Waiting(calls, r) /\ \A p \in Ops : ~Calling(calls, p, r)
  BY <1>1, CallingOne DEF IInv, Queued
<1>3. /\ CallsOK(calls')
      /\ \A q \in Sets, p \in Ops : Calling(calls', p, q) <=> Calling(calls, p, q) \/ (p = o /\ q = r)
  BY <1>2, AppendCall DEF IInv, Queued, CallStep
<1>4. /\ pc'[r] = "call" /\ pc' \in [Sets -> PCs]
      /\ \A x \in Sets : x # r => pc'[x] = pc[x]
  BY DEF CallStep, IInv, Typed, PCs
<1>5. /\ out' \in [Sets -> {None, "ok", "err", "killed"}]
      /\ \A x \in Sets : x # r => out'[x] = out[x]
  BY Zenon DEF CallStep, IInv, Typed
<1>6. Typed'
  BY <1>1, <1>4, <1>5 DEF IInv, Typed
<1>7. Queued'
  <2>1. ASSUME NEW q \in Sets
        PROVE  pc'[q] = "call" <=> Waiting(calls', q)
    <3>1. CASE q = r
      BY <1>3, <1>4, <3>1, CallingOne
    <3>2. CASE q # r
      BY <1>3, <1>4, <3>2, CallingOne DEF IInv, Queued
    <3>3. QED
      BY <3>1, <3>2
  <2>2. QED
    BY <1>3, <2>1 DEF Queued
<1>8. Asked' /\ Reading'
  BY <1>1, <1>4 DEF IInv, Asked, Reading
<1>9. Mastered'
  BY <1>1, <1>4 DEF IInv, Mastered, MasterIsHighest
<1>10. Saving'
  <2> SUFFICES ASSUME NEW x \in Sets
               PROVE  /\ pc'[x] \in {"idle", "set", "read"} => applied[x] = 0
                      /\ \A p \in {"create", "apply", "replace"} : Calling(calls', p, x) => applied[x] = 0
                      /\ \A p \in {"delete", "startup"} :
                           Calling(calls', p, x) /\ out'[x] = "ok" => saved >= applied[x]
                      /\ pc'[x] = "done" /\ out'[x] = "ok" => saved >= applied[x]
    BY <1>1 DEF Saving
  <2>1. CASE x = r
    <3>1. applied[r] = 0 /\ saved >= applied[r]
      BY <1>1 DEF IInv, Typed, Saving
    <3>2. QED
      BY <1>4, <2>1, <3>1
  <2>2. CASE x # r
    <3>1. /\ pc'[x] = pc[x] /\ out'[x] = out[x]
          /\ \A p \in Ops : Calling(calls', p, x) <=> Calling(calls, p, x)
      BY <1>3, <1>4, <1>5, <2>2
    <3>2. QED
      BY <3>1 DEF IInv, Saving, Ops
  <2>3. QED
    BY <2>1, <2>2
<1>11. Checkpoints'
  BY <1>1, <1>3 DEF IInv, Checkpoints, Ops
<1>12. QED
  BY <1>6, <1>7, <1>8, <1>9, <1>10, <1>11 DEF IInv

\* A Get reads the checkpoint or CONFIG_DB.
LEMMA GetIInv ==
  ASSUME IInv, NEW g \in Gets, GetBegin(g) \/ GetCheckPoint(g) \/ GetDb(g)
  PROVE  IInv'
<1>1. UNCHANGED <<ver, ck, saved, tmp, calls, masterEID, pc, req, out, applied, floor, stuck>>
  BY DEF GetBegin, GetCheckPoint, GetDb, files, set, history
<1>2. Queued' /\ Asked' /\ Saving' /\ Checkpoints' /\ Mastered'
  BY <1>1 DEF IInv, Queued, Asked, Saving, Checkpoints, Mastered, MasterIsHighest
<1>3. /\ ver \in Nat /\ floor \in 0 .. ver /\ (ck # None => ck.ver \in 0 .. ver)
      /\ gpc \in [Gets -> {"idle", "checkpoint", "db", "done"}]
      /\ answer \in [Gets -> 0 .. ver] /\ need \in [Gets -> 0 .. ver]
  BY DEF IInv, Typed
<1>4. ASSUME gpc' \in [Gets -> {"idle", "checkpoint", "db", "done"}],
             answer' \in [Gets -> 0 .. ver], need' \in [Gets -> 0 .. ver], Reading'
      PROVE  IInv'
  <2>1. Typed'
    BY <1>1, <1>4 DEF IInv, Typed
  <2>2. QED
    BY <1>2, <1>4, <2>1 DEF IInv
<1>5. CASE GetBegin(g)
  <2>1. Reading'
    BY <1>1, <1>3, <1>5 DEF GetBegin, IInv, Reading
  <2>2. QED
    BY <1>3, <1>4, <1>5, <2>1 DEF GetBegin
<1>6. CASE GetCheckPoint(g)
  <2> DEFINE found == IF ck = None THEN FALSE ELSE Decode(ck.config, path[g])
  <2>1. /\ gpc[g] = "checkpoint"
        /\ gpc' = [gpc EXCEPT ![g] = IF found THEN "done" ELSE "db"]
        /\ answer' = [answer EXCEPT ![g] = IF found THEN ck.ver ELSE @]
        /\ need' = [need EXCEPT ![g] = IF found /\ stuck THEN 0 ELSE @]
    BY <1>6 DEF GetCheckPoint
  <2>2. found => ck # None
    OBVIOUS
  <2> HIDE DEF found
  <2>3. /\ gpc' \in [Gets -> {"idle", "checkpoint", "db", "done"}]
        /\ answer' \in [Gets -> 0 .. ver] /\ need' \in [Gets -> 0 .. ver]
    BY <1>3, <2>1, <2>2
  <2>4. found => answer'[g] >= need'[g]
    <3>1. CASE found /\ stuck
      BY <1>3, <2>1, <2>2, <3>1
    <3>2. CASE found /\ ~stuck
      <4>1. ck.ver >= floor /\ need[g] <= floor
        BY <2>1, <2>2, <3>2 DEF IInv, Checkpoints, Reading
      <4>2. answer'[g] = ck.ver /\ need'[g] = need[g]
        BY <1>3, <2>1, <3>2
      <4>3. QED
        <5>1. need[g] \in Nat /\ floor \in Nat /\ ck.ver \in Nat
          BY <1>3, <2>2, <3>2
        <5>2. QED
          BY <4>1, <4>2, <5>1
    <3>3. QED
      BY <3>1, <3>2
  <2>5. Reading'
    BY <1>1, <1>3, <2>1, <2>4 DEF IInv, Reading
  <2>6. QED
    BY <1>4, <2>3, <2>5
<1>7. CASE GetDb(g)
  <2>1. need[g] <= ver
    BY <1>3
  <2>2. Reading'
    BY <1>1, <1>3, <1>7, <2>1 DEF GetDb, IInv, Reading
  <2>3. QED
    BY <1>3, <1>4, <1>7, <2>2 DEF GetDb
<1>8. QED
  BY <1>5, <1>6, <1>7

\* A restart ends every RPC, and its calls have nobody who waits.
LEMMA RestartIInv ==
  ASSUME IInv, Restart
  PROVE  IInv'
<1>1. /\ UNCHANGED <<ver, ck, saved, tmp, req, applied, answer, need, floor, stuck>>
      /\ pc' = [r \in Sets |-> IF pc[r] = "idle" THEN "idle" ELSE "done"]
      /\ out' = [r \in Sets |-> IF pc[r] \in {"idle", "done"} THEN out[r] ELSE "killed"]
      /\ gpc' = [g \in Gets |-> IF gpc[g] = "done" THEN "done" ELSE "idle"]
      /\ masterEID' = <<0, 0>>
  BY DEF Restart, files, history
<1>2. CallsOK(calls') /\ \A r \in Sets : ~Waiting(calls', r)
  BY OrphanCalls DEF Restart, IInv, Queued
<1>3. \A r \in Sets, o \in Ops : ~Calling(calls', o, r)
  BY <1>2, CallingOne
<1>4. Typed'
  BY <1>1 DEF IInv, Typed, PCs
<1>5. Queued' /\ Asked' /\ Reading'
  BY <1>1, <1>2 DEF IInv, Queued, Asked, Reading
<1>6. Saving' /\ Checkpoints'
  BY <1>1, <1>3 DEF IInv, Saving, Checkpoints, Ops
<1>7. Mastered'
  BY <1>1 DEF Mastered, MasterIsHighest
<1>8. QED
  BY <1>4, <1>5, <1>6, <1>7 DEF IInv

\* Every step preserves the invariant.
LEMMA NextIInv == IInv /\ [Next]_vars => IInv'
<1> SUFFICES ASSUME IInv, [Next]_vars
             PROVE  IInv'
  OBVIOUS
<1>1. ASSUME NEW r \in Sets, ReqFromMaster(r)
      PROVE  IInv'
  BY <1>1, ReqFromMasterIInv
<1>2. ver \in Nat /\ tmp \in BOOLEAN /\ DOMAIN req = Sets
  BY DEF IInv, Typed, Asked
<1>3. ASSUME NEW r \in Sets, pc[r] = "set"
      PROVE  DOMAIN req[r] = {"kind", "eid", "edits"} /\ EditsOK(req[r].edits)
  BY <1>3 DEF IInv, Asked
<1>4. ASSUME NEW r \in Sets, Refuse(r) \/ BypassDone(r)
      PROVE  IInv'
  <2>1. \E result \in {"ok", "err"} : Return(r, result)
    BY <1>4 DEF Refuse, BypassDone
  <2>2. pc[r] = "set" /\ UNCHANGED <<ver, tmp, req, ck, saved, calls, masterEID, applied, get, history>>
    BY <1>4 DEF Refuse, BypassDone, files
  <2>3. QED
    BY <1>2, <1>3, <2>1, <2>2, QuietIInv DEF QuietStep
<1>5. ASSUME NEW r \in Sets, Bypass(r)
      PROVE  IInv'
  <2>1. /\ pc[r] = "set" /\ ver' = ver + 1 /\ req' = [req EXCEPT ![r].edits = Tail(@)]
        /\ UNCHANGED <<tmp, pc, out, ck, saved, calls, masterEID, applied, get, history>>
    BY <1>5 DEF Bypass, files
  <2>2. /\ DOMAIN req' = Sets /\ DOMAIN req'[r] = {"kind", "eid", "edits"} /\ req'[r].eid = req[r].eid
        /\ \A x \in Sets : x # r => req'[x] = req[x]
        /\ req'[r].edits = Tail(req[r].edits) /\ req[r].edits # <<>>
    BY <1>2, <1>3, <1>5, <2>1 DEF Bypass
  <2>3. EditsOK(req'[r].edits)
    BY <1>3, <2>1, <2>2, TailEdits
  <2>4. QED
    BY <1>2, <2>1, <2>2, <2>3, QuietIInv DEF QuietStep
<1>6. ASSUME NEW r \in Sets, BypassFails(r)
      PROVE  IInv'
  <2>1. /\ pc[r] = "set" /\ Return(r, "err")
        /\ UNCHANGED <<tmp, req, ck, saved, calls, masterEID, applied, get, history>>
    BY <1>6 DEF BypassFails, files
  <2>2. ver' \in {ver, ver + 1}
    BY <1>6, Zenon DEF BypassFails
  <2>3. QED
    BY <1>2, <1>3, <2>1, <2>2, QuietIInv DEF QuietStep
<1>7. ASSUME NEW r \in Sets, SetFullConfig(r)
      PROVE  IInv'
  <2>1. /\ pc[r] = "set" /\ req[r].kind = "full"
        /\ UNCHANGED <<ver, ck, saved, masterEID, req, applied, get, history>>
    BY <1>7 DEF SetFullConfig
  <2>2. CASE "file" \in Faults /\ tmp' \in BOOLEAN /\ Return(r, "err") /\ calls' = calls
    BY <1>2, <1>3, <2>1, <2>2, QuietIInv DEF QuietStep
  <2>3. CASE /\ tmp' = TRUE /\ out' = [out EXCEPT ![r] = "ok"]
             /\ pc' = [pc EXCEPT ![r] = IF SaveOnSet THEN "call" ELSE "done"]
             /\ calls' = IF SaveOnSet THEN Append(calls, CallOf(r, "startup", <<>>)) ELSE calls
    <3>1. CASE ~SaveOnSet
      <4>1. Return(r, "ok")
        BY <2>3, <3>1 DEF Return
      <4>2. QED
        BY <1>2, <1>3, <2>1, <2>3, <3>1, <4>1, QuietIInv DEF QuietStep
    <3>2. CASE SaveOnSet
      <4>1. /\ calls' = Append(calls, CallOf(r, "startup", <<>>)) /\ pc' = [pc EXCEPT ![r] = "call"]
            /\ tmp' \in BOOLEAN /\ "startup" \in Ops /\ req[r].kind # "incremental"
        BY <2>1, <2>3, <3>2 DEF Ops
      <4>2. QED
        BY <2>1, <2>3, <4>1, CallIInv, Zenon DEF CallStep
    <3>3. QED
      BY <3>1, <3>2
  <2>4. QED
    BY <1>7, <2>2, <2>3, Zenon DEF SetFullConfig
<1>8. ASSUME NEW r \in Sets, SetConfigDB(r)
      PROVE  IInv'
  <2>1. /\ pc[r] = "set" /\ tmp' \in BOOLEAN /\ pc' = [pc EXCEPT ![r] = "call"] /\ out' = out
        /\ UNCHANGED <<ver, ck, saved, masterEID, req, applied, get, history>>
    BY <1>8, Zenon DEF SetConfigDB
  <2>2. PICK o \in {"replace", "create"}, es \in {req[r].edits, <<>>} :
          calls' = Append(calls, CallOf(r, o, es))
    BY <1>8 DEF SetConfigDB
  <2>3. QED
    BY <2>1, <2>2, CallIInv, Zenon DEF Ops, CallStep
<1>9. ASSUME NEW r \in Sets, SetIncrementalConfig(r)
      PROVE  IInv'
  <2>1. /\ pc[r] = "read" /\ pc' = [pc EXCEPT ![r] = "call"]
        /\ UNCHANGED <<ver, tmp, ck, saved, masterEID, req, applied, get, history>>
    BY <1>9 DEF SetIncrementalConfig, files
  <2>2. \E o \in {"delete", "apply"}, result \in {"ok", "err"} : \E es :
          /\ calls' = Append(calls, CallOf(r, o, es))
          /\ out' = [out EXCEPT ![r] = result]
    BY <1>9, Zenon DEF SetIncrementalConfig
  <2>3. QED
    BY <1>2, <2>1, <2>2, CallIInv, Zenon DEF Ops, CallStep
<1>10. ASSUME NEW r \in Sets, Timeout(r)
       PROVE  IInv'
  BY <1>10, TimeoutIInv
<1>11. CASE HostDoes \/ HostFails \/ Restart
  BY <1>11, HostDoesIInv, HostFailsIInv, RestartIInv
<1>12. ASSUME NEW g \in Gets, GetBegin(g) \/ GetCheckPoint(g) \/ GetDb(g)
       PROVE  IInv'
  BY <1>12, GetIInv
<1>13. CASE UNCHANGED vars
  <2>1. UNCHANGED <<ver, ck, saved, tmp, calls, masterEID, pc, req, out, applied, gpc, answer, need,
                    floor, stuck>>
    BY <1>13 DEF vars, files, set, get, history
  <2>2. Typed' /\ Queued' /\ Asked'
    BY <2>1 DEF IInv, Typed, Queued, Asked
  <2>3. Saving' /\ Checkpoints' /\ Reading' /\ Mastered'
    BY <2>1 DEF IInv, Saving, Checkpoints, Reading, Mastered, MasterIsHighest
  <2>4. QED
    BY <2>2, <2>3 DEF IInv
<1>14. QED
  BY <1>1, <1>4, <1>5, <1>6, <1>7, <1>8, <1>9, <1>10, <1>11, <1>12, <1>13 DEF Next

---------------------------------------------------------------------------
(* Induction                                                               *)

\* A non-empty set of naturals has a least element.
LEMMA Least ==
  ASSUME NEW T \in SUBSET Nat, T # {}
  PROVE \E x \in T : \A y \in T : x <= y
<1> DEFINE R == {ss \in Nat \X Nat : ss[1] < ss[2]}
<1>1. IsWellFoundedOn(R, Nat)
  BY NatLessThanWellFounded DEF OpToRel
<1> HIDE DEF R
<1>2. PICK x \in T : \A y \in T : ~ (<<y, x>> \in R)
  BY <1>1, WFMin, Zenon
<1>3. ASSUME NEW y \in T, y < x PROVE FALSE
  <2>1. <<y, x>> \in Nat \X Nat /\ <<y, x>>[1] < <<y, x>>[2]
    BY <1>3
  <2>2. <<y, x>> \in R
    BY <2>1, Zenon DEF R
  <2> QED
    BY <1>2, <2>2
<1> QED
  BY <1>3

\* A set that has 0 and with every number below N the next has all up to N:
\* otherwise take the least number that it lacks.
LEMMA Induction ==
  ASSUME NEW N \in Nat, NEW S, 0 \in S, \A n \in S : n < N => n + 1 \in S
  PROVE  0 .. N \subseteq S
<1> DEFINE T == (0 .. N) \ S
<1>1. SUFFICES ASSUME T # {} PROVE FALSE
  OBVIOUS
<1>0. T \in SUBSET Nat
  OBVIOUS
<1>2. PICK x \in T : \A y \in T : x <= y
  <2> HIDE DEF T
  <2> QED
    BY <1>0, <1>1, Least
<1>3. x # 0 /\ x - 1 \in 0 .. N /\ x - 1 < N /\ x - 1 + 1 = x
  BY <1>2
<1>4. x - 1 \in S
  BY <1>2, <1>3
<1> QED
  BY <1>2, <1>3, <1>4

---------------------------------------------------------------------------
(* The patch of a Set                                                      *)

\* The states of the JsonClient's copy after 0, 1, ... N edits.
EditFcn(g, c, es, N) ==
  g = [n \in 0 .. N |-> IF n = 0 THEN [data |-> c, patch |-> <<>>, err |-> FALSE]
                        ELSE Edit(g[n - 1], es[n])]

\* The recursive definition of Edits defines such a function.
LEMMA EditsBuilt ==
  ASSUME NEW c, NEW es, Len(es) \in Nat
  PROVE \E g : EditFcn(g, c, es, Len(es)) /\ Edits(c, es) = g[Len(es)]
<1> DEFINE S == {n \in Nat : \E g : EditFcn(g, c, es, n)}
           s0 == [data |-> c, patch |-> <<>>, err |-> FALSE]
<1>1. 0 \in S
  <2>1. EditFcn([i \in 0 .. 0 |-> s0], c, es, 0)
    BY DEF EditFcn
  <2> QED
    BY <2>1
<1>2. ASSUME NEW n \in S PROVE n + 1 \in S
  <2>1. PICK g : EditFcn(g, c, es, n)
    BY <1>2
  <2> DEFINE h == [i \in 0 .. n + 1 |-> IF i = n + 1 THEN Edit(g[n], es[n + 1]) ELSE g[i]]
  <2>2. \A i \in 0 .. n : g[i] = IF i = 0 THEN s0 ELSE Edit(g[i - 1], es[i])
    BY <2>1, Zenon DEF EditFcn
  <2>3. /\ h[n + 1] = Edit(g[n], es[n + 1]) /\ n \in Nat
        /\ \A i \in 0 .. n : h[i] = g[i]
    OBVIOUS
  <2> DEFINE F(i) == IF i = 0 THEN s0 ELSE Edit(h[i - 1], es[i])
  <2>4. \A i \in 0 .. n + 1 : h[i] = F(i)
    <3>1. SUFFICES ASSUME NEW i \in 0 .. n + 1 PROVE h[i] = F(i)
      BY Zenon
    <3>2. CASE i = n + 1
      BY <2>3, <3>2
    <3>3. CASE i \in 0 .. n
      <4>1. i = 0 \/ i - 1 \in 0 .. n
        BY <3>3, <2>3
      <4> QED
        BY <2>2, <2>3, <3>3, <4>1, Zenon
    <3> QED
      BY <3>2, <3>3, <2>3
  <2>5. h = [i \in 0 .. n + 1 |-> F(i)]
    <3>1. h = [i \in 0 .. n + 1 |-> h[i]]
      OBVIOUS
    <3> HIDE DEF h, F
    <3> QED
      BY <2>4, <3>1
  <2>6. EditFcn(h, c, es, n + 1)
    BY <2>5, Zenon DEF EditFcn
  <2> QED
    BY <2>3, <2>6
<1>3. 0 .. Len(es) \subseteq S
  BY <1>1, <1>2, Induction, Zenon
<1>4. \E g : EditFcn(g, c, es, Len(es))
  BY <1>3
<1> DEFINE after == CHOOSE g : EditFcn(g, c, es, Len(es))
<1>5. EditFcn(after, c, es, Len(es))
  BY <1>4, Zenon
<1>6. Edits(c, es) = after[Len(es)]
  BY Zenon DEF Edits, EditFcn
<1> QED
  BY <1>5, <1>6, Zenon

\* The states of a configuration after 0, 1, ... N steps of a patch.
PatchFcn(g, c, es, N) ==
  g = [n \in 0 .. N |-> IF n = 0 THEN [data |-> c, err |-> FALSE]
                        ELSE PatchStep(g[n - 1], es[n])]

\* The recursive definition of ApplyPatch defines such a function.
LEMMA PatchBuilt ==
  ASSUME NEW c, NEW es, Len(es) \in Nat
  PROVE \E g : PatchFcn(g, c, es, Len(es)) /\ ApplyPatch(c, es) = g[Len(es)]
<1> DEFINE S == {n \in Nat : \E g : PatchFcn(g, c, es, n)}
           s0 == [data |-> c, err |-> FALSE]
<1>1. 0 \in S
  <2>1. PatchFcn([i \in 0 .. 0 |-> s0], c, es, 0)
    BY DEF PatchFcn
  <2> QED
    BY <2>1
<1>2. ASSUME NEW n \in S PROVE n + 1 \in S
  <2>1. PICK g : PatchFcn(g, c, es, n)
    BY <1>2
  <2> DEFINE h == [i \in 0 .. n + 1 |-> IF i = n + 1 THEN PatchStep(g[n], es[n + 1]) ELSE g[i]]
  <2>2. \A i \in 0 .. n : g[i] = IF i = 0 THEN s0 ELSE PatchStep(g[i - 1], es[i])
    BY <2>1, Zenon DEF PatchFcn
  <2>3. /\ h[n + 1] = PatchStep(g[n], es[n + 1]) /\ n \in Nat
        /\ \A i \in 0 .. n : h[i] = g[i]
    OBVIOUS
  <2> DEFINE F(i) == IF i = 0 THEN s0 ELSE PatchStep(h[i - 1], es[i])
  <2>4. \A i \in 0 .. n + 1 : h[i] = F(i)
    <3>1. SUFFICES ASSUME NEW i \in 0 .. n + 1 PROVE h[i] = F(i)
      BY Zenon
    <3>2. CASE i = n + 1
      BY <2>3, <3>2
    <3>3. CASE i \in 0 .. n
      <4>1. i = 0 \/ i - 1 \in 0 .. n
        BY <3>3, <2>3
      <4> QED
        BY <2>2, <2>3, <3>3, <4>1, Zenon
    <3> QED
      BY <3>2, <3>3, <2>3
  <2>5. h = [i \in 0 .. n + 1 |-> F(i)]
    <3>1. h = [i \in 0 .. n + 1 |-> h[i]]
      OBVIOUS
    <3> HIDE DEF h, F
    <3> QED
      BY <2>4, <3>1
  <2>6. PatchFcn(h, c, es, n + 1)
    BY <2>5, Zenon DEF PatchFcn
  <2> QED
    BY <2>3, <2>6
<1>3. 0 .. Len(es) \subseteq S
  BY <1>1, <1>2, Induction, Zenon
<1>4. \E g : PatchFcn(g, c, es, Len(es))
  BY <1>3
<1> DEFINE after == CHOOSE g : PatchFcn(g, c, es, Len(es))
<1>5. PatchFcn(after, c, es, Len(es))
  BY <1>4, Zenon
<1>6. ApplyPatch(c, es) = after[Len(es)]
  BY Zenon DEF ApplyPatch, PatchFcn
<1> QED
  BY <1>5, <1>6, Zenon

\* A patch with one more operation does that operation last.
LEMMA PatchAppend ==
  ASSUME NEW X, NEW es \in Seq(X), NEW e \in X, NEW c
  PROVE  ApplyPatch(c, Append(es, e)) = PatchStep(ApplyPatch(c, es), e)
<1> DEFINE fs == Append(es, e)
           s0 == [data |-> c, err |-> FALSE]
<1>1. /\ Len(es) \in Nat /\ Len(fs) = Len(es) + 1 /\ fs[Len(es) + 1] = e
      /\ \A i \in 1 .. Len(es) : fs[i] = es[i]
  OBVIOUS
<1> HIDE DEF fs
<1>2. PICK g : PatchFcn(g, c, es, Len(es)) /\ ApplyPatch(c, es) = g[Len(es)]
  BY <1>1, PatchBuilt
<1>3. PICK h : PatchFcn(h, c, fs, Len(es) + 1) /\ ApplyPatch(c, fs) = h[Len(es) + 1]
  BY <1>1, PatchBuilt
<1>4. \A i \in 0 .. Len(es) : g[i] = IF i = 0 THEN s0 ELSE PatchStep(g[i - 1], es[i])
  BY <1>2, Zenon DEF PatchFcn
<1>5. \A i \in 0 .. Len(es) + 1 : h[i] = IF i = 0 THEN s0 ELSE PatchStep(h[i - 1], fs[i])
  BY <1>3, Zenon DEF PatchFcn
<1> DEFINE S == {i \in 0 .. Len(es) : g[i] = h[i]}
<1>6. 0 \in S
  <2>1. 0 \in 0 .. Len(es) /\ 0 \in 0 .. Len(es) + 1
    BY <1>1
  <2>2. g[0] = s0 /\ h[0] = s0
    BY <1>4, <1>5, <2>1, Zenon
  <2> QED
    BY <2>1, <2>2
<1>7. ASSUME NEW n \in S, n < Len(es) PROVE n + 1 \in S
  <2>1. /\ n + 1 \in 1 .. Len(es) /\ n + 1 \in 0 .. Len(es) + 1
        /\ n + 1 # 0 /\ n + 1 - 1 = n /\ g[n] = h[n]
    BY <1>1, <1>7
  <2>2. g[n + 1] = PatchStep(g[n], es[n + 1]) /\ h[n + 1] = PatchStep(h[n], fs[n + 1])
    BY <1>4, <1>5, <2>1
  <2> QED
    BY <1>1, <2>1, <2>2
<1>8. 0 .. Len(es) \subseteq S
  <2> HIDE DEF S
  <2> QED
    BY <1>1, <1>6, <1>7, Induction
<1>9. g[Len(es)] = h[Len(es)]
  BY <1>1, <1>8
<1>10. h[Len(es) + 1] = PatchStep(h[Len(es)], e)
  BY <1>1, <1>5
<1> QED
  BY <1>2, <1>3, <1>9, <1>10 DEF fs

\* The step of a patch, by its cases.
LEMMA PatchStepFacts ==
  ASSUME NEW d, NEW e
  PROVE  LET s == [data |-> d, err |-> FALSE]
             f == [data |-> d, err |-> TRUE]
         IN /\ PatchStep(f, e) = f
            /\ e.op = "replace" /\ e.val = None => PatchStep(s, e) = f
            /\ e.op = "remove" /\ Decode(d, e.path) =>
                 PatchStep(s, e) = [data |-> RemovePath(d, e.path), err |-> FALSE]
            /\ \/ e.op = "add"
               \/ e.op = "replace" /\ e.val # None /\ Decode(d, e.path)
               => PatchStep(s, e) = [data |-> Add(d, e.path, e.val), err |-> FALSE]
<1> DEFINE s == [data |-> d, err |-> FALSE]
           f == [data |-> d, err |-> TRUE]
<1>1. s.err = FALSE /\ f.err = TRUE /\ s.data = d /\ f.data = d
  OBVIOUS
<1> HIDE DEF s, f
<1>2. PatchStep(f, e) = [data |-> f.data, err |-> TRUE]
  BY <1>1, Zenon DEF PatchStep
<1>3. ASSUME e.op = "replace", e.val = None
      PROVE  PatchStep(s, e) = [data |-> s.data, err |-> TRUE]
  BY <1>3, Zenon DEF PatchStep
<1>4. ASSUME e.op = "remove", Decode(s.data, e.path)
      PROVE  PatchStep(s, e) = [data |-> RemovePath(s.data, e.path), err |-> FALSE]
  <2>1. ~s.err /\ e.op # "replace" /\ e.op # "add"
    BY <1>1, <1>4
  <2> QED
    BY <1>4, <2>1, Zenon DEF PatchStep
<1>5. ASSUME e.op = "add" \/ (e.op = "replace" /\ e.val # None /\ Decode(s.data, e.path))
      PROVE  PatchStep(s, e) = [data |-> Add(s.data, e.path, e.val), err |-> FALSE]
  <2>1. ~s.err /\ e.op # "remove" /\ ~(e.op = "replace" /\ e.val = None)
    BY <1>1, <1>5
  <2> QED
    BY <1>5, <2>1, Zenon DEF PatchStep
<1> QED
  BY <1>1, <1>2, <1>3, <1>4, <1>5, Zenon DEF s, f

\* What the edits so far have put into the patch does to the copy what they did.
Exact(c, s, X) ==
  /\ s = [data |-> s.data, patch |-> s.patch, err |-> s.err]
  /\ s.err \in BOOLEAN /\ s.patch \in Seq(X)
  /\ ~s.err => IF \E e \in Range(s.patch) : e.op = "replace" /\ e.val = None
               THEN \E d : ApplyPatch(c, s.patch) = [data |-> d, err |-> TRUE]
               ELSE ApplyPatch(c, s.patch) = [data |-> s.data, err |-> FALSE]

\* Appending adds one element.
LEMMA RangeAppend ==
  ASSUME NEW X, NEW es \in Seq(X), NEW e \in X
  PROVE  Append(es, e) \in Seq(X) /\ Range(Append(es, e)) = Range(es) \cup {e}
<1> DEFINE t == Append(es, e)
<1>1. /\ t \in Seq(X) /\ DOMAIN es = 1 .. Len(es) /\ DOMAIN t = 1 .. Len(es) + 1 /\ Len(es) \in Nat
      /\ \A i \in 1 .. Len(es) : t[i] = es[i]
      /\ t[Len(es) + 1] = e
  OBVIOUS
<1> HIDE DEF t
<1>2. \A i \in DOMAIN es : i \in DOMAIN t /\ t[i] = es[i]
  BY <1>1
<1>3. \A i \in DOMAIN t : (i \in DOMAIN es /\ t[i] = es[i]) \/ t[i] = e
  BY <1>1
<1>4. \E i \in DOMAIN t : t[i] = e
  BY <1>1
<1>5. Range(t) = Range(es) \cup {e}
  BY <1>2, <1>3, <1>4 DEF Range
<1> QED
  BY <1>1, <1>5 DEF t

\* One edit keeps copy and patch in step.
LEMMA EditExact ==
  ASSUME NEW X, NEW c, NEW s, Exact(c, s, X),
         NEW e \in X, e.op \in {"remove", "replace", "add"}, e.op = "remove" => e.val = None
  PROVE  Exact(c, Edit(s, e), X)
<1> DEFINE t == Append(s.patch, e)
           Bad(u) == \E f \in Range(u) : f.op = "replace" /\ f.val = None
<1>1. t \in Seq(X) /\ (Bad(t) <=> Bad(s.patch) \/ (e.op = "replace" /\ e.val = None))
  <2>1. t \in Seq(X) /\ Range(t) = Range(s.patch) \cup {e}
    BY RangeAppend DEF Exact
  <2> QED
    BY <2>1
<1>2. ApplyPatch(c, t) = PatchStep(ApplyPatch(c, s.patch), e)
  BY PatchAppend DEF Exact
<1> HIDE DEF t
<1>3. ASSUME NEW d, ~s.err,
             ~(e.op = "replace" /\ e.val = None) =>
               PatchStep([data |-> s.data, err |-> FALSE], e) = [data |-> d, err |-> FALSE]
      PROVE  Exact(c, [data |-> d, patch |-> t, err |-> FALSE], X)
  <2>1. CASE Bad(s.patch)
    <3>1. PICK f : ApplyPatch(c, s.patch) = [data |-> f, err |-> TRUE]
      BY <1>3, <2>1 DEF Exact
    <3>2. ApplyPatch(c, t) = [data |-> f, err |-> TRUE]
      BY <1>2, <3>1, PatchStepFacts, Zenon
    <3> QED
      BY <1>1, <2>1, <3>2 DEF Exact
  <2>2. CASE ~Bad(s.patch)
    <3>1. ApplyPatch(c, s.patch) = [data |-> s.data, err |-> FALSE]
      BY <1>3, <2>2 DEF Exact
    <3>2. CASE e.op = "replace" /\ e.val = None
      <4>1. ApplyPatch(c, t) = [data |-> s.data, err |-> TRUE]
        BY <1>2, <3>1, <3>2, PatchStepFacts, Zenon
      <4> QED
        BY <1>1, <3>2, <4>1 DEF Exact
    <3>3. CASE ~(e.op = "replace" /\ e.val = None)
      BY <1>1, <1>2, <1>3, <2>2, <3>1, <3>3 DEF Exact
    <3> QED
      BY <3>2, <3>3
  <2> QED
    BY <2>1, <2>2
<1>4. CASE s.err
  BY <1>4 DEF Edit
<1>5. CASE ~s.err /\ e.op # "add" /\ e.val = None
  <2>1. CASE Decode(s.data, e.path)
    <3>1. Edit(s, e) = [data |-> RemovePath(s.data, e.path), patch |-> t, err |-> FALSE]
      BY <1>5, <2>1 DEF Edit, t
    <3>2. ~(e.op = "replace" /\ e.val = None) =>
             PatchStep([data |-> s.data, err |-> FALSE], e)
               = [data |-> RemovePath(s.data, e.path), err |-> FALSE]
      BY <1>5, <2>1, PatchStepFacts, Zenon
    <3> QED
      BY <1>3, <1>5, <3>1, <3>2
  <2>2. CASE ~Decode(s.data, e.path)
    BY <1>5, <2>2 DEF Edit
  <2> QED
    BY <2>1, <2>2
<1>6. CASE ~s.err /\ e.op # "remove" /\ e.val # None
  <2>1. CASE IF e.op = "replace" THEN Decode(s.data, e.path) ELSE e.path # <<>>
    <3>1. Edit(s, e) = [data |-> Add(s.data, e.path, e.val), patch |-> t, err |-> FALSE]
      BY <1>6, <2>1 DEF Edit, t
    <3>2. PatchStep([data |-> s.data, err |-> FALSE], e)
            = [data |-> Add(s.data, e.path, e.val), err |-> FALSE]
      BY <1>6, <2>1, PatchStepFacts, Zenon
    <3> QED
      BY <1>3, <1>6, <3>1, <3>2
  <2>2. CASE ~(IF e.op = "replace" THEN Decode(s.data, e.path) ELSE e.path # <<>>)
    <3>1. Edit(s, e) = [data |-> s.data, patch |-> s.patch, err |-> TRUE]
      BY <1>6, <2>2, Zenon DEF Edit, Exact
    <3> QED
      BY <3>1 DEF Exact
  <2> QED
    BY <2>1, <2>2
<1>7. CASE ~s.err /\ e.op = "add" /\ e.val = None
  <2>1. Edit(s, e) = [data |-> s.data, patch |-> s.patch, err |-> TRUE]
    BY <1>7, Zenon DEF Edit, Exact
  <2> QED
    BY <2>1 DEF Exact
<1> QED
  BY <1>4, <1>5, <1>6, <1>7

\* All the edits of a request do.
LEMMA EditsExact ==
  ASSUME NEW c, NEW es, EditsOK(es)
  PROVE  Exact(c, Edits(c, es), Range(es))
<1> DEFINE X == Range(es)
           s0 == [data |-> c, patch |-> <<>>, err |-> FALSE]
<1>1. es \in Seq(X) /\ Len(es) \in Nat /\ \A i \in 1 .. Len(es) : es[i] \in X
  BY DEF EditsOK
<1>2. PICK g : EditFcn(g, c, es, Len(es)) /\ Edits(c, es) = g[Len(es)]
  BY <1>1, EditsBuilt
<1>3. \A i \in 0 .. Len(es) : g[i] = IF i = 0 THEN s0 ELSE Edit(g[i - 1], es[i])
  BY <1>2, Zenon DEF EditFcn
<1> DEFINE S == {i \in 0 .. Len(es) : Exact(c, g[i], X)}
<1>4. 0 \in S
  <2>1. PICK h : PatchFcn(h, c, <<>>, 0) /\ ApplyPatch(c, <<>>) = h[0]
    BY PatchBuilt
  <2>2. ApplyPatch(c, <<>>) = [data |-> c, err |-> FALSE]
    BY <2>1 DEF PatchFcn
  <2>3. Range(<<>>) = {}
    BY DEF Range
  <2>4. Exact(c, s0, X)
    BY <2>2, <2>3 DEF Exact
  <2> QED
    BY <1>1, <1>3, <2>4
<1>5. ASSUME NEW n \in S, n < Len(es) PROVE n + 1 \in S
  <2>1. /\ n + 1 \in 1 .. Len(es) /\ n + 1 \in 0 .. Len(es)
        /\ n + 1 # 0 /\ n + 1 - 1 = n /\ Exact(c, g[n], X)
    BY <1>1, <1>5
  <2>2. g[n + 1] = Edit(g[n], es[n + 1])
    BY <1>3, <2>1
  <2>3. es[n + 1] \in X /\ n + 1 \in DOMAIN es
    BY <1>1, <2>1
  <2>4. Exact(c, g[n + 1], X)
    <3> HIDE DEF X
    <3> QED
      BY <2>1, <2>2, <2>3, EditExact DEF EditsOK
  <2> QED
    BY <2>1, <2>4
<1>6. 0 .. Len(es) \subseteq S
  <2> HIDE DEF S
  <2> QED
    BY <1>1, <1>4, <1>5, Induction
<1>7. Len(es) \in S
  <2> HIDE DEF S
  <2> QED
    BY <1>1, <1>6
<1> QED
  BY <1>2, <1>7

---------------------------------------------------------------------------
(* The theorems                                                            *)

\* The invariant holds in every reachable state.
THEOREM SpecIInv == Spec => []IInv
  BY InitIInv, NextIInv, PTL DEF Spec

\* The variables have their types, and exactly the Set RPCs that wait for a
\* D-Bus reply have a call with the host services, one each.
THEOREM TypeCorrect == Spec => []TypeOK
  BY SpecIInv, IInvImplies, PTL

\* A Get that begins after an incremental Set has returned success returns
\* that Set or a newer configuration, for any number of Sets and Gets that
\* share the checkpoint, any calls that fail or time out and any restarts.
THEOREM GetsSeeSets == Spec => []GetSeesSets
  BY SpecIInv, IInvImplies, PTL

\* A Set through the host services that has returned success is in
\* config_db.json.
THEOREM SuccessSaved == Spec => []SuccessIsSaved
  BY SpecIInv, IInvImplies, PTL

\* No Set that was let in has a higher election id than the master.
THEOREM MasterHighest == Spec => []MasterIsHighest
  BY SpecIInv, IInvImplies, PTL

\* On the checkpoint it is made from, the patch of every request does what its
\* edits did to the JsonClient's copy.
THEOREM PatchesExact == Spec => []PatchIsExact
<1>1. ASSUME IInv PROVE PatchIsExact
  <2>1. SUFFICES ASSUME NEW r \in Sets, pc[r] = "read"
                 PROVE  LET s == Edits(ck.config, req[r].edits)
                            p == ApplyPatch(ck.config, s.patch)
                        IN ~s.err => IF \E e \in Range(s.patch) : e.op = "replace" /\ e.val = None
                                     THEN p.err ELSE ~p.err /\ p.data = s.data
    BY Zenon DEF PatchIsExact
  <2> DEFINE s == Edits(ck.config, req[r].edits)
             p == ApplyPatch(ck.config, s.patch)
  <2>2. Exact(ck.config, s, Range(req[r].edits))
    BY <1>1, <2>1, EditsExact DEF IInv, Asked
  <2> HIDE DEF s
  <2>3. ASSUME ~s.err, \E e \in Range(s.patch) : e.op = "replace" /\ e.val = None
        PROVE  p.err
    <3>1. PICK d : p = [data |-> d, err |-> TRUE]
      BY <2>2, <2>3, Zenon DEF Exact
    <3>2. p.err = TRUE
      BY <3>1
    <3> QED
      BY <3>2, Zenon
  <2>4. ASSUME ~s.err, ~\E e \in Range(s.patch) : e.op = "replace" /\ e.val = None
        PROVE  ~p.err /\ p.data = s.data
    BY <2>2, <2>4 DEF Exact
  <2> QED
    BY <2>3, <2>4, Zenon DEF s
<1> QED
  BY <1>1, SpecIInv, PTL
=============================================================================
