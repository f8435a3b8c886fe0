----------------------------- MODULE ConfigSet ------------------------------
(***************************************************************************)
(* gNMI Set and Get on CONFIG_DB (gnmi_server/server.go,                   *)
(* sonic_data_client/mixed_db_client.go, json_client.go, pkg/bypass).      *)
(* A Set asks the host services over D-Bus for a checkpoint, builds a JSON *)
(* patch on it, has the patch applied and the configuration saved, and     *)
(* deletes the checkpoint.  A Get reads the checkpoint if there is one.    *)
(* The host services take one call at a time; a call that times out is     *)
(* carried out all the same.                                               *)
(*                                                                         *)
(* A configuration is a function from leaves (sequences of names: table,   *)
(* key, field) to values: JsonClient drops an entry or a table with its    *)
(* last leaf.  A request has a kind, an election id (a pair, or None) and  *)
(* a sequence of edits, deletes first and updates last; an edit has an op, *)
(* the path it is for and the leaves that are to be below it, or None.     *)
(***************************************************************************)
EXTENDS Integers, Sequences, Functions, TLC

CONSTANTS
  Sets, Gets,    \* RPCs
  Requests,      \* the Set requests
  GetPaths,      \* paths that are read
  Configs,       \* initial configurations
  SaveOnSet,     \* the flag --with-save-on-set
  Faults,        \* what may fail: names of calls, "timeout", "file", "redis"
  None

\* A sequence of edits, of which the deletes carry no value.
EditsOK(es) ==
  /\ es \in Seq(Range(es))
  /\ \A i \in DOMAIN es : /\ es[i].op \in {"remove", "replace", "add"}
                          /\ es[i].op = "remove" => es[i].val = None

\* An election id is a pair of 64-bit words.
ASSUME ConfigAssumption ==
  /\ None \notin Sets
  /\ \A q \in Requests : /\ DOMAIN q = {"kind", "eid", "edits"}
                         /\ q.eid = None \/ q.eid \in Nat \X Nat
                         /\ EditsOK(q.edits)

VARIABLES
  db, ver,       \* CONFIG_DB and the number of times it was written
  ck,            \* config.cp.json: a configuration with its ver, or None
  saved,         \* the ver of config_db.json
  tmp,           \* config_db.json.tmp exists
  calls,         \* D-Bus calls that wait for the host services
  masterEID,
  pc, req, out,  \* of each Set RPC: where it is, its request, its result
  applied,       \* the ver that a Set RPC has been told is written
  gpc, path,     \* of each Get RPC
  answer, need,  \* the ver that a Get RPC returns, and the one it must see
  floor,         \* the ver of the newest incremental Set that has returned
  stuck          \* a checkpoint may not have been deleted

files == <<ck, saved, tmp>>
set == <<pc, req, out, applied>>
get == <<gpc, path, answer, need>>
history == <<floor, stuck>>
vars == <<db, ver, files, calls, masterEID, set, get, history>>

---------------------------------------------------------------------------
(* JsonClient and the JSON patch                                           *)

Empty == [l \in {} |-> None]
Under(c, p) == {l \in DOMAIN c : Len(p) <= Len(l) /\ SubSeq(l, 1, Len(p)) = p}
Merge(c, d) == d @@ c

\* A path is found unless it is empty or nothing is below it.
Decode(c, p) == p # <<>> /\ Under(c, p) # {}
RemovePath(c, p) == [l \in DOMAIN c \ Under(c, p) |-> c[l]]
\* An added entry or table takes the place of the old one.
Add(c, p, d) == Merge(RemovePath(c, p), d)

\* Mutant: a delete of nothing goes into the patch.
Edit_KeepDelete(s, e) ==
  [s EXCEPT !.data = IF e.val = None THEN RemovePath(@, e.path) ELSE Add(@, e.path, e.val),
            !.patch = Append(@, e)]

\* One edit on [data, patch, err].  A delete of nothing is left out of the
\* patch; a replace of nothing and an update without a value are errors.
Edit(s, e) ==
  LET done(c) == [data |-> c, patch |-> Append(s.patch, e), err |-> FALSE]
      fail == [s EXCEPT !.err = TRUE]
      found == Decode(s.data, e.path)
  IN CASE s.err -> s
       [] ~s.err /\ e.op # "add" /\ e.val = None ->
            IF found THEN done(RemovePath(s.data, e.path)) ELSE s
       [] ~s.err /\ e.op = "replace" /\ e.val # None ->
            IF found THEN done(Add(s.data, e.path, e.val)) ELSE fail
       [] ~s.err /\ e.op = "add" ->
            IF e.path # <<>> /\ e.val # None THEN done(Add(s.data, e.path, e.val)) ELSE fail

Edits(c, es) ==
  LET after[n \in 0 .. Len(es)] == IF n = 0 THEN [data |-> c, patch |-> <<>>, err |-> FALSE]
                                   ELSE Edit(after[n - 1], es[n])
  IN after[Len(es)]

\* What the generic config updater makes of a patch: a path to remove or to
\* replace must be there, and a replacement needs a value.
PatchStep(s, e) ==
  IF s.err \/ (e.op # "add" /\ ~Decode(s.data, e.path)) \/ (e.op = "replace" /\ e.val = None)
  THEN [data |-> s.data, err |-> TRUE]
  ELSE [data |-> IF e.op = "remove" THEN RemovePath(s.data, e.path)
                 ELSE Add(s.data, e.path, e.val),
        err |-> FALSE]

ApplyPatch(c, es) ==
  LET after[n \in 0 .. Len(es)] == IF n = 0 THEN [data |-> c, err |-> FALSE]
                                   ELSE PatchStep(after[n - 1], es[n])
  IN after[Len(es)]

---------------------------------------------------------------------------
Init ==
  /\ db \in Configs /\ ver = 0 /\ ck = None /\ saved = 0 /\ tmp = FALSE
  /\ calls = <<>> /\ masterEID = <<0, 0>>
  /\ pc = [r \in Sets |-> "idle"] /\ req = [r \in Sets |-> None]
  /\ out = [r \in Sets |-> None] /\ applied = [r \in Sets |-> 0]
  /\ gpc = [g \in Gets |-> "idle"] /\ path \in [Gets -> GetPaths]
  /\ answer = [g \in Gets |-> 0] /\ need = [g \in Gets |-> 0]
  /\ floor = 0 /\ stuck = FALSE

---------------------------------------------------------------------------
(* Set: arbitration                                                        *)

\* Mutant: the low words decide.
Compare_Low(lh, rh) ==
  IF lh[2] = rh[2] THEN 0 ELSE IF lh[2] > rh[2] THEN 1 ELSE -1

\* The high words decide unless they are equal.
Compare(lh, rh) ==
  CASE lh = rh -> 0
    [] lh[1] > rh[1] \/ (lh[1] = rh[1] /\ lh[2] > rh[2]) -> 1
    [] lh[1] < rh[1] \/ (lh[1] = rh[1] /\ lh[2] < rh[2]) -> -1

\* A Set with a lower election id than the master's is refused, one with a
\* higher id makes its sender the master.
ReqFromMaster(r) ==
  /\ pc[r] = "idle"
  /\ \E q \in Requests :
       LET c == IF q.eid = None THEN 0 ELSE Compare(masterEID, q.eid)
       IN /\ req' = [req EXCEPT ![r] = q]
          /\ masterEID' = IF c = -1 THEN q.eid ELSE masterEID
          /\ pc' = [pc EXCEPT ![r] = IF c = 1 THEN "done" ELSE "set"]
          /\ out' = [out EXCEPT ![r] = IF c = 1 THEN "err" ELSE None]
  /\ UNCHANGED <<db, ver, files, calls, applied, get, history>>

Return(r, result) ==
  /\ pc' = [pc EXCEPT ![r] = "done"]
  /\ out' = [out EXCEPT ![r] = result]

\* Writing is disabled, the paths have no client, the caller is not
\* authenticated.
Refuse(r) ==
  /\ pc[r] = "set" /\ Return(r, "err")
  /\ UNCHANGED <<db, ver, files, calls, masterEID, req, applied, get, history>>

---------------------------------------------------------------------------
(* Set: the host services                                                  *)

CallOf(r, op, es) == [op |-> op, by |-> r, edits |-> es]

\* Mutant: the checkpoint is deleted only after a failure.
After_NoDelete(op, ok, kind, result) ==
  CASE op = "create" -> IF ok THEN "read" ELSE "done"
    [] op \in {"apply", "replace"} -> IF ok THEN "save" ELSE IF op = "apply" THEN "delete" ELSE "done"
    [] op = "save" -> IF ok /\ SaveOnSet THEN "startup" ELSE "done"
    [] op = "delete" -> IF result = "ok" /\ SaveOnSet THEN "startup" ELSE "done"
    [] op = "startup" -> "done"

\* Mutant: the configuration is saved only with --with-save-on-set.
After_NoSave(op, ok, kind, result) ==
  CASE op = "create" -> IF ok THEN "read" ELSE "done"
    [] op = "apply" -> "delete"
    [] op = "delete" -> IF result # "err" /\ SaveOnSet THEN "startup" ELSE "done"
    [] op = "replace" -> IF ok THEN "save" ELSE "done"
    [] op \in {"save", "startup"} -> "done"

\* What follows a call and its outcome, for a kind of Set and the result it
\* has so far: another call, the reading of the checkpoint or the end.
After(op, ok, kind, result) ==
  CASE op = "create" -> IF ok THEN "read" ELSE "done"
    [] op = "apply" -> IF ok THEN "save" ELSE "delete"
    [] op = "replace" -> IF ok THEN "save" ELSE "done"
    [] op = "save" /\ kind = "incremental" -> "delete"
    [] op = "save" /\ kind # "incremental" -> IF ok /\ SaveOnSet THEN "startup" ELSE "done"
    [] op = "delete" -> IF result = "ok" /\ SaveOnSet THEN "startup" ELSE "done"
    [] op = "startup" -> "done"

\* The result of the RPC: that of the last call, but for those that are
\* deferred or made after dc.Set.
Result(op, ok, result) ==
  CASE op \in {"delete", "startup"} -> result
    [] op \notin {"delete", "startup"} -> IF ok THEN "ok" ELSE "err"

\* RPC r goes on after its call c; rest are the calls still to be served.
Resume(r, c, ok, rest) ==
  LET result == Result(c.op, ok, out[r])
      next == After(c.op, ok, req[r].kind, result)
  IN /\ out' = [out EXCEPT ![r] = result]
     /\ pc' = [pc EXCEPT ![r] = IF next \in {"read", "done"} THEN next ELSE "call"]
     /\ calls' = IF next \in {"read", "done"} THEN rest ELSE Append(rest, CallOf(r, next, <<>>))
     /\ floor' = IF next = "done" /\ result = "ok" /\ req[r].kind = "incremental"
                    /\ applied[r] > floor THEN applied[r] ELSE floor

\* SetFullConfig: the configuration is written to a file and validated.
SetFullConfig(r) ==
  /\ pc[r] = "set" /\ req[r].kind = "full"
  /\ \/ /\ tmp' = TRUE
        /\ out' = [out EXCEPT ![r] = "ok"]
        /\ pc' = [pc EXCEPT ![r] = IF SaveOnSet THEN "call" ELSE "done"]
        /\ calls' = IF SaveOnSet THEN Append(calls, CallOf(r, "startup", <<>>)) ELSE calls
     \/ "file" \in Faults /\ tmp' \in BOOLEAN /\ Return(r, "err") /\ calls' = calls
  /\ UNCHANGED <<db, ver, ck, saved, masterEID, req, applied, get, history>>

\* ReplaceFullConfig and SetIncrementalConfig begin with a call.  A file that
\* SetFullConfig has left is removed first.
SetConfigDB(r) ==
  /\ pc[r] = "set" /\ req[r].kind \in {"replace", "incremental"}
  /\ tmp' = FALSE
  /\ calls' = Append(calls, IF req[r].kind = "replace"
                            THEN CallOf(r, "replace", req[r].edits)
                            ELSE CallOf(r, "create", <<>>))
  /\ pc' = [pc EXCEPT ![r] = "call"]
  /\ UNCHANGED <<db, ver, ck, saved, masterEID, req, out, applied, get, history>>

\* NewJsonClient and the edits.  The patch is sent unless it is empty; after
\* an error only the deferred DeleteCheckPoint is left.
SetIncrementalConfig(r) ==
  /\ pc[r] = "read"
  /\ \E readable \in {ck # None, ck # None /\ "file" \notin Faults} :
       LET s == IF readable THEN Edits(ck.config, req[r].edits)
                ELSE [data |-> Empty, patch |-> <<>>, err |-> TRUE]
           nothing == s.err \/ s.patch = <<>>
       IN /\ out' = [out EXCEPT ![r] = IF s.err THEN "err" ELSE "ok"]
          /\ calls' = Append(calls, IF nothing THEN CallOf(r, "delete", <<>>)
                                    ELSE CallOf(r, "apply", s.patch))
  /\ pc' = [pc EXCEPT ![r] = "call"]
  /\ UNCHANGED <<db, ver, files, masterEID, req, applied, get, history>>

\* The host services carry out a call.
Effect(c) ==
  /\ ck' = CASE c.op = "create" -> [config |-> db, ver |-> ver]
              [] c.op = "delete" -> None
              [] c.op \notin {"create", "delete"} -> ck
  /\ saved' = IF c.op \in {"save", "startup"} THEN ver ELSE saved
  /\ db' = CASE c.op = "replace" -> c.edits[1].val
              [] c.op = "apply" -> ApplyPatch(db, c.edits).data
              [] c.op \notin {"replace", "apply"} -> db
  /\ ver' = IF c.op \in {"replace", "apply"} THEN ver + 1 ELSE ver

\* A call succeeds.  Its sender is told, unless it waits no longer.
HostDoes ==
  /\ calls # <<>>
  /\ LET c == Head(calls)
     IN /\ c.op = "apply" => ~ApplyPatch(db, c.edits).err
        /\ Effect(c)
        /\ applied' = IF c.by # None /\ c.op \in {"replace", "apply"}
                      THEN [applied EXCEPT ![c.by] = ver'] ELSE applied
        /\ IF c.by # None THEN Resume(c.by, c, TRUE, Tail(calls))
           ELSE calls' = Tail(calls) /\ UNCHANGED <<pc, out, floor>>
        /\ stuck' = (stuck /\ c.op # "delete")
  /\ UNCHANGED <<tmp, masterEID, req, get>>

\* A call fails.  A patch may have been applied in part.
HostFails ==
  /\ calls # <<>>
  /\ LET c == Head(calls)
     IN /\ c.op \in Faults \/ (c.op = "apply" /\ ApplyPatch(db, c.edits).err)
        /\ IF c.op = "apply"
           THEN /\ \E n \in 0 .. Len(c.edits) - 1 : db' = ApplyPatch(db, SubSeq(c.edits, 1, n)).data
                /\ ver' = IF db' = db THEN ver ELSE ver + 1
           ELSE UNCHANGED <<db, ver>>
        /\ IF c.by # None THEN Resume(c.by, c, FALSE, Tail(calls))
           ELSE calls' = Tail(calls) /\ UNCHANGED <<pc, out, floor>>
        /\ stuck' = (stuck \/ c.op = "delete")
  /\ UNCHANGED <<files, masterEID, req, applied, get>>

\* Mutant: the reply to the call that was given up is still taken.
Timeout_LateReply(r) ==
  /\ pc[r] = "call" /\ "timeout" \in Faults
  /\ \E i \in DOMAIN calls :
       /\ calls[i].by = r
       /\ Resume(r, calls[i], FALSE, calls)
       /\ stuck' = (stuck \/ calls[i].op = "delete")
  /\ UNCHANGED <<db, ver, files, masterEID, req, applied, get>>

\* DbusApi gives up waiting; the host services still have the call.
Timeout(r) ==
  /\ pc[r] = "call" /\ "timeout" \in Faults
  /\ \E i \in DOMAIN calls :
       /\ calls[i].by = r
       /\ Resume(r, calls[i], FALSE, [calls EXCEPT ![i].by = None])
       /\ stuck' = (stuck \/ calls[i].op = "delete")
  /\ UNCHANGED <<db, ver, files, masterEID, req, applied, get>>

---------------------------------------------------------------------------
(* Set: bypass.TrySet                                                      *)

\* One DEL of an entry or HSET after the other, deletes first.
Bypass(r) ==
  /\ pc[r] = "set" /\ req[r].kind = "bypass" /\ req[r].edits # <<>>
  /\ LET e == Head(req[r].edits)
         entry == SubSeq(e.path, 1, 2)
     IN /\ e.op = "remove" => Len(e.path) >= 2
        /\ db' = IF e.op = "remove" THEN RemovePath(db, entry) ELSE Merge(db, e.val)
        /\ ver' = ver + 1
  /\ req' = [req EXCEPT ![r].edits = Tail(@)]
  /\ UNCHANGED <<files, calls, masterEID, pc, out, applied, get, history>>

\* Redis fails, after some entries of a table have been written, or the
\* path to delete has no key.
BypassFails(r) ==
  /\ pc[r] = "set" /\ req[r].kind = "bypass" /\ req[r].edits # <<>>
  /\ LET e == Head(req[r].edits)
     IN IF e.op = "remove"
        THEN ("redis" \in Faults \/ Len(e.path) < 2) /\ UNCHANGED <<db, ver>>
        ELSE /\ "redis" \in Faults
             /\ \E keys \in SUBSET {SubSeq(l, 1, 2) : l \in DOMAIN e.val} :
                  /\ Len(e.path) > 1 => keys = {}
                  /\ db' = Merge(db, [l \in {k \in DOMAIN e.val : SubSeq(k, 1, 2) \in keys} |-> e.val[l]])
                  /\ ver' = IF keys = {} THEN ver ELSE ver + 1
  /\ Return(r, "err")
  /\ UNCHANGED <<files, calls, masterEID, req, applied, get, history>>

BypassDone(r) ==
  /\ pc[r] = "set" /\ req[r].kind = "bypass" /\ req[r].edits = <<>>
  /\ Return(r, "ok")
  /\ UNCHANGED <<db, ver, files, calls, masterEID, req, applied, get, history>>

---------------------------------------------------------------------------
(* Get                                                                     *)

GetBegin(g) ==
  /\ gpc[g] = "idle"
  /\ need' = [need EXCEPT ![g] = floor]
  /\ gpc' = [gpc EXCEPT ![g] = "checkpoint"]
  /\ UNCHANGED <<db, ver, files, calls, masterEID, set, path, answer, history>>

\* The checkpoint is read; without it, or without the path in it, CONFIG_DB is.
\* One that could not be deleted excuses the answer.
GetCheckPoint(g) ==
  /\ gpc[g] = "checkpoint"
  /\ LET found == IF ck = None THEN FALSE ELSE Decode(ck.config, path[g])
     IN /\ gpc' = [gpc EXCEPT ![g] = IF found THEN "done" ELSE "db"]
        /\ answer' = [answer EXCEPT ![g] = IF found THEN ck.ver ELSE @]
        /\ need' = [need EXCEPT ![g] = IF found /\ stuck THEN 0 ELSE @]
  /\ UNCHANGED <<db, ver, files, calls, masterEID, set, path, history>>

GetDb(g) ==
  /\ gpc[g] = "db"
  /\ answer' = [answer EXCEPT ![g] = ver]
  /\ gpc' = [gpc EXCEPT ![g] = "done"]
  /\ UNCHANGED <<db, ver, files, calls, masterEID, set, path, need, history>>

---------------------------------------------------------------------------
\* The process is killed and started again; the host services go on.
Restart ==
  /\ pc' = [r \in Sets |-> IF pc[r] = "idle" THEN "idle" ELSE "done"]
  /\ out' = [r \in Sets |-> IF pc[r] \in {"idle", "done"} THEN out[r] ELSE "killed"]
  /\ calls' = [i \in DOMAIN calls |-> [calls[i] EXCEPT !.by = None]]
  /\ gpc' = [g \in Gets |-> IF gpc[g] = "done" THEN "done" ELSE "idle"]
  /\ masterEID' = <<0, 0>>
  /\ UNCHANGED <<db, ver, files, req, applied, path, answer, need, history>>

Next ==
  \/ \E r \in Sets : \/ ReqFromMaster(r) \/ Refuse(r) \/ SetFullConfig(r) \/ SetConfigDB(r)
                     \/ SetIncrementalConfig(r) \/ Timeout(r)
                     \/ Bypass(r) \/ BypassFails(r) \/ BypassDone(r)
  \/ HostDoes \/ HostFails
  \/ \E g \in Gets : GetBegin(g) \/ GetCheckPoint(g) \/ GetDb(g)
  \/ Restart

Spec == Init /\ [][Next]_vars

---------------------------------------------------------------------------
(* Properties                                                              *)

\* The variables have their types, and exactly the Set RPCs that wait for a
\* D-Bus reply have a call with the host services, one each.
TypeOK ==
  /\ ver \in Nat /\ saved \in 0 .. ver /\ floor \in 0 .. ver /\ {tmp, stuck} \subseteq BOOLEAN
  /\ ck = None \/ ck.ver \in 0 .. ver
  /\ pc \in [Sets -> {"idle", "set", "call", "read", "done"}]
  /\ out \in [Sets -> {None, "ok", "err", "killed"}]
  /\ gpc \in [Gets -> {"idle", "checkpoint", "db", "done"}]
  /\ \A r \in Sets : pc[r] = "call" <=> \E i \in DOMAIN calls : calls[i].by = r
  /\ \A i, j \in DOMAIN calls : calls[i].by = calls[j].by => i = j \/ calls[i].by = None

\* A Get that begins after an incremental Set has returned success sees that
\* Set or a newer configuration, whatever other Sets, timeouts and restarts
\* do to the checkpoint it reads: MixedDbClient.Get prefers the checkpoint to
\* CONFIG_DB, and SetIncrementalConfig deletes it before it returns.  Only a
\* checkpoint whose deletion failed or was not waited for may be older.
GetSeesSets == \A g \in Gets : gpc[g] = "done" => answer[g] >= need[g]

\* A Set through the host services that has returned success is in
\* config_db.json, whatever timed-out calls of other Sets are carried out
\* late: SetIncrementalConfig and ReplaceFullConfig succeed only after
\* ConfigSave, with --with-save-on-set or without.
SuccessIsSaved ==
  \A r \in Sets : pc[r] = "done" /\ out[r] = "ok" => saved >= applied[r]

\* On the checkpoint it is made from, the patch does what the edits did to
\* the JsonClient's copy: deletes of what earlier edits have removed are not
\* in it and nothing else is left out.  It is malformed only if it has a
\* replacement without a value.
PatchIsExact ==
  \A r \in Sets : pc[r] = "read" /\ ck # None =>
    LET s == Edits(ck.config, req[r].edits)
        p == ApplyPatch(ck.config, s.patch)
    IN ~s.err => IF \E e \in Range(s.patch) : e.op = "replace" /\ e.val = None
                 THEN p.err ELSE ~p.err /\ p.data = s.data

\* No Set that was let in has a higher election id than the master, in
\* whatever order they came and however often the server restarted:
\* ReqFromMasterEnabledMA compares 128-bit ids by two words.
MasterIsHighest ==
  \A r \in Sets : pc[r] \notin {"idle", "done"} =>
    LET eid == req[r].eid
    IN \/ eid = None
       \/ masterEID[1] > eid[1]
       \/ masterEID[1] = eid[1] /\ masterEID[2] >= eid[2]
=============================================================================
