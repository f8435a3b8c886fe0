---------------------------- MODULE CertzRotate -----------------------------
(***************************************************************************)
(* The gNSI.certz Rotate RPC (gnmi_server/gnsi_certz.go) for the default   *)
(* profile, the only one there can be: AddProfile is not implemented.  One *)
(* step is one file operation where a crash or a handshake in between can  *)
(* be told apart.  Handshakes read the links as SrvAdvConfig (server.go)   *)
(* sets them up.                                                           *)
(***************************************************************************)
EXTENDS Integers, Sequences

CONSTANTS Requests,     \* UploadRequests: sequences of entities [t, v, q]
          CrlNames,     \* the names of the lists of a CRL bundle
          Faults,       \* "write", "link", "db", "send": what may fail
          MaxUploads, MaxRpcs, MaxCrashes

\* Every uploaded file has a path of its own, which newGenericEntity makes
\* from the clock: here the number of the upload.  Path 0 is the configured
\* file, Gone is no file.  Version 0 is the "V1" of bootstrapDefaultProfile.
Gone == -1
Ids == 0..MaxUploads
Types == {"cert", "tb", "crl", "ap"}
Links == {"cert", "key", "tb"}
NoMeta == [none |-> TRUE]

VARIABLES disk,   \* files, links, CRL directories, policy, metadata file, and
                  \* whether the configuration names a CA file
          db,     \* the versions in STATE_DB's CREDENTIALS|CERT table
          mem,    \* the profile: act, last, and whether a key was generated
          h,      \* the Rotate handler
          up,     \* the process: "down", "up" or "refused" to start
          hs,     \* a TLS handshake reading the links
          n,      \* counters: uploads, rpcs, crashes
          g       \* what the properties remember

vars == <<disk, db, mem, h, up, hs, n, g>>

Entity(v, c, k, f) == [v |-> v, c |-> c, k |-> k, final |-> f]
Idle == [pc |-> "idle", todo |-> <<>>, ent |-> Entity(0, Gone, Gone, FALSE),
         old |-> [l \in Links |-> Gone], ret |-> "idle", prof |-> FALSE,
         over |-> FALSE, lock |-> FALSE]
NoHs == [st |-> "none", c |-> Gone, res |-> "none", over |-> FALSE]
Exists(d, l, f) == <<l, f>> \in d.files
State == [act |-> mem.act, lnk |-> disk.lnk, crl |-> disk.crl, ap |-> disk.ap, db |-> db]

\* The links and STATE_DB agree with the profile.
Sound(s) ==
  /\ s.lnk["cert"] = s.act["cert"].c /\ s.lnk["key"] = s.act["cert"].k
  /\ s.lnk["tb"] = s.act["tb"].c
  /\ \A t \in Types : s.db[t] = s.act[t].v

Goto(l) == h' = [h EXCEPT !.pc = l]
Fails(k) == k \in Faults /\ g' = [g EXCEPT !.bad = TRUE]
Fine == g' = g

Init ==
  /\ disk \in [ca : BOOLEAN, files : {Links \X {0}}, lnk : {[l \in Links |-> Gone]},
               crl : {{}, CrlNames \X {0}}, flush : {{}},
               ap : {0}, bak : {Gone}, meta : {NoMeta}]
  /\ db = [t \in Types |-> Gone]
  /\ mem = [act |-> [t \in Types |-> Idle.ent], last |-> [t \in Types |-> Idle.ent], gen |-> FALSE]
  /\ h = Idle /\ up = "down" /\ hs = NoHs
  /\ n = [uploads |-> 0, rpcs |-> 0, crashes |-> 0]
  /\ g = [start |-> State, bad |-> FALSE, part |-> FALSE, torn |-> FALSE,
          sound |-> FALSE, ended |-> "none"]

---------------------------------------------------------------------------
(* Start-up. *)

isSymlinkValid(d, l) == Exists(d, l, d.lnk[l])
\* The links that are not valid are set to the configured files.
SrvAdvConfig(d) ==
  LET pair == isSymlinkValid(d, "cert") /\ isSymlinkValid(d, "key")
  IN [l \in Links |-> CASE l = "tb" /\ d.ca /\ ~isSymlinkValid(d, l) -> 0
                        [] l # "tb" /\ ~pair -> 0
                        [] OTHER -> d.lnk[l]]
SrvAdvConfigFails(d) ==
  \/ d.ca /\ ~Exists(d, "tb", 0)
  \/ ~(isSymlinkValid(d, "cert") /\ isSymlinkValid(d, "key"))
     /\ ~(Exists(d, "cert", 0) /\ Exists(d, "key", 0))

restoreFromFile(d, l) ==
  IF Exists(d, l, d.lnk[l]) THEN d.lnk[l]
  ELSE IF Exists(d, l, 0) /\ (l = "tb" => d.ca) THEN 0 ELSE Gone

bootstrapDefaultProfile(d) ==
  [act |-> [t \in Types |->
     CASE t = "cert" -> Entity(0, restoreFromFile(d, "cert"), restoreFromFile(d, "key"), TRUE)
       [] t = "tb" -> Entity(0, restoreFromFile(d, "tb"), Gone, TRUE)
       [] OTHER -> Entity(0, Gone, Gone, TRUE)],
   last |-> [t \in Types |-> Idle.ent]]

validateProfileExists(d, p) ==
  /\ Exists(d, "cert", p.act["cert"].c) /\ Exists(d, "key", p.act["cert"].k)
  /\ Exists(d, "tb", p.act["tb"].c)

\* loadCertzMetadata, or the bootstrapped profile.
Profile(d) ==
  IF d.meta # NoMeta /\ validateProfileExists(d, d.meta) THEN d.meta ELSE bootstrapDefaultProfile(d)

\* The service of a new server, on the files d.
NewGNSICertzServer(d) ==
  LET p == Profile(d)
  IN /\ disk' = [d EXCEPT !.meta = p]
     /\ mem' = [act |-> p.act, last |-> p.last, gen |-> FALSE]
     /\ db' = [t \in Types |-> p.act[t].v]

Start ==
  /\ up = "down"
  /\ IF SrvAdvConfigFails(disk)
     THEN up' = "refused" /\ UNCHANGED <<disk, db, mem>>
     ELSE up' = "up" /\ NewGNSICertzServer([disk EXCEPT !.lnk = SrvAdvConfig(disk)])
  /\ UNCHANGED <<h, hs, n, g>>

\* The process stops at any point and loses what it holds in memory.
Crash ==
  /\ up = "up" /\ n.crashes < MaxCrashes
  /\ n' = [n EXCEPT !.crashes = @ + 1]
  /\ up' = "down" /\ h' = Idle /\ hs' = NoHs
  /\ g' = [g EXCEPT !.torn = @ \/ h.pc \in {"rmkey", "lncert", "lnkey", "lntb"},
                    !.ended = IF h.pc = "idle" THEN @ ELSE "crashed"]
  /\ UNCHANGED <<disk, db, mem>>

---------------------------------------------------------------------------
(* Rotate: the loop of receives. *)

\* certzMu.TryLock: the one RPC at a time; a second one is refused.
Begin ==
  /\ up = "up" /\ h.pc = "idle" /\ n.rpcs < MaxRpcs
  /\ n' = [n EXCEPT !.rpcs = @ + 1]
  /\ Goto("recv")
  /\ g' = [g EXCEPT !.start = State, !.part = FALSE, !.ended = "none",
                    !.sound = Sound(State) /\ disk.flush = disk.crl /\ disk.bak = Gone]
  /\ UNCHANGED <<disk, db, mem, up, hs>>

\* EOF, an error of the stream, or a request that names nothing to do.
RecvEnds ==
  /\ up = "up" /\ h.pc = "recv" /\ Goto("revert")
  /\ UNCHANGED <<disk, db, mem, up, hs, n, g>>

\* A first request for a profile that does not exist: nothing to revert.
RecvUnknownProfile ==
  /\ up = "up" /\ h.pc = "recv" /\ ~h.prof /\ h' = Idle
  /\ g' = [g EXCEPT !.ended = "reverted"]
  /\ UNCHANGED <<disk, db, mem, up, hs, n>>

\* doGenerateCsr: the key is kept with the profile; an unknown suite fails.
doGenerateCsr ==
  /\ up = "up" /\ h.pc = "recv"
  /\ h' = [h EXCEPT !.prof = TRUE, !.pc = "reply"]
  /\ mem' = [mem EXCEPT !.gen = TRUE]
  /\ UNCHANGED <<disk, db, up, hs, n, g>>

MutLocked(r, over) == [h EXCEPT !.prof = TRUE, !.pc = "entity", !.todo = r, !.over = over]

Locked(r, over) ==
  [h EXCEPT !.prof = TRUE, !.pc = "entity", !.todo = r, !.over = over, !.lock = TRUE]
\* doUpload takes muPath, and so waits for handshakes that read the links.
doUpload ==
  /\ up = "up" /\ h.pc = "recv" /\ hs.st = "none"
  /\ \E r \in Requests, over \in BOOLEAN :
       /\ n.uploads + Len(r) <= MaxUploads
       /\ h' = Locked(r, over)
  /\ UNCHANGED <<disk, db, mem, up, hs, n, g>>

entityAlreadyActive(e) == e.v = mem.act[e.t].v
\* The checks on one entity: its fields (readCertChain included) and version.
Refused(e) ==
  \/ e.q = "bad"
  \/ ~h.over /\ entityAlreadyActive(e)
  \/ e.q = "nokey" /\ ~mem.gen

newGenericEntity(e) ==
  CASE e.t = "cert" -> Entity(e.v, n.uploads + 1, n.uploads + 1, FALSE)
    [] e.t = "tb" -> Entity(e.v, n.uploads + 1, Gone, FALSE)
    [] OTHER -> Entity(e.v, Gone, Gone, FALSE)

Unlocked(l) == [Idle EXCEPT !.pc = l, !.prof = TRUE]

\* The loop of doUpload; with no entity left it answers.
NextEntity ==
  /\ up = "up" /\ h.pc = "entity"
  /\ IF h.todo = <<>> THEN h' = Unlocked("reply") /\ n' = n
     ELSE LET e == Head(h.todo)
          IN IF Refused(e) THEN h' = Unlocked("revert") /\ n' = n
             ELSE /\ h' = [h EXCEPT !.ent = newGenericEntity(e),
                                    !.pc = CASE e.t = "cert" -> "savekey" [] e.t = "tb" -> "savetb"
                                             [] e.t = "crl" -> "savecrl" [] OTHER -> "backup",
                                    !.ret = "activate"]
                  /\ n' = [n EXCEPT !.uploads = @ + 1]
  /\ UNCHANGED <<disk, db, mem, up, hs, g>>

Reply ==
  /\ up = "up" /\ h.pc = "reply"
  /\ \/ Goto("recv") /\ Fine
     \/ "send" \in Faults /\ Goto("revert") /\ Fine
  /\ UNCHANGED <<disk, db, mem, up, hs, n>>

---------------------------------------------------------------------------
(* saveEntities: attemptWrite writes the file or leaves none. *)

attemptWrite(file, next) ==
  \/ disk' = [disk EXCEPT !.files = @ \cup {file}] /\ Fine /\ Goto(next)
  \/ Fails("write") /\ disk' = [disk EXCEPT !.files = @ \ {file}] /\ h' = Unlocked("revert")

saveEntities ==
  /\ up = "up"
  /\ \/ h.pc = "savekey" /\ attemptWrite(<<"key", h.ent.k>>, "savecert")
     \/ h.pc = "savecert" /\ attemptWrite(<<"cert", h.ent.c>>, "rmcert")
     \/ h.pc = "savetb" /\ attemptWrite(<<"tb", h.ent.c>>, "rmtb")
  /\ UNCHANGED <<db, mem, up, hs, n>>

\* A directory after one list has been written to it.
WriteCrl(dir, name, id) == {f \in dir : f[1] # name} \cup {<<name, id>>}

\* rotateCRLBundle writes each list as soon as it has been checked ("part": a
\* later one is refused), empties the directory, and writes them all again.
rotateCRLBundle ==
  /\ up = "up"
  /\ \/ /\ h.pc = "savecrl" /\ Head(h.todo).q = "part"
        /\ \E c \in CrlNames : disk' = [disk EXCEPT !.crl = WriteCrl(@, c, n.uploads)]
        /\ g' = [g EXCEPT !.part = TRUE] /\ h' = Unlocked("revert")
     \/ /\ h.pc = "savecrl" /\ Head(h.todo).q # "part"
        /\ disk' = [disk EXCEPT !.crl = {}] /\ Fine /\ Goto("savecrls")
     \/ /\ h.pc = "savecrls" /\ disk' = [disk EXCEPT !.crl = CrlNames \X {n.uploads}]
        /\ Fine /\ Goto("activate")
     \/ /\ h.pc = "savecrls" /\ Fails("write") /\ disk' = disk /\ h' = Unlocked("revert")
  /\ UNCHANGED <<db, mem, up, hs, n>>

\* The policy is backed up unless a backup is there; failing to write the new
\* one puts the backup back.
savePolicy ==
  /\ up = "up"
  /\ \/ /\ h.pc = "backup" /\ Fine
        /\ IF disk.bak # Gone THEN disk' = disk /\ Goto("saveap")
           ELSE IF disk.ap = Gone THEN disk' = disk /\ h' = Unlocked("revert")
           ELSE disk' = [disk EXCEPT !.bak = disk.ap, !.ap = Gone] /\ Goto("saveap")
     \/ /\ h.pc = "saveap" /\ disk' = [disk EXCEPT !.ap = n.uploads] /\ Fine /\ Goto("activate")
     \/ /\ h.pc = "saveap" /\ Fails("write")
        /\ disk' = [disk EXCEPT !.ap = disk.bak, !.bak = Gone] /\ h' = Unlocked("revert")
  /\ UNCHANGED <<db, mem, up, hs, n>>

---------------------------------------------------------------------------
(* The links.  atomicSetSrvCertKeyPair and atomicSetCACert run with muPath *)
(* held when doUpload calls them and without it when revertProfile does.   *)

Relink(l, f, next) == /\ disk' = [disk EXCEPT !.lnk[l] = f]
                      /\ h' = [h EXCEPT !.pc = next, !.old[l] = disk.lnk[l]]
                      /\ Fine

\* restoreSymlink: the old target, if there is one and it still exists.
restoreSymlink(ls) ==
  [l \in Links |-> IF l \in ls /\ Exists(disk, l, h.old[l]) THEN h.old[l] ELSE disk.lnk[l]]

\* A new link cannot be made: the caller gives up (doUpload) or goes on.
LinkFails(ls) ==
  /\ Fails("link") /\ disk' = [disk EXCEPT !.lnk = restoreSymlink(ls)]
  /\ IF h.ret = "activate" THEN h' = Unlocked("revert") ELSE Goto(h.ret)

atomicSetSrvCertKeyPair ==
  /\ up = "up"
  /\ \/ h.pc = "rmcert" /\ Relink("cert", Gone, "rmkey")
     \/ h.pc = "rmkey" /\ Relink("key", Gone, "lncert")
     \/ /\ h.pc = "lncert"
        /\ \/ disk' = [disk EXCEPT !.lnk["cert"] = h.ent.c] /\ Goto("lnkey") /\ Fine
           \/ LinkFails({"cert", "key"})
     \/ /\ h.pc = "lnkey"
        /\ \/ disk' = [disk EXCEPT !.lnk["key"] = h.ent.k] /\ Goto(h.ret) /\ Fine
           \/ LinkFails({"cert", "key"})
  /\ hs' = [hs EXCEPT !.over = @ \/ (hs.st = "key" /\ h.ret = "rvcert")]
  /\ UNCHANGED <<db, mem, up, n>>

atomicSetCACert ==
  /\ up = "up"
  /\ \/ h.pc = "rmtb" /\ Relink("tb", Gone, "lntb")
     \/ /\ h.pc = "lntb"
        /\ \/ disk' = [disk EXCEPT !.lnk["tb"] = h.ent.c] /\ Goto(h.ret) /\ Fine
           \/ LinkFails({"tb"})
  /\ UNCHANGED <<db, mem, up, hs, n>>

\* writeEntityFreshness: a database that cannot be reached is only logged.
writeEntityFreshness(t, v) ==
  \/ db' = [db EXCEPT ![t] = v] /\ Fine
  \/ Fails("db") /\ db' = db

\* The last entity is the one to go back to: it changes only from a final one.
LastAfter(t) == IF mem.act[t].final THEN mem.act[t] ELSE mem.last[t]
activateEntity ==
  /\ up = "up" /\ h.pc = "activate"
  /\ LET t == Head(h.todo).t
     IN /\ mem' = [mem EXCEPT !.last[t] = LastAfter(t), !.act[t] = h.ent]
        /\ writeEntityFreshness(t, h.ent.v)
  /\ h' = [h EXCEPT !.pc = "entity", !.todo = Tail(@)]
  /\ UNCHANGED <<disk, up, hs, n>>

---------------------------------------------------------------------------
(* The end of a rotation. *)

EntityFiles(t, e) == CASE t = "cert" -> {<<"cert", e.c>>, <<"key", e.k>>}
                       [] t = "tb" -> {<<"tb", e.c>>} [] OTHER -> {}

Undone(t) == EntityFiles(t, mem.act[t])

\* One entity of revertProfile once its files are back in place.
Reverted(t, next) ==
  /\ writeEntityFreshness(t, mem.last[t].v)
  /\ mem' = [mem EXCEPT !.act[t] = mem.last[t]]
  /\ Goto(next)

Skip(next) == Goto(next) /\ Fine /\ UNCHANGED <<disk, db, mem>>
SetBack(t, pc, ret) ==
  /\ h' = [h EXCEPT !.pc = pc, !.ent = mem.last[t], !.ret = ret]
  /\ Fine /\ UNCHANGED <<disk, db, mem>>

revertProfile ==
  /\ up = "up"
  /\ \/ h.pc = "revert" /\ mem.act["cert"].final /\ Skip("rvtb")
     \/ h.pc = "revert" /\ ~mem.act["cert"].final /\ SetBack("cert", "rmcert", "rvcert")
     \/ /\ h.pc = "rvcert" /\ Reverted("cert", "rvtb")
        /\ disk' = [disk EXCEPT !.files = @ \ Undone("cert")]
     \/ h.pc = "rvtb" /\ mem.act["tb"].final /\ Skip("rvcrl")
     \/ h.pc = "rvtb" /\ ~mem.act["tb"].final /\ SetBack("tb", "rmtb", "rvtbs")
     \/ /\ h.pc = "rvtbs" /\ Reverted("tb", "rvcrl")
        /\ disk' = [disk EXCEPT !.files = @ \ Undone("tb")]
     \/ h.pc = "rvcrl" /\ mem.act["crl"].final /\ Skip("rvap")
     \/ /\ h.pc = "rvcrl" /\ ~mem.act["crl"].final /\ Goto("rvcrls") /\ Fine
        /\ disk' = [disk EXCEPT !.crl = {}] /\ UNCHANGED <<db, mem>>
     \/ /\ h.pc = "rvcrls" /\ Reverted("crl", "rvap")
        /\ disk' = [disk EXCEPT !.crl = disk.flush]
     \/ h.pc = "rvap" /\ mem.act["ap"].final /\ Skip("reverted")
     \/ /\ h.pc = "rvap" /\ ~mem.act["ap"].final /\ Reverted("ap", "reverted")
        /\ disk' = IF disk.bak = Gone THEN disk ELSE [disk EXCEPT !.ap = disk.bak, !.bak = Gone]
  /\ UNCHANGED <<up, hs, n>>

EndReverted ==
  /\ up = "up" /\ h.pc = "reverted" /\ h' = Idle
  /\ g' = [g EXCEPT !.ended = "reverted"]
  /\ UNCHANGED <<disk, db, mem, up, hs, n>>

\* A Finalize before any other request names no profile and is refused.
RecvFinalize ==
  /\ up = "up" /\ h.pc = "recv"
  /\ IF h.prof THEN Goto("fincert") /\ Fine
     ELSE h' = Idle /\ g' = [g EXCEPT !.ended = "reverted"]
  /\ UNCHANGED <<disk, db, mem, up, hs, n>>

Finalized(t) == LET e == [mem.act[t] EXCEPT !.final = TRUE]
                IN [mem EXCEPT !.act[t] = e, !.last[t] = e]
\* The files of the entity that the new one replaces are removed.
FinalizeFiles(t, next) ==
  /\ disk' = IF mem.act[t].final THEN disk
             ELSE [disk EXCEPT !.files = @ \ EntityFiles(t, mem.last[t])]
  /\ mem' = Finalized(t) /\ Goto(next)

saveCertzMetadata(next) ==
  \/ disk' = [disk EXCEPT !.meta = [act |-> mem.act, last |-> mem.last]]
     /\ h' = next /\ g' = [g EXCEPT !.ended = "finalized", !.start = State]
  \/ /\ "write" \in Faults /\ disk' = [disk EXCEPT !.meta = NoMeta]
     /\ h' = next /\ g' = [g EXCEPT !.bad = TRUE, !.ended = "failed"]

finalizeProfile ==
  /\ up = "up"
  /\ \/ h.pc = "fincert" /\ FinalizeFiles("cert", "fintb") /\ Fine
     \/ h.pc = "fintb" /\ FinalizeFiles("tb", "fincrl") /\ Fine
     \/ h.pc = "fincrl" /\ mem.act["crl"].final /\ Goto("finap") /\ Fine /\ UNCHANGED <<disk, mem>>
     \/ /\ h.pc = "fincrl" /\ ~mem.act["crl"].final /\ Goto("fincrls") /\ Fine
        /\ disk' = [disk EXCEPT !.flush = {}] /\ mem' = mem
     \/ /\ h.pc = "fincrls" /\ Goto("finap") /\ Fine
        /\ disk' = [disk EXCEPT !.flush = disk.crl] /\ mem' = Finalized("crl")
     \/ /\ h.pc = "finap" /\ Goto("finsave") /\ Fine /\ mem' = Finalized("ap")
        /\ disk' = IF mem.act["ap"].final THEN disk ELSE [disk EXCEPT !.bak = Gone]
     \/ h.pc = "finsave" /\ saveCertzMetadata(Idle) /\ mem' = mem
  /\ UNCHANGED <<db, up, hs, n>>

---------------------------------------------------------------------------
(* A handshake: LoadX509KeyPair reads the certificate through its link and *)
(* then the key, with muPath read-locked.                                  *)

Unguarded == h.pc \in {"rmkey", "lncert", "lnkey"} /\ h.ret = "rvcert"
HsCert ==
  /\ up = "up" /\ hs.st = "none" /\ ~h.lock
  /\ hs' = IF isSymlinkValid(disk, "cert")
           THEN [st |-> "key", c |-> disk.lnk["cert"], res |-> "none", over |-> Unguarded]
           ELSE [NoHs EXCEPT !.res = "fail", !.over = Unguarded]
  /\ UNCHANGED <<disk, db, mem, h, up, n, g>>
HsKey ==
  /\ up = "up" /\ hs.st = "key"
  /\ hs' = IF isSymlinkValid(disk, "key") /\ disk.lnk["key"] = hs.c THEN NoHs
           ELSE [NoHs EXCEPT !.res = "fail", !.over = hs.over \/ Unguarded]
  /\ UNCHANGED <<disk, db, mem, h, up, n, g>>

Rotate ==
  \/ Begin \/ RecvEnds \/ RecvUnknownProfile \/ doGenerateCsr \/ doUpload \/ NextEntity \/ Reply
  \/ saveEntities \/ rotateCRLBundle \/ savePolicy
  \/ atomicSetSrvCertKeyPair \/ atomicSetCACert \/ activateEntity
  \/ revertProfile \/ EndReverted \/ RecvFinalize \/ finalizeProfile

Next == Start \/ Crash \/ Rotate \/ HsCert \/ HsKey

Spec == Init /\ [][Next]_vars

---------------------------------------------------------------------------
Quiet == up = "up" /\ h.pc = "idle"

\* The disk, the handshake and the rotation under way keep their types.
TypeOK ==
  /\ disk.files \subseteq Links \X Ids /\ disk.lnk \in [Links -> Ids \cup {Gone}]
  /\ disk.crl \cup disk.flush \subseteq CrlNames \X Ids
  /\ {disk.ap, disk.bak} \subseteq Ids \cup {Gone}
  /\ hs.st \in {"none", "key"} /\ h.lock \in BOOLEAN /\ up \in {"down", "up", "refused"}

\* A rotation that is not finalized leaves the profile, the links, the lists,
\* the policy and STATE_DB as it found them, however many entities it had
\* uploaded ("Revert all changes made until now", gnsi_certz.go:246).
RevertRestores ==
  Quiet /\ g.ended = "reverted" /\ g.sound /\ ~g.bad /\ ~g.part /\ (disk.ca \/ n.crashes = 0)
    => State = g.start

\* A finalized rotation is what the server has after any number of restarts
\* ("All changes are final", gnsi_certz.go:257), if a CA is configured.
FinalizeDurable ==
  Quiet /\ g.ended = "finalized" /\ disk.ca /\ ~g.bad => State = g.start

\* The active certificate and its key are files of one upload.
ActiveResolves ==
  up = "up" /\ ~g.bad =>
    LET e == mem.act["cert"] IN e.c = e.k /\ {<<"cert", e.c>>, <<"key", e.k>>} \subseteq disk.files

\* A crash outside the replacement of the links leaves a server that starts,
\* while the configured CA file is there.
StartsAgain ==
  up = "refused" /\ ~g.bad => g.torn \/ (disk.ca /\ ~Exists(disk, "tb", 0))

\* A handshake that overlaps no unlocked replacement of the links reads a
\* certificate and its key.
HandshakePair == hs.res = "fail" => hs.over \/ g.bad
=============================================================================
