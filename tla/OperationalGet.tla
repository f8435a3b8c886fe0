--------------------------- MODULE OperationalGet ---------------------------
(***************************************************************************)
(* A gNMI Get on the OPERATIONAL target (server.go handleOperationalGet,   *)
(* pkg/server/operational-handler, internal/firmware, internal/diskspace): *)
(* each path is given to one of the registered path handlers, disk space   *)
(* or file listing; the listing walks a directory that other processes     *)
(* change meanwhile.                                                       *)
(*                                                                         *)
(* A path is a sequence of elements [name, key]; key is the value of the   *)
(* path or pattern key, "none" without one.  A file's content is a version *)
(* number that stands for its size and its MD5 sum.                        *)
(***************************************************************************)
EXTENDS Naturals, Sequences, FiniteSets

CONSTANTS OpRequests,  \* sequences of paths
          FileNames,   \* the names a directory may hold, in lexical order
          Kind,        \* name -> [dir, ext, words]
          Globs,       \* pattern -> the names it matches
          MaxFsOps

VARIABLES dir,     \* the directory exists
          tree,    \* name -> version, 0 when absent
          fsOps,
          og       \* the Get in progress

opVars == <<dir, tree, fsOps, og>>

NameSet == {FileNames[i] : i \in 1..Len(FileNames)}
Present == {n \in NameSet : dir /\ tree[n] > 0}
NoGet == [pc |-> "idle", paths |-> <<>>, handler |-> <<>>, todo |-> <<>>, files |-> <<>>,
          always |-> {}, ever |-> {}, changed |-> {}, values |-> <<>>, out |-> "none"]

OpInit ==
  /\ dir = TRUE /\ tree \in [NameSet -> {0, 1}] /\ fsOps = 0 /\ og = NoGet

----------------------------------------------------------------------------
\* Other processes.  The walk's witnesses: names present all the time, at some
\* time, and changed since it began.

Witnessed ==
  og' = [og EXCEPT !.always = @ \cap Present', !.ever = @ \cup Present',
                   !.changed = @ \cup {n \in NameSet : tree'[n] # tree[n]}]

FsOp(d, t) ==
  /\ fsOps < MaxFsOps /\ fsOps' = fsOps + 1
  /\ dir' = d /\ tree' = t /\ Witnessed

FsWrite == dir /\ \E n \in NameSet : FsOp(dir, [tree EXCEPT ![n] = @ + 1])
FsDelete == \E n \in Present : FsOp(dir, [tree EXCEPT ![n] = 0])
FsRmdir == dir /\ FsOp(FALSE, [n \in NameSet |-> 0])

----------------------------------------------------------------------------
\* internal/firmware.

determineFirmwareType(n) ==
  LET k == Kind[n] IN
  IF k.dir THEN "directory"
  ELSE IF k.ext \notin {"bin", "img"} \/ (k.ext = "img" /\ "sonic" \in k.words) THEN "other"
  ELSE IF "boot" \in k.words THEN "bootloader"
  ELSE IF k.words \cap {"bios", "uefi"} # {} THEN "bios"
  ELSE IF k.words \cap {"microcode", "ucode"} # {} THEN "microcode"
  ELSE IF k.words \cap {"asic", "fpga"} # {} THEN "asic"
  ELSE IF k.words \cap {"phy", "serdes"} # {} THEN "phy"
  ELSE IF "driver" \in k.words THEN "driver"
  ELSE "firmware"

IsFirmwareFile(n) ==
  /\ Kind[n].ext \in {"bin", "img"}
  /\ ~(Kind[n].ext = "img" /\ "sonic" \in Kind[n].words)

\* FileInfo; md5 is 0 for a directory and for a file that could not be read.
FileInfo(n) == [name |-> n, size |-> tree[n], md5 |-> 0, type |-> determineFirmwareType(n)]

----------------------------------------------------------------------------
\* Choosing a handler.

Slashed(p, S) == \E i \in 2..Len(p) : p[i].name \in S
Named(p, name) == \E i \in 1..Len(p) : p[i].name = name
Last(p) == p[Len(p)]

needsFileHandler(paths) ==
  \E i \in 1..Len(paths) : Slashed(paths[i], {"firmware", "files"})

SupportedPaths(paths) == {"disk"} \cup (IF needsFileHandler(paths) THEN {"files"} ELSE {})

\* A path that ends in /disk-space; a path that contains filesystem and
\* /files, where the text "/filesystem" contains "/files" too.
pathMatches(p, h) ==
  \/ h = "disk" /\ Len(p) > 1 /\ Last(p) = [name |-> "disk-space", key |-> "none"]
  \/ h = "files" /\ Named(p, "filesystem") /\ Slashed(p, {"files", "filesystem"})

\* isPathSupported, and the search of Get, which takes whichever matching
\* handler the iteration over the map meets first.
HandlersOf(p, paths) == {h \in SupportedPaths(paths) : pathMatches(p, h)}

OpGet(req) ==
  /\ og.pc = "idle"
  /\ IF \E i \in 1..Len(req) : HandlersOf(req[i], req) = {}
     THEN og' = [NoGet EXCEPT !.pc = "done", !.paths = req, !.out = "unimplemented"]
     ELSE \E h \in [1..Len(req) -> {"disk", "files"}] :
            /\ \A i \in 1..Len(req) : h[i] \in HandlersOf(req[i], req)
            /\ og' = [NoGet EXCEPT !.pc = "handle", !.paths = req, !.handler = h]
  /\ UNCHANGED <<dir, tree, fsOps>>

----------------------------------------------------------------------------
\* The handlers.

Cur == og.paths[Len(og.values) + 1]
Fails == [og EXCEPT !.pc = "done", !.out = "notfound", !.values = <<>>]

\* The value of one path; after the last one the Get is over.
Answers(v) ==
  [og EXCEPT !.values = Append(@, v),
             !.pc = IF Len(og.values) + 1 = Len(og.paths) THEN "done" ELSE "handle",
             !.out = IF Len(og.values) + 1 = Len(og.paths) THEN "ok" ELSE "none"]

Value(kind, files, count) ==
  [path |-> Cur, kind |-> kind, files |-> files, count |-> count,
   always |-> og.always, ever |-> og.ever, changed |-> og.changed]

\* extractFilesystemPath: the first filesystem element that has a path key.
FilesystemPath(p) ==
  LET keyed == {i \in 1..Len(p) : p[i].name = "filesystem" /\ p[i].key # "none"} IN
  IF keyed = {} THEN "" ELSE p[CHOOSE i \in keyed : \A j \in keyed : i <= j].key

\* DiskSpaceHandler.HandleGet and diskspace.Monitor.Get.
DiskSpace ==
  /\ og.pc = "handle" /\ og.handler[Len(og.values) + 1] = "disk"
  /\ LET at == FilesystemPath(Cur) IN
     IF at = "" \/ (at = "/d" /\ ~dir) THEN og' = Fails
     ELSE og' = Answers(Value("disk", <<>>, 0))
  /\ UNCHANGED <<dir, tree, fsOps>>

\* extractFilePathInfo: every filesystem element needs a path key; the element
\* after a files element names the field.
FilePathOk(p) ==
  /\ Named(p, "filesystem")
  /\ \A i \in 1..Len(p) : p[i].name = "filesystem" => p[i].key \notin {"none", ""}

FilesAt(p) == {i \in 1..Len(p) : p[i].name = "files"}
Greatest(S) == CHOOSE i \in S : \A j \in S : j <= i
Field(p) ==
  LET S == {i \in FilesAt(p) : i < Len(p)} IN IF S = {} THEN "list" ELSE p[Greatest(S) + 1].name
Pattern(p) ==
  LET S == {i \in FilesAt(p) : p[i].key # "none"} IN IF S = {} THEN "*" ELSE p[Greatest(S)].key

\* ListFiles up to the walk; os.Stat fails when the directory is missing.
ListFiles ==
  /\ og.pc = "handle" /\ og.handler[Len(og.values) + 1] = "files"
  /\ IF ~FilePathOk(Cur) \/ ~dir THEN og' = Fails
     ELSE og' = [og EXCEPT !.pc = "readdir", !.files = <<>>,
                           !.always = Present, !.ever = Present, !.changed = {}]
  /\ UNCHANGED <<dir, tree, fsOps>>

\* filepath.WalkDir (external) reads the names, in lexical order; a directory
\* that has vanished is an error the callback ignores.
ReadDir ==
  /\ og.pc = "readdir"
  /\ og' = [og EXCEPT !.pc = "visit",
              !.todo = SelectSeq(FileNames, LAMBDA n : n \in Present)]
  /\ UNCHANGED <<dir, tree, fsOps>>

\* The callback: d.Info, and for a file calculateMD5 after it.
Visit ==
  /\ og.pc = "visit" /\ og.todo # <<>>
  /\ LET n == Head(og.todo) IN
     IF n \notin Present THEN og' = [og EXCEPT !.todo = Tail(@)]
     ELSE IF Kind[n].dir THEN og' = [og EXCEPT !.todo = Tail(@), !.files = Append(@, FileInfo(n))]
     ELSE og' = [og EXCEPT !.pc = "md5", !.files = Append(@, FileInfo(n))]
  /\ UNCHANGED <<dir, tree, fsOps>>

calculateMD5 ==
  /\ og.pc = "md5"
  /\ og' = [og EXCEPT !.pc = "visit", !.todo = Tail(@),
                      !.files[Len(og.files)].md5 = tree[Head(og.todo)]]
  /\ UNCHANGED <<dir, tree, fsOps>>

\* An invalid pattern filters nothing.
filterFilesByPattern(files, pattern) ==
  IF pattern \in {"*", "", "["} THEN files
  ELSE SelectSeq(files, LAMBDA f : f.name \in Globs[pattern])

\* FirmwareHandler.HandleGet once the walk is over; an unknown field is a file
\* name.
HandleGet ==
  /\ og.pc = "visit" /\ og.todo = <<>>
  /\ LET field == Field(Cur)
         found == filterFilesByPattern(og.files, Pattern(Cur))
         named == SelectSeq(og.files, LAMBDA f : f.name = field)
     IN og' = CASE field = "count" -> Answers(Value("count", <<>>, Len(found)))
                [] field = "list" -> Answers(Value("list", found, Len(found)))
                [] field = "types" ->
                     Answers(Value("types", SelectSeq(found, LAMBDA f : ~Kind[f.name].dir), 0))
                [] OTHER -> IF named = <<>> THEN Fails
                            ELSE Answers(Value("file", <<Head(named)>>, 1))
  /\ UNCHANGED <<dir, tree, fsOps>>

OpStep == DiskSpace \/ ListFiles \/ ReadDir \/ Visit \/ calculateMD5 \/ HandleGet

OpNext ==
  \/ FsWrite \/ FsDelete \/ FsRmdir
  \/ \E req \in OpRequests : OpGet(req)
  \/ OpStep

OpSpec == OpInit /\ [][OpNext]_opVars /\ WF_opVars(OpStep)

----------------------------------------------------------------------------

\* The directory and the Get keep their types; a Get is over when it has an outcome.
OpTypeOK ==
  /\ dir \in BOOLEAN /\ tree \in [NameSet -> 0..MaxFsOps + 1] /\ fsOps \in 0..MaxFsOps
  /\ og.pc \in {"idle", "handle", "readdir", "visit", "md5", "done"}
  /\ og.out \in {"none", "ok", "notfound", "unimplemented"}
  /\ Len(og.values) <= Len(og.paths) /\ og.always \subseteq og.ever
  /\ (og.pc = "done") = (og.out # "none")

Listed(v) == {v.files[i].name : i \in 1..Len(v.files)}

\* While other processes create and delete files, a listing names only files
\* that were there at some time during the walk, each once, and every matching
\* file that was there all the time (ListFiles, filterFilesByPattern).
ListingFaithful ==
  \A i \in 1..Len(og.values) :
    LET v == og.values[i]
        glob == IF Pattern(v.path) \in DOMAIN Globs THEN Globs[Pattern(v.path)] ELSE NameSet
    IN /\ v.kind \in {"list", "types", "file"} =>
            Listed(v) \subseteq v.ever /\ Cardinality(Listed(v)) = Len(v.files)
       /\ v.kind = "list" => v.always \cap glob \subseteq Listed(v) /\ Listed(v) \subseteq glob
       /\ v.kind \in {"list", "count"} =>
            v.count \in Cardinality(v.always \cap glob)..Cardinality(v.ever \cap glob)

\* The size and the checksum reported for a file that nobody changed during
\* the walk belong to the same content; and whatever happens, the type says
\* "firmware" of some kind exactly for what IsFirmwareFile accepts.
FilesConsistent ==
  \A i \in 1..Len(og.values) : \A k \in 1..Len(og.values[i].files) :
    LET f == og.values[i].files[k] IN
    /\ f.name \notin og.values[i].changed /\ ~Kind[f.name].dir => f.md5 = f.size
    /\ ~Kind[f.name].dir => (f.type # "other" <=> IsFirmwareFile(f.name))

\* Each path of a Get is answered in its own place, or the Get fails as a
\* whole and answers none (OperationalHandler.Get).
AllOrNothing ==
  og.pc = "done" =>
    IF og.out = "ok"
    THEN Len(og.values) = Len(og.paths) /\ \A i \in 1..Len(og.paths) : og.values[i].path = og.paths[i]
    ELSE og.values = <<>>

AsksDisk(p) == Last(p).name = "disk-space"

\* In a Get that asks for no files every path is answered with disk space.
DiskOnly ==
  og.out = "ok" /\ (\A i \in 1..Len(og.paths) : AsksDisk(og.paths[i])) =>
    \A i \in 1..Len(og.values) : og.values[i].kind = "disk"

\* Every Get ends, however the directory changes under the walk.
OpOver == og.pc \in {"idle", "done"}
OpEnds == []<>OpOver
====
