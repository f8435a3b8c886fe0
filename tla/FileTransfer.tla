---------------------------- MODULE FileTransfer ----------------------------
(***************************************************************************)
(* gNOI File on one path: Put streams (pkg/gnoi/file HandlePut), local     *)
(* TransferToRemote downloads (handleTransferToRemoteLocal, DownloadHTTP,  *)
(* CalculateMD5) and Remove, running at the same time on one file system.  *)
(* Names are links to inodes: an open file keeps its inode after a rename  *)
(* or a remove.  A chunk is the number of the call that sent it.           *)
(***************************************************************************)
EXTENDS Naturals, Sequences, FiniteSets

CONSTANTS Calls,       \* numbers of calls, 1..n
          Kinds,       \* "put", "download", "remove"
          MaxChunks,   \* chunks of one file
          MaxSize,     \* the size limit of a download, in chunks
          MaxFtCrashes \* crashes of the process

Inodes == Calls
Final == "final"
Temp == "tmp"

VARIABLES names,    \* final path and temporary path: an inode, or 0
          data,     \* an inode's chunks
          call,     \* the calls
          shared,   \* calls that ran while another used the path
          ftCrashes

ftVars == <<names, data, call, shared, ftCrashes>>

Idle == [kind |-> "none", pc |-> "idle", ino |-> 0, off |-> 0, sum |-> <<>>]

FtInit ==
  /\ names = [p \in {Final, Temp} |-> 0]
  /\ data = [i \in Inodes |-> <<>>]
  /\ call = [c \in Calls |-> Idle]
  /\ shared = {} /\ ftCrashes = 0

Busy == {c \in Calls : call[c].pc \notin {"idle", "ok", "error"}}
At(c, kind, pc) == call[c].kind = kind /\ call[c].pc = pc

\* A call that finds others at work, or is found at work, shares the path.
Begin(c, kind) ==
  /\ call[c] = Idle /\ \A d \in Calls : d < c => call[d] # Idle
  /\ call' = [call EXCEPT ![c] = [Idle EXCEPT !.kind = kind, !.pc = "open"]]
  /\ shared' = IF Busy = {} THEN shared ELSE shared \cup Busy \cup {c}
  /\ UNCHANGED <<names, data, ftCrashes>>

\* The chunk at an offset, with what is missing before it as holes.
WriteAt(s, off, x) ==
  [k \in 1..(IF off + 1 > Len(s) THEN off + 1 ELSE Len(s)) |->
     IF k = off + 1 THEN x ELSE IF k <= Len(s) THEN s[k] ELSE 0]

\* Creating or truncating a file by name, for call c.
Create(c, p) ==
  IF names[p] = 0
  THEN /\ names' = [names EXCEPT ![p] = c] /\ data' = [data EXCEPT ![c] = <<>>]
       /\ call' = [call EXCEPT ![c].pc = "recv", ![c].ino = c]
  ELSE /\ names' = names /\ data' = [data EXCEPT ![names[p]] = <<>>]
       /\ call' = [call EXCEPT ![c].pc = "recv", ![c].ino = names[p]]

Write(c) ==
  /\ Len(call[c].sum) < MaxChunks
  /\ data' = [data EXCEPT ![call[c].ino] = WriteAt(@, call[c].off, c)]
  /\ call' = [call EXCEPT ![c].off = @ + 1, ![c].sum = Append(@, c)]
  /\ UNCHANGED <<names, shared, ftCrashes>>

Unlink(p) == names' = [names EXCEPT ![p] = 0]

---------------------------------------------------------------------------
(* HandlePut. *)

\* A request whose first message or path is refused, or whose temporary file
\* cannot be created, ends here.
PutOpen(c) ==
  /\ At(c, "put", "open")
  /\ \/ Create(c, Temp)
     \/ call' = [call EXCEPT ![c].pc = "error"] /\ UNCHANGED <<names, data>>
  /\ UNCHANGED <<shared, ftCrashes>>

PutContents(c) == At(c, "put", "recv") /\ Write(c)

\* The hash message ends the stream of chunks; the hash is of what was
\* received, the file is not read back.
PutHash(c) ==
  /\ At(c, "put", "recv")
  /\ call' = [call EXCEPT ![c].pc = "chmod"]
  /\ UNCHANGED <<names, data, shared, ftCrashes>>

\* End of stream, a wrong hash, a failing write or close.
PutFails(c) ==
  /\ At(c, "put", "recv")
  /\ call' = [call EXCEPT ![c].pc = "cleanup"]
  /\ UNCHANGED <<names, data, shared, ftCrashes>>

PutChmod(c) ==
  /\ At(c, "put", "chmod")
  /\ call' = [call EXCEPT ![c].pc = IF names[Temp] = 0 THEN "cleanup" ELSE "rename"]
  /\ UNCHANGED <<names, data, shared, ftCrashes>>

PutRename(c) ==
  /\ At(c, "put", "rename")
  /\ IF names[Temp] = 0
     THEN call' = [call EXCEPT ![c].pc = "cleanup"] /\ names' = names
     ELSE /\ names' = [names EXCEPT ![Final] = names[Temp], ![Temp] = 0]
          /\ call' = [call EXCEPT ![c].pc = "renamed"]
  /\ UNCHANGED <<data, shared, ftCrashes>>

\* The deferred function: whatever is under the temporary name is removed.
PutCleanup(c) ==
  /\ call[c].kind = "put" /\ call[c].pc \in {"cleanup", "renamed"}
  /\ call' = [call EXCEPT ![c].pc = IF @ = "renamed" THEN "ok" ELSE "error"]
  /\ Unlink(Temp)
  /\ UNCHANGED <<data, shared, ftCrashes>>

---------------------------------------------------------------------------
(* handleTransferToRemoteLocal. *)

\* The request may be refused, the server may not answer or may announce too
\* large a file: nothing has been created yet.
DownloadOpen(c) ==
  /\ At(c, "download", "open")
  /\ \/ Create(c, Final)
     \/ call' = [call EXCEPT ![c].pc = "error"] /\ UNCHANGED <<names, data>>
  /\ UNCHANGED <<shared, ftCrashes>>

\* io.Copy of a reader limited to one chunk more than the limit.
DownloadCopy(c) == At(c, "download", "recv") /\ call[c].off <= MaxSize /\ Write(c)

\* The end of the body; a file over the limit, or an error of the body or of
\* the file, removes what the path names.
DownloadHTTP(c) ==
  /\ At(c, "download", "recv")
  /\ \/ /\ call[c].off <= MaxSize
        /\ call' = [call EXCEPT ![c].pc = "hash"] /\ names' = names
     \/ call' = [call EXCEPT ![c].pc = "error"] /\ Unlink(Final)
  /\ UNCHANGED <<data, shared, ftCrashes>>

\* The hash is of what the path names now.
CalculateMD5(c) ==
  /\ At(c, "download", "hash")
  /\ \/ /\ names[Final] # 0
        /\ call' = [call EXCEPT ![c].pc = "ok", ![c].sum = data[names[Final]]]
        /\ names' = names
     \/ call' = [call EXCEPT ![c].pc = "error"] /\ Unlink(Final)
  /\ UNCHANGED <<data, shared, ftCrashes>>

HandleFileRemove(c) ==
  /\ At(c, "remove", "open")
  /\ call' = [call EXCEPT ![c].pc = IF names[Final] = 0 THEN "error" ELSE "ok"]
  /\ Unlink(Final)
  /\ UNCHANGED <<data, shared, ftCrashes>>

\* The process dies: the files stay as they are.
Crash ==
  /\ ftCrashes < MaxFtCrashes /\ ftCrashes' = ftCrashes + 1
  /\ call' = [c \in Calls |-> IF c \in Busy THEN [call[c] EXCEPT !.pc = "error"] ELSE call[c]]
  /\ UNCHANGED <<names, data, shared>>

Work(c) ==
  \/ PutOpen(c) \/ PutHash(c) \/ PutFails(c) \/ PutChmod(c) \/ PutRename(c) \/ PutCleanup(c)
  \/ DownloadOpen(c) \/ DownloadHTTP(c) \/ CalculateMD5(c) \/ HandleFileRemove(c)

FtNext ==
  \/ Crash
  \/ \E c \in Calls : (\E k \in Kinds : Begin(c, k)) \/ PutContents(c) \/ DownloadCopy(c) \/ Work(c)

FtSpec == FtInit /\ [][FtNext]_ftVars /\ \A c \in Calls : WF_ftVars(Work(c))

---------------------------------------------------------------------------
\* Names lead to files there are, and no transfer takes more than its limit.
FtTypeOK ==
  /\ names \in [{Final, Temp} -> 0..Cardinality(Calls)]
  /\ \A c \in Calls : call[c].off <= IF call[c].kind = "download" THEN MaxSize + 1 ELSE MaxChunks

\* A Put that has answered with success, and shared the path with nobody, has
\* put exactly the chunks it verified under the final name.
PutRenamesVerified ==
  \A c \in Calls : c \notin shared /\ call[c].pc = "rename" /\ call'[c].pc = "renamed"
    => data[names[Temp]] = call[c].sum
PutExact == [][PutRenamesVerified]_ftVars

\* The temporary file does not outlive the calls: without a crash there is
\* none when no Put is at work.
NoTempLeft == Busy = {} /\ ftCrashes = 0 => names[Temp] = 0

\* A download that succeeds is within the limit, and the hash it answers is
\* that of the chunks it received, if it had the path to itself.
DownloadHash ==
  \A c \in Calls : call[c].kind = "download" /\ call[c].pc = "ok" /\ c \notin shared
     => call[c].off <= MaxSize /\ call[c].sum = [k \in 1..call[c].off |-> c]

\* Every call ends.
CallOver(c) == c \notin Busy
CallsEnd == \A c \in Calls : []<>CallOver(c)
=============================================================================
