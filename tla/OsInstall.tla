----------------------------- MODULE OsInstall ------------------------------
(***************************************************************************)
(* gNOI OS.Install (gnmi_server/gnoi_os.go): the stream of one install at  *)
(* a time, the image file it appends to, the count of bytes it reports and *)
(* the host service that checks and installs the image.  The file is the   *)
(* sequence of the RPC numbers whose chunks it holds.                      *)
(***************************************************************************)
EXTENDS Naturals, Sequences

CONSTANTS MaxInstalls,   \* Install RPCs
          MaxContent,    \* TransferContent messages of one RPC
          MaxOsCrashes

Rpcs == 1..MaxInstalls

VARIABLES sem,        \* the RPC that holds the semaphore, or 0
          image,      \* the chunks of ImgDir/version, <<>> and present below
          present,    \* whether the file exists
          total,      \* totalBytesReceived of the path
          os,         \* per RPC: where it is, what it has sent, its last answer
          handed,     \* what the host service was last given to install
          osCrashes

osVars == <<sem, image, present, total, os, handed, osCrashes>>

NoRpc == [pc |-> "idle", sent |-> 0, began |-> FALSE, progress |-> 0]
Answers == {"ready", "validated", "error", "unimplemented"}

OsInit ==
  /\ sem = 0 /\ image = <<>> /\ present = FALSE /\ total = 0
  /\ os = [r \in Rpcs |-> NoRpc] /\ handed = <<>> /\ osCrashes = 0

To(r, pc) == os' = [os EXCEPT ![r].pc = pc]

\* A new RPC: a second one is refused while the first holds the semaphore.
Install(r) ==
  /\ os[r].pc = "idle" /\ \A q \in Rpcs : q < r => os[q].pc # "idle"
  /\ IF sem = 0 THEN sem' = r /\ To(r, "req")
     ELSE sem' = sem /\ To(r, "refused")
  /\ UNCHANGED <<image, present, total, handed, osCrashes>>

\* The first message, and the host's answer to it: only an install error, or
\* no answer at all, ends the RPC.
processTransferReq(r) ==
  /\ os[r].pc = "req"
  /\ \/ To(r, "return")   \* end of stream, wrong message, no version
     \/ \E a \in Answers : To(r, IF a \in {"ready", "validated"} THEN "content" ELSE "return")
  /\ UNCHANGED <<sem, image, present, total, handed, osCrashes>>

MutImageExists == FALSE

imageExists == present

removeIncompleteTransfer == image' = <<>> /\ present' = FALSE

\* A chunk: the file is opened for appending; a failure of the file or of the
\* answer removes it.
processTransferContent(r) ==
  /\ os[r].pc = "content" /\ os[r].sent < MaxContent
  /\ IF ~os[r].began /\ imageExists
     THEN To(r, "return") /\ UNCHANGED <<image, present, total>>
     ELSE \/ /\ image' = Append(image, r) /\ present' = TRUE
             /\ total' = total + 1
             /\ os' = [os EXCEPT ![r].began = TRUE, ![r].sent = @ + 1, ![r].progress = total + 1]
          \/ /\ os' = [os EXCEPT ![r].began = TRUE, ![r].pc = "failed"]
             /\ \/ image' = Append(image, r) /\ present' = TRUE /\ total' = total + 1
                \/ image' = image /\ present' \in {present, TRUE} /\ total' = total
  /\ UNCHANGED <<sem, handed, osCrashes>>

\* A second request, an error or the end of the stream.
StreamEnds(r) ==
  /\ os[r].pc = "content" /\ To(r, "return")
  /\ UNCHANGED <<sem, image, present, total, handed, osCrashes>>

\* The host service installs from the file, or reports an error; the answer to
\* the client may fail after it has.
processTransferEnd(r) ==
  /\ os[r].pc = "content"
  /\ \/ To(r, "done") /\ handed' = image
     \/ To(r, "failed") /\ handed' \in {handed, image}
  /\ UNCHANGED <<sem, image, present, total, osCrashes>>

Failed(r) ==
  /\ os[r].pc = "failed" /\ To(r, "return") /\ removeIncompleteTransfer
  /\ UNCHANGED <<sem, total, handed, osCrashes>>

\* The deferred function removes what this RPC wrote, whether or not the
\* install went well; then the semaphore is released.
Return(r) ==
  /\ os[r].pc \in {"return", "done"}
  /\ os' = [os EXCEPT ![r].pc = IF @ = "done" THEN "ok" ELSE "error"]
  /\ IF os[r].began THEN removeIncompleteTransfer ELSE UNCHANGED <<image, present>>
  /\ sem' = 0
  /\ UNCHANGED <<total, handed, osCrashes>>

OsCrash ==
  /\ osCrashes < MaxOsCrashes /\ osCrashes' = osCrashes + 1
  /\ sem' = 0 /\ total' = 0
  /\ os' = [r \in Rpcs |-> IF os[r].pc \in {"idle", "refused", "ok", "error"} THEN os[r]
                           ELSE [os[r] EXCEPT !.pc = "error"]]
  /\ UNCHANGED <<image, present, handed>>

Handler(r) == processTransferReq(r) \/ StreamEnds(r) \/ processTransferEnd(r) \/ Failed(r) \/ Return(r)
OsNext == OsCrash \/ \E r \in Rpcs : Install(r) \/ processTransferContent(r) \/ Handler(r)
OsSpec == OsInit /\ [][OsNext]_osVars /\ \A r \in Rpcs : WF_osVars(Handler(r))

---------------------------------------------------------------------------
\* There is no content without an image, and never more than one transfer's.
OsTypeOK == sem \in 0..MaxInstalls /\ (~present => image = <<>>) /\ Len(image) <= MaxContent + 1

\* What the host service is given to install is the chunks of one RPC, all of
\* them and only once: nothing of an earlier, interrupted transfer is in the
\* file that is only ever appended to.
HandsOverWhole ==
  \A r \in Rpcs : os[r].pc = "content" /\ os'[r].pc = "done" /\ os[r].began
    => handed' = [k \in 1..os[r].sent |-> r]
ImageWhole == [][HandsOverWhole]_osVars

\* When no install is at work, none has left an image behind; only a crash
\* of the process can.
ImageRemoved == sem = 0 /\ osCrashes = 0 => ~present

\* An interrupted stream never keeps the semaphore: an install can begin.
LetsGo(r) == sem # r
InstallEnds == \A r \in Rpcs : []<>LetsGo(r)
=============================================================================
