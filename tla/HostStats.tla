----------------------------- MODULE HostStats -----------------------------
(***************************************************************************)
(* What the non-database client (sonic_data_client/non_db_client.go) reads:*)
(* a ring of CPU samples that PollStats fills every 100 ms and from which  *)
(* the utilisation over five windows is computed in unsigned arithmetic,   *)
(* and the version file, read once and kept.  The ring's capacity, the     *)
(* windows and the width of an integer are constants, so that small ones   *)
(* show what 3000 slots and 64 bits do.                                    *)
(***************************************************************************)
EXTENDS Naturals, Sequences, FiniteSets

CONSTANTS RingCap,     \* statsRingCap
          Windows,     \* the distances subtracted from writeIdx, shortest first
          WordMod,     \* 2^64
          MaxSamples,
          HsReaders    \* callers of getBuildVersion

VARIABLES buff, writeIdx,   \* statsR
          hist,             \* every sample so far, oldest first
          stat,             \* the last answer of getCpuUtilStat: a percentage per window
          stash, vr         \* versionFileStash and its readers

hsVars == <<buff, writeIdx, hist, stat, stash, vr>>

NoSample == [total |-> 0, idle |-> 0, set |-> FALSE]
NoValue == WordMod   \* a window that is not reported

HostInit ==
  /\ buff = [i \in 0..RingCap - 1 |-> NoSample] /\ writeIdx = 0 /\ hist = <<>>
  /\ stat = [i \in 1..Len(Windows) |-> NoValue]
  /\ stash = "new" /\ vr = [r \in HsReaders |-> "idle"]

WriteStatsToBuffer(s) ==
  /\ buff' = [buff EXCEPT ![writeIdx] = s]
  /\ writeIdx' = (writeIdx + 1) % RingCap

\* One turn of PollStats; the kernel's counters only grow.
PollStats ==
  /\ Len(hist) < MaxSamples
  /\ LET last == IF hist = <<>> THEN NoSample ELSE hist[Len(hist)] IN
     \E busy, idle \in {0, 1} : busy + idle < 2 /\
       LET s == [total |-> last.total + busy + idle, idle |-> last.idle + idle, set |-> TRUE] IN
       /\ hist' = Append(hist, s) /\ WriteStatsToBuffer(s)
  /\ UNCHANGED <<stat, stash, vr>>

Minus(a, b) == (a + WordMod - b) % WordMod

getCpuUtilPercents(cur, last) ==
  LET total == Minus(cur.total, last.total)
      idle == Minus(cur.idle, last.idle)
  IN IF total = 0 THEN 0 ELSE (100 * Minus(total, idle)) \div total

\* (writeIdx + statsRingCap - k) % statsRingCap, modulo the width on the way.
Slot(k) == Minus(writeIdx + RingCap, k) % RingCap

\* Under the read lock.  The first window whose slot is empty ends it.
getCpuUtilStat ==
  /\ stat' = [i \in 1..Len(Windows) |->
       IF \E j \in 1..i : ~buff[Slot(Windows[j])].set THEN NoValue
       ELSE getCpuUtilPercents(buff[Slot(1)], buff[Slot(Windows[i])])]
  /\ UNCHANGED <<buff, writeIdx, hist, stash, vr>>

\* getBuildVersion: the first caller of once.Do loads, the others wait for it.
getBuildVersion(r) ==
  /\ vr[r] = "idle" /\ stash # "loading"
  /\ IF stash = "new" THEN stash' = "loading" /\ vr' = [vr EXCEPT ![r] = "load"]
     ELSE stash' = stash /\ vr' = [vr EXCEPT ![r] = stash]
  /\ UNCHANGED <<buff, writeIdx, hist, stat>>

\* The file may hold a version, hold none, or be unreadable or unparseable.
LoadVersion(r) ==
  /\ vr[r] = "load"
  /\ \E v \in {"SONiC.version", "sonic.NA", "error"} : stash' = v /\ vr' = [vr EXCEPT ![r] = v]
  /\ UNCHANGED <<buff, writeIdx, hist, stat>>

HostNext ==
  \/ PollStats \/ getCpuUtilStat
  \/ \E r \in HsReaders : getBuildVersion(r) \/ LoadVersion(r)

HostSpec ==
  /\ HostInit /\ [][HostNext]_hsVars
  /\ \A r \in HsReaders : WF_hsVars(getBuildVersion(r) \/ LoadVersion(r))

----------------------------------------------------------------------------

\* The ring's index, the utilisations and the stashed version keep their types.
HostTypeOK ==
  /\ writeIdx \in 0..RingCap - 1 /\ Len(hist) <= MaxSamples
  /\ \A i \in 1..Len(Windows) : stat[i] \in 0..NoValue
  /\ stash \in {"new", "loading", "SONiC.version", "sonic.NA", "error"}

\* The k-th sample from the newest one.
Recent(k) == hist[Len(hist) + 1 - k]

\* The wrapping index always finds the sample it means: the slot k before
\* writeIdx holds the k-th newest sample for every k up to the capacity, and
\* is empty exactly when there have been fewer (getCpuUtilStat).
SlotIsRecent ==
  \A k \in 1..RingCap :
    IF k <= Len(hist) THEN buff[Slot(k)] = Recent(k) ELSE ~buff[Slot(k)].set

\* No utilisation exceeds 100 per cent, and it is reported for a window only
\* once the samples reach that far back: unsigned differences do not wrap.
PercentInRange ==
  \A i \in 1..Len(Windows) :
    stat[i] # NoValue => stat[i] <= 100 /\ (Windows[i] <= RingCap => Len(hist) >= Windows[i])

\* "Assumed that the content of the file doesn't change": whoever asks, and
\* whenever, gets the same answer, and one reader loads the file.
OneVersion ==
  /\ \A r, s \in HsReaders : vr[r] \notin {"idle", "load"} /\ vr[s] \notin {"idle", "load"} => vr[r] = vr[s]
  /\ Cardinality({r \in HsReaders : vr[r] = "load"}) <= 1

\* Every reader is answered, also when the file cannot be read.
Answered(r) == vr[r] \notin {"idle", "load"}
VersionAnswered == \A r \in HsReaders : []<>Answered(r)
====
