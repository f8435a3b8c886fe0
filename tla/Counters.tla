------------------------------ MODULE Counters ------------------------------
(***************************************************************************)
(* The request counters (common_utils/context.go, shareMem.go): IncCounter *)
(* adds atomically to the process's counters and then copies all of them,  *)
(* one word after the other and without a lock, to a shared memory segment *)
(* that gnmi_dump reads.  The segment outlives the process.                *)
(***************************************************************************)
EXTENDS Naturals, FiniteSets

CONSTANTS CtRpcs, CounterSize, MaxIncs, MaxLives

VARIABLES counters,  \* globalCounters
          shm,       \* the segment
          copier,    \* the copies in progress: pc, next word, the word read,
                     \* and whether no other copy has overlapped this one
          incs,      \* increments so far in this life of the process
          life,
          dump       \* gnmi_dump: next word, words read

ctVars == <<counters, shm, copier, incs, life, dump>>

Words == 1..CounterSize
NoCopy == [pc |-> "idle", i |-> 0, val |-> 0, alone |-> FALSE]
Copying(o) == [pc |-> "load", i |-> 1, val |-> 0, alone |-> o]
NoDump == [i |-> 0, got |-> [w \in Words |-> 0]]

\* InitCounters, before any RPC is served.
CtInit ==
  /\ counters = [w \in Words |-> 0] /\ shm = [w \in Words |-> 0]
  /\ copier = [r \in CtRpcs |-> NoCopy]
  /\ incs = 0 /\ life = 1 /\ dump = NoDump

IncCounter(r) ==
  /\ copier[r].pc = "idle" /\ incs < MaxIncs /\ incs' = incs + 1
  /\ \E w \in Words : counters' = [counters EXCEPT ![w] = @ + 1]
  /\ copier' = [q \in CtRpcs |->
       IF q = r THEN Copying(\A o \in CtRpcs \ {r} : copier[o].pc = "idle")
       ELSE [copier[q] EXCEPT !.alone = FALSE]]
  /\ UNCHANGED <<shm, life, dump>>

\* SetMemCounters: the load of a word, then its store.
Load(r) ==
  /\ copier[r].pc = "load"
  /\ copier' = [copier EXCEPT ![r].pc = "store", ![r].val = counters[copier[r].i]]
  /\ UNCHANGED <<counters, shm, incs, life, dump>>

SetMemCounters(r) ==
  /\ copier[r].pc = "store"
  /\ shm' = [shm EXCEPT ![copier[r].i] = copier[r].val]
  /\ copier' = [copier EXCEPT ![r] =
       IF @.i < CounterSize THEN [@ EXCEPT !.pc = "load", !.i = @ + 1] ELSE NoCopy]
  /\ UNCHANGED <<counters, incs, life, dump>>

\* The process ends and starts again: InitCounters clears the segment too.
CtRestart ==
  /\ life < MaxLives /\ life' = life + 1
  /\ counters' = [w \in Words |-> 0] /\ shm' = [w \in Words |-> 0]
  /\ copier' = [r \in CtRpcs |-> NoCopy] /\ incs' = 0
  /\ UNCHANGED dump

\* gnmi_dump.
GetMemCounters ==
  /\ dump' = IF dump.i = CounterSize THEN NoDump
             ELSE [i |-> dump.i + 1, got |-> [dump.got EXCEPT ![dump.i + 1] = shm[dump.i + 1]]]
  /\ UNCHANGED <<counters, shm, copier, incs, life>>

CtStep(r) == Load(r) \/ SetMemCounters(r)

CtNext ==
  \/ \E r \in CtRpcs : IncCounter(r) \/ CtStep(r)
  \/ CtRestart \/ GetMemCounters

CtSpec == CtInit /\ [][CtNext]_ctVars /\ \A r \in CtRpcs : WF_ctVars(CtStep(r))

\* The counters, the segment and the copies under way keep within their bounds.
CtTypeOK ==
  /\ counters \in [Words -> 0..MaxIncs] /\ shm \in [Words -> 0..MaxIncs]
  /\ \A r \in CtRpcs : copier[r].i \in 0..CounterSize /\ copier[r].val \in 0..MaxIncs
  /\ incs \in 0..MaxIncs /\ life \in 1..MaxLives /\ dump.i \in 0..CounterSize

\* Copies that overtake each other, and a restart between them, never make
\* the segment show more than was counted (SetMemCounters).
NeverAhead == \A w \in Words : shm[w] <= counters[w]

\* Overlapping copies may leave an older value in the segment for good, but
\* the next IncCounter that runs on its own puts every word right, not only
\* the word it counted (SetMemCounters copies them all).
AloneCopies ==
  \A r \in CtRpcs :
    copier[r].alone /\ copier[r].pc = "store" /\ copier'[r].pc = "idle" /\ life' = life
      => shm' = counters
AloneComplete == [][AloneCopies]_ctVars

\* Every copy ends: no RPC waits for another one's copy.
Copied(r) == copier[r].pc = "idle"
CopiesEnd == \A r \in CtRpcs : []<>Copied(r)
====
