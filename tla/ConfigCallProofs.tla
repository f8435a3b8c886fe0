-------------------------- MODULE ConfigCallProofs --------------------------
(***************************************************************************)
(* The inductive invariant of ConfigSet, and the steps of its Sets that    *)
(* are the end of a D-Bus call: carried out, failed or given up.           *)
(*                                                                         *)
(* The queue of D-Bus calls is described by Calling(s, o, r): call o of    *)
(* RPC r is in queue s and its sender waits for it.  The first lemmas say  *)
(* what each operation on the queue does to Calling; the invariant and its *)
(* proof then speak of Calling alone.                                      *)
(***************************************************************************)
EXTENDS ConfigSet, TLAPS

Ops == {"create", "apply", "replace", "save", "delete", "startup"}

Calling(s, o, r) == \E i \in DOMAIN s : s[i].op = o /\ s[i].by = r
Waiting(s, r) == \E i \in DOMAIN s : s[i].by = r

\* A queue of calls, of which no two have the same sender waiting.
CallsOK(s) ==
  /\ s \in Seq(Range(s))
  /\ \A i \in DOMAIN s : /\ DOMAIN s[i] = {"op", "by", "edits"}
                         /\ s[i].op \in Ops /\ s[i].by \in Sets \cup {None}
  /\ \A i, j \in DOMAIN s : s[i].by = s[j].by => i = j \/ s[i].by = None

---------------------------------------------------------------------------
(* The queue of calls                                                      *)

\* A sequence is one of its own elements.
LEMMA SeqRange ==
  ASSUME NEW S, NEW t \in Seq(S)
  PROVE  t \in Seq(Range(t))
<1>1. t = [i \in 1 .. Len(t) |-> t[i]] /\ Len(t) \in Nat
  OBVIOUS
<1>2. \A i \in 1 .. Len(t) : t[i] \in Range(t)
  BY DEF Range
<1>3. QED
  BY <1>1, <1>2

\* An RPC waits for one of the operations, and for only one of them.
LEMMA CallingOne ==
  ASSUME NEW s, CallsOK(s), NEW r \in Sets
  PROVE  /\ Waiting(s, r) <=> \E o \in Ops : Calling(s, o, r)
         /\ \A o, p \in Ops : Calling(s, o, r) /\ Calling(s, p, r) => o = p
  BY ConfigAssumption DEF CallsOK, Waiting, Calling

\* A call that is added makes its sender wait for it and nobody else.
LEMMA AppendCall ==
  ASSUME NEW s, CallsOK(s), NEW r \in Sets, NEW o \in Ops, NEW es, ~Waiting(s, r)
  PROVE  LET t == Append(s, CallOf(r, o, es))
         IN /\ CallsOK(t)
            /\ \A q \in Sets, p \in Ops : Calling(t, p, q) <=> Calling(s, p, q) \/ (p = o /\ q = r)
<1> DEFINE e == CallOf(r, o, es)
           t == Append(s, e)
           S == Range(s) \cup {e}
<1>1. s \in Seq(S) /\ e \in S
  BY DEF CallsOK
<1>2. /\ t \in Seq(S) /\ Len(t) = Len(s) + 1
      /\ \A i \in 1 .. Len(s) : t[i] = s[i]
      /\ t[Len(s) + 1] = e
  BY <1>1
<1>3. DOMAIN s = 1 .. Len(s) /\ DOMAIN t = 1 .. Len(s) + 1 /\ Len(s) \in Nat
  BY <1>1, <1>2
<1>4. DOMAIN e = {"op", "by", "edits"} /\ e.op = o /\ e.by = r
  BY DEF CallOf
<1>5. t \in Seq(Range(t))
  BY <1>2, SeqRange, Zenon
<1> HIDE DEF e, t, S
<1>6. \A i \in DOMAIN t : (i \in DOMAIN s /\ t[i] = s[i]) \/ (i = Len(s) + 1 /\ t[i] = e)
  BY <1>2, <1>3
<1>7. \A i \in DOMAIN s : i \in DOMAIN t /\ t[i] = s[i] /\ i # Len(s) + 1
  BY <1>2, <1>3
<1>8. Len(s) + 1 \in DOMAIN t
  BY <1>3
<1>9. CallsOK(t)
  <2>1. \A i \in DOMAIN t : /\ DOMAIN t[i] = {"op", "by", "edits"}
                            /\ t[i].op \in Ops /\ t[i].by \in Sets \cup {None}
    BY <1>4, <1>6 DEF CallsOK
  <2>2. ASSUME NEW i \in DOMAIN t, NEW j \in DOMAIN t, t[i].by = t[j].by
        PROVE  i = j \/ t[i].by = None
    BY <1>4, <1>6, <2>2 DEF CallsOK, Waiting
  <2>3. QED
    BY <1>5, <2>1, <2>2 DEF CallsOK
<1>10. ASSUME NEW q \in Sets, NEW p \in Ops
       PROVE  Calling(t, p, q) <=> Calling(s, p, q) \/ (p = o /\ q = r)
  BY <1>2, <1>4, <1>6, <1>7, <1>8 DEF Calling
<1>11. QED
  BY <1>9, <1>10 DEF t, e

\* A call that has been served leaves the queue and its sender.
LEMMA TailCalls ==
  ASSUME NEW s, CallsOK(s), s # <<>>
  PROVE  /\ CallsOK(Tail(s))
         /\ Head(s).op \in Ops /\ Head(s).by \in Sets \cup {None}
         /\ Head(s).by \in Sets => Calling(s, Head(s).op, Head(s).by) /\ ~Waiting(Tail(s), Head(s).by)
         /\ \A q \in Sets, p \in Ops : q # Head(s).by =>
              (Calling(Tail(s), p, q) <=> Calling(s, p, q))
<1> DEFINE t == Tail(s)
<1>1. s \in Seq(Range(s))
  BY DEF CallsOK
<1>2. /\ t \in Seq(Range(s)) /\ Len(t) = Len(s) - 1
      /\ \A i \in 1 .. Len(t) : t[i] = s[i + 1]
  BY <1>1
<1>3. DOMAIN s = 1 .. Len(s) /\ DOMAIN t = 1 .. Len(t) /\ Len(s) \in Nat /\ Len(t) \in Nat
  BY <1>1, <1>2
<1>4. Head(s) = s[1] /\ 1 \in DOMAIN s
  BY <1>1, <1>2, <1>3
<1>5. t \in Seq(Range(t))
  BY <1>2, SeqRange, Zenon
<1> HIDE DEF t
<1>6. \A i \in DOMAIN t : i + 1 \in DOMAIN s /\ i + 1 # 1 /\ t[i] = s[i + 1] /\ i \in Int
  BY <1>2, <1>3
<1>7. \A i \in DOMAIN s : i = 1 \/ (i - 1 \in DOMAIN t /\ t[i - 1] = s[i])
  BY <1>2, <1>3
<1>8. CallsOK(t)
  <2>1. \A i \in DOMAIN t : /\ DOMAIN t[i] = {"op", "by", "edits"}
                            /\ t[i].op \in Ops /\ t[i].by \in Sets \cup {None}
    BY <1>6 DEF CallsOK
  <2>2. ASSUME NEW i \in DOMAIN t, NEW j \in DOMAIN t, t[i].by = t[j].by
        PROVE  i = j \/ t[i].by = None
    BY <1>6, <2>2 DEF CallsOK
  <2>3. QED
    BY <1>5, <2>1, <2>2 DEF CallsOK
<1>9. Head(s).op \in Ops /\ Head(s).by \in Sets \cup {None}
  BY <1>4 DEF CallsOK
<1>10. ASSUME Head(s).by \in Sets
       PROVE  Calling(s, Head(s).op, Head(s).by) /\ ~Waiting(t, Head(s).by)
  BY <1>4, <1>6, <1>10, ConfigAssumption DEF CallsOK, Calling, Waiting
<1>11. ASSUME NEW q \in Sets, NEW p \in Ops, q # Head(s).by
       PROVE  Calling(t, p, q) <=> Calling(s, p, q)
  BY <1>4, <1>6, <1>7, <1>11 DEF Calling
<1>12. QED
  BY <1>8, <1>9, <1>10, <1>11 DEF t

\* A call that is given up stays in the queue without a sender.
LEMMA ForgetCall ==
  ASSUME NEW s, CallsOK(s), NEW i \in DOMAIN s, s[i].by \in Sets
  PROVE  LET t == [s EXCEPT ![i].by = None]
         IN /\ CallsOK(t) /\ ~Waiting(t, s[i].by)
            /\ Calling(s, s[i].op, s[i].by) /\ s[i].op \in Ops
            /\ \A q \in Sets, p \in Ops : q # s[i].by => (Calling(t, p, q) <=> Calling(s, p, q))
<1> DEFINE e == [s[i] EXCEPT !.by = None]
           t == [s EXCEPT ![i] = e]
           S == Range(s) \cup {e}
<1>1. s \in Seq(S) /\ e \in S
  BY DEF CallsOK
<1>2. DOMAIN s = 1 .. Len(s) /\ Len(s) \in Nat
  BY <1>1
<1>3. t \in Seq(S) /\ Len(t) = Len(s)
  BY <1>1, <1>2
<1>4. t \in Seq(Range(t))
  BY <1>3, SeqRange, Zenon
<1>5. DOMAIN e = {"op", "by", "edits"} /\ e.op = s[i].op /\ e.by = None
  BY DEF CallsOK
<1>6. DOMAIN t = DOMAIN s /\ t[i] = e /\ \A j \in DOMAIN s : j # i => t[j] = s[j]
  BY <1>2 DEF Range
<1> HIDE DEF e, t, S
<1>7. CallsOK(t)
  <2>1. \A j \in DOMAIN t : /\ DOMAIN t[j] = {"op", "by", "edits"}
                            /\ t[j].op \in Ops /\ t[j].by \in Sets \cup {None}
    BY <1>5, <1>6 DEF CallsOK
  <2>2. ASSUME NEW j \in DOMAIN t, NEW k \in DOMAIN t, t[j].by = t[k].by
        PROVE  j = k \/ t[j].by = None
    BY <1>5, <1>6, <2>2 DEF CallsOK
  <2>3. QED
    BY <1>4, <2>1, <2>2 DEF CallsOK
<1>8. ~Waiting(t, s[i].by)
  BY <1>5, <1>6, ConfigAssumption DEF CallsOK, Waiting
<1>9. Calling(s, s[i].op, s[i].by) /\ s[i].op \in Ops
  BY DEF CallsOK, Calling
<1>10. ASSUME NEW q \in Sets, NEW p \in Ops, q # s[i].by
       PROVE  Calling(t, p, q) <=> Calling(s, p, q)
  BY <1>5, <1>6, <1>10, ConfigAssumption DEF Calling
<1>11. QED
  BY <1>7, <1>8, <1>9, <1>10, Zenon DEF t, e

\* After a restart nobody waits for the calls that are left.
LEMMA OrphanCalls ==
  ASSUME NEW s, CallsOK(s)
  PROVE  LET t == [i \in DOMAIN s |-> [s[i] EXCEPT !.by = None]]
         IN CallsOK(t) /\ \A r \in Sets : ~Waiting(t, r)
<1> DEFINE t == [i \in DOMAIN s |-> [s[i] EXCEPT !.by = None]]
<1>1. DOMAIN s = 1 .. Len(s) /\ Len(s) \in Nat
  BY DEF CallsOK
<1>2. \A i \in 1 .. Len(s) : t[i] \in Range(t)
  BY <1>1 DEF Range
<1>3. t \in Seq(Range(t))
  BY <1>1, <1>2
<1>4. \A i \in DOMAIN t : DOMAIN t[i] = {"op", "by", "edits"} /\ t[i].op = s[i].op /\ t[i].by = None
  BY DEF CallsOK
<1>5. CallsOK(t)
  BY <1>3, <1>4 DEF CallsOK
<1>6. QED
  BY <1>4, <1>5, ConfigAssumption, Zenon DEF Waiting

---------------------------------------------------------------------------
(* The inductive invariant                                                 *)

PCs == {"idle", "set", "call", "read", "done"}

Typed ==
  /\ ver \in Nat /\ saved \in 0 .. ver /\ floor \in 0 .. ver
  /\ tmp \in BOOLEAN /\ stuck \in BOOLEAN
  /\ ck # None => ck.ver \in 0 .. ver
  /\ pc \in [Sets -> PCs]
  /\ out \in [Sets -> {None, "ok", "err", "killed"}]
  /\ gpc \in [Gets -> {"idle", "checkpoint", "db", "done"}]
  /\ applied \in [Sets -> 0 .. ver]
  /\ answer \in [Gets -> 0 .. ver] /\ need \in [Gets -> 0 .. ver]

\* A Set waits for a reply exactly when its pc says so.
Queued == CallsOK(calls) /\ \A r \in Sets : pc[r] = "call" <=> Waiting(calls, r)

\* A Set that has begun has a request.
Asked ==
  /\ DOMAIN req = Sets
  /\ \A r \in Sets : pc[r] # "idle" =>
       /\ DOMAIN req[r] = {"kind", "eid", "edits"}
       /\ req[r].eid = None \/ req[r].eid \in Nat \X Nat
       /\ EditsOK(req[r].edits)

\* A Set has written nothing before its apply or replace is answered, and what
\* it has written is saved once it is past ConfigSave without an error.
Saving ==
  \A r \in Sets :
    /\ pc[r] \in {"idle", "set", "read"} => applied[r] = 0
    /\ \A o \in {"create", "apply", "replace"} : Calling(calls, o, r) => applied[r] = 0
    /\ \A o \in {"delete", "startup"} : Calling(calls, o, r) /\ out[r] = "ok" => saved >= applied[r]
    /\ pc[r] = "done" /\ out[r] = "ok" => saved >= applied[r]

\* Unless a deletion has failed, a checkpoint is not older than an incremental
\* Set that has returned, or that has only ConfigSave for the startup
\* configuration before it.
Checkpoints ==
  ck # None /\ ~stuck =>
    /\ ck.ver >= floor
    /\ \A r \in Sets : Calling(calls, "startup", r) /\ req[r].kind = "incremental" =>
         ck.ver >= applied[r]

\* What a Get must see has been returned by a Set.
Reading ==
  \A g \in Gets : /\ gpc[g] \in {"checkpoint", "db"} => need[g] <= floor
                  /\ gpc[g] = "done" => answer[g] >= need[g]

Mastered == masterEID \in Nat \X Nat /\ MasterIsHighest

IInv == Typed /\ Queued /\ Asked /\ Saving /\ Checkpoints /\ Reading /\ Mastered

---------------------------------------------------------------------------
(* The steps of a Set that goes on after a call                            *)

\* After a call there is another call, the checkpoint to read or the end.
LEMMA AfterRange ==
  ASSUME NEW o \in Ops, NEW ok \in BOOLEAN, NEW kind, NEW result
  PROVE  After(o, ok, kind, result) \in Ops \cup {"read", "done"}
  BY DEF After, Ops

\* Resume queues what comes next for r, whose last call is not in rest.
LEMMA ResumeCalls ==
  ASSUME NEW r \in Sets, NEW c, c.op \in Ops, NEW ok \in BOOLEAN, NEW rest,
         CallsOK(rest), ~Waiting(rest, r), Resume(r, c, ok, rest), pc \in [Sets -> PCs]
  PROVE  LET next == After(c.op, ok, req[r].kind, Result(c.op, ok, out[r]))
         IN /\ CallsOK(calls')
            /\ pc' = [pc EXCEPT ![r] = IF next \in {"read", "done"} THEN next ELSE "call"]
            /\ \A p \in Ops : Calling(calls', p, r) <=> p = next
            /\ Waiting(calls', r) <=> pc'[r] = "call"
            /\ \A q \in Sets, p \in Ops : q # r => (Calling(calls', p, q) <=> Calling(rest, p, q))
<1> DEFINE next == After(c.op, ok, req[r].kind, Result(c.op, ok, out[r]))
<1>1. next \in Ops \cup {"read", "done"}
  BY AfterRange
<1>2. /\ pc' = [pc EXCEPT ![r] = IF next \in {"read", "done"} THEN next ELSE "call"]
      /\ calls' = IF next \in {"read", "done"} THEN rest ELSE Append(rest, CallOf(r, next, <<>>))
  BY DEF Resume
<1>3. \A p \in Ops : ~Calling(rest, p, r)
  BY CallingOne
<1> HIDE DEF next
<1>4. CASE next \in {"read", "done"}
  <2>1. calls' = rest /\ next \notin Ops /\ pc'[r] = next
    BY <1>2, <1>4 DEF Ops
  <2>2. QED
    BY <1>2, <1>3, <1>4, <2>1 DEF next
<1>5. CASE next \in Ops
  <2>1. next \notin {"read", "done"} /\ calls' = Append(rest, CallOf(r, next, <<>>)) /\ pc'[r] = "call"
    BY <1>2, <1>5 DEF Ops
  <2>2. /\ CallsOK(calls')
        /\ \A q \in Sets, p \in Ops : Calling(calls', p, q) <=> Calling(rest, p, q) \/ (p = next /\ q = r)
    BY <1>5, <2>1, AppendCall
  <2>3. Waiting(calls', r)
    BY <1>5, <2>2, CallingOne
  <2>4. QED
    BY <1>2, <1>3, <2>1, <2>2, <2>3 DEF next
<1>6. QED
  BY <1>1, <1>4, <1>5

\* Which calls lead where: nothing is written again, and success is reported
\* only past ConfigSave, for an incremental Set past DeleteCheckPoint as well.
LEMMA AfterFacts ==
  ASSUME NEW o \in Ops, NEW ok \in BOOLEAN, NEW kind, NEW before
  PROVE  LET result == Result(o, ok, before)
             next == After(o, ok, kind, result)
         IN /\ next \notin {"create", "apply", "replace"}
            /\ next = "read" => o = "create"
            /\ next \in {"delete", "startup", "done"} /\ result = "ok" =>
                 (o \in {"delete", "startup"} /\ before = "ok") \/ (o = "save" /\ ok)
            /\ next = "startup" /\ kind = "incremental" => o = "delete"
            /\ next = "done" /\ result = "ok" /\ kind = "incremental" => o \in {"delete", "startup"}
            /\ result \in {"ok", "err", before}
<1>1. CASE o = "create"
  BY <1>1 DEF After, Result
<1>2. CASE o = "apply"
  BY <1>2 DEF After, Result
<1>3. CASE o = "replace"
  BY <1>3 DEF After, Result
<1>4. CASE o = "save"
  BY <1>4 DEF After, Result
<1>5. CASE o = "delete"
  BY <1>5 DEF After, Result
<1>6. CASE o = "startup"
  BY <1>6 DEF After, Result
<1>7. QED
  BY <1>1, <1>2, <1>3, <1>4, <1>5, <1>6 DEF Ops

\* What a call o that succeeds or fails may do to the database and the files.
HostStep(o, ok) ==
  /\ ver' \in Nat /\ ver' >= ver
  /\ saved' \in saved .. ver'
  /\ ok /\ o = "save" => saved' = ver'
  /\ ck' # None => ck'.ver \in 0 .. ver'
  /\ ck' # None /\ ~stuck' => (ck' = ck /\ ~stuck) \/ ck'.ver >= ver
  /\ stuck' \in BOOLEAN
  /\ o = "delete" => ck' = None \/ stuck'

\* Queue t is a queue in which the RPCs other than r wait as they do in s.
SameCalls(s, t, r) ==
  /\ CallsOK(t)
  /\ \A q \in Sets, p \in Ops : q # r => (Calling(t, p, q) <=> Calling(s, p, q))

\* The sender of a call has gone, or is not told of its end.
UnheardStep(o, ok) ==
  /\ HostStep(o, ok) /\ SameCalls(calls, calls', None)
  /\ UNCHANGED <<pc, out, floor, applied, tmp, masterEID, req, get>>

\* Such a step preserves the invariant.
LEMMA UnheardIInv ==
  ASSUME IInv, NEW o \in Ops, NEW ok \in BOOLEAN, UnheardStep(o, ok)
  PROVE  IInv'
<1>1. /\ HostStep(o, ok) /\ CallsOK(calls')
      /\ \A q \in Sets, p \in Ops : Calling(calls', p, q) <=> Calling(calls, p, q)
  BY ConfigAssumption DEF UnheardStep, SameCalls
<1>2. UNCHANGED <<pc, out, floor, applied, tmp, masterEID, req, gpc, answer, need>>
  BY DEF UnheardStep, get
<1>3. Typed'
  BY <1>1, <1>2 DEF IInv, Typed, HostStep
<1>4. Queued'
  BY <1>1, <1>2, CallingOne DEF IInv, Queued
<1>5. Asked' /\ Reading' /\ Mastered'
  BY <1>2 DEF IInv, Asked, Reading, Mastered, MasterIsHighest
<1>6. Saving'
  <2>1. saved' >= saved /\ saved \in Int /\ saved' \in Int /\ \A r \in Sets : applied[r] \in Int
    BY <1>1 DEF IInv, Typed, HostStep
  <2>2. QED
    BY <1>1, <1>2, <2>1 DEF IInv, Saving, Ops
<1>7. Checkpoints'
  BY <1>1, <1>2 DEF IInv, Typed, Checkpoints, HostStep, Ops
<1>8. QED
  BY <1>3, <1>4, <1>5, <1>6, <1>7 DEF IInv

\* The sender of call c goes on, and the queue is left with rest.
ResumeStep(r, c, ok, rest) ==
  /\ c.op \in Ops /\ HostStep(c.op, ok) /\ Calling(calls, c.op, r)
  /\ SameCalls(calls, rest, r) /\ ~Waiting(rest, r)
  /\ Resume(r, c, ok, rest)
  /\ applied' = IF ok /\ c.op \in {"replace", "apply"} THEN [applied EXCEPT ![r] = ver'] ELSE applied
  /\ UNCHANGED <<tmp, masterEID, req, get>>

\* Such a step preserves the invariant.
LEMMA ResumeIInv ==
  ASSUME IInv, NEW r \in Sets, NEW c, NEW ok \in BOOLEAN, NEW rest, ResumeStep(r, c, ok, rest)
  PROVE  IInv'
<1> DEFINE result == Result(c.op, ok, out[r])
           next == After(c.op, ok, req[r].kind, result)
<1>0. /\ c.op \in Ops /\ HostStep(c.op, ok) /\ Calling(calls, c.op, r)
      /\ UNCHANGED <<tmp, masterEID, req, gpc, answer, need>>
  BY DEF ResumeStep, get
<1>1. /\ CallsOK(calls')
      /\ pc' = [pc EXCEPT ![r] = IF next \in {"read", "done"} THEN next ELSE "call"]
      /\ \A p \in Ops : Calling(calls', p, r) <=> p = next
      /\ Waiting(calls', r) <=> pc'[r] = "call"
      /\ \A q \in Sets, p \in Ops : q # r => (Calling(calls', p, q) <=> Calling(calls, p, q))
  BY ResumeCalls DEF ResumeStep, SameCalls, IInv, Typed
<1>2. /\ next \in Ops \cup {"read", "done"}
      /\ next \notin {"create", "apply", "replace"}
      /\ next = "read" => c.op = "create"
      /\ next \in {"delete", "startup", "done"} /\ result = "ok" =>
           (c.op \in {"delete", "startup"} /\ out[r] = "ok") \/ (c.op = "save" /\ ok)
      /\ next = "startup" /\ req[r].kind = "incremental" => c.op = "delete"
      /\ next = "done" /\ result = "ok" /\ req[r].kind = "incremental" => c.op \in {"delete", "startup"}
      /\ result \in {"ok", "err", out[r]}
  BY <1>0, AfterFacts, AfterRange
<1>3. /\ out' = [out EXCEPT ![r] = result]
      /\ floor' = IF next = "done" /\ result = "ok" /\ req[r].kind = "incremental"
                     /\ applied[r] > floor THEN applied[r] ELSE floor
  BY DEF ResumeStep, Resume
<1>4. pc[r] = "call"
  BY <1>0, CallingOne DEF IInv, Queued
<1> HIDE DEF next, result
<1>5. /\ ver \in Nat /\ ver' \in Nat /\ ver <= ver' /\ saved \in 0 .. ver /\ saved' \in saved .. ver'
      /\ floor \in 0 .. ver /\ \A q \in Sets : applied[q] \in 0 .. ver /\ applied'[q] \in 0 .. ver'
      /\ \A q \in Sets : q # r => applied'[q] = applied[q]
      /\ c.op \notin {"replace", "apply"} => applied' = applied
  BY <1>0 DEF ResumeStep, IInv, Typed, HostStep
<1>6. Typed'
  <2>1. pc' \in [Sets -> PCs]
    BY <1>1, <1>2 DEF IInv, Typed, PCs
  <2>2. out' \in [Sets -> {None, "ok", "err", "killed"}]
    BY <1>2, <1>3 DEF IInv, Typed
  <2>3. applied' \in [Sets -> 0 .. ver'] /\ floor' \in 0 .. ver' /\ saved' \in 0 .. ver'
    <3>1. DOMAIN applied' = Sets /\ applied' = [q \in Sets |-> applied'[q]]
      BY Zenon DEF ResumeStep, IInv, Typed
    <3>2. QED
      BY <1>3, <1>5, <3>1
  <2>4. answer' \in [Gets -> 0 .. ver'] /\ need' \in [Gets -> 0 .. ver']
    BY <1>0, <1>5 DEF IInv, Typed
  <2>5. ver' \in Nat /\ tmp' \in BOOLEAN /\ stuck' \in BOOLEAN /\ (ck' # None => ck'.ver \in 0 .. ver')
    BY <1>0 DEF IInv, Typed, HostStep
  <2>6. gpc' = gpc
    BY <1>0
  <2>7. QED
    BY <2>1, <2>2, <2>3, <2>4, <2>5, <2>6 DEF IInv, Typed
<1>7. Queued'
  <2>1. ASSUME NEW q \in Sets
        PROVE  pc'[q] = "call" <=> Waiting(calls', q)
    <3>1. CASE q = r
      BY <1>1, <3>1
    <3>2. CASE q # r
      <4>1. pc'[q] = pc[q]
        BY <1>1, <3>2 DEF IInv, Typed
      <4>2. Waiting(calls', q) <=> Waiting(calls, q)
        BY <1>1, <3>2, CallingOne DEF IInv, Queued
      <4>3. QED
        BY <4>1, <4>2 DEF IInv, Queued
    <3>3. QED
      BY <3>1, <3>2
  <2>2. QED
    BY <1>1, <2>1 DEF Queued
<1>8. Asked' /\ Mastered'
  BY <1>0, <1>1, <1>4 DEF IInv, Typed, Asked, Mastered, MasterIsHighest
<1>9. Reading'
  <2>1. \A g \in Gets : need[g] \in Int
    BY DEF IInv, Typed
  <2>2. floor' >= floor
    BY <1>3, <1>5
  <2>3. QED
    <3>1. floor \in Int /\ floor' \in Int
      BY <1>3, <1>5
    <3>2. QED
      BY <1>0, <2>1, <2>2, <3>1 DEF IInv, Reading
<1>10. Saving'
  <2> SUFFICES ASSUME NEW q \in Sets
               PROVE  /\ pc'[q] \in {"idle", "set", "read"} => applied'[q] = 0
                      /\ \A o \in {"create", "apply", "replace"} : Calling(calls', o, q) => applied'[q] = 0
                      /\ \A o \in {"delete", "startup"} : Calling(calls', o, q) /\ out'[q] = "ok" => saved' >= applied'[q]
                      /\ pc'[q] = "done" /\ out'[q] = "ok" => saved' >= applied'[q]
    BY DEF Saving
  <2>1. CASE q # r
    <3>1. pc'[q] = pc[q] /\ out'[q] = out[q] /\ applied'[q] = applied[q] /\ saved' >= saved
      BY <1>1, <1>3, <1>5, <2>1 DEF IInv, Typed
    <3>2. QED
      BY <1>1, <1>5, <2>1, <3>1 DEF IInv, Saving, Ops
  <2>2. CASE q = r
    <3>1. /\ pc'[r] = IF next \in {"read", "done"} THEN next ELSE "call"
          /\ out'[r] = result
      BY <1>1, <1>3 DEF IInv, Typed
    <3>2. next = "read" => applied'[r] = 0
      BY <1>0, <1>2, <1>5 DEF IInv, Saving
    <3>3. next \in {"delete", "startup", "done"} /\ result = "ok" => saved' >= applied'[r]
      <4>1. ASSUME c.op \in {"delete", "startup"}, out[r] = "ok"
            PROVE  saved' >= applied'[r]
        <5>1. saved >= applied[r] /\ applied'[r] = applied[r]
          BY <1>0, <1>5, <4>1 DEF IInv, Saving
        <5>2. QED
          BY <1>5, <5>1
      <4>2. ASSUME c.op = "save", ok
            PROVE  saved' >= applied'[r]
        BY <1>0, <1>5, <4>2 DEF HostStep
      <4>3. QED
        BY <1>2, <4>1, <4>2
    <3>4. QED
      BY <1>1, <1>2, <2>2, <3>1, <3>2, <3>3 DEF Ops
  <2>3. QED
    BY <2>1, <2>2
<1>11. Checkpoints'
  <2> SUFFICES ASSUME ck' # None, ~stuck'
               PROVE  /\ ck'.ver >= floor'
                      /\ \A q \in Sets : Calling(calls', "startup", q) /\ req'[q].kind = "incremental" =>
                           ck'.ver >= applied'[q]
    BY Zenon DEF Checkpoints
  <2>1. c.op # "delete"
    BY <1>0 DEF HostStep
  <2>2. next = "done" /\ result = "ok" /\ req[r].kind = "incremental" => c.op = "startup"
    BY <1>2, <2>1
  <2>3. \A q \in Sets : Calling(calls', "startup", q) /\ req'[q].kind = "incremental" =>
          q # r /\ Calling(calls, "startup", q) /\ req[q].kind = "incremental"
    BY <1>0, <1>1, <1>2, <2>1 DEF Ops
  <2>4. CASE ck' = ck /\ ~stuck
    <3>1. ck.ver \in Int /\ ck.ver >= floor
      BY <2>4 DEF IInv, Typed, Checkpoints
    <3>2. ck.ver >= floor'
      BY <1>0, <1>3, <2>2, <2>4, <3>1 DEF IInv, Checkpoints
    <3>3. \A q \in Sets : Calling(calls', "startup", q) /\ req'[q].kind = "incremental" => ck.ver >= applied'[q]
      BY <1>5, <2>3, <2>4 DEF IInv, Checkpoints
    <3>4. QED
      BY <2>4, <3>2, <3>3
  <2>5. CASE ck'.ver >= ver
    <3>1. ck'.ver \in Int
      BY <1>0 DEF HostStep
    <3>2. floor' <= ver /\ floor' \in Int
      BY <1>3, <1>5
    <3>3. \A q \in Sets : q # r => applied'[q] <= ver /\ applied'[q] \in Int
      BY <1>5
    <3>4. QED
      BY <1>5, <2>3, <2>5, <3>1, <3>2, <3>3
  <2>6. QED
    BY <1>0, <2>4, <2>5 DEF HostStep
<1>12. QED
  BY <1>6, <1>7, <1>8, <1>9, <1>10, <1>11 DEF IInv

\* The host services carry out a call, for its sender or for nobody.
LEMMA HostDoesIInv ==
  ASSUME IInv, HostDoes
  PROVE  IInv'
<1> DEFINE c == Head(calls)
<1>1. /\ c.op \in Ops /\ c.by \in Sets \cup {None}
      /\ c.by \in Sets => Calling(calls, c.op, c.by) /\ ~Waiting(Tail(calls), c.by)
      /\ SameCalls(calls, Tail(calls), c.by)
  BY TailCalls DEF SameCalls, IInv, Queued, HostDoes
<1>2. HostStep(c.op, TRUE)
  <2>1. ver' = (IF c.op \in {"replace", "apply"} THEN ver + 1 ELSE ver) /\ ver \in Nat
    BY DEF HostDoes, Effect, IInv, Typed
  <2>2. saved' = (IF c.op \in {"save", "startup"} THEN ver ELSE saved) /\ saved \in 0 .. ver
    BY DEF HostDoes, Effect, IInv, Typed
  <2>3. stuck' = (stuck /\ c.op # "delete") /\ stuck \in BOOLEAN
    BY DEF HostDoes, IInv, Typed
  <2>4. /\ c.op = "create" => ck'.ver = ver
        /\ c.op = "delete" => ck' = None
        /\ c.op \notin {"create", "delete"} => ck' = ck
    BY DEF HostDoes, Effect
  <2>5. ver' \in Nat /\ ver' >= ver /\ saved' \in saved .. ver' /\ (c.op = "save" => saved' = ver')
    BY <2>1, <2>2
  <2>6. ck' # None => ck'.ver \in 0 .. ver'
    BY <2>1, <2>4 DEF IInv, Typed
  <2>7. ck' # None /\ ~stuck' => (ck' = ck /\ ~stuck) \/ ck'.ver >= ver
    BY <2>1, <2>3, <2>4
  <2>8. QED
    BY <2>3, <2>4, <2>5, <2>6, <2>7 DEF HostStep
<1>3. CASE c.by = None
  <2>1. calls' = Tail(calls) /\ UNCHANGED <<pc, out, floor, applied, tmp, masterEID, req, get>>
    BY <1>3, Zenon DEF HostDoes
  <2>2. QED
    BY <1>1, <1>2, <1>3, <2>1, UnheardIInv, Zenon DEF UnheardStep
<1>4. CASE c.by \in Sets
  <2>1. /\ Resume(c.by, c, TRUE, Tail(calls)) /\ UNCHANGED <<tmp, masterEID, req, get>>
        /\ applied' = IF c.op \in {"replace", "apply"} THEN [applied EXCEPT ![c.by] = ver'] ELSE applied
    BY <1>4, ConfigAssumption, Zenon DEF HostDoes
  <2>2. QED
    BY <1>1, <1>2, <1>4, <2>1, ResumeIInv, Zenon DEF ResumeStep
<1>5. QED
  BY <1>1, <1>3, <1>4

\* A call fails, after a part of a patch or without any effect.
LEMMA HostFailsIInv ==
  ASSUME IInv, HostFails
  PROVE  IInv'
<1> DEFINE c == Head(calls)
<1>1. /\ c.op \in Ops /\ c.by \in Sets \cup {None}
      /\ c.by \in Sets => Calling(calls, c.op, c.by) /\ ~Waiting(Tail(calls), c.by)
      /\ SameCalls(calls, Tail(calls), c.by)
  BY TailCalls DEF SameCalls, IInv, Queued, HostFails
<1>2. HostStep(c.op, FALSE)
  <2>1. ver \in Nat /\ (ver' = ver \/ ver' = ver + 1)
    BY DEF HostFails, IInv, Typed
  <2>2. saved' = saved /\ ck' = ck /\ saved \in 0 .. ver
    BY DEF HostFails, files, IInv, Typed
  <2>3. stuck' = (stuck \/ c.op = "delete") /\ stuck \in BOOLEAN
    BY DEF HostFails, IInv, Typed
  <2>4. ck' # None => ck'.ver \in 0 .. ver'
    BY <2>1, <2>2 DEF IInv, Typed
  <2>5. ver' \in Nat /\ ver' >= ver /\ saved' \in saved .. ver'
    BY <2>1, <2>2
  <2>6. (~stuck' => ~stuck) /\ stuck' \in BOOLEAN /\ (c.op = "delete" => stuck')
    BY <2>3, Zenon
  <2>7. QED
    BY <2>2, <2>4, <2>5, <2>6 DEF HostStep
<1>3. CASE c.by = None
  <2>1. calls' = Tail(calls) /\ UNCHANGED <<pc, out, floor, applied, tmp, masterEID, req, get>>
    BY <1>3, Zenon DEF HostFails, files
  <2>2. QED
    BY <1>1, <1>2, <1>3, <2>1, UnheardIInv, Zenon DEF UnheardStep
<1>4. CASE c.by \in Sets
  <2>1. /\ Resume(c.by, c, FALSE, Tail(calls)) /\ UNCHANGED <<tmp, masterEID, req, get>>
        /\ applied' = applied
    BY <1>4, ConfigAssumption, Zenon DEF HostFails, files
  <2>2. QED
    BY <1>1, <1>2, <1>4, <2>1, ResumeIInv, Zenon DEF ResumeStep
<1>5. QED
  BY <1>1, <1>3, <1>4

\* A sender gives up waiting.
LEMMA TimeoutIInv ==
  ASSUME IInv, NEW r \in Sets, Timeout(r)
  PROVE  IInv'
<1>1. PICK i \in DOMAIN calls :
        /\ calls[i].by = r
        /\ Resume(r, calls[i], FALSE, [calls EXCEPT ![i].by = None])
        /\ stuck' = (stuck \/ calls[i].op = "delete")
  BY Zenon DEF Timeout
<1> DEFINE rest == [calls EXCEPT ![i].by = None]
<1>2. /\ SameCalls(calls, rest, r) /\ ~Waiting(rest, r)
      /\ Calling(calls, calls[i].op, r) /\ calls[i].op \in Ops
  BY <1>1, ForgetCall, Zenon DEF SameCalls, IInv, Queued
<1>3. UNCHANGED <<ver, ck, saved, tmp, masterEID, req, applied, get>>
  BY DEF Timeout, files
<1>4. HostStep(calls[i].op, FALSE)
  <2>1. stuck \in BOOLEAN /\ ver \in Nat /\ saved \in 0 .. ver /\ (ck # None => ck.ver \in 0 .. ver)
    BY DEF IInv, Typed
  <2>2. (~stuck' => ~stuck) /\ stuck' \in BOOLEAN /\ (calls[i].op = "delete" => stuck')
    BY <1>1, <2>1, Zenon
  <2>3. ver' \in Nat /\ ver' >= ver /\ saved' \in saved .. ver' /\ (ck' # None => ck'.ver \in 0 .. ver')
    BY <1>3, <2>1
  <2>4. QED
    BY <1>3, <2>2, <2>3 DEF HostStep
<1> HIDE DEF rest
<1>5. Resume(r, calls[i], FALSE, rest)
  BY <1>1, Zenon DEF rest
<1>6. QED
  BY <1>2, <1>3, <1>4, <1>5, ResumeIInv, Zenon DEF ResumeStep
=============================================================================
