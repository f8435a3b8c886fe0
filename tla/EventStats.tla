---------------------------- MODULE EventStats -----------------------------
(***************************************************************************)
(* An event subscription's accounting                                      *)
(* (sonic_data_client/events_client.go): get_events receives events and    *)
(* puts them into the session's queue, the session's send sends them and   *)
(* tells the client (SentOne, FailedSend), and update_stats keeps the      *)
(* counters in COUNTERS_DB, which outlive the subscription.  StreamRun     *)
(* starts the two goroutines and waits for the session's end.              *)
(*                                                                         *)
(* Subscriptions follow each other.  An event is only counted; a latency   *)
(* is a small number.                                                      *)
(***************************************************************************)
EXTENDS Naturals, Integers, Sequences, FiniteSets, FiniteSetsExt, SequencesExt

CONSTANTS PqMax,        \* qsize, as NewEventClient has limited it
          LatencySize,  \* LATENCY_LIST_SIZE
          Latencies,    \* the latencies an event may have
          MaxEvents,    \* bound: events received in a subscription
          MaxMissed,    \* bound: events the subscriber reports as missed
          MaxClients,   \* bound: subscriptions
          EvFaults      \* "hset": writes may fail; "config": COUNTERS_DB may be unknown

VARIABLES evMain,    \* StreamRun
          evGet,     \* get_events
          evStats,   \* update_stats
          evWg,      \* the session's WaitGroup
          evSession, \* what the session has closed, and whether it sends
          evStopped, \* evtc.stopped
          evCnt,     \* evtc.counters
          evErrs,    \* evtc.last_errors
          evLat,     \* evtc.last_latencies, _index and _full
          evQ,       \* the number of queued events
          evWr,      \* update_stats' wr_counters, <<>> for nil
          evDb,      \* COUNTERS_DB
          evLog,     \* what has happened to the subscription's events
          evLife     \* the number of subscriptions so far

evVars == <<evMain, evGet, evStats, evWg, evSession, evStopped, evCnt, evErrs, evLat, evQ,
            evWr, evDb, evLog, evLife>>

Keys == {"missed", "dropped", "latency"}
Zero == [k \in Keys |-> 0]
NoEvents == [got |-> 0, sent |-> 0, failed |-> 0, lost |-> 0, missed |-> 0, recent |-> <<>>]

\* NewEventClient; the session's w counts StreamRun.
Fresh ==
    /\ evMain' = "go1" /\ evGet' = "off" /\ evStats' = "off" /\ evWg' = 1
    /\ evSession' = [stop |-> FALSE, disposed |-> FALSE, sends |-> TRUE]
    /\ evStopped' = FALSE /\ evCnt' = Zero /\ evErrs' = 0
    /\ evLat' = [list |-> [i \in 0..(LatencySize - 1) |-> 0], index |-> 0, full |-> FALSE]
    /\ evQ' = 0 /\ evWr' = <<>> /\ evLog' = NoEvents

EvInit ==
    /\ evMain = "done" /\ evGet = "done" /\ evStats = "done" /\ evWg = 0
    /\ evSession = [stop |-> TRUE, disposed |-> TRUE, sends |-> FALSE]
    /\ evStopped = TRUE /\ evCnt = Zero /\ evErrs = 0
    /\ evLat = [list |-> [i \in 0..(LatencySize - 1) |-> 0], index |-> 0, full |-> FALSE]
    /\ evQ = 0 /\ evWr = <<>> /\ evLog = NoEvents
    /\ evDb = Zero /\ evLife = 0

AllEnded == evMain = "done" /\ evGet = "done" /\ evStats = "done"

NewEventClient ==
    /\ AllEnded /\ evLife < MaxClients
    /\ evLife' = evLife + 1 /\ Fresh /\ UNCHANGED evDb

--------------------------------------------------------------------------
(* StreamRun: each goroutine is started before it is added to w *)

StreamRunRest == UNCHANGED <<evSession, evCnt, evErrs, evLat, evQ, evWr, evDb, evLog, evLife>>

GoGet == evMain' = "add1" /\ evGet' = "recv" /\ UNCHANGED <<evStats, evWg, evStopped>>

StreamRun ==
    /\ \/ evMain = "go1" /\ GoGet
       \/ evMain = "add1" /\ evMain' = "go2" /\ evWg' = evWg + 1 /\ UNCHANGED <<evGet, evStats, evStopped>>
       \/ evMain = "go2" /\ evMain' = "add2" /\ evStats' = "pause" /\ UNCHANGED <<evGet, evWg, evStopped>>
       \/ evMain = "add2" /\ evMain' = "test" /\ evWg' = evWg + 1 /\ UNCHANGED <<evGet, evStats, evStopped>>
       \/ /\ evMain = "test"
          /\ IF evStopped THEN evMain' = "done" /\ evWg' = evWg - 1 ELSE evMain' = "select" /\ UNCHANGED evWg
          /\ UNCHANGED <<evGet, evStats, evStopped>>
       \/ /\ evMain = "select" /\ evSession.stop
          /\ evMain' = "done" /\ evWg' = evWg - 1 /\ evStopped' = TRUE
          /\ UNCHANGED <<evGet, evStats>>
    /\ StreamRunRest

--------------------------------------------------------------------------
(* get_events *)

GetRest == UNCHANGED <<evMain, evStats, evSession, evErrs, evLat, evWr, evDb, evLife>>

\* An event that is not a test event is put into the queue while there is room.
HasRoom == evQ < PqMax

Drop == evCnt' = [evCnt EXCEPT !.dropped = @ + 1]

send_event ==
    IF evSession.disposed
    THEN /\ evLog' = [evLog EXCEPT !.got = @ + 1, !.lost = @ + 1]
         /\ evGet' = "end" /\ UNCHANGED evQ
    ELSE /\ evQ' = evQ + 1 /\ evGet' = "test"
         /\ evLog' = [evLog EXCEPT !.got = @ + 1]

\* C_recv_evt gives an event, says how many before it were missed, or times out.
RecvTimeout == evGet' = "test" /\ UNCHANGED <<evCnt, evQ, evLog>>

RecvMissed(m) ==
    /\ evCnt' = [evCnt EXCEPT !.missed = @ + m]
    /\ evLog' = [evLog EXCEPT !.missed = @ + m]
    /\ evGet' = "event" /\ UNCHANGED evQ

HandleEvent(test) ==
    IF test THEN evGet' = "test" /\ UNCHANGED <<evCnt, evQ, evLog>>
    ELSE IF HasRoom THEN send_event /\ UNCHANGED evCnt
    ELSE /\ Drop /\ evLog' = [evLog EXCEPT !.got = @ + 1]
         /\ evGet' = "test" /\ UNCHANGED evQ

get_events ==
    /\ \/ /\ evGet = "recv"
          /\ RecvTimeout \/ (evLog.got < MaxEvents /\ \E m \in 0..(MaxMissed - evLog.missed) : RecvMissed(m))
          /\ UNCHANGED <<evWg, evStopped>>
       \/ /\ evGet = "event"
          /\ \E test \in BOOLEAN : HandleEvent(test)
          /\ UNCHANGED <<evWg, evStopped>>
       \/ /\ evGet = "test"
          /\ evGet' = IF evStopped THEN "end" ELSE "recv"
          /\ UNCHANGED <<evCnt, evQ, evLog, evWg, evStopped>>
       \/ /\ evGet = "end"
          /\ evGet' = "done" /\ evStopped' = TRUE /\ evWg' = evWg - 1
          /\ UNCHANGED <<evCnt, evQ, evLog>>
    /\ GetRest

--------------------------------------------------------------------------
(* The session *)

SessionRest == UNCHANGED <<evMain, evGet, evStats, evWg, evStopped, evCnt, evWr, evDb, evLife>>

SentOne(l) ==
    evLat' = [list |-> [evLat.list EXCEPT ![evLat.index] = l],
              index |-> IF evLat.index + 1 >= LatencySize THEN 0 ELSE evLat.index + 1,
              full |-> evLat.full \/ evLat.index + 1 >= LatencySize]

LastN(s, n) == IF Len(s) <= n THEN s ELSE SubSeq(s, Len(s) - n + 1, Len(s))

FailedSend == evErrs' = evErrs + 1

\* A failing stream.Send ends it.
send ==
    /\ evSession.sends /\ evQ > 0
    /\ evQ' = evQ - 1
    /\ \/ /\ \E l \in Latencies :
                /\ SentOne(l)
                /\ evLog' = [evLog EXCEPT !.sent = @ + 1, !.recent = LastN(Append(@, l), LatencySize)]
          /\ UNCHANGED <<evErrs, evSession>>
       \/ /\ FailedSend
          /\ evLog' = [evLog EXCEPT !.failed = @ + 1]
          /\ evSession' = [evSession EXCEPT !.sends = FALSE]
          /\ UNCHANGED evLat
    /\ SessionRest

\* Client.Close: the queue is disposed of, then the channel is closed.
Close ==
    /\ \/ /\ ~evSession.disposed
          /\ evSession' = [evSession EXCEPT !.disposed = TRUE, !.sends = FALSE]
          /\ evLog' = [evLog EXCEPT !.lost = @ + evQ] /\ evQ' = 0
       \/ /\ evSession.disposed /\ ~evSession.stop
          /\ evSession' = [evSession EXCEPT !.stop = TRUE]
          /\ UNCHANGED <<evLog, evQ>>
    /\ SessionRest /\ UNCHANGED <<evLat, evErrs>>

--------------------------------------------------------------------------
(* update_stats *)

Total(list) == FoldFunctionOnSet(LAMBDA x, y : x + y, 0, list, DOMAIN list)

compute_latency ==
    IF evLat.full THEN [evCnt EXCEPT !.latency = Total(evLat.list) \div LatencySize] ELSE evCnt

\* What is read of the database counts only if reading it failed, when there
\* is nothing to parse: cumulative counters start from zero again.
Loaded == Zero

Counters(cnt) == [k \in Keys |-> cnt[k] + Loaded[k] + (IF k = "dropped" THEN evErrs ELSE 0)]

StatsRest == UNCHANGED <<evMain, evGet, evSession, evStopped, evErrs, evLat, evQ, evLog, evLife>>

StatsEnd == evStats' = "done" /\ evWg' = evWg - 1 /\ UNCHANGED <<evCnt, evWr, evDb>>

\* Mutant: it waits for a counter that is not zero, stopped or not.
MutStatsPause ==
    /\ evStats = "pause"
    /\ evCnt' = compute_latency
    /\ evStats' = IF \E k \in Keys : evCnt'[k] # 0 THEN "load" ELSE "pause"
    /\ UNCHANGED <<evWg, evWr, evDb>>
    /\ StatsRest

\* It waits for a counter that is not zero.
StatsPause ==
    /\ evStats = "pause"
    /\ IF evStopped THEN StatsEnd
       ELSE /\ evCnt' = compute_latency
            /\ evStats' = IF \E k \in Keys : evCnt'[k] # 0 THEN "load" ELSE "pause"
            /\ UNCHANGED <<evWg, evWr, evDb>>
    /\ StatsRest

StatsLoad ==
    /\ evStats = "load"
    /\ \/ (evStopped \/ "config" \in EvFaults) /\ StatsEnd
       \/ ~evStopped /\ evStats' = "loop" /\ UNCHANGED <<evCnt, evWr, evDb, evWg>>
    /\ StatsRest

Written(tmp) == tmp

\* Counters are written when they differ from those written last, whether or
\* not that write succeeded.
Publish(tmp) ==
    IF evWr # <<>> /\ evWr = <<tmp>> THEN UNCHANGED <<evDb, evWr>>
    ELSE /\ \E failed \in (IF "hset" \in EvFaults THEN SUBSET Keys ELSE {{}}) :
               evDb' = [k \in Keys |-> IF k \in failed THEN evDb[k] ELSE Written(tmp)[k]]
         /\ evWr' = <<tmp>>

StatsLoop ==
    /\ evStats = "loop"
    /\ IF evStopped THEN StatsEnd
       ELSE /\ evCnt' = compute_latency /\ Publish(Counters(evCnt'))
            /\ UNCHANGED <<evStats, evWg>>
    /\ StatsRest

update_stats == StatsPause \/ StatsLoad \/ StatsLoop

EvNext == NewEventClient \/ StreamRun \/ get_events \/ send \/ Close \/ update_stats

\* Goroutines are scheduled, and the subscriber's receive times out.
EvSpec == /\ EvInit /\ [][EvNext]_evVars
          /\ WF_evVars(StreamRun) /\ WF_evVars(get_events) /\ WF_evVars(update_stats)

--------------------------------------------------------------------------
(* Properties *)

\* Places, counters and the session's WaitGroup, which is never negative
\* although the goroutines are added to it after they have started.
EvTypeOK ==
    /\ evMain \in {"go1", "add1", "go2", "add2", "test", "select", "done"}
    /\ evGet \in {"off", "recv", "event", "test", "end", "done"}
    /\ evStats \in {"off", "pause", "load", "loop", "done"}
    /\ evWg \in 0..3 /\ evErrs \in 0..1 /\ evLife \in 0..MaxClients
    /\ evLat.index \in 0..(LatencySize - 1)
    /\ evCnt \in [Keys -> Nat] /\ evDb \in [Keys -> Nat]

\* w and the goroutines agree in the end: once all have returned w is zero,
\* and Wait, which may return early only while StreamRun is adding them,
\* does not return while any of them runs after that.
WaitCountsAll ==
    /\ AllEnded => evWg = 0
    /\ evMain \in {"test", "select", "done"} =>
          evWg = Cardinality({p \in {"m", "g", "s"} :
                     CASE p = "m" -> evMain # "done" [] p = "g" -> evGet # "done" [] OTHER -> evStats # "done"})

\* No event disappears without a trace: it is queued, was sent, failed to be
\* sent, was dropped and counted, or was lost with the session; and the queue
\* keeps its limit.
Accounted ==
    /\ evLog.got = evQ + evLog.sent + evLog.failed + evLog.lost + evCnt.dropped
    /\ evLog.missed = evCnt.missed
    /\ evQ <= PqMax

\* The latency that is published is the average of the events sent last.
LatencyMoves ==
    evCnt'.latency # evCnt.latency /\ evCnt'.latency # 0 =>
      evCnt'.latency = FoldLeft(LAMBDA x, y : x + y, 0, evLog.recent) \div LatencySize
LatencyIsRecent == [][LatencyMoves]_evVars

\* While a subscription runs COUNTERS_DB catches up with its counters,
\* failed sends included.
StatsAreThere == evStats # "loop" \/ evDb = Counters(compute_latency)
StatsCatchUp == []<>StatsAreThere

\* A session that ends takes all its goroutines with it.
EvOver == evSession.stop => AllEnded
EvEnds == []<>EvOver
=============================================================================
