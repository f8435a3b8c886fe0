--------------------------- MODULE CertzTelemetry ---------------------------
(***************************************************************************)
(* certz in the process that telemetry.go runs.  The configured            *)
(* certificate, key and CA are files of the directory that the lifecycle   *)
(* watches, the rotated files and links are in it too (setupFlags), and    *)
(* every turn of the server loop makes a new certz service.  The names of  *)
(* links end in ".lnk", which the watcher does not look at.                *)
(***************************************************************************)
EXTENDS CertzRotate, FiniteSets

CONSTANT MaxTurns

VARIABLES w, ctl, main, sh, stopsh, sig

Configured(l) == IF Exists(disk, l, 0) THEN 1 ELSE 0
L == INSTANCE GnmiLifecycle
     WITH fs <- [cert |-> Configured("cert"), key |-> Configured("key"), ca |-> Exists(disk, "tb", 0)],
          ops <- 0, MaxOps <- 0, Faults <- {}, Listeners <- {"tcp"},
          rpc <- (h.pc # "idle"), missed <- (MaxTurns = 0)

lvars == <<w, ctl, main, sh, stopsh, sig>>
all == <<vars, lvars>>

CTInit == Init /\ L!Init

\* A step of the RPC, with the events of the files it makes and removes.
Events(n1, n2) == [i \in 1..(n1 + n2) |-> IF i <= n1 THEN "write" ELSE "remove"]
RotateStep ==
  /\ Rotate /\ (h.pc = "idle" => main.pc = "serve")
  /\ LET made == disk'.files \ disk.files
         gone == disk.files \ disk'.files
         q == Events(Cardinality(made), Cardinality(gone))
     IN w' = [i \in 1..MaxTurns |-> IF L!Watching(i) THEN [w[i] EXCEPT !.q = @ \o q] ELSE w[i]]
  /\ UNCHANGED <<ctl, main, sh, stopsh, sig>>

\* A step of the loop or of a watcher; NewServer makes the certz service.
ServerStep ==
  /\ IF main.pc = "new"
     THEN NewGNSICertzServer(disk) /\ up' = "up" /\ UNCHANGED <<h, hs, n, g>>
     ELSE UNCHANGED vars
  /\ L!Main
WatchStep(i) == UNCHANGED vars /\ L!Watcher(i)

CTNext == RotateStep \/ ServerStep \/ \E i \in 1..MaxTurns : WatchStep(i)

\* The goroutines of the process run; the client of the RPC need not.
CTSpec == /\ CTInit /\ [][CTNext]_all
          /\ WF_all(ServerStep) /\ \A i \in 1..MaxTurns : WF_all(WatchStep(i))

\* A rotation that is undone leaves the process serving: undoing it removes
\* only files that the rotation made, so the restarts that the watcher asks
\* for find the configured certificate again (loadCertificates).
ServesIfReverted == g.ended = "reverted" /\ main.turn < MaxTurns => main.pc = "serve"
ServesAfterRevert == []<>ServesIfReverted
=============================================================================
