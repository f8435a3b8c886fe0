---------------------------- MODULE ShowCommands ----------------------------
(***************************************************************************)
(* Show commands (sonic_data_client/show_client.go, show_client_helpers.go,*)
(* trie.go): commands are registered while the program initialises; a Get  *)
(* with target SHOW finds, for each of its paths, the longest command that *)
(* the path begins with.  What follows are the arguments, and the keys of  *)
(* the elements are options.  An option's text is a sequence: its parts    *)
(* between commas.  The second half is the getter of the interface         *)
(* counters, whose state the first half does not touch.                    *)
(***************************************************************************)
EXTENDS Naturals, Integers, Sequences, FiniteSets

CONSTANTS Registrations,  \* what init registers, in order: path, min, max
                          \* (-1: any number), opts: option -> [req, type, enum]
          ShowGets,       \* requests: prefix elements, a sequence of paths; an
                          \* element is a name with its keys: option -> text
          GlobalOptions   \* registeredGlobalOptions

VARIABLES todo,    \* registrations to come
          trie,    \* terminal nodes: the configuration of each command
          show     \* the last request and its outcome

scVars == <<todo, trie, show>>

NoRequest == [pre |-> <<>>, paths |-> <<>>]
NoParse == <<>>                                       \* an error; no value is empty
NoShow == [q |-> NoRequest, ok |-> FALSE, values |-> {}]
Names(es) == [i \in DOMAIN es |-> es[i].name]
Merge(f, g) == [x \in DOMAIN f \cup DOMAIN g |-> IF x \in DOMAIN g THEN g[x] ELSE f[x]]

ScInit == todo = Registrations /\ trie = [p \in {} |-> <<>>] /\ show = NoShow

validateRegisteredArgs(c) ==
  /\ c.max >= -1 /\ c.min >= 0
  /\ c.max > -1 => c.min <= c.max
  /\ Len(c.path) >= 2

\* A path that is registered again gets the later configuration.
RegisterCliPath ==
  /\ todo # <<>> /\ todo' = Tail(todo)
  /\ LET c == Head(todo)
         config == [c EXCEPT !.opts = Merge(GlobalOptions, @)]
     IN trie' = IF validateRegisteredArgs(c)
                THEN [p \in DOMAIN trie \cup {c.path} |-> IF p = c.path THEN config ELSE trie[p]]
                ELSE trie
  /\ UNCHANGED show

\* The names of the target, the prefix and the path; a path without elements
\* drops those of the prefix as well (gnmiFullPath).
FullPath(pre, es) == <<"SHOW">> \o (IF es = <<>> THEN <<>> ELSE Names(pre) \o Names(es))

FindLongestPrefix(keys) ==
  LET found == {i \in 2..Len(keys) : SubSeq(keys, 1, i) \in DOMAIN trie}
  IN IF found = {} THEN 0 ELSE CHOOSE i \in found : \A j \in found : j <= i

\* The arguments follow the command; prefix elements are not counted here.
ParseArgs(c, es) ==
  LET arr == <<"SHOW">> \o Names(es)
      n == Len(arr) - Len(c.path)
  IN IF n < 0 \/ (c.max >= 0 /\ n > c.max) \/ n < c.min THEN NoParse
     ELSE <<SubSeq(arr, Len(c.path) + 1, Len(arr))>>

\* Keys count from the last element of the command on; a later element's win.
RECURSIVE Keys(_)
Keys(es) == IF es = <<>> THEN [x \in {} |-> <<>>] ELSE Merge(Head(es).keys, Keys(Tail(es)))

checkOptionsInPath(c, es) ==
  LET first == Len(c.path) - 1
      passed == Keys(SubSeq(es, first, Len(es)))
  IN IF first > Len(es) \/ ~(DOMAIN passed \subseteq DOMAIN c.opts) THEN NoParse ELSE <<passed>>

\* An option's value by its type, or NoParse.
Typed(o, text) ==
  CASE o.type = "string" -> <<"string", text>>
    [] o.type = "slice" -> <<"slice", text>>
    [] o.type = "bool" -> IF Len(text) = 1 /\ text[1] \in {"true", "false"} THEN <<"bool", text>> ELSE NoParse
    [] o.type = "int" -> IF Len(text) = 1 /\ text[1] \in {"0", "5"} THEN <<"int", text>> ELSE NoParse
    [] o.type = "enum" -> IF text \in o.enum THEN <<"string", text>> ELSE NoParse

validateOptions(c, passed) ==
  IF \E o \in DOMAIN c.opts :
       IF o \notin DOMAIN passed THEN c.opts[o].req = "required"
       ELSE c.opts[o].req = "unimplemented" \/ Typed(c.opts[o], passed[o]) = NoParse
  THEN NoParse ELSE <<[o \in DOMAIN passed |-> Typed(c.opts[o], passed[o])]>>

ParseOptions(c, es) ==
  LET passed == checkOptionsInPath(c, es)
  IN IF passed = NoParse THEN NoParse ELSE validateOptions(c, passed[1])

\* What one path of a request comes to: an error, help, or the getter's call.
Outcome(pre, es) ==
  LET n == FindLongestPrefix(FullPath(pre, es))
      c == trie[SubSeq(FullPath(pre, es), 1, n)]
      args == ParseArgs(c, es)
      opts == ParseOptions(c, es)
  IN CASE n = 0 -> [kind |-> "unknown", cmd |-> <<>>]
       [] n > 0 /\ (args = NoParse \/ opts = NoParse) -> [kind |-> "refused", cmd |-> c.path]
       [] OTHER ->
            IF "help" \in DOMAIN opts[1] /\ opts[1]["help"] = <<"bool", <<"true">>>>
            THEN [kind |-> "help", cmd |-> c.path]
            ELSE [kind |-> "call", cmd |-> c.path, args |-> args[1], opts |-> opts[1]]

\* Paths are looked up first; then each is answered, in any order (a map),
\* until one is refused or asks for help, which is then the whole answer.
\* A getter that fails is a refusal too.  A Get leaves nothing behind, so
\* one is looked at.
Get(q) ==
  LET out == [i \in DOMAIN q.paths |-> Outcome(q.pre, q.paths[i])]
  IN /\ todo = <<>> /\ show.q = NoRequest
     /\ \E failing \in SUBSET {i \in DOMAIN out : out[i].kind = "call"} :
          LET stop == {i \in DOMAIN out : out[i].kind \in {"refused", "help"}} \cup failing
          IN IF \E i \in DOMAIN out : out[i].kind = "unknown"
             THEN failing = {} /\ show' = [q |-> q, ok |-> FALSE, values |-> {}]
             ELSE IF stop = {}
             THEN show' = [q |-> q, ok |-> TRUE, values |-> {<<i, out[i]>> : i \in DOMAIN out}]
             ELSE \E i \in stop :
                    show' = IF out[i].kind = "help"
                            THEN [q |-> q, ok |-> TRUE, values |-> {<<i, out[i]>>}]
                            ELSE [q |-> q, ok |-> FALSE, values |-> {}]
     /\ UNCHANGED <<todo, trie>>

ScNext == RegisterCliPath \/ \E q \in ShowGets : Get(q)

ScSpec == ScInit /\ [][ScNext]_scVars
-----------------------------------------------------------------------------
\* What is registered is valid, and an answer belongs to a path of the request.
ScTypeOK ==
  /\ \A p \in DOMAIN trie : trie[p].path = p /\ validateRegisteredArgs(trie[p])
  /\ show.q # NoRequest => \A v \in show.values : v[1] \in DOMAIN show.q.paths

\* Reference: the ways to read a path as a command that is registered last
\* under its name, with its arguments.
Readings(es) ==
  {i \in DOMAIN Registrations :
     LET c == Registrations[i]
         n == Len(c.path)
     IN /\ validateRegisteredArgs(c)
        /\ n <= Len(es) + 1 /\ c.path = SubSeq(<<"SHOW">> \o Names(es), 1, n)
        /\ \A j \in DOMAIN Registrations :
             j > i /\ validateRegisteredArgs(Registrations[j]) => Registrations[j].path # c.path}

Longest(es) ==
  CHOOSE i \in Readings(es) : \A j \in Readings(es) : Len(Registrations[j].path) <= Len(Registrations[i].path)

\* A getter is called for the longest command that the path begins with, with
\* all that follows as its arguments and within their number.
\* (FindLongestPrefix, ParseArgs; prefixes with elements are another matter.)
CallsNamed ==
  show.q # NoRequest /\ show.q.pre = <<>> =>
    \A v \in show.values :
      LET es == show.q.paths[v[1]]
          c == Registrations[Longest(es)]
      IN v[2].kind = "call" =>
           /\ Readings(es) # {} /\ v[2].cmd = c.path
           /\ c.path \o v[2].args = <<"SHOW">> \o Names(es)
           /\ Len(v[2].args) >= c.min /\ (c.max >= 0 => Len(v[2].args) <= c.max)

\* The getter sees each option that the command's last element or an argument
\* carries, every required one and none that is not implemented; a wrong one
\* refuses the request rather than being left out (ParseOptions).
OptionsHonoured ==
  show.q # NoRequest /\ show.q.pre = <<>> =>
    \A v \in show.values :
      LET es == show.q.paths[v[1]]
          c == Registrations[Longest(es)]
          given == UNION {DOMAIN es[k].keys : k \in (Len(c.path) - 1)..Len(es)}
      IN v[2].kind = "call" =>
           /\ DOMAIN v[2].opts = given
           /\ \A o \in DOMAIN c.opts : /\ c.opts[o].req = "required" => o \in given
                                       /\ c.opts[o].req = "unimplemented" => o \notin given

\* A Get is answered for all of its paths or for none; only help is an answer
\* for one path in place of the others (Get of ShowClient).
AllOrHelp ==
  show.ok => \/ {v[1] : v \in show.values} = DOMAIN show.q.paths
             \/ \E v \in show.values : show.values = {v} /\ v[2].kind = "help"
-----------------------------------------------------------------------------
(***************************************************************************)
(* One of the getters: "show interface counters"                           *)
(* (show_client/interface_counters_cli.go, interface_counters_helper.go).  *)
(* A snapshot of the port counters, taken relative to what "clear          *)
(* counters" has left in portstat's cache file, or with the option period  *)
(* the difference of two such snapshots.  The RIF counters have no cache.  *)
(* Meanwhile counters advance, ports come and go and counters are cleared. *)
(* A counter is a number or missing.                                       *)
(***************************************************************************)
CONSTANTS CounterPorts, ShowKinds, Asked, Periods, MaxPeriod, MaxTraffic, MaxEvents

VARIABLES hw,      \* COUNTERS_DB: counters of the ports that have any
          file,    \* portstat's cache: none, or the counters of its ports
          events,  \* clears and port changes so far
          call,    \* the RPC: pc, kind, ifaces, period, the snapshots
          seen     \* what it should report: counters at its two readings, the
                   \* cache at the first, and whether nothing but traffic
                   \* happened since it began

shVars == <<hw, file, events, call, seen>>

NA == -1000                                 \* "N/A"; trimDrp is not in the cache
Absent == [p \in {} |-> 0]
NoFile == <<>>
NoCall == [pc |-> "idle", kind |-> "port", ifaces |-> {}, period |-> 0, diff |-> FALSE,
           raw |-> Absent, old |-> Absent, answer |-> Absent, err |-> FALSE]
NotSeen == [first |-> Absent, second |-> Absent, base |-> NoFile, quiet |-> FALSE]

\* The trim counter may be missing, as on most platforms.
ShInit ==
  /\ \E t \in {0, NA} : hw = [p \in CounterPorts |-> [rx |-> 0, trimDrp |-> t]]
  /\ file = NoFile /\ events = 0 /\ call = NoCall /\ seen = NotSeen

\* Packets.  No counter depends on another port's, so all advance together.
Traffic ==
  /\ \E p \in DOMAIN hw : hw[p].rx < MaxTraffic
  /\ hw' = [p \in DOMAIN hw |->
       IF hw[p].rx = MaxTraffic THEN hw[p]
       ELSE [rx |-> hw[p].rx + 1, trimDrp |-> IF hw[p].trimDrp = NA THEN NA ELSE hw[p].trimDrp + 1]]
  /\ UNCHANGED <<file, events, call, seen>>

Disturb == events < MaxEvents /\ events' = events + 1 /\ seen' = [seen EXCEPT !.quiet = FALSE]

\* portstat -c writes the counters to its cache; a reader may meet the file
\* while it is empty.
Clear ==
  /\ Disturb
  /\ file' \in {NoFile, <<[p \in DOMAIN hw |-> hw[p].rx]>>} /\ file' # file
  /\ UNCHANGED <<hw, call>>

PortChange(p) ==
  /\ Disturb
  /\ hw' = IF p \in DOMAIN hw THEN [q \in DOMAIN hw \ {p} |-> hw[q]]
           ELSE [q \in DOMAIN hw \cup {p} |-> IF q = p THEN [rx |-> 0, trimDrp |-> NA] ELSE hw[q]]
  /\ UNCHANGED <<file, call>>

\* A field that the new snapshot lacks is missing, one that the old lacks
\* counts as zero, and only a raw difference may be negative.
calculateDiff(old, new, raw) ==
  IF new = NA THEN NA
  ELSE LET d == new - (IF old = NA THEN 0 ELSE old)
       IN IF raw \/ d >= 0 THEN d ELSE 0

\* A port that the old snapshot lacks is taken as it is.
calculateDiffSnapshot(old, new, raw) ==
  [p \in DOMAIN new |->
     IF p \notin DOMAIN old THEN new[p]
     ELSE [rx |-> calculateDiff(old[p].rx, new[p].rx, FALSE),
           trimDrp |-> calculateDiff(old[p].trimDrp, new[p].trimDrp, raw)]]

\* The cache as a snapshot; a field that it does not hold is an empty text,
\* which ParseInt reads as zero.
getPortStatCacheSnapshot == [p \in DOMAIN file[1] |-> [rx |-> file[1][p], trimDrp |-> 0]]

\* All ports, or those asked for that there are.
Validated == IF call.ifaces = {} THEN DOMAIN hw ELSE call.ifaces \cap DOMAIN hw

validatePeriod(period) == period = NA \/ period \in 0..MaxPeriod

\* A period of zero is no difference for ports, but is one for RIFs.
TakesTwo == call.diff /\ (call.kind = "rif" \/ call.period > 0)

\* RIF counters are asked for one interface, which must exist, or for all.
Start(kind, ifaces, period) ==
  /\ call.pc = "idle" /\ (kind = "rif" => Cardinality(ifaces) <= 1)
  /\ LET bad == \/ ~validatePeriod(period)
                \/ kind = "rif" /\ (hw = Absent \/ ~(ifaces \subseteq DOMAIN hw))
     IN call' = [NoCall EXCEPT !.kind = kind, !.ifaces = ifaces, !.diff = period # NA, !.err = bad,
                   !.period = IF period = NA THEN 0 ELSE period, !.pc = IF bad THEN "done" ELSE "read1"]
  /\ seen' = [NotSeen EXCEPT !.quiet = TRUE]
  /\ UNCHANGED <<hw, file, events>>

\* The call goes on with its first or its second snapshot.
Taken(c, second, s) ==
  CASE second -> [c EXCEPT !.answer = calculateDiffSnapshot(c.old, s, c.kind = "port"),
                           !.raw = Absent, !.old = Absent, !.pc = "done"]
    [] ~second /\ TakesTwo -> [c EXCEPT !.old = s, !.raw = Absent, !.pc = "read2"]
    [] OTHER -> [c EXCEPT !.answer = s, !.raw = Absent, !.pc = "done"]

\* The queries of COUNTERS_DB, after the sleep for the second one.
ReadCounters ==
  /\ call.pc \in {"read1", "read2"}
  /\ LET second == call.pc = "read2"
         now == [p \in Validated |-> hw[p]]
     IN /\ call' = IF call.kind = "rif" THEN Taken(call, second, now)
                   ELSE [call EXCEPT !.raw = now, !.pc = IF second THEN "cache2" ELSE "cache1"]
        /\ seen' = IF second THEN [seen EXCEPT !.second = now] ELSE [seen EXCEPT !.first = now]
  /\ UNCHANGED <<hw, file, events>>

QueryFails ==
  /\ call.pc \in {"read1", "read2"}
  /\ call' = [call EXCEPT !.err = TRUE, !.pc = "done"]
  /\ UNCHANGED <<hw, file, events, seen>>

\* The end of getInterfaceCountersSnapshot: counters since the last clear.
ReadCache ==
  /\ call.pc \in {"cache1", "cache2"}
  /\ call' = Taken(call, call.pc = "cache2",
                   IF file = NoFile THEN call.raw
                   ELSE calculateDiffSnapshot(getPortStatCacheSnapshot, call.raw, TRUE))
  /\ seen' = IF call.pc = "cache1" THEN [seen EXCEPT !.base = file] ELSE seen
  /\ UNCHANGED <<hw, file, events>>

ShStep == ReadCounters \/ QueryFails \/ ReadCache

\* One call is followed, until it is answered.
ShNext ==
  \/ \E k \in ShowKinds, i \in Asked, t \in Periods : Start(k, i, t)
  \/ ShStep
  \/ call.pc # "done" /\ (Traffic \/ Clear \/ \E p \in CounterPorts : PortChange(p))

ShSpec == ShInit /\ [][ShNext]_shVars /\ WF_shVars(ShStep)
-----------------------------------------------------------------------------
\* Readings are of ports, and an answer that is an error has no counters.
ShTypeOK ==
  /\ DOMAIN hw \subseteq CounterPorts /\ events \in 0..MaxEvents
  /\ call.pc \in {"idle", "read1", "cache1", "read2", "cache2", "done"}
  /\ call.err => call.pc = "done" /\ call.answer = Absent

Answered == call.pc = "done" /\ ~call.err

\* What is subtracted: the first reading, or the cache if it holds the port.
Since(p) ==
  IF TakesTwo THEN seen.first[p]
  ELSE [rx |-> IF seen.base # NoFile /\ p \in DOMAIN seen.base[1] THEN seen.base[1][p] ELSE 0, trimDrp |-> 0]

\* If meanwhile there was only traffic, each port asked for is reported with
\* exactly what it counted between the two readings, or since the clear:
\* the cache, subtracted from both, cancels out (snapshotWithOptionalDiff).
\* Ports whose counters restarted after the clear are excepted.
IntervalExact ==
  Answered /\ seen.quiet =>
    LET last == IF TakesTwo THEN seen.second ELSE seen.first
    IN /\ DOMAIN call.answer = DOMAIN last
       /\ \A p \in DOMAIN last :
            (seen.base # NoFile /\ p \in DOMAIN seen.base[1] => seen.base[1][p] <= seen.first[p].rx) =>
              /\ call.answer[p].rx = last[p].rx - Since(p).rx
              /\ call.answer[p].trimDrp = IF last[p].trimDrp = NA THEN NA ELSE last[p].trimDrp - Since(p).trimDrp

\* Whatever is cleared or restarted in between, packets received are never
\* reported as a negative number, and no port is reported that was not asked
\* for, not even if none of those asked for exists (calculateDiff and
\* getInterfaceCountersSnapshot).
NeverNegative ==
  Answered => /\ \A p \in DOMAIN call.answer : call.answer[p].rx >= 0
              /\ call.ifaces # {} => DOMAIN call.answer \subseteq call.ifaces

\* A call that has begun is answered: nothing that happens holds it up.
ShOver == call.pc \in {"idle", "done"}
ShEnds == []<>ShOver
=============================================================================
