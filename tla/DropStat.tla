------------------------------ MODULE DropStat ------------------------------
(***************************************************************************)
(* "show dropcounters counts" (show_client/dropstat_cli.go).  The debug    *)
(* counters are configured by name; COUNTERS_DB maps each name to the      *)
(* statistic that counts for it.  The map and its inverse are cached in    *)
(* the process under statCacheMu: an RPC clears both caches when it begins *)
(* and then looks things up, while other RPCs do the same and the          *)
(* configuration changes.  The answer is the columns of a port's row: the  *)
(* title of each statistic.  The numbers below them are left out.          *)
(***************************************************************************)
EXTENDS Naturals, FiniteSets

CONSTANTS DropRpcs, CounterConfigs, DropFilters, MaxReconfigs, MaxFails

VARIABLES conf,    \* stat: name -> statistic (COUNTERS_DB);
                   \* row: name -> [alias, group, type] (CONFIG_DB)
          caches,  \* fwd and rev: not there, or a map
          drop,    \* the RPCs
          changes, fails

dpsVars == <<conf, caches, drop, changes, fails>>

NotCached == <<>>
EmptyMap == [x \in {} |-> ""]
\* One of stdPortRxCounters and one of stdPortTxCounters, their types and titles.
Std == {"IN_ERRORS", "OUT_ERRORS"}
StdType(c) == IF c = "IN_ERRORS" THEN "INGRESS" ELSE "EGRESS"
StdTitle(c) == IF c = "IN_ERRORS" THEN "RX_ERR" ELSE "TX_ERR"
EqualFold(t, u) == t = u \/ <<t, u>> = <<"ingress", "INGRESS">>
Image(f) == {f[x] : x \in DOMAIN f}
NoDrop == [pc |-> "idle", filter |-> [group |-> "", type |-> ""], left |-> {}, ctr |-> "", name |-> "",
           kept |-> {}, titles |-> EmptyMap, names |-> EmptyMap, answer |-> EmptyMap, nil |-> FALSE,
           quiet |-> FALSE, since |-> {}]

DpsInit ==
  /\ conf \in CounterConfigs /\ caches = [fwd |-> NotCached, rev |-> NotCached]
  /\ drop = [r \in DropRpcs |-> NoDrop] /\ changes = 0 /\ fails = 0

At(r, pc) == drop[r].pc = pc
Goto(r, rec) == drop' = [drop EXCEPT ![r] = rec]
Busy(r) == drop[r].pc \notin {"idle", "done"}

\* The operator or orchagent: another configuration.
Reconfigure ==
  /\ changes < MaxReconfigs /\ changes' = changes + 1
  /\ conf' \in CounterConfigs \ {conf}
  /\ drop' = [r \in DropRpcs |-> IF Busy(r) THEN [drop[r] EXCEPT !.quiet = FALSE, !.since = @ \cup {conf'}] ELSE drop[r]]
  /\ UNCHANGED <<caches, fails>>

MutClearDropstatStatCaches ==
  IF caches.fwd = <<EmptyMap>> THEN [fwd |-> NotCached, rev |-> NotCached] ELSE caches

ClearDropstatStatCaches == [fwd |-> NotCached, rev |-> NotCached]

Begin(r, f) ==
  /\ At(r, "idle")
  /\ caches' = ClearDropstatStatCaches
  /\ Goto(r, [NoDrop EXCEPT !.pc = "lookup", !.filter = f, !.quiet = TRUE, !.since = {conf}])
  /\ UNCHANGED <<conf, changes, fails>>

\* A query, which may fail; RPCs under way may then miss something.
Query(ok) ==
  /\ ok \/ fails < MaxFails
  /\ fails' = IF ok THEN fails ELSE fails + 1
Hushed(r, rec, ok) ==
  drop' = [q \in DropRpcs |-> [(IF q = r THEN rec ELSE drop[q]) EXCEPT !.quiet = @ /\ ok]]

\* The map itself: from the cache, or read and cached, a failure included.
Stats(ok) == IF ok THEN conf.stat ELSE EmptyMap
CachedFwd(ok) == IF caches.fwd # NotCached THEN caches.fwd[1] ELSE Stats(ok)

\* inGroup and isType for the standard counters: in no group, of one type.
StdPasses(f) == {c \in Std : f.group = "" /\ (f.type = "" \/ EqualFold(f.type, StdType(c)))}

Checks(f) == {x \in {"group", "type"} : f[x] # ""}

\* getConfiguredCounters: the statistics to check, if there is a filter.
GetStatLookup(r) ==
  /\ At(r, "lookup")
  /\ \E ok \in IF caches.fwd = NotCached THEN BOOLEAN ELSE {TRUE} :
       LET all == Image(CachedFwd(ok))
           f == drop[r].filter
           unchecked == IF Checks(f) = {} THEN all ELSE {}
       IN /\ Query(ok)
          /\ caches' = [caches EXCEPT !.fwd = <<CachedFwd(ok)>>]
          /\ Hushed(r, [drop[r] EXCEPT !.kept = StdPasses(f) \cup unchecked,
                                       !.left = all \ unchecked, !.pc = "filter"], ok)
  /\ UNCHANGED <<conf, changes>>

\* statistic -> name, made of the cached map if there is one.
Inverse(f) == [s \in Image(f) |-> CHOOSE n \in DOMAIN f : f[n] = s]
GetReverseStatLookup(ok) ==
  IF caches.rev # NotCached THEN caches.rev[1] ELSE Inverse(CachedFwd(ok))

\* A reverse lookup, which asks the database if nothing is cached, fills both
\* caches.
ReverseLookup(ok) ==
  /\ caches.rev # NotCached \/ caches.fwd # NotCached => ok
  /\ Query(ok)
  /\ caches' = IF caches.rev # NotCached THEN caches
               ELSE [fwd |-> <<CachedFwd(ok)>>, rev |-> <<GetReverseStatLookup(ok)>>]

\* getEntry: whether there is a row of DEBUG_COUNTER; none if the query fails.
HasEntry(name, ok) == ok /\ name \in DOMAIN conf.row

\* gatherCounters takes the next configured counter to check.
NextCounter(r) ==
  /\ At(r, "filter") /\ drop[r].left # {}
  /\ \E c \in drop[r].left :
       Goto(r, [drop[r] EXCEPT !.left = @ \ {c}, !.ctr = c,
                               !.pc = IF drop[r].filter.group # "" THEN "nameG" ELSE "nameT"])
  /\ UNCHANGED <<conf, caches, changes, fails>>

\* getCounterName, for inGroup and again for isType.
getCounterName(r) ==
  /\ drop[r].pc \in {"nameG", "nameT"}
  /\ \E ok \in BOOLEAN :
       LET rev == GetReverseStatLookup(ok)
           name == IF drop[r].ctr \in DOMAIN rev THEN rev[drop[r].ctr] ELSE ""
       IN /\ ReverseLookup(ok)
          /\ Hushed(r, [drop[r] EXCEPT !.name = name,
                                       !.pc = IF @ = "nameG" THEN "group" ELSE "type"], ok)
  /\ UNCHANGED <<conf, changes>>

inGroup(r) ==
  /\ At(r, "group")
  /\ \E ok \in BOOLEAN :
       LET d == [drop[r] EXCEPT !.name = ""]
           in == HasEntry(drop[r].name, ok) /\ conf.row[drop[r].name].group = d.filter.group
       IN /\ Query(ok)
          /\ Hushed(r, IF ~in THEN [d EXCEPT !.ctr = "", !.pc = "filter"]
                       ELSE IF d.filter.type # "" THEN [d EXCEPT !.pc = "nameT"]
                       ELSE [d EXCEPT !.kept = @ \cup {d.ctr}, !.ctr = "", !.pc = "filter"], ok)
  /\ UNCHANGED <<conf, caches, changes>>

isType(r) ==
  /\ At(r, "type")
  /\ \E ok \in BOOLEAN :
       LET d == [drop[r] EXCEPT !.name = "", !.ctr = "", !.pc = "filter"]
           in == HasEntry(drop[r].name, ok) /\ conf.row[drop[r].name].type = d.filter.type
       IN Query(ok) /\ Hushed(r, IF in THEN [d EXCEPT !.kept = @ \cup {drop[r].ctr}] ELSE d, ok)
  /\ UNCHANGED <<conf, caches, changes>>

\* No counter is left: nothing to show, or the titles are looked up.  A
\* statistic without a name is its own title.
gatherHeadersMap(r) ==
  /\ At(r, "filter") /\ drop[r].left = {}
  /\ IF drop[r].kept = {}
     THEN Goto(r, [drop[r] EXCEPT !.pc = "done"]) /\ UNCHANGED <<caches, fails>>
     ELSE \E ok \in BOOLEAN :
            LET k == drop[r].kept
                rev == GetReverseStatLookup(ok)
                named == (k \cap DOMAIN rev) \ Std
            IN /\ ReverseLookup(ok)
               /\ Hushed(r, [drop[r] EXCEPT
                               !.pc = "titles", !.left = named,
                               !.names = [c \in named |-> rev[c]],
                               !.titles = [c \in k \ named |-> IF c \in Std THEN StdTitle(c) ELSE c]],
                         ok)
  /\ UNCHANGED <<conf, changes>>

\* The title of a named counter: the alias (the name, in a row without one),
\* or the name if there is no row.
getAlias(r) ==
  /\ At(r, "titles") /\ drop[r].left # {}
  /\ \E c \in drop[r].left, ok \in BOOLEAN :
       LET d == drop[r]
           name == d.names[c]
           title == IF HasEntry(name, ok) THEN conf.row[name].alias ELSE name
       IN /\ Query(ok)
          /\ Hushed(r, [d EXCEPT !.left = @ \ {c},
                          !.titles = [x \in DOMAIN @ \cup {c} |-> IF x = c THEN title ELSE @[x]]], ok)
  /\ UNCHANGED <<conf, caches, changes>>

\* PORT_TABLE, without which there is no answer and no error; then the names
\* of the ports, without which there are no rows.  Statistics with the same
\* title share a column.
showPortDropCounts(r) ==
  /\ At(r, "titles") /\ drop[r].left = {}
  /\ LET d == [drop[r] EXCEPT !.pc = "done", !.names = EmptyMap, !.titles = EmptyMap, !.kept = {}]
         t == drop[r].titles
     IN \/ /\ Query(TRUE)
           /\ \E row \in {f \in [Image(t) -> DOMAIN t] : \A a \in Image(t) : t[f[a]] = a} :
                Hushed(r, [d EXCEPT !.answer = row], TRUE)
        \/ Query(FALSE) /\ \E nil \in BOOLEAN : Hushed(r, [d EXCEPT !.nil = nil], FALSE)
  /\ UNCHANGED <<conf, caches, changes>>

DpsStep(r) ==
  \/ GetStatLookup(r) \/ NextCounter(r) \/ getCounterName(r) \/ inGroup(r) \/ isType(r)
  \/ gatherHeadersMap(r) \/ getAlias(r) \/ showPortDropCounts(r)

DpsNext ==
  \/ Reconfigure
  \/ \E r \in DropRpcs : DpsStep(r) \/ \E f \in DropFilters[r] : Begin(r, f)

DpsSpec == DpsInit /\ [][DpsNext]_dpsVars /\ \A r \in DropRpcs : WF_dpsVars(DpsStep(r))
-----------------------------------------------------------------------------
\* The caches hold maps, and only counters that were listed are kept.
DpsTypeOK ==
  /\ conf \in CounterConfigs /\ changes \in 0..MaxReconfigs /\ fails \in 0..MaxFails
  /\ caches.rev # NotCached => caches.fwd # NotCached
  /\ \A r \in DropRpcs : drop[r].ctr # "" => drop[r].pc \in {"nameG", "nameT", "group", "type"}

\* The two caches, which different RPCs fill and clear at any time, always
\* belong together: one is the inverse of the other (statCacheMu).
CachesAgree ==
  caches.fwd # NotCached /\ caches.rev # NotCached => caches.rev[1] = Inverse(caches.fwd[1])

\* "Always refresh <name, stat> maps so config changes are picked up": what
\* an RPC shows was configured at some time since the RPC began, also if
\* another RPC has filled the caches (getDropCounters).
FreshColumns ==
  \A r \in DropRpcs : \A a \in DOMAIN drop[r].answer :
    LET s == drop[r].answer[a]
    IN \/ s \in Std
       \/ /\ \E k \in drop[r].since : s \in Image(k.stat)
          /\ \/ a = s
             \/ \E k, l \in drop[r].since : \E n \in DOMAIN k.stat :
                  k.stat[n] = s /\ (a = n \/ (n \in DOMAIN l.row /\ a = l.row[n].alias))

\* Reference: the titles for a configuration.
Selected(f) ==
  {n \in DOMAIN conf.stat :
     Checks(f) = {} \/ (/\ n \in DOMAIN conf.row
                        /\ (f.group # "" => conf.row[n].group = f.group)
                        /\ (f.type # "" => conf.row[n].type = f.type))}
Columns(f) ==
  {IF n \in DOMAIN conf.row THEN conf.row[n].alias ELSE n : n \in Selected(f)}
    \cup {StdTitle(c) : c \in {d \in Std : f.group = "" /\ f.type \in {"", StdType(d), "ingress"}
                                       /\ (f.type = "ingress" => d = "IN_ERRORS")}}

\* If nothing was reconfigured and no query failed since an RPC began, it
\* shows all the counters of the group and type asked for, under their
\* aliases, whatever other RPCs do to the caches (showPortDropCounts).
ShowsSelected ==
  \A r \in DropRpcs :
    Busy(r) /\ drop'[r].pc = "done" /\ drop'[r].quiet =>
      DOMAIN drop'[r].answer = Columns(drop'[r].filter)
FilteredExact == [][ShowsSelected]_dpsVars

\* Every RPC is answered: no cache or lock holds it up.
DpsOver(r) == ~Busy(r)
DpsEnds == \A r \in DropRpcs : []<>DpsOver(r)
====
