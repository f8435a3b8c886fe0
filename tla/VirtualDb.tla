------------------------------ MODULE VirtualDb ------------------------------
(***************************************************************************)
(* Virtual paths: sonic_data_client/virtual_db.go, trie.go, and            *)
(* populateDbtablePath of db_client.go.  A request for COUNTERS_DB first   *)
(* loads nine name maps from redis, each once for the life of the process  *)
(* (sync.Once), then walks the trie of virtual paths element by element,   *)
(* and the function it finds turns port names into the object ids of real  *)
(* table keys.  A path that resolves to none is looked up as a real path.  *)
(*                                                                         *)
(* An object id is <<name, generation>>: swss writes the name maps anew,   *)
(* with new ids, when it restarts.  ClearMappings does nothing outside unit*)
(* tests and is left out.                                                  *)
(***************************************************************************)
EXTENDS Naturals, Sequences, FiniteSets

CONSTANTS Lookups,  \* requests
          Ports,    \* SONiC interface names
          Alias,    \* interface name -> vendor name
          Paths,    \* the paths each may request
          MaxChanges \* of the environment

VARIABLES rdb,    \* redis: gen of the counter maps (0: not yet written), cfg
                  \* (ports in CONFIG_DB), keys (real keys), up, n (changes)
          maps,   \* the name maps of the process
          once,   \* their sync.Once
          good,   \* maps whose load succeeded after swss and the ports were there
          lk      \* the requests

vdVars == <<rdb, maps, once, good, lk>>

\* The order in which populateDbtablePath calls the init functions; an error of
\* one of the first four ends the request, the others only log.
InitOrder == <<"port", "queue", "pg", "alias", "pfcwd", "fabric", "switch", "sid", "acl">>
Fatal == {"port", "queue", "pg", "alias"}
AllMaps == {InitOrder[i] : i \in 1..9}

\* pathTransFuncTbl.
pathTransFuncTbl ==
  { <<<<"COUNTERS", "Ethernet*">>, "v2rEthPortStats">>,
    <<<<"COUNTERS", "Ethernet*", "*">>, "v2rEthPortFieldStats">>,
    <<<<"COUNTERS", "Ethernet*", "Queues">>, "v2rEthPortQueStats">>,
    <<<<"COUNTERS", "Ethernet*", "Pfcwd">>, "v2rEthPortPfcwdStats">>,
    <<<<"COUNTERS", "PORT*">>, "v2rFabricPortStats">>,
    <<<<"PERIODIC_WATERMARKS", "Ethernet*", "PriorityGroups">>, "v2rEthPortPGPeriodicWMs">>,
    <<<<"USER_WATERMARKS", "Ethernet*", "Queues">>, "v2rEthPortQueueWMs">>,
    <<<<"PERSISTENT_WATERMARKS", "Ethernet*", "Queues">>, "v2rEthPortQueueWMs">>,
    <<<<"RATES", "Ethernet*">>, "v2rEthPortStats">>,
    <<<<"RATES", "Ethernet*", "*">>, "v2rEthPortFieldStats">>,
    <<<<"COUNTERS", "SWITCH*">>, "v2rSwitchPacketIntegrityDrop">>,
    <<<<"COUNTERS", "SID*">>, "v2rSRv6SidStats">>,
    <<<<"COUNTERS", "ACL_RULE*">>, "v2rAclRuleStats">>,
    <<<<"PORT_PHY_ATTR", "Ethernet*">>, "v2rPortPhyAttrStats">>,
    <<<<"PORT_PHY_ATTR", "Ethernet*", "*">>, "v2rPortPhyAttrFieldStats">> }

EthNames == Ports \cup {Alias[p] : p \in Ports} \cup {"Ethernet*"}
\* What a wildcard of the table is a prefix of.
HasPrefix(e, w) ==
  \/ w = "*"
  \/ w = "Ethernet*" /\ e \in EthNames
  \/ w = "PORT*" /\ e \in {"PORT0", "PORT*"}
  \/ w = "SWITCH*" /\ e \in {"SWITCH_ID", "SWITCH*"}
  \/ w = "SID*" /\ e \in {"SID:1", "SID*"}
  \/ w = "ACL_RULE*" /\ e \in {"ACL_RULE:A", "ACL_RULE*"}
Wildcards == {"*", "Ethernet*", "PORT*", "SWITCH*", "SID*", "ACL_RULE*"}

\* A node of the trie is the path that leads to it.
children(n) == {t[1][Len(n) + 1] : t \in {u \in pathTransFuncTbl :
                  Len(u[1]) > Len(n) /\ SubSeq(u[1], 1, Len(n)) = n}}

\* findNode: the child of that name, or else any wildcard that is a prefix.
findNode(n, e) ==
  IF e \in children(n) THEN {Append(n, e)}
  ELSE {Append(n, w) : w \in {x \in children(n) \cap Wildcards : HasPrefix(e, x)}}

---------------------------------------------------------------------------
Fresh == [pc |-> "idle", path |-> <<>>, i |-> 1, node |-> <<>>, res |-> {}]

VdInit ==
  /\ \E g \in 0..1, c \in {{}, Ports} :
       rdb = [gen |-> g, cfg |-> c, keys |-> {<<"COUNTERS", "k">>}, up |-> TRUE, n |-> 0]
  /\ maps = [m \in AllMaps |-> [gen |-> 0, ports |-> {}]]
  /\ once = [m \in AllMaps |-> "new"]
  /\ good = {} /\ lk = [l \in Lookups |-> Fresh]

\* The environment.
SwssWrites ==
  /\ rdb.n < MaxChanges /\ rdb' = [rdb EXCEPT !.gen = @ + 1, !.n = @ + 1] /\ UNCHANGED <<maps, once, good, lk>>
PortsAdded ==
  /\ rdb.cfg # Ports /\ rdb.n < MaxChanges /\ rdb' = [rdb EXCEPT !.cfg = Ports, !.n = @ + 1] /\ UNCHANGED <<maps, once, good, lk>>
Outage ==
  /\ rdb.up /\ rdb.n < MaxChanges /\ rdb' = [rdb EXCEPT !.up = FALSE, !.n = @ + 1]
  /\ UNCHANGED <<maps, once, good, lk>>
Recovers == ~rdb.up /\ rdb' = [rdb EXCEPT !.up = TRUE] /\ UNCHANGED <<maps, once, good, lk>>

Start(l) ==
  /\ lk[l].pc = "idle"
  /\ \E p \in Paths[l] : lk' = [lk EXCEPT ![l].pc = "init", ![l].path = p]
  /\ UNCHANGED <<rdb, maps, once, good>>

---------------------------------------------------------------------------
(* The init functions.                                                     *)

NilMap == [gen |-> 0, ports |-> {}]

\* The name map as swss has written it, empty before.
GetCountersMap ==
  IF rdb.up THEN [gen |-> rdb.gen, ports |-> IF rdb.gen = 0 THEN {} ELSE Ports] ELSE NilMap
\* These two add the namespace to each name; there is one namespace here.
GetFabricCountersMap == GetCountersMap
getSwitchStatMap == GetCountersMap
GetAliasMap == IF rdb.up THEN [gen |-> 0, ports |-> rdb.cfg] ELSE NilMap

\* The queues of the ports that have a watchdog, from the queue map of the
\* process: without one there are none.
GetPfcwdMap ==
  IF rdb.up /\ maps["queue"].gen > 0 THEN [gen |-> maps["queue"].gen, ports |-> rdb.cfg] ELSE NilMap

Failing(l, m) == IF m \in Fatal THEN [lk EXCEPT ![l].pc = "error"] ELSE [lk EXCEPT ![l].i = @ + 1]
Passing(l) == [lk EXCEPT ![l].i = @ + 1]
Cur(l) == InitOrder[lk[l].i]
At(l, m) == lk[l].pc = "init" /\ lk[l].i <= 9 /\ Cur(l) = m

\* sync.Once: the first caller runs the load, the others wait for it to end.
OnceEnter(l, m) ==
  once[m] = "new" /\ once' = [once EXCEPT ![m] = l] /\ UNCHANGED <<rdb, maps, good, lk>>

\* A failed load is done all the same, and only its caller sees the error.
OnceLoad(l, m, map) ==
  /\ once[m] = l
  /\ maps' = [maps EXCEPT ![m] = map] /\ once' = [once EXCEPT ![m] = "done"]
  /\ good' = IF rdb.up /\ rdb.gen > 0 /\ rdb.cfg = Ports THEN good \cup {m} ELSE good
  /\ lk' = IF rdb.up THEN Passing(l) ELSE Failing(l, m)
  /\ UNCHANGED rdb

MutOnceDone(l, m) ==
  once[m] \notin {"new", l} /\ lk' = Passing(l) /\ UNCHANGED <<rdb, maps, once, good>>

OnceDone(l, m) == once[m] = "done" /\ lk' = Passing(l) /\ UNCHANGED <<rdb, maps, once, good>>

Do(l, m, map) == At(l, m) /\ (OnceEnter(l, m) \/ OnceLoad(l, m, map) \/ OnceDone(l, m))

initCountersPortNameMap(l) == Do(l, "port", GetCountersMap)
initCountersQueueNameMap(l) == Do(l, "queue", GetCountersMap)
initCountersPGNameMap(l) == Do(l, "pg", GetCountersMap)
initAliasMap(l) == Do(l, "alias", GetAliasMap)
initCountersPfcwdNameMap(l) == Do(l, "pfcwd", GetPfcwdMap)
initCountersFabricPortNameMap(l) == Do(l, "fabric", GetFabricCountersMap)
initCountersSidMap(l) == Do(l, "sid", GetCountersMap)
initCountersAclRuleMap(l) == Do(l, "acl", GetCountersMap)

\* This one has no Once: it loads while the map is empty.
initDebugNameSwitchStatMap(l) ==
  /\ At(l, "switch")
  /\ maps' = IF maps["switch"].gen = 0 THEN [maps EXCEPT !["switch"] = getSwitchStatMap] ELSE maps
  /\ lk' = Passing(l) /\ UNCHANGED <<rdb, once, good>>

InitDone(l) ==
  /\ lk[l].pc = "init" /\ lk[l].i = 10
  /\ lk' = [lk EXCEPT ![l].pc = "find", ![l].i = 1] /\ UNCHANGED <<rdb, maps, once, good>>

---------------------------------------------------------------------------
(* The trie.                                                               *)

Find(l) ==
  /\ lk[l].pc = "find" /\ lk[l].i <= Len(lk[l].path)
  /\ LET ns == findNode(lk[l].node, lk[l].path[lk[l].i])
     IN \/ \E n \in ns : lk' = [lk EXCEPT ![l].node = n, ![l].i = @ + 1]
        \/ ns = {} /\ lk' = [lk EXCEPT ![l].pc = "real", ![l].node = <<"none">>]
  /\ UNCHANGED <<rdb, maps, once, good>>

\* The functions a path ends in (a node is a term when a path of the table ends there).
transFunc(n) == {t[2] : t \in {u \in pathTransFuncTbl : u[1] = n}}

---------------------------------------------------------------------------
(* The translations: a set of [key, json, field], or an error.             *)

getSonicPortName(e) ==
  IF \E p \in maps["alias"].ports : Alias[p] = e
  THEN CHOOSE p \in maps["alias"].ports : Alias[p] = e ELSE e
getVendorPortName(p) == IF p \in maps["alias"].ports THEN Alias[p] ELSE p
getPortNamespace(p) == p \in maps["alias"].ports

buildTablePath(p, m, json, f) == [key |-> <<p, maps[m].gen>>, json |-> json, field |-> f]
Err == {[key |-> <<"error">>, json |-> "none", field |-> "none"]}
NameItself(p) == p
IsAll(path) == path[2] \in Wildcards

\* Every port of a map, or an error when one of them has no namespace.
AllOf(m, Json(_), f) ==
  IF \E p \in maps[m].ports : ~getPortNamespace(p) THEN Err
  ELSE {buildTablePath(p, m, Json(p), f) : p \in maps[m].ports}
OneOf(m, p, json, f) ==
  IF p \notin maps[m].ports \/ ~getPortNamespace(p) THEN Err ELSE {buildTablePath(p, m, json, f)}
\* Having no queue is no error.
QueuesOf(m, p, json, f) ==
  IF ~getPortNamespace(p) THEN Err
  ELSE IF p \in maps[m].ports THEN {buildTablePath(p, m, json, f)} ELSE {}
\* A map whose keys are not ports.
OtherOf(m, path) ==
  IF maps[m].gen > 0 THEN {buildTablePath("name", m, "none", "none")}
  ELSE IF IsAll(path) THEN {} ELSE Err

v2rEthPortStats(path) ==
  IF IsAll(path) THEN AllOf("port", getVendorPortName, "none")
  ELSE OneOf("port", getSonicPortName(path[2]), "none", "none")
v2rEthPortFieldStats(path) ==
  IF IsAll(path) THEN AllOf("port", getVendorPortName, path[3])
  ELSE OneOf("port", getSonicPortName(path[2]), "none", path[3])
\* These two translate no alias.
v2rPortPhyAttrStats(path) ==
  IF IsAll(path) THEN AllOf("port", NameItself, "none") ELSE OneOf("port", path[2], "none", "none")
v2rPortPhyAttrFieldStats(path) ==
  IF IsAll(path) THEN AllOf("port", NameItself, path[3]) ELSE OneOf("port", path[2], "none", path[3])
\* Each queue twice: its counters, and a field of its periodic watermarks.
v2rEthPortQueStats(path) ==
  LET Of(f) == IF IsAll(path) THEN AllOf("queue", getVendorPortName, f)
               ELSE QueuesOf("queue", getSonicPortName(path[2]), path[2], f)
  IN Of("none") \cup (IF Of("none") = Err THEN {} ELSE Of("periodic"))
v2rEthPortQueueWMs(path) ==
  LET p == getSonicPortName(path[2])
  IN IF IsAll(path) THEN AllOf("queue", NameItself, "none") ELSE QueuesOf("queue", p, p, "none")
v2rEthPortPGPeriodicWMs(path) ==
  IF IsAll(path) THEN AllOf("pg", getVendorPortName, "none")
  ELSE OneOf("pg", getSonicPortName(path[2]), path[2], "none")
v2rEthPortPfcwdStats(path) ==
  LET p == getSonicPortName(path[2])
  IN IF IsAll(path) THEN AllOf("pfcwd", getVendorPortName, "none")
     ELSE IF p \notin maps["port"].ports THEN Err ELSE QueuesOf("pfcwd", p, path[2], "none")
v2rFabricPortStats(path) == OtherOf("fabric", path)
v2rSwitchPacketIntegrityDrop(path) == OtherOf("switch", path)
v2rSRv6SidStats(path) == OtherOf("sid", path)
v2rAclRuleStats(path) == OtherOf("acl", path)

Translate(fn, path) ==
  CASE fn = "v2rEthPortStats" -> v2rEthPortStats(path)
    [] fn = "v2rEthPortFieldStats" -> v2rEthPortFieldStats(path)
    [] fn = "v2rPortPhyAttrStats" -> v2rPortPhyAttrStats(path)
    [] fn = "v2rPortPhyAttrFieldStats" -> v2rPortPhyAttrFieldStats(path)
    [] fn = "v2rEthPortQueStats" -> v2rEthPortQueStats(path)
    [] fn = "v2rEthPortQueueWMs" -> v2rEthPortQueueWMs(path)
    [] fn = "v2rEthPortPGPeriodicWMs" -> v2rEthPortPGPeriodicWMs(path)
    [] fn = "v2rEthPortPfcwdStats" -> v2rEthPortPfcwdStats(path)
    [] fn = "v2rFabricPortStats" -> v2rFabricPortStats(path)
    [] fn = "v2rSwitchPacketIntegrityDrop" -> v2rSwitchPacketIntegrityDrop(path)
    [] fn = "v2rSRv6SidStats" -> v2rSRv6SidStats(path)
    [] fn = "v2rAclRuleStats" -> v2rAclRuleStats(path)

lookupV2R(l) ==
  /\ lk[l].pc = "find" /\ lk[l].i > Len(lk[l].path)
  /\ \/ \E fn \in transFunc(lk[l].node) :
          LET r == Translate(fn, lk[l].path)
          IN lk' = IF r = Err THEN [lk EXCEPT ![l].pc = "real"]
                   ELSE [lk EXCEPT ![l].pc = "ok", ![l].res = r]
     \/ transFunc(lk[l].node) = {} /\ lk' = [lk EXCEPT ![l].pc = "real", ![l].node = <<"none">>]
  /\ UNCHANGED <<rdb, maps, once, good>>

\* The rest of populateDbtablePath: the last element is part of the key if that
\* key exists, else a field of the key, or of the table, before it.
RealPath(p) ==
  LET Of(k, f) == {[key |-> k, json |-> "none", field |-> f]}
      front == SubSeq(p, 1, Len(p) - 1)
  IN IF ~rdb.up \/ Len(p) > 4 THEN Err
     ELSE IF Len(p) = 1 \/ (Len(p) < 4 /\ p \in rdb.keys) THEN Of(p, "none")
     ELSE IF Len(p) = 2 \/ front \in rdb.keys THEN Of(front, p[Len(p)])
     ELSE Err

populateDbtablePath(l) ==
  /\ lk[l].pc = "real"
  /\ LET r == RealPath(lk[l].path)
     IN lk' = IF r = Err THEN [lk EXCEPT ![l].pc = "error"]
              ELSE [lk EXCEPT ![l].pc = "ok", ![l].res = r]
  /\ UNCHANGED <<rdb, maps, once, good>>

VdStep(l) ==
  \/ Start(l) \/ initCountersPortNameMap(l) \/ initCountersQueueNameMap(l) \/ initCountersPGNameMap(l)
  \/ initAliasMap(l) \/ initCountersPfcwdNameMap(l) \/ initCountersFabricPortNameMap(l)
  \/ initDebugNameSwitchStatMap(l) \/ initCountersSidMap(l) \/ initCountersAclRuleMap(l)
  \/ InitDone(l) \/ Find(l) \/ lookupV2R(l) \/ populateDbtablePath(l)
VdNext == SwssWrites \/ PortsAdded \/ Outage \/ Recovers \/ \E l \in Lookups : VdStep(l)
VdSpec == VdInit /\ [][VdNext]_vdVars /\ \A l \in Lookups : WF_vdVars(VdStep(l))

---------------------------------------------------------------------------
\* The maps, their guards and the lookups keep their types.
VdTypeOK ==
  /\ \A m \in AllMaps : maps[m].ports \subseteq Ports /\ once[m] \in {"new", "done"} \cup Lookups
  /\ \A l \in Lookups : lk[l].i \in 1..10

Matches(t, p) == Len(t) = Len(p) /\ \A i \in 1..Len(p) :
                   t[i] = p[i] \/ (t[i] \in Wildcards /\ HasPrefix(p[i], t[i]))
Literals(t, p) == Cardinality({i \in 1..Len(p) : t[i] = p[i]})
\* The function the trie finds belongs to a path of the table that matches the
\* request, and no matching path has more literal elements; the trie finds none
\* only if no path matches (findNode never goes back to a wildcard it passed by).
FindsMostSpecific ==
  \A l \in Lookups : LET p == lk[l].path
                         ms == {t[1] : t \in {u \in pathTransFuncTbl : Matches(u[1], p)}}
    IN /\ lk[l].pc = "real" /\ lk[l].node = <<"none">> => ms = {}
       /\ lk[l].pc = "ok" /\ transFunc(lk[l].node) # {} =>
            lk[l].node \in ms /\ \A t \in ms : Literals(t, p) <= Literals(lk[l].node, p)

\* A port means the same object in every answer, whatever happens to redis and
\* however requests interleave: a map is filled once.
AgreeingAnswers ==
  \A l, k \in Lookups : \A r \in lk[l].res, s \in lk[k].res :
    lk[l].node = lk[k].node /\ r.json = s.json /\ r.field = s.field /\ r.key[1] = s.key[1] => r = s

\* The map of PFC watchdog queues is complete when the queue map it is made from
\* is: nobody makes it while another request still loads the queue map.
PfcwdComplete == "pfcwd" \in good /\ maps["queue"].gen > 0 => maps["pfcwd"].ports = Ports

\* A wildcard stands for every port: it yields what the single ports yield, in
\* every function, once the port map is there (without it the watchdog queues
\* of a single port are an error, and those of all ports are not).
WildcardIsUnion ==
  maps["port"].gen > 0 => \A t \in pathTransFuncTbl : t[1][2] = "Ethernet*" =>
    LET w == Translate(t[2], t[1])
        ones == {Translate(t[2], [t[1] EXCEPT ![2] = p]) : p \in Ports}
        Keys(rs) == {<<r.key, r.field>> : r \in rs}
    IN w # Err => Keys(w) = Keys(UNION (ones \ {Err}))

\* A request for a port that swss and CONFIG_DB know is answered when the maps
\* were loaded after both had written it.
ResolvesIfLoaded ==
  AllMaps \ {"switch"} \subseteq good =>
    \A l \in Lookups : lk[l].pc = "real" => lk[l].node = <<"none">>

\* Every request ends: none waits for ever in a sync.Once.
LookupOver(l) == lk[l].pc \in {"idle", "ok", "error"}
LookupEnds == \A l \in Lookups : []<>LookupOver(l)
=============================================================================
