------------------------------- MODULE DbRead -------------------------------
(***************************************************************************)
(* How MixedDbClient addresses, stores and reads rows: which database      *)
(* instance the paths of a request name (ParseDatabase), what a JSON       *)
(* object becomes in redis (ConvertDbEntry) and what a Get of a table, a   *)
(* row, a field or a list element reads back (getDbtablePath,              *)
(* tableData2TypedValue, makeJSON_redis)                                   *)
(* (sonic_data_client/mixed_db_client.go).                                 *)
(*                                                                         *)
(* A string is the non-empty sequence of its comma-separated parts, so the *)
(* empty string is the one empty part.  A JSON member is [j |-> "str", s], *)
(* [j |-> "list", l] with l a sequence of strings, or [j |-> "num"].  A    *)
(* stored field is <<name, mark>>: the mark tells "name@" from "name".     *)
(***************************************************************************)
EXTENDS Naturals, Integers, Sequences, FiniteSets, SequencesExt, Functions

CONSTANTS Configs,   \* sets of database instances <<namespace, container>>
          Requests,  \* sequences of paths, a path being a sequence of elements
          Members,   \* the JSON members a client may set
          Fields,    \* the field names
          RowKeys,   \* the keys of the table
          Indexes,   \* the list indexes a client may ask for
          MaxSets    \* bound: how many Sets are made

Host == "localhost"
Empty == <<"">>

--------------------------------------------------------------------------
(* Addressing *)

\* NewMixedDbClient counts the instances with a name.
NamespaceCnt(cfg) == 1 + Cardinality({x \in cfg : x[1] # ""})
ContainerCnt(cfg) == 1 + Cardinality({x \in cfg : x[2] # ""})

Known(cfg, ns, ct) == <<ns, ct>> \in cfg

Unhost(x) == IF x = Host THEN "" ELSE x

\* The instance the second element of a path selects.
Instance(cfg, e) ==
    IF NamespaceCnt(cfg) > 1 /\ ContainerCnt(cfg) > 1
    THEN IF e = Host THEN <<"", "">>
         ELSE IF Known(cfg, e, "") THEN <<e, "">>
         ELSE IF Known(cfg, "", e) THEN <<"", e>> ELSE <<>>
    ELSE IF NamespaceCnt(cfg) > 1 THEN <<Unhost(e), "">>
    ELSE IF ContainerCnt(cfg) > 1 THEN <<"", Unhost(e)>>
    ELSE <<"", "">>

\* Paths without elements are passed over; the others must agree.
Conflict(p, q) == p[1] # q[1] \/ p[2] # q[2]

\* IsTargetDbByDBKey
IsTargetDbByDBKey(cfg, x) == Known(cfg, x[1], x[2])

Invalid == <<>>

\* An element strconv.Atoi refuses.
NaN == -9

ParseDatabase(cfg, paths) ==
    LET named == SelectSeq(paths, LAMBDA p : p # <<>>)
    IN IF named = <<>> \/ \E i \in 1..Len(named) : Len(named[i]) < 2 THEN Invalid
       ELSE IF \E i \in 2..Len(named) : Conflict(named[1], named[i]) THEN Invalid
       ELSE LET x == Instance(cfg, named[1][2])
            IN IF x # <<>> /\ IsTargetDbByDBKey(cfg, x) THEN <<named[1][1], x>> ELSE Invalid

--------------------------------------------------------------------------
(* Storing *)

Split(s) == [i \in 1..Len(s) |-> <<s[i]>>]
Join(l) == IF l = <<>> THEN Empty ELSE FlattenSeq(l)

\* Anything that is neither a string nor a list is dropped.
ConvertDbEntry(obj) ==
    LET f(m) == {<<<<n, m>>, IF m THEN Join(obj[n].l) ELSE obj[n].s>> :
                    n \in {x \in DOMAIN obj : obj[x].j = IF m THEN "list" ELSE "str"}}
        pairs == f(TRUE) \cup f(FALSE)
    IN [k \in {p[1] : p \in pairs} |-> (CHOOSE p \in pairs : p[1] = k)[2]]

NoRow == [x \in {} |-> Empty]

--------------------------------------------------------------------------
(* Reading *)

Member(row, k) == IF k[2] THEN [j |-> "list", l |-> Split(row[k])] ELSE [j |-> "str", s |-> row[k]]

\* Go's map order decides which of "f" and "f@" is read last and stays.
makeJSON_redis(row) ==
    LET names == {k[1] : k \in DOMAIN row}
    IN {[n \in names |-> Member(row, pick[n])] :
            pick \in {p \in [names -> DOMAIN row] : \A n \in names : p[n][1] = n}}

Error == [j |-> "error"]

\* The third to the last elements of a path: table, key, field, list index.
\* A fourth element that is not a number, or a fifth, is an error.
getDbtablePath(p) ==
    LET at(i) == IF i <= Len(p) THEN p[i] ELSE ""
    IN IF Len(p) > 4 \/ (Len(p) = 4 /\ p[4] = NaN) THEN Invalid
       ELSE [key |-> at(2), field |-> at(3), index |-> IF Len(p) = 4 THEN p[4] ELSE -1]

\* A table reads as its rows by key; a row that is not there reads as an
\* empty object when it is asked for by its key.
tableData2Msi(rows, key) ==
    IF key # "" THEN makeJSON_redis(rows[key])
    ELSE LET ks == {k \in DOMAIN rows : rows[k] # NoRow}
         IN {m \in [ks -> UNION {makeJSON_redis(rows[k]) : k \in ks}] :
                \A k \in ks : m[k] \in makeJSON_redis(rows[k])}

ReadIndex(row, f, i) ==
    IF <<f, TRUE>> \notin DOMAIN row THEN Error
    ELSE LET l == Split(row[<<f, TRUE>>])
         IN IF i >= Len(l) THEN Error ELSE [j |-> "str", s |-> l[i + 1]]

ReadField(row, f) ==
    IF <<f, FALSE>> \in DOMAIN row THEN Member(row, <<f, FALSE>>)
    ELSE IF <<f, TRUE>> \in DOMAIN row THEN Member(row, <<f, TRUE>>) ELSE Error

\* A negative index is taken for no index.
tableData2TypedValue(rows, tp) ==
    IF tp.field = "" THEN tableData2Msi(rows, tp.key)
    ELSE {IF tp.index >= 0 THEN ReadIndex(rows[tp.key], tp.field, tp.index)
                           ELSE ReadField(rows[tp.key], tp.field)}

--------------------------------------------------------------------------
VARIABLES cfg, addr,   \* an addressing question and its answer
          store,       \* the rows in redis
          object,      \* the objects the client has built by its Sets
          typed,       \* the fields that never changed between string and list
          sets,
          answer       \* the last Get: its path and the value

drVars == <<cfg, addr, store, object, typed, sets, answer>>

NoAnswer == [p |-> <<>>, v |-> Error]

DrInit ==
    /\ cfg \in Configs /\ addr = Invalid
    /\ store = [k \in RowKeys |-> NoRow]
    /\ object = [k \in RowKeys |-> [x \in {} |-> Error]]
    /\ typed = [k \in RowKeys |-> Fields]
    /\ sets = 0 /\ answer = NoAnswer

Parse ==
    /\ sets = 0
    /\ \E paths \in Requests : addr' = <<paths, ParseDatabase(cfg, paths)>>
    /\ UNCHANGED <<cfg, store, object, typed, sets, answer>>

Merge(old, new) == new @@ old

\* DbSetTable writes the fields it is given and leaves the others.
SetRow(k, obj) ==
    /\ addr = Invalid /\ sets < MaxSets /\ sets' = sets + 1
    /\ store' = [store EXCEPT ![k] = Merge(@, ConvertDbEntry(obj))]
    /\ object' = [object EXCEPT ![k] = Merge(@, obj)]
    /\ typed' = [typed EXCEPT ![k] = @ \ {f \in DOMAIN obj \cap DOMAIN object[k] :
                                              obj[f].j # object[k][f].j}]
    /\ answer' = NoAnswer
    /\ UNCHANGED <<cfg, addr>>

DelRow(k) ==
    /\ addr = Invalid /\ sets < MaxSets /\ sets' = sets + 1
    /\ store' = [store EXCEPT ![k] = NoRow]
    /\ object' = [object EXCEPT ![k] = [x \in {} |-> Error]]
    /\ typed' = [typed EXCEPT ![k] = Fields]
    /\ answer' = NoAnswer
    /\ UNCHANGED <<cfg, addr>>

\* The first element of a path is the table.
ReadPaths ==
    LET row == {<<"T", k>> : k \in RowKeys}
        field == {Append(r, x) : r \in row, x \in Fields}
        index == {Append(x, i) : x \in field, i \in Indexes}
    IN {<<"T">>} \cup row \cup field \cup index \cup {Append(x, NaN) : x \in field \cup index}

Get(p) ==
    /\ sets > 0
    /\ LET tp == getDbtablePath(p)
       IN \E v \in IF tp = Invalid THEN {Error} ELSE tableData2TypedValue(store, tp) :
            answer' = [p |-> p, v |-> v]
    /\ UNCHANGED <<cfg, addr, store, object, typed, sets>>

DrNext ==
    \/ Parse
    \/ \E k \in RowKeys, f \in Fields : \E m \in Members : SetRow(k, [x \in {f} |-> m])
    \/ \E k \in RowKeys : DelRow(k)
    \/ \E p \in ReadPaths : Get(p)

DrSpec == DrInit /\ [][DrNext]_drVars

--------------------------------------------------------------------------
\* The rows hold fields of the names set and strings of at least one part.
DrTypeOK ==
    \A k \in RowKeys :
        /\ DOMAIN store[k] \subseteq Fields \X BOOLEAN
        /\ \A x \in DOMAIN store[k] : Len(store[k][x]) > 0
        /\ typed[k] \subseteq Fields

\* What redis can hold exactly: a string, or a list that is not empty and
\* whose items have no comma.
Representable(m) ==
    \/ m.j = "str"
    \/ m.j = "list" /\ m.l # <<>> /\ \A i \in 1..Len(m.l) : Len(m.l[i]) = 1

\* The fields a Get must return as they were set.
Exact(k) == {f \in typed[k] \cap DOMAIN object[k] : Representable(object[k][f])}

\* One row read back: every exact member as it was set, and no member that
\* was not.
RowReads(k, v) ==
    /\ \A f \in Exact(k) : f \in DOMAIN v /\ v[f] = object[k][f]
    /\ DOMAIN v \subseteq DOMAIN object[k]

\* Get of a table, a row, a field or a list element answers with what the
\* Sets since the last delete made of it, for every member redis can hold
\* and whose kind did not change: ConvertDbEntry and the reading side are
\* inverses, whatever the length of the path.
ReadBack ==
    LET p == answer.p  v == answer.v IN
    /\ Len(p) = 1 => \A k \in RowKeys : IF k \in DOMAIN v THEN RowReads(k, v[k]) ELSE Exact(k) = {}
    /\ Len(p) = 2 => RowReads(p[2], v)
    /\ Len(p) > 2 /\ p[3] \in Exact(p[2]) =>
          LET m == object[p[2]][p[3]]
          IN v = IF Len(p) > 4 \/ (Len(p) = 4 /\ p[4] = NaN) THEN Error
                 ELSE IF Len(p) = 3 \/ p[4] < 0 THEN m
                 ELSE IF m.j = "list" /\ p[4] < Len(m.l) THEN [j |-> "str", s |-> m.l[p[4] + 1]]
                 ELSE Error

NameOf(x) == IF x[1] # "" THEN x[1] ELSE IF x[2] # "" THEN x[2] ELSE Host

\* A request is accepted exactly when all its paths name one database and
\* one instance of the configuration, and it is routed to that instance; a
\* configuration with one instance takes any name for it.
RoutedToNamed ==
    addr # Invalid =>
        LET named == {p \in ToSet(addr[1]) : p # <<>>}
            agree == named # {} /\ \A p \in named : Len(p) >= 2 /\ \A q \in named :
                        Len(q) >= 2 /\ p[1] = q[1] /\ p[2] = q[2]
        IN /\ addr[2] # Invalid => /\ agree /\ addr[2][2] \in cfg
                                   /\ \A p \in named : p[1] = addr[2][1]
                                   /\ Cardinality(cfg) = 1 \/ \A p \in named : p[2] = NameOf(addr[2][2])
           /\ agree /\ (\A p \in named : \E x \in cfg : NameOf(x) = p[2]) => addr[2] # Invalid
=============================================================================
