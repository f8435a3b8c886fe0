----------------------------- MODULE BypassSet -----------------------------
(***************************************************************************)
(* The fast path of a Set of CONFIG_DB (pkg/bypass/bypass.go): when the    *)
(* request asks for it, the device's SKU and all the tables it names are   *)
(* on the lists, its deletes and updates go to redis one after the other,  *)
(* without the host service.                                               *)
(*                                                                         *)
(* A name is the sequence of its characters, of which only those the JSON  *)
(* pointer escapes concern are apart: <<"VNET">> is a name, <<"a", "~",    *)
(* "1">> an escaped "a/".  A JSON member is [j |-> "str", v], [j |->       *)
(* "list", v] with v a sequence, or [j |-> "num", v].  A stored field is   *)
(* <<name, mark>>, the mark telling "name@" from "name".                   *)
(***************************************************************************)
EXTENDS Naturals, Sequences, FiniteSets, SequencesExt, Functions

CONSTANTS BpRpcs,        \* the Set RPCs
          BpRequests,    \* what they may ask for, as functions on them
          AllowedTables, \* the tables that may be written this way
          ExpFrom,       \* the least number fmt prints with an exponent (10^6)
          SkuChanges     \* bound: changes of the device's hwsku

VARIABLES rows,     \* CONFIG_DB: <<table, key>> -> stored fields -> stored value
          sku,      \* whether hwsku has an allowed prefix
          skuMoves, \* how often it has changed
          bp,       \* each RPC's state
          wrote     \* each RPC's operations on rows, in order

bpVars == <<rows, sku, skuMoves, bp, wrote>>

ConfigDb == <<"CONFIG_DB">>
Localhost == <<"localhost">>

--------------------------------------------------------------------------
(* Names *)

\* strings.ReplaceAll(s, a \o b, with): matches do not overlap.
RECURSIVE Unescape(_, _, _, _)
Unescape(s, a, b, with) ==
    IF Len(s) < 2 THEN s
    ELSE IF s[1] = a /\ s[2] = b
         THEN <<with>> \o Unescape(SubSeq(s, 3, Len(s)), a, b, with)
         ELSE <<s[1]>> \o Unescape(Tail(s), a, b, with)

decodeJsonPointer(s) == Unescape(Unescape(s, "~", "1", "/"), "~", "0", "~")

\* The elements of prefix and path without CONFIG_DB and localhost.
Parts(prefix, path) ==
    SelectSeq(prefix \o path, LAMBDA e : e \notin {ConfigDb, Localhost})

\* The table that is checked ...
extractTable(prefix, path) ==
    LET named == {i \in DOMAIN (prefix \o path) :
                     (prefix \o path)[i] \notin {ConfigDb, Localhost}}
    IN IF named = {} THEN <<>>
       ELSE (prefix \o path)[CHOOSE i \in named : \A k \in named : i <= k]

\* ... and the table, key and field that are written.
parsePath(prefix, path) ==
    LET ps == Parts(prefix, path)
        At(i) == IF Len(ps) >= i THEN ps[i] ELSE <<>>
    IN [table |-> At(1), key |-> decodeJsonPointer(At(2)), field |-> At(3)]

--------------------------------------------------------------------------
(* Values *)

\* fmt's %v of a number is in decimal up to 10^6 only; JSON numbers are floats.
Number(n) == IF n < ExpFrom THEN <<"dec", n>> ELSE <<"exp", n>>
Text(s) == <<"text", s>>
NULL == <<"NULL">>

\* SONiC has a placeholder for rows without fields.
Placeholder(fields) ==
    IF DOMAIN fields = {} THEN [f \in {<<NULL, "">>} |-> Text("NULL")] ELSE fields

StoredName(obj, f) == <<f, IF obj[f].j = "list" THEN "@" ELSE "">>
Stored(m) == IF m.j = "num" THEN Number(m.v) ELSE IF m.j = "list" THEN <<"join", m.v>> ELSE Text(m.v)

convertToRedisFields(obj) ==
    [sf \in {StoredName(obj, f) : f \in DOMAIN obj} |-> Stored(obj[sf[1]])]

\* A scalar: zero is not told from "no value".
Scalar(m) == IF m.j = "str" THEN Text(m.v)
             ELSE IF m.v = 0 THEN Text("") ELSE <<"dec", m.v>>

HSet(db, row, fields) ==
    [x \in DOMAIN db \cup (IF DOMAIN fields = {} THEN {} ELSE {row}) |->
        IF x # row THEN db[x]
        ELSE [f \in DOMAIN fields \cup (IF row \in DOMAIN db THEN DOMAIN db[row] ELSE {}) |->
                 IF f \in DOMAIN fields THEN fields[f] ELSE db[row][f]]]

Del(db, row) == Restrict(db, DOMAIN db \ {row})

\* The rows an update with JSON is about: one, or those of a bulk object.
IsBulk(u) == u.to.key = <<>>
Entries(u) == IF IsBulk(u) THEN {<<u.to.table, k>> : k \in DOMAIN u.obj}
              ELSE {<<u.to.table, u.to.key>>}
FieldsFor(u, row) ==
    Placeholder(convertToRedisFields(IF IsBulk(u) THEN u.obj[row[2]] ELSE u.obj))

--------------------------------------------------------------------------
(* TrySet *)

EmptyDb == [x \in {} |-> [f \in {} |-> Text("")]]

\* What a path means depends on the request only, so it is worked out once:
\* "to" is what parsePath says of a path.
Parsed(q) ==
    LET To(path) == parsePath(q.prefix, path)
    IN [q EXCEPT !.deletes = [n \in DOMAIN @ |-> [path |-> @[n], to |-> To(@[n])]],
                 !.updates = [n \in DOMAIN @ |->
                     [path |-> @[n].path, to |-> To(@[n].path), kind |-> @[n].kind,
                      obj |-> @[n].obj, val |-> @[n].val]]]

BpInit ==
    /\ rows = EmptyDb /\ sku = TRUE /\ skuMoves = 0
    /\ \E q \in BpRequests :
           bp = [r \in BpRpcs |-> [pc |-> "start", req |-> Parsed(q[r]), i |-> 1, left |-> {}]]
    /\ wrote = [r \in BpRpcs |-> <<>>]

At(r, pc) == bp[r].pc = pc
Goto(r, pc) == bp' = [bp EXCEPT ![r].pc = pc, ![r].i = 1, ![r].left = {}]

Allowed(r, path) == extractTable(bp[r].req.prefix, path) \in AllowedTables

checkAllowedTables(r) ==
    \A n \in DOMAIN bp[r].req.updates : Allowed(r, bp[r].req.updates[n].path)

checkAllowedDeletePaths(r) ==
    \A n \in DOMAIN bp[r].req.deletes : Allowed(r, bp[r].req.deletes[n].path)

\* ShouldBypass; reading hwsku may fail.
ShouldBypass(r) ==
    /\ At(r, "start")
    /\ IF bp[r].req.updates = <<>> /\ bp[r].req.deletes = <<>> THEN Goto(r, "notUsed")
       ELSE IF bp[r].req.updates = <<>> THEN Goto(r, "checkDeletes")
       ELSE \/ /\ bp[r].req.header /\ sku /\ checkAllowedTables(r)
               /\ Goto(r, "checkDeletes")
            \/ Goto(r, "notUsed")
    /\ UNCHANGED <<rows, sku, skuMoves, wrote>>

\* Deletes come first; hwsku is read again for them.
ShouldBypassDelete(r) ==
    /\ At(r, "checkDeletes")
    /\ IF bp[r].req.deletes = <<>> THEN Goto(r, "apply")
       ELSE \/ /\ bp[r].req.header /\ sku /\ checkAllowedDeletePaths(r)
               /\ Goto(r, "delete")
            \/ Goto(r, "notUsed")
    /\ UNCHANGED <<rows, sku, skuMoves, wrote>>

\* Any error ends the RPC; what has been written stays.
Fail(r) == Goto(r, "failed")

Op(r, kind, n, row) == [op |-> kind, n |-> n, row |-> row]

Delete(r) ==
    /\ At(r, "delete")
    /\ LET n == bp[r].i
           p == bp[r].req.deletes[n].to
       IN IF n > Len(bp[r].req.deletes)
          THEN Goto(r, "apply") /\ UNCHANGED <<rows, wrote>>
          ELSE \/ /\ p.table # <<>> /\ p.key # <<>>
                  /\ rows' = Del(rows, <<p.table, p.key>>)
                  /\ bp' = [bp EXCEPT ![r].i = n + 1]
                  /\ wrote' = [wrote EXCEPT ![r] = Append(@, Op(r, "delete", n, <<p.table, p.key>>))]
               \/ Fail(r) /\ UNCHANGED <<rows, wrote>>
    /\ UNCHANGED <<sku, skuMoves>>

Write(r, n, row, fields) ==
    /\ rows' = HSet(rows, row, fields)
    /\ wrote' = [wrote EXCEPT ![r] = Append(@, Op(r, "update", n, row))]

\* The rest of an update: one HSet for each row that is left, in any order.
ApplyRow(r, u) ==
    \/ /\ \E row \in bp[r].left :
              /\ Write(r, bp[r].i, row, FieldsFor(u, row))
              /\ bp' = [bp EXCEPT ![r].left = @ \ {row}, ![r].i = IF bp[r].left = {row} THEN @ + 1 ELSE @]
    \/ Fail(r) /\ UNCHANGED <<rows, wrote>>

\* A value without JSON for a row without a field is passed over.
ApplyUpdate(r, u) ==
    LET p == u.to
    IN \/ /\ u.kind = "json" /\ Entries(u) # {}
          /\ bp' = [bp EXCEPT ![r].left = Entries(u)]
          /\ UNCHANGED <<rows, wrote>>
       \/ /\ u.kind = "scalar" /\ ~IsBulk(u) /\ p.field # <<>>
          /\ \/ /\ Write(r, bp[r].i, <<p.table, p.key>>, [f \in {<<p.field, "">>} |-> Scalar(u.val)])
                /\ bp' = [bp EXCEPT ![r].i = @ + 1]
             \/ Fail(r) /\ UNCHANGED <<rows, wrote>>
       \/ /\ \/ u.kind = "json" /\ Entries(u) = {}
             \/ u.kind = "scalar" /\ ~IsBulk(u) /\ p.field = <<>>
          /\ bp' = [bp EXCEPT ![r].i = @ + 1]
          /\ UNCHANGED <<rows, wrote>>
       \/ /\ (u.kind = "bad") \/ (u.kind = "scalar" /\ IsBulk(u))
          /\ Fail(r) /\ UNCHANGED <<rows, wrote>>

Apply(r) ==
    /\ At(r, "apply")
    /\ IF bp[r].i > Len(bp[r].req.updates)
       THEN Goto(r, "ok") /\ UNCHANGED <<rows, wrote>>
       ELSE IF bp[r].left # {} THEN ApplyRow(r, bp[r].req.updates[bp[r].i])
       ELSE ApplyUpdate(r, bp[r].req.updates[bp[r].i])
    /\ UNCHANGED <<sku, skuMoves>>

TrySet(r) == ShouldBypass(r) \/ ShouldBypassDelete(r) \/ Delete(r) \/ Apply(r)

\* Somebody else sets DEVICE_METADATA.
SkuChanged ==
    /\ skuMoves < SkuChanges
    /\ sku' = ~sku /\ skuMoves' = skuMoves + 1
    /\ UNCHANGED <<rows, bp, wrote>>

BpNext == (\E r \in BpRpcs : TrySet(r)) \/ SkuChanged
BpSpec == BpInit /\ [][BpNext]_bpVars /\ \A r \in BpRpcs : WF_bpVars(TrySet(r))

--------------------------------------------------------------------------
(* Properties *)

\* The RPCs are at a place of TrySet and every stored value is one of the
\* forms convertToRedisFields and Apply give it.
BpTypeOK ==
    /\ sku \in BOOLEAN /\ skuMoves \in 0..SkuChanges
    /\ \A r \in BpRpcs :
          /\ bp[r].pc \in {"start", "notUsed", "checkDeletes", "delete", "apply", "ok", "failed"}
          /\ bp[r].left # {} => At(r, "apply") /\ bp[r].i <= Len(bp[r].req.updates)
    /\ \A row \in DOMAIN rows :
          /\ DOMAIN rows[row] # {}
          /\ \A f \in DOMAIN rows[row] :
                (f[2] = "@") <=> (rows[row][f][1] = "join")

\* No row of a table that is not on the list is touched, whatever prefix and
\* path say: the table that is checked is the table that is written.
OnlyAllowed ==
    \A r \in BpRpcs : \A n \in DOMAIN wrote[r] : wrote[r][n].row[1] \in AllowedTables

\* The rows a request names, with the keys as they were before escaping.
Intended(r) == bp[r].req.names

\* The rows that are touched are those the client means: decoding undoes the
\* escaping of their keys.
RowsNamed ==
    \A r \in BpRpcs : \A n \in DOMAIN wrote[r] : wrote[r][n].row[2] \in Intended(r)

Done(r, kind, n) == {wrote[r][k].row : k \in {k \in DOMAIN wrote[r] : wrote[r][k].op = kind /\ wrote[r][k].n = n}}

\* What an RPC that fails leaves behind is a prefix of the request: no update
\* before all the deletes, none after an update that is not complete.
PartialIsPrefix ==
    \A r \in BpRpcs : \A k \in DOMAIN wrote[r] :
        LET q == bp[r].req IN
        /\ wrote[r][k].op = "update" =>
              /\ \A d \in DOMAIN q.deletes : Done(r, "delete", d) # {}
              /\ \A n \in 1..(wrote[r][k].n - 1) :
                    q.updates[n].kind = "json" => Done(r, "update", n) = Entries(q.updates[n])
        /\ wrote[r][k].op = "delete" =>
              \A n \in 1..(wrote[r][k].n - 1) : Done(r, "delete", n) # {}

Untouched(r, row) ==
    \A s \in BpRpcs \ {r} : \A k \in DOMAIN wrote[s] : wrote[s][k].row # row
IsLast(r, n, row) == \A m \in DOMAIN bp[r].req.updates : m > n => row \notin Done(r, "update", m)

\* An RPC that succeeds has stored every JSON object it carries, as long as
\* no later update of it and no other RPC touches the row: each member is
\* read back under the name of its kind, and an object without members is a
\* row nevertheless.
OkMeansStored ==
    \A r \in BpRpcs : At(r, "ok") =>
        \A n \in DOMAIN bp[r].req.updates :
            LET u == bp[r].req.updates[n] IN
            u.kind = "json" => \A row \in Entries(u) :
                Untouched(r, row) /\ IsLast(r, n, row) =>
                    /\ row \in DOMAIN rows
                    /\ LET obj == IF IsBulk(u) THEN u.obj[row[2]] ELSE u.obj
                       IN \A f \in DOMAIN obj :
                             /\ StoredName(obj, f) \in DOMAIN rows[row]
                             /\ rows[row][StoredName(obj, f)] = Stored(obj[f])

\* Every RPC ends, or goes on to the normal path.
BpOver(r) == bp[r].pc \in {"ok", "failed", "notUsed"}
BpEnds == \A r \in BpRpcs : []<>BpOver(r)
=============================================================================
