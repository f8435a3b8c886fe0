------------------------------ MODULE DbAccess ------------------------------
(***************************************************************************)
(* How DbClient reaches redis: the database configuration that is read on  *)
(* demand by whoever asks first (sonic_db_config/db_config.go), the table  *)
(* of redis clients the package makes once when the process starts         *)
(* (initRedisDbClients), and a Get: the namespace of the target, the check *)
(* that each row exists, and the reads made after it                       *)
(* (sonic_data_client/db_client.go).                                       *)
(*                                                                         *)
(* The configuration files are "none", "single" or "multi" (the global     *)
(* file).  swss-common's own initialisation is external: it throws when it *)
(* is already done or when it finds no file, and CatchException turns the  *)
(* exception into an error.                                                *)
(***************************************************************************)
EXTENDS Naturals, FiniteSets

CONSTANTS DaRpcs,    \* the Get RPCs
          DaKeys,    \* the rows of the table
          DaAsked,   \* the sets of rows each request may name
          MaxWrites  \* bound: how often a row changes

Asic == "asic0"
Targets == {"", Asic}   \* the suffix of a target: none, or a namespace

VARIABLES files, lib, sonic_db_init,
          clients,  \* Target2RedisDb: the namespaces it has clients for
          row, writes,
          da,       \* the callers: "main", the package's init, and the RPCs
          early     \* a getter asked swss-common before it was initialised

daVars == <<files, lib, sonic_db_init, clients, row, writes, da, early>>
cfgVars == <<files, lib, sonic_db_init>>

Callers == {"main"} \cup DaRpcs

Gone == 0

Quiet == [pc |-> "idle", ask |-> "none", target |-> "", multi |-> FALSE, ns |-> "",
          keys |-> {}, got |-> [k \in {} |-> 0], seen |-> [k \in DaKeys |-> {}]]

DaInit ==
    /\ files \in {"none", "single", "multi"}
    /\ lib = FALSE /\ sonic_db_init = FALSE
    /\ clients = {}
    /\ row = [k \in DaKeys |-> 1] /\ writes = 0
    /\ da = [c \in Callers |-> IF c = "main" THEN [Quiet EXCEPT !.pc = "enter", !.ask = "all"]
                                             ELSE Quiet]
    /\ early = FALSE

At(c, pc) == da[c].pc = pc
To(c, pc) == da' = [da EXCEPT ![c].pc = pc]

--------------------------------------------------------------------------
(* The environment *)

FilesAppear ==
    /\ files = "none" /\ files' \in {"single", "multi"}
    /\ UNCHANGED <<lib, sonic_db_init, clients, row, writes, da, early>>

\* Other programs write rows and delete them; a running Get has seen the
\* values its rows had since it began.
RowChanges ==
    /\ writes < MaxWrites /\ writes' = writes + 1
    /\ \E k \in DaKeys, v \in {Gone, writes + 2} :
        /\ row[k] # v
        /\ row' = [row EXCEPT ![k] = v]
        /\ da' = [c \in Callers |-> [da[c] EXCEPT !.seen[k] = @ \cup {v}]]
    /\ UNCHANGED <<cfgVars, clients, early>>

--------------------------------------------------------------------------
(* db_config.go: every getter initialises the library if nobody has *)

Enter(c) ==
    /\ At(c, "enter")
    /\ To(c, IF sonic_db_init THEN "query" ELSE "stat")
    /\ UNCHANGED <<cfgVars, clients, row, writes, early>>

\* DbInit; IsInit and Initialize are two calls, and no lock covers them.
DbInit(c) ==
    /\ At(c, "stat")
    /\ To(c, IF sonic_db_init THEN "query" ELSE IF lib THEN "flag" ELSE "initialize")
    /\ UNCHANGED <<cfgVars, clients, row, writes, early>>

SonicDBConfigInitialize(c) ==
    /\ At(c, "initialize")
    /\ IF lib \/ files = "none"
       THEN To(c, "failed") /\ UNCHANGED lib
       ELSE To(c, "flag") /\ lib' = TRUE
    /\ UNCHANGED <<files, sonic_db_init, clients, row, writes, early>>

SetFlag(c) ==
    /\ At(c, "flag")
    /\ sonic_db_init' = TRUE /\ To(c, "query")
    /\ UNCHANGED <<files, lib, clients, row, writes, early>>

--------------------------------------------------------------------------
(* The getters' answers *)

CheckDbMultiNamespace == files = "multi"
GetDbAllNamespaces == IF files = "multi" THEN {"", Asic} ELSE {""}
GetDbNonDefaultNamespaces == GetDbAllNamespaces \ {""}

\* The default namespace is valid without a look at the configuration.
GetDbNamespaceFromTarget(t) == t = "" \/ t \in GetDbNonDefaultNamespaces

\* IsTargetDb: the suffix counts only where there are several namespaces.
IsTargetDb(t, multi) == IF multi THEN t ELSE ""

--------------------------------------------------------------------------
(* initRedisDbClients: once, before anything else runs *)

initRedisDbClients ==
    /\ da["main"].pc \in {"query", "failed"}
    /\ clients' = IF At("main", "query") THEN GetDbAllNamespaces ELSE clients
    /\ early' = (early \/ (At("main", "query") /\ ~lib))
    /\ To("main", "serving")
    /\ UNCHANGED <<cfgVars, row, writes>>

\* NewDbClient; CheckDbMultiNamespace comes first.
NewDbClient(r) ==
    /\ At(r, "idle") /\ At("main", "serving")
    /\ \E t \in Targets, ks \in DaAsked[r] :
        da' = [da EXCEPT ![r] = [Quiet EXCEPT !.pc = "enter", !.ask = "multi", !.target = t,
                                 !.keys = ks, !.seen = [k \in DaKeys |-> {row[k]}]]]
    /\ UNCHANGED <<cfgVars, clients, row, writes, early>>

\* IsTargetDb drops the error of CheckDbMultiNamespace.
AskMulti(r) ==
    /\ da[r].pc \in {"query", "failed"} /\ da[r].ask = "multi"
    /\ LET multi == At(r, "query") /\ CheckDbMultiNamespace
       IN da' = [da EXCEPT ![r].multi = multi, ![r].ns = IsTargetDb(da[r].target, multi),
                           ![r].pc = IF IsTargetDb(da[r].target, multi) = "" THEN "query" ELSE "enter",
                           ![r].ask = "ns"]
    /\ early' = (early \/ (At(r, "query") /\ ~lib))
    /\ UNCHANGED <<cfgVars, clients, row, writes>>

\* populateDbtablePath: the namespace and its client.
AskNamespace(r) ==
    /\ da[r].pc \in {"query", "failed"} /\ da[r].ask = "ns"
    /\ LET known == da[r].ns = "" \/ (At(r, "query") /\ GetDbNamespaceFromTarget(da[r].ns))
       IN To(r, IF known /\ da[r].ns \in clients THEN "check" ELSE "error")
    /\ early' = (early \/ (da[r].ns # "" /\ At(r, "query") /\ ~lib))
    /\ UNCHANGED <<cfgVars, clients, row, writes>>

\* Each row must exist when its path is resolved.
Exists(r, k) == row[k] # Gone

CheckRows(r) ==
    /\ At(r, "check")
    /\ To(r, IF \A k \in da[r].keys : Exists(r, k) THEN "read" ELSE "error")
    /\ UNCHANGED <<cfgVars, clients, row, writes, early>>

\* Get reads the rows one by one, in the order of a Go map; a row deleted
\* since the check reads as an empty object.
Fetch(r, k) == row[k]

Left(r) == da[r].keys \ DOMAIN da[r].got

Get(r) ==
    /\ At(r, "read")
    /\ LET left == Left(r) IN
       IF left = {} THEN To(r, "ok")
       ELSE \E k \in left : da' = [da EXCEPT ![r].got =
                [x \in DOMAIN @ \cup {k} |-> IF x = k THEN Fetch(r, k) ELSE @[x]]]
    /\ UNCHANGED <<cfgVars, clients, row, writes, early>>

DaStep(c) ==
    \/ Enter(c) \/ DbInit(c) \/ SonicDBConfigInitialize(c) \/ SetFlag(c)
    \/ c = "main" /\ initRedisDbClients
    \/ c # "main" /\ (AskMulti(c) \/ AskNamespace(c) \/ CheckRows(c) \/ Get(c))

DaNext ==
    \/ FilesAppear \/ RowChanges
    \/ \E r \in DaRpcs : NewDbClient(r)
    \/ \E c \in Callers : DaStep(c)

DaSpec == DaInit /\ [][DaNext]_daVars /\ \A c \in Callers : WF_daVars(DaStep(c))

--------------------------------------------------------------------------
\* A caller has values only of rows it asked for, in a namespace there is.
DaTypeOK ==
    /\ clients \subseteq Targets
    /\ \A c \in Callers : /\ DOMAIN da[c].got \subseteq da[c].keys
                          /\ da[c].ns \in Targets

\* No getter asks swss-common before somebody initialised it, however the
\* callers of DbInit interleave: sonic_db_init is set last.
NoEarlyQuery == ~early

\* A request is answered from the namespace its target names, or from the
\* default one where the device has no other, even when IsTargetDb dropped
\* an error on the way.
RightNamespace ==
    \A r \in DaRpcs : da[r].pc \in {"read", "ok"} =>
        da[r].ns = IF files = "multi" THEN da[r].target ELSE ""

\* Every value of an answer was in its row at some moment of the RPC: the
\* one it had when the existence was checked, or a later one.
ReadsCurrent ==
    \A r \in DaRpcs : \A k \in DOMAIN da[r].got : da[r].got[k] \in da[r].seen[k]

\* Every Get ends.
DaOver(r) == da[r].pc \in {"idle", "ok", "error"}
DaEnds == \A r \in DaRpcs : []<>DaOver(r)
=============================================================================
