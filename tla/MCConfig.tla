------------------------------ MODULE MCConfig ------------------------------
(***************************************************************************)
(* ConfigSet, and beside it the components without calls that must end:    *)
(* certificate rotation, reads of database tables, translib subscriptions  *)
(* and path authorization.  A behaviour is one of one component, which     *)
(* part names; the others stay as they start, and none influences another. *)
(***************************************************************************)
EXTENDS ConfigSet, Integers, Sequences, FiniteSets, TLC

VARIABLE part  \* the component that this behaviour is of

(* Requests of the components. *)
\* ConfigSet: edits that meet each other: a delete that makes another one void,
\* a replacement that an update adds to, a replacement without a value, nothing
\* to do and nothing to replace.
Leaf(k, f) == <<"T", k, f>>
DelEdit(p) == [op |-> "remove", path |-> p, val |-> None]
RepEdit(p, v) == [op |-> "replace", path |-> p, val |-> v]
AddEdit(p, v) == [op |-> "add", path |-> p, val |-> v]
SetOf(k, e, s) == [kind |-> k, eid |-> e, edits |-> s]
SetRequests ==
  { SetOf("incremental", <<1, 0>>,
      <<DelEdit(Leaf("a", "f")), DelEdit(<<"T", "a">>), AddEdit(<<"T", "b">>, Leaf("b", "f") :> 2)>>),
    SetOf("incremental", <<0, 2>>,
      <<RepEdit(<<"T", "a">>, Leaf("a", "g") :> 1), AddEdit(Leaf("a", "f"), Leaf("a", "f") :> 2)>>),
    SetOf("incremental", None, <<RepEdit(<<"T", "b">>, None)>>),
    SetOf("replace", None, <<RepEdit(<<>>, Leaf("b", "g") :> 1)>>),
    SetOf("full", None, <<>>),
    SetOf("bypass", None,
      <<DelEdit(Leaf("a", "f")), AddEdit(<<"T">>, Leaf("a", "g") :> 2 @@ Leaf("b", "f") :> 1)>>),
    SetOf("bypass", None, <<DelEdit(<<"T">>)>>) }
GetPathsA == {<<"T", "a">>}
OneLeaf == {(Leaf("a", "f") :> 1)}
SetFaults == {"apply", "save", "delete", "create", "replace", "startup", "timeout", "file", "redis"}

\* CertzRotate: the messages of one request.
CertMsg(t, v, q) == [t |-> t, v |-> v, q |-> q]
CertzRequests ==
  {<<CertMsg(t, 1, "good")>> : t \in {"crl", "ap"}}
  \cup {<<CertMsg("crl", 1, "part")>>, <<CertMsg("cert", 1, "nokey")>>}
  \cup {<<CertMsg("cert", 1, "good"), CertMsg("tb", 1, "good")>>,
        <<CertMsg("cert", 1, "good"), CertMsg("ap", 1, "bad")>>}

\* DbRead: devices with namespaces and containers; paths that name them.
HostDb == <<"", "">>
Devices == {{HostDb}, {HostDb, <<"asic0", "">>}, {HostDb, <<"asic0", "">>, <<"", "dpu0">>}}
DbPaths == {<<>>, <<"APPL_DB">>} \cup ({"APPL_DB", "CONFIG_DB"} \X {"localhost", "asic0", "dpu0"})
DbRequests == {<<p>> : p \in DbPaths} \cup (DbPaths \X DbPaths)
JStr(x) == [j |-> "str", s |-> x]
JList(x) == [j |-> "list", l |-> x]
JMembers == {JStr(<<"">>), JStr(<<"a", "b">>), JList(<<>>), JList(<<<<"a">>, <<"b">>>>),
             JList(<<<<"a", "b">>>>), [j |-> "num"]}

\* PathzAuthorizer: rules on a tree of three levels.
Name(v) == <<v>>
Keyed(k, v) == <<k, v>>
RulePaths == {<<>>, <<Name("a")>>, <<Name("a"), Keyed("k", "1")>>, <<Name("a"), Keyed("k", "*")>>, <<Name("a"), Keyed("k", "1"), Name("b")>>,
              <<Name("a"), Keyed("k", "*"), Name("b")>>, <<Name("a"), Keyed("k", "*"), Keyed("z", "1")>>, <<Name("a"), Keyed("z", "1")>>, <<Name("a"), Name("b")>>}
PermRule(p, w, m, x) == [path |-> p, who |-> w, mode |-> m, action |-> x]
PathzRules ==
  {PermRule(p, w, "read", x) : p \in RulePaths, w \in {<<"user", "u1">>, <<"group", "g2">>}, x \in {"permit", "deny"}}
  \cup {PermRule(<<Name("a")>>, w, "write", "deny") : w \in {<<"group", "g1">>, <<"group", "g2">>}}
  \cup {PermRule(<<Name("a")>>, <<"group", "g1">>, "write", "permit")}
PathzRequests == {<<>>, <<Name("a")>>, <<Name("a"), Name("b")>>, <<Name("a"), Keyed("k", "1")>>, <<Name("a"), Keyed("k", "2"), Name("b")>>,
                  <<Name("a"), Keyed("k", "1"), Name("b")>>, <<Name("a"), Keyed("k", "1"), Keyed("z", "1")>>, <<Name("a"), Keyed("z", "1"), Name("b")>>}

\* TranslStream: a YANG struct with a member of every kind.
Yang(leaf, mode, e, ll, c, l) == [leaf |-> leaf, mode |-> mode, e |-> e, ll |-> ll, ul |-> <<>>, c |-> c, l |-> l]
InnerOf(n) == [x |-> n]
YangSchema == [leaf |-> "leaf", mode |-> "enum", e |-> "empty", ll |-> "leaflist", ul |-> "unionlist",
               c |-> "cont", l |-> "list", x |-> "union"]
YangStructs == {Yang(1, 0, 1, <<>>, <<InnerOf(1)>>, [k \in {"p"} |-> InnerOf(1)]),
                Yang(0, 1, 0, <<1>>, <<>>, [k \in {"p", "r"} |-> InnerOf(2)]),
                Yang(1, 2, 0, <<1, 2>>, <<InnerOf(2)>>, [k \in {"r"} |-> InnerOf(2)]),
                Yang(0, 9, 0, <<>>, <<>>, [k \in {} |-> InnerOf(0)])}
YangStarts == {[k \in {"a", "b"} |-> IF k = "a" THEN <<s>> ELSE <<>>] : s \in {s \in YangStructs : s.mode \in {0, 1}}}

-----------------------------------------------------------------------------
VARIABLES disk, czDb, mem, h, up, hs, n, g
CZ == INSTANCE CertzRotate WITH Requests <- CertzRequests,
      CrlNames <- {"a", "b"}, Faults <- {"write", "link", "db", "send"},
      MaxUploads <- 2, MaxRpcs <- 2, MaxCrashes <- 1, db <- czDb
certzRotateVars == <<disk, czDb, mem, h, up, hs, n, g>>

VARIABLES cfg, addr, store, object, typed, sets, drAnswer
DR == INSTANCE DbRead WITH Configs <- Devices, Requests <- DbRequests,
      Members <- JMembers, Fields <- {"f", "g"}, RowKeys <- {"k", "l"},
      Indexes <- -1..1, MaxSets <- 2, answer <- drAnswer
dbReadVars == <<cfg, addr, store, object, typed, sets, drAnswer>>

VARIABLES trie, rules, refused
PA == INSTANCE PathzAuthorizer WITH Rules <- PathzRules,
      ReqPaths <- PathzRequests, Users <- {"u1", "u2"},
      Members <- [x \in {"g1", "g2"} |-> IF x = "g1" THEN {"u1"} ELSE {"u1", "u2"}],
      MaxRules <- 3
pathzAuthorizerVars == <<trie, rules, refused>>

VARIABLES sub, data, changes, ticks, run, hq, cq, values, rcvd, replica, seen,
          faults
TS == INSTANCE TranslStream WITH Schema <- YangSchema, Structs <- YangStructs,
      InstKeys <- {"a", "b"}, Starts <- YangStarts, BadEnums <- {9},
      TsModes <- {"sample", "onchange"}, LeafSubs <- {<<>>, <<"leaf">>},
      MaxChanges <- 2, MaxTicks <- 1
translStreamVars == <<sub, data, changes, ticks, run, hq, cq, values, rcvd,
      replica, seen, faults>>

-----------------------------------------------------------------------------
Parts == {"ConfigSet", "CertzRotate", "DbRead", "PathzAuthorizer",
          "TranslStream"}

\* Every component starts in one of its initial states, always the same one
\* if it is not the one that runs.
SuiteInit ==
  /\ part \in Parts
  /\ CZ!Init /\ (part # "CertzRotate" => disk.ca /\ disk.crl = {})
  /\ DR!DrInit /\ (part # "DbRead" => cfg = {HostDb})
  /\ PA!PaInit
  /\ TS!TsInit /\ (part # "TranslStream" => sub.mode = "sample" /\ ~sub.suppress /\ ~sub.updatesOnly /\ ~sub.heartbeat /\ sub.leaf = <<>>
                        /\ data["a"][1].mode = 0)
  /\ Init

\* A step of the component p leaves the variables of the others alone.
Only(p) ==
  /\ part = p /\ UNCHANGED part
  /\ p # "ConfigSet" => UNCHANGED vars
  /\ p # "CertzRotate" => UNCHANGED certzRotateVars
  /\ p # "DbRead" => UNCHANGED dbReadVars
  /\ p # "PathzAuthorizer" => UNCHANGED pathzAuthorizerVars
  /\ p # "TranslStream" => UNCHANGED translStreamVars

\* The work of the component is over, so that it may stop; any other state
\* without a successor is a deadlock.  Some components never stop.
Finished ==
  /\ part \notin {"ConfigSet", "DbRead"}
  /\ part = "CertzRotate" => CZ!Quiet \/ up = "refused"
  /\ part = "PathzAuthorizer" => refused \/ Cardinality(rules) = 3
  /\ part = "TranslStream" => run.pc = "fatal" \/ (run.pc = "idle" /\ cq = <<>>)

Stopped == Finished /\ UNCHANGED <<part, vars>>
           /\ UNCHANGED <<certzRotateVars, dbReadVars, pathzAuthorizerVars,
                         translStreamVars>>

SuiteNext ==
  \/ Stopped
  \/ Only("ConfigSet") /\ Next
  \/ Only("CertzRotate") /\ CZ!Next
  \/ Only("DbRead") /\ DR!DrNext
  \/ Only("PathzAuthorizer") /\ PA!PaNext
  \/ Only("TranslStream") /\ TS!TsNext

suiteVars == <<part, vars, certzRotateVars, dbReadVars, pathzAuthorizerVars,
               translStreamVars>>

\* Each component with the fairness of its own specification.
SuiteSpec ==
  /\ SuiteInit /\ [][SuiteNext]_suiteVars

-----------------------------------------------------------------------------
\* The variables of every component have their types.
PartsTypeOK ==
  /\ part = "ConfigSet" => TypeOK
  /\ part = "CertzRotate" => CZ!TypeOK
  /\ part = "DbRead" => DR!DrTypeOK
  /\ part = "PathzAuthorizer" => PA!PaTypeOK
  /\ part = "TranslStream" => TS!TsTypeOK

\* Rotation of certificates: a rotation that is not finalized is undone and
\* one that is stays, across restarts; the links lead to a pair, for
\* handshakes too, and the server starts again.
CertzSafe ==
  /\ part = "CertzRotate" => CZ!RevertRestores /\ CZ!FinalizeDurable /\ CZ!ActiveResolves /\ CZ!StartsAgain /\ CZ!HandshakePair

\* What is shown is what there is: a row reads back as it was set, from the
\* database that was named; a subscriber holds what translib read; the trie
\* decides as the set of rules does.
ViewsExact ==
  /\ part = "DbRead" => DR!ReadBack /\ DR!RoutedToNamed
  /\ part = "TranslStream" => TS!ReplicaExact /\ TS!ChangesExact /\ TS!DeletesInside /\ TS!OnlyModified
  /\ part = "PathzAuthorizer" => PA!OrderIndependent /\ PA!MostSpecificWins
=============================================================================
