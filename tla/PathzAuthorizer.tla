--------------------------- MODULE PathzAuthorizer ---------------------------
(***************************************************************************)
(* The rule trie of path authorization: building it from a policy          *)
(* (insertPath, updatePermission, createPolicies) and looking a request up *)
(* in it (authorize, updateResult) (pathz_authorizer/pathz_authorizer.go). *)
(*                                                                         *)
(* A gNMI path is flattened to tokens: <<name>> for an element and         *)
(* <<key, value>> for each of its keys, in alphabetical order.  A node of  *)
(* the trie is the sequence of tokens that leads to it.                    *)
(***************************************************************************)
EXTENDS Naturals, Sequences, FiniteSets

CONSTANTS Rules,     \* the rules a policy may have: [path, who, mode, action]
          ReqPaths,  \* the paths requested
          Users, Members, \* the users of each group
          MaxRules   \* bound: rules of a policy

Unspecified == "unspecified"
Modes == {"read", "write"}
Groups == DOMAIN Members
Principals == {<<"user", u>> : u \in Users} \cup {<<"group", g>> : g \in Groups}

VARIABLES trie,   \* the nodes: their key name and permissions
          rules,  \* the rules inserted so far (history)
          refused \* insertPath failed: the processor keeps its old policy

paVars == <<trie, rules, refused>>

Unset == [p \in Principals, m \in Modes |-> Unspecified]
NewNode == [key |-> "", perm |-> Unset]

PaInit == trie = [n \in {<<>>} |-> NewNode] /\ rules = {} /\ refused = FALSE

--------------------------------------------------------------------------
(* Building *)

IsKey(tok) == Len(tok) = 2
Prefix(s, i) == SubSeq(s, 1, i)

\* A deny stays.
updatePermission(old, a) == IF a = Unspecified \/ old = "deny" THEN old ELSE a

\* The key names stored below one node must agree.
KeyMismatch(path) ==
    \E i \in 1..Len(path) :
        /\ IsKey(path[i]) /\ Prefix(path, i - 1) \in DOMAIN trie
        /\ trie[Prefix(path, i - 1)].key \notin {"", path[i][1]}

\* insertPath: the nodes along the path, their keys, and at its end the
\* permission of the rule's principal.
Node(n) == IF n \in DOMAIN trie THEN trie[n] ELSE NewNode

KeyOf(path, i) ==
    IF i < Len(path) /\ IsKey(path[i + 1]) THEN path[i + 1][1] ELSE Node(Prefix(path, i)).key

Leaf(node, r) == [node EXCEPT !.perm[r.who, r.mode] = updatePermission(@, r.action)]

insertPath(r) ==
    LET on == {Prefix(r.path, i) : i \in 0..Len(r.path)}
        keyed(n) == [Node(n) EXCEPT !.key = KeyOf(r.path, Len(n))]
    IN [n \in DOMAIN trie \cup on |->
            IF n = r.path THEN Leaf(keyed(n), r)
            ELSE IF n \in on THEN keyed(n) ELSE trie[n]]

createPolicies ==
    /\ ~refused /\ Cardinality(rules) < MaxRules
    /\ \E r \in Rules \ rules :
        IF KeyMismatch(r.path)
        THEN refused' = TRUE /\ UNCHANGED <<trie, rules>>
        ELSE trie' = insertPath(r) /\ rules' = rules \cup {r} /\ UNCHANGED refused

PaNext == createPolicies
PaSpec == PaInit /\ [][PaNext]_paVars

--------------------------------------------------------------------------
(* Looking up *)

\* The user's own permission, or what its groups say: one that denies, if
\* any, whatever order the map of groups is read in.
Own(n, u, m) ==
    LET mine == trie[n].perm[<<"user", u>>, m]
        of == {trie[n].perm[<<"group", g>>, m] : g \in {x \in Groups : u \in Members[x]}}
    IN IF mine # Unspecified THEN mine
       ELSE IF "deny" \in of THEN "deny" ELSE IF "permit" \in of THEN "permit" ELSE Unspecified

\* The children to try for the next token, in order.
Candidates(n, tok) ==
    IF ~IsKey(tok) THEN <<Append(n, tok)>>
    ELSE IF trie[n].key # tok[1] THEN <<>>
    ELSE <<Append(n, tok), Append(n, <<tok[1], "*">>)>>

RECURSIVE authorize(_, _, _, _)
RECURSIVE FirstOf(_, _, _, _, _)

authorize(n, req, u, m) ==
    LET i == Len(n) + 1
        r == IF i > Len(req) THEN Unspecified ELSE FirstOf(Candidates(n, req[i]), 1, req, u, m)
    IN IF r # Unspecified THEN r ELSE Own(n, u, m)

FirstOf(cs, i, req, u, m) ==
    IF i > Len(cs) THEN Unspecified
    ELSE LET r == IF cs[i] \in DOMAIN trie THEN authorize(cs[i], req, u, m) ELSE Unspecified
         IN IF r # Unspecified THEN r ELSE FirstOf(cs, i + 1, req, u, m)

Authorize(req, u, m) == authorize(<<>>, req, u, m)

--------------------------------------------------------------------------
\* Every node is the prefix of a rule's path, and has the key name of the
\* key tokens stored below it.
PaTypeOK ==
    /\ \A n \in DOMAIN trie : n = <<>> \/ \E r \in rules : Len(r.path) >= Len(n) /\ Prefix(r.path, Len(n)) = n
    /\ \A n \in DOMAIN trie : Len(n) > 0 /\ IsKey(n[Len(n)]) =>
          trie[Prefix(n, Len(n) - 1)].key = n[Len(n)][1]

\* The trie depends on the set of rules and not on their order: a node has
\* deny for a principal and a mode if one of the rules says deny, and
\* permit if one says permit and none deny.
OrderIndependent ==
    \A n \in DOMAIN trie, p \in Principals, m \in Modes :
        LET said == {r.action : r \in {x \in rules : x.path = n /\ x.who = p /\ x.mode = m}}
        IN trie[n].perm[p, m] = IF "deny" \in said THEN "deny"
                                ELSE IF "permit" \in said THEN "permit" ELSE Unspecified

\* The reference: the rules whose path is a prefix of the request (a "*"
\* matches any value) and that are about the user; one that agrees longer
\* wins, and at the first token where two differ the exact value beats "*".
Matching(req, u, m) ==
    {r \in rules : /\ r.mode = m /\ Len(r.path) <= Len(req)
                   /\ \A i \in 1..Len(r.path) :
                         \/ r.path[i] = req[i]
                         \/ IsKey(req[i]) /\ r.path[i] = <<req[i][1], "*">>
                   /\ \/ r.who = <<"user", u>>
                      \/ \E g \in Groups : r.who = <<"group", g>> /\ u \in Members[g]}

Beats(p, q, req) ==
    LET differ == {i \in 1..Len(p) : i <= Len(q) /\ p[i] # q[i]}
    IN IF differ = {} THEN Len(p) >= Len(q)
       ELSE LET d == CHOOSE x \in differ : \A y \in differ : x <= y IN p[d] = req[d]

Reference(req, u, m) ==
    LET ms == Matching(req, u, m)
        best == {r \in ms : \A q \in ms : Beats(r.path, q.path, req)}
        own == {r \in best : r.who[1] = "user"}
        say == {r.action : r \in IF own # {} THEN own ELSE best}
    IN IF "deny" \in say THEN "deny" ELSE IF "permit" \in say THEN "permit" ELSE Unspecified

\* The walk down the trie, with its fall back from an exact key to "*",
\* finds the most specific rule of the reference for every request.
MostSpecificWins ==
    \A req \in ReqPaths, u \in Users, m \in Modes : Authorize(req, u, m) = Reference(req, u, m)
=============================================================================
