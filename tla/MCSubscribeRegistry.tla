------------------------ MODULE MCSubscribeRegistry ------------------------
(* Instances of SubscribeRegistry: RPCs of one peer and of two peers.       *)
EXTENDS SubscribeRegistry, TLC

CONSTANTS s1, s2, s3, a1, a2

\* Two RPCs multiplexed on one connection and one RPC of another peer.
MCAddrOf == [s \in Sessions |-> IF s = s3 THEN a2 ELSE a1]
\* Every RPC asks for the same paths.
MCQueryOf == [s \in Sessions |-> "q"]

MCTwo == {s1, s2}
MCThree == {s1, s2, s3}
\* s1 and s2 have the same peer and query.
MCSymmetry == Permutations({s1, s2})
MCStale == {<<a1, "q", 0>>}
=============================================================================
