-------------------------------- MODULE MCRaft --------------------------------
(* TLC instances of RaftCluster: three servers, one key, two values.       *)
EXTENDS RaftProperties, TLC

CONSTANTS s1, s2, s3, c1, c2, k1, v1, v2

Create(val) == [op |-> "create", key |-> k1, val |-> val]
Delete == [op |-> "delete", key |-> k1, val |-> v1]
MCCommand == [op : {"create", "update", "delete"}, key : {k1}, val : {v1, v2}]

NoRequests == <<>>
OneCreate == [c \in {c1} |-> Create(v1)]
TwoCreates == [c \in {c1, c2} |-> IF c = c1 THEN Create(v1) ELSE Create(v2)]
CreateDelete == [c \in {c1, c2} |-> IF c = c1 THEN Create(v1) ELSE Delete]

Candidates == Permutations({s1, s2})
Peers == Permutations({s2, s3})

(* TwoCreates stays the same when its clients and values change places.    *)
Renaming(c, d, v, w) == (c1 :> c) @@ (c2 :> d) @@ (v1 :> v) @@ (v2 :> w)
PeersAndClients ==
    {p @@ r : p \in Peers, r \in {Renaming(c1, c2, v1, v2), Renaming(c2, c1, v2, v1)}}
=============================================================================
