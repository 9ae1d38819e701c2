----------------------------- MODULE MCBLinkTree -----------------------------
(* BLinkTree for TLC.  A tree of one full leaf, of two leaves, and of two     *)
(* levels with a full root, each filled by `load'; and then two writers and a *)
(* reader in the region where it grows.                                       *)
EXTENDS BLinkProperties

CONSTANTS load, w1, w2, reader, v1, v2

Put(key, v) == [op |-> "write", key |-> key, value |-> v]
Get(key) == [op |-> "read", key |-> key, value |-> Absent]
Ascending(n) == [i \in 1 .. n |-> Put(i * 10, v1)]

Scenario(first, a, b, gets) ==
    [c \in Client |-> CASE c = load -> first
                        [] c = w1   -> a
                        [] c = w2   -> b
                        [] c = reader -> gets]

MCScripts ==
    { \* both writers meet the full leaf that is the root
      Scenario(Ascending(4), <<Put(50, v2), Put(5, v2)>>, <<Put(15, v2), Put(30, v2)>>,
               <<Get(30), Get(40)>>),
      \* one splits it, and fills it again, while the other waits for it
      Scenario(Ascending(4), <<Put(50, v2), Put(5, v2), Put(6, v2)>>, <<Put(15, v2)>>,
               <<Get(30), Get(45)>>),
      \* two full leaves under a full root: one writer splits it, the other
      \* has come through it
      Scenario(Ascending(12) \o <<Put(71, v1), Put(72, v1)>>,
               <<Put(130, v2), Put(85, v2)>>, <<Put(73, v2), Put(110, v2)>>,
               <<Get(110), Get(120)>>),
      \* two leaves to split under one root with room for one
      Scenario(Ascending(10), <<Put(11, v2), Put(12, v2), Put(13, v2)>>,
                   <<Put(105, v2), Put(106, v2)>>, <<Get(20)>>) }

-----------------------------------------------------------------------------
(* The tree that one client grows until its root, full of internal nodes'     *)
(* keys, has been split.                                                      *)
MCOneWriter ==
    {[c \in Client |-> IF c = load THEN [i \in 1 .. (2 * L + 3) * L |-> Put(i, v1)] ELSE <<>>]}
=============================================================================
