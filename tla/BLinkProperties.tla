--------------------------- MODULE BLinkProperties ---------------------------
(* What must be true of the tree of BLinkTree, whatever its clients do.       *)
EXTENDS BLinkTree

-----------------------------------------------------------------------------
(* How the tree is read. *)

LeafOf(o, key) == \E i \in 0 .. file[o].n - 1 : file[o].keys[i] = key
Leaves == {o \in Offset : file[o].leaf}

(* The value stored under each key that is stored: the leaves are all there  *)
(* is to it.                                                                  *)
Stored == {key \in Keys : \E o \in Leaves : LeafOf(o, key)}
Contents ==
    [key \in Stored |->
        LET o == CHOOSE x \in Leaves : LeafOf(x, key)
        IN file[o].slots[Fgoe(file[o], key)]]

(* The least key that belongs to a node: the high key of its left sibling. *)
Low(o) ==
    IF \E l \in Offset : file[l].right = o
    THEN file[CHOOSE l \in Offset : file[l].right = o].high
    ELSE 0

InSplit(c) == pc[c] \in {"full", "parent", "link"}

(* The write of c has taken effect: its pair is in one half of a split leaf. *)
Applied(c) == InSplit(c) /\ up[c].node # NoNode

(* The leaf that a read of the key from offset o ends at. *)
Find(key) ==
    LET from[o \in Offset] ==
            LET nd == file[o]
            IN IF ~nd.leaf THEN from[ChildByKey(nd, key)]
               ELSE IF nd.right # NoNode /\ nd.high < key THEN from[nd.right]
               ELSE o
    IN from[root]

-----------------------------------------------------------------------------
(* Type invariant. *)
Node == [leaf : BOOLEAN, root : BOOLEAN, right : Offset \cup {NoNode}, high : Nat,
         n : 0 .. 2 * L, keys : [Slots -> Nat \cup {Junk}],
         slots : [Slots -> Offset \cup Value \cup {Absent, Junk}]]

TypeOK ==
    /\ file \in Seq(Node)
    /\ root \in Offset
    /\ wr \in [Offset -> Client \cup {NoClient}]
    /\ pc \in [Client -> {"idle", "descend", "leaf", "full", "parent", "link"}]
    /\ at \in [Client -> Offset \cup {NoNode}]
    /\ parent \in [Client -> Offset \cup {NoNode}]
    /\ stk \in [Client -> Seq(Offset)]
    /\ up \in [Client -> [key : Nat, node : Offset \cup {NoNode}]]
    /\ got \in [Client -> Value \cup {Absent, Junk}]

(* The invariants of a tree that tests.cpp:395 walks through, in every state: *)
(* on each level the keys ascend from node to node, each between the high key *)
(* of the left sibling and the node's own; a key is in one leaf only.         *)
LevelsAscend ==
    \A o \in Offset :
        LET nd == file[o] IN
        /\ \A i \in 0 .. nd.n - 1 :
             /\ i > 0 => nd.keys[i - 1] < nd.keys[i]
             /\ Low(o) <= nd.keys[i]
             /\ nd.right # NoNode => nd.keys[i] < nd.high
        /\ nd.right # NoNode => Low(o) < nd.high /\ file[nd.right].leaf = nd.leaf
        /\ Cardinality({l \in Offset : file[l].right = o}) <= 1

(* Every child that the keys of an internal node tell apart has been written: *)
(* btnodeSplit and btnodeAddKeyChild move the children with their keys.       *)
ChildrenDefined ==
    \A o \in Offset : ~file[o].leaf =>
        \A i \in 0 .. file[o].n : file[o].slots[i] \in Offset

(* The key before a child is the least that belongs to it, also when splits   *)
(* of its siblings are linked in any order, or to a parent that moved right.  *)
SeparatorsExact ==
    \A o \in Offset : ~file[o].leaf =>
        \A i \in 0 .. file[o].n :
            Low(file[o].slots[i]) =
                IF i = 0 THEN Low(o) ELSE file[o].keys[i - 1]

(* fgoe() finds the first key that is greater or equal, in every node that    *)
(* the operations make.                                                       *)
FgoeRight ==
    \A o \in Offset, key \in Keys :
        Fgoe(file[o], key) =
            Cardinality({i \in 0 .. file[o].n - 1 : file[o].keys[i] < key})

(* What lets an operation recover from splits by going right: nobody is ever  *)
(* at a node, nor remembers one, that lies to the right of the key's.         *)
NeverPastHome ==
    \A c \in Client : pc[c] # "idle" =>
        /\ Low(at[c]) <= Key(c)
        /\ \A i \in 1 .. Len(stk[c]) : Low(stk[c][i]) <= Key(c)
        /\ parent[c] # NoNode => Low(parent[c]) <= Key(c)

(* When no split is under way, whoever starts at the root finds the leaf that *)
(* has the key, if one has.                                                   *)
FoundFromRoot ==
    (\A c \in Client : ~InSplit(c)) =>
        \A key \in Keys : \A o \in Leaves : LeafOf(o, key) => Find(key) = o

(* A write lock is held exactly by the writer that is splitting the node, or  *)
(* has it to link into: none is left behind by the hand-over to the parent.   *)
LocksHandedOver ==
    \A o \in Offset, c \in Client : wr[o] = c <=> InSplit(c) /\ at[c] = o

(* All of it: the invariants of the tree while it is written to. *)
TreeSound ==
    /\ TypeOK
    /\ LevelsAscend
    /\ ChildrenDefined
    /\ SeparatorsExact
    /\ FgoeRight
    /\ FoundFromRoot
    /\ LocksHandedOver

-----------------------------------------------------------------------------
(* A split in progress loses no pair and no write is lost or applied twice:   *)
(* the leaves change by one write at a time.                                  *)
Abstract == INSTANCE Dictionary WITH
    map <- Contents,
    todo <- [c \in Client |-> IF Applied(c) THEN Tail(script[c]) ELSE script[c]]
ImplementsDictionary == Abstract!Spec

(* A write that has returned has stored its value, but for one case:          *)
(* btnodeAddKeyValue does nothing to a full node, so an update of a key in a  *)
(* full leaf is lost, which tree.cpp:185 expects to be made.                  *)
WriteTakesEffect ==
    [][\A c \in Client : WriteLeaf(c) =>
         /\ Key(c) \in Stored'
         /\ IF Full(file[at[c]]) THEN Contents' = Contents
            ELSE Contents'[Key(c)] = Op(c).value]_vars

(* A read returns the value that is stored at the moment it ends, but for two *)
(* cases: the key is the high key of the leaf, where read() stays (it goes    *)
(* right from a smaller high key only); or fgoe() led past the last key, to a *)
(* slot nobody has written, that equals it.                                   *)
ReadsCurrent ==
    [][\A c \in Client : ReadValue(c) =>
         \/ got'[c] = IF Key(c) \in Stored THEN Contents[Key(c)] ELSE Absent
         \/ file[at[c]].right # NoNode /\ file[at[c]].high = Key(c)
         \/ got'[c] = Junk /\ ReadsJunk(file[at[c]], Key(c))]_vars

(* Nobody waits for ever for a lock: the calls all return, unless one has     *)
(* taken the top of an empty stack, or a child from an unwritten slot.        *)
Finishes == <>(broken \/ \A c \in Client : script[c] = <<>>)

=============================================================================
