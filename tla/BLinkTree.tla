------------------------------ MODULE BLinkTree ------------------------------
(* The B-link tree of src/BLinkTree: clients that read and write one service  *)
(* file through BLinkTree::read and BLinkTree::write (tree.cpp), each with a  *)
(* lock per node that is shared through `lockmap'.                            *)
(*                                                                            *)
(* A node's offset is its number in the file.  A client reads a node, and     *)
(* computes where to go next, under the node's read lock and no other: one    *)
(* step, that waits for a writer of the node.  A writer of a full leaf keeps  *)
(* its write lock, and takes the parent's, over several steps.                *)
EXTENDS BLinkNode, Sequences, SequencesExt, FiniteSets

CONSTANTS Client,
          Loader,    \* the client that fills the tree before the others start
          NoClient,
          Scripts,   \* the operations of each client, in order: the choices
          Value, Absent

VARIABLES file,      \* the nodes of the service file, by offset
          root,      \* its root offset
          wr,        \* the holder of the write lock of each node
          script,    \* script[c]: the operations c has still to complete
          pc, at,    \* where c is, and the node it is at or waits for
          parent,    \* the parent that a writer of a full node waits for
          stk,       \* the internal nodes a writer has come through
          up,        \* key_to_add and node_to_add
          got,       \* the value the last read returned
          broken     \* undefined behaviour: the program's state is anything

callVars == <<script, pc, at, parent, stk, up>>
vars == <<file, root, wr, callVars, got, broken>>

Offset == 1 .. Len(file)
Op(c) == Head(script[c])
Writer(c) == Op(c).op = "write"
Key(c) == Op(c).key
Keys == UNION {{s[c][i].key : i \in 1 .. Len(s[c])} : s \in Scripts, c \in Client}
NoUp == [key |-> 0, node |-> NoNode]
FirstLeaf == 1
(* addNode(): the end of the file. *)
NewOffset == Len(file) + 1

ASSUME NoClientAssumption == NoClient \notin Client
ASSUME ScriptsAssumption ==
    Scripts \subseteq
        [Client -> Seq([op : {"read", "write"}, key : Nat, value : Value \cup {Absent}])]

(* A thread takes steps until one of them is undefined behaviour. *)
In(c, place) == ~broken /\ pc[c] = place

(* The mover of a step waits until nobody writes the node. *)
Free(o) == wr[o] = NoClient
Lock(o, c) == [wr EXCEPT ![o] = c]

-----------------------------------------------------------------------------
(* createEmptyServiceFile(): the root is a leaf. *)
Init ==
    /\ file = <<EmptyRoot(Absent)>>
    /\ root = FirstLeaf
    /\ wr = <<NoClient>>
    /\ script \in Scripts
    /\ pc = [c \in Client |-> "idle"]
    /\ at = [c \in Client |-> NoNode]
    /\ parent = [c \in Client |-> NoNode]
    /\ stk = [c \in Client |-> <<>>]
    /\ up = [c \in Client |-> NoUp]
    /\ got = [c \in Client |-> Absent]
    /\ broken = FALSE

(* getRootOffset().  The lock of the root is waited for afterwards. *)
Start(c) ==
    /\ In(c, "idle") /\ script[c] # <<>>
    /\ c = Loader \/ script[Loader] = <<>>
    /\ pc' = [pc EXCEPT ![c] = "descend"]
    /\ at' = [at EXCEPT ![c] = root]
    /\ UNCHANGED <<file, root, wr, script, parent, stk, up, got, broken>>

(* The rest of a call: its variables are gone. *)
Return(c) ==
    /\ script' = [script EXCEPT ![c] = Tail(@)]
    /\ pc' = [pc EXCEPT ![c] = "idle"]
    /\ at' = [at EXCEPT ![c] = NoNode]
    /\ parent' = [parent EXCEPT ![c] = NoNode]
    /\ stk' = [stk EXCEPT ![c] = <<>>]
    /\ up' = [up EXCEPT ![c] = NoUp]

GoTo(c, place, o) ==
    /\ pc' = [pc EXCEPT ![c] = place]
    /\ at' = [at EXCEPT ![c] = o]

Visit(c, leaf) == In(c, "descend") /\ Free(at[c]) /\ file[at[c]].leaf = leaf

(* Through an internal node, which a writer remembers. *)
Descend(c) ==
    /\ Visit(c, FALSE)
    /\ ~ReadsJunk(file[at[c]], Key(c))
    /\ GoTo(c, "descend", ChildByKey(file[at[c]], Key(c)))
    /\ stk' = IF Writer(c) THEN [stk EXCEPT ![c] = Append(@, at[c])] ELSE stk
    /\ UNCHANGED <<file, root, wr, script, parent, up, got, broken>>

(* The slot past the last key, which was never written, may differ from the   *)
(* key: the last child is taken.  Or it may equal it: the child's offset is   *)
(* one that was never written either.                                         *)
DescendByJunk(c) ==
    /\ Visit(c, FALSE)
    /\ ReadsJunk(file[at[c]], Key(c))
    /\ \/ /\ GoTo(c, "descend", ChildByKey(file[at[c]], Key(c)))
          /\ stk' = IF Writer(c) THEN [stk EXCEPT ![c] = Append(@, at[c])] ELSE stk
          /\ UNCHANGED broken
       \/ broken' = TRUE /\ UNCHANGED <<pc, at, stk>>
    /\ UNCHANGED <<file, root, wr, script, parent, up, got>>

(* The first loop of read() over the leaves. *)
ReadRight(c) ==
    LET nd == file[at[c]] IN
    /\ Visit(c, TRUE) /\ ~Writer(c)
    /\ nd.right # NoNode /\ nd.high < Key(c)
    /\ GoTo(c, "descend", nd.right)
    /\ UNCHANGED <<file, root, wr, script, parent, stk, up, got, broken>>

(* Mutant: the right siblings are not looked into.                            *)
ReadValueHere(c) ==
    LET nd == file[at[c]] IN
    /\ Visit(c, TRUE) /\ ~Writer(c)
    /\ got' = [got EXCEPT ![c] = ValueByKey(nd, Key(c), Absent)]
    /\ Return(c)
    /\ UNCHANGED <<file, root, wr, broken>>

(* The end of read(); the value may come from a slot that was never written.  *)
ReadValue(c) ==
    LET nd == file[at[c]] IN
    /\ Visit(c, TRUE) /\ ~Writer(c)
    /\ ~(nd.right # NoNode /\ nd.high < Key(c))
    /\ \E v \in {ValueByKey(nd, Key(c), Absent)}
                  \cup (IF ReadsJunk(nd, Key(c)) THEN {Junk} ELSE {}) :
         got' = [got EXCEPT ![c] = v]
    /\ Return(c)
    /\ UNCHANGED <<file, root, wr, broken>>

(* A writer gives up its read lock on the leaf and wants the write lock. *)
FoundLeaf(c) ==
    /\ Visit(c, TRUE) /\ Writer(c)
    /\ pc' = [pc EXCEPT ![c] = "leaf"]
    /\ UNCHANGED <<file, root, wr, script, at, parent, stk, up, got, broken>>

-----------------------------------------------------------------------------
(* write() from the write lock of the leaf on. *)
AtLeaf(c) == In(c, "leaf") /\ Free(at[c])

Passed(nd, key) == nd.right # NoNode /\ key >= nd.high
Full(nd) == nd.n = 2 * L
Has(nd, key) == Fgoe(nd, key) < nd.n /\ nd.keys[Fgoe(nd, key)] = key

MoveRight(c) ==
    /\ AtLeaf(c) /\ Passed(file[at[c]], Key(c))
    /\ at' = [at EXCEPT ![c] = file[at[c]].right]
    /\ UNCHANGED <<file, root, wr, script, pc, parent, stk, up, got, broken>>

(* The leaf has room, or has the key. *)
WriteLeaf(c) ==
    LET nd == file[at[c]] IN
    /\ AtLeaf(c) /\ ~Passed(nd, Key(c))
    /\ ~Full(nd) \/ Has(nd, Key(c))
    /\ file' = [file EXCEPT ![at[c]] = AddKeyValue(nd, Key(c), Op(c).value)]
    /\ Return(c)
    /\ UNCHANGED <<root, wr, got, broken>>

(* The leaf must be split.  Its lock is kept. *)
LeafIsFull(c) ==
    LET nd == file[at[c]] IN
    /\ AtLeaf(c) /\ ~Passed(nd, Key(c))
    /\ Full(nd) /\ ~Has(nd, Key(c))
    /\ pc' = [pc EXCEPT ![c] = "full"]
    /\ up' = [up EXCEPT ![c] = [key |-> Key(c), node |-> NoNode]]
    /\ wr' = Lock(at[c], c)
    /\ UNCHANGED <<file, root, script, at, parent, stk, got, broken>>

(* The two halves of a full node nd at o, the new right one at offset r, with *)
(* what the writer has to add to one of them.                                 *)
Halves(c, nd, r) ==
    LET left == SplitLeft(nd, r)
        right == SplitRight(nd)
        Add(half) == IF nd.leaf THEN AddKeyValue(half, Key(c), Op(c).value)
                     ELSE AddKeyChild(half, up[c].key, up[c].node)
    IN IF left.high > Key(c) THEN <<Add(left), right>> ELSE <<left, Add(right)>>

(* The parent is the last of the stack, which stk.top() takes for not empty.  *)
ToParent(c) ==
    /\ In(c, "full") /\ ~file[at[c]].root
    /\ stk[c] # <<>>
    /\ pc' = [pc EXCEPT ![c] = "parent"]
    /\ parent' = [parent EXCEPT ![c] = Last(stk[c])]
    /\ stk' = [stk EXCEPT ![c] = Front(@)]
    /\ UNCHANGED <<file, root, wr, script, at, up, got, broken>>

NoParent(c) ==
    /\ In(c, "full") /\ ~file[at[c]].root
    /\ stk[c] = <<>>
    /\ broken' = TRUE
    /\ UNCHANGED <<file, root, wr, callVars, got>>

ParentMovesRight(c) ==
    LET nd == file[parent[c]] IN
    /\ In(c, "parent") /\ Free(parent[c])
    /\ Passed(nd, up[c].key)
    /\ parent' = [parent EXCEPT ![c] = nd.right]
    /\ UNCHANGED <<file, root, wr, script, pc, at, stk, up, got, broken>>

(* With the parent locked the node is split and released; the parent is what  *)
(* the loop goes on with.  The loop stops when it has room.                   *)
Split(c) ==
    LET p == parent[c]
        r == NewOffset
        halves == Halves(c, file[at[c]], r)
    IN
    /\ In(c, "parent") /\ Free(p)
    /\ ~Passed(file[p], up[c].key)
    /\ file' = Append([file EXCEPT ![at[c]] = halves[1]], halves[2])
    /\ wr' = Append([wr EXCEPT ![at[c]] = NoClient, ![p] = c], NoClient)
    /\ up' = [up EXCEPT ![c] = [key |-> halves[1].high, node |-> r]]
    /\ GoTo(c, IF Full(file[p]) THEN "full" ELSE "link", p)
    /\ parent' = [parent EXCEPT ![c] = NoNode]
    /\ UNCHANGED <<root, script, stk, got, broken>>

(* Mutant: the parent stays locked.                                           *)
LinkLocked(c) ==
    /\ In(c, "link")
    /\ file' = [file EXCEPT ![at[c]] = AddKeyChild(@, up[c].key, up[c].node)]
    /\ Return(c)
    /\ UNCHANGED <<root, wr, got, broken>>

(* The parent had room. *)
Link(c) ==
    /\ In(c, "link")
    /\ file' = [file EXCEPT ![at[c]] = AddKeyChild(@, up[c].key, up[c].node)]
    /\ wr' = Lock(at[c], NoClient)
    /\ Return(c)
    /\ UNCHANGED <<root, got, broken>>

(* The full node is the root: a new root over its halves, locked until it is  *)
(* written.                                                                   *)
SplitRoot(c) ==
    LET r == NewOffset
        halves == Halves(c, file[at[c]], r)
    IN
    /\ In(c, "full") /\ file[at[c]].root
    /\ file' = [file EXCEPT ![at[c]] = halves[1]]
                 \o <<halves[2], NewRoot(halves[1].high, at[c], r)>>
    /\ root' = r + 1
    /\ wr' = [wr EXCEPT ![at[c]] = NoClient] \o <<NoClient, NoClient>>
    /\ Return(c)
    /\ UNCHANGED <<got, broken>>

Step(c) ==
    \/ Start(c) \/ Descend(c) \/ DescendByJunk(c) \/ ReadRight(c) \/ ReadValue(c)
    \/ FoundLeaf(c) \/ MoveRight(c) \/ WriteLeaf(c) \/ LeafIsFull(c)
    \/ ToParent(c) \/ NoParent(c) \/ ParentMovesRight(c) \/ Split(c) \/ Link(c)
    \/ SplitRoot(c)

Next == \E c \in Client : Step(c)

Spec == Init /\ [][Next]_vars

(* Each client is a thread the system schedules; glibc's locks are taken by   *)
(* every waiter in the end, for the operations are finite in number.          *)
FairSpec == Spec /\ \A c \in Client : WF_vars(Step(c))
=============================================================================
