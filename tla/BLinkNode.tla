------------------------------ MODULE BLinkNode ------------------------------
(* The node of src/BLinkTree/src/node.h and the operations of node.c on it.   *)
(* A node keeps arrays of 2L keys and of 2L values or 2L + 1 children, and    *)
(* how many of the keys count.  What lies beyond them stays there, and is     *)
(* read by the code: an operation here moves the same slots as the code.      *)
(* Junk is a slot that nobody has written, and the slot past an array's end.  *)
EXTENDS Integers

CONSTANTS L,        \* half of the keys of a node
          Copied,   \* sizeof(size_t): the children btnodeSplit copies, 8
          NoNode,   \* INVALID_OFFSET
          Junk

ASSUME LAssumption == L \in Nat /\ L >= 2
ASSUME CopiedAssumption == Copied \in Nat
(* Neither is an offset or a key. *)
ASSUME SentinelAssumption == NoNode \notin Nat /\ Junk \notin Nat

Slots == 0 .. 2 * L

(* A slot with the elements from it on moved up by one: memmove of cnt        *)
(* elements from slot i to slot i + 1, and x at i.                            *)
InsertSlot(a, i, cnt, x) ==
    [j \in Slots |-> CASE j = i             -> x
                       [] j \in i + 1 .. i + cnt -> a[j - 1]
                       [] OTHER             -> a[j]]

(* The first cnt elements of a from slot i on, in a node just allocated. *)
Slice(a, i, cnt) ==
    [j \in Slots |-> IF j < cnt /\ i + j \in Slots THEN a[i + j] ELSE Junk]

(* The binary search of fgoe() between low and high. *)
Search(keys, key) ==
    LET from[range \in (0 .. 2 * L + 1) \X (-1 .. 2 * L)] ==
            LET low == range[1]
                high == range[2]
                mid == (low + high) \div 2
            IN IF low > high THEN low
               ELSE IF keys[mid] = key THEN mid
               ELSE IF key < keys[mid] THEN from[<<low, mid - 1>>]
               ELSE from[<<mid + 1, high>>]
    IN from

(* fgoe(): the first of the keys that is greater or equal.  Of an empty node  *)
(* it reads the word before the keys, which is their number, 0.               *)
Fgoe(nd, key) ==
    IF nd.n = 0 \/ key > nd.keys[nd.n - 1] THEN nd.n
    ELSE Search(nd.keys, key)[<<0, nd.n>>]

(* Mutant: every key leads to the child after it.                             *)
ChildAfter(nd, key) ==
    LET i == Fgoe(nd, key)
    IN IF i < nd.n THEN nd.slots[i + 1] ELSE nd.slots[i]

(* btnodeChildByKey() of an internal node. *)
ChildByKey(nd, key) ==
    LET i == Fgoe(nd, key)
    IN IF nd.keys[i] = key THEN nd.slots[i + 1] ELSE nd.slots[i]

(* btnodeValueByKey() of a leaf; `absent' is the default value. *)
ValueByKey(nd, key, absent) ==
    LET i == Fgoe(nd, key)
    IN IF nd.keys[i] = key THEN nd.slots[i] ELSE absent

(* Both compare the key with the slot past the last key, when the key is      *)
(* greater than all: whether a slot that was never written equals it is       *)
(* anybody's guess.                                                           *)
ReadsJunk(nd, key) == nd.keys[Fgoe(nd, key)] = Junk

(* Mutant: a key that is present keeps its value.                             *)
AddKeyOnly(nd, key, value) ==
    LET i == Fgoe(nd, key)
    IN IF nd.n = 2 * L \/ ~nd.leaf \/ (i < nd.n /\ nd.keys[i] = key) THEN nd
       ELSE [nd EXCEPT !.keys = InsertSlot(@, i, nd.n - i, key),
                       !.slots = InsertSlot(@, i, nd.n - i, value),
                       !.n = @ + 1]

(* btnodeAddKeyValue() *)
AddKeyValue(nd, key, value) ==
    LET i == Fgoe(nd, key)
    IN IF nd.n = 2 * L \/ ~nd.leaf THEN nd
       ELSE IF i = nd.n \/ nd.keys[i] # key
            THEN [nd EXCEPT !.keys = InsertSlot(@, i, nd.n - i, key),
                            !.slots = InsertSlot(@, i, nd.n - i, value),
                            !.n = @ + 1]
       ELSE [nd EXCEPT !.slots[i] = value]

(* Mutant: the new child comes before its key.                                *)
AddChildKey(nd, key, child) ==
    LET i == Fgoe(nd, key)
    IN [nd EXCEPT !.keys = InsertSlot(@, i, nd.n - i, key),
                  !.slots = InsertSlot(@, i, nd.n - i, child),
                  !.n = @ + 1]

(* btnodeAddKeyChild() *)
AddKeyChild(nd, key, child) ==
    LET i == Fgoe(nd, key)
    IN [nd EXCEPT !.keys = InsertSlot(@, i, nd.n - i, key),
                  !.slots = InsertSlot(@, i + 1, nd.n - i, child),
                  !.n = @ + 1]

(* btnodeSplit(): what becomes of the node, *)
SplitLeft(nd, other) ==
    LET mid == nd.n \div 2
    IN [nd EXCEPT !.root = FALSE, !.right = other, !.high = nd.keys[mid], !.n = mid]

(* Mutant: a leaf keeps its middle key in neither half, too.                  *)
SplitRightSkips(nd) ==
    LET first == nd.n \div 2 + 1
    IN [leaf |-> nd.leaf, root |-> FALSE, right |-> nd.right, high |-> nd.high,
        n |-> nd.n - first,
        keys |-> Slice(nd.keys, first, nd.n - first),
        slots |-> Slice(nd.slots, first, IF nd.leaf THEN nd.n - first ELSE Copied)]

(* and its new right sibling.  An internal node keeps the middle key in       *)
(* neither; of its children Copied are copied, however many there are.        *)
SplitRight(nd) ==
    LET mid == nd.n \div 2
        first == IF nd.leaf THEN mid ELSE mid + 1
    IN [leaf |-> nd.leaf, root |-> FALSE, right |-> nd.right, high |-> nd.high,
        n |-> nd.n - first,
        keys |-> Slice(nd.keys, first, nd.n - first),
        slots |-> Slice(nd.slots, first, IF nd.leaf THEN nd.n - mid ELSE Copied)]

(* The node a new service file starts with, its keys and values zeroed. *)
EmptyRoot(zero) ==
    [leaf |-> TRUE, root |-> TRUE, right |-> NoNode, high |-> 0, n |-> 0,
     keys |-> [i \in Slots |-> IF i < 2 * L THEN 0 ELSE Junk],
     slots |-> [i \in Slots |-> IF i < 2 * L THEN zero ELSE Junk]]

(* The root BLinkTree::write makes over two nodes: allocated, not cleared. *)
NewRoot(key, left, right) ==
    [leaf |-> FALSE, root |-> TRUE, right |-> NoNode, high |-> 0, n |-> 1,
     keys |-> [i \in Slots |-> IF i = 0 THEN key ELSE Junk],
     slots |-> [i \in Slots |-> IF i = 0 THEN left ELSE IF i = 1 THEN right ELSE Junk]]
=============================================================================
