----------------------------- MODULE BLinkProofs -----------------------------
(* Proofs about the tree of BLinkTree, for any clients and scripts, any node  *)
(* size 2L and any number of nodes, where btnodeSplit copies the children it  *)
(* has to: L <= Copied (node.c copies as many as a size_t has bytes).         *)
(*                                                                            *)
(* The inductive invariant, IInv, says that there are functions `low' and     *)
(* `lev', the least key and the height of each node, such that Inv(low, lev). *)
(* Neither is in the file.  A new node is given both when it is written, and  *)
(* a node keeps them for good: what a client remembers of a node by its       *)
(* offset stays true, though its keys move away.                              *)
(*                                                                            *)
(* WellMade: a node's keys ascend from `low' on, and `slots' beyond the keys  *)
(* hold what splits have left there, which fgoe() may come upon: it is out of *)
(* the node's range, or as good as what is within.  Tree: right siblings      *)
(* begin where a node ends, children where their keys say, and two nodes of   *)
(* one level are apart.  RootFits: the root is above all.  ClientFits: no     *)
(* client is past its key, the stack leads from level to level, and what a    *)
(* writer of a full node has to add belongs into the node.  Locks and Linked: *)
(* who holds what, and what every node hangs from while splits are under way. *)
(*                                                                            *)
(* The order: sets, walks and fgoe(); nodes and the operations on them; the   *)
(* two halves of a node; trees that are cut, or get a new root; one lemma for *)
(* each step; what the invariant says of the properties; what the steps do to *)
(* the pairs that are stored, and which of them are steps of the dictionary.  *)
EXTENDS BLinkProperties, FiniteSetTheorems, WellFoundedInduction, TLAPS

(* A set of naturals is empty or has a least element.                         *)
LEMMA HasLeast ==
    ASSUME NEW S, S \subseteq Nat, S # {}
    PROVE  \E x \in S : \A y \in S : x <= y
<1> DEFINE Less == {ss \in Nat \X Nat : ss[1] < ss[2]}
<1>1. IsWellFoundedOn(Less, Nat)
    BY NatLessThanWellFounded DEF OpToRel
<1>2. \A x, y \in Nat : <<x, y>> \in Less <=> x < y
    OBVIOUS
<1> HIDE DEF Less
<1>3. PICK x \in S : \A y \in S : ~(<<y, x>> \in Less)
    BY <1>1, WFMin
<1>4. ASSUME NEW y \in S
      PROVE  x <= y
  <2>1. x \in Nat /\ y \in Nat
      BY <1>4
  <2>2. ~(y < x)
      BY <1>2, <1>3, <1>4, <2>1
  <2> QED BY <2>1, <2>2
<1> QED BY <1>4

Walk(S, stop, val, next, f) ==
    f = [x \in S |-> IF stop[x] THEN val[x] ELSE f[next[x]]]

(* Each step of a walk leads to an element of lower rank, or stops: where it  *)
(* ends is defined.                                                           *)
LEMMA WalkEnds ==
    ASSUME NEW S, NEW stop, NEW val, NEW next, NEW B \in Nat,
           NEW rank \in [S -> 0 .. B],
           \A x \in S : ~stop[x] => next[x] \in S /\ rank[next[x]] < rank[x]
    PROVE  \E f : Walk(S, stop, val, next, f)
<1> DEFINE Solves(f, n) ==
             \A x \in S : rank[x] < n => f[x] = IF stop[x] THEN val[x] ELSE f[next[x]]
           None == {n \in Nat : ~\E f : Solves(f, n)}
<1>1. None = {}
  <2> SUFFICES ASSUME None # {}
               PROVE  FALSE
      OBVIOUS
  <2>1. PICK n \in None : \A y \in None : n <= y
      BY HasLeast
  <2>2. n # 0
    <3>1. Solves(<<>>, 0)
        OBVIOUS
    <3> QED BY <3>1, <2>1
  <2>3. n \in Nat /\ n - 1 \in Nat /\ ~(n <= n - 1)
      BY <2>1, <2>2
  <2>4. PICK f : Solves(f, n - 1)
      BY <2>1, <2>3
  <2> DEFINE g == [x \in S |-> IF stop[x] THEN val[x] ELSE f[next[x]]]
  <2>5. \A x \in S : rank[x] < n - 1 => g[x] = f[x]
      BY <2>4
  <2>6. ASSUME NEW x \in S, rank[x] < n
        PROVE  g[x] = IF stop[x] THEN val[x] ELSE g[next[x]]
    <3>1. CASE stop[x]
        BY <3>1
    <3>2. CASE ~stop[x]
      <4>1. next[x] \in S /\ rank[next[x]] < n - 1
          BY <3>2, <2>6, <2>3
      <4>2. g[next[x]] = f[next[x]]
          BY <4>1, <2>5
      <4> QED BY <3>2, <4>2
    <3> QED BY <3>1, <3>2
  <2>7. Solves(g, n)
      BY <2>6
  <2> QED BY <2>7, <2>1
<1>2. \A n \in Nat : \E f : Solves(f, n)
    BY <1>1
<1>7. PICK n \in Nat : \A x \in S : rank[x] < n
  <2>1. B + 1 \in Nat /\ \A x \in S : rank[x] < B + 1
      OBVIOUS
  <2> QED BY <2>1
<1>8. PICK f : Solves(f, n)
    BY <1>2
<1> DEFINE g == [x \in S |-> IF stop[x] THEN val[x] ELSE f[next[x]]]
<1>3. \A x \in S : g[x] = f[x]
    BY <1>7, <1>8
<1>4. ASSUME NEW x \in S
      PROVE  g[x] = IF stop[x] THEN val[x] ELSE g[next[x]]
    BY <1>3, <1>4
<1>5. g = [x \in S |-> g[x]]
    OBVIOUS
<1> HIDE DEF g
<1>6. g = [x \in S |-> IF stop[x] THEN val[x] ELSE g[next[x]]]
    BY <1>4, <1>5
<1> QED BY <1>6 DEF Walk

-----------------------------------------------------------------------------
(* fgoe() *)

Ranges == (0 .. 2 * L + 1) \X (-1 .. 2 * L)
Mid(r) == (r[1] + r[2]) \div 2
Ends(keys, key, r) == r[1] > r[2] \/ keys[Mid(r)] = key
End(r) == IF r[1] > r[2] THEN r[1] ELSE Mid(r)
GoesOn(keys, key, r) == IF key < keys[Mid(r)] THEN <<r[1], Mid(r) - 1>> ELSE <<Mid(r) + 1, r[2]>>

LEMMA RangeParts ==
    ASSUME NEW r \in Ranges
    PROVE  /\ r[1] \in 0 .. 2 * L + 1 /\ r[2] \in -1 .. 2 * L
           /\ r = <<r[1], r[2]>>
BY DEF Ranges

LEMMA RangeNarrows ==
    ASSUME NEW r \in Ranges, r[1] <= r[2]
    PROVE  /\ Mid(r) \in Slots /\ r[1] <= Mid(r) /\ Mid(r) <= r[2]
           /\ <<r[1], Mid(r) - 1>> \in Ranges
           /\ <<Mid(r) + 1, r[2]>> \in Ranges
<1>1. PICK a \in 0 .. 2 * L + 1, b \in -1 .. 2 * L : a = r[1] /\ b = r[2]
    BY RangeParts
<1>2. PICK m : m = Mid(r)
    OBVIOUS
<1>3. L \in Nat
    BY LAssumption
<1>4. m \in Int /\ a <= m /\ m <= b /\ a <= b
    BY <1>1, <1>2, <1>3 DEF Mid
<1>5. m \in Slots /\ m - 1 \in -1 .. 2 * L /\ m + 1 \in 0 .. 2 * L + 1
    BY <1>1, <1>3, <1>4 DEF Slots
<1> QED BY <1>1, <1>2, <1>4, <1>5 DEF Ranges

(* The binary search satisfies its own equation: every range that it goes on  *)
(* to is narrower.                                                            *)
LEMMA SearchEquation ==
    ASSUME NEW keys, NEW key, NEW r \in Ranges
    PROVE  Search(keys, key)[r] =
               IF Ends(keys, key, r) THEN End(r) ELSE Search(keys, key)[GoesOn(keys, key, r)]
<1> DEFINE stop == [q \in Ranges |-> Ends(keys, key, q)]
           next == [q \in Ranges |-> GoesOn(keys, key, q)]
           val == [q \in Ranges |-> End(q)]
           rank == [q \in Ranges |-> q[2] - q[1] + 2 * L + 2]
<1>1. L \in Nat
    BY LAssumption
<1>2. 4 * L + 2 \in Nat /\ rank \in [Ranges -> 0 .. 4 * L + 2]
  <2> SUFFICES ASSUME NEW q \in Ranges
               PROVE  q[2] - q[1] + 2 * L + 2 \in 0 .. 4 * L + 2
      BY <1>1
  <2> QED BY <1>1, RangeParts
<1>3. ASSUME NEW q \in Ranges, ~stop[q]
      PROVE  next[q] \in Ranges /\ rank[next[q]] < rank[q]
  <2>1. q[1] \in Int /\ q[2] \in Int /\ q[1] <= q[2]
    <3>1. q[1] \in Int /\ q[2] \in Int
        BY RangeParts
    <3>2. ~(q[1] > q[2])
        BY <1>3 DEF Ends
    <3> QED BY <3>1, <3>2
  <2>2. /\ Mid(q) \in Int /\ q[1] <= Mid(q) /\ Mid(q) <= q[2]
        /\ <<q[1], Mid(q) - 1>> \in Ranges /\ <<Mid(q) + 1, q[2]>> \in Ranges
      BY <2>1, RangeNarrows DEF Slots
  <2>3. /\ rank[<<q[1], Mid(q) - 1>>] < rank[q]
        /\ rank[<<Mid(q) + 1, q[2]>>] < rank[q]
      BY <2>1, <2>2, <1>1
  <2>4. next[q] \in {<<q[1], Mid(q) - 1>>, <<Mid(q) + 1, q[2]>>}
      BY DEF GoesOn
  <2> HIDE DEF next, rank
  <2> QED BY <2>2, <2>3, <2>4
<1>4. \E f : Walk(Ranges, stop, val, next, f)
  <2> HIDE DEF stop, next, val, rank
  <2>1. PICK B \in Nat : rank \in [Ranges -> 0 .. B]
      BY <1>2
  <2>2. \A q \in Ranges : ~stop[q] => next[q] \in Ranges /\ rank[next[q]] < rank[q]
      BY <1>3
  <2> QED BY <2>1, <2>2, WalkEnds
<1>5. PICK f : f = [q \in Ranges |-> IF stop[q] THEN val[q] ELSE f[next[q]]]
    BY <1>4 DEF Walk
<1>6. \A h : [q \in Ranges |-> IF stop[q] THEN val[q] ELSE h[next[q]]] =
             [q \in Ranges |->
                IF q[1] > q[2] THEN q[1]
                ELSE IF keys[Mid(q)] = key THEN Mid(q)
                ELSE IF key < keys[Mid(q)] THEN h[<<q[1], Mid(q) - 1>>]
                ELSE h[<<Mid(q) + 1, q[2]>>]]
    BY DEF Ends, End, GoesOn
<1> HIDE DEF stop, next, val
<1>7. f = [q \in Ranges |->
             IF q[1] > q[2] THEN q[1]
             ELSE IF keys[Mid(q)] = key THEN Mid(q)
             ELSE IF key < keys[Mid(q)] THEN f[<<q[1], Mid(q) - 1>>]
             ELSE f[<<Mid(q) + 1, q[2]>>]]
    BY <1>5, <1>6
<1>8. Search(keys, key) =
        [q \in Ranges |->
             IF q[1] > q[2] THEN q[1]
             ELSE IF keys[Mid(q)] = key THEN Mid(q)
             ELSE IF key < keys[Mid(q)] THEN Search(keys, key)[<<q[1], Mid(q) - 1>>]
             ELSE Search(keys, key)[<<Mid(q) + 1, q[2]>>]]
    BY <1>7 DEF Search, Ranges, Mid
<1>9. PICK h : h = Search(keys, key)
    OBVIOUS
<1>10. h[r] = IF r[1] > r[2] THEN r[1]
              ELSE IF keys[Mid(r)] = key THEN Mid(r)
              ELSE IF key < keys[Mid(r)] THEN h[<<r[1], Mid(r) - 1>>]
              ELSE h[<<Mid(r) + 1, r[2]>>]
    BY <1>8, <1>9
<1>11. h[r] = IF Ends(keys, key, r) THEN End(r) ELSE h[GoesOn(keys, key, r)]
    BY <1>10 DEF Ends, End, GoesOn
<1> QED BY <1>9, <1>11

Sorted(keys, n) ==
    /\ \A i \in 0 .. n - 1 : keys[i] \in Nat
    /\ \A i, j \in 0 .. n - 1 : i < j => keys[i] < keys[j]

(* A range of the search that the place of the key is in.                     *)
Around(keys, key, n, r) ==
    /\ r[1] < n /\ r[2] <= n
    /\ \A i \in 0 .. n - 1 : (i < r[1] => keys[i] < key) /\ (i > r[2] => key < keys[i])

(* What fgoe() promises of n keys.                                            *)
Placed(keys, key, n, i) ==
    /\ i \in 0 .. n
    /\ \A j \in 0 .. n - 1 : (j < i => keys[j] < key) /\ (j >= i => key <= keys[j])

LEMMA SearchFinds ==
    ASSUME NEW keys, NEW key \in Nat, NEW n \in 1 .. 2 * L,
           Sorted(keys, n), key <= keys[n - 1]
    PROVE  \A r \in Ranges : Around(keys, key, n, r) =>
               Placed(keys, key, n, Search(keys, key)[r])
<1> DEFINE Right(r) == Around(keys, key, n, r) => Placed(keys, key, n, Search(keys, key)[r])
           Room(r) == r[2] - r[1] + 2 * L + 2
           Wrong == {w \in Nat : \E r \in Ranges : Room(r) = w /\ ~Right(r)}
<1>1. L \in Nat /\ n \in Nat /\ 1 <= n /\ n <= 2 * L
    BY LAssumption
<1>2. \A r \in Ranges : Room(r) \in Nat
  <2> SUFFICES ASSUME NEW r \in Ranges
               PROVE  Room(r) \in Nat
      OBVIOUS
  <2> QED BY <1>1, RangeParts
<1>3. Wrong = {}
  <2> SUFFICES ASSUME Wrong # {}
               PROVE  FALSE
      OBVIOUS
  <2>1. PICK w \in Wrong : \A y \in Wrong : w <= y
      BY HasLeast
  <2>2. PICK r \in Ranges : Room(r) = w /\ ~Right(r)
      BY <2>1
  <2>3. Around(keys, key, n, r)
      BY <2>2
  <2>4. \A q \in Ranges : Room(q) < Room(r) => Right(q)
    <3> SUFFICES ASSUME NEW q \in Ranges, Room(q) < Room(r), ~Right(q)
                 PROVE  FALSE
        OBVIOUS
    <3>1. Room(q) \in Wrong /\ Room(q) \in Nat /\ Room(r) \in Nat
        BY <1>2
    <3> HIDE DEF Wrong, Room, Right
    <3> QED BY <2>1, <2>2, <3>1
  <2> HIDE DEF Right
  <2>5. PICK a \in 0 .. 2 * L + 1, b \in -1 .. 2 * L : r = <<a, b>> /\ r[1] = a /\ r[2] = b
      BY RangeParts
  <2>6. /\ a < n /\ b <= n
        /\ \A i \in 0 .. n - 1 : (i < a => keys[i] < key) /\ (i > b => key < keys[i])
      BY <2>3, <2>5 DEF Around
  <2>7. \A i \in 0 .. n - 1 : keys[i] \in Nat
      BY DEF Sorted
  <2>8. CASE a > b
    <3>1. Search(keys, key)[r] = a
      <4>1. r[1] > r[2]
          BY <2>5, <2>8
      <4>2. Ends(keys, key, r) /\ End(r) = r[1]
          BY <4>1 DEF Ends, End
      <4>3. Search(keys, key)[r] = r[1]
          BY <4>2, SearchEquation
      <4> QED BY <2>5, <4>3
    <3>2. \A j \in 0 .. n - 1 : (j < a => keys[j] < key) /\ (j >= a => key <= keys[j])
      <4> SUFFICES ASSUME NEW j \in 0 .. n - 1, j >= a
                   PROVE  key <= keys[j]
          BY <2>6
      <4>1. j > b
          BY <2>8, <1>1
      <4> QED BY <2>6, <2>7, <4>1
    <3>3. Placed(keys, key, n, a)
        BY <2>6, <3>2, <1>1 DEF Placed
    <3> QED BY <2>2, <3>1, <3>3 DEF Right
  <2>9. CASE a <= b
    <3>1. PICK m : m = Mid(r)
        OBVIOUS
    <3>2. /\ m \in Slots /\ a <= m /\ m <= b
          /\ <<a, m - 1>> \in Ranges /\ <<m + 1, b>> \in Ranges
        BY <2>5, <2>9, <3>1, RangeNarrows
    <3>3. m \in 0 .. n - 1
        BY <2>5, <2>6, <2>9, <3>1, <1>1 DEF Mid
    <3>4. ~(a > b)
        BY <2>9
    <3>5. Search(keys, key)[r] =
               IF keys[m] = key THEN m
               ELSE IF key < keys[m] THEN Search(keys, key)[<<a, m - 1>>]
               ELSE Search(keys, key)[<<m + 1, b>>]
      <4>1. End(r) = m /\ (Ends(keys, key, r) <=> keys[m] = key)
          BY <2>5, <3>1, <3>4 DEF Ends, End
      <4>2. GoesOn(keys, key, r) = IF key < keys[m] THEN <<a, m - 1>> ELSE <<m + 1, b>>
          BY <2>5, <3>1 DEF GoesOn
      <4>3. Search(keys, key)[r] =
                IF Ends(keys, key, r) THEN m ELSE Search(keys, key)[GoesOn(keys, key, r)]
          BY <4>1, SearchEquation
      <4> QED BY <4>1, <4>2, <4>3
    <3>6. \A j \in 0 .. n - 1 : (j < m => keys[j] < keys[m]) /\ (j > m => keys[m] < keys[j])
        BY <3>3 DEF Sorted
    <3>7. keys[m] \in Nat
        BY <3>3, <2>7
    <3>8. CASE keys[m] = key
      <4>1. \A j \in 0 .. n - 1 : (j < m => keys[j] < key) /\ (j >= m => key <= keys[j])
          BY <3>3, <3>6, <3>8, <2>7
      <4>2. Placed(keys, key, n, m)
          BY <3>3, <4>1 DEF Placed
      <4> QED BY <2>2, <3>5, <3>8, <4>2 DEF Right
    <3>9. CASE keys[m] # key /\ key < keys[m]
      <4>1. Room(<<a, m - 1>>) < Room(r)
          BY <2>5, <3>2, <3>3, <1>1
      <4>2. Around(keys, key, n, <<a, m - 1>>)
        <5> SUFFICES ASSUME NEW i \in 0 .. n - 1, i > m - 1
                     PROVE  key < keys[i]
            BY <2>6, <3>3 DEF Around
        <5>1. i = m \/ i > m
            BY <3>3
        <5> QED BY <5>1, <3>6, <3>9, <3>7, <2>7
      <4>3. Placed(keys, key, n, Search(keys, key)[<<a, m - 1>>])
          BY <2>4, <3>2, <4>1, <4>2 DEF Right
      <4> QED BY <2>2, <3>5, <3>9, <4>3 DEF Right
    <3>10. CASE keys[m] # key /\ ~(key < keys[m])
      <4>1. Room(<<m + 1, b>>) < Room(r)
          BY <2>5, <3>2, <3>3, <1>1
      <4>2. keys[m] < key
          BY <3>7, <3>10
      <4>3. m + 1 < n
        <5> SUFFICES ASSUME m = n - 1
                     PROVE  FALSE
            BY <3>3, <1>1
        <5> QED BY <4>2, <3>7
      <4>4. Around(keys, key, n, <<m + 1, b>>)
        <5> SUFFICES ASSUME NEW i \in 0 .. n - 1, i < m + 1
                     PROVE  keys[i] < key
            BY <2>6, <4>3 DEF Around
        <5>1. i = m \/ i < m
            BY <3>3
        <5> QED BY <5>1, <3>6, <4>2, <3>7, <2>7
      <4>5. Placed(keys, key, n, Search(keys, key)[<<m + 1, b>>])
          BY <2>4, <3>2, <4>1, <4>4 DEF Right
      <4> QED BY <2>2, <3>5, <3>10, <4>5 DEF Right
    <3> QED BY <3>8, <3>9, <3>10
  <2> QED BY <2>8, <2>9
<1> SUFFICES ASSUME NEW r \in Ranges
             PROVE  Right(r)
    OBVIOUS
<1>4. Room(r) \in Nat /\ Room(r) \notin Wrong
    BY <1>2, <1>3
<1> QED BY <1>4

(* fgoe(): the first key that is greater or equal, or one past the last.      *)
LEMMA FgoeFinds ==
    ASSUME NEW nd, NEW key \in Nat, nd.n \in 0 .. 2 * L, Sorted(nd.keys, nd.n)
    PROVE  Placed(nd.keys, key, nd.n, Fgoe(nd, key))
<1>1. PICK keys, n : keys = nd.keys /\ n = nd.n
    OBVIOUS
<1>2. n \in 0 .. 2 * L /\ Sorted(keys, n) /\ L \in Nat
    BY <1>1, LAssumption
<1>3. CASE n = 0
    BY <1>1, <1>3 DEF Fgoe, Placed
<1>4. CASE n # 0 /\ key > keys[n - 1]
  <2>1. Fgoe(nd, key) = n
      BY <1>1, <1>4 DEF Fgoe
  <2>2. ASSUME NEW j \in 0 .. n - 1
        PROVE  keys[j] < key
    <3>1. n - 1 \in 0 .. n - 1 /\ (j = n - 1 \/ j < n - 1)
        BY <1>2, <1>4
    <3>2. keys[j] \in Nat /\ keys[n - 1] \in Nat /\ (j < n - 1 => keys[j] < keys[n - 1])
        BY <1>2, <3>1 DEF Sorted
    <3> QED BY <3>1, <3>2, <1>4
  <2> QED BY <1>1, <1>2, <2>1, <2>2 DEF Placed
<1>5. CASE n # 0 /\ ~(key > keys[n - 1])
  <2>1. Fgoe(nd, key) = Search(keys, key)[<<0, n>>]
      BY <1>1, <1>5 DEF Fgoe
  <2>2. n \in 1 .. 2 * L /\ n - 1 \in 0 .. n - 1
      BY <1>2, <1>5
  <2>3. key <= keys[n - 1]
    <3>1. keys[n - 1] \in Nat
        BY <1>2, <2>2 DEF Sorted
    <3> QED BY <1>5, <3>1
  <2>4. <<0, n>> \in Ranges /\ Around(keys, key, n, <<0, n>>)
      BY <2>2, <1>2 DEF Ranges, Around
  <2> QED BY <1>1, <1>2, <2>1, <2>2, <2>3, <2>4, SearchFinds
<1> QED BY <1>3, <1>4, <1>5

-----------------------------------------------------------------------------
(* The nodes, one by one.  The least key lo that belongs to a node is not in *)
(* it, nor what is below: `kids' pairs the children it may have with their    *)
(* least keys.                                                                *)
Shape == [leaf : BOOLEAN, root : BOOLEAN, right : Nat \cup {NoNode}, high : Nat,
          n : 0 .. 2 * L, keys : [Slots -> Nat \cup {Junk}],
          slots : [Slots -> Nat \cup Value \cup {Absent, Junk}]]

InRange(nd, lo, key) == lo <= key /\ (nd.right # NoNode => key < nd.high)

Ascends(nd, lo) ==
    /\ Sorted(nd.keys, nd.n)
    /\ \A i \in 0 .. nd.n - 1 : InRange(nd, lo, nd.keys[i])
    /\ nd.right # NoNode => lo < nd.high

(* Beyond the keys of a leaf there is nothing of its range.                   *)
LeafFits(nd) ==
    nd.leaf =>
        /\ \A i \in Slots : nd.slots[i] \in Value \cup {Absent, Junk}
        /\ \A i \in nd.n .. 2 * L : nd.keys[i] # Junk =>
              IF nd.right # NoNode THEN nd.high <= nd.keys[i]
              ELSE nd.keys[i] = 0 /\ nd.slots[i] = Absent

(* The first child begins where the node does, and each other with the key    *)
(* before it: also beyond the node's keys, as far as there is something.      *)
ChildrenFit(nd, lo, kids, off) ==
    ~nd.leaf =>
        /\ <<nd.slots[0], lo>> \in kids
        /\ \A i \in 0 .. 2 * L - 1 :
              nd.keys[i] # Junk => <<nd.slots[i + 1], nd.keys[i]>> \in kids
        /\ \A i \in Slots : nd.slots[i] \in off \cup {Junk}

WellMade(nd, lo, kids, off) ==
    /\ nd \in Shape
    /\ nd.keys[2 * L] = Junk
    /\ Ascends(nd, lo)
    /\ LeafFits(nd)
    /\ ChildrenFit(nd, lo, kids, off)

HasPair(nd, k, v) == \E i \in 0 .. nd.n - 1 : nd.keys[i] = k /\ nd.slots[i] = v
HasKey(nd, k) == \E i \in 0 .. nd.n - 1 : nd.keys[i] = k
Children(nd) == {nd.slots[i] : i \in 0 .. nd.n}
SameFrame(nd, new) ==
    new.leaf = nd.leaf /\ new.root = nd.root /\ new.right = nd.right /\ new.high = nd.high

(* What InsertSlot makes of a.                                                *)
Insertion(a, b, i, cnt, x) ==
    /\ b = [j \in Slots |-> b[j]]
    /\ b[i] = x
    /\ \A j \in Slots :
          /\ j < i \/ j > i + cnt => b[j] = a[j]
          /\ j > i /\ j <= i + cnt => b[j] = a[j - 1]

LEMMA Inserted ==
    ASSUME NEW a, NEW x, NEW i \in Slots, NEW cnt \in Nat, i + cnt \in Slots
    PROVE  Insertion(a, InsertSlot(a, i, cnt, x), i, cnt, x)
<1>1. L \in Nat
    BY LAssumption
<1>2. \A j \in Slots : j \in i + 1 .. i + cnt <=> j > i /\ j <= i + cnt
    BY <1>1 DEF Slots
<1> DEFINE b == [j \in Slots |-> IF j = i THEN x ELSE IF j \in i + 1 .. i + cnt THEN a[j - 1] ELSE a[j]]
<1>4. InsertSlot(a, i, cnt, x) = b
    BY DEF InsertSlot
<1>5. \A j \in Slots : j \in Int /\ i \in Int
    BY <1>1 DEF Slots
<1>6. DOMAIN b = Slots /\ b = [j \in Slots |-> b[j]]
    OBVIOUS
<1>7. /\ b[i] = x
      /\ \A j \in Slots :
                 /\ j < i \/ j > i + cnt => b[j] = a[j]
                 /\ j > i /\ j <= i + cnt => b[j] = a[j - 1]
    BY <1>2, <1>5
<1> HIDE DEF b
<1> QED BY <1>4, <1>6, <1>7 DEF Insertion

(* An array of T's, with one more of them.                                    *)
LEMMA InsertedType ==
    ASSUME NEW T, NEW a \in [Slots -> T], NEW x \in T, NEW i \in Slots,
           NEW cnt \in Nat, i + cnt \in Slots
    PROVE  InsertSlot(a, i, cnt, x) \in [Slots -> T]
<1>1. L \in Nat
    BY LAssumption
<1>2. PICK b : b = InsertSlot(a, i, cnt, x)
    OBVIOUS
<1>3. /\ b = [j \in Slots |-> b[j]]
      /\ b[i] = x
      /\ \A j \in Slots :
                 /\ j < i \/ j > i + cnt => b[j] = a[j]
                 /\ j > i /\ j <= i + cnt => b[j] = a[j - 1]
    BY <1>2, Inserted DEF Insertion
<1>4. ASSUME NEW j \in Slots
      PROVE  b[j] \in T
  <2>1. j \in Int /\ i \in Int /\ (j > i => j - 1 \in Slots)
      BY <1>1 DEF Slots
  <2> QED BY <2>1, <1>3
<1> QED BY <1>2, <1>3, <1>4

LEMMA KeyInserted ==
    ASSUME NEW keys \in [Slots -> Nat \cup {Junk}], NEW key \in Nat, NEW n \in 0 .. 2 * L - 1,
           Sorted(keys, n), NEW i, Placed(keys, key, n, i), \A j \in 0 .. n - 1 : keys[j] # key
    PROVE  LET new == InsertSlot(keys, i, n - i, key) IN
           /\ new \in [Slots -> Nat \cup {Junk}]
           /\ Sorted(new, n + 1)
           /\ new[i] = key
           /\ \A j \in Slots :
                 /\ j < i \/ j > n => new[j] = keys[j]
                 /\ j > i /\ j <= n => new[j] = keys[j - 1]
<1>1. L \in Nat /\ n \in Nat /\ n < 2 * L
    BY LAssumption
<1>2. i \in 0 .. n /\ i \in Slots /\ n - i \in Nat /\ i + (n - i) = n /\ n \in Slots
    BY <1>1 DEF Placed, Slots
<1>3. PICK new : new = InsertSlot(keys, i, n - i, key)
    OBVIOUS
<1>4. /\ new \in [Slots -> Nat \cup {Junk}]
      /\ new[i] = key
      /\ \A j \in Slots :
                 /\ j < i \/ j > n => new[j] = keys[j]
                 /\ j > i /\ j <= n => new[j] = keys[j - 1]
  <2>1. key \in Nat \cup {Junk}
      OBVIOUS
  <2>2. PICK cnt \in Nat : cnt = n - i /\ i + cnt = n
      BY <1>2
  <2>3. new = InsertSlot(keys, i, cnt, key)
      BY <1>3, <2>2
  <2>4. PICK T : T = Nat \cup {Junk}
      OBVIOUS
  <2>5. keys \in [Slots -> T] /\ key \in T /\ i \in Slots /\ i + cnt \in Slots
      BY <1>2, <2>1, <2>2, <2>4
  <2>6. new \in [Slots -> T]
      BY <2>2, <2>3, <2>4, <2>5, InsertedType
  <2>7. Insertion(keys, new, i, cnt, key)
      BY <2>2, <2>3, <2>5, Inserted
  <2> QED BY <2>2, <2>4, <2>6, <2>7 DEF Insertion
<1>5. \A j \in 0 .. n : j \in Slots /\ j \in Nat
    BY <1>1 DEF Slots
<1>6. \A j \in 0 .. n - 1 : keys[j] \in Nat /\ (j < i => keys[j] < key) /\ (j >= i => key < keys[j])
  <2> SUFFICES ASSUME NEW j \in 0 .. n - 1
               PROVE  keys[j] \in Nat /\ (j < i => keys[j] < key) /\ (j >= i => key < keys[j])
      OBVIOUS
  <2>1. keys[j] \in Nat /\ keys[j] # key
      BY DEF Sorted
  <2>2. (j < i => keys[j] < key) /\ (j >= i => key <= keys[j])
      BY DEF Placed
  <2> QED BY <2>1, <2>2
<1>7. ASSUME NEW j \in 0 .. n
      PROVE  /\ new[j] \in Nat
             /\ \A h \in 0 .. n : j < h => new[j] < new[h]
  <2>1. j \in 0 .. n /\ i \in 0 .. n /\ j \in Slots
      BY <1>2, <1>5
  <2>2. CASE j < i
    <3>1. new[j] = keys[j] /\ j \in 0 .. n - 1
        BY <1>4, <2>1, <2>2
    <3>2. ASSUME NEW h \in 0 .. n, j < h
          PROVE  new[j] < new[h]
      <4>1. h \in Slots
          BY <1>5
      <4>2. CASE h = i
          BY <1>4, <1>6, <2>2, <3>1, <4>2
      <4>3. CASE h < i
        <5>1. new[h] = keys[h] /\ h \in 0 .. n - 1
            BY <1>4, <4>1, <4>3, <2>1
        <5> QED BY <3>1, <3>2, <5>1 DEF Sorted
      <4>4. CASE h > i
        <5>1. new[h] = keys[h - 1] /\ h - 1 \in 0 .. n - 1 /\ j < h - 1
            BY <1>4, <4>1, <4>4, <2>1, <2>2
        <5> QED BY <3>1, <5>1 DEF Sorted
      <4> QED BY <4>2, <4>3, <4>4, <2>1
    <3> QED BY <3>1, <3>2, <1>6
  <2>3. CASE j = i
    <3> SUFFICES ASSUME NEW h \in 0 .. n, j < h
                 PROVE  new[j] < new[h]
        BY <1>4, <2>3
    <3>1. h \in Slots /\ h - 1 \in 0 .. n - 1 /\ h - 1 >= i
        BY <1>5, <2>1, <2>3
    <3>2. new[h] = keys[h - 1]
        BY <1>4, <3>1, <2>3
    <3> QED BY <1>4, <1>6, <2>3, <3>1, <3>2
  <2>4. CASE j > i
    <3>1. new[j] = keys[j - 1] /\ j - 1 \in 0 .. n - 1
        BY <1>4, <2>1, <2>4
    <3>2. ASSUME NEW h \in 0 .. n, j < h
          PROVE  new[j] < new[h]
      <4>1. h \in Slots /\ h > i /\ h <= n
          BY <1>5, <3>2, <2>1, <2>4
      <4>2. new[h] = keys[h - 1] /\ h - 1 \in 0 .. n - 1 /\ j - 1 < h - 1
          BY <1>4, <4>1, <3>2, <2>1, <2>4
      <4> QED BY <3>1, <4>2 DEF Sorted
    <3> QED BY <3>1, <3>2, <1>6
  <2> QED BY <2>1, <2>2, <2>3, <2>4
<1>8. Sorted(new, n + 1)
  <2>1. 0 .. n + 1 - 1 = 0 .. n
      BY <1>1
  <2> QED BY <2>1, <1>7 DEF Sorted
<1> QED BY <1>3, <1>4, <1>8

(* btnodeAddKeyValue() in a leaf that has room. *)
LEMMA PairAdded ==
    ASSUME NEW nd, NEW lo \in Nat, NEW kids, NEW off, NEW key \in Nat,
           NEW value \in Value \cup {Absent},
           WellMade(nd, lo, kids, off), nd.leaf, nd.n < 2 * L, InRange(nd, lo, key)
    PROVE  /\ WellMade(AddKeyValue(nd, key, value), lo, kids, off)
           /\ SameFrame(nd, AddKeyValue(nd, key, value))
           /\ \A k, v : HasPair(AddKeyValue(nd, key, value), k, v) <=>
                            IF k = key THEN v = value ELSE HasPair(nd, k, v)
<1>1. L \in Nat /\ L >= 2
    BY LAssumption
<1>2. PICK n \in 0 .. 2 * L - 1 : n = nd.n
    BY <1>1 DEF WellMade, Shape
<1>3. PICK keys \in [Slots -> Nat \cup {Junk}] : keys = nd.keys
    BY DEF WellMade, Shape
<1>4. PICK slots \in [Slots -> Nat \cup Value \cup {Absent, Junk}] : slots = nd.slots
    BY DEF WellMade, Shape
<1>5. Sorted(keys, n) /\ keys[2 * L] = Junk
    BY <1>2, <1>3 DEF WellMade, Ascends
<1>6. PICK i \in 0 .. n : i = Fgoe(nd, key) /\ Placed(keys, key, n, i)
  <2>1. nd.n \in 0 .. 2 * L /\ Sorted(nd.keys, nd.n)
      BY <1>1, <1>2, <1>3, <1>5
  <2>2. Placed(keys, key, n, Fgoe(nd, key))
      BY <1>2, <1>3, <2>1, FgoeFinds
  <2> QED BY <2>2 DEF Placed
<1>7. i \in Slots /\ n \in Slots /\ n # 2 * L /\ 0 .. n \subseteq Slots /\ 2 * L \in Slots
    BY <1>1 DEF Slots
<1>8. PICK new : new = AddKeyValue(nd, key, value)
    OBVIOUS
<1>9. CASE i < n /\ keys[i] = key
  <2>1. new = [nd EXCEPT !.slots[i] = value]
      BY <1>2, <1>3, <1>6, <1>7, <1>8, <1>9 DEF AddKeyValue
  <2>2. PICK ns : ns = [slots EXCEPT ![i] = value]
      OBVIOUS
  <2>3. /\ new \in Shape /\ SameFrame(nd, new) /\ new.n = n
        /\ new.keys = keys /\ new.slots = ns
      BY <2>1, <2>2, <1>2, <1>3, <1>4, <1>7 DEF WellMade, Shape, SameFrame
  <2>4. /\ \A j \in Slots : j # i => ns[j] = slots[j]
        /\ ns[i] = value
      BY <2>2, <1>7
  <2>5. Ascends(new, lo)
      BY <2>3, <1>2, <1>3 DEF WellMade, Ascends, SameFrame, InRange
  <2>6. LeafFits(new)
    <3>1. \A j \in Slots : ns[j] \in Value \cup {Absent, Junk}
        BY <2>4, <1>4 DEF WellMade, LeafFits
    <3>2. \A j \in n .. 2 * L : j \in Slots /\ j # i
        BY <1>9, <1>1 DEF Slots
    <3>3. \A j \in n .. 2 * L : keys[j] # Junk =>
              IF nd.right # NoNode THEN nd.high <= keys[j]
              ELSE keys[j] = 0 /\ ns[j] = Absent
        BY <3>2, <2>4, <1>2, <1>3, <1>4 DEF WellMade, LeafFits
    <3> QED BY <3>1, <3>3, <2>3 DEF LeafFits, SameFrame
  <2>7. WellMade(new, lo, kids, off)
      BY <2>3, <2>5, <2>6, <1>5 DEF WellMade, ChildrenFit, SameFrame
  <2>8. \A k, v : HasPair(new, k, v) <=> IF k = key THEN v = value ELSE HasPair(nd, k, v)
    <3>1. \A j \in 0 .. n - 1 : keys[j] = key => j = i
      <4> SUFFICES ASSUME NEW j \in 0 .. n - 1, keys[j] = key, j # i
                   PROVE  FALSE
          OBVIOUS
      <4>1. i \in 0 .. n - 1 /\ (j < i \/ i < j)
          BY <1>9
      <4> QED BY <4>1, <1>5, <1>9 DEF Sorted
    <3>2. i \in 0 .. n - 1 /\ \A j \in 0 .. n - 1 : j \in Slots
        BY <1>9, <1>7
    <3> QED BY <3>1, <3>2, <2>3, <2>4, <1>2, <1>3, <1>4, <1>9 DEF HasPair
  <2> QED BY <2>3, <2>7, <2>8, <1>8
<1>10. CASE ~(i < n /\ keys[i] = key)
  <2>1. \A j \in 0 .. n - 1 : keys[j] # key
    <3> SUFFICES ASSUME NEW j \in 0 .. n - 1, keys[j] = key
                 PROVE  FALSE
        OBVIOUS
    <3>1. ~(j < i)
        BY <1>6 DEF Placed
    <3>2. i \in 0 .. n - 1 /\ (i = j \/ i < j)
        BY <3>1
    <3>3. keys[i] \in Nat /\ key <= keys[i] /\ (i < j => keys[i] < keys[j])
        BY <3>2, <1>5, <1>6 DEF Sorted, Placed
    <3> QED BY <3>2, <3>3, <1>10
  <2>2. i = nd.n \/ nd.keys[i] # key
      BY <1>2, <1>3, <1>10
  <2>3. PICK nk : nk = InsertSlot(keys, i, n - i, key)
      OBVIOUS
  <2>4. PICK ns : ns = InsertSlot(slots, i, n - i, value)
      OBVIOUS
  <2>5. new = [nd EXCEPT !.keys = nk, !.slots = ns, !.n = n + 1]
      BY <2>2, <2>3, <2>4, <1>2, <1>3, <1>4, <1>6, <1>7, <1>8 DEF AddKeyValue
  <2>6. /\ nk \in [Slots -> Nat \cup {Junk}]
        /\ Sorted(nk, n + 1)
        /\ nk[i] = key
        /\ \A j \in Slots :
                 /\ j < i \/ j > n => nk[j] = keys[j]
                 /\ j > i /\ j <= n => nk[j] = keys[j - 1]
      BY <2>1, <2>3, <1>5, <1>6, KeyInserted
  <2>7. /\ ns \in [Slots -> Value \cup {Absent, Junk}]
        /\ ns[i] = value
        /\ \A j \in Slots :
                 /\ j < i \/ j > n => ns[j] = slots[j]
                 /\ j > i /\ j <= n => ns[j] = slots[j - 1]
    <3>1. PICK cnt \in Nat : cnt = n - i /\ i + cnt = n
        BY <1>6
    <3>2. PICK T : T = Value \cup {Absent, Junk}
        OBVIOUS
    <3>3. slots \in [Slots -> T] /\ value \in T /\ i + cnt \in Slots
        BY <3>1, <3>2, <1>4, <1>7 DEF WellMade, LeafFits
    <3>4. ns = InsertSlot(slots, i, cnt, value)
        BY <2>4, <3>1
    <3>5. ns \in [Slots -> T]
        BY <1>7, <3>1, <3>3, <3>4, InsertedType
    <3>6. Insertion(slots, ns, i, cnt, value)
        BY <1>7, <3>1, <3>3, <3>4, Inserted
    <3> QED BY <3>1, <3>2, <3>5, <3>6 DEF Insertion
  <2>8. n + 1 \in 0 .. 2 * L /\ n \in Nat /\ i \in Nat /\ i <= n
      BY <1>1
  <2>9. /\ new \in Shape /\ SameFrame(nd, new) /\ new.n = n + 1
        /\ new.keys = nk /\ new.slots = ns
    <3>1. ns \in [Slots -> Nat \cup Value \cup {Absent, Junk}]
        BY <2>7
    <3> QED BY <2>5, <2>6, <2>8, <3>1 DEF WellMade, Shape, SameFrame
  <2>10. Ascends(new, lo)
    <3>1. ASSUME NEW j \in 0 .. n
          PROVE  InRange(nd, lo, nk[j])
      <4>1. j \in Slots /\ \A h \in 0 .. n - 1 : InRange(nd, lo, keys[h])
          BY <1>2, <1>3, <1>7 DEF WellMade, Ascends
      <4>2. CASE j < i
        <5>1. nk[j] = keys[j] /\ j \in 0 .. n - 1
            BY <2>6, <2>8, <4>1, <4>2
        <5> QED BY <5>1, <4>1
      <4>3. CASE j = i
          BY <2>6, <4>3
      <4>4. CASE j > i
        <5>1. nk[j] = keys[j - 1] /\ j - 1 \in 0 .. n - 1
            BY <2>6, <2>8, <4>1, <4>4
        <5> QED BY <5>1, <4>1
      <4> QED BY <4>2, <4>3, <4>4, <2>8
    <3>2. n + 1 - 1 = n
        BY <2>8
    <3> QED BY <3>1, <3>2, <2>6, <2>9 DEF WellMade, Ascends, SameFrame, InRange
  <2>11. LeafFits(new)
    <3>1. \A j \in n + 1 .. 2 * L : j \in Slots /\ j > n /\ j \in n .. 2 * L
        BY <1>1 DEF Slots
    <3>2. \A j \in n + 1 .. 2 * L : nk[j] = keys[j] /\ ns[j] = slots[j]
        BY <3>1, <2>6, <2>7
    <3>3. \A j \in n + 1 .. 2 * L : nk[j] # Junk =>
              IF nd.right # NoNode THEN nd.high <= nk[j]
              ELSE nk[j] = 0 /\ ns[j] = Absent
        BY <3>1, <3>2, <1>2, <1>3, <1>4 DEF WellMade, LeafFits
    <3> QED BY <3>3, <2>7, <2>9 DEF LeafFits, SameFrame
  <2>12. nk[2 * L] = Junk
      BY <1>5, <1>7, <2>6, <1>1
  <2>13. WellMade(new, lo, kids, off)
      BY <2>9, <2>10, <2>11, <2>12 DEF WellMade, ChildrenFit, SameFrame
  <2>14. ASSUME NEW k, NEW v
         PROVE  HasPair(new, k, v) <=> IF k = key THEN v = value ELSE HasPair(nd, k, v)
    <3>1. HasPair(new, k, v) <=> \E j \in 0 .. n : nk[j] = k /\ ns[j] = v
      <4>1. n + 1 - 1 = n
          BY <2>8
      <4> QED BY <4>1, <2>9 DEF HasPair
    <3>2. HasPair(nd, k, v) <=> \E j \in 0 .. n - 1 : keys[j] = k /\ slots[j] = v
        BY <1>2, <1>3, <1>4 DEF HasPair
    <3>3. ASSUME NEW j \in 0 .. n, j # i
          PROVE  \E h \in 0 .. n - 1 : nk[j] = keys[h] /\ ns[j] = slots[h]
      <4>1. CASE j < i
        <5>1. j \in Slots /\ j \in 0 .. n - 1
            BY <4>1, <2>8, <1>7
        <5> QED BY <5>1, <4>1, <2>6, <2>7
      <4>2. CASE j > i
        <5>1. j \in Slots /\ j - 1 \in 0 .. n - 1 /\ j <= n
            BY <4>2, <2>8, <1>7
        <5> QED BY <5>1, <4>2, <2>6, <2>7
      <4> QED BY <3>3, <4>1, <4>2, <2>8
    <3>4. ASSUME NEW h \in 0 .. n - 1
          PROVE  \E j \in 0 .. n : nk[j] = keys[h] /\ ns[j] = slots[h]
      <4>1. CASE h < i
        <5>1. h \in Slots /\ h \in 0 .. n
            BY <4>1, <2>8, <1>7
        <5> QED BY <5>1, <4>1, <2>6, <2>7
      <4>2. CASE h >= i
        <5>1. h + 1 \in Slots /\ h + 1 \in 0 .. n /\ h + 1 <= n /\ h + 1 > i /\ (h + 1) - 1 = h
            BY <4>2, <2>8, <1>7
        <5> QED BY <5>1, <2>6, <2>7
      <4> QED BY <4>1, <4>2, <2>8
    <3>5. CASE k = key
      <4>1. \A j \in 0 .. n : nk[j] = k /\ ns[j] = v => j = i
          BY <3>3, <3>5, <2>1
      <4> QED BY <3>1, <3>5, <4>1, <2>6, <2>7, <2>8
    <3>6. CASE k # key
      <4>1. ASSUME NEW j \in 0 .. n, nk[j] = k, ns[j] = v
            PROVE  \E h \in 0 .. n - 1 : keys[h] = k /\ slots[h] = v
        <5>1. j # i
            BY <4>1, <3>6, <2>6
        <5> QED BY <5>1, <4>1, <3>3
      <4>2. ASSUME NEW h \in 0 .. n - 1, keys[h] = k, slots[h] = v
            PROVE  \E j \in 0 .. n : nk[j] = k /\ ns[j] = v
          BY <3>4, <4>2
      <4> QED BY <3>1, <3>2, <3>6, <4>1, <4>2
    <3> QED BY <3>5, <3>6
  <2> QED BY <2>9, <2>13, <2>14, <1>8
<1> QED BY <1>9, <1>10

-----------------------------------------------------------------------------
(* btnodeAddKeyChild() in an internal node that has room. *)
LEMMA ChildAdded ==
    ASSUME NEW nd, NEW lo \in Nat, NEW kids, NEW off \in SUBSET Nat, NEW key \in Nat,
           NEW child \in off, <<child, key>> \in kids,
           WellMade(nd, lo, kids, off), ~nd.leaf, nd.n < 2 * L, InRange(nd, lo, key),
           ~HasKey(nd, key)
    PROVE  /\ WellMade(AddKeyChild(nd, key, child), lo, kids, off)
           /\ SameFrame(nd, AddKeyChild(nd, key, child))
           /\ Children(AddKeyChild(nd, key, child)) = Children(nd) \cup {child}
<1>1. L \in Nat /\ L >= 2
    BY LAssumption
<1>2. PICK n \in 0 .. 2 * L - 1 : n = nd.n
    BY <1>1 DEF WellMade, Shape
<1>3. PICK keys \in [Slots -> Nat \cup {Junk}] : keys = nd.keys
    BY DEF WellMade, Shape
<1>4. PICK slots \in [Slots -> Nat \cup Value \cup {Absent, Junk}] : slots = nd.slots
    BY DEF WellMade, Shape
<1>5. Sorted(keys, n) /\ keys[2 * L] = Junk
    BY <1>2, <1>3 DEF WellMade, Ascends
<1>6. PICK i \in 0 .. n : i = Fgoe(nd, key) /\ Placed(keys, key, n, i)
  <2>1. nd.n \in 0 .. 2 * L /\ Sorted(nd.keys, nd.n)
      BY <1>1, <1>2, <1>3, <1>5
  <2>2. Placed(keys, key, n, Fgoe(nd, key))
      BY <1>2, <1>3, <2>1, FgoeFinds
  <2> QED BY <2>2 DEF Placed
<1>7. i \in Slots /\ i + 1 \in Slots /\ n \in Slots /\ 0 .. n \subseteq Slots /\ 2 * L \in Slots
    BY <1>1 DEF Slots
<1>8. PICK new : new = AddKeyChild(nd, key, child)
    OBVIOUS
<1>9. PICK nk : nk = InsertSlot(keys, i, n - i, key)
    OBVIOUS
<1>10. PICK ns : ns = InsertSlot(slots, i + 1, n - i, child)
    OBVIOUS
<1>11. new = [nd EXCEPT !.keys = nk, !.slots = ns, !.n = n + 1]
    BY <1>2, <1>3, <1>4, <1>6, <1>8, <1>9, <1>10 DEF AddKeyChild
<1>12. /\ nk \in [Slots -> Nat \cup {Junk}]
       /\ Sorted(nk, n + 1)
       /\ nk[i] = key
       /\ \A j \in Slots :
                 /\ j < i \/ j > n => nk[j] = keys[j]
                 /\ j > i /\ j <= n => nk[j] = keys[j - 1]
  <2>1. \A j \in 0 .. n - 1 : keys[j] # key
      BY <1>2, <1>3 DEF HasKey
  <2> QED BY <2>1, <1>5, <1>6, <1>9, KeyInserted
<1>13. /\ ns \in [Slots -> Nat \cup Value \cup {Absent, Junk}]
       /\ ns[i + 1] = child
       /\ \A j \in Slots :
                 /\ j < i + 1 \/ j > n + 1 => ns[j] = slots[j]
                 /\ j > i + 1 /\ j <= n + 1 => ns[j] = slots[j - 1]
  <2>1. PICK cnt \in Nat, h \in Slots : cnt = n - i /\ h + cnt = n + 1 /\ h = i + 1
      BY <1>6, <1>7
  <2>2. PICK T : T = Nat \cup Value \cup {Absent, Junk}
      OBVIOUS
  <2>3. slots \in [Slots -> T] /\ child \in T /\ h + cnt \in Slots
      BY <1>1, <2>1, <2>2 DEF Slots
  <2>4. ns = InsertSlot(slots, h, cnt, child)
      BY <1>10, <2>1
  <2>5. ns \in [Slots -> T]
      BY <2>1, <2>3, <2>4, InsertedType
  <2>6. /\ ns[h] = child
        /\ \A j \in Slots :
                 /\ j < h \/ j > h + cnt => ns[j] = slots[j]
                 /\ j > h /\ j <= h + cnt => ns[j] = slots[j - 1]
    <3>1. Insertion(slots, ns, h, cnt, child)
        BY <2>1, <2>3, <2>4, Inserted
    <3> QED BY <3>1 DEF Insertion
  <2> QED BY <2>1, <2>2, <2>5, <2>6
<1>14. n + 1 \in 0 .. 2 * L /\ n \in Nat /\ i \in Nat /\ i <= n
    BY <1>1
<1>15. /\ new \in Shape /\ SameFrame(nd, new) /\ new.n = n + 1
       /\ new.keys = nk /\ new.slots = ns
    BY <1>11, <1>12, <1>13, <1>14 DEF WellMade, Shape, SameFrame
<1>16. Ascends(new, lo)
  <2>1. ASSUME NEW j \in 0 .. n
        PROVE  InRange(nd, lo, nk[j])
    <3>1. j \in Slots /\ \A h \in 0 .. n - 1 : InRange(nd, lo, keys[h])
        BY <1>2, <1>3, <1>7 DEF WellMade, Ascends
    <3>2. CASE j < i
      <4>1. nk[j] = keys[j] /\ j \in 0 .. n - 1
          BY <1>12, <1>14, <3>1, <3>2
      <4> QED BY <4>1, <3>1
    <3>3. CASE j = i
        BY <1>12, <3>3
    <3>4. CASE j > i
      <4>1. nk[j] = keys[j - 1] /\ j - 1 \in 0 .. n - 1
          BY <1>12, <1>14, <3>1, <3>4
      <4> QED BY <4>1, <3>1
    <3> QED BY <3>2, <3>3, <3>4, <1>14
  <2>2. n + 1 - 1 = n
      BY <1>14
  <2> QED BY <2>1, <2>2, <1>12, <1>15 DEF WellMade, Ascends, SameFrame, InRange
<1>17. nk[2 * L] = Junk
    BY <1>5, <1>7, <1>12, <1>1
<1>18. /\ <<slots[0], lo>> \in kids
       /\ \A j \in 0 .. 2 * L - 1 : keys[j] # Junk => <<slots[j + 1], keys[j]>> \in kids
       /\ \A j \in Slots : slots[j] \in off \cup {Junk}
    BY <1>3, <1>4 DEF WellMade, ChildrenFit
<1>19. ChildrenFit(new, lo, kids, off)
  <2>1. ns[0] = slots[0]
      BY <1>13, <1>14, <1>1 DEF Slots
  <2>2. ASSUME NEW j \in 0 .. 2 * L - 1, nk[j] # Junk
        PROVE  <<ns[j + 1], nk[j]>> \in kids
    <3>1. j \in Slots /\ j + 1 \in Slots /\ (j + 1) - 1 = j /\ (j > i => (j - 1) + 1 = j)
        BY <1>1 DEF Slots
    <3>2. CASE j < i
      <4>1. nk[j] = keys[j] /\ ns[j + 1] = slots[j + 1]
          BY <3>1, <3>2, <1>12, <1>13, <1>14
      <4> QED BY <4>1, <2>2, <1>18
    <3>3. CASE j = i
        BY <3>3, <1>12, <1>13
    <3>4. CASE j > i /\ j <= n
      <4>1. nk[j] = keys[j - 1] /\ ns[j + 1] = slots[(j - 1) + 1]
          BY <3>1, <3>4, <1>12, <1>13, <1>14
      <4>2. j - 1 \in 0 .. 2 * L - 1
          BY <3>4, <2>2, <1>14, <1>1
      <4> QED BY <4>1, <4>2, <2>2, <1>18
    <3>5. CASE j > n
      <4>1. nk[j] = keys[j] /\ ns[j + 1] = slots[j + 1]
          BY <3>1, <3>5, <1>12, <1>13, <1>14
      <4> QED BY <4>1, <2>2, <1>18
    <3> QED BY <3>2, <3>3, <3>4, <3>5, <1>14
  <2>3. ASSUME NEW j \in Slots
        PROVE  ns[j] \in off \cup {Junk}
    <3>1. j \in Nat /\ (j > i + 1 /\ j <= n + 1 => j - 1 \in Slots)
        BY <1>14, <1>1 DEF Slots
    <3>2. j < i + 1 \/ j > n + 1 \/ j = i + 1 \/ (j > i + 1 /\ j <= n + 1)
        BY <3>1, <1>14
    <3> QED BY <3>1, <3>2, <1>13, <1>18
  <2> QED BY <2>1, <2>2, <2>3, <1>15, <1>18 DEF ChildrenFit
<1>20. WellMade(new, lo, kids, off)
    BY <1>15, <1>16, <1>17, <1>19 DEF WellMade, LeafFits, SameFrame
<1>21. Children(new) = Children(nd) \cup {child}
  <2>1. Children(nd) = {slots[j] : j \in 0 .. n} /\ Children(new) = {ns[j] : j \in 0 .. n + 1}
      BY <1>2, <1>4, <1>15 DEF Children
  <2>2. ASSUME NEW j \in 0 .. n
        PROVE  \E h \in 0 .. n + 1 : ns[h] = slots[j]
    <3>1. j \in Slots /\ j + 1 \in Slots /\ (j + 1) - 1 = j /\ j + 1 \in 0 .. n + 1 /\ j \in 0 .. n + 1
        BY <1>1, <1>14 DEF Slots
    <3>2. CASE j < i + 1
        BY <3>1, <3>2, <1>13
    <3>3. CASE j >= i + 1
      <4>1. j + 1 > i + 1 /\ j + 1 <= n + 1
          BY <3>3, <1>14
      <4> QED BY <3>1, <4>1, <1>13
    <3> QED BY <3>2, <3>3, <1>14
  <2>3. ASSUME NEW j \in 0 .. n + 1, j # i + 1
        PROVE  \E h \in 0 .. n : ns[j] = slots[h]
    <3>1. j \in Slots /\ (j > i + 1 => j - 1 \in 0 .. n) /\ (j < i + 1 => j \in 0 .. n)
        BY <1>1, <1>14 DEF Slots
    <3>2. j < i + 1 \/ (j > i + 1 /\ j <= n + 1)
        BY <2>3, <1>14
    <3> QED BY <3>1, <3>2, <1>13
  <2>4. i + 1 \in 0 .. n + 1
      BY <1>14
  <2> QED BY <2>1, <2>2, <2>3, <2>4, <1>13
<1> QED BY <1>8, <1>15, <1>20, <1>21

(* What is in two halves is what was in the node.                             *)
SharePairs(nd, a, b) == \A k, v : HasPair(nd, k, v) <=> HasPair(a, k, v) \/ HasPair(b, k, v)
ShareChildren(nd, a, b) == Children(nd) = Children(a) \cup Children(b)

(* btnodeSplit() of a full node: both halves, if no child is left out. *)
LEMMA SplitMade ==
    ASSUME NEW nd, NEW lo \in Nat, NEW kids, NEW off \in SUBSET Nat, NEW r \in Nat,
           WellMade(nd, lo, kids, off), nd.n = 2 * L, L <= Copied
    PROVE  /\ nd.keys[L] \in Nat /\ lo < nd.keys[L]
           /\ nd.right # NoNode => nd.keys[L] < nd.high
           /\ LET left == SplitLeft(nd, r) IN
              /\ WellMade(left, lo, kids, off)
              /\ left.leaf = nd.leaf /\ ~left.root /\ left.right = r
              /\ left.high = nd.keys[L] /\ left.n < 2 * L
              /\ \A k : HasKey(left, k) => HasKey(nd, k)
           /\ LET right == SplitRight(nd) IN
              /\ WellMade(right, nd.keys[L], kids, off)
              /\ right.leaf = nd.leaf /\ ~right.root /\ right.right = nd.right
              /\ right.high = nd.high /\ right.n < 2 * L
              /\ \A k : HasKey(right, k) => HasKey(nd, k)
           /\ nd.leaf => SharePairs(nd, SplitLeft(nd, r), SplitRight(nd))
           /\ ~nd.leaf => ShareChildren(nd, SplitLeft(nd, r), SplitRight(nd))
<1>1. L \in Nat /\ L >= 2 /\ Copied \in Nat /\ nd.n \div 2 = L
    BY LAssumption, CopiedAssumption
<1>2. PICK keys \in [Slots -> Nat \cup {Junk}] : keys = nd.keys
    BY DEF WellMade, Shape
<1>3. PICK slots \in [Slots -> Nat \cup Value \cup {Absent, Junk}] : slots = nd.slots
    BY DEF WellMade, Shape
<1>4. /\ keys[2 * L] = Junk
      /\ \A i \in 0 .. 2 * L - 1 : keys[i] \in Nat /\ InRange(nd, lo, keys[i])
      /\ \A i, j \in 0 .. 2 * L - 1 : i < j => keys[i] < keys[j]
    BY <1>2 DEF WellMade, Ascends, Sorted
<1>5. PICK s \in Nat : s = keys[L]
    BY <1>1, <1>4
<1>6. lo < s /\ (nd.right # NoNode => s < nd.high)
  <2>1. 0 \in 0 .. 2 * L - 1 /\ L \in 0 .. 2 * L - 1 /\ 0 < L
      BY <1>1
  <2>2. keys[0] \in Nat /\ keys[0] < s /\ lo <= keys[0]
      BY <2>1, <1>4, <1>5 DEF InRange
  <2>3. lo < s
      BY <2>2
  <2> QED BY <2>1, <2>3, <1>4, <1>5 DEF InRange
<1>7. nd.leaf \in BOOLEAN /\ nd.right \in Nat \cup {NoNode} /\ nd.high \in Nat
    BY DEF WellMade, Shape
<1>8. PICK left : left = SplitLeft(nd, r)
    OBVIOUS
<1>9. /\ left \in Shape /\ left.leaf = nd.leaf /\ left.root = FALSE /\ left.right = r
      /\ left.high = s /\ left.n = L /\ left.keys = keys /\ left.slots = slots
  <2>1. left = [nd EXCEPT !.root = FALSE, !.right = r, !.high = s, !.n = L]
      BY <1>1, <1>2, <1>5, <1>8 DEF SplitLeft
  <2>2. L \in 0 .. 2 * L
      BY <1>1
  <2> QED BY <2>1, <2>2, <1>2, <1>3 DEF WellMade, Shape
<1>10. r # NoNode
    BY SentinelAssumption
<1>11. WellMade(left, lo, kids, off)
  <2>1. Ascends(left, lo)
    <3>1. \A i \in 0 .. L - 1 : i \in 0 .. 2 * L - 1 /\ i < L /\ L \in 0 .. 2 * L - 1
        BY <1>1
    <3>2. \A i \in 0 .. L - 1 : keys[i] \in Nat /\ keys[i] < s /\ lo <= keys[i]
        BY <3>1, <1>4, <1>5 DEF InRange
    <3>3. Sorted(keys, L)
        BY <3>1, <1>4 DEF Sorted
    <3> QED BY <3>2, <3>3, <1>6, <1>9 DEF Ascends, InRange
  <2>2. LeafFits(left)
    <3>1. ASSUME NEW i \in L .. 2 * L, keys[i] # Junk
          PROVE  s <= keys[i]
      <4>1. i \in 0 .. 2 * L - 1 /\ L \in 0 .. 2 * L - 1 /\ (i = L \/ L < i)
          BY <3>1, <1>1, <1>4
      <4>2. keys[i] \in Nat /\ (L < i => s < keys[i])
          BY <4>1, <1>4, <1>5
      <4> QED BY <4>1, <4>2, <1>5
    <3> QED BY <3>1, <1>3, <1>9, <1>10 DEF WellMade, LeafFits
  <2>3. ChildrenFit(left, lo, kids, off)
      BY <1>2, <1>3, <1>9 DEF WellMade, ChildrenFit
  <2> QED BY <2>1, <2>2, <2>3, <1>4, <1>9 DEF WellMade
<1>12. PICK first \in Nat : first = IF nd.leaf THEN L ELSE L + 1
    BY <1>1
<1>13. PICK len \in Nat : len = 2 * L - first /\ len <= L /\ first + len = 2 * L /\ len >= 1
                          /\ L <= first
    BY <1>1, <1>12
<1>14. PICK nk : nk = Slice(keys, first, len)
    OBVIOUS
<1>15. PICK ns : ns = Slice(slots, first, IF nd.leaf THEN L ELSE Copied)
    OBVIOUS
<1>16. PICK right : right = SplitRight(nd)
    OBVIOUS
<1>17. right = [leaf |-> nd.leaf, root |-> FALSE, right |-> nd.right, high |-> nd.high,
                n |-> len, keys |-> nk, slots |-> ns]
  <2>1. nd.n - L = L
      BY <1>1
  <2> QED BY <2>1, <1>1, <1>2, <1>3, <1>12, <1>13, <1>14, <1>15, <1>16 DEF SplitRight
<1>18. /\ nk \in [Slots -> Nat \cup {Junk}]
       /\ \A j \in Slots : nk[j] = IF j < len THEN keys[first + j] ELSE Junk
  <2>1. \A j \in Slots : j < len => first + j \in Slots
      BY <1>1, <1>13 DEF Slots
  <2> QED BY <2>1, <1>14 DEF Slice
<1>19. /\ ns \in [Slots -> Nat \cup Value \cup {Absent, Junk}]
       /\ \A j \in Slots :
             /\ ns[j] = Junk \/ (first + j \in Slots /\ ns[j] = slots[first + j])
             /\ j < L /\ first + j \in Slots => ns[j] = slots[first + j]
  <2>1. \A j \in Slots : j < L => j < (IF nd.leaf THEN L ELSE Copied)
      BY <1>1 DEF Slots
  <2> QED BY <2>1, <1>15 DEF Slice
<1>20. /\ right \in Shape /\ right.leaf = nd.leaf /\ right.root = FALSE /\ right.right = nd.right
       /\ right.high = nd.high /\ right.n = len /\ right.keys = nk /\ right.slots = ns
  <2>1. len \in 0 .. 2 * L
      BY <1>1, <1>13
  <2> QED BY <2>1, <1>7, <1>17, <1>18, <1>19 DEF Shape
<1>21. \A j \in 0 .. len - 1 :
          /\ j \in Slots /\ j < len /\ first + j \in 0 .. 2 * L - 1
          /\ nk[j] = keys[first + j] /\ ns[j] = slots[first + j]
  <2>1. \A j \in 0 .. len - 1 :
            j \in Slots /\ j < len /\ first + j \in 0 .. 2 * L - 1 /\ j < L /\ first + j \in Slots
      BY <1>1, <1>13 DEF Slots
  <2> QED BY <2>1, <1>18, <1>19
<1>22. WellMade(right, s, kids, off)
  <2>1. Ascends(right, s)
    <3>1. ASSUME NEW j \in 0 .. len - 1
          PROVE  nk[j] \in Nat /\ s <= nk[j] /\ InRange(nd, lo, nk[j])
      <4>1. first + j \in 0 .. 2 * L - 1 /\ nk[j] = keys[first + j]
          BY <1>21
      <4>2. L \in 0 .. 2 * L - 1 /\ (first + j = L \/ L < first + j)
          BY <1>1, <1>13
      <4>3. keys[first + j] \in Nat /\ (L < first + j => s < keys[first + j])
          BY <4>1, <4>2, <1>4, <1>5
      <4>4. s <= keys[first + j]
          BY <4>2, <4>3, <1>5
      <4> QED BY <4>1, <4>3, <4>4, <1>4
    <3>2. Sorted(nk, len)
      <4>1. ASSUME NEW i \in 0 .. len - 1, NEW j \in 0 .. len - 1, i < j
            PROVE  nk[i] < nk[j]
        <5>1. first + i < first + j
            BY <4>1
        <5> QED BY <5>1, <1>4, <1>21
      <4> QED BY <3>1, <4>1 DEF Sorted
    <3> QED BY <3>1, <3>2, <1>6, <1>20 DEF Ascends, InRange
  <2>2. LeafFits(right)
    <3>1. \A i \in len .. 2 * L : i \in Slots /\ ~(i < len)
        BY <1>13, <1>1 DEF Slots
    <3>2. \A i \in len .. 2 * L : nk[i] = Junk
        BY <3>1, <1>18
    <3>3. nd.leaf => \A i \in Slots : ns[i] \in Value \cup {Absent, Junk}
        BY <1>3, <1>19 DEF WellMade, LeafFits
    <3> QED BY <3>2, <3>3, <1>20 DEF LeafFits
  <2>3. ChildrenFit(right, s, kids, off)
    <3> SUFFICES ASSUME ~nd.leaf
                 PROVE  /\ <<ns[0], s>> \in kids
                        /\ \A i \in 0 .. 2 * L - 1 :
                              nk[i] # Junk => <<ns[i + 1], nk[i]>> \in kids
                        /\ \A i \in Slots : ns[i] \in off \cup {Junk}
        BY <1>20 DEF ChildrenFit
    <3>1. /\ \A i \in 0 .. 2 * L - 1 : keys[i] # Junk => <<slots[i + 1], keys[i]>> \in kids
          /\ \A i \in Slots : slots[i] \in off \cup {Junk}
        BY <1>2, <1>3 DEF WellMade, ChildrenFit
    <3>2. first = L + 1 /\ len = L - 1
        BY <1>1, <1>12, <1>13
    <3>3. <<ns[0], s>> \in kids
      <4>1. 0 \in Slots /\ L + 1 \in Slots /\ 0 < L /\ first + 0 = L + 1 /\ L \in 0 .. 2 * L - 1
          BY <1>1, <3>2 DEF Slots
      <4>2. ns[0] = slots[L + 1]
          BY <4>1, <1>19
      <4>3. keys[L] # Junk
          BY <1>5, SentinelAssumption
      <4> QED BY <4>1, <4>2, <4>3, <3>1, <1>5
    <3>4. ASSUME NEW i \in 0 .. 2 * L - 1, nk[i] # Junk
          PROVE  <<ns[i + 1], nk[i]>> \in kids
      <4>1. i \in Slots /\ i + 1 \in Slots
          BY <1>1 DEF Slots
      <4>2. i < len
          BY <4>1, <1>18, <3>4
      <4>3. i \in 0 .. len - 1 /\ i + 1 < L /\ first + (i + 1) \in Slots
            /\ first + (i + 1) = (first + i) + 1
          BY <4>1, <4>2, <3>2, <1>1 DEF Slots
      <4>4. nk[i] = keys[first + i] /\ ns[i + 1] = slots[(first + i) + 1]
            /\ first + i \in 0 .. 2 * L - 1
          BY <4>1, <4>3, <1>19, <1>21
      <4> QED BY <4>4, <3>1, <3>4
    <3>5. \A i \in Slots : ns[i] \in off \cup {Junk}
        BY <1>19, <3>1
    <3> QED BY <3>3, <3>4, <3>5
  <2>4. nk[2 * L] = Junk
    <3>1. 2 * L \in Slots /\ ~(2 * L < len)
        BY <1>1, <1>13 DEF Slots
    <3> QED BY <3>1, <1>18
  <2> QED BY <2>1, <2>2, <2>3, <2>4, <1>20 DEF WellMade
<1>23. \A k : HasKey(left, k) => HasKey(nd, k)
  <2>1. \A i \in 0 .. L - 1 : i \in 0 .. 2 * L - 1
      BY <1>1
  <2> QED BY <2>1, <1>2, <1>9 DEF HasKey
<1>24. \A k : HasKey(right, k) => HasKey(nd, k)
    BY <1>2, <1>20, <1>21 DEF HasKey
<1>25. ASSUME nd.leaf
       PROVE  SharePairs(nd, left, right)
  <2>1. first = L /\ len = L
      BY <1>12, <1>13, <1>25, <1>1
  <2>2. \A i \in 0 .. L - 1 : i \in 0 .. 2 * L - 1
      BY <1>1
  <2>3. \A i \in 0 .. 2 * L - 1 :
           i \in 0 .. L - 1 \/ (i - L \in 0 .. L - 1 /\ L + (i - L) = i)
      BY <1>1
  <2>4. \A j \in 0 .. L - 1 :
          L + j \in 0 .. 2 * L - 1 /\ nk[j] = keys[L + j] /\ ns[j] = slots[L + j]
      BY <1>21, <2>1
  <2>5. ASSUME NEW k, NEW v
        PROVE  HasPair(nd, k, v) <=> HasPair(left, k, v) \/ HasPair(right, k, v)
    <3>1. HasPair(nd, k, v) <=> \E i \in 0 .. 2 * L - 1 : keys[i] = k /\ slots[i] = v
        BY <1>2, <1>3 DEF HasPair
    <3>2. HasPair(left, k, v) <=> \E i \in 0 .. L - 1 : keys[i] = k /\ slots[i] = v
        BY <1>9 DEF HasPair
    <3>3. HasPair(right, k, v) <=> \E i \in 0 .. L - 1 : keys[L + i] = k /\ slots[L + i] = v
        BY <1>20, <2>1, <2>4 DEF HasPair
    <3>4. HasPair(left, k, v) => HasPair(nd, k, v)
        BY <3>1, <3>2, <2>2
    <3>5. HasPair(right, k, v) => HasPair(nd, k, v)
        BY <3>1, <3>3, <2>4
    <3>6. ASSUME NEW i \in 0 .. 2 * L - 1, keys[i] = k, slots[i] = v
          PROVE  HasPair(left, k, v) \/ HasPair(right, k, v)
        BY <3>2, <3>3, <3>6, <2>3
    <3> QED BY <3>1, <3>4, <3>5, <3>6
  <2> QED BY <2>5 DEF SharePairs
<1>26. ASSUME ~nd.leaf
       PROVE  ShareChildren(nd, left, right)
  <2>1. first = L + 1 /\ len = L - 1
      BY <1>12, <1>13, <1>26, <1>1
  <2>2. Children(nd) = {slots[i] : i \in 0 .. 2 * L} /\ Children(left) = {slots[i] : i \in 0 .. L}
        /\ Children(right) = {ns[i] : i \in 0 .. L - 1}
      BY <1>3, <1>9, <1>20, <2>1 DEF Children
  <2>3. \A i \in 0 .. L - 1 : (L + 1) + i \in 0 .. 2 * L /\ ns[i] = slots[(L + 1) + i]
    <3>1. \A i \in 0 .. L - 1 : i \in Slots /\ i < L /\ first + i \in Slots /\ first + i = (L + 1) + i
                                /\ (L + 1) + i \in 0 .. 2 * L
        BY <2>1, <1>1 DEF Slots
    <3> QED BY <3>1, <1>19
  <2>4. \A i \in 0 .. 2 * L : i \in 0 .. L \/ (i - (L + 1) \in 0 .. L - 1 /\ (L + 1) + (i - (L + 1)) = i)
      BY <1>1
  <2>5. \A i \in 0 .. L : i \in 0 .. 2 * L
      BY <1>1
  <2>6. Children(nd) \subseteq Children(left) \cup Children(right)
      BY <2>2, <2>3, <2>4
  <2>7. Children(left) \subseteq Children(nd) /\ Children(right) \subseteq Children(nd)
      BY <2>2, <2>3, <2>5
  <2> QED BY <2>6, <2>7 DEF ShareChildren
<1>27. left.n < 2 * L /\ right.n < 2 * L
    BY <1>1, <1>9, <1>13, <1>20
<1> QED BY <1>2, <1>5, <1>6, <1>8, <1>9, <1>11, <1>16, <1>20, <1>22, <1>23, <1>24, <1>25, <1>26, <1>27

-----------------------------------------------------------------------------
(* A node that is cut at s, its right part at offset r.                       *)
Cut(nd, lo, kids, off, r, s, a, b) ==
    /\ s \in Nat /\ lo < s /\ (nd.right # NoNode => s < nd.high)
    /\ WellMade(a, lo, kids, off) /\ a.leaf = nd.leaf /\ ~a.root
    /\ a.right = r /\ a.high = s
    /\ WellMade(b, s, kids, off) /\ b.leaf = nd.leaf /\ ~b.root
    /\ b.right = nd.right /\ b.high = nd.high

(* Two keys lead to the same child of the node. *)
SameOrder(nd, j, k) == \A i \in 0 .. nd.n - 1 : nd.keys[i] <= j <=> nd.keys[i] <= k

(* A pair for a leaf, or what `u' has for an internal node, is not there yet. *)
Adds(nd, lo, kids, off, key, value, u) ==
    /\ key \in Nat /\ InRange(nd, lo, key)
    /\ nd.leaf => value \in Value \cup {Absent} /\ ~HasKey(nd, key)
    /\ ~nd.leaf =>
         /\ u.key \in Nat /\ InRange(nd, lo, u.key) /\ ~HasKey(nd, u.key)
         /\ u.node \in off /\ <<u.node, u.key>> \in kids
         /\ SameOrder(nd, key, u.key)

(* The halves of a full node: cut at s, with what is to be added in one.      *)
HalvedInto(c, nd, lo, kids, off, r, s, a, b) ==
    /\ Halves(c, nd, r) = <<a, b>>
    /\ Cut(nd, lo, kids, off, r, s, a, b)
    /\ nd.leaf => \A k, v : HasPair(a, k, v) \/ HasPair(b, k, v) <=>
                      IF k = Key(c) THEN v = Op(c).value ELSE HasPair(nd, k, v)
    /\ ~nd.leaf => Children(a) \cup Children(b) = Children(nd) \cup {up[c].node}

LEMMA PairIsKey ==
    ASSUME NEW nd, NEW k
    PROVE  HasKey(nd, k) <=> \E v : HasPair(nd, k, v)
BY DEF HasKey, HasPair

LEMMA HalvesMade ==
    ASSUME NEW c, NEW nd, NEW lo \in Nat, NEW kids, NEW off \in SUBSET Nat, NEW r \in Nat,
           WellMade(nd, lo, kids, off), nd.n = 2 * L, L <= Copied,
           Adds(nd, lo, kids, off, Key(c), Op(c).value, up[c])
    PROVE  \E s, a, b : HalvedInto(c, nd, lo, kids, off, r, s, a, b)
<1> DEFINE left == SplitLeft(nd, r)
           right == SplitRight(nd)
           key == IF nd.leaf THEN Key(c) ELSE up[c].key
           Add(half) == IF nd.leaf THEN AddKeyValue(half, Key(c), Op(c).value)
                        ELSE AddKeyChild(half, up[c].key, up[c].node)
<1>1. PICK s \in Nat : s = nd.keys[L]
    BY SplitMade
<1>2. /\ lo < s /\ (nd.right # NoNode => s < nd.high)
      /\ WellMade(left, lo, kids, off) /\ left.leaf = nd.leaf /\ ~left.root
      /\ left.right = r /\ left.high = s /\ left.n < 2 * L
      /\ \A k : HasKey(left, k) => HasKey(nd, k)
      /\ WellMade(right, s, kids, off) /\ right.leaf = nd.leaf /\ ~right.root
      /\ right.right = nd.right /\ right.high = nd.high /\ right.n < 2 * L
      /\ \A k : HasKey(right, k) => HasKey(nd, k)
  <2> HIDE DEF left, right
  <2> QED BY <1>1, SplitMade DEF left, right
<1>3. nd.leaf => \A k, v : HasPair(nd, k, v) <=> HasPair(left, k, v) \/ HasPair(right, k, v)
  <2>1. nd.leaf => SharePairs(nd, left, right)
      BY SplitMade
  <2> QED BY <2>1 DEF SharePairs
<1>4. ~nd.leaf => Children(nd) = Children(left) \cup Children(right)
  <2>1. ~nd.leaf => ShareChildren(nd, left, right)
      BY SplitMade
  <2> QED BY <2>1 DEF ShareChildren
<1>5. Halves(c, nd, r) = IF left.high > Key(c) THEN <<Add(left), right>> ELSE <<left, Add(right)>>
    BY DEF Halves
<1>6. /\ key \in Nat /\ ~HasKey(nd, key) /\ InRange(nd, lo, key)
      /\ s > Key(c) <=> s > key
  <2>1. CASE nd.leaf
      BY <2>1 DEF Adds
  <2>2. CASE ~nd.leaf
    <3>1. L \in 0 .. nd.n - 1
        BY LAssumption
    <3>2. s <= Key(c) <=> s <= up[c].key
        BY <1>1, <2>2, <3>1 DEF Adds, SameOrder
    <3>3. Key(c) \in Nat /\ up[c].key \in Nat
        BY <2>2 DEF Adds
    <3> QED BY <2>2, <3>2, <3>3 DEF Adds
  <2> QED BY <2>1, <2>2
<1>7. r # NoNode
    BY SentinelAssumption
<1> HIDE DEF left, right
(* What adding does to a half that the key is in the range of.                *)
<1>8. ASSUME NEW half, NEW l \in Nat, WellMade(half, l, kids, off), half.leaf = nd.leaf,
             half.n < 2 * L, InRange(half, l, key), ~HasKey(half, key)
      PROVE  /\ WellMade(Add(half), l, kids, off)
             /\ SameFrame(half, Add(half))
             /\ nd.leaf => \A k, v : HasPair(Add(half), k, v) <=>
                               IF k = Key(c) THEN v = Op(c).value ELSE HasPair(half, k, v)
             /\ ~nd.leaf => Children(Add(half)) = Children(half) \cup {up[c].node}
  <2>1. CASE nd.leaf
    <3>1. Add(half) = AddKeyValue(half, Key(c), Op(c).value)
        BY <2>1
    <3>2. Key(c) \in Nat /\ Op(c).value \in Value \cup {Absent} /\ InRange(half, l, Key(c))
          /\ half.leaf
        BY <1>8, <2>1 DEF Adds
    <3> HIDE DEF Add
    <3> QED BY <1>8, <2>1, <3>1, <3>2, PairAdded
  <2>2. CASE ~nd.leaf
    <3>1. Add(half) = AddKeyChild(half, up[c].key, up[c].node)
        BY <2>2
    <3>2. PICK k, x : k = up[c].key /\ x = up[c].node
        OBVIOUS
    <3>3. k \in Nat /\ x \in off /\ <<x, k>> \in kids /\ InRange(half, l, k)
          /\ ~half.leaf /\ ~HasKey(half, k)
        BY <1>8, <2>2, <3>2 DEF Adds
    <3> HIDE DEF Add
    <3>4. /\ WellMade(AddKeyChild(half, k, x), l, kids, off)
          /\ SameFrame(half, AddKeyChild(half, k, x))
          /\ Children(AddKeyChild(half, k, x)) = Children(half) \cup {x}
      <4>1. WellMade(half, l, kids, off) /\ half.n < 2 * L /\ off \in SUBSET Nat /\ l \in Nat
          BY <1>8
      <4> QED BY <3>3, <4>1, ChildAdded
    <3> QED BY <2>2, <3>1, <3>2, <3>4
  <2> QED BY <2>1, <2>2
<1> HIDE DEF Add, key
<1>9. CASE s > Key(c)
  <2>1. Halves(c, nd, r) = <<Add(left), right>>
      BY <1>2, <1>5, <1>9
  <2>2. InRange(left, lo, key)
      BY <1>2, <1>6, <1>9 DEF InRange
  <2>3. ~HasKey(left, key)
      BY <1>2, <1>6
  <2>4. /\ WellMade(Add(left), lo, kids, off)
        /\ SameFrame(left, Add(left))
        /\ nd.leaf => \A k, v : HasPair(Add(left), k, v) <=>
                               IF k = Key(c) THEN v = Op(c).value ELSE HasPair(left, k, v)
        /\ ~nd.leaf => Children(Add(left)) = Children(left) \cup {up[c].node}
      BY <1>2, <1>8, <2>2, <2>3
  <2>5. Cut(nd, lo, kids, off, r, s, Add(left), right)
      BY <1>2, <2>4 DEF Cut, SameFrame
  <2>6. ASSUME nd.leaf, NEW k, NEW v
        PROVE  HasPair(Add(left), k, v) \/ HasPair(right, k, v) <=>
                    IF k = Key(c) THEN v = Op(c).value ELSE HasPair(nd, k, v)
    <3>1. ~HasKey(right, Key(c))
        BY <1>2, <2>6 DEF Adds
    <3>2. k = Key(c) => ~HasPair(right, k, v)
        BY <3>1, PairIsKey
    <3> QED BY <1>3, <2>4, <2>6, <3>2
  <2>7. ~nd.leaf => Children(Add(left)) \cup Children(right) = Children(nd) \cup {up[c].node}
      BY <1>4, <2>4
  <2> QED BY <2>1, <2>5, <2>6, <2>7 DEF HalvedInto
<1>10. CASE ~(s > Key(c))
  <2>1. Halves(c, nd, r) = <<left, Add(right)>>
      BY <1>2, <1>5, <1>10
  <2>2. InRange(right, s, key)
      BY <1>2, <1>6, <1>10 DEF InRange
  <2>3. ~HasKey(right, key)
      BY <1>2, <1>6
  <2>4. /\ WellMade(Add(right), s, kids, off)
        /\ SameFrame(right, Add(right))
        /\ nd.leaf => \A k, v : HasPair(Add(right), k, v) <=>
                               IF k = Key(c) THEN v = Op(c).value ELSE HasPair(right, k, v)
        /\ ~nd.leaf => Children(Add(right)) = Children(right) \cup {up[c].node}
      BY <1>2, <1>8, <2>2, <2>3
  <2>5. Cut(nd, lo, kids, off, r, s, left, Add(right))
      BY <1>2, <2>4 DEF Cut, SameFrame
  <2>6. ASSUME nd.leaf, NEW k, NEW v
        PROVE  HasPair(left, k, v) \/ HasPair(Add(right), k, v) <=>
                    IF k = Key(c) THEN v = Op(c).value ELSE HasPair(nd, k, v)
    <3>1. ~HasKey(left, Key(c))
        BY <1>2, <2>6 DEF Adds
    <3>2. k = Key(c) => ~HasPair(left, k, v)
        BY <3>1, PairIsKey
    <3> QED BY <1>3, <2>4, <2>6, <3>2
  <2>7. ~nd.leaf => Children(left) \cup Children(Add(right)) = Children(nd) \cup {up[c].node}
      BY <1>4, <2>4
  <2> QED BY <2>1, <2>5, <2>6, <2>7 DEF HalvedInto
<1> QED BY <1>9, <1>10

-----------------------------------------------------------------------------
(* The tree: f is the file of m nodes.  A node's least key, low, and its      *)
(* height, lev, are not in the file, and never change: a new node gets them.  *)
Kids(lv, m, low, lev) ==
    {xk \in (1 .. m) \X Nat : low[xk[1]] = xk[2] /\ lev[xk[1]] + 1 = lv}

NodeFits(f, m, low, lev, o) ==
    /\ WellMade(f[o], low[o], Kids(lev[o], m, low, lev), 1 .. m)
    /\ lev[o] = 0 <=> f[o].leaf
    /\ f[o].right # NoNode =>
         /\ f[o].right \in 1 .. m
         /\ low[f[o].right] = f[o].high
         /\ lev[f[o].right] = lev[o]

(* One of two nodes ends before the other begins.                             *)
Apart(f, low, o, x) ==
    \/ f[o].right # NoNode /\ f[o].high <= low[x]
    \/ f[x].right # NoNode /\ f[x].high <= low[o]

Tree(f, m, low, lev) ==
    /\ \A o \in 1 .. m : NodeFits(f, m, low, lev, o)
    /\ \A o, x \in 1 .. m : o # x /\ lev[o] = lev[x] => Apart(f, low, o, x)
    /\ \A o \in 1 .. m : (\A l \in 1 .. m : f[l].right # o) => low[o] = 0

LEMMA KidsAre ==
    ASSUME NEW x, NEW k, NEW lv, NEW m, NEW low, NEW lev
    PROVE  <<x, k>> \in Kids(lv, m, low, lev) <=>
               x \in 1 .. m /\ k \in Nat /\ low[x] = k /\ lev[x] + 1 = lv
BY DEF Kids

LEMMA KidsMore ==
    ASSUME NEW lv, NEW m \in Nat, NEW low, NEW lev, NEW m2 \in Nat, NEW low2, NEW lev2, m <= m2,
           \A x \in 1 .. m : low2[x] = low[x] /\ lev2[x] = lev[x]
    PROVE  Kids(lv, m, low, lev) \subseteq Kids(lv, m2, low2, lev2) /\ 1 .. m \subseteq 1 .. m2
<1>1. 1 .. m \subseteq 1 .. m2
    OBVIOUS
<1> QED BY <1>1 DEF Kids

LEMMA WellMadeMore ==
    ASSUME NEW nd, NEW lo, NEW kids, NEW off, NEW kids2, NEW off2,
           WellMade(nd, lo, kids, off), kids \subseteq kids2, off \subseteq off2
    PROVE  WellMade(nd, lo, kids2, off2)
BY DEF WellMade, ChildrenFit

LEMMA NodeTypes ==
    ASSUME NEW nd, NEW lo, NEW kids, NEW off, WellMade(nd, lo, kids, off)
    PROVE  /\ nd.leaf \in BOOLEAN /\ nd.root \in BOOLEAN /\ nd.right \in Nat \cup {NoNode}
           /\ nd.high \in Nat /\ nd.n \in 0 .. 2 * L
           /\ \A i \in 0 .. nd.n - 1 : nd.keys[i] \in Nat /\ InRange(nd, lo, nd.keys[i])
           /\ nd.right # NoNode => lo < nd.high
BY DEF WellMade, Shape, Ascends, Sorted

(* A node fits in a file that has grown. *)
LEMMA FitsMore ==
    ASSUME NEW f, NEW m \in Nat, NEW low, NEW lev, NEW o \in 1 .. m,
           NEW g, NEW m2 \in Nat, NEW low2, NEW lev2, m <= m2,
           \A x \in 1 .. m : low2[x] = low[x] /\ lev2[x] = lev[x],
           NodeFits(f, m, low, lev, o), g[o] = f[o]
    PROVE  NodeFits(g, m2, low2, lev2, o)
<1>1. /\ Kids(lev[o], m, low, lev) \subseteq Kids(lev[o], m2, low2, lev2)
      /\ 1 .. m \subseteq 1 .. m2
    BY KidsMore
<1>2. WellMade(f[o], low[o], Kids(lev[o], m2, low2, lev2), 1 .. m2)
    BY <1>1, WellMadeMore DEF NodeFits
<1> QED BY <1>1, <1>2 DEF NodeFits

(* A node is written in place. *)
LEMMA NodeReplaced ==
    ASSUME NEW f, NEW m \in Nat, NEW low, NEW lev, NEW o \in 1 .. m, NEW g,
           Tree(f, m, low, lev), SameFrame(f[o], g[o]),
           WellMade(g[o], low[o], Kids(lev[o], m, low, lev), 1 .. m),
           \A x \in 1 .. m : x # o => g[x] = f[x]
    PROVE  Tree(g, m, low, lev)
<1>1. \A x \in 1 .. m : g[x].right = f[x].right /\ g[x].high = f[x].high /\ g[x].leaf = f[x].leaf
    BY DEF SameFrame
<1>2. \A x \in 1 .. m : WellMade(g[x], low[x], Kids(lev[x], m, low, lev), 1 .. m)
    BY DEF Tree, NodeFits
<1>3. \A x \in 1 .. m : NodeFits(g, m, low, lev, x)
    BY <1>1, <1>2 DEF Tree, NodeFits
<1>4. \A x, y \in 1 .. m : x # y /\ lev[x] = lev[y] => Apart(g, low, x, y)
    BY <1>1 DEF Tree, Apart
<1>5. \A x \in 1 .. m : (\A l \in 1 .. m : g[l].right # x) => low[x] = 0
    BY <1>1 DEF Tree
<1> QED BY <1>3, <1>4, <1>5 DEF Tree

LEMMA OneMore ==
    ASSUME NEW m \in Nat, NEW r, r = m + 1
    PROVE  /\ r \in Nat /\ m <= r /\ r \notin 1 .. m
           /\ \A x : x \in 1 .. r <=> x \in 1 .. m \/ x = r
OBVIOUS

LEMMA InOrder ==
    ASSUME NEW a \in Nat, NEW b \in Nat, NEW d \in Nat
    PROVE  (a <= b /\ b < d => a <= d) /\ (a < b /\ b <= d => a <= d)
OBVIOUS

(* From f, low and lev with m nodes to g, low2 and lev2 with one more: the    *)
(* nodes other than o are as they were, and all are where they were.          *)
Grows(f, m, low, lev, o, g, low2, lev2) ==
    /\ \A x \in 1 .. m : x # o => g[x] = f[x]
    /\ \A x \in 1 .. m : low2[x] = low[x] /\ lev2[x] = lev[x]

(* A node is split. *)
LEMMA NodeCut ==
    ASSUME NEW f, NEW m \in Nat, NEW low \in [Nat -> Nat], NEW lev \in [Nat -> Nat],
           NEW o \in 1 .. m, NEW g, NEW low2, NEW lev2, NEW s, NEW r, r = m + 1,
           Tree(f, m, low, lev),
           Cut(f[o], low[o], Kids(lev[o], m, low, lev), 1 .. m, r, s, g[o], g[r]),
           Grows(f, m, low, lev, o, g, low2, lev2),
           low2[r] = s, lev2[r] = lev[o]
    PROVE  Tree(g, r, low2, lev2)
<1>0. /\ \A x \in 1 .. m : x # o => g[x] = f[x]
      /\ \A x \in 1 .. m : low2[x] = low[x] /\ lev2[x] = lev[x]
    BY DEF Grows
<1>1. r \in Nat /\ m <= r /\ r \notin 1 .. m /\ o # r /\ r # NoNode
      /\ \A x : x \in 1 .. r <=> x \in 1 .. m \/ x = r
  <2>1. r \in Nat /\ m <= r /\ r \notin 1 .. m
        /\ \A x : x \in 1 .. r <=> x \in 1 .. m \/ x = r
      BY OneMore
  <2>2. o # r
      BY <2>1
  <2>3. r # NoNode
      BY <2>1, SentinelAssumption
  <2> QED BY <2>1, <2>2, <2>3
<1>2. /\ f[o].right \in Nat \cup {NoNode} /\ f[o].high \in Nat
      /\ low[o] \in Nat /\ s \in Nat /\ low[o] < s
      /\ f[o].right # NoNode => s < f[o].high
  <2>1. WellMade(f[o], low[o], Kids(lev[o], m, low, lev), 1 .. m)
      BY DEF Tree, NodeFits
  <2>2. f[o].right \in Nat \cup {NoNode} /\ f[o].high \in Nat
      BY <2>1, NodeTypes
  <2>3. low[o] \in Nat
      OBVIOUS
  <2>4. s \in Nat /\ low[o] < s /\ (f[o].right # NoNode => s < f[o].high)
      BY DEF Cut
  <2> QED BY <2>2, <2>3, <2>4
<1>3. /\ g[o].right = r /\ g[o].high = s /\ g[o].leaf = f[o].leaf
      /\ g[r].right = f[o].right /\ g[r].high = f[o].high /\ g[r].leaf = f[o].leaf
    BY DEF Cut
<1>4. /\ Kids(lev[o], m, low, lev) \subseteq Kids(lev[o], r, low2, lev2)
      /\ 1 .. m \subseteq 1 .. r
  <2>1. m \in Nat /\ r \in Nat /\ m <= r
      BY <1>1
  <2>2. \A x \in 1 .. m : low2[x] = low[x] /\ lev2[x] = lev[x]
      BY <1>0
  <2>3. 1 .. m \subseteq 1 .. r
      BY <2>1
  <2> QED BY <2>2, <2>3 DEF Kids
<1>5. /\ WellMade(g[o], low[o], Kids(lev[o], r, low2, lev2), 1 .. r)
      /\ WellMade(g[r], s, Kids(lev[o], r, low2, lev2), 1 .. r)
  <2>1. /\ WellMade(g[o], low[o], Kids(lev[o], m, low, lev), 1 .. m)
        /\ WellMade(g[r], s, Kids(lev[o], m, low, lev), 1 .. m)
      BY DEF Cut
  <2> QED BY <1>4, <2>1, WellMadeMore
<1>6. /\ lev[o] = 0 <=> f[o].leaf
      /\ f[o].right # NoNode =>
           f[o].right \in 1 .. m /\ low[f[o].right] = f[o].high /\ lev[f[o].right] = lev[o]
    BY DEF Tree, NodeFits
<1>7. ASSUME NEW x \in 1 .. r
      PROVE  NodeFits(g, r, low2, lev2, x)
  <2>1. CASE x = o
      BY <1>0, <1>1, <1>3, <1>5, <1>6, <2>1 DEF NodeFits
  <2>2. CASE x = r
    <3>1. low2[x] = s /\ lev2[x] = lev[o] /\ g[x] = g[r]
        BY <2>2
    <3>2. WellMade(g[x], low2[x], Kids(lev2[x], r, low2, lev2), 1 .. r)
        BY <1>5, <2>2, <3>1
    <3>3. lev2[x] = 0 <=> g[x].leaf
        BY <1>3, <1>6, <3>1
    <3>4. g[x].right # NoNode =>
            /\ g[x].right \in 1 .. r
            /\ low2[g[x].right] = g[x].high
            /\ lev2[g[x].right] = lev2[x]
      <4>1. g[x].right = f[o].right /\ g[x].high = f[o].high /\ lev2[x] = lev[o]
          BY <1>3, <3>1
      <4> SUFFICES ASSUME f[o].right # NoNode
                   PROVE  /\ f[o].right \in 1 .. r
                          /\ low2[f[o].right] = f[o].high
                          /\ lev2[f[o].right] = lev[o]
          BY <4>1
      <4> QED BY <1>0, <1>1, <1>6
    <3> QED BY <3>2, <3>3, <3>4 DEF NodeFits
  <2>3. CASE x # o /\ x # r
    <3>1. x \in 1 .. m /\ g[x] = f[x] /\ NodeFits(f, m, low, lev, x)
        BY <1>0, <1>1, <1>7, <2>3 DEF Tree
    <3> QED BY <1>0, <1>1, <3>1, FitsMore
  <2> QED BY <2>1, <2>2, <2>3
<1>8. ASSUME NEW x \in 1 .. m, x # o, lev[x] = lev[o]
      PROVE  Apart(g, low2, x, o) /\ Apart(g, low2, x, r)
  <2>1. g[x] = f[x] /\ low2[x] = low[x] /\ low2[o] = low[o] /\ low[x] \in Nat
      BY <1>0, <1>8
  <2>5. Apart(f, low, x, o)
      BY <1>8 DEF Tree
  <2>6. f[x].high \in Nat
    <3>1. WellMade(f[x], low[x], Kids(lev[x], m, low, lev), 1 .. m)
        BY <1>8 DEF Tree, NodeFits
    <3> QED BY <3>1, NodeTypes
  <2>2. CASE f[x].right # NoNode /\ f[x].high <= low[o]
    <3>2. f[x].high <= s
        BY <1>2, <2>2, <2>6, InOrder
    <3> QED BY <2>1, <2>2, <3>2 DEF Apart
  <2>3. CASE f[o].right # NoNode /\ f[o].high <= low[x]
    <3>1. s <= low[x]
        BY <1>2, <2>1, <2>3, InOrder
    <3> QED BY <1>1, <1>3, <2>1, <2>3, <3>1 DEF Apart
  <2> QED BY <2>5, <2>2, <2>3 DEF Apart
<1>9. Apart(g, low2, o, r)
    BY <1>1, <1>2, <1>3 DEF Apart
<1>10. ASSUME NEW x \in 1 .. r, NEW y \in 1 .. r, x # y, lev2[x] = lev2[y]
       PROVE  Apart(g, low2, x, y)
  <2>1. CASE x \in {o, r} /\ y \in {o, r}
    <3>1. Apart(g, low2, r, o)
        BY <1>9 DEF Apart
    <3>2. (x = o \/ x = r) /\ (y = o \/ y = r) /\ x # y
        BY <1>10, <2>1
    <3>3. CASE x = o
        BY <1>9, <3>2, <3>3
    <3>4. CASE x = r
        BY <3>1, <3>2, <3>4
    <3> QED BY <3>2, <3>3, <3>4
  <2>2. CASE x \notin {o, r} /\ y \in {o, r}
    <3>1. x \in 1 .. m /\ lev[x] = lev[o]
        BY <1>0, <1>1, <1>10, <2>2
    <3> QED BY <1>8, <2>2, <3>1
  <2>3. CASE x \in {o, r} /\ y \notin {o, r}
    <3>1. y \in 1 .. m /\ lev[y] = lev[o]
        BY <1>0, <1>1, <1>10, <2>3
    <3>2. Apart(g, low2, y, x)
        BY <1>8, <2>3, <3>1
    <3> QED BY <3>2 DEF Apart
  <2>4. CASE x \notin {o, r} /\ y \notin {o, r}
    <3>1. x \in 1 .. m /\ y \in 1 .. m
        BY <1>1, <1>10, <2>4
    <3>2. Apart(f, low, x, y)
        BY <1>0, <1>10, <3>1 DEF Tree
    <3> QED BY <1>0, <2>4, <3>1, <3>2 DEF Apart
  <2> QED BY <2>1, <2>2, <2>3, <2>4
<1>11. ASSUME NEW x \in 1 .. r, \A l \in 1 .. r : g[l].right # x
       PROVE  low2[x] = 0
  <2>1. x # r
      BY <1>1, <1>3, <1>11
  <2>2. x \in 1 .. m
      BY <1>1, <1>11, <2>1
  <2>3. ASSUME NEW l \in 1 .. m
        PROVE  f[l].right # x
    <3>1. CASE l = o
        BY <1>1, <1>3, <1>11, <3>1
    <3>2. CASE l # o
        BY <1>0, <1>1, <1>11, <3>2
    <3> QED BY <3>1, <3>2
  <2>4. low[x] = 0
      BY <2>2, <2>3 DEF Tree
  <2> QED BY <1>0, <2>2, <2>4
<1> QED BY <1>7, <1>10, <1>11 DEF Tree

LEMMA NewRootMade ==
    ASSUME NEW s \in Nat, NEW l \in Nat, NEW r \in Nat, NEW kids, NEW off,
           l \in off, r \in off, <<l, 0>> \in kids, <<r, s>> \in kids
    PROVE  WellMade(NewRoot(s, l, r), 0, kids, off)
<1>1. L \in Nat /\ L >= 2
    BY LAssumption
<1>2. PICK keys : keys = [i \in Slots |-> IF i = 0 THEN s ELSE Junk]
    OBVIOUS
<1>3. PICK slots : slots = [i \in Slots |-> IF i = 0 THEN l ELSE IF i = 1 THEN r ELSE Junk]
    OBVIOUS
<1>4. PICK nd : nd = NewRoot(s, l, r)
    OBVIOUS
<1>5. nd = [leaf |-> FALSE, root |-> TRUE, right |-> NoNode, high |-> 0, n |-> 1,
            keys |-> keys, slots |-> slots]
    BY <1>2, <1>3, <1>4 DEF NewRoot
<1>6. 0 \in Slots /\ 1 \in Slots /\ 2 * L \in Slots /\ 2 * L # 0 /\ 1 \in 0 .. 2 * L
      /\ 0 .. 1 - 1 = {0}
    BY <1>1 DEF Slots
<1>7. keys \in [Slots -> Nat \cup {Junk}] /\ keys[2 * L] = Junk /\ keys[0] = s
      /\ \A i \in Slots : i # 0 => keys[i] = Junk
    BY <1>2, <1>6
<1>8. slots \in [Slots -> Nat \cup Value \cup {Absent, Junk}] /\ slots[0] = l /\ slots[1] = r
      /\ \A i \in Slots : slots[i] \in {l, r, Junk}
    BY <1>3, <1>6
<1>9. nd \in Shape /\ nd.keys = keys /\ nd.slots = slots /\ nd.n = 1 /\ nd.right = NoNode
      /\ nd.leaf = FALSE
    BY <1>5, <1>6, <1>7, <1>8 DEF Shape
<1>10. Ascends(nd, 0)
    BY <1>6, <1>7, <1>9 DEF Ascends, Sorted, InRange
<1>11. ChildrenFit(nd, 0, kids, off)
  <2>1. ASSUME NEW i \in 0 .. 2 * L - 1, keys[i] # Junk
        PROVE  <<slots[i + 1], keys[i]>> \in kids
    <3>1. i \in Slots
        BY <1>1 DEF Slots
    <3>2. i = 0
        BY <1>7, <2>1, <3>1
    <3> QED BY <1>7, <1>8, <3>2
  <2> QED BY <1>8, <1>9, <2>1 DEF ChildrenFit
<1> QED BY <1>4, <1>7, <1>9, <1>10, <1>11 DEF WellMade, LeafFits

Topped(f, m, low, lev, o, g, low2, lev2) ==
    /\ \A y \in 1 .. m : lev[y] <= lev[o]
    /\ \A y \in 1 .. m : g[y] = f[y] /\ low2[y] = low[y] /\ lev2[y] = lev[y]

(* A new root is put over two nodes that have no other node above them. *)
LEMMA RootAdded ==
    ASSUME NEW f, NEW m \in Nat, NEW low \in [Nat -> Nat], NEW lev \in [Nat -> Nat],
           NEW o \in 1 .. m, NEW x \in 1 .. m, NEW g, NEW low2, NEW lev2, NEW r, r = m + 1,
           Tree(f, m, low, lev), low[o] = 0, lev[x] = lev[o],
           g[r] = NewRoot(low[x], o, x),
           Topped(f, m, low, lev, o, g, low2, lev2),
           low2[r] = 0, lev2[r] = lev[o] + 1
    PROVE  Tree(g, r, low2, lev2)
<1>0. /\ \A y \in 1 .. m : lev[y] <= lev[o]
      /\ \A y \in 1 .. m : g[y] = f[y] /\ low2[y] = low[y] /\ lev2[y] = lev[y]
    BY DEF Topped
<1>1. r \in Nat /\ m <= r /\ r \notin 1 .. m
      /\ \A y : y \in 1 .. r <=> y \in 1 .. m \/ y = r
    OBVIOUS
<1>2. g[r].right = NoNode /\ g[r].leaf = FALSE
    BY DEF NewRoot
<1>3. WellMade(g[r], 0, Kids(lev2[r], r, low2, lev2), 1 .. r)
  <2>1. o \in Nat /\ x \in Nat /\ o \in 1 .. r /\ x \in 1 .. r /\ low[x] \in Nat /\ 0 \in Nat
      BY <1>1
  <2>2. /\ <<o, 0>> \in Kids(lev2[r], r, low2, lev2)
        /\ <<x, low[x]>> \in Kids(lev2[r], r, low2, lev2)
      BY <1>0, <2>1, KidsAre
  <2>3. PICK l \in Nat : l = low[x]
      BY <2>1
  <2>4. PICK kids, off : kids = Kids(lev2[r], r, low2, lev2) /\ off = 1 .. r
      OBVIOUS
  <2>5. WellMade(NewRoot(l, o, x), 0, kids, off)
      BY <2>1, <2>2, <2>3, <2>4, NewRootMade
  <2> QED BY <2>3, <2>4, <2>5
<1>4. ASSUME NEW y \in 1 .. r
      PROVE  NodeFits(g, r, low2, lev2, y)
  <2>1. CASE y = r
    <3>1. lev2[r] # 0
        OBVIOUS
    <3> QED BY <1>2, <1>3, <2>1, <3>1 DEF NodeFits
  <2>2. CASE y # r
    <3>1. y \in 1 .. m /\ g[y] = f[y] /\ NodeFits(f, m, low, lev, y)
        BY <1>0, <1>1, <1>4, <2>2 DEF Tree
    <3> QED BY <1>0, <1>1, <3>1, FitsMore
  <2> QED BY <2>1, <2>2
<1>5. ASSUME NEW y \in 1 .. r, NEW z \in 1 .. r, y # z, lev2[y] = lev2[z]
      PROVE  Apart(g, low2, y, z)
  <2>1. y \in 1 .. m /\ z \in 1 .. m
    <3>1. \A w \in 1 .. m : lev2[w] # lev2[r]
      <4> SUFFICES ASSUME NEW w \in 1 .. m
                   PROVE  lev2[w] # lev2[r]
          OBVIOUS
      <4>1. lev2[w] = lev[w] /\ lev[w] <= lev[o] /\ lev[w] \in Nat /\ lev[o] \in Nat
          BY <1>0
      <4> QED BY <4>1
    <3> QED BY <1>1, <1>5, <3>1
  <2>2. Apart(f, low, y, z)
      BY <1>0, <1>5, <2>1 DEF Tree
  <2> QED BY <1>0, <2>1, <2>2 DEF Apart
<1>6. ASSUME NEW y \in 1 .. r, \A l \in 1 .. r : g[l].right # y
      PROVE  low2[y] = 0
  <2>1. CASE y = r
      BY <2>1
  <2>2. CASE y # r
    <3>1. y \in 1 .. m /\ \A l \in 1 .. m : f[l].right # y
        BY <1>0, <1>1, <1>6, <2>2
    <3> QED BY <1>0, <3>1 DEF Tree
  <2> QED BY <2>1, <2>2
<1> QED BY <1>4, <1>5, <1>6 DEF Tree

-----------------------------------------------------------------------------
(* A key that is not strictly within the node's range. *)
Outside(nd, lo, k) == k <= lo \/ (nd.right # NoNode /\ nd.high <= k)

LEMMA NodeFacts ==
    ASSUME NEW f, NEW m, NEW low, NEW lev, NEW o \in 1 .. m, Tree(f, m, low, lev)
    PROVE  /\ f[o].leaf \in BOOLEAN /\ f[o].right \in Nat \cup {NoNode}
           /\ f[o].high \in Nat /\ f[o].n \in 0 .. 2 * L
           /\ f[o].right # NoNode => low[o] < f[o].high
<1>1. NodeFits(f, m, low, lev, o)
    BY DEF Tree
<1>2. WellMade(f[o], low[o], Kids(lev[o], m, low, lev), 1 .. m)
    BY <1>1 DEF NodeFits
<1> QED BY <1>2, NodeTypes

LEMMA HeightOfLeaf ==
    ASSUME NEW f, NEW m, NEW low, NEW lev, NEW o \in 1 .. m, Tree(f, m, low, lev)
    PROVE  lev[o] = 0 <=> f[o].leaf
BY DEF Tree, NodeFits

LEMMA RightSibling ==
    ASSUME NEW f, NEW m, NEW low, NEW lev, NEW o \in 1 .. m, Tree(f, m, low, lev)
    PROVE  f[o].right # NoNode =>
               f[o].right \in 1 .. m /\ low[f[o].right] = f[o].high /\ lev[f[o].right] = lev[o]
BY DEF Tree, NodeFits

(* Nodes of a level begin outside of each other's ranges. *)
LEMMA LowOutside ==
    ASSUME NEW f, NEW m, NEW low \in [Nat -> Nat], NEW lev, NEW o \in 1 .. m, NEW x \in 1 .. m,
           Tree(f, m, low, lev), lev[x] = lev[o]
    PROVE  Outside(f[o], low[o], low[x])
<1>1. low[o] \in Nat /\ low[x] \in Nat
    OBVIOUS
<1>2. f[x].high \in Nat /\ (f[x].right # NoNode => low[x] < f[x].high)
    BY NodeFacts
<1>3. CASE x = o
    BY <1>1, <1>3 DEF Outside
<1>4. CASE x # o
  <2>1. Apart(f, low, o, x)
      BY <1>4 DEF Tree
  <2>2. CASE f[x].right # NoNode /\ f[x].high <= low[o]
    <3>1. low[x] <= low[o]
        BY <1>1, <1>2, <2>2
    <3> QED BY <3>1 DEF Outside
  <2> QED BY <2>1, <2>2 DEF Outside, Apart
<1> QED BY <1>3, <1>4

(* The children of a node, whose height is not 0. *)
LEMMA ChildrenAre ==
    ASSUME NEW f, NEW m, NEW low, NEW lev, NEW p \in 1 .. m, Tree(f, m, low, lev), ~f[p].leaf
    PROVE  /\ <<f[p].slots[0], low[p]>> \in Kids(lev[p], m, low, lev)
           /\ \A i \in 0 .. 2 * L - 1 : f[p].keys[i] # Junk =>
                 <<f[p].slots[i + 1], f[p].keys[i]>> \in Kids(lev[p], m, low, lev)
           /\ \A i \in 0 .. f[p].n - 1 :
                 f[p].keys[i] \in Nat /\ i \in 0 .. 2 * L - 1 /\ f[p].keys[i] # Junk
<1>1. WellMade(f[p], low[p], Kids(lev[p], m, low, lev), 1 .. m)
    BY DEF Tree, NodeFits
<1>2. f[p].n \in 0 .. 2 * L /\ \A i \in 0 .. f[p].n - 1 : f[p].keys[i] \in Nat
    BY <1>1, NodeTypes
<1>3. \A i \in 0 .. f[p].n - 1 : i \in 0 .. 2 * L - 1 /\ f[p].keys[i] # Junk
    BY <1>2, LAssumption, SentinelAssumption
<1> QED BY <1>1, <1>2, <1>3 DEF WellMade, ChildrenFit

LEMMA KidOutside ==
    ASSUME NEW f, NEW m, NEW low \in [Nat -> Nat], NEW lev \in [Nat -> Nat], NEW o \in 1 .. m,
           Tree(f, m, low, lev), NEW p \in 1 .. m, lev[p] = lev[o] + 1,
           NEW x, NEW k, <<x, k>> \in Kids(lev[p], m, low, lev)
    PROVE  Outside(f[o], low[o], k)
<1>1. x \in 1 .. m /\ low[x] = k /\ lev[x] + 1 = lev[o] + 1
  <2>1. x \in 1 .. m /\ low[x] = k /\ lev[x] + 1 = lev[p]
      BY KidsAre
  <2> QED BY <2>1
<1>2. lev[x] = lev[o]
  <2>1. lev[x] \in Nat /\ lev[o] \in Nat
      BY <1>1
  <2> QED BY <1>1, <2>1
<1> QED BY <1>1, <1>2, LowOutside

(* No border of a node is strictly within the range of a node below.          *)
LEMMA BordersOutside ==
    ASSUME NEW f, NEW m, NEW low \in [Nat -> Nat], NEW lev \in [Nat -> Nat], NEW o \in 1 .. m,
           NEW p \in 1 .. m, Tree(f, m, low, lev), lev[p] = lev[o] + 1
    PROVE  /\ Outside(f[o], low[o], low[p])
           /\ \A i \in 0 .. f[p].n - 1 : Outside(f[o], low[o], f[p].keys[i])
           /\ f[p].right # NoNode => Outside(f[o], low[o], f[p].high)
<1>1. ASSUME NEW q \in 1 .. m, lev[q] = lev[p]
      PROVE  ~f[q].leaf
  <2>1. lev[q] # 0
    <3>1. lev[o] \in Nat
        OBVIOUS
    <3> QED BY <1>1, <3>1
  <2>2. lev[q] = 0 <=> f[q].leaf
      BY <1>1, HeightOfLeaf
  <2> QED BY <2>1, <2>2
<1>2. Outside(f[o], low[o], low[p])
  <2>1. <<f[p].slots[0], low[p]>> \in Kids(lev[p], m, low, lev)
      BY <1>1, ChildrenAre
  <2> QED BY <2>1, KidOutside
<1>3. ASSUME NEW i \in 0 .. f[p].n - 1
      PROVE  Outside(f[o], low[o], f[p].keys[i])
  <2>1. <<f[p].slots[i + 1], f[p].keys[i]>> \in Kids(lev[p], m, low, lev)
      BY <1>1, ChildrenAre
  <2> QED BY <2>1, KidOutside
<1>4. ASSUME f[p].right # NoNode
      PROVE  Outside(f[o], low[o], f[p].high)
  <2>1. PICK q \in 1 .. m : q = f[p].right
      BY <1>4, RightSibling
  <2>2. low[q] = f[p].high /\ lev[q] = lev[p]
    <3>1. low[f[p].right] = f[p].high /\ lev[f[p].right] = lev[p]
        BY <1>4 DEF Tree, NodeFits
    <3> QED BY <2>1, <3>1
  <2>3. <<f[q].slots[0], low[q]>> \in Kids(lev[q], m, low, lev)
      BY <1>1, <2>2, ChildrenAre
  <2> QED BY <2>2, <2>3, KidOutside
<1> QED BY <1>2, <1>3, <1>4

(* A border is on the same side of all that is within the node's range.       *)
LEMMA SameSide ==
    ASSUME NEW nd, NEW lo \in Nat, NEW k \in Nat, NEW a \in Nat, NEW b \in Nat, nd.high \in Nat,
           Outside(nd, lo, k), InRange(nd, lo, a), InRange(nd, lo, b)
    PROVE  k <= a <=> k <= b
BY DEF Outside, InRange

LEMMA StrictlyIn ==
    ASSUME NEW nd, NEW lo \in Nat, NEW k \in Nat, NEW s \in Nat, nd.high \in Nat,
           Outside(nd, lo, k), lo < s, nd.right # NoNode => s < nd.high
    PROVE  k # s
BY DEF Outside

(* The parent whose range the key to add is not beyond: the middle key of the *)
(* node is for it, and on the same side of its keys as the writer's key.      *)
LEMMA ParentFits ==
    ASSUME NEW f, NEW m, NEW low \in [Nat -> Nat], NEW lev \in [Nat -> Nat], NEW o \in 1 .. m,
           NEW p \in 1 .. m, Tree(f, m, low, lev), lev[p] = lev[o] + 1,
           NEW key \in Nat, NEW u \in Nat, NEW s \in Nat,
           InRange(f[o], low[o], key), InRange(f[o], low[o], u),
           low[o] < s, f[o].right # NoNode => s < f[o].high,
           low[p] <= key, ~Passed(f[p], u)
    PROVE  /\ InRange(f[p], low[p], key) /\ InRange(f[p], low[p], s)
           /\ ~HasKey(f[p], s)
           /\ SameOrder(f[p], key, s)
<1>1. low[o] \in Nat /\ low[p] \in Nat
    OBVIOUS
<1>2. f[o].high \in Nat /\ f[p].high \in Nat
    BY NodeFacts
<1>3. InRange(f[o], low[o], s)
    BY <1>1 DEF InRange
<1>4. ASSUME NEW k \in Nat, Outside(f[o], low[o], k)
      PROVE  (k <= key <=> k <= s) /\ (k <= key <=> k <= u) /\ k # s
  <2>1. (k <= key <=> k <= s) /\ (k <= key <=> k <= u)
      BY <1>1, <1>2, <1>3, <1>4, SameSide
  <2>2. k # s
      BY <1>1, <1>2, <1>4, StrictlyIn
  <2> QED BY <2>1, <2>2
<1>5. low[p] <= s
    BY <1>1, <1>4, BordersOutside
<1>6. ASSUME f[p].right # NoNode
      PROVE  key < f[p].high /\ s < f[p].high
  <2>1. Outside(f[o], low[o], f[p].high)
      BY <1>6, BordersOutside
  <2>2. ~(f[p].high <= u)
      BY <1>2, <1>6 DEF Passed
  <2> QED BY <1>2, <1>4, <2>1, <2>2
<1>7. ASSUME NEW i \in 0 .. f[p].n - 1
      PROVE  (f[p].keys[i] <= key <=> f[p].keys[i] <= s) /\ f[p].keys[i] # s
  <2>1. WellMade(f[p], low[p], Kids(lev[p], m, low, lev), 1 .. m)
      BY DEF Tree, NodeFits
  <2>2. f[p].keys[i] \in Nat
      BY <2>1, NodeTypes
  <2> QED BY <1>4, <2>2, BordersOutside
<1> QED BY <1>5, <1>6, <1>7 DEF InRange, HasKey, SameOrder

(* To the right of it only if the writer's key is, too.                       *)
LEMMA ParentRightFits ==
    ASSUME NEW f, NEW m, NEW low \in [Nat -> Nat], NEW lev \in [Nat -> Nat], NEW o \in 1 .. m,
           NEW p \in 1 .. m, Tree(f, m, low, lev), lev[p] = lev[o] + 1,
           NEW key \in Nat, NEW u \in Nat,
           InRange(f[o], low[o], key), InRange(f[o], low[o], u), Passed(f[p], u)
    PROVE  f[p].right # NoNode /\ f[p].high <= key
<1>1. f[o].high \in Nat /\ f[p].high \in Nat /\ f[p].right # NoNode /\ low[o] \in Nat
  <2>1. f[o].high \in Nat /\ f[p].high \in Nat
      BY NodeFacts
  <2> QED BY <2>1 DEF Passed
<1>2. Outside(f[o], low[o], f[p].high)
    BY <1>1, BordersOutside
<1>3. f[p].high <= u
    BY <1>1 DEF Passed
<1>4. f[p].high <= key
    BY <1>1, <1>2, <1>3, SameSide
<1> QED BY <1>1, <1>4

(* No key of the node that is not greater than `key' is greater than l.       *)
Nearest(nd, key, l) == \A j \in 0 .. nd.n - 1 : nd.keys[j] <= key => nd.keys[j] <= l

(* btnodeChildByKey() of a node that the key is not to the left of.           *)
LEMMA ChildChosen ==
    ASSUME NEW f, NEW m, NEW low \in [Nat -> Nat], NEW lev \in [Nat -> Nat], NEW o \in 1 .. m,
           Tree(f, m, low, lev), ~f[o].leaf, NEW key \in Nat, low[o] <= key,
           NEW x, x = ChildByKey(f[o], key)
    PROVE  /\ x \in 1 .. m /\ low[x] <= key /\ lev[x] + 1 = lev[o] /\ low[o] <= low[x]
           /\ Nearest(f[o], key, low[x])
<1>1. L \in Nat /\ L >= 2
    BY LAssumption
<1>2. WellMade(f[o], low[o], Kids(lev[o], m, low, lev), 1 .. m)
    BY DEF Tree, NodeFits
<1>3. PICK n \in 0 .. 2 * L : n = f[o].n
    BY <1>2 DEF WellMade, Shape
<1>4. PICK keys, slots : keys = f[o].keys /\ slots = f[o].slots
    OBVIOUS
<1>5. /\ Sorted(keys, n) /\ keys[2 * L] = Junk /\ low[o] \in Nat
      /\ \A j \in 0 .. n - 1 : low[o] <= keys[j]
  <2>1. Sorted(keys, n) /\ keys[2 * L] = Junk
      BY <1>2, <1>3, <1>4 DEF WellMade, Ascends
  <2>2. \A j \in 0 .. n - 1 : InRange(f[o], low[o], keys[j])
      BY <1>2, <1>3, <1>4 DEF WellMade, Ascends
  <2> QED BY <2>1, <2>2 DEF InRange
<1>6. PICK i \in 0 .. n : i = Fgoe(f[o], key) /\ Placed(keys, key, n, i)
  <2>1. f[o].n \in 0 .. 2 * L /\ Sorted(f[o].keys, f[o].n)
      BY <1>3, <1>4, <1>5
  <2>2. Placed(keys, key, n, Fgoe(f[o], key))
      BY <1>3, <1>4, <2>1, FgoeFinds
  <2> QED BY <2>2 DEF Placed
<1>7. x = IF keys[i] = key THEN slots[i + 1] ELSE slots[i]
    BY <1>4, <1>6 DEF ChildByKey
<1>8. /\ <<slots[0], low[o]>> \in Kids(lev[o], m, low, lev)
      /\ \A j \in 0 .. 2 * L - 1 : keys[j] # Junk =>
            <<slots[j + 1], keys[j]>> \in Kids(lev[o], m, low, lev)
    BY <1>2, <1>4 DEF WellMade, ChildrenFit
<1>9. \A j \in 0 .. n - 1 : keys[j] \in Nat /\ keys[j] # Junk /\ j \in 0 .. 2 * L - 1
    BY <1>5, <1>1, SentinelAssumption DEF Sorted
<1>10. CASE keys[i] = key
  <2>1. key # Junk /\ i # 2 * L
      BY <1>5, <1>10, SentinelAssumption
  <2>2. <<x, key>> \in Kids(lev[o], m, low, lev)
    <3>1. i \in 0 .. 2 * L - 1
        BY <2>1, <1>1
    <3> QED BY <3>1, <2>1, <1>7, <1>8, <1>10
  <2>3. x \in 1 .. m /\ low[x] = key /\ lev[x] + 1 = lev[o]
      BY <2>2, KidsAre
  <2> QED BY <2>3, <1>3, <1>4 DEF Nearest
<1>11. CASE keys[i] # key
  <2>1. x = slots[i]
      BY <1>7, <1>11
  <2>2. ASSUME NEW j \in 0 .. n - 1, keys[j] <= key
        PROVE  j < i
    <3> SUFFICES ASSUME j >= i
                 PROVE  FALSE
        OBVIOUS
    <3>1. i \in 0 .. n - 1 /\ (i = j \/ i < j)
        BY <2>2
    <3>2. keys[i] \in Nat /\ key <= keys[i] /\ (i < j => keys[i] < keys[j]) /\ keys[j] \in Nat
        BY <3>1, <1>5, <1>6 DEF Sorted, Placed
    <3> QED BY <3>1, <3>2, <2>2, <1>11
  <2>3. CASE i = 0
    <3>1. x \in 1 .. m /\ low[x] = low[o] /\ lev[x] + 1 = lev[o]
        BY <2>1, <2>3, <1>8, KidsAre
    <3>2. \A j \in 0 .. n - 1 : ~(keys[j] <= key)
        BY <2>2, <2>3
    <3> QED BY <3>1, <3>2, <1>3, <1>4, <1>5 DEF Nearest
  <2>4. CASE i # 0
    <3>1. PICK h \in 0 .. n - 1 : h + 1 = i /\ h < i
        BY <2>4, <1>3
    <3>2. keys[h] \in Nat /\ keys[h] < key /\ keys[h] # Junk /\ h \in 0 .. 2 * L - 1
        BY <3>1, <1>6, <1>9 DEF Placed
    <3>3. <<x, keys[h]>> \in Kids(lev[o], m, low, lev)
        BY <3>1, <3>2, <2>1, <1>8
    <3>4. x \in 1 .. m /\ low[x] = keys[h] /\ lev[x] + 1 = lev[o]
        BY <3>3, KidsAre
    <3>5. ASSUME NEW j \in 0 .. n - 1, keys[j] <= key
          PROVE  keys[j] <= keys[h]
      <4>1. j = h \/ j < h
          BY <2>2, <3>1, <3>5
      <4>2. j < h => keys[j] < keys[h]
          BY <1>5 DEF Sorted
      <4> QED BY <4>1, <4>2, <1>9, <3>2
    <3>6. low[o] <= keys[h] /\ keys[h] <= key
        BY <3>2, <1>5
    <3> QED BY <3>4, <3>5, <3>6, <1>3, <1>4 DEF Nearest
  <2> QED BY <2>3, <2>4
<1> QED BY <1>10, <1>11

-----------------------------------------------------------------------------
Operation == [op : {"read", "write"}, key : Keys, value : Value \cup {Absent}]
Places == {"idle", "descend", "leaf", "full", "parent", "link"}

(* The nodes are shaped like nodes, and each has a lock.                      *)
FileShape ==
    /\ file \in Seq(Shape)
    /\ wr \in Seq(Client \cup {NoClient}) /\ Len(wr) = Len(file)

(* The types of what the clients keep.                                        *)
ClientShape ==
    /\ script \in [Client -> Seq(Operation)]
    /\ pc \in [Client -> Places]
    /\ at \in [Client -> Nat \cup {NoNode}]
    /\ parent \in [Client -> Nat \cup {NoNode}]
    /\ stk \in [Client -> Seq(Nat)]
    /\ up \in [Client -> [key : Nat, node : Nat \cup {NoNode}]]
    /\ got \in [Client -> Value \cup {Absent, Junk}]
    /\ broken \in BOOLEAN

(* The root has no node above it, beside it or to the left of it.             *)
RootFits(low, lev) ==
    /\ root \in Offset /\ low[root] = 0 /\ file[root].right = NoNode
    /\ \A o \in Offset : (file[o].root <=> o = root) /\ lev[o] <= lev[root]
    /\ \E M \in Nat : \A o \in Offset : low[o] <= M

(* A node, of m, that the key is not to the left of.                          *)
Passes(o, key, m, low) == o \in 1 .. m /\ low[o] <= key

(* The nodes on a stack, each on the level above the next; the last one is    *)
(* above the height top.                                                      *)
Stacked(s, key, top, m, low, lev) ==
    \A i \in 1 .. Len(s) :
        /\ Passes(s[i], key, m, low)
        /\ lev[s[i]] = top + Len(s) + 1 - i

(* A client within a call is not to the right of its key, and a writer        *)
(* remembers one node of each level above.                                    *)
Busy(c, low, lev) ==
    /\ script[c] # <<>>
    /\ Passes(at[c], Key(c), Len(file), low)
    /\ ~Writer(c) => stk[c] = <<>>
    /\ Stacked(stk[c], Key(c), IF pc[c] = "parent" THEN lev[parent[c]] ELSE lev[at[c]],
               Len(file), low, lev)

(* What a writer has for the node nd that it keeps locked fits into it.       *)
Held(c, nd, low, lev) ==
    /\ wr[at[c]] = c /\ Writer(c)
    /\ pc[c] \in {"full", "parent"} => nd.n = 2 * L
    /\ pc[c] = "link" => nd.n < 2 * L /\ ~nd.leaf
    /\ Adds(nd, low[at[c]], Kids(lev[at[c]], Len(file), low, lev), 1 .. Len(file),
            Key(c), Op(c).value, up[c])
    /\ nd.leaf => up[c] = [key |-> Key(c), node |-> NoNode]

(* What a client keeps fits the tree.                                         *)
ClientFits(c, low, lev) ==
    /\ pc[c] # "parent" => parent[c] = NoNode
    /\ pc[c] = "idle" => at[c] = NoNode /\ stk[c] = <<>>
    /\ ~InSplit(c) => up[c] = NoUp
    /\ pc[c] # "idle" => Busy(c, low, lev)
    /\ pc[c] = "leaf" => Writer(c) /\ file[at[c]].leaf
    /\ pc[c] = "parent" => Passes(parent[c], Key(c), Len(file), low)
                         /\ lev[parent[c]] = lev[at[c]] + 1
    /\ InSplit(c) => Held(c, file[at[c]], low, lev)

(* A write lock is held by the writer that splits the node or links into it.  *)
Locks == \A o \in Offset, c \in Client : wr[o] = c => InSplit(c) /\ at[c] = o

(* A node is the root, or a child, or to be made a child.                     *)
HasPlace(o) ==
    \/ o = root
    \/ \E p \in Offset : ~file[p].leaf /\ o \in Children(file[p])
    \/ \E c \in Client : InSplit(c) /\ up[c].node = o
Linked == \A o \in Offset : HasPlace(o)

(* The tree of nodes with these least keys and heights, and its clients.      *)
Inv(low, lev) ==
    /\ FileShape /\ ClientShape
    /\ Tree(file, Len(file), low, lev)
    /\ RootFits(low, lev)
    /\ \A c \in Client : ClientFits(c, low, lev)
    /\ Locks
    /\ Linked

(* The inductive invariant. *)
IInv == \E low, lev \in [Nat -> Nat] : Inv(low, lev)

-----------------------------------------------------------------------------
KeepsSeat(c) ==
    /\ pc'[c] = pc[c] /\ at'[c] = at[c] /\ parent'[c] = parent[c] /\ stk'[c] = stk[c]
    /\ up'[c] = up[c] /\ script'[c] = script[c]

(* The file changes, but not in what a client that is not at the node that is *)
(* written depends upon.                                                      *)
Extends(low, lev, low2, lev2) ==
    /\ Len(file) \in Nat /\ Len(file') \in Nat /\ Len(file) <= Len(file')
    /\ \A o \in Offset :
         /\ low2[o] = low[o] /\ lev2[o] = lev[o]
         /\ file'[o].leaf = file[o].leaf

LEMMA Positions ==
    ASSUME FileShape
    PROVE  /\ Len(file) \in Nat /\ Offset = 1 .. Len(file) /\ Offset \subseteq Nat
           /\ DOMAIN file = Offset /\ DOMAIN wr = Offset
           /\ \A o \in Offset : file[o] \in Shape /\ wr[o] \in Client \cup {NoClient}
           /\ NoNode \notin Offset
BY SentinelAssumption DEF FileShape, Offset

LEMMA AddsMore ==
    ASSUME NEW nd, NEW lo, NEW kids, NEW off, NEW kids2, NEW off2, NEW key, NEW value, NEW u,
           kids \subseteq kids2, off \subseteq off2, Adds(nd, lo, kids, off, key, value, u)
    PROVE  Adds(nd, lo, kids2, off2, key, value, u)
BY DEF Adds

LEMMA PassesMore ==
    ASSUME NEW key, NEW m \in Nat, NEW m2 \in Nat, m <= m2, NEW low, NEW low2,
           \A x \in 1 .. m : low2[x] = low[x],
           NEW o, Passes(o, key, m, low)
    PROVE  Passes(o, key, m2, low2)
BY DEF Passes

LEMMA StackedMore ==
    ASSUME NEW key, NEW m \in Nat, NEW m2 \in Nat, m <= m2, NEW low, NEW low2, NEW lev, NEW lev2,
           \A x \in 1 .. m : low2[x] = low[x] /\ lev2[x] = lev[x],
           NEW s, NEW top, Stacked(s, key, top, m, low, lev)
    PROVE  Stacked(s, key, top, m2, low2, lev2)
<1>1. \A i \in 1 .. Len(s) : Passes(s[i], key, m2, low2)
    BY PassesMore DEF Stacked
<1>2. \A i \in 1 .. Len(s) : lev2[s[i]] = lev[s[i]]
    BY DEF Stacked, Passes
<1> QED BY <1>1, <1>2 DEF Stacked

LEMMA ClientKept ==
    ASSUME NEW c \in Client, NEW low, NEW lev, NEW low2, NEW lev2,
           ClientFits(c, low, lev), KeepsSeat(c), Extends(low, lev, low2, lev2),
           InSplit(c) => file'[at[c]] = file[at[c]] /\ wr'[at[c]] = wr[at[c]]
    PROVE  ClientFits(c, low2, lev2)'
<1>1. /\ pc'[c] = pc[c] /\ at'[c] = at[c] /\ parent'[c] = parent[c] /\ stk'[c] = stk[c]
      /\ up'[c] = up[c] /\ script'[c] = script[c]
    BY DEF KeepsSeat
<1>2. PICK m \in Nat, m2 \in Nat : m = Len(file) /\ m2 = Len(file') /\ m <= m2
    BY DEF Extends
<1>3. \A o \in 1 .. m : low2[o] = low[o] /\ lev2[o] = lev[o] /\ file'[o].leaf = file[o].leaf
    BY <1>2 DEF Extends, Offset
<1>4. PICK key, value : key = Key(c) /\ value = Op(c).value
    OBVIOUS
<1>5. Key(c)' = key /\ Op(c)'.value = value /\ Writer(c)' = Writer(c) /\ InSplit(c)' = InSplit(c)
    BY <1>1, <1>4 DEF Key, Writer, Op, InSplit
<1>6. PICK o, p : o = at[c] /\ p = parent[c]
    OBVIOUS
<1>7. /\ pc[c] # "idle" => Passes(o, key, m, low)
      /\ pc[c] = "parent" => Passes(p, key, m, low)
    BY <1>2, <1>4, <1>6 DEF ClientFits, Busy
<1>8. /\ pc[c] # "idle" => o \in 1 .. m /\ low2[o] = low[o] /\ lev2[o] = lev[o]
      /\ pc[c] = "parent" => p \in 1 .. m /\ lev2[p] = lev[p]
    BY <1>3, <1>7 DEF Passes
<1>9. /\ pc[c] # "idle" => Passes(o, key, m2, low2)
      /\ pc[c] = "parent" => Passes(p, key, m2, low2)
    BY <1>2, <1>3, <1>7, PassesMore
<1>10. ASSUME pc[c] # "idle"
       PROVE  Busy(c, low2, lev2)'
  <2>1. Busy(c, low, lev)
      BY <1>10 DEF ClientFits
  <2>2. PICK top : top = IF pc[c] = "parent" THEN lev[p] ELSE lev[o]
      OBVIOUS
  <2>3. Stacked(stk[c], key, top, m, low, lev)
      BY <1>2, <1>4, <1>6, <2>1, <2>2 DEF Busy
  <2>4. Stacked(stk[c], key, top, m2, low2, lev2)
      BY <1>2, <1>3, <2>3, StackedMore
  <2>5. top = IF pc[c] = "parent" THEN lev2[p] ELSE lev2[o]
      BY <1>8, <1>10, <2>2
  <2>6. script[c] # <<>> /\ (~Writer(c) => stk[c] = <<>>)
      BY <2>1 DEF Busy
  <2> QED BY <1>1, <1>2, <1>5, <1>6, <1>9, <1>10, <2>4, <2>5, <2>6 DEF Busy
<1>11. ASSUME InSplit(c)
       PROVE  Held(c, file[at[c]], low2, lev2)'
  <2>1. PICK nd : nd = file[at[c]]
      OBVIOUS
  <2>2. Held(c, nd, low, lev)
      BY <1>11, <2>1 DEF ClientFits
  <2>3. file'[at[c]] = nd /\ wr'[at[c]] = wr[at[c]]
      BY <1>11, <2>1
  <2>4. low2[o] = low[o] /\ lev2[o] = lev[o]
      BY <1>8, <1>11 DEF InSplit
  <2>5. PICK kids, kids2 : kids = Kids(lev[o], m, low, lev) /\ kids2 = Kids(lev[o], m2, low2, lev2)
      OBVIOUS
  <2>6. kids \subseteq kids2 /\ 1 .. m \subseteq 1 .. m2
    <3>1. PICK lv : lv = lev[o]
        OBVIOUS
    <3>2. Kids(lv, m, low, lev) \subseteq Kids(lv, m2, low2, lev2) /\ 1 .. m \subseteq 1 .. m2
      <4>1. 1 .. m \subseteq 1 .. m2
          BY <1>2
      <4>2. \A x \in 1 .. m : low2[x] = low[x] /\ lev2[x] = lev[x]
          BY <1>3
      <4> QED BY <4>1, <4>2 DEF Kids
    <3> QED BY <2>5, <3>1, <3>2
  <2>7. PICK u : u = up[c]
      OBVIOUS
  <2>8. Adds(nd, low[o], kids, 1 .. m, key, value, u)
      BY <1>2, <1>4, <1>6, <2>2, <2>5, <2>7 DEF Held
  <2>9. Adds(nd, low2[o], kids2, 1 .. m2, key, value, u)
      BY <2>4, <2>6, <2>8, AddsMore
  <2>10. /\ wr[o] = c /\ Writer(c)
         /\ pc[c] \in {"full", "parent"} => nd.n = 2 * L
         /\ pc[c] = "link" => nd.n < 2 * L /\ ~nd.leaf
         /\ nd.leaf => u = [key |-> key, node |-> NoNode]
      BY <1>4, <1>6, <2>2, <2>7 DEF Held
  <2> QED BY <1>1, <1>2, <1>5, <1>6, <2>3, <2>4, <2>5, <2>7, <2>9, <2>10 DEF Held
<1>12. ASSUME pc[c] = "leaf"
       PROVE  Writer(c)' /\ file'[at[c]].leaf
    BY <1>3, <1>5, <1>6, <1>8, <1>12 DEF ClientFits
<1>13. ASSUME pc[c] = "parent"
       PROVE  lev2[p] = lev2[o] + 1
    BY <1>6, <1>8, <1>13 DEF ClientFits
<1>14. /\ pc[c] # "parent" => parent[c] = NoNode
       /\ pc[c] = "idle" => at[c] = NoNode /\ stk[c] = <<>>
       /\ ~InSplit(c) => up[c] = NoUp
    BY DEF ClientFits
<1> QED BY <1>1, <1>2, <1>5, <1>6, <1>9, <1>10, <1>11, <1>12, <1>13, <1>14 DEF ClientFits

-----------------------------------------------------------------------------
(* An operation of a script, whatever its key. *)
Request == [op : {"read", "write"}, key : Nat, value : Value \cup {Absent}]

LEMMA ElementOf ==
    ASSUME NEW T, NEW t \in Seq(T), NEW i \in 1 .. Len(t)
    PROVE  t[i] \in T
OBVIOUS

LEMMA SeqInto ==
    ASSUME NEW S, NEW T, NEW s \in Seq(S), \A i \in 1 .. Len(s) : s[i] \in T
    PROVE  s \in Seq(T)
OBVIOUS

LEMMA ScriptOf ==
    ASSUME NEW s \in Scripts, NEW c \in Client
    PROVE  s[c] \in Seq(Request)
<1>1. Scripts \subseteq [Client -> Seq(Request)]
    BY ScriptsAssumption DEF Request
<1> QED BY <1>1

LEMMA KeysAreNat == Keys \subseteq Nat
<1>1. ASSUME NEW s \in Scripts, NEW c \in Client, NEW i \in 1 .. Len(s[c])
      PROVE  s[c][i].key \in Nat
  <2>1. PICK t : t = s[c] /\ t \in Seq(Request)
      BY <1>1, ScriptOf
  <2>2. t[i] \in Request
      BY <1>1, <2>1, ElementOf
  <2> QED BY <2>1, <2>2 DEF Request
<1> QED BY <1>1 DEF Keys

LEMMA ScriptsHaveOperations ==
    ASSUME NEW s \in Scripts
    PROVE  s \in [Client -> Seq(Operation)]
<1>1. s = [c \in Client |-> s[c]]
    BY ScriptsAssumption
<1>2. ASSUME NEW c \in Client
      PROVE  s[c] \in Seq(Operation)
  <2>1. PICK t : t = s[c] /\ t \in Seq(Request)
      BY <1>2, ScriptOf
  <2>2. ASSUME NEW i \in 1 .. Len(t)
        PROVE  t[i] \in Operation
    <3>1. t[i] \in Request
        BY <2>1, <2>2, ElementOf
    <3>2. PICK some : some = {s[c][j].key : j \in 1 .. Len(s[c])}
        OBVIOUS
    <3>3. some \in {{x[d][j].key : j \in 1 .. Len(x[d])} : x \in Scripts, d \in Client}
        BY <1>2, <3>2
    <3>4. t[i].key \in some
        BY <2>1, <2>2, <3>2
    <3>5. t[i].key \in Keys
        BY <3>3, <3>4 DEF Keys
    <3> QED BY <3>1, <3>5 DEF Operation, Request
  <2> QED BY <2>1, <2>2, SeqInto
<1> QED BY <1>1, <1>2

(* The operation that a client is busy with. *)
LEMMA OperationIs ==
    ASSUME NEW c \in Client, ClientShape, script[c] # <<>>
    PROVE  /\ Op(c) \in Operation /\ Key(c) \in Keys /\ Key(c) \in Nat
           /\ Op(c).value \in Value \cup {Absent}
           /\ Writer(c) \/ Op(c).op = "read"
           /\ Tail(script[c]) \in Seq(Operation)
<1>1. script[c] \in Seq(Operation)
    BY DEF ClientShape
<1>2. Op(c) \in Operation /\ Tail(script[c]) \in Seq(Operation)
    BY <1>1 DEF Op
<1>3. Key(c) \in Keys
    BY <1>2 DEF Operation, Key
<1> QED BY <1>2, <1>3, KeysAreNat DEF Operation, Writer

-----------------------------------------------------------------------------
LEMMA EmptyRootMade ==
    ASSUME NEW kids, NEW off
    PROVE  WellMade(EmptyRoot(Absent), 0, kids, off)
<1>1. L \in Nat /\ L >= 2
    BY LAssumption
<1>2. PICK keys : keys = [i \in Slots |-> IF i < 2 * L THEN 0 ELSE Junk]
    OBVIOUS
<1>3. PICK slots : slots = [i \in Slots |-> IF i < 2 * L THEN Absent ELSE Junk]
    OBVIOUS
<1>4. PICK nd : nd = EmptyRoot(Absent)
    OBVIOUS
<1>5. nd = [leaf |-> TRUE, root |-> TRUE, right |-> NoNode, high |-> 0, n |-> 0,
            keys |-> keys, slots |-> slots]
    BY <1>2, <1>3, <1>4 DEF EmptyRoot
<1>6. 2 * L \in Slots /\ ~(2 * L < 2 * L) /\ \A i \in 0 .. 2 * L : i \in Slots
    BY <1>1 DEF Slots
<1>7. keys \in [Slots -> Nat \cup {Junk}] /\ keys[2 * L] = Junk
      /\ slots \in [Slots -> Nat \cup Value \cup {Absent, Junk}]
      /\ \A i \in Slots : slots[i] \in Value \cup {Absent, Junk}
                          /\ (keys[i] # Junk => keys[i] = 0 /\ slots[i] = Absent)
    BY <1>2, <1>3, <1>6
<1>8. nd \in Shape /\ nd.keys = keys /\ nd.slots = slots /\ nd.n = 0 /\ nd.right = NoNode
      /\ nd.leaf = TRUE
    BY <1>1, <1>5, <1>7 DEF Shape
<1>9. Ascends(nd, 0)
    BY <1>8 DEF Ascends, Sorted
<1>10. LeafFits(nd)
    BY <1>6, <1>7, <1>8 DEF LeafFits
<1> QED BY <1>4, <1>7, <1>8, <1>9, <1>10 DEF WellMade, ChildrenFit

LEMMA InitInv == Init => IInv
<1> SUFFICES ASSUME Init
             PROVE  IInv
    OBVIOUS
<1> DEFINE zero == [n \in Nat |-> 0]
<1>1. file = <<EmptyRoot(Absent)>> /\ root = 1 /\ wr = <<NoClient>>
    BY DEF Init, FirstLeaf
<1>2. PICK nd : nd = EmptyRoot(Absent)
    OBVIOUS
<1>3. /\ Len(file) = 1 /\ file[1] = nd /\ 1 .. Len(file) = {1} /\ zero[1] = 0
    BY <1>1, <1>2
<1>4. /\ nd.leaf = TRUE /\ nd.root = TRUE /\ nd.right = NoNode
    BY <1>2 DEF EmptyRoot
<1>5. \A kids, off : WellMade(nd, 0, kids, off)
    BY <1>2, EmptyRootMade
<1>6. FileShape
  <2>1. nd \in Shape
      BY <1>5 DEF WellMade
  <2> QED BY <1>1, <1>2, <2>1 DEF FileShape
<1>7. ClientShape
  <2>1. script \in [Client -> Seq(Operation)]
      BY ScriptsHaveOperations DEF Init
  <2>2. pc \in [Client -> Places]
      BY DEF Init, Places
  <2>3. /\ at \in [Client -> Nat \cup {NoNode}]
        /\ parent \in [Client -> Nat \cup {NoNode}]
      BY DEF Init
  <2>4. stk \in [Client -> Seq(Nat)]
    <3>1. <<>> \in Seq(Nat)
        OBVIOUS
    <3> QED BY <3>1 DEF Init
  <2>5. up \in [Client -> [key : Nat, node : Nat \cup {NoNode}]]
    <3>1. NoUp \in [key : Nat, node : Nat \cup {NoNode}]
        BY DEF NoUp
    <3> QED BY <3>1 DEF Init
  <2>6. got \in [Client -> Value \cup {Absent, Junk}] /\ broken \in BOOLEAN
      BY DEF Init
  <2> QED BY <2>1, <2>2, <2>3, <2>4, <2>5, <2>6 DEF ClientShape
<1>8. Tree(file, Len(file), zero, zero)
  <2> HIDE DEF zero
  <2>1. NodeFits(file, Len(file), zero, zero, 1)
      BY <1>3, <1>4, <1>5 DEF NodeFits
  <2> QED BY <1>3, <2>1 DEF Tree
<1>9. RootFits(zero, zero)
    BY <1>1, <1>3, <1>4 DEF RootFits, Offset
<1>10. \A c \in Client : ClientFits(c, zero, zero)
    BY DEF Init, ClientFits, InSplit
<1>11. Locks /\ Linked
    BY <1>1, <1>3, NoClientAssumption DEF Locks, Linked, HasPlace, Offset
<1>12. zero \in [Nat -> Nat]
    OBVIOUS
<1> HIDE DEF zero
<1> QED BY <1>6, <1>7, <1>8, <1>9, <1>10, <1>11, <1>12 DEF IInv, Inv

-----------------------------------------------------------------------------
(* The other clients stay where they are. *)
OthersKeep(c) == \A d \in Client \ {c} : KeepsSeat(d)

(* A step that writes nothing, and leaves who splits a node as it was.        *)
LEMMA QuietStep ==
    ASSUME NEW c \in Client, NEW low, NEW lev, Inv(low, lev),
           UNCHANGED <<file, root, wr>>, OthersKeep(c), ClientShape',
           ClientFits(c, low, lev)',
           InSplit(c)' = InSplit(c),
           InSplit(c) => at'[c] = at[c] /\ up'[c] = up[c]
    PROVE  Inv(low, lev)'
<1>1. FileShape /\ (\A d \in Client : ClientFits(d, low, lev)) /\ Locks /\ Linked
      /\ Tree(file, Len(file), low, lev) /\ RootFits(low, lev)
    BY DEF Inv
<1>2. FileShape' /\ Tree(file, Len(file), low, lev)' /\ RootFits(low, lev)'
    BY <1>1 DEF FileShape, RootFits, Offset
<1>3. ASSUME NEW d \in Client
      PROVE  ClientFits(d, low, lev)'
  <2>1. CASE d # c
    <3>1. KeepsSeat(d)
        BY <2>1 DEF OthersKeep
    <3>2. Extends(low, lev, low, lev)
        BY <1>1, Positions DEF Extends
    <3> QED BY <1>1, <3>1, <3>2, ClientKept
  <2> QED BY <2>1
<1>4. \A d \in Client : /\ InSplit(d)' = InSplit(d)
                        /\ InSplit(d) => at'[d] = at[d] /\ up'[d] = up[d]
    BY DEF OthersKeep, KeepsSeat, InSplit
<1>5. Locks'
    BY <1>1, <1>4 DEF Locks, Offset, InSplit
<1>6. Linked'
  <2>1. \A d \in Client : InSplit(d) => InSplit(d)' /\ up'[d] = up[d]
      BY <1>4
  <2> QED BY <1>1, <2>1 DEF Linked, HasPlace, Offset, InSplit
<1> QED BY <1>2, <1>3, <1>5, <1>6 DEF Inv

-----------------------------------------------------------------------------
(* Where a client stands that is not idle. *)
LEMMA Standing ==
    ASSUME NEW c \in Client, NEW low \in [Nat -> Nat], NEW lev \in [Nat -> Nat], Inv(low, lev),
           pc[c] # "idle"
    PROVE  /\ at[c] \in 1 .. Len(file) /\ at[c] \in Offset /\ low[at[c]] <= Key(c)
           /\ Key(c) \in Nat /\ Key(c) \in Keys /\ script[c] # <<>>
           /\ Op(c).value \in Value \cup {Absent}
           /\ Len(file) \in Nat
           /\ Tree(file, Len(file), low, lev)
           /\ ~Writer(c) => stk[c] = <<>>
<1>1. FileShape /\ ClientShape /\ ClientFits(c, low, lev) /\ Tree(file, Len(file), low, lev)
    BY DEF Inv
<1>2. Busy(c, low, lev)
    BY <1>1 DEF ClientFits
<1>3. script[c] # <<>> /\ Passes(at[c], Key(c), Len(file), low) /\ (~Writer(c) => stk[c] = <<>>)
    BY <1>2 DEF Busy
<1> QED BY <1>1, <1>3, OperationIs, Positions DEF Passes

LEMMA StackIs ==
    ASSUME NEW c \in Client, NEW low, NEW lev, Inv(low, lev), pc[c] # "idle"
    PROVE  /\ stk[c] \in Seq(Nat)
           /\ pc[c] # "parent" => Stacked(stk[c], Key(c), lev[at[c]], Len(file), low, lev)
           /\ pc[c] = "parent" => Stacked(stk[c], Key(c), lev[parent[c]], Len(file), low, lev)
<1>1. ClientShape /\ ClientFits(c, low, lev)
    BY DEF Inv
<1>2. Busy(c, low, lev)
    BY <1>1 DEF ClientFits
<1> QED BY <1>1, <1>2 DEF Busy, ClientShape

LEMMA AppendIs ==
    ASSUME NEW S, NEW s \in Seq(S), NEW x \in S
    PROVE  /\ Append(s, x) \in Seq(S) /\ Len(Append(s, x)) = Len(s) + 1 /\ Len(s) \in Nat
           /\ Append(s, x)[Len(s) + 1] = x
           /\ \A i \in 1 .. Len(s) : Append(s, x)[i] = s[i]
OBVIOUS

LEMMA FrontIs ==
    ASSUME NEW S, NEW s \in Seq(S), s # <<>>
    PROVE  /\ Len(s) \in Nat /\ Len(s) # 0 /\ Len(s) - 1 \in Nat
           /\ Front(s) \in Seq(S) /\ Len(Front(s)) = Len(s) - 1
           /\ Last(s) = s[Len(s)] /\ Last(s) \in S
           /\ \A i \in 1 .. Len(s) - 1 : Front(s)[i] = s[i]
<1>1. Len(s) \in Nat /\ Len(s) # 0
    OBVIOUS
<1>2. Last(s) = s[Len(s)] /\ s[Len(s)] \in S
    BY <1>1 DEF Last
<1>3. Front(s) = SubSeq(s, 1, Len(s) - 1) /\ Len(s) - 1 \in Nat
    BY <1>1 DEF Front
<1>4. PICK n \in Nat : n = Len(s) - 1 /\ n <= Len(s)
    BY <1>1, <1>3
<1>5. PICK t : t = SubSeq(s, 1, n) /\ t = [i \in 1 .. n |-> s[i]]
  <2>1. SubSeq(s, 1, n) = [i \in 1 .. n |-> s[i]]
      BY <1>1, <1>4
  <2> QED BY <2>1
<1>6. Len(t) = n /\ \A i \in 1 .. n : t[i] = s[i] /\ s[i] \in S
    BY <1>4, <1>5
<1>7. t \in Seq(S)
    BY <1>5, <1>6
<1> QED BY <1>1, <1>2, <1>3, <1>4, <1>5, <1>6, <1>7

(* The writer goes on from the node on its way down.                          *)
LEMMA Pushed ==
    ASSUME NEW s \in Seq(Nat), NEW key, NEW m, NEW low, NEW lev \in [Nat -> Nat], NEW o \in Nat,
           NEW top \in Nat, lev[o] = top + 1, Passes(o, key, m, low),
           Stacked(s, key, lev[o], m, low, lev)
    PROVE  Stacked(Append(s, o), key, top, m, low, lev) /\ Append(s, o) \in Seq(Nat)
<1>1. PICK n, t : n = Len(s) /\ t = Append(s, o)
    OBVIOUS
<1>2. t \in Seq(Nat) /\ n \in Nat /\ Len(t) = n + 1 /\ t[n + 1] = o
      /\ \A i \in 1 .. n : t[i] = s[i]
    BY <1>1, AppendIs
<1>3. ASSUME NEW i \in 1 .. n + 1
      PROVE  Passes(t[i], key, m, low) /\ lev[t[i]] = top + (n + 1) + 1 - i
  <2>1. CASE i = n + 1
    <3>1. t[i] = o
        BY <1>2, <2>1
    <3>2. lev[o] = top + (n + 1) + 1 - i
        BY <1>2, <2>1
    <3> QED BY <3>1, <3>2
  <2>2. CASE i # n + 1
    <3>1. i \in 1 .. n
        BY <1>2, <1>3, <2>2
    <3>2. t[i] = s[i]
        BY <1>2, <3>1
    <3>3. Passes(s[i], key, m, low) /\ lev[s[i]] = (top + 1) + n + 1 - i
        BY <1>1, <3>1 DEF Stacked
    <3> QED BY <1>2, <3>1, <3>2, <3>3
  <2> QED BY <2>1, <2>2
<1> QED BY <1>1, <1>2, <1>3 DEF Stacked

LEMMA Popped ==
    ASSUME NEW s \in Seq(Nat), NEW key, NEW m, NEW low, NEW lev \in [Nat -> Nat],
           NEW top \in Nat, s # <<>>, Stacked(s, key, top, m, low, lev)
    PROVE  /\ Passes(Last(s), key, m, low) /\ lev[Last(s)] = top + 1 /\ Last(s) \in Nat
           /\ Stacked(Front(s), key, lev[Last(s)], m, low, lev) /\ Front(s) \in Seq(Nat)
<1>1. PICK n, o, t : n = Len(s) /\ o = Last(s) /\ t = Front(s)
    OBVIOUS
<1>2. n \in Nat /\ n # 0 /\ n - 1 \in Nat /\ t \in Seq(Nat) /\ Len(t) = n - 1
      /\ o = s[n] /\ o \in Nat /\ \A i \in 1 .. n - 1 : t[i] = s[i]
    BY <1>1, FrontIs
<1>3. \A i \in 1 .. n : Passes(s[i], key, m, low) /\ lev[s[i]] = top + n + 1 - i
    BY <1>1 DEF Stacked
<1>4. Passes(o, key, m, low) /\ lev[o] = top + 1
  <2>1. n \in 1 .. n
      BY <1>2
  <2>2. Passes(s[n], key, m, low) /\ lev[s[n]] = top + n + 1 - n
      BY <1>3, <2>1
  <2> QED BY <1>2, <2>2
<1>5. ASSUME NEW i \in 1 .. n - 1
      PROVE  Passes(t[i], key, m, low) /\ lev[t[i]] = lev[o] + (n - 1) + 1 - i
  <2>1. i \in 1 .. n /\ t[i] = s[i]
      BY <1>2, <1>5
  <2>2. Passes(s[i], key, m, low) /\ lev[s[i]] = top + n + 1 - i
      BY <1>3, <2>1
  <2> QED BY <1>2, <1>4, <2>1, <2>2
<1>6. Stacked(t, key, lev[o], m, low, lev)
    BY <1>2, <1>5 DEF Stacked
<1> QED BY <1>1, <1>2, <1>4, <1>6

-----------------------------------------------------------------------------
(* A client that goes down or right. *)
LEMMA DescendsTo ==
    ASSUME NEW c \in Client, NEW low, NEW lev, Inv(low, lev),
           pc'[c] = "descend", UNCHANGED <<file, script, parent, up>>,
           pc[c] \in {"idle", "descend"}, script[c] # <<>>,
           Passes(at'[c], Key(c), Len(file), low),
           ~Writer(c) => stk'[c] = <<>>,
           Stacked(stk'[c], Key(c), lev[at'[c]], Len(file), low, lev)
    PROVE  ClientFits(c, low, lev)'
<1>1. ClientFits(c, low, lev)
    BY DEF Inv
<1>2. Key(c)' = Key(c) /\ Writer(c)' = Writer(c)
    BY DEF Key, Writer, Op
<1>3. Busy(c, low, lev)'
    BY <1>2 DEF Busy
<1>4. parent'[c] = NoNode /\ up'[c] = NoUp
    BY <1>1 DEF ClientFits, InSplit
<1> QED BY <1>3, <1>4 DEF ClientFits, InSplit

LEMMA StartInv ==
    ASSUME NEW c \in Client, NEW low \in [Nat -> Nat], NEW lev \in [Nat -> Nat], Inv(low, lev),
           Start(c)
    PROVE  Inv(low, lev)'
<1>1. /\ pc[c] = "idle" /\ script[c] # <<>> /\ pc' = [pc EXCEPT ![c] = "descend"]
      /\ at' = [at EXCEPT ![c] = root]
      /\ UNCHANGED <<file, root, wr, script, parent, stk, up, got, broken>>
    BY DEF Start, In
<1>2. FileShape /\ ClientShape /\ RootFits(low, lev) /\ ClientFits(c, low, lev)
    BY DEF Inv
<1>3. pc'[c] = "descend" /\ at'[c] = root /\ stk'[c] = stk[c] /\ stk[c] = <<>>
    BY <1>1, <1>2 DEF ClientShape, ClientFits
<1>4. root \in 1 .. Len(file) /\ low[root] = 0 /\ root \in Nat
    BY <1>2, Positions DEF RootFits, Offset
<1>5. Key(c) \in Nat
    BY <1>1, <1>2, OperationIs
<1>6. Passes(at'[c], Key(c), Len(file), low)
    BY <1>3, <1>4, <1>5 DEF Passes
<1>7. Stacked(stk'[c], Key(c), lev[at'[c]], Len(file), low, lev)
    BY <1>3 DEF Stacked
<1>8. ClientFits(c, low, lev)'
    BY <1>1, <1>3, <1>6, <1>7, DescendsTo
<1>9. ClientShape'
    BY <1>1, <1>2, <1>4 DEF ClientShape, Places
<1>10. OthersKeep(c)
    BY <1>1, <1>2 DEF OthersKeep, KeepsSeat, ClientShape
<1>11. InSplit(c)' = InSplit(c) /\ ~InSplit(c)
    BY <1>1, <1>3 DEF InSplit
<1> QED BY <1>1, <1>8, <1>9, <1>10, <1>11, QuietStep

LEMMA DownLeads ==
    ASSUME NEW c \in Client, NEW low \in [Nat -> Nat], NEW lev \in [Nat -> Nat], Inv(low, lev),
           pc[c] # "idle", ~file[at[c]].leaf
    PROVE  LET x == ChildByKey(file[at[c]], Key(c))
           IN  x \in 1 .. Len(file) /\ low[x] <= Key(c) /\ lev[x] + 1 = lev[at[c]]
<1>1. at[c] \in 1 .. Len(file) /\ low[at[c]] <= Key(c) /\ Key(c) \in Nat
      /\ Tree(file, Len(file), low, lev)
    BY Standing
<1>2. PICK m, o, key : m = Len(file) /\ o = at[c] /\ key = Key(c)
    OBVIOUS
<1>3. PICK x : x = ChildByKey(file[o], key)
    OBVIOUS
<1>4. /\ o \in 1 .. m /\ low[o] <= key /\ key \in Nat
      /\ Tree(file, m, low, lev) /\ ~file[o].leaf
    BY <1>1, <1>2
<1>5. x \in 1 .. m /\ low[x] <= key /\ lev[x] + 1 = lev[o]
    BY <1>3, <1>4, ChildChosen
<1> QED BY <1>2, <1>3, <1>5

(* Through an internal node. *)
LEMMA DownInv ==
    ASSUME NEW c \in Client, NEW low \in [Nat -> Nat], NEW lev \in [Nat -> Nat], Inv(low, lev),
           Visit(c, FALSE), GoTo(c, "descend", ChildByKey(file[at[c]], Key(c))),
           stk' = IF Writer(c) THEN [stk EXCEPT ![c] = Append(@, at[c])] ELSE stk,
           UNCHANGED <<file, root, wr, script, parent, up, got, broken>>
    PROVE  Inv(low, lev)'
<1>1. PICK o, x : o = at[c] /\ x = ChildByKey(file[o], Key(c))
    OBVIOUS
<1>2. /\ pc[c] = "descend" /\ ~file[o].leaf /\ pc' = [pc EXCEPT ![c] = "descend"]
      /\ at' = [at EXCEPT ![c] = x]
    BY <1>1 DEF Visit, In, GoTo
<1>3. ClientShape
    BY DEF Inv
<1>4. o \in 1 .. Len(file) /\ low[o] <= Key(c) /\ Key(c) \in Nat /\ script[c] # <<>>
      /\ Tree(file, Len(file), low, lev) /\ Len(file) \in Nat
      /\ (~Writer(c) => stk[c] = <<>>)
    BY <1>1, <1>2, Standing
<1>5. x \in 1 .. Len(file) /\ low[x] <= Key(c) /\ lev[x] + 1 = lev[o]
    BY <1>1, <1>2, DownLeads
<1>6. pc'[c] = "descend" /\ at'[c] = x /\ x \in Nat /\ o \in Nat /\ lev[x] \in Nat
    BY <1>2, <1>3, <1>4, <1>5 DEF ClientShape
<1>7. stk[c] \in Seq(Nat) /\ Stacked(stk[c], Key(c), lev[o], Len(file), low, lev)
    BY <1>1, <1>2, StackIs
<1>8. Passes(x, Key(c), Len(file), low) /\ Passes(o, Key(c), Len(file), low)
    BY <1>4, <1>5 DEF Passes
<1>9. /\ stk'[c] \in Seq(Nat) /\ Stacked(stk'[c], Key(c), lev[x], Len(file), low, lev)
      /\ ~Writer(c) => stk'[c] = <<>>
      /\ stk' \in [Client -> Seq(Nat)]
  <2>1. CASE Writer(c)
    <3>1. stk' = [stk EXCEPT ![c] = Append(stk[c], o)]
        BY <1>1, <2>1
    <3>2. Stacked(Append(stk[c], o), Key(c), lev[x], Len(file), low, lev)
          /\ Append(stk[c], o) \in Seq(Nat)
        BY <1>5, <1>6, <1>7, <1>8, Pushed
    <3> QED BY <1>3, <2>1, <3>1, <3>2 DEF ClientShape
  <2>2. CASE ~Writer(c)
    <3>1. stk' = stk /\ stk[c] = <<>>
        BY <1>4, <2>2
    <3>2. Stacked(<<>>, Key(c), lev[x], Len(file), low, lev) /\ <<>> \in Seq(Nat)
        BY DEF Stacked
    <3>3. stk' \in [Client -> Seq(Nat)]
        BY <1>3, <3>1 DEF ClientShape
    <3> QED BY <3>1, <3>2, <3>3
  <2> QED BY <2>1, <2>2
<1>10. ClientFits(c, low, lev)'
    BY <1>2, <1>4, <1>6, <1>8, <1>9, DescendsTo
<1>11. ClientShape'
    BY <1>2, <1>3, <1>6, <1>9 DEF ClientShape, Places
<1>12. OthersKeep(c)
    BY <1>2, <1>3 DEF OthersKeep, KeepsSeat, ClientShape
<1>13. InSplit(c)' = InSplit(c) /\ ~InSplit(c)
    BY <1>2, <1>6 DEF InSplit
<1> QED BY <1>10, <1>11, <1>12, <1>13, QuietStep

-----------------------------------------------------------------------------
LEMMA DescendInv ==
    ASSUME NEW c \in Client, NEW low \in [Nat -> Nat], NEW lev \in [Nat -> Nat], Inv(low, lev),
           Descend(c)
    PROVE  Inv(low, lev)'
BY DownInv DEF Descend

LEMMA BreakInv ==
    ASSUME NEW c \in Client, NEW low \in [Nat -> Nat], NEW lev \in [Nat -> Nat], Inv(low, lev),
           UNCHANGED <<file, root, wr, callVars, got>>, broken' \in BOOLEAN
    PROVE  Inv(low, lev)'
<1>1. UNCHANGED <<script, pc, at, parent, stk, up>>
    BY DEF callVars
<1>2. ClientShape /\ ClientFits(c, low, lev)
    BY DEF Inv
<1>3. ClientShape'
    BY <1>1, <1>2 DEF ClientShape
<1>4. OthersKeep(c) /\ KeepsSeat(c)
    BY <1>1 DEF OthersKeep, KeepsSeat
<1>5. InSplit(c)' = InSplit(c) /\ at'[c] = at[c] /\ up'[c] = up[c]
    BY <1>1 DEF InSplit
<1>6. ClientFits(c, low, lev)'
  <2>1. Extends(low, lev, low, lev)
    <3>1. FileShape
        BY DEF Inv
    <3> QED BY <3>1, Positions DEF Extends
  <2> QED BY <1>2, <1>4, <2>1, ClientKept
<1> QED BY <1>3, <1>4, <1>5, <1>6, QuietStep

LEMMA DescendByJunkInv ==
    ASSUME NEW c \in Client, NEW low \in [Nat -> Nat], NEW lev \in [Nat -> Nat], Inv(low, lev),
           DescendByJunk(c)
    PROVE  Inv(low, lev)'
<1>1. \/ /\ GoTo(c, "descend", ChildByKey(file[at[c]], Key(c)))
         /\ stk' = IF Writer(c) THEN [stk EXCEPT ![c] = Append(@, at[c])] ELSE stk
         /\ UNCHANGED broken
      \/ broken' = TRUE /\ UNCHANGED <<pc, at, stk>>
    BY DEF DescendByJunk
<1>2. Visit(c, FALSE) /\ UNCHANGED <<file, root, wr, script, parent, up, got>>
    BY DEF DescendByJunk
<1>3. CASE /\ GoTo(c, "descend", ChildByKey(file[at[c]], Key(c)))
           /\ stk' = IF Writer(c) THEN [stk EXCEPT ![c] = Append(@, at[c])] ELSE stk
           /\ UNCHANGED broken
    BY <1>2, <1>3, DownInv
<1>4. CASE broken' = TRUE /\ UNCHANGED <<pc, at, stk>>
    BY <1>2, <1>4, BreakInv DEF callVars
<1> QED BY <1>1, <1>3, <1>4

LEMMA NoParentInv ==
    ASSUME NEW c \in Client, NEW low \in [Nat -> Nat], NEW lev \in [Nat -> Nat], Inv(low, lev),
           NoParent(c)
    PROVE  Inv(low, lev)'
BY BreakInv DEF NoParent

(* The right sibling, where the key is not less than the high key.            *)
LEMMA RightLeads ==
    ASSUME NEW c \in Client, NEW low \in [Nat -> Nat], NEW lev \in [Nat -> Nat], Inv(low, lev),
           pc[c] # "idle", file[at[c]].right # NoNode, file[at[c]].high <= Key(c)
    PROVE  LET x == file[at[c]].right
           IN  /\ x \in 1 .. Len(file) /\ low[x] <= Key(c) /\ lev[x] = lev[at[c]]
               /\ file[x].leaf <=> file[at[c]].leaf
<1>1. at[c] \in 1 .. Len(file) /\ Tree(file, Len(file), low, lev)
    BY Standing
<1>2. PICK m, o, key : m = Len(file) /\ o = at[c] /\ key = Key(c)
    OBVIOUS
<1>3. PICK x : x = file[o].right
    OBVIOUS
<1>4. x \in 1 .. m /\ low[x] = file[o].high /\ lev[x] = lev[o]
  <2>1. o \in 1 .. m /\ Tree(file, m, low, lev) /\ file[o].right # NoNode
      BY <1>1, <1>2
  <2>2. /\ file[o].right \in 1 .. m
        /\ low[file[o].right] = file[o].high
        /\ lev[file[o].right] = lev[o]
      BY <2>1 DEF Tree, NodeFits
  <2> QED BY <1>3, <2>2
<1>5. file[x].leaf <=> file[o].leaf
  <2>1. o \in 1 .. m /\ Tree(file, m, low, lev)
      BY <1>1, <1>2
  <2>2. (lev[o] = 0 <=> file[o].leaf) /\ (lev[x] = 0 <=> file[x].leaf)
      BY <1>4, <2>1 DEF Tree, NodeFits
  <2> QED BY <1>4, <2>2
<1> QED BY <1>2, <1>3, <1>4, <1>5

LEMMA ReadRightInv ==
    ASSUME NEW c \in Client, NEW low \in [Nat -> Nat], NEW lev \in [Nat -> Nat], Inv(low, lev),
           ReadRight(c)
    PROVE  Inv(low, lev)'
<1>1. PICK o, x : o = at[c] /\ x = file[o].right
    OBVIOUS
<1>2. /\ pc[c] = "descend" /\ ~Writer(c) /\ pc' = [pc EXCEPT ![c] = "descend"]
      /\ at' = [at EXCEPT ![c] = x] /\ x # NoNode /\ file[o].high < Key(c)
      /\ UNCHANGED <<file, root, wr, script, parent, stk, up, got, broken>>
    BY <1>1 DEF ReadRight, Visit, In, GoTo
<1>3. ClientShape
    BY DEF Inv
<1>4. o \in 1 .. Len(file) /\ Key(c) \in Nat /\ script[c] # <<>> /\ stk[c] = <<>>
      /\ Tree(file, Len(file), low, lev)
    BY <1>1, <1>2, Standing
<1>5. x \in 1 .. Len(file) /\ low[x] <= Key(c)
  <2>1. file[o].high \in Nat
      BY <1>4, NodeFacts
  <2>2. file[o].high <= Key(c)
    <3>1. PICK h, k : h = file[o].high /\ k = Key(c)
        OBVIOUS
    <3>2. h \in Nat /\ k \in Nat /\ h < k
        BY <1>2, <1>4, <2>1, <3>1
    <3>3. h <= k
        BY <3>2
    <3> QED BY <3>1, <3>3
  <2> QED BY <1>1, <1>2, <2>2, RightLeads
<1>6. pc'[c] = "descend" /\ at'[c] = x /\ x \in Nat /\ stk'[c] = <<>>
    BY <1>2, <1>3, <1>4, <1>5 DEF ClientShape
<1>7. Passes(at'[c], Key(c), Len(file), low)
      /\ Stacked(stk'[c], Key(c), lev[at'[c]], Len(file), low, lev)
    BY <1>5, <1>6 DEF Passes, Stacked
<1>8. ClientFits(c, low, lev)'
    BY <1>2, <1>4, <1>6, <1>7, DescendsTo
<1>9. ClientShape'
    BY <1>2, <1>3, <1>6 DEF ClientShape, Places
<1>10. OthersKeep(c)
    BY <1>2, <1>3 DEF OthersKeep, KeepsSeat, ClientShape
<1>11. InSplit(c)' = InSplit(c) /\ ~InSplit(c)
    BY <1>2, <1>6 DEF InSplit
<1> QED BY <1>2, <1>8, <1>9, <1>10, <1>11, QuietStep

-----------------------------------------------------------------------------
(* The call of a client returns. *)
LEMMA Returned ==
    ASSUME NEW c \in Client, NEW low, NEW lev, Inv(low, lev), script[c] # <<>>, Return(c),
           got' \in [Client -> Value \cup {Absent, Junk}], broken' \in BOOLEAN
    PROVE  ClientShape' /\ OthersKeep(c) /\ ClientFits(c, low, lev)' /\ pc'[c] = "idle"
<1>1. ClientShape
    BY DEF Inv
<1>2. /\ script' = [script EXCEPT ![c] = Tail(script[c])]
      /\ pc' = [pc EXCEPT ![c] = "idle"]
      /\ at' = [at EXCEPT ![c] = NoNode]
      /\ parent' = [parent EXCEPT ![c] = NoNode]
      /\ stk' = [stk EXCEPT ![c] = <<>>]
      /\ up' = [up EXCEPT ![c] = NoUp]
    BY DEF Return
<1>3. Tail(script[c]) \in Seq(Operation)
    BY <1>1, OperationIs
<1>4. NoUp \in [key : Nat, node : Nat \cup {NoNode}] /\ <<>> \in Seq(Nat)
    BY DEF NoUp
<1>5. script' \in [Client -> Seq(Operation)] /\ pc' \in [Client -> Places]
    BY <1>1, <1>2, <1>3 DEF ClientShape, Places
<1>6. at' \in [Client -> Nat \cup {NoNode}] /\ parent' \in [Client -> Nat \cup {NoNode}]
    BY <1>1, <1>2 DEF ClientShape
<1>7. stk' \in [Client -> Seq(Nat)]
      /\ up' \in [Client -> [key : Nat, node : Nat \cup {NoNode}]]
    BY <1>1, <1>2, <1>4 DEF ClientShape
<1>8. ClientShape'
    BY <1>5, <1>6, <1>7 DEF ClientShape
<1>9. OthersKeep(c)
    BY <1>1, <1>2 DEF OthersKeep, KeepsSeat, ClientShape
<1>10. pc'[c] = "idle" /\ at'[c] = NoNode /\ parent'[c] = NoNode /\ stk'[c] = <<>>
       /\ up'[c] = NoUp
    BY <1>1, <1>2 DEF ClientShape
<1>11. ClientFits(c, low, lev)'
    BY <1>10 DEF ClientFits, InSplit
<1> QED BY <1>8, <1>9, <1>10, <1>11

LEMMA ReadValueInv ==
    ASSUME NEW c \in Client, NEW low \in [Nat -> Nat], NEW lev \in [Nat -> Nat], Inv(low, lev),
           ReadValue(c)
    PROVE  Inv(low, lev)'
<1>1. PICK nd : nd = file[at[c]]
    OBVIOUS
<1>2. /\ pc[c] = "descend" /\ nd.leaf = TRUE /\ Return(c) /\ UNCHANGED <<file, root, wr, broken>>
    BY <1>1 DEF ReadValue, Visit, In
<1>3. PICK v \in {ValueByKey(nd, Key(c), Absent)}
                     \cup (IF ReadsJunk(nd, Key(c)) THEN {Junk} ELSE {}) :
             got' = [got EXCEPT ![c] = v]
    BY <1>1 DEF ReadValue
<1>4. at[c] \in 1 .. Len(file) /\ Key(c) \in Nat /\ script[c] # <<>>
      /\ Tree(file, Len(file), low, lev)
    BY <1>2, Standing
<1>5. ValueByKey(nd, Key(c), Absent) \in Value \cup {Absent, Junk}
  <2>1. PICK key, lo, kids, off : key = Key(c) /\ WellMade(nd, lo, kids, off)
      BY <1>1, <1>4 DEF Tree, NodeFits
  <2>2. nd.n \in 0 .. 2 * L /\ Sorted(nd.keys, nd.n) /\ key \in Nat
      BY <1>4, <2>1 DEF WellMade, Shape, Ascends
  <2>3. PICK i : i = Fgoe(nd, key) /\ i \in Slots
    <3>1. Placed(nd.keys, key, nd.n, Fgoe(nd, key))
        BY <2>2, FgoeFinds
    <3> QED BY <2>2, <3>1, LAssumption DEF Placed, Slots
  <2>4. nd.slots[i] \in Value \cup {Absent, Junk}
      BY <1>2, <2>1, <2>3 DEF WellMade, LeafFits
  <2> QED BY <2>1, <2>3, <2>4 DEF ValueByKey
<1>6. ClientShape
    BY DEF Inv
<1>7. got' \in [Client -> Value \cup {Absent, Junk}] /\ broken' \in BOOLEAN
    BY <1>2, <1>3, <1>5, <1>6 DEF ClientShape
<1>8. ClientShape' /\ OthersKeep(c) /\ ClientFits(c, low, lev)' /\ pc'[c] = "idle"
    BY <1>2, <1>4, <1>7, Returned
<1>9. InSplit(c)' = InSplit(c) /\ ~InSplit(c)
    BY <1>2, <1>8 DEF InSplit
<1> QED BY <1>2, <1>8, <1>9, QuietStep

LEMMA FoundLeafInv ==
    ASSUME NEW c \in Client, NEW low \in [Nat -> Nat], NEW lev \in [Nat -> Nat], Inv(low, lev),
           FoundLeaf(c)
    PROVE  Inv(low, lev)'
<1>1. /\ pc[c] = "descend" /\ file[at[c]].leaf /\ Writer(c) /\ pc' = [pc EXCEPT ![c] = "leaf"]
      /\ UNCHANGED <<file, root, wr, script, at, parent, stk, up, got, broken>>
    BY DEF FoundLeaf, Visit, In
<1>2. ClientShape /\ ClientFits(c, low, lev)
    BY DEF Inv
<1>3. pc'[c] = "leaf"
    BY <1>1, <1>2 DEF ClientShape
<1>4. Busy(c, low, lev)'
    BY <1>1, <1>2, <1>3 DEF ClientFits, Busy, Key, Writer, Op
<1>5. ClientFits(c, low, lev)'
    BY <1>1, <1>2, <1>3, <1>4 DEF ClientFits, InSplit, Writer, Op
<1>6. ClientShape'
    BY <1>1, <1>2 DEF ClientShape, Places
<1>7. OthersKeep(c)
    BY <1>1, <1>2 DEF OthersKeep, KeepsSeat, ClientShape
<1>8. InSplit(c)' = InSplit(c) /\ ~InSplit(c)
    BY <1>1, <1>3 DEF InSplit
<1> QED BY <1>1, <1>5, <1>6, <1>7, <1>8, QuietStep

-----------------------------------------------------------------------------
LEMMA MoveRightInv ==
    ASSUME NEW c \in Client, NEW low \in [Nat -> Nat], NEW lev \in [Nat -> Nat], Inv(low, lev),
           MoveRight(c)
    PROVE  Inv(low, lev)'
<1>1. PICK o, x : o = at[c] /\ x = file[o].right
    OBVIOUS
<1>2. /\ pc[c] = "leaf" /\ at' = [at EXCEPT ![c] = x] /\ x # NoNode /\ Key(c) >= file[o].high
      /\ UNCHANGED <<file, root, wr, script, pc, parent, stk, up, got, broken>>
    BY <1>1 DEF MoveRight, AtLeaf, In, Passed
<1>3. ClientShape /\ ClientFits(c, low, lev)
    BY DEF Inv
<1>4. o \in 1 .. Len(file) /\ Key(c) \in Nat /\ script[c] # <<>>
      /\ Tree(file, Len(file), low, lev) /\ (~Writer(c) => stk[c] = <<>>)
    BY <1>1, <1>2, Standing
<1>5. x \in 1 .. Len(file) /\ low[x] <= Key(c) /\ lev[x] = lev[o] /\ (file[x].leaf <=> file[o].leaf)
  <2>1. file[o].high <= Key(c)
    <3>1. PICK h, k : h = file[o].high /\ k = Key(c)
        OBVIOUS
    <3>2. h \in Nat /\ k \in Nat /\ k >= h
        BY <1>2, <1>4, <3>1, NodeFacts
    <3>3. h <= k
        BY <3>2
    <3> QED BY <3>1, <3>3
  <2> QED BY <1>1, <1>2, <2>1, RightLeads
<1>6. pc'[c] = "leaf" /\ at'[c] = x /\ x \in Nat /\ stk'[c] = stk[c]
    BY <1>2, <1>3, <1>4, <1>5 DEF ClientShape
<1>7. Stacked(stk[c], Key(c), lev[o], Len(file), low, lev)
    BY <1>1, <1>2, StackIs
<1>8. Passes(x, Key(c), Len(file), low)
    BY <1>5 DEF Passes
<1>9. Key(c)' = Key(c) /\ Writer(c)' = Writer(c)
    BY <1>2 DEF Key, Writer, Op
<1>10. Busy(c, low, lev)'
    BY <1>2, <1>4, <1>5, <1>6, <1>7, <1>8, <1>9 DEF Busy
<1>11. Writer(c) /\ file[o].leaf /\ parent[c] = NoNode /\ up[c] = NoUp
    BY <1>1, <1>2, <1>3 DEF ClientFits, InSplit
<1>12. ClientFits(c, low, lev)'
    BY <1>2, <1>5, <1>6, <1>9, <1>10, <1>11 DEF ClientFits, InSplit
<1>13. ClientShape'
    BY <1>2, <1>3, <1>6 DEF ClientShape
<1>14. OthersKeep(c)
    BY <1>2, <1>3 DEF OthersKeep, KeepsSeat, ClientShape
<1>15. InSplit(c)' = InSplit(c) /\ ~InSplit(c)
    BY <1>2, <1>6 DEF InSplit
<1> QED BY <1>2, <1>12, <1>13, <1>14, <1>15, QuietStep

(* What a writer of a full node has, while it looks for the parent.           *)
LEMMA Seeks ==
    ASSUME NEW c \in Client, NEW low \in [Nat -> Nat], NEW lev \in [Nat -> Nat], Inv(low, lev),
           pc[c] \in {"full", "parent"}, pc'[c] = "parent",
           UNCHANGED <<file, wr, script, at, up>>,
           parent'[c] \in 1 .. Len(file), low[parent'[c]] <= Key(c),
           lev[parent'[c]] = lev[at[c]] + 1,
           Stacked(stk'[c], Key(c), lev[parent'[c]], Len(file), low, lev)
    PROVE  ClientFits(c, low, lev)'
<1>1. ClientFits(c, low, lev)
    BY DEF Inv
<1>2. Busy(c, low, lev) /\ Held(c, file[at[c]], low, lev)
    BY <1>1 DEF ClientFits, InSplit
<1>3. Key(c)' = Key(c) /\ Writer(c)' = Writer(c) /\ Op(c)' = Op(c)
    BY DEF Key, Writer, Op
<1>4. Writer(c) /\ wr[at[c]] = c /\ file[at[c]].n = 2 * L
    BY <1>2 DEF Held
<1>5. Busy(c, low, lev)'
    BY <1>2, <1>3, <1>4 DEF Busy
<1>6. Held(c, file[at[c]], low, lev)'
  <2>1. PICK nd, kids, m, lo, key, value, u :
            /\ nd = file[at[c]] /\ kids = Kids(lev[at[c]], Len(file), low, lev) /\ m = Len(file)
            /\ lo = low[at[c]] /\ key = Key(c) /\ value = Op(c).value /\ u = up[c]
      OBVIOUS
  <2>2. Adds(nd, lo, kids, 1 .. m, key, value, u) /\ (nd.leaf => u = [key |-> key, node |-> NoNode])
      BY <1>2, <2>1 DEF Held
  <2> QED BY <1>3, <1>4, <2>1, <2>2 DEF Held
<1> QED BY <1>3, <1>5, <1>6 DEF ClientFits, Passes, InSplit

LEMMA ToParentInv ==
    ASSUME NEW c \in Client, NEW low \in [Nat -> Nat], NEW lev \in [Nat -> Nat], Inv(low, lev),
           ToParent(c)
    PROVE  Inv(low, lev)'
<1>1. PICK s, o : s = stk[c] /\ o = at[c]
    OBVIOUS
<1>2. PICK p, t : p = Last(s) /\ t = Front(s)
    OBVIOUS
<1>3. /\ pc[c] = "full" /\ s # <<>> /\ pc' = [pc EXCEPT ![c] = "parent"]
      /\ parent' = [parent EXCEPT ![c] = p] /\ stk' = [stk EXCEPT ![c] = t]
      /\ UNCHANGED <<file, root, wr, script, at, up, got, broken>>
    BY <1>1, <1>2 DEF ToParent, In
<1>4. ClientShape
    BY DEF Inv
<1>5. s \in Seq(Nat) /\ Stacked(s, Key(c), lev[o], Len(file), low, lev)
    BY <1>1, <1>3, StackIs
<1>6. o \in 1 .. Len(file) /\ Len(file) \in Nat
    BY <1>1, <1>3, Standing
<1>7. PICK top, key, m : top = lev[o] /\ top \in Nat /\ key = Key(c) /\ m = Len(file)
  <2>1. o \in Nat
      BY <1>6
  <2>2. lev[o] \in Nat
      BY <2>1
  <2> QED BY <2>2
<1>8. Passes(p, key, m, low) /\ lev[p] = top + 1 /\ p \in Nat
      /\ Stacked(t, key, lev[p], m, low, lev) /\ t \in Seq(Nat)
  <2>1. Stacked(s, key, top, m, low, lev)
      BY <1>5, <1>7
  <2>2. /\ Passes(Last(s), key, m, low) /\ lev[Last(s)] = top + 1 /\ Last(s) \in Nat
        /\ Stacked(Front(s), key, lev[Last(s)], m, low, lev) /\ Front(s) \in Seq(Nat)
    <3>1. s \in Seq(Nat) /\ s # <<>> /\ top \in Nat
        BY <1>3, <1>5, <1>7
    <3> QED BY <2>1, <3>1, Popped
  <2> QED BY <1>2, <2>2
<1>9. pc'[c] = "parent" /\ parent'[c] = p /\ stk'[c] = t
    BY <1>3, <1>4 DEF ClientShape
<1>10. ClientFits(c, low, lev)'
  <2>1. /\ parent'[c] \in 1 .. Len(file) /\ low[parent'[c]] <= Key(c)
        /\ lev[parent'[c]] = lev[at[c]] + 1
        /\ Stacked(stk'[c], Key(c), lev[parent'[c]], Len(file), low, lev)
      BY <1>1, <1>7, <1>8, <1>9 DEF Passes
  <2> QED BY <1>3, <1>9, <2>1, Seeks
<1>11. ClientShape'
    BY <1>3, <1>4, <1>8 DEF ClientShape, Places
<1>12. OthersKeep(c)
    BY <1>3, <1>4 DEF OthersKeep, KeepsSeat, ClientShape
<1>13. InSplit(c)' = InSplit(c) /\ at'[c] = at[c] /\ up'[c] = up[c]
    BY <1>3, <1>9 DEF InSplit
<1> QED BY <1>3, <1>10, <1>11, <1>12, <1>13, QuietStep

(* The range of a node that a writer keeps: of its key and of what it adds.   *)
LEMMA HeldRange ==
    ASSUME NEW c \in Client, NEW low \in [Nat -> Nat], NEW lev \in [Nat -> Nat], Inv(low, lev),
           InSplit(c)
    PROVE  /\ Held(c, file[at[c]], low, lev)
           /\ InRange(file[at[c]], low[at[c]], Key(c))
           /\ InRange(file[at[c]], low[at[c]], up[c].key)
           /\ up[c].key \in Nat
<1>1. ClientFits(c, low, lev)
    BY DEF Inv
<1>2. Held(c, file[at[c]], low, lev)
    BY <1>1 DEF ClientFits
<1>3. PICK nd, kids, m, lo, key, value, u :
          /\ nd = file[at[c]] /\ kids = Kids(lev[at[c]], Len(file), low, lev) /\ m = Len(file)
          /\ lo = low[at[c]] /\ key = Key(c) /\ value = Op(c).value /\ u = up[c]
    OBVIOUS
<1>4. Adds(nd, lo, kids, 1 .. m, key, value, u) /\ (nd.leaf => u = [key |-> key, node |-> NoNode])
    BY <1>2, <1>3 DEF Held
<1>5. InRange(nd, lo, key) /\ InRange(nd, lo, u.key) /\ u.key \in Nat
    BY <1>4 DEF Adds
<1> QED BY <1>2, <1>3, <1>5

(* The node that a writer keeps, and the one above that it waits for.         *)
LEMMA ParentIs ==
    ASSUME NEW c \in Client, NEW low, NEW lev, Inv(low, lev), pc[c] = "parent"
    PROVE  /\ parent[c] \in 1 .. Len(file) /\ low[parent[c]] <= Key(c)
           /\ lev[parent[c]] = lev[at[c]] + 1
<1>1. ClientFits(c, low, lev)
    BY DEF Inv
<1> QED BY <1>1 DEF ClientFits, Passes

LEMMA ParentRightLeads ==
    ASSUME NEW c \in Client, NEW low \in [Nat -> Nat], NEW lev \in [Nat -> Nat], Inv(low, lev),
           pc[c] = "parent", Passed(file[parent[c]], up[c].key)
    PROVE  LET q == file[parent[c]].right
           IN q \in 1 .. Len(file) /\ low[q] <= Key(c) /\ lev[q] = lev[parent[c]]
<1>1. PICK o, p, m : o = at[c] /\ p = parent[c] /\ m = Len(file)
    OBVIOUS
<1>2. PICK u, key : u = up[c].key /\ key = Key(c)
    OBVIOUS
<1>3. o \in 1 .. m /\ key \in Nat /\ Tree(file, m, low, lev)
    BY <1>1, <1>2, Standing
<1>4. InRange(file[o], low[o], key) /\ InRange(file[o], low[o], u) /\ u \in Nat
    BY <1>1, <1>2, HeldRange DEF InSplit
<1>5. p \in 1 .. m /\ lev[p] = lev[o] + 1 /\ Passed(file[p], u)
    BY <1>1, <1>2, ParentIs
<1>6. PICK f : f = file
    OBVIOUS
<1>7. f[p].right # NoNode /\ f[p].high <= key
  <2>1. /\ o \in 1 .. m /\ p \in 1 .. m /\ Tree(f, m, low, lev) /\ lev[p] = lev[o] + 1
        /\ key \in Nat /\ u \in Nat /\ InRange(f[o], low[o], key) /\ InRange(f[o], low[o], u)
        /\ Passed(f[p], u)
      BY <1>3, <1>4, <1>5, <1>6
  <2> QED BY <2>1, ParentRightFits
<1>8. f[p].right \in 1 .. m /\ low[f[p].right] = f[p].high /\ lev[f[p].right] = lev[p]
  <2>1. Tree(f, m, low, lev) /\ p \in 1 .. m
      BY <1>3, <1>5, <1>6
  <2> QED BY <1>7, <2>1 DEF Tree, NodeFits
<1> QED BY <1>1, <1>2, <1>6, <1>7, <1>8

LEMMA ParentMovesRightInv ==
    ASSUME NEW c \in Client, NEW low \in [Nat -> Nat], NEW lev \in [Nat -> Nat], Inv(low, lev),
           ParentMovesRight(c)
    PROVE  Inv(low, lev)'
<1>1. PICK o, p, m : o = at[c] /\ p = parent[c] /\ m = Len(file)
    OBVIOUS
<1>2. PICK q, u, key : q = file[p].right /\ u = up[c].key /\ key = Key(c)
    OBVIOUS
<1>3. /\ pc[c] = "parent" /\ Passed(file[p], u) /\ parent' = [parent EXCEPT ![c] = q]
      /\ UNCHANGED <<file, root, wr, script, pc, at, stk, up, got, broken>>
    BY <1>1, <1>2 DEF ParentMovesRight, In
<1>4. ClientShape
    BY DEF Inv
<1>5. o \in 1 .. m /\ key \in Nat /\ Tree(file, m, low, lev)
    BY <1>1, <1>2, <1>3, Standing
<1>6. InSplit(c)
    BY <1>3 DEF InSplit
<1>7. InRange(file[o], low[o], key) /\ InRange(file[o], low[o], u) /\ u \in Nat
    BY <1>1, <1>2, <1>6, HeldRange
<1>8. p \in 1 .. m /\ lev[p] = lev[o] + 1
    BY <1>1, <1>3, ParentIs
<1>9. q \in 1 .. m /\ low[q] <= key /\ lev[q] = lev[p]
  <2>1. /\ file[p].right \in 1 .. m
        /\ low[file[p].right] <= key
        /\ lev[file[p].right] = lev[p]
      BY <1>1, <1>2, <1>3, ParentRightLeads
  <2> QED BY <1>2, <2>1
<1>10. Stacked(stk[c], key, lev[p], m, low, lev)
    BY <1>1, <1>2, <1>3, StackIs
<1>11. pc'[c] = "parent" /\ parent'[c] = q /\ stk'[c] = stk[c] /\ q \in Nat
  <2>1. m \in Nat
      BY <1>1, <1>3, Standing
  <2> QED BY <1>3, <1>4, <1>9, <2>1 DEF ClientShape
<1>12. ClientFits(c, low, lev)'
  <2>1. /\ parent'[c] \in 1 .. Len(file) /\ low[parent'[c]] <= Key(c)
        /\ lev[parent'[c]] = lev[at[c]] + 1
        /\ Stacked(stk'[c], Key(c), lev[parent'[c]], Len(file), low, lev)
      BY <1>1, <1>2, <1>8, <1>9, <1>10, <1>11
  <2> QED BY <1>3, <1>11, <2>1, Seeks
<1>13. ClientShape'
    BY <1>3, <1>4, <1>11 DEF ClientShape
<1>14. OthersKeep(c)
    BY <1>3, <1>4 DEF OthersKeep, KeepsSeat, ClientShape
<1>15. InSplit(c)' = InSplit(c) /\ at'[c] = at[c] /\ up'[c] = up[c]
    BY <1>3 DEF InSplit
<1> QED BY <1>3, <1>12, <1>13, <1>14, <1>15, QuietStep

-----------------------------------------------------------------------------
(* The locks of a step of c: only c takes any, and it gives none of another.  *)
LEMMA LocksKept ==
    ASSUME NEW c \in Client, Locks, OthersKeep(c),
           \A o \in Offset' : wr'[o] = c => InSplit(c)' /\ at'[c] = o,
           \A o \in Offset', d \in Client \ {c} : wr'[o] = d => o \in Offset /\ wr[o] = d
    PROVE  Locks'
<1> SUFFICES ASSUME NEW o \in Offset', NEW d \in Client, wr'[o] = d
             PROVE  InSplit(d)' /\ at'[d] = o
    BY DEF Locks
<1>1. CASE d = c
    BY <1>1
<1>2. CASE d # c
  <2>1. InSplit(d) /\ at[d] = o
      BY <1>2 DEF Locks
  <2>2. KeepsSeat(d)
      BY <1>2 DEF OthersKeep
  <2> QED BY <2>1, <2>2 DEF KeepsSeat, InSplit
<1> QED BY <1>1, <1>2

(* The other clients, if what they keep locked is left alone. *)
LEMMA OthersFit ==
    ASSUME NEW c \in Client, NEW low, NEW lev, NEW low2, NEW lev2, Inv(low, lev), OthersKeep(c),
           Extends(low, lev, low2, lev2),
           \A o \in Offset : wr[o] \notin {c, NoClient} => file'[o] = file[o] /\ wr'[o] = wr[o]
    PROVE  \A d \in Client \ {c} : ClientFits(d, low2, lev2)'
<1> SUFFICES ASSUME NEW d \in Client \ {c}
             PROVE  ClientFits(d, low2, lev2)'
    OBVIOUS
<1>1. ClientFits(d, low, lev) /\ KeepsSeat(d)
    BY DEF Inv, OthersKeep
<1>2. ASSUME InSplit(d)
      PROVE  file'[at[d]] = file[at[d]] /\ wr'[at[d]] = wr[at[d]]
  <2>1. Held(d, file[at[d]], low, lev) /\ Busy(d, low, lev)
      BY <1>1, <1>2 DEF ClientFits, InSplit
  <2>2. at[d] \in Offset /\ wr[at[d]] = d
      BY <2>1 DEF Held, Busy, Passes, Offset
  <2>3. d # NoClient
      BY NoClientAssumption
  <2> QED BY <2>2, <2>3
<1> QED BY <1>1, <1>2, ClientKept

LEMMA LinkedKept ==
    ASSUME NEW c \in Client, Linked, OthersKeep(c),
           \A o \in Offset : o = root => HasPlace(o)',
           \A p \in Offset : ~file[p].leaf => \A x \in Children(file[p]) : HasPlace(x)',
           \A o \in Offset : InSplit(c) /\ up[c].node = o => HasPlace(o)',
           \A o \in Offset' : o \in Offset \/ HasPlace(o)'
    PROVE  Linked'
<1> SUFFICES ASSUME NEW o \in Offset', o \in Offset
             PROVE  HasPlace(o)'
    BY DEF Linked
<1>1. HasPlace(o)
    BY DEF Linked
<1>2. CASE o = root
    BY <1>2
<1>3. CASE \E p \in Offset : ~file[p].leaf /\ o \in Children(file[p])
    BY <1>3
<1>4. CASE \E d \in Client : InSplit(d) /\ up[d].node = o
  <2>1. PICK d \in Client : InSplit(d) /\ up[d].node = o
      BY <1>4
  <2>2. CASE d = c
      BY <2>1, <2>2
  <2>3. CASE d # c
    <3>1. KeepsSeat(d)
        BY <2>3 DEF OthersKeep
    <3>2. InSplit(d)' /\ up'[d].node = o
        BY <2>1, <3>1 DEF KeepsSeat, InSplit
    <3> QED BY <3>2 DEF HasPlace
  <2> QED BY <2>2, <2>3
<1> QED BY <1>1, <1>2, <1>3, <1>4 DEF HasPlace

-----------------------------------------------------------------------------
LEMMA SeqExcept ==
    ASSUME NEW S, NEW s \in Seq(S), NEW i \in 1 .. Len(s), NEW x \in S
    PROVE  LET t == [s EXCEPT ![i] = x] IN
           /\ t \in Seq(S) /\ Len(t) = Len(s) /\ t[i] = x
           /\ \A j \in 1 .. Len(s) : j # i => t[j] = s[j]
OBVIOUS

(* A node is written in place: nothing else changes. *)
InPlace(low, lev, o, new) ==
    /\ file' \in Seq(Shape) /\ Len(file') = Len(file) /\ Offset' = Offset
    /\ Offset = 1 .. Len(file)
    /\ file'[o] = new /\ \A x \in Offset : x # o => file'[x] = file[x]
    /\ Tree(file, Len(file), low, lev)'
    /\ RootFits(low, lev)' /\ Extends(low, lev, low, lev)

LEMMA Rewritten ==
    ASSUME NEW low, NEW lev, Inv(low, lev), NEW o \in 1 .. Len(file), NEW new,
           SameFrame(file[o], new),
           WellMade(new, low[o], Kids(lev[o], Len(file), low, lev), 1 .. Len(file)),
           file' = [file EXCEPT ![o] = new], root' = root
    PROVE  InPlace(low, lev, o, new)
<1>1. FileShape /\ Tree(file, Len(file), low, lev) /\ RootFits(low, lev)
    BY DEF Inv
<1>2. PICK m \in Nat : m = Len(file) /\ Offset = 1 .. m
    BY <1>1, Positions
<1>3. new \in Shape
    BY DEF WellMade
<1>4. /\ file' \in Seq(Shape) /\ Len(file') = m /\ file'[o] = new
      /\ \A x \in 1 .. m : x # o => file'[x] = file[x]
    BY <1>1, <1>2, <1>3, SeqExcept DEF FileShape
<1>5. Offset' = Offset
    BY <1>2, <1>4 DEF Offset
<1>6. \A x \in 1 .. m : SameFrame(file[x], file'[x])
    BY <1>4 DEF SameFrame
<1>7. Tree(file', m, low, lev)
  <2>1. PICK f, g : f = file /\ g = file'
      OBVIOUS
  <2>2. /\ o \in 1 .. m /\ Tree(f, m, low, lev) /\ SameFrame(f[o], g[o])
        /\ WellMade(g[o], low[o], Kids(lev[o], m, low, lev), 1 .. m)
        /\ \A x \in 1 .. m : x # o => g[x] = f[x]
      BY <1>1, <1>2, <1>4, <2>1
  <2>3. Tree(g, m, low, lev)
      BY <2>2, NodeReplaced
  <2> QED BY <2>1, <2>3
<1>8. RootFits(low, lev)'
  <2>1. root \in Offset /\ low[root] = 0 /\ file[root].right = NoNode
        /\ (\A x \in Offset : (file[x].root <=> x = root) /\ lev[x] <= lev[root])
        /\ \E M \in Nat : \A x \in Offset : low[x] <= M
      BY <1>1 DEF RootFits
  <2>2. \A x \in Offset : file'[x].root = file[x].root /\ file'[x].right = file[x].right
      BY <1>2, <1>6 DEF SameFrame
  <2> QED BY <1>5, <2>1, <2>2 DEF RootFits
<1>9. Extends(low, lev, low, lev)
    BY <1>2, <1>4, <1>6 DEF Extends, SameFrame
<1> QED BY <1>2, <1>4, <1>5, <1>7, <1>8, <1>9 DEF InPlace

-----------------------------------------------------------------------------
(* fgoe() misses no key. *)
LEMMA NotThere ==
    ASSUME NEW nd, NEW key \in Nat, nd.n \in 0 .. 2 * L, Sorted(nd.keys, nd.n), ~Has(nd, key)
    PROVE  ~HasKey(nd, key)
<1> SUFFICES ASSUME NEW j \in 0 .. nd.n - 1, nd.keys[j] = key
             PROVE  FALSE
    BY DEF HasKey
<1>1. PICK i, n, keys : i = Fgoe(nd, key) /\ n = nd.n /\ keys = nd.keys
    OBVIOUS
<1>2. Placed(keys, key, n, i) /\ n \in 0 .. 2 * L /\ Sorted(keys, n)
    BY <1>1, FgoeFinds
<1>3. ~(i < n /\ keys[i] = key)
    BY <1>1 DEF Has
<1>4. j \in 0 .. n - 1 /\ keys[j] = key
    BY <1>1
<1>5. i \in Nat /\ i <= j
    BY <1>2, <1>4, LAssumption DEF Placed
<1>6. i < n /\ i \in 0 .. n - 1 /\ keys[i] # key
    BY <1>2, <1>3, <1>4, <1>5, LAssumption
<1>7. i # j
    BY <1>4, <1>6
<1>8. keys[i] < keys[j] /\ key <= keys[i] /\ keys[i] \in Nat
    BY <1>2, <1>4, <1>5, <1>6, <1>7 DEF Sorted, Placed
<1> QED BY <1>4, <1>8

(* A writer at the leaf that its key belongs to. *)
LEMMA AtHome ==
    ASSUME NEW c \in Client, NEW low \in [Nat -> Nat], NEW lev \in [Nat -> Nat], Inv(low, lev),
           pc[c] = "leaf", ~Passed(file[at[c]], Key(c))
    PROVE  /\ file[at[c]].leaf /\ Writer(c)
           /\ WellMade(file[at[c]], low[at[c]], Kids(lev[at[c]], Len(file), low, lev),
                       1 .. Len(file))
           /\ InRange(file[at[c]], low[at[c]], Key(c))
           /\ low[at[c]] \in Nat
<1>1. ClientFits(c, low, lev)
    BY DEF Inv
<1>2. PICK o, m, key : o = at[c] /\ m = Len(file) /\ key = Key(c)
    OBVIOUS
<1>3. o \in 1 .. m /\ low[o] <= key /\ key \in Nat /\ Tree(file, m, low, lev) /\ m \in Nat
    BY <1>2, Standing
<1>4. WellMade(file[o], low[o], Kids(lev[o], m, low, lev), 1 .. m)
    BY <1>3 DEF Tree, NodeFits
<1>5. file[o].high \in Nat
    BY <1>4, NodeTypes
<1>6. InRange(file[o], low[o], key)
  <2>1. PICK h : h = file[o].high /\ h \in Nat
      BY <1>5
  <2>2. file[o].right # NoNode => ~(key >= h)
      BY <1>2, <2>1 DEF Passed
  <2>3. file[o].right # NoNode => key < h
      BY <1>3, <2>1, <2>2
  <2> QED BY <1>3, <2>1, <2>3 DEF InRange
<1>7. low[o] \in Nat
    BY <1>3
<1> QED BY <1>1, <1>2, <1>4, <1>6, <1>7 DEF ClientFits

LEMMA LeafIsFullInv ==
    ASSUME NEW c \in Client, NEW low \in [Nat -> Nat], NEW lev \in [Nat -> Nat], Inv(low, lev),
           LeafIsFull(c)
    PROVE  Inv(low, lev)'
<1>1. PICK o, key, nd : o = at[c] /\ key = Key(c) /\ nd = file[o]
    OBVIOUS
<1>2. PICK u : u = [key |-> key, node |-> NoNode]
    OBVIOUS
<1>3. /\ pc[c] = "leaf" /\ wr[o] = NoClient /\ ~Passed(nd, key) /\ nd.n = 2 * L /\ ~Has(nd, key)
      /\ pc' = [pc EXCEPT ![c] = "full"] /\ up' = [up EXCEPT ![c] = u]
      /\ wr' = [wr EXCEPT ![o] = c]
      /\ UNCHANGED <<file, root, script, at, parent, stk, got, broken>>
    BY <1>1, <1>2 DEF LeafIsFull, AtLeaf, In, Free, Full, Lock
<1>4. FileShape /\ ClientShape /\ Tree(file, Len(file), low, lev) /\ RootFits(low, lev)
      /\ ClientFits(c, low, lev) /\ Locks /\ Linked
    BY DEF Inv
<1>5. o \in 1 .. Len(file) /\ key \in Nat /\ Op(c).value \in Value \cup {Absent}
      /\ Offset = 1 .. Len(file) /\ Len(wr) = Len(file)
    BY <1>1, <1>3, <1>4, Standing, Positions DEF FileShape
<1>6. PICK lo, kids, off : lo = low[o] /\ kids = Kids(lev[o], Len(file), low, lev)
                           /\ off = 1 .. Len(file)
    OBVIOUS
<1>7. nd.leaf /\ Writer(c) /\ WellMade(nd, lo, kids, off) /\ InRange(nd, lo, key)
    BY <1>1, <1>3, <1>6, AtHome
<1>8. ~HasKey(nd, key)
  <2>1. nd.n \in 0 .. 2 * L /\ Sorted(nd.keys, nd.n)
      BY <1>7 DEF WellMade, Shape, Ascends
  <2> QED BY <1>3, <1>5, <2>1, NotThere
<1>9. Adds(nd, lo, kids, off, key, Op(c).value, u)
    BY <1>5, <1>7, <1>8 DEF Adds
<1>10. wr' \in Seq(Client \cup {NoClient}) /\ Len(wr') = Len(file) /\ wr'[o] = c
       /\ \A x \in Offset : x # o => wr'[x] = wr[x]
    BY <1>3, <1>4, <1>5, SeqExcept DEF FileShape
<1>11. /\ pc'[c] = "full" /\ at'[c] = o /\ up'[c] = u /\ parent'[c] = parent[c] /\ stk'[c] = stk[c]
    BY <1>1, <1>3, <1>4 DEF ClientShape
<1>12. ClientShape'
  <2>1. u \in [key : Nat, node : Nat \cup {NoNode}]
      BY <1>2, <1>5
  <2> QED BY <1>3, <1>4, <2>1 DEF ClientShape, Places
<1>13. OthersKeep(c)
    BY <1>3, <1>4 DEF OthersKeep, KeepsSeat, ClientShape
<1>14. Offset' = Offset
    BY <1>3 DEF Offset
<1>15. FileShape' /\ Tree(file, Len(file), low, lev)' /\ RootFits(low, lev)'
    BY <1>3, <1>4, <1>10, <1>14 DEF FileShape, RootFits
<1>16. Key(c)' = key /\ Writer(c)' /\ Op(c)' = Op(c) /\ InSplit(c)' /\ ~InSplit(c)
    BY <1>1, <1>3, <1>7, <1>11 DEF Key, Writer, Op, InSplit
<1>17. ClientFits(c, low, lev)'
  <2>1. Busy(c, low, lev)
      BY <1>3, <1>4 DEF ClientFits
  <2>2. Busy(c, low, lev)'
      BY <1>1, <1>3, <1>7, <1>11, <1>16, <2>1 DEF Busy
  <2>3. Held(c, file[at[c]], low, lev)'
      BY <1>1, <1>2, <1>3, <1>6, <1>9, <1>10, <1>11, <1>16 DEF Held
  <2>4. parent'[c] = NoNode
      BY <1>3, <1>4, <1>11 DEF ClientFits
  <2> QED BY <1>11, <1>16, <2>2, <2>3, <2>4 DEF ClientFits
<1>18. \A d \in Client \ {c} : ClientFits(d, low, lev)'
  <2>1. Extends(low, lev, low, lev)
      BY <1>3, <1>4, Positions DEF Extends
  <2>2. \A x \in Offset : wr[x] \notin {c, NoClient} => file'[x] = file[x] /\ wr'[x] = wr[x]
      BY <1>3, <1>10
  <2> QED BY <1>13, <2>1, <2>2, OthersFit
<1>19. Locks'
  <2>1. \A x \in Offset' : wr'[x] = c => InSplit(c)' /\ at'[c] = x
    <3>1. \A x \in Offset : x # o => wr[x] # c
        BY <1>4, <1>16 DEF Locks
    <3> QED BY <1>10, <1>11, <1>14, <1>16, <3>1
  <2>2. \A x \in Offset', d \in Client \ {c} : wr'[x] = d => x \in Offset /\ wr[x] = d
      BY <1>10, <1>14
  <2> QED BY <1>4, <1>13, <2>1, <2>2, LocksKept
<1>20. Linked'
  <2>1. \A x \in Offset : x = root => HasPlace(x)'
      BY <1>3 DEF HasPlace
  <2>2. \A p \in Offset : ~file[p].leaf => \A x \in Children(file[p]) : HasPlace(x)'
      BY <1>3, <1>14 DEF HasPlace
  <2> QED BY <1>4, <1>13, <1>14, <1>16, <2>1, <2>2, LinkedKept
<1>21. \A d \in Client : ClientFits(d, low, lev)'
    BY <1>17, <1>18
<1> QED BY <1>12, <1>15, <1>19, <1>20, <1>21 DEF Inv

-----------------------------------------------------------------------------
(* A pair is stored in a leaf; in a full one it is not, if the key is new.    *)
LEMMA LeafWritten ==
    ASSUME NEW nd, NEW lo \in Nat, NEW kids, NEW off, NEW key \in Nat,
           NEW value \in Value \cup {Absent},
           WellMade(nd, lo, kids, off), nd.leaf, InRange(nd, lo, key)
    PROVE  /\ WellMade(AddKeyValue(nd, key, value), lo, kids, off)
           /\ SameFrame(nd, AddKeyValue(nd, key, value))
<1>1. CASE nd.n = 2 * L
  <2>1. AddKeyValue(nd, key, value) = nd
      BY <1>1 DEF AddKeyValue
  <2> QED BY <2>1 DEF SameFrame
<1>2. CASE nd.n # 2 * L
  <2>1. nd.n < 2 * L
      BY <1>2, LAssumption DEF WellMade, Shape
  <2> QED BY <2>1, PairAdded
<1> QED BY <1>1, <1>2

LEMMA WriteLeafInv ==
    ASSUME NEW c \in Client, NEW low \in [Nat -> Nat], NEW lev \in [Nat -> Nat], Inv(low, lev),
           WriteLeaf(c)
    PROVE  Inv(low, lev)'
<1>1. PICK o, key, nd, v : o = at[c] /\ key = Key(c) /\ nd = file[o] /\ v = Op(c).value
    OBVIOUS
<1>2. PICK new : new = AddKeyValue(nd, key, v)
    OBVIOUS
<1>3. /\ pc[c] = "leaf" /\ wr[o] = NoClient /\ ~Passed(nd, key)
      /\ file' = [file EXCEPT ![o] = new] /\ Return(c)
      /\ UNCHANGED <<root, wr, got, broken>>
    BY <1>1, <1>2 DEF WriteLeaf, AtLeaf, In, Free
<1>4. FileShape /\ ClientShape /\ Locks /\ Linked
    BY DEF Inv
<1>5. o \in 1 .. Len(file) /\ key \in Nat /\ v \in Value \cup {Absent} /\ script[c] # <<>>
    BY <1>1, <1>3, Standing
<1>6. PICK lo, kids, off : lo = low[o] /\ kids = Kids(lev[o], Len(file), low, lev)
                           /\ off = 1 .. Len(file)
    OBVIOUS
<1>7. nd.leaf /\ WellMade(nd, lo, kids, off) /\ InRange(nd, lo, key) /\ lo \in Nat
    BY <1>1, <1>3, <1>6, AtHome
<1>8. WellMade(new, lo, kids, off) /\ SameFrame(nd, new)
    BY <1>2, <1>5, <1>7, LeafWritten
<1>9. /\ file' \in Seq(Shape) /\ Len(file') = Len(file) /\ Offset' = Offset
      /\ Offset = 1 .. Len(file)
      /\ file'[o] = new /\ \A x \in Offset : x # o => file'[x] = file[x]
      /\ Tree(file, Len(file), low, lev)'
      /\ RootFits(low, lev)' /\ Extends(low, lev, low, lev)
  <2>1. /\ SameFrame(file[o], new)
        /\ WellMade(new, low[o], Kids(lev[o], Len(file), low, lev), 1 .. Len(file))
        /\ file' = [file EXCEPT ![o] = new] /\ root' = root
      BY <1>1, <1>3, <1>6, <1>8
  <2>2. InPlace(low, lev, o, new)
      BY <1>5, <2>1, Rewritten
  <2> QED BY <2>2 DEF InPlace
<1>10. ClientShape' /\ OthersKeep(c) /\ ClientFits(c, low, lev)' /\ pc'[c] = "idle"
  <2>1. got' \in [Client -> Value \cup {Absent, Junk}] /\ broken' \in BOOLEAN
      BY <1>3, <1>4 DEF ClientShape
  <2> QED BY <1>3, <1>5, <2>1, Returned
<1>11. ~InSplit(c) /\ ~InSplit(c)'
    BY <1>3, <1>10 DEF InSplit
<1>12. FileShape'
    BY <1>3, <1>4, <1>9 DEF FileShape
<1>13. \A d \in Client \ {c} : ClientFits(d, low, lev)'
  <2>1. \A x \in Offset : wr[x] \notin {c, NoClient} => file'[x] = file[x] /\ wr'[x] = wr[x]
      BY <1>3, <1>9
  <2> QED BY <1>9, <1>10, <2>1, OthersFit
<1>14. Locks'
  <2>1. \A x \in Offset' : wr'[x] = c => InSplit(c)' /\ at'[c] = x
      BY <1>3, <1>4, <1>9, <1>11 DEF Locks
  <2>2. \A x \in Offset', d \in Client \ {c} : wr'[x] = d => x \in Offset /\ wr[x] = d
      BY <1>3, <1>9
  <2> QED BY <1>4, <1>10, <2>1, <2>2, LocksKept
<1>15. Linked'
  <2>1. \A x \in Offset : x = root => HasPlace(x)'
      BY <1>3 DEF HasPlace
  <2>2. ASSUME NEW p \in Offset, ~file[p].leaf, NEW x \in Children(file[p])
        PROVE  HasPlace(x)'
    <3>1. p \in Offset' /\ file'[p] = file[p]
        BY <1>1, <1>7, <1>9, <2>2
    <3> QED BY <2>2, <3>1 DEF HasPlace
  <2> QED BY <1>4, <1>9, <1>10, <1>11, <2>1, <2>2, LinkedKept
<1>16. \A d \in Client : ClientFits(d, low, lev)'
    BY <1>10, <1>13
<1> QED BY <1>9, <1>10, <1>12, <1>14, <1>15, <1>16 DEF Inv

(* What a writer has for an internal node that has room.                      *)
Linking(nd, lo, kids, off, k, y) ==
    /\ lo \in Nat /\ off \in SUBSET Nat /\ k \in Nat /\ y \in off /\ <<y, k>> \in kids
    /\ WellMade(nd, lo, kids, off) /\ ~nd.leaf /\ nd.n < 2 * L
    /\ InRange(nd, lo, k) /\ ~HasKey(nd, k)

LEMMA ChildLinked ==
    ASSUME NEW nd, NEW lo, NEW kids, NEW off, NEW k, NEW y, Linking(nd, lo, kids, off, k, y)
    PROVE  /\ WellMade(AddKeyChild(nd, k, y), lo, kids, off)
           /\ SameFrame(nd, AddKeyChild(nd, k, y))
           /\ Children(AddKeyChild(nd, k, y)) = Children(nd) \cup {y}
<1>1. /\ lo \in Nat /\ off \in SUBSET Nat /\ k \in Nat /\ y \in off /\ <<y, k>> \in kids
      /\ WellMade(nd, lo, kids, off) /\ ~nd.leaf /\ nd.n < 2 * L
      /\ InRange(nd, lo, k) /\ ~HasKey(nd, k)
    BY DEF Linking
<1> QED BY <1>1, ChildAdded

LEMMA LinkInv ==
    ASSUME NEW c \in Client, NEW low \in [Nat -> Nat], NEW lev \in [Nat -> Nat], Inv(low, lev),
           Link(c)
    PROVE  Inv(low, lev)'
<1>1. PICK o, nd, k, y : o = at[c] /\ nd = file[o] /\ k = up[c].key /\ y = up[c].node
    OBVIOUS
<1>2. PICK new : new = AddKeyChild(nd, k, y)
    OBVIOUS
<1>3. /\ pc[c] = "link" /\ file' = [file EXCEPT ![o] = new] /\ Return(c)
      /\ wr' = [wr EXCEPT ![o] = NoClient]
      /\ UNCHANGED <<root, got, broken>>
    BY <1>1, <1>2 DEF Link, In, Lock
<1>4. FileShape /\ ClientShape /\ Locks /\ Linked
    BY DEF Inv
<1>5. o \in 1 .. Len(file) /\ script[c] # <<>> /\ Tree(file, Len(file), low, lev)
      /\ Len(file) \in Nat
    BY <1>1, <1>3, Standing
<1>6. PICK lo, kids, off : lo = low[o] /\ kids = Kids(lev[o], Len(file), low, lev)
                           /\ off = 1 .. Len(file)
    OBVIOUS
<1>7. PICK key, v, u : key = Key(c) /\ v = Op(c).value /\ u = up[c]
    OBVIOUS
<1>8. Held(c, nd, low, lev) /\ InSplit(c)
  <2>1. InSplit(c)
      BY <1>3 DEF InSplit
  <2> QED BY <1>1, <2>1, HeldRange
<1>9. wr[o] = c /\ nd.n < 2 * L /\ ~nd.leaf /\ Adds(nd, lo, kids, off, key, v, u)
    BY <1>1, <1>3, <1>6, <1>7, <1>8 DEF Held
<1>10. k \in Nat /\ InRange(nd, lo, k) /\ ~HasKey(nd, k) /\ y \in off /\ <<y, k>> \in kids
    BY <1>1, <1>7, <1>9 DEF Adds
<1>11. WellMade(nd, lo, kids, off) /\ lo \in Nat /\ off \in SUBSET Nat
  <2>1. WellMade(file[o], low[o], Kids(lev[o], Len(file), low, lev), 1 .. Len(file))
      BY <1>5 DEF Tree, NodeFits
  <2>2. o \in Nat
      BY <1>5
  <2>3. low[o] \in Nat /\ 1 .. Len(file) \in SUBSET Nat
      BY <1>5, <2>2
  <2> QED BY <1>1, <1>6, <2>1, <2>3
<1>12. WellMade(new, lo, kids, off) /\ SameFrame(nd, new) /\ Children(new) = Children(nd) \cup {y}
  <2>1. /\ WellMade(AddKeyChild(nd, k, y), lo, kids, off)
        /\ SameFrame(nd, AddKeyChild(nd, k, y))
        /\ Children(AddKeyChild(nd, k, y)) = Children(nd) \cup {y}
    <3>1. Linking(nd, lo, kids, off, k, y)
        BY <1>9, <1>10, <1>11 DEF Linking
    <3> QED BY <3>1, ChildLinked
  <2> QED BY <1>2, <2>1
<1>13. /\ file' \in Seq(Shape) /\ Len(file') = Len(file) /\ Offset' = Offset
       /\ Offset = 1 .. Len(file)
       /\ file'[o] = new /\ \A x \in Offset : x # o => file'[x] = file[x]
       /\ Tree(file, Len(file), low, lev)'
       /\ RootFits(low, lev)' /\ Extends(low, lev, low, lev)
  <2>1. /\ SameFrame(file[o], new)
        /\ WellMade(new, low[o], Kids(lev[o], Len(file), low, lev), 1 .. Len(file))
        /\ file' = [file EXCEPT ![o] = new] /\ root' = root
      BY <1>1, <1>3, <1>6, <1>12
  <2>2. InPlace(low, lev, o, new)
      BY <1>5, <2>1, Rewritten
  <2> QED BY <2>2 DEF InPlace
<1>14. ClientShape' /\ OthersKeep(c) /\ ClientFits(c, low, lev)' /\ pc'[c] = "idle"
  <2>1. got' \in [Client -> Value \cup {Absent, Junk}] /\ broken' \in BOOLEAN
      BY <1>3, <1>4 DEF ClientShape
  <2> QED BY <1>3, <1>5, <2>1, Returned
<1>15. wr' \in Seq(Client \cup {NoClient}) /\ Len(wr') = Len(file) /\ wr'[o] = NoClient
       /\ \A x \in Offset : x # o => wr'[x] = wr[x]
    BY <1>3, <1>4, <1>5, <1>13, SeqExcept DEF FileShape
<1>16. FileShape'
    BY <1>13, <1>15 DEF FileShape
<1>17. \A d \in Client \ {c} : ClientFits(d, low, lev)'
  <2>1. \A x \in Offset : wr[x] \notin {c, NoClient} => file'[x] = file[x] /\ wr'[x] = wr[x]
      BY <1>9, <1>13, <1>15
  <2> QED BY <1>13, <1>14, <2>1, OthersFit
<1>18. Locks'
  <2>1. \A x \in Offset : x # o => wr[x] # c
      BY <1>1, <1>4 DEF Locks
  <2>2. \A x \in Offset' : wr'[x] = c => InSplit(c)' /\ at'[c] = x
      BY <1>13, <1>15, <2>1, NoClientAssumption
  <2>3. \A x \in Offset', d \in Client \ {c} : wr'[x] = d => x \in Offset /\ wr[x] = d
      BY <1>13, <1>15, NoClientAssumption
  <2> QED BY <1>4, <1>14, <2>2, <2>3, LocksKept
<1>19. Linked'
  <2>1. o \in Offset' /\ ~file'[o].leaf
      BY <1>5, <1>9, <1>12, <1>13 DEF SameFrame
  <2>2. \A x \in Children(new) : HasPlace(x)'
      BY <1>13, <2>1 DEF HasPlace
  <2>3. \A x \in Offset : x = root => HasPlace(x)'
      BY <1>3 DEF HasPlace
  <2>4. ASSUME NEW p \in Offset, ~file[p].leaf, NEW x \in Children(file[p])
        PROVE  HasPlace(x)'
    <3>1. CASE p = o
        BY <1>1, <1>12, <2>2, <2>4, <3>1
    <3>2. CASE p # o
      <4>1. p \in Offset' /\ file'[p] = file[p]
          BY <1>13, <2>4, <3>2
      <4> QED BY <2>4, <4>1 DEF HasPlace
    <3> QED BY <3>1, <3>2
  <2>5. \A x \in Offset : InSplit(c) /\ up[c].node = x => HasPlace(x)'
      BY <1>1, <1>12, <2>2
  <2> QED BY <1>4, <1>13, <1>14, <2>3, <2>4, <2>5, LinkedKept
<1>20. \A d \in Client : ClientFits(d, low, lev)'
    BY <1>14, <1>17
<1> QED BY <1>13, <1>14, <1>16, <1>18, <1>19, <1>20 DEF Inv

-----------------------------------------------------------------------------
(* t is s with x at i, followed by y. *)
ChangedAndAppended(S, s, t, i, x, y) ==
    /\ t \in Seq(S) /\ Len(t) = Len(s) + 1 /\ t[i] = x /\ t[Len(s) + 1] = y
    /\ \A j \in 1 .. Len(s) : j # i => t[j] = s[j]

LEMMA ChangeAndAppend ==
    ASSUME NEW S, NEW s \in Seq(S), NEW i \in 1 .. Len(s), NEW x \in S, NEW y \in S
    PROVE  ChangedAndAppended(S, s, Append([s EXCEPT ![i] = x], y), i, x, y)
<1>1. PICK t : t = [s EXCEPT ![i] = x]
    OBVIOUS
<1>2. t \in Seq(S) /\ Len(t) = Len(s) /\ t[i] = x
      /\ \A j \in 1 .. Len(s) : j # i => t[j] = s[j]
    BY <1>1, SeqExcept
<1>3. PICK u : u = Append(t, y)
    OBVIOUS
<1>4. u \in Seq(S) /\ Len(u) = Len(t) + 1 /\ u[Len(t) + 1] = y
      /\ \A j \in 1 .. Len(t) : u[j] = t[j]
    BY <1>2, <1>3, AppendIs
<1> QED BY <1>1, <1>2, <1>3, <1>4 DEF ChangedAndAppended

-----------------------------------------------------------------------------
(* The two halves of the full node that c keeps, cut at s. *)
CutInto(c, low, lev, s, a, b) ==
    HalvedInto(c, file[at[c]], low[at[c]], Kids(lev[at[c]], Len(file), low, lev),
               1 .. Len(file), NewOffset, s, a, b)

LEMMA CutsInto ==
    ASSUME NEW c \in Client, NEW low \in [Nat -> Nat], NEW lev \in [Nat -> Nat], Inv(low, lev),
           pc[c] \in {"full", "parent"}, L <= Copied
    PROVE  \E s, a, b : CutInto(c, low, lev, s, a, b)
<1>1. PICK o, nd, m : o = at[c] /\ nd = file[o] /\ m = Len(file)
    OBVIOUS
<1>2. o \in 1 .. m /\ Tree(file, m, low, lev) /\ m \in Nat
    BY <1>1, Standing
<1>3. PICK lo, kids, off : lo = low[o] /\ kids = Kids(lev[o], m, low, lev) /\ off = 1 .. m
    OBVIOUS
<1>4. Held(c, nd, low, lev)
    BY <1>1, HeldRange DEF InSplit
<1>5. nd.n = 2 * L /\ Adds(nd, lo, kids, off, Key(c), Op(c).value, up[c])
    BY <1>1, <1>3, <1>4 DEF Held
<1>6. WellMade(nd, lo, kids, off)
    BY <1>1, <1>2, <1>3 DEF Tree, NodeFits
<1>7. lo \in Nat /\ off \in SUBSET Nat
  <2>1. o \in Nat
      BY <1>2
  <2> QED BY <1>2, <1>3, <2>1
<1>8. PICK r \in Nat : r = m + 1
    BY <1>2
<1>9. PICK s, a, b : HalvedInto(c, nd, lo, kids, off, r, s, a, b)
    BY <1>5, <1>6, <1>7, HalvesMade
<1> QED BY <1>1, <1>3, <1>8, <1>9 DEF CutInto, NewOffset

(* Where the lower node's key, and the key it is cut at, belong in the parent *)
LEMMA CutFitsParent ==
    ASSUME NEW c \in Client, NEW low \in [Nat -> Nat], NEW lev \in [Nat -> Nat], Inv(low, lev),
           pc[c] = "parent", NEW s, NEW a, NEW b, CutInto(c, low, lev, s, a, b),
           NEW p, p = parent[c], ~Passed(file[p], up[c].key)
    PROVE  /\ InRange(file[p], low[p], Key(c)) /\ InRange(file[p], low[p], s)
           /\ ~HasKey(file[p], s)
           /\ SameOrder(file[p], Key(c), s)
<1>1. PICK o, m, f : o = at[c] /\ m = Len(file) /\ f = file
    OBVIOUS
<1>2. PICK u, key : u = up[c].key /\ key = Key(c)
    OBVIOUS
<1>3. o \in 1 .. m /\ key \in Nat /\ Tree(f, m, low, lev)
    BY <1>1, <1>2, Standing
<1>4. InRange(f[o], low[o], key) /\ InRange(f[o], low[o], u) /\ u \in Nat
    BY <1>1, <1>2, HeldRange DEF InSplit
<1>5. p \in 1 .. m /\ lev[p] = lev[o] + 1 /\ low[p] <= key /\ ~Passed(f[p], u)
    BY <1>1, <1>2, ParentIs
<1>6. s \in Nat /\ low[o] < s /\ (f[o].right # NoNode => s < f[o].high)
    BY <1>1 DEF CutInto, HalvedInto, Cut
<1>7. /\ InRange(f[p], low[p], key) /\ InRange(f[p], low[p], s)
      /\ ~HasKey(f[p], s)
      /\ SameOrder(f[p], key, s)
    BY <1>3, <1>4, <1>5, <1>6, ParentFits
<1> QED BY <1>1, <1>2, <1>7

-----------------------------------------------------------------------------
(* The file g has node o of the file cut at s, its right part at r, the next  *)
(* offset; the new node begins at s, on the level of o.                       *)
CutFile(g, o, r, s, a, b, low, lev, low2, lev2) ==
    /\ low2 = [low EXCEPT ![r] = s] /\ lev2 = [lev EXCEPT ![r] = lev[o]]
    /\ r = Len(file) + 1 /\ g[o] = a /\ g[r] = b
    /\ \A x \in 1 .. Len(file) : x # o => g[x] = file[x]

(* What it is then like. *)
CutTree(g, o, r, s, a, b, low, lev, low2, lev2) ==
    /\ r \in Nat /\ s \in Nat /\ o \in 1 .. Len(file) /\ r \notin 1 .. Len(file)
    /\ \A x : x \in 1 .. r <=> x \in 1 .. Len(file) \/ x = r
    /\ low2 \in [Nat -> Nat] /\ lev2 \in [Nat -> Nat]
    /\ \A x \in 1 .. Len(file) : low2[x] = low[x] /\ lev2[x] = lev[x]
    /\ low2[r] = s /\ lev2[r] = lev[o]
    /\ Tree(g, r, low2, lev2)
    /\ a \in Shape /\ b \in Shape /\ a.leaf = file[o].leaf /\ b.leaf = file[o].leaf
    /\ ~a.root /\ ~b.root /\ a.high = s /\ a.right = r /\ b.right = file[o].right

LEMMA FileIsCut ==
    ASSUME NEW c \in Client, NEW low \in [Nat -> Nat], NEW lev \in [Nat -> Nat], Inv(low, lev),
           pc[c] # "idle", NEW s, NEW a, NEW b, CutInto(c, low, lev, s, a, b),
           NEW g, NEW o, o = at[c], NEW r, NEW low2, NEW lev2,
           CutFile(g, o, r, s, a, b, low, lev, low2, lev2)
    PROVE  CutTree(g, o, r, s, a, b, low, lev, low2, lev2)
<1>1. PICK m, f : m = Len(file) /\ f = file
    OBVIOUS
<1>2. o \in 1 .. m /\ m \in Nat /\ Tree(f, m, low, lev)
    BY <1>1, Standing
<1>3. r = m + 1 /\ g[o] = a /\ g[r] = b /\ (\A x \in 1 .. m : x # o => g[x] = f[x])
      /\ low2 = [low EXCEPT ![r] = s] /\ lev2 = [lev EXCEPT ![r] = lev[o]]
    BY <1>1 DEF CutFile
<1>4. Cut(f[o], low[o], Kids(lev[o], m, low, lev), 1 .. m, r, s, a, b)
    BY <1>1, <1>3 DEF CutInto, HalvedInto, NewOffset
<1>5. r \in Nat /\ r \notin 1 .. m /\ \A x : x \in 1 .. r <=> x \in 1 .. m \/ x = r
  <2>1. m \in Nat /\ r = m + 1
      BY <1>2, <1>3
  <2> QED BY <2>1, OneMore
<1>6. s \in Nat
    BY <1>4 DEF Cut
<1>7. o \in Nat /\ lev[o] \in Nat
  <2>1. o \in Nat
      BY <1>2
  <2> QED BY <2>1
<1>8. low2 \in [Nat -> Nat] /\ lev2 \in [Nat -> Nat] /\ low2[r] = s /\ lev2[r] = lev[o]
    BY <1>3, <1>5, <1>6, <1>7
<1>9. \A x \in 1 .. m : low2[x] = low[x] /\ lev2[x] = lev[x]
  <2> SUFFICES ASSUME NEW x \in 1 .. m
               PROVE  low2[x] = low[x] /\ lev2[x] = lev[x]
      OBVIOUS
  <2>1. x \in Nat /\ x # r
      BY <1>2, <1>5
  <2> QED BY <1>3, <2>1
<1>10. Grows(f, m, low, lev, o, g, low2, lev2)
    BY <1>3, <1>9 DEF Grows
<1>11. Tree(g, r, low2, lev2)
  <2>1. Cut(f[o], low[o], Kids(lev[o], m, low, lev), 1 .. m, r, s, g[o], g[r]) /\ r = m + 1
      BY <1>3, <1>4
  <2> QED BY <1>2, <1>8, <1>10, <2>1, NodeCut
<1>12. a \in Shape /\ b \in Shape /\ a.leaf = f[o].leaf /\ b.leaf = f[o].leaf
       /\ ~a.root /\ ~b.root /\ a.high = s /\ a.right = r /\ b.right = f[o].right
    BY <1>4 DEF Cut, WellMade
<1> QED BY <1>1, <1>2, <1>5, <1>6, <1>8, <1>9, <1>11, <1>12 DEF CutTree

-----------------------------------------------------------------------------
(* What the Split step of c does, its parent p, the new node r.               *)
Splits(c, o, p, r, a, b) ==
    /\ o = at[c] /\ p = parent[c] /\ r = Len(file) + 1
    /\ pc[c] = "parent" /\ wr[p] = NoClient /\ ~Passed(file[p], up[c].key)
    /\ ChangedAndAppended(Shape, file, file', o, a, b)
    /\ wr' \in Seq(Client \cup {NoClient}) /\ Len(wr') = Len(file')
    /\ wr'[o] = NoClient /\ wr'[p] = c /\ wr'[r] = NoClient
    /\ \A x \in 1 .. Len(file) : x # o /\ x # p => wr'[x] = wr[x]
    /\ up'[c] = [key |-> a.high, node |-> r]
    /\ pc'[c] = (IF Full(file[p]) THEN "full" ELSE "link")
    /\ at'[c] = p /\ parent'[c] = NoNode
    /\ stk'[c] = stk[c] /\ script'[c] = script[c]
    /\ root' = root /\ OthersKeep(c) /\ ClientShape'

(* t is s with x at i and y at j, followed by x. *)
LockPassed(S, s, t, i, j, x, y) ==
    /\ t \in Seq(S) /\ Len(t) = Len(s) + 1 /\ t[i] = x /\ t[j] = y /\ t[Len(s) + 1] = x
    /\ \A k \in 1 .. Len(s) : k # i /\ k # j => t[k] = s[k]

LEMMA LocksPassed ==
    ASSUME NEW S, NEW s \in Seq(S), NEW i \in 1 .. Len(s), NEW j \in 1 .. Len(s), i # j,
           NEW x \in S, NEW y \in S
    PROVE  LockPassed(S, s, Append([s EXCEPT ![i] = x, ![j] = y], x), i, j, x, y)
<1>1. PICK w : w = [s EXCEPT ![i] = x]
    OBVIOUS
<1>2. w \in Seq(S) /\ Len(w) = Len(s) /\ w[i] = x /\ \A k \in 1 .. Len(s) : k # i => w[k] = s[k]
    BY <1>1, SeqExcept
<1>3. PICK t : t = Append([w EXCEPT ![j] = y], x)
    OBVIOUS
<1>4. ChangedAndAppended(S, w, t, j, y, x)
    BY <1>2, <1>3, ChangeAndAppend
<1>5. t = Append([s EXCEPT ![i] = x, ![j] = y], x)
    BY <1>1, <1>3
<1> QED BY <1>2, <1>4, <1>5 DEF ChangedAndAppended, LockPassed

LEMMA SplitIs ==
    ASSUME NEW c \in Client, NEW low \in [Nat -> Nat], NEW lev \in [Nat -> Nat], Inv(low, lev),
           Split(c), NEW s, NEW a, NEW b, CutInto(c, low, lev, s, a, b)
    PROVE  Splits(c, at[c], parent[c], Len(file) + 1, a, b)
<1>1. PICK o, p, r, m : o = at[c] /\ p = parent[c] /\ r = NewOffset /\ m = Len(file)
    OBVIOUS
<1>2. Halves(c, file[o], r) = <<a, b>>
    BY <1>1 DEF CutInto, HalvedInto
<1>3. PICK u, place : u = [key |-> a.high, node |-> r]
                      /\ place = IF Full(file[p]) THEN "full" ELSE "link"
    OBVIOUS
<1>4. /\ pc[c] = "parent" /\ wr[p] = NoClient /\ ~Passed(file[p], up[c].key)
      /\ file' = Append([file EXCEPT ![o] = a], b)
      /\ wr' = Append([wr EXCEPT ![o] = NoClient, ![p] = c], NoClient)
      /\ up' = [up EXCEPT ![c] = u] /\ pc' = [pc EXCEPT ![c] = place]
      /\ at' = [at EXCEPT ![c] = p] /\ parent' = [parent EXCEPT ![c] = NoNode]
      /\ UNCHANGED <<root, script, stk, got, broken>>
    BY <1>1, <1>2, <1>3 DEF Split, In, Free, GoTo
<1>5. FileShape /\ ClientShape
    BY DEF Inv
<1>6. o \in 1 .. m /\ p \in 1 .. m /\ m \in Nat /\ r = m + 1 /\ lev[p] = lev[o] + 1
    BY <1>1, <1>4, Standing, ParentIs DEF NewOffset
<1>7. p # o
  <2>1. o \in Nat /\ p \in Nat
      BY <1>6
  <2>2. lev[o] \in Nat /\ lev[p] \in Nat
      BY <2>1
  <2> QED BY <1>6, <2>2
<1>8. a \in Shape /\ b \in Shape /\ s \in Nat /\ a.high = s
    BY DEF CutInto, HalvedInto, Cut, WellMade
<1>9. ChangedAndAppended(Shape, file, file', o, a, b)
    BY <1>1, <1>4, <1>5, <1>6, <1>8, ChangeAndAppend DEF FileShape
<1>10. /\ wr' \in Seq(Client \cup {NoClient}) /\ Len(wr') = m + 1
       /\ wr'[o] = NoClient /\ wr'[p] = c /\ wr'[r] = NoClient
       /\ \A x \in 1 .. m : x # o /\ x # p => wr'[x] = wr[x]
  <2>1. wr \in Seq(Client \cup {NoClient}) /\ Len(wr) = m
      BY <1>1, <1>5 DEF FileShape
  <2>2. PICK w : w = wr
      OBVIOUS
  <2>3. PICK t : t = Append([w EXCEPT ![o] = NoClient, ![p] = c], NoClient)
      OBVIOUS
  <2>4. LockPassed(Client \cup {NoClient}, w, t, o, p, NoClient, c)
    <3>1. o \in 1 .. Len(w) /\ p \in 1 .. Len(w) /\ w \in Seq(Client \cup {NoClient})
          /\ c \in Client \cup {NoClient} /\ NoClient \in Client \cup {NoClient}
        BY <1>6, <2>1, <2>2
    <3> QED BY <1>7, <2>3, <3>1, LocksPassed
  <2> QED BY <1>4, <1>6, <2>1, <2>2, <2>3, <2>4 DEF LockPassed
<1>11. u \in [key : Nat, node : Nat \cup {NoNode}] /\ place \in Places /\ p \in Nat
    BY <1>3, <1>6, <1>8 DEF Places
<1>12. ClientShape'
    BY <1>4, <1>5, <1>11 DEF ClientShape
<1>13. OthersKeep(c)
    BY <1>4, <1>5 DEF OthersKeep, KeepsSeat, ClientShape
<1>14. up'[c] = u /\ pc'[c] = place /\ at'[c] = p /\ parent'[c] = NoNode
       /\ stk'[c] = stk[c] /\ script'[c] = script[c]
    BY <1>4, <1>5 DEF ClientShape
<1>15. Len(file') = m + 1
    BY <1>1, <1>9 DEF ChangedAndAppended
<1> QED BY <1>1, <1>3, <1>4, <1>6, <1>9, <1>10, <1>12, <1>13, <1>14, <1>15 DEF Splits

-----------------------------------------------------------------------------
(* A Split step, the node cut at s.                                           *)
Splitting(c, o, p, r, s, a, b, low, lev, low2, lev2) ==
    /\ c \in Client /\ low \in [Nat -> Nat] /\ lev \in [Nat -> Nat] /\ Inv(low, lev)
    /\ CutInto(c, low, lev, s, a, b)
    /\ Splits(c, o, p, r, a, b)
    /\ CutTree(file', o, r, s, a, b, low, lev, low2, lev2)

LEMMA SplitFile ==
    ASSUME NEW c, NEW o, NEW p, NEW r, NEW s, NEW a, NEW b, NEW low, NEW lev, NEW low2, NEW lev2,
           Splitting(c, o, p, r, s, a, b, low, lev, low2, lev2)
    PROVE  /\ Offset = 1 .. Len(file) /\ Offset' = 1 .. r /\ Len(file') = r /\ r \in Nat
           /\ Len(file) \in Nat /\ r = Len(file) + 1
           /\ o \in Offset /\ p \in Offset /\ r \in Offset' /\ r \notin Offset /\ o # p
           /\ lev[p] = lev[o] + 1 /\ low[p] <= Key(c) /\ Key(c) \in Nat
           /\ file'[o] = a /\ file'[r] = b
           /\ file' \in Seq(Shape)
<1>1. c \in Client /\ low \in [Nat -> Nat] /\ lev \in [Nat -> Nat] /\ Inv(low, lev)
    BY DEF Splitting
<1>2. o = at[c] /\ p = parent[c] /\ pc[c] = "parent" /\ r = Len(file) + 1
      /\ ChangedAndAppended(Shape, file, file', o, a, b)
    BY DEF Splitting, Splits
<1>3. o \in 1 .. Len(file) /\ Len(file) \in Nat /\ Key(c) \in Nat
    BY <1>1, <1>2, Standing
<1>4. p \in 1 .. Len(file) /\ lev[p] = lev[o] + 1 /\ low[p] <= Key(c)
    BY <1>1, <1>2, ParentIs
<1>5. r \in Nat /\ r \notin 1 .. Len(file) /\ r \in 1 .. r
    BY <1>2, <1>3
<1>6. o # p
  <2>1. o \in Nat /\ p \in Nat
      BY <1>3, <1>4
  <2>2. lev[o] \in Nat /\ lev[p] \in Nat
      BY <1>1, <2>1
  <2> QED BY <1>4, <2>2
<1>7. Len(file') = r /\ file'[o] = a /\ file'[r] = b /\ file' \in Seq(Shape)
    BY <1>2, <1>3 DEF ChangedAndAppended
<1> QED BY <1>2, <1>3, <1>4, <1>5, <1>6, <1>7 DEF Offset

LEMMA SplitOld ==
    ASSUME NEW c, NEW o, NEW p, NEW r, NEW s, NEW a, NEW b, NEW low, NEW lev, NEW low2, NEW lev2,
           Splitting(c, o, p, r, s, a, b, low, lev, low2, lev2)
    PROVE  \A x \in Offset : /\ x \in Offset' /\ low2[x] = low[x] /\ lev2[x] = lev[x]
                             /\ x # o => file'[x] = file[x]
<1> SUFFICES ASSUME NEW x \in Offset
             PROVE  /\ x \in Offset' /\ low2[x] = low[x] /\ lev2[x] = lev[x]
                    /\ x # o => file'[x] = file[x]
    OBVIOUS
<1>1. Offset = 1 .. Len(file) /\ Offset' = 1 .. r
    BY SplitFile
<1>2. CutTree(file', o, r, s, a, b, low, lev, low2, lev2)
      /\ ChangedAndAppended(Shape, file, file', o, a, b)
    BY DEF Splitting, Splits
<1>3. x \in 1 .. r /\ low2[x] = low[x] /\ lev2[x] = lev[x]
    BY <1>1, <1>2 DEF CutTree
<1>4. x # o => file'[x] = file[x]
    BY <1>1, <1>2 DEF ChangedAndAppended
<1> QED BY <1>1, <1>3, <1>4

LEMMA SplitExtends ==
    ASSUME NEW c, NEW o, NEW p, NEW r, NEW s, NEW a, NEW b, NEW low, NEW lev, NEW low2, NEW lev2,
           Splitting(c, o, p, r, s, a, b, low, lev, low2, lev2)
    PROVE  Extends(low, lev, low2, lev2)
<1>1. file'[o] = a /\ Len(file') = r /\ r \in Nat /\ Len(file) \in Nat /\ Len(file) <= r
    BY SplitFile
<1>2. a.leaf = file[o].leaf
    BY DEF Splitting, CutTree
<1>3. \A x \in Offset : low2[x] = low[x] /\ lev2[x] = lev[x] /\ file'[x].leaf = file[x].leaf
    BY <1>1, <1>2, SplitOld
<1> QED BY <1>1, <1>3 DEF Extends

LEMMA SplitRootFits ==
    ASSUME NEW c, NEW o, NEW p, NEW r, NEW s, NEW a, NEW b, NEW low, NEW lev, NEW low2, NEW lev2,
           Splitting(c, o, p, r, s, a, b, low, lev, low2, lev2)
    PROVE  RootFits(low2, lev2)'
<1>1. RootFits(low, lev) /\ root' = root /\ low \in [Nat -> Nat] /\ lev \in [Nat -> Nat]
    BY DEF Splitting, Splits, Inv
<1>2. /\ low2[r] = s /\ s \in Nat /\ lev2[r] = lev[o] /\ ~a.root /\ ~b.root
      /\ \A x : x \in 1 .. r <=> x \in 1 .. Len(file) \/ x = r
    BY DEF Splitting, CutTree
<1>3. /\ Offset = 1 .. Len(file) /\ Offset' = 1 .. r /\ o \in Offset /\ p \in Offset
      /\ r \notin Offset /\ lev[p] = lev[o] + 1 /\ file'[o] = a /\ file'[r] = b
      /\ Len(file) \in Nat
    BY SplitFile
<1>4. \A x \in Offset : /\ x \in Offset' /\ low2[x] = low[x] /\ lev2[x] = lev[x]
                        /\ x # o => file'[x] = file[x]
    BY SplitOld
<1>5. root \in Offset /\ low[root] = 0 /\ file[root].right = NoNode
      /\ \A x \in Offset : (file[x].root <=> x = root) /\ lev[x] <= lev[root]
    BY <1>1 DEF RootFits
<1>6. \A x \in Offset : low[x] \in Nat /\ lev[x] \in Nat
  <2>1. \A x \in Offset : x \in Nat
      BY <1>3
  <2> QED BY <1>1, <2>1
<1>7. o # root
  <2>1. lev[p] <= lev[root] /\ lev[o] \in Nat
      BY <1>3, <1>5, <1>6
  <2> QED BY <1>3, <2>1
<1>8. root' \in Offset' /\ low2[root'] = 0 /\ file'[root'].right = NoNode
    BY <1>1, <1>4, <1>5, <1>7
<1>9. ASSUME NEW x \in Offset'
      PROVE  (file'[x].root <=> x = root') /\ lev2[x] <= lev2[root']
  <2>1. lev2[root'] = lev[root]
      BY <1>1, <1>4, <1>5
  <2>2. CASE x = r
      BY <1>1, <1>2, <1>3, <1>5, <2>1, <2>2
  <2>3. CASE x = o
      BY <1>1, <1>2, <1>3, <1>4, <1>5, <1>7, <2>1, <2>3
  <2>4. CASE x # r /\ x # o
    <3>1. x \in Offset
        BY <1>2, <1>3, <1>9, <2>4
    <3> QED BY <1>1, <1>4, <1>5, <2>1, <2>4, <3>1
  <2> QED BY <2>2, <2>3, <2>4
<1>10. \E M \in Nat : \A x \in Offset' : low2[x] <= M
  <2>1. PICK M \in Nat : \A x \in Offset : low[x] <= M
      BY <1>1 DEF RootFits
  <2>2. \A x \in Offset' : low2[x] <= M + s
    <3> SUFFICES ASSUME NEW x \in Offset'
                 PROVE  low2[x] <= M + s
        OBVIOUS
    <3>1. CASE x = r
        BY <1>2, <3>1
    <3>2. CASE x # r
      <4>1. x \in Offset
          BY <1>2, <1>3, <3>2
      <4>2. low2[x] <= M /\ low2[x] \in Nat
          BY <1>4, <1>6, <2>1, <4>1
      <4> QED BY <1>2, <4>2
    <3> QED BY <3>1, <3>2
  <2>3. M + s \in Nat
      BY <1>2
  <2> QED BY <2>2, <2>3
<1> QED BY <1>8, <1>9, <1>10 DEF RootFits

LEMMA SplitFileShape ==
    ASSUME NEW c, NEW o, NEW p, NEW r, NEW s, NEW a, NEW b, NEW low, NEW lev, NEW low2, NEW lev2,
           Splitting(c, o, p, r, s, a, b, low, lev, low2, lev2)
    PROVE  FileShape' /\ Tree(file, Len(file), low2, lev2)'
<1>1. file' \in Seq(Shape) /\ Len(file') = r
    BY SplitFile
<1>2. wr' \in Seq(Client \cup {NoClient}) /\ Len(wr') = Len(file')
      /\ Tree(file', r, low2, lev2)
    BY DEF Splitting, Splits, CutTree
<1> QED BY <1>1, <1>2 DEF FileShape

-----------------------------------------------------------------------------
LEMMA SplitOthers ==
    ASSUME NEW c, NEW o, NEW p, NEW r, NEW s, NEW a, NEW b, NEW low, NEW lev, NEW low2, NEW lev2,
           Splitting(c, o, p, r, s, a, b, low, lev, low2, lev2)
    PROVE  \A d \in Client \ {c} : ClientFits(d, low2, lev2)'
<1>1. Extends(low, lev, low2, lev2)
    BY SplitExtends
<1>2. c \in Client /\ Inv(low, lev) /\ OthersKeep(c)
    BY DEF Splitting, Splits
<1>3. wr[o] = c
  <2>1. o = at[c] /\ InSplit(c) /\ low \in [Nat -> Nat] /\ lev \in [Nat -> Nat]
      BY DEF Splitting, Splits, InSplit
  <2>2. Held(c, file[at[c]], low, lev)
      BY <1>2, <2>1, HeldRange
  <2> QED BY <2>1, <2>2 DEF Held
<1>4. /\ wr[p] = NoClient /\ Offset = 1 .. Len(file)
      /\ \A x \in Offset : x # o /\ x # p => wr'[x] = wr[x]
  <2>1. Offset = 1 .. Len(file)
      BY SplitFile
  <2>2. wr[p] = NoClient /\ \A x \in 1 .. Len(file) : x # o /\ x # p => wr'[x] = wr[x]
      BY DEF Splitting, Splits
  <2> QED BY <2>1, <2>2
<1>5. \A x \in Offset : wr[x] \notin {c, NoClient} => file'[x] = file[x] /\ wr'[x] = wr[x]
    BY <1>3, <1>4, SplitOld
<1> QED BY <1>1, <1>2, <1>5, OthersFit

LEMMA SplitLocks ==
    ASSUME NEW c, NEW o, NEW p, NEW r, NEW s, NEW a, NEW b, NEW low, NEW lev, NEW low2, NEW lev2,
           Splitting(c, o, p, r, s, a, b, low, lev, low2, lev2)
    PROVE  Locks'
<1>1. c \in Client /\ OthersKeep(c) /\ Locks
    BY DEF Splitting, Splits, Inv
<1>2. /\ o = at[c] /\ wr'[o] = NoClient /\ wr'[p] = c /\ wr'[r] = NoClient
      /\ \A x \in 1 .. Len(file) : x # o /\ x # p => wr'[x] = wr[x]
    BY DEF Splitting, Splits
<1>3. \A x \in Offset' : x = r \/ x \in 1 .. Len(file)
  <2>1. Offset' = 1 .. r
      BY SplitFile
  <2>2. \A x : x \in 1 .. r <=> x \in 1 .. Len(file) \/ x = r
      BY DEF Splitting, CutTree
  <2> QED BY <2>1, <2>2
<1>4. Offset = 1 .. Len(file)
    BY SplitFile
<1>5. InSplit(c)' /\ at'[c] = p
  <2>1. pc'[c] = (IF Full(file[p]) THEN "full" ELSE "link") /\ at'[c] = p
      BY DEF Splitting, Splits
  <2> QED BY <2>1 DEF InSplit
<1>6. \A x \in Offset : x # o => wr[x] # c
    BY <1>1, <1>2 DEF Locks
<1>7. \A x \in Offset' : wr'[x] = c => InSplit(c)' /\ at'[c] = x
    BY <1>1, <1>2, <1>3, <1>4, <1>5, <1>6, NoClientAssumption
<1>8. \A x \in Offset', d \in Client \ {c} : wr'[x] = d => x \in Offset /\ wr[x] = d
    BY <1>2, <1>3, <1>4, NoClientAssumption
<1> QED BY <1>1, <1>7, <1>8, LocksKept

LEMMA SplitLinked ==
    ASSUME NEW c, NEW o, NEW p, NEW r, NEW s, NEW a, NEW b, NEW low, NEW lev, NEW low2, NEW lev2,
           Splitting(c, o, p, r, s, a, b, low, lev, low2, lev2)
    PROVE  Linked'
<1>1. c \in Client /\ OthersKeep(c) /\ Linked /\ root' = root
    BY DEF Splitting, Splits, Inv
<1>2. /\ Offset = 1 .. Len(file) /\ Offset' = 1 .. r /\ o \in Offset
      /\ r \in Offset' /\ file'[o] = a /\ file'[r] = b
    BY SplitFile
<1>3. o = at[c] /\ a.leaf = file[o].leaf /\ b.leaf = file[o].leaf
      /\ \A x : x \in 1 .. r <=> x \in 1 .. Len(file) \/ x = r
    BY DEF Splitting, Splits, CutTree
<1>4. \A x \in Offset : x \in Offset' /\ (x # o => file'[x] = file[x])
    BY SplitOld
<1>5. ~file[o].leaf => Children(a) \cup Children(b) = Children(file[o]) \cup {up[c].node}
    BY <1>3 DEF Splitting, CutInto, HalvedInto
<1>6. ASSUME ~file[o].leaf, NEW x \in Children(a) \cup Children(b)
      PROVE  HasPlace(x)'
  <2>1. CASE x \in Children(a)
    <3>1. o \in Offset' /\ ~file'[o].leaf /\ x \in Children(file'[o])
        BY <1>2, <1>3, <1>4, <1>6, <2>1
    <3> QED BY <3>1 DEF HasPlace
  <2>2. CASE x \in Children(b)
    <3>1. r \in Offset' /\ ~file'[r].leaf /\ x \in Children(file'[r])
        BY <1>2, <1>3, <1>6, <2>2
    <3> QED BY <3>1 DEF HasPlace
  <2> QED BY <1>6, <2>1, <2>2
<1>7. HasPlace(r)'
  <2>1. pc'[c] = (IF Full(file[p]) THEN "full" ELSE "link")
        /\ up'[c] = [key |-> a.high, node |-> r]
      BY DEF Splitting, Splits
  <2>2. InSplit(c)' /\ up'[c].node = r
      BY <2>1 DEF InSplit
  <2> QED BY <1>1, <2>2 DEF HasPlace
<1>8. \A x \in Offset : x = root => HasPlace(x)'
    BY <1>1 DEF HasPlace
<1>9. ASSUME NEW q \in Offset, ~file[q].leaf, NEW x \in Children(file[q])
      PROVE  HasPlace(x)'
  <2>1. CASE q = o
      BY <1>5, <1>6, <1>9, <2>1
  <2>2. CASE q # o
    <3>1. q \in Offset' /\ file'[q] = file[q]
        BY <1>4, <1>9, <2>2
    <3> QED BY <1>9, <3>1 DEF HasPlace
  <2> QED BY <2>1, <2>2
<1>10. ASSUME NEW x \in Offset, InSplit(c), up[c].node = x
       PROVE  HasPlace(x)'
  <2>1. CASE file[o].leaf
    <3>1. Inv(low, lev) /\ low \in [Nat -> Nat] /\ lev \in [Nat -> Nat]
        BY DEF Splitting
    <3>2. Held(c, file[o], low, lev)
        BY <1>1, <1>3, <1>10, <3>1, HeldRange
    <3>3. up[c] = [key |-> Key(c), node |-> NoNode]
        BY <2>1, <3>2 DEF Held
    <3>4. x = NoNode
        BY <1>10, <3>3
    <3>5. NoNode \notin Offset
        BY <3>1, Positions DEF Inv
    <3> QED BY <1>10, <3>4, <3>5
  <2>2. CASE ~file[o].leaf
      BY <1>5, <1>6, <1>10, <2>2
  <2> QED BY <2>1, <2>2
<1>11. \A x \in Offset' : x \in Offset \/ HasPlace(x)'
    BY <1>2, <1>3, <1>7
<1> QED BY <1>1, <1>8, <1>9, <1>10, <1>11, LinkedKept

-----------------------------------------------------------------------------
LEMMA SplitClient ==
    ASSUME NEW c, NEW o, NEW p, NEW r, NEW s, NEW a, NEW b, NEW low, NEW lev, NEW low2, NEW lev2,
           Splitting(c, o, p, r, s, a, b, low, lev, low2, lev2)
    PROVE  ClientFits(c, low2, lev2)'
<1>1. c \in Client /\ low \in [Nat -> Nat] /\ lev \in [Nat -> Nat] /\ Inv(low, lev)
      /\ pc[c] = "parent" /\ o = at[c] /\ p = parent[c] /\ CutInto(c, low, lev, s, a, b)
      /\ ~Passed(file[p], up[c].key)
    BY DEF Splitting, Splits
<1>2. PICK u : u = up'[c]
    OBVIOUS
<1>3. /\ u = [key |-> a.high, node |-> r]
      /\ pc'[c] = (IF Full(file[p]) THEN "full" ELSE "link")
      /\ at'[c] = p /\ parent'[c] = NoNode
      /\ stk'[c] = stk[c] /\ script'[c] = script[c] /\ wr'[p] = c
    BY <1>2 DEF Splitting, Splits
<1>4. /\ Offset' = 1 .. r /\ Len(file') = r /\ r \in Nat /\ Len(file) \in Nat /\ r = Len(file) + 1
      /\ p \in Offset /\ Offset = 1 .. Len(file) /\ o # p /\ lev[p] = lev[o] + 1
      /\ low[p] <= Key(c) /\ Key(c) \in Nat /\ r \in Offset' /\ o \in Offset
    BY SplitFile
<1>5. a.high = s /\ s \in Nat /\ low2[r] = s /\ lev2[r] = lev[o]
    BY DEF Splitting, CutTree
<1>6. \A x \in Offset : /\ x \in Offset' /\ low2[x] = low[x] /\ lev2[x] = lev[x]
                        /\ x # o => file'[x] = file[x]
    BY SplitOld
<1>7. PICK key, value : key = Key(c) /\ value = Op(c).value
    OBVIOUS
<1>8. Key(c)' = key /\ Op(c)'.value = value /\ Writer(c)' = Writer(c)
    BY <1>3, <1>7 DEF Key, Writer, Op
<1>9. Held(c, file[o], low, lev) /\ script[c] # <<>>
  <2>1. InSplit(c)
      BY <1>1 DEF InSplit
  <2> QED BY <1>1, <2>1, HeldRange, Standing
<1>10. Writer(c)
    BY <1>9 DEF Held
<1>11. PICK nd : nd = file[p] /\ nd = file'[p]
    BY <1>4, <1>6
<1>12. ~nd.leaf /\ nd.n \in 0 .. 2 * L
  <2>1. Tree(file, Len(file), low, lev)
      BY <1>1 DEF Inv
  <2>2. lev[p] # 0
    <3>1. o \in Nat
        BY <1>4
    <3>2. lev[o] \in Nat
        BY <1>1, <3>1
    <3> QED BY <1>4, <3>2
  <2>3. ~file[p].leaf
      BY <1>4, <2>1, <2>2 DEF Tree, NodeFits
  <2>4. WellMade(file[p], low[p], Kids(lev[p], Len(file), low, lev), 1 .. Len(file))
      BY <1>4, <2>1 DEF Tree, NodeFits
  <2> QED BY <1>11, <2>3, <2>4 DEF WellMade, Shape
<1>13. InRange(nd, low[p], key) /\ InRange(nd, low[p], s) /\ ~HasKey(nd, s) /\ SameOrder(nd, key, s)
    BY <1>1, <1>7, <1>11, CutFitsParent
<1>14. Adds(nd, low2[p], Kids(lev2[p], r, low2, lev2), 1 .. r, key, value, u)
  <2>1. low2[p] = low[p] /\ lev2[p] = lev2[r] + 1 /\ u.key = s /\ u.node = r
      BY <1>3, <1>4, <1>5, <1>6
  <2>2. <<r, s>> \in Kids(lev2[p], r, low2, lev2) /\ r \in 1 .. r
      BY <1>4, <1>5, <2>1, KidsAre
  <2> QED BY <1>4, <1>5, <1>7, <1>12, <1>13, <2>1, <2>2 DEF Adds
<1>15. /\ pc'[c] \in {"full", "parent"} => nd.n = 2 * L
       /\ pc'[c] = "link" => nd.n < 2 * L
       /\ pc'[c] = "full" \/ pc'[c] = "link"
  <2>1. L \in Nat
      BY LAssumption
  <2> QED BY <1>3, <1>11, <1>12, <2>1 DEF Full
<1>16. Held(c, file[at[c]], low2, lev2)'
    BY <1>2, <1>3, <1>4, <1>8, <1>10, <1>11, <1>12, <1>14, <1>15 DEF Held
<1>17. Busy(c, low2, lev2)'
  <2>1. Passes(p, key, r, low2)
      BY <1>4, <1>6, <1>7 DEF Passes
  <2>2. Stacked(stk[c], key, lev[p], Len(file), low, lev)
      BY <1>1, <1>7, StackIs
  <2>3. \A x \in 1 .. Len(file) : low2[x] = low[x] /\ lev2[x] = lev[x]
      BY <1>4, <1>6
  <2>4. PICK m : m = Len(file) /\ m \in Nat /\ m <= r
      BY <1>4
  <2>5. PICK top : top = lev[p] /\ top = lev2[p]
      BY <1>4, <1>6
  <2>6. Stacked(stk[c], key, top, r, low2, lev2)
    <3>1. Stacked(stk[c], key, top, m, low, lev)
          /\ \A x \in 1 .. m : low2[x] = low[x] /\ lev2[x] = lev[x]
        BY <2>2, <2>3, <2>4, <2>5
    <3> QED BY <1>4, <2>4, <3>1, StackedMore
  <2> QED BY <1>3, <1>4, <1>8, <1>9, <1>10, <1>15, <2>1, <2>5, <2>6 DEF Busy
<1> QED BY <1>3, <1>15, <1>16, <1>17 DEF ClientFits, InSplit

LEMMA SplitInv ==
    ASSUME NEW c \in Client, NEW low \in [Nat -> Nat], NEW lev \in [Nat -> Nat], Inv(low, lev),
           L <= Copied, Split(c)
    PROVE  \E low2, lev2 \in [Nat -> Nat] : Inv(low2, lev2)'
<1>1. pc[c] = "parent"
    BY DEF Split, In
<1>2. PICK s, a, b : CutInto(c, low, lev, s, a, b)
    BY <1>1, CutsInto
<1>3. PICK o, p, r : o = at[c] /\ p = parent[c] /\ r = Len(file) + 1
    OBVIOUS
<1>4. Splits(c, o, p, r, a, b)
    BY <1>2, <1>3, SplitIs
<1>5. PICK low2, lev2 : low2 = [low EXCEPT ![r] = s] /\ lev2 = [lev EXCEPT ![r] = lev[o]]
    OBVIOUS
<1>6. CutFile(file', o, r, s, a, b, low, lev, low2, lev2)
  <2>1. o \in 1 .. Len(file)
      BY <1>1, <1>3, Standing
  <2> QED BY <1>3, <1>4, <1>5, <2>1 DEF CutFile, Splits, ChangedAndAppended
<1>7. CutTree(file', o, r, s, a, b, low, lev, low2, lev2)
  <2>1. pc[c] # "idle"
      BY <1>1
  <2> QED BY <1>2, <1>3, <1>6, <2>1, FileIsCut
<1>8. Splitting(c, o, p, r, s, a, b, low, lev, low2, lev2)
    BY <1>2, <1>4, <1>7 DEF Splitting
<1>9. FileShape' /\ Tree(file, Len(file), low2, lev2)'
    BY <1>8, SplitFileShape
<1>10. RootFits(low2, lev2)'
    BY <1>8, SplitRootFits
<1>11. ClientFits(c, low2, lev2)'
    BY <1>8, SplitClient
<1>12. \A d \in Client \ {c} : ClientFits(d, low2, lev2)'
    BY <1>8, SplitOthers
<1>13. Locks' /\ Linked'
    BY <1>8, SplitLocks, SplitLinked
<1>14. ClientShape'
    BY <1>4 DEF Splits
<1>15. \A d \in Client : ClientFits(d, low2, lev2)'
    BY <1>11, <1>12
<1>16. Inv(low2, lev2)'
    BY <1>9, <1>10, <1>13, <1>14, <1>15 DEF Inv
<1>17. low2 \in [Nat -> Nat] /\ lev2 \in [Nat -> Nat]
    BY <1>7 DEF CutTree
<1> QED BY <1>16, <1>17

-----------------------------------------------------------------------------
(* t is s with x at i, followed by y and z. *)
ChangedAndTwoMore(S, s, t, i, x, y, z) ==
    /\ t \in Seq(S) /\ Len(t) = Len(s) + 2 /\ t[i] = x
    /\ t[Len(s) + 1] = y /\ t[Len(s) + 2] = z
    /\ \A j \in 1 .. Len(s) : j # i => t[j] = s[j]

TwoAdded(S, s, t, y, z) ==
    /\ t \in Seq(S) /\ Len(t) = Len(s) + 2
    /\ t[Len(s) + 1] = y /\ t[Len(s) + 2] = z
    /\ \A j \in 1 .. Len(s) : t[j] = s[j]

LEMMA TwoMore ==
    ASSUME NEW S, NEW s \in Seq(S), NEW y \in S, NEW z \in S
    PROVE  TwoAdded(S, s, s \o <<y, z>>, y, z)
BY DEF TwoAdded

LEMMA ChangeAndTwoMore ==
    ASSUME NEW S, NEW s \in Seq(S), NEW i \in 1 .. Len(s), NEW x \in S, NEW y \in S, NEW z \in S
    PROVE  ChangedAndTwoMore(S, s, [s EXCEPT ![i] = x] \o <<y, z>>, i, x, y, z)
<1>1. PICK t : t = [s EXCEPT ![i] = x]
    OBVIOUS
<1>2. t \in Seq(S) /\ Len(t) = Len(s) /\ t[i] = x
      /\ \A j \in 1 .. Len(s) : j # i => t[j] = s[j]
    BY <1>1, SeqExcept
<1>3. PICK u : u = t \o <<y, z>>
    OBVIOUS
<1>4. TwoAdded(S, t, u, y, z)
    BY <1>2, <1>3, TwoMore
<1> QED BY <1>1, <1>2, <1>3, <1>4 DEF ChangedAndTwoMore, TwoAdded

RootOver(nd, o, r) ==
    /\ nd \in Shape /\ nd.root = TRUE /\ nd.leaf = FALSE /\ nd.right = NoNode
    /\ o \in Children(nd) /\ r \in Children(nd)

LEMMA NewRootIs ==
    ASSUME NEW s \in Nat, NEW o \in Nat, NEW r \in Nat
    PROVE  RootOver(NewRoot(s, o, r), o, r)
<1>1. WellMade(NewRoot(s, o, r), 0, {<<o, 0>>, <<r, s>>}, {o, r})
    BY NewRootMade
<1>2. PICK nd : nd = NewRoot(s, o, r)
    OBVIOUS
<1>3. nd.root = TRUE /\ nd.leaf = FALSE /\ nd.right = NoNode /\ nd.n = 1
      /\ nd.slots = [i \in Slots |-> IF i = 0 THEN o ELSE IF i = 1 THEN r ELSE Junk]
    BY <1>2 DEF NewRoot
<1>4. 0 \in Slots /\ 1 \in Slots /\ 0 \in 0 .. 1 /\ 1 \in 0 .. 1
    BY LAssumption DEF Slots
<1>5. nd.slots[0] = o /\ nd.slots[1] = r
    BY <1>3, <1>4
<1>6. o \in Children(nd) /\ r \in Children(nd)
    BY <1>3, <1>4, <1>5 DEF Children
<1> QED BY <1>1, <1>2, <1>3, <1>6 DEF WellMade, RootOver

(* A SplitRoot step: g is the file before the new root, q, is added.          *)
Roots(c, o, r, q, s, a, b, g) ==
    /\ o = at[c] /\ r = Len(file) + 1 /\ q = r + 1
    /\ pc[c] = "full" /\ file[o].root
    /\ ChangedAndAppended(Shape, file, g, o, a, b)
    /\ file' \in Seq(Shape) /\ Len(file') = q /\ file'[q] = NewRoot(s, o, r)
    /\ \A x \in 1 .. r : file'[x] = g[x]
    /\ wr' \in Seq(Client \cup {NoClient}) /\ Len(wr') = q
    /\ wr'[o] = NoClient /\ wr'[r] = NoClient /\ wr'[q] = NoClient
    /\ \A x \in 1 .. Len(file) : x # o => wr'[x] = wr[x]
    /\ root' = q
    /\ ClientShape' /\ OthersKeep(c) /\ pc'[c] = "idle"
    /\ Return(c) /\ got' = got /\ broken' = broken

LEMMA RootsIs ==
    ASSUME NEW c \in Client, NEW low \in [Nat -> Nat], NEW lev \in [Nat -> Nat], Inv(low, lev),
           SplitRoot(c), NEW s, NEW a, NEW b, CutInto(c, low, lev, s, a, b),
           NEW g, g = Append([file EXCEPT ![at[c]] = a], b)
    PROVE  Roots(c, at[c], Len(file) + 1, Len(file) + 2, s, a, b, g)
<1>1. PICK o, r, m, q : o = at[c] /\ r = NewOffset /\ m = Len(file) /\ q = m + 2
    OBVIOUS
<1>2. Halves(c, file[o], r) = <<a, b>>
    BY <1>1 DEF CutInto, HalvedInto
<1>3. /\ pc[c] = "full" /\ file[o].root /\ root' = r + 1
      /\ Return(c) /\ got' = got /\ broken' = broken
    BY <1>1 DEF SplitRoot, In
<1>20. wr' = [wr EXCEPT ![o] = NoClient] \o <<NoClient, NoClient>>
    BY <1>1 DEF SplitRoot
<1>21. PICK halves : halves = Halves(c, file[o], r)
    OBVIOUS
<1>22. file' = [file EXCEPT ![o] = halves[1]] \o <<halves[2], NewRoot(halves[1].high, o, r)>>
    BY <1>1, <1>21 DEF SplitRoot
<1>23. halves[1] = a /\ halves[2] = b
    BY <1>2, <1>21
<1>4. FileShape /\ ClientShape
    BY DEF Inv
<1>5. o \in 1 .. m /\ m \in Nat /\ r = m + 1 /\ q = r + 1 /\ r \in Nat /\ script[c] # <<>>
  <2>1. pc[c] # "idle"
      BY <1>3
  <2>2. o \in 1 .. m /\ m \in Nat /\ script[c] # <<>>
      BY <1>1, <2>1, Standing
  <2> QED BY <1>1, <2>2 DEF NewOffset
<1>6. a \in Shape /\ b \in Shape /\ s \in Nat /\ a.high = s
    BY DEF CutInto, HalvedInto, Cut, WellMade
<1>7. file \in Seq(Shape) /\ wr \in Seq(Client \cup {NoClient}) /\ Len(wr) = m
    BY <1>1, <1>4 DEF FileShape
<1>8. ChangedAndAppended(Shape, file, g, o, a, b)
    BY <1>1, <1>5, <1>6, <1>7, ChangeAndAppend
<1>9. PICK n : n = NewRoot(s, o, r) /\ n \in Shape
  <2>1. o \in Nat
      BY <1>5
  <2>2. RootOver(NewRoot(s, o, r), o, r)
      BY <1>5, <1>6, <2>1, NewRootIs
  <2> QED BY <2>2 DEF RootOver
<1>10. ChangedAndTwoMore(Shape, file, file', o, a, b, n)
  <2>1. file' = [file EXCEPT ![o] = a] \o <<b, n>>
      BY <1>6, <1>9, <1>22, <1>23
  <2>2. o \in 1 .. Len(file)
      BY <1>1, <1>5
  <2> QED BY <1>6, <1>7, <1>9, <2>1, <2>2, ChangeAndTwoMore
<1>11. /\ file' \in Seq(Shape) /\ Len(file') = q /\ file'[q] = n
       /\ \A x \in 1 .. r : file'[x] = g[x]
  <2>1. \A x \in 1 .. r : x = r \/ x = o \/ (x \in 1 .. m /\ x # o)
    <3>1. m \in Nat /\ r = m + 1
        BY <1>5
    <3> QED BY <3>1
  <2> QED BY <1>1, <1>5, <1>8, <1>10, <2>1 DEF ChangedAndAppended, ChangedAndTwoMore
<1>12. /\ wr' \in Seq(Client \cup {NoClient}) /\ Len(wr') = q
       /\ wr'[o] = NoClient /\ wr'[r] = NoClient /\ wr'[q] = NoClient
       /\ \A x \in 1 .. m : x # o => wr'[x] = wr[x]
  <2>1. PICK S : S = Client \cup {NoClient}
      OBVIOUS
  <2>2. wr \in Seq(S) /\ NoClient \in S /\ o \in 1 .. Len(wr)
      BY <1>5, <1>7, <2>1
  <2>3. ChangedAndTwoMore(S, wr, wr', o, NoClient, NoClient, NoClient)
      BY <1>20, <2>2, ChangeAndTwoMore
  <2> QED BY <1>5, <1>7, <2>1, <2>3 DEF ChangedAndTwoMore
<1>13. ClientShape' /\ OthersKeep(c) /\ pc'[c] = "idle"
  <2>1. got' \in [Client -> Value \cup {Absent, Junk}] /\ broken' \in BOOLEAN
      BY <1>3, <1>4 DEF ClientShape
  <2> QED BY <1>3, <1>5, <2>1, Returned
<1>14. m + 2 = q /\ root' = q /\ m + 1 = r
    BY <1>1, <1>3, <1>5
<1> QED BY <1>1, <1>3, <1>5, <1>8, <1>9, <1>11, <1>12, <1>13, <1>14 DEF Roots

-----------------------------------------------------------------------------
(* A SplitRoot step: low1 and lev1 are those of the file without the new root. *)
Rooting(c, o, r, q, s, a, b, g, low, lev, low1, lev1, low2, lev2) ==
    /\ c \in Client /\ low \in [Nat -> Nat] /\ lev \in [Nat -> Nat] /\ Inv(low, lev)
    /\ CutInto(c, low, lev, s, a, b)
    /\ Roots(c, o, r, q, s, a, b, g)
    /\ CutTree(g, o, r, s, a, b, low, lev, low1, lev1)
    /\ low2 = [low1 EXCEPT ![q] = 0] /\ lev2 = [lev1 EXCEPT ![q] = lev1[o] + 1]

LEMMA RootingFile ==
    ASSUME NEW c, NEW o, NEW r, NEW q, NEW s, NEW a, NEW b, NEW g, NEW low, NEW lev,
           NEW low1, NEW lev1, NEW low2, NEW lev2,
           Rooting(c, o, r, q, s, a, b, g, low, lev, low1, lev1, low2, lev2)
    PROVE  /\ Offset = 1 .. Len(file) /\ Offset' = 1 .. q /\ Len(file') = q /\ q \in Nat
           /\ Len(file) \in Nat /\ r = Len(file) + 1 /\ q = r + 1 /\ r \in Nat
           /\ o \in Offset /\ o = root /\ o \in Nat
           /\ file'[o] = a /\ file'[r] = b /\ file'[q] = NewRoot(s, o, r)
           /\ file' \in Seq(Shape) /\ s \in Nat
<1>1. c \in Client /\ low \in [Nat -> Nat] /\ lev \in [Nat -> Nat] /\ Inv(low, lev)
    BY DEF Rooting
<1>2. o = at[c] /\ r = Len(file) + 1 /\ q = r + 1 /\ pc[c] = "full" /\ file[o].root
      /\ ChangedAndAppended(Shape, file, g, o, a, b)
      /\ file' \in Seq(Shape) /\ Len(file') = q /\ file'[q] = NewRoot(s, o, r)
      /\ \A x \in 1 .. r : file'[x] = g[x]
    BY DEF Rooting, Roots
<1>3. o \in 1 .. Len(file) /\ Len(file) \in Nat
  <2>1. pc[c] # "idle"
      BY <1>2
  <2> QED BY <1>1, <1>2, <2>1, Standing
<1>4. Offset = 1 .. Len(file) /\ Offset' = 1 .. q /\ r \in Nat /\ q \in Nat /\ o \in Nat
    BY <1>2, <1>3 DEF Offset
<1>5. o = root
  <2>1. RootFits(low, lev)
      BY <1>1 DEF Inv
  <2>2. \A x \in Offset : file[x].root <=> x = root
      BY <2>1 DEF RootFits
  <2> QED BY <1>2, <1>3, <1>4, <2>2
<1>6. file'[o] = a /\ file'[r] = b
  <2>1. o \in 1 .. r /\ r \in 1 .. r
      BY <1>2, <1>3
  <2> QED BY <1>2, <2>1 DEF ChangedAndAppended
<1>7. s \in Nat
    BY DEF Rooting, CutTree
<1> QED BY <1>2, <1>3, <1>4, <1>5, <1>6, <1>7

LEMMA RootingOld ==
    ASSUME NEW c, NEW o, NEW r, NEW q, NEW s, NEW a, NEW b, NEW g, NEW low, NEW lev,
           NEW low1, NEW lev1, NEW low2, NEW lev2,
           Rooting(c, o, r, q, s, a, b, g, low, lev, low1, lev1, low2, lev2)
    PROVE  \A x \in Offset : /\ x \in Offset' /\ low2[x] = low[x] /\ lev2[x] = lev[x]
                             /\ x # o => file'[x] = file[x]
<1> SUFFICES ASSUME NEW x \in Offset
             PROVE  /\ x \in Offset' /\ low2[x] = low[x] /\ lev2[x] = lev[x]
                    /\ x # o => file'[x] = file[x]
    OBVIOUS
<1>1. Offset = 1 .. Len(file) /\ Offset' = 1 .. q /\ r = Len(file) + 1 /\ q = r + 1
      /\ Len(file) \in Nat
    BY RootingFile
<1>2. x \in 1 .. r /\ x \in 1 .. q /\ x # q /\ x \in Nat
    BY <1>1
<1>3. /\ CutTree(g, o, r, s, a, b, low, lev, low1, lev1)
      /\ ChangedAndAppended(Shape, file, g, o, a, b)
      /\ \A y \in 1 .. r : file'[y] = g[y]
      /\ low2 = [low1 EXCEPT ![q] = 0] /\ lev2 = [lev1 EXCEPT ![q] = lev1[o] + 1]
    BY DEF Rooting, Roots
<1>4. low1[x] = low[x] /\ lev1[x] = lev[x] /\ low1 \in [Nat -> Nat] /\ lev1 \in [Nat -> Nat]
    BY <1>1, <1>3 DEF CutTree
<1>5. low2[x] = low[x] /\ lev2[x] = lev[x]
    BY <1>2, <1>3, <1>4
<1>6. x # o => file'[x] = file[x]
    BY <1>1, <1>2, <1>3 DEF ChangedAndAppended
<1> QED BY <1>1, <1>2, <1>5, <1>6

(* The bounds of the new nodes. *)
LEMMA RootingNew ==
    ASSUME NEW c, NEW o, NEW r, NEW q, NEW s, NEW a, NEW b, NEW g, NEW low, NEW lev,
           NEW low1, NEW lev1, NEW low2, NEW lev2,
           Rooting(c, o, r, q, s, a, b, g, low, lev, low1, lev1, low2, lev2)
    PROVE  /\ low2 \in [Nat -> Nat] /\ lev2 \in [Nat -> Nat]
           /\ low2[r] = s /\ lev2[r] = lev[o] /\ low2[q] = 0 /\ lev2[q] = lev[o] + 1
           /\ lev[o] \in Nat
           /\ \A x \in Offset' : x \in Offset \/ x = r \/ x = q
<1>1. Offset = 1 .. Len(file) /\ Offset' = 1 .. q /\ r = Len(file) + 1 /\ q = r + 1
      /\ Len(file) \in Nat /\ o \in Offset /\ o \in Nat /\ r \in Nat /\ q \in Nat
    BY RootingFile
<1>2. CutTree(g, o, r, s, a, b, low, lev, low1, lev1) /\ lev \in [Nat -> Nat]
      /\ low2 = [low1 EXCEPT ![q] = 0] /\ lev2 = [lev1 EXCEPT ![q] = lev1[o] + 1]
    BY DEF Rooting
<1>3. low1 \in [Nat -> Nat] /\ lev1 \in [Nat -> Nat] /\ low1[r] = s /\ lev1[r] = lev[o]
      /\ lev1[o] = lev[o]
    BY <1>1, <1>2 DEF CutTree
<1>4. lev[o] \in Nat /\ r # q
    BY <1>1, <1>2
<1>5. /\ low2 \in [Nat -> Nat] /\ lev2 \in [Nat -> Nat]
      /\ low2[r] = s /\ lev2[r] = lev[o] /\ low2[q] = 0 /\ lev2[q] = lev[o] + 1
  <2>1. PICK h \in Nat : h = lev[o]
      BY <1>4
  <2>2. 0 \in Nat /\ h + 1 \in Nat
      BY <2>1
  <2>3. low2 = [low1 EXCEPT ![q] = 0] /\ lev2 = [lev1 EXCEPT ![q] = h + 1]
      BY <1>2, <1>3, <2>1
  <2>4. r \in Nat /\ q \in Nat /\ r # q /\ low1 \in [Nat -> Nat] /\ lev1 \in [Nat -> Nat]
      BY <1>1, <1>3, <1>4
  <2>5. low2 \in [Nat -> Nat] /\ lev2 \in [Nat -> Nat]
      BY <2>2, <2>3, <2>4
  <2>6. low2[q] = 0 /\ lev2[q] = h + 1 /\ low2[r] = low1[r] /\ lev2[r] = lev1[r]
      BY <2>3, <2>4
  <2> QED BY <1>3, <2>1, <2>5, <2>6
<1>6. \A x \in Offset' : x \in Offset \/ x = r \/ x = q
    BY <1>1
<1> QED BY <1>4, <1>5, <1>6

LEMMA RootingTree ==
    ASSUME NEW c, NEW o, NEW r, NEW q, NEW s, NEW a, NEW b, NEW g, NEW low, NEW lev,
           NEW low1, NEW lev1, NEW low2, NEW lev2,
           Rooting(c, o, r, q, s, a, b, g, low, lev, low1, lev1, low2, lev2)
    PROVE  Tree(file', q, low2, lev2)
<1>1. Offset = 1 .. Len(file) /\ r = Len(file) + 1 /\ q = r + 1 /\ r \in Nat /\ q \in Nat
      /\ Len(file) \in Nat /\ o \in Offset /\ o = root /\ o \in Nat /\ file'[q] = NewRoot(s, o, r)
    BY RootingFile
<1>2. CutTree(g, o, r, s, a, b, low, lev, low1, lev1) /\ RootFits(low, lev)
      /\ low2 = [low1 EXCEPT ![q] = 0] /\ lev2 = [lev1 EXCEPT ![q] = lev1[o] + 1]
      /\ \A x \in 1 .. r : file'[x] = g[x]
    BY DEF Rooting, Roots, Inv
<1>3. /\ low1 \in [Nat -> Nat] /\ lev1 \in [Nat -> Nat] /\ low1[r] = s /\ lev1[r] = lev[o]
      /\ Tree(g, r, low1, lev1)
      /\ \A x \in Offset : low1[x] = low[x] /\ lev1[x] = lev[x]
      /\ \A x \in 1 .. r : x \in Offset \/ x = r
    BY <1>1, <1>2 DEF CutTree
<1>4. low1[o] = 0 /\ lev1[r] = lev1[o] /\ o \in 1 .. r /\ r \in 1 .. r
  <2>1. low[root] = 0
      BY <1>2 DEF RootFits
  <2>2. low1[o] = low[o] /\ lev1[o] = lev[o]
      BY <1>1, <1>3
  <2>3. o \in 1 .. r /\ r \in 1 .. r
      BY <1>1
  <2> QED BY <1>1, <1>3, <2>1, <2>2, <2>3
<1>5. \A y \in 1 .. r : lev1[y] <= lev1[o]
  <2>1. \A y \in Offset : lev[y] <= lev[o]
      BY <1>1, <1>2 DEF RootFits
  <2>2. lev1[o] \in Nat /\ lev1[o] = lev[o]
      BY <1>1, <1>3
  <2> QED BY <1>3, <2>1, <2>2
<1>6. \A y \in 1 .. r : file'[y] = g[y] /\ low2[y] = low1[y] /\ lev2[y] = lev1[y]
  <2> SUFFICES ASSUME NEW y \in 1 .. r
               PROVE  file'[y] = g[y] /\ low2[y] = low1[y] /\ lev2[y] = lev1[y]
      OBVIOUS
  <2>1. y \in Nat /\ y # q
      BY <1>1
  <2> QED BY <1>2, <1>3, <2>1
<1>7. low2[q] = 0 /\ lev2[q] = lev1[o] + 1
    BY <1>1, <1>2, <1>3
<1>8. PICK h : h = file'
    OBVIOUS
<1>9. /\ h[q] = NewRoot(low1[r], o, r)
      /\ \A y \in 1 .. r : h[y] = g[y] /\ low2[y] = low1[y] /\ lev2[y] = lev1[y]
    BY <1>1, <1>3, <1>6, <1>8
<1>10. Tree(h, q, low2, lev2)
  <2>1. PICK x, m : x = r /\ m = r
      OBVIOUS
  <2>2. /\ q = m + 1 /\ m \in Nat /\ low1 \in [Nat -> Nat] /\ lev1 \in [Nat -> Nat]
        /\ o \in 1 .. m /\ x \in 1 .. m
        /\ Tree(g, m, low1, lev1) /\ low1[o] = 0 /\ lev1[x] = lev1[o]
        /\ h[q] = NewRoot(low1[x], o, x)
        /\ Topped(g, m, low1, lev1, o, h, low2, lev2)
        /\ low2[q] = 0 /\ lev2[q] = lev1[o] + 1
      BY <1>1, <1>3, <1>4, <1>5, <1>7, <1>9, <2>1 DEF Topped
  <2> QED BY <2>2, RootAdded
<1> QED BY <1>8, <1>10

-----------------------------------------------------------------------------
LEMMA RootingExtends ==
    ASSUME NEW c, NEW o, NEW r, NEW q, NEW s, NEW a, NEW b, NEW g, NEW low, NEW lev,
           NEW low1, NEW lev1, NEW low2, NEW lev2,
           Rooting(c, o, r, q, s, a, b, g, low, lev, low1, lev1, low2, lev2)
    PROVE  Extends(low, lev, low2, lev2)
<1>1. /\ file'[o] = a /\ Len(file') = q /\ q \in Nat /\ Len(file) \in Nat
      /\ r = Len(file) + 1 /\ q = r + 1
    BY RootingFile
<1>2. a.leaf = file[o].leaf
    BY DEF Rooting, CutTree
<1>3. \A x \in Offset : low2[x] = low[x] /\ lev2[x] = lev[x] /\ file'[x].leaf = file[x].leaf
    BY <1>1, <1>2, RootingOld
<1> QED BY <1>1, <1>3 DEF Extends

LEMMA RootingRootFits ==
    ASSUME NEW c, NEW o, NEW r, NEW q, NEW s, NEW a, NEW b, NEW g, NEW low, NEW lev,
           NEW low1, NEW lev1, NEW low2, NEW lev2,
           Rooting(c, o, r, q, s, a, b, g, low, lev, low1, lev1, low2, lev2)
    PROVE  RootFits(low2, lev2)'
<1>1. RootFits(low, lev) /\ root' = q /\ low \in [Nat -> Nat] /\ lev \in [Nat -> Nat]
    BY DEF Rooting, Roots, Inv
<1>2. ~a.root /\ ~b.root
    BY DEF Rooting, CutTree
<1>3. /\ Offset = 1 .. Len(file) /\ Offset' = 1 .. q /\ o \in Offset /\ o = root /\ s \in Nat
      /\ file'[o] = a /\ file'[r] = b /\ file'[q] = NewRoot(s, o, r)
      /\ Len(file) \in Nat /\ r = Len(file) + 1 /\ q = r + 1
    BY RootingFile
<1>4. \A x \in Offset : /\ x \in Offset' /\ low2[x] = low[x] /\ lev2[x] = lev[x]
                        /\ x # o => file'[x] = file[x]
    BY RootingOld
<1>5. /\ low2[r] = s /\ lev2[r] = lev[o] /\ low2[q] = 0 /\ lev2[q] = lev[o] + 1
      /\ lev[o] \in Nat
      /\ \A x \in Offset' : x \in Offset \/ x = r \/ x = q
    BY RootingNew
<1>6. \A x \in Offset : (file[x].root <=> x = root) /\ lev[x] <= lev[root]
    BY <1>1 DEF RootFits
<1>7. \A x \in Offset : x # q /\ x # r /\ low[x] \in Nat /\ lev[x] \in Nat
  <2>1. \A x \in Offset : x \in Nat /\ x # q /\ x # r
      BY <1>3
  <2> QED BY <1>1, <2>1
<1>8. file'[q].right = NoNode /\ file'[q].root = TRUE
    BY <1>3 DEF NewRoot
<1>9. root' \in Offset' /\ low2[root'] = 0 /\ file'[root'].right = NoNode
    BY <1>1, <1>3, <1>5, <1>8
<1>10. ASSUME NEW x \in Offset'
       PROVE  (file'[x].root <=> x = root') /\ lev2[x] <= lev2[root']
  <2>1. CASE x = q
      BY <1>1, <1>5, <1>8, <2>1
  <2>2. CASE x = r
    <3>1. r # q
        BY <1>3
    <3>2. ~file'[r].root /\ lev2[r] <= lev2[q]
      <4>1. PICK h \in Nat : h = lev[o]
          BY <1>5
      <4>2. lev2[r] = h /\ lev2[q] = h + 1
          BY <1>5, <4>1
      <4> QED BY <1>2, <1>3, <4>2
    <3> QED BY <1>1, <2>2, <3>1, <3>2
  <2>3. CASE x = o
    <3>1. o # q
        BY <1>3, <1>7
    <3>2. ~file'[o].root /\ lev2[o] <= lev2[q]
      <4>1. PICK h \in Nat : h = lev[o]
          BY <1>5
      <4>2. lev2[o] = h /\ lev2[q] = h + 1
          BY <1>3, <1>4, <1>5, <4>1
      <4> QED BY <1>2, <1>3, <4>2
    <3> QED BY <1>1, <2>3, <3>1, <3>2
  <2>4. CASE x # q /\ x # r /\ x # o
    <3>1. x \in Offset
        BY <1>5, <1>10, <2>4
    <3>2. file'[x] = file[x] /\ lev2[x] = lev[x] /\ lev[x] <= lev[o] /\ lev[x] \in Nat
          /\ ~file[x].root
        BY <1>3, <1>4, <1>6, <1>7, <2>4, <3>1
    <3> QED BY <1>1, <1>5, <2>4, <3>2
  <2> QED BY <2>1, <2>2, <2>3, <2>4
<1>11. \E M \in Nat : \A x \in Offset' : low2[x] <= M
  <2>1. PICK M \in Nat : \A x \in Offset : low[x] <= M
      BY <1>1 DEF RootFits
  <2>2. \A x \in Offset' : low2[x] <= M + s
    <3> SUFFICES ASSUME NEW x \in Offset'
                 PROVE  low2[x] <= M + s
        OBVIOUS
    <3>1. CASE x = r
        BY <1>3, <1>5, <3>1
    <3>2. CASE x = q
        BY <1>3, <1>5, <3>2
    <3>3. CASE x # r /\ x # q
      <4>1. x \in Offset
          BY <1>5, <3>3
      <4>2. low2[x] <= M /\ low2[x] \in Nat
          BY <1>4, <1>7, <2>1, <4>1
      <4> QED BY <1>3, <4>2
    <3> QED BY <3>1, <3>2, <3>3
  <2>3. M + s \in Nat
      BY <1>3
  <2> QED BY <2>2, <2>3
<1> QED BY <1>9, <1>10, <1>11 DEF RootFits

LEMMA RootingFileShape ==
    ASSUME NEW c, NEW o, NEW r, NEW q, NEW s, NEW a, NEW b, NEW g, NEW low, NEW lev,
           NEW low1, NEW lev1, NEW low2, NEW lev2,
           Rooting(c, o, r, q, s, a, b, g, low, lev, low1, lev1, low2, lev2)
    PROVE  FileShape' /\ Tree(file, Len(file), low2, lev2)'
<1>1. file' \in Seq(Shape) /\ Len(file') = q
    BY RootingFile
<1>2. wr' \in Seq(Client \cup {NoClient}) /\ Len(wr') = q
    BY DEF Rooting, Roots
<1>3. Tree(file', q, low2, lev2)
    BY RootingTree
<1> QED BY <1>1, <1>2, <1>3 DEF FileShape

LEMMA RootingHeld ==
    ASSUME NEW c, NEW o, NEW r, NEW q, NEW s, NEW a, NEW b, NEW g, NEW low, NEW lev,
           NEW low1, NEW lev1, NEW low2, NEW lev2,
           Rooting(c, o, r, q, s, a, b, g, low, lev, low1, lev1, low2, lev2)
    PROVE  InSplit(c) /\ o = at[c] /\ wr[o] = c /\ Held(c, file[o], low, lev)
<1>1. o = at[c] /\ InSplit(c) /\ c \in Client /\ low \in [Nat -> Nat] /\ lev \in [Nat -> Nat]
      /\ Inv(low, lev)
    BY DEF Rooting, Roots, InSplit
<1>2. Held(c, file[at[c]], low, lev)
    BY <1>1, HeldRange
<1> QED BY <1>1, <1>2 DEF Held

LEMMA RootingOthers ==
    ASSUME NEW c, NEW o, NEW r, NEW q, NEW s, NEW a, NEW b, NEW g, NEW low, NEW lev,
           NEW low1, NEW lev1, NEW low2, NEW lev2,
           Rooting(c, o, r, q, s, a, b, g, low, lev, low1, lev1, low2, lev2)
    PROVE  \A d \in Client : ClientFits(d, low2, lev2)'
<1>1. Extends(low, lev, low2, lev2)
    BY RootingExtends
<1>2. c \in Client /\ Inv(low, lev) /\ OthersKeep(c) /\ ClientShape /\ Return(c)
    BY DEF Rooting, Roots, Inv
<1>3. wr[o] = c
    BY RootingHeld
<1>4. Offset = 1 .. Len(file) /\ \A x \in Offset : x # o => wr'[x] = wr[x]
  <2>1. Offset = 1 .. Len(file)
      BY RootingFile
  <2>2. \A x \in 1 .. Len(file) : x # o => wr'[x] = wr[x]
      BY DEF Rooting, Roots
  <2> QED BY <2>1, <2>2
<1>5. \A x \in Offset : wr[x] \notin {c, NoClient} => file'[x] = file[x] /\ wr'[x] = wr[x]
    BY <1>3, <1>4, RootingOld
<1>6. \A d \in Client \ {c} : ClientFits(d, low2, lev2)'
    BY <1>1, <1>2, <1>5, OthersFit
<1>7. pc'[c] = "idle" /\ at'[c] = NoNode /\ parent'[c] = NoNode /\ stk'[c] = <<>>
      /\ up'[c] = NoUp
    BY <1>2 DEF ClientShape, Return
<1>8. ClientFits(c, low2, lev2)'
    BY <1>7 DEF ClientFits, InSplit
<1> QED BY <1>6, <1>8

LEMMA RootingLocks ==
    ASSUME NEW c, NEW o, NEW r, NEW q, NEW s, NEW a, NEW b, NEW g, NEW low, NEW lev,
           NEW low1, NEW lev1, NEW low2, NEW lev2,
           Rooting(c, o, r, q, s, a, b, g, low, lev, low1, lev1, low2, lev2)
    PROVE  Locks'
<1>1. c \in Client /\ OthersKeep(c) /\ Locks
    BY DEF Rooting, Roots, Inv
<1>2. /\ o = at[c] /\ wr'[o] = NoClient /\ wr'[q] = NoClient /\ wr'[r] = NoClient
      /\ \A x \in 1 .. Len(file) : x # o => wr'[x] = wr[x]
    BY DEF Rooting, Roots
<1>3. Offset = 1 .. Len(file)
    BY RootingFile
<1>4. \A x \in Offset' : x \in Offset \/ x = r \/ x = q
    BY RootingNew
<1>5. \A x \in Offset : x # o => wr[x] # c
    BY <1>1, <1>2 DEF Locks
<1>6. \A x \in Offset' : wr'[x] = c => InSplit(c)' /\ at'[c] = x
    BY <1>1, <1>2, <1>3, <1>4, <1>5, NoClientAssumption
<1>7. \A x \in Offset', d \in Client \ {c} : wr'[x] = d => x \in Offset /\ wr[x] = d
    BY <1>2, <1>3, <1>4, NoClientAssumption
<1> QED BY <1>1, <1>6, <1>7, LocksKept

LEMMA RootingLinked ==
    ASSUME NEW c, NEW o, NEW r, NEW q, NEW s, NEW a, NEW b, NEW g, NEW low, NEW lev,
           NEW low1, NEW lev1, NEW low2, NEW lev2,
           Rooting(c, o, r, q, s, a, b, g, low, lev, low1, lev1, low2, lev2)
    PROVE  Linked'
<1>1. c \in Client /\ OthersKeep(c) /\ Linked /\ root' = q
    BY DEF Rooting, Roots, Inv
<1>2. /\ Offset' = 1 .. q /\ o \in Offset /\ o = root /\ o \in Nat /\ r \in Nat /\ s \in Nat
      /\ q \in Nat /\ r = Len(file) + 1 /\ q = r + 1 /\ Len(file) \in Nat
      /\ file'[o] = a /\ file'[r] = b /\ file'[q] = NewRoot(s, o, r)
    BY RootingFile
<1>3. o = at[c] /\ a.leaf = file[o].leaf /\ b.leaf = file[o].leaf
    BY DEF Rooting, Roots, CutTree
<1>4. \A x \in Offset : x \in Offset' /\ (x # o => file'[x] = file[x])
    BY RootingOld
<1>5. ~file[o].leaf => Children(a) \cup Children(b) = Children(file[o]) \cup {up[c].node}
    BY <1>3 DEF Rooting, CutInto, HalvedInto
<1>6. r \in Offset' /\ q \in Offset'
    BY <1>2
<1>7. HasPlace(o)' /\ HasPlace(r)'
  <2>1. PICK nd : nd = NewRoot(s, o, r)
      OBVIOUS
  <2>2. RootOver(nd, o, r)
      BY <1>2, <2>1, NewRootIs
  <2>3. ~file'[q].leaf /\ o \in Children(file'[q]) /\ r \in Children(file'[q])
      BY <1>2, <2>1, <2>2 DEF RootOver
  <2> QED BY <1>6, <2>3 DEF HasPlace
<1>8. HasPlace(q)'
    BY <1>1 DEF HasPlace
<1>9. ASSUME ~file[o].leaf, NEW x \in Children(a) \cup Children(b)
      PROVE  HasPlace(x)'
  <2>1. CASE x \in Children(a)
    <3>1. o \in Offset' /\ ~file'[o].leaf /\ x \in Children(file'[o])
        BY <1>2, <1>3, <1>4, <1>9, <2>1
    <3> QED BY <3>1 DEF HasPlace
  <2>2. CASE x \in Children(b)
    <3>1. r \in Offset' /\ ~file'[r].leaf /\ x \in Children(file'[r])
        BY <1>2, <1>3, <1>6, <1>9, <2>2
    <3> QED BY <3>1 DEF HasPlace
  <2> QED BY <1>9, <2>1, <2>2
<1>10. \A x \in Offset : x = root => HasPlace(x)'
    BY <1>2, <1>7
<1>11. ASSUME NEW p \in Offset, ~file[p].leaf, NEW x \in Children(file[p])
       PROVE  HasPlace(x)'
  <2>1. CASE p = o
      BY <1>5, <1>9, <1>11, <2>1
  <2>2. CASE p # o
    <3>1. p \in Offset' /\ file'[p] = file[p]
        BY <1>4, <1>11, <2>2
    <3> QED BY <1>11, <3>1 DEF HasPlace
  <2> QED BY <2>1, <2>2
<1>12. ASSUME NEW x \in Offset, InSplit(c), up[c].node = x
       PROVE  HasPlace(x)'
  <2>1. CASE file[o].leaf
    <3>1. Held(c, file[o], low, lev)
        BY RootingHeld
    <3>2. up[c] = [key |-> Key(c), node |-> NoNode]
        BY <2>1, <3>1 DEF Held
    <3>3. x = NoNode
        BY <1>12, <3>2
    <3>4. NoNode \notin Offset
      <4>1. FileShape
          BY DEF Rooting, Inv
      <4> QED BY <4>1, Positions
    <3> QED BY <1>12, <3>3, <3>4
  <2>2. CASE ~file[o].leaf
      BY <1>5, <1>9, <1>12, <2>2
  <2> QED BY <2>1, <2>2
<1>13. \A x \in Offset' : x \in Offset \/ HasPlace(x)'
  <2>1. \A x \in Offset' : x \in Offset \/ x = r \/ x = q
      BY RootingNew
  <2> QED BY <1>7, <1>8, <2>1
<1> QED BY <1>1, <1>10, <1>11, <1>12, <1>13, LinkedKept

LEMMA SplitRootInv ==
    ASSUME NEW c \in Client, NEW low \in [Nat -> Nat], NEW lev \in [Nat -> Nat], Inv(low, lev),
           L <= Copied, SplitRoot(c)
    PROVE  \E low2, lev2 \in [Nat -> Nat] : Inv(low2, lev2)'
<1>1. pc[c] = "full"
    BY DEF SplitRoot, In
<1>2. PICK s, a, b : CutInto(c, low, lev, s, a, b)
    BY <1>1, CutsInto
<1>3. PICK o, r, q, g : o = at[c] /\ r = Len(file) + 1 /\ q = Len(file) + 2
                        /\ g = Append([file EXCEPT ![at[c]] = a], b)
    OBVIOUS
<1>4. Roots(c, o, r, q, s, a, b, g)
    BY <1>2, <1>3, RootsIs
<1>5. PICK low1, lev1 : low1 = [low EXCEPT ![r] = s] /\ lev1 = [lev EXCEPT ![r] = lev[o]]
    OBVIOUS
<1>6. CutFile(g, o, r, s, a, b, low, lev, low1, lev1)
  <2>1. o \in 1 .. Len(file)
      BY <1>1, <1>3, Standing
  <2> QED BY <1>3, <1>4, <1>5, <2>1 DEF CutFile, Roots, ChangedAndAppended
<1>7. CutTree(g, o, r, s, a, b, low, lev, low1, lev1)
  <2>1. pc[c] # "idle"
      BY <1>1
  <2> QED BY <1>2, <1>3, <1>6, <2>1, FileIsCut
<1>8. PICK low2, lev2 : low2 = [low1 EXCEPT ![q] = 0] /\ lev2 = [lev1 EXCEPT ![q] = lev1[o] + 1]
    OBVIOUS
<1>9. Rooting(c, o, r, q, s, a, b, g, low, lev, low1, lev1, low2, lev2)
    BY <1>2, <1>4, <1>7, <1>8 DEF Rooting
<1>10. FileShape' /\ Tree(file, Len(file), low2, lev2)'
    BY <1>9, RootingFileShape
<1>11. RootFits(low2, lev2)'
    BY <1>9, RootingRootFits
<1>12. \A d \in Client : ClientFits(d, low2, lev2)'
    BY <1>9, RootingOthers
<1>13. Locks' /\ Linked'
    BY <1>9, RootingLocks, RootingLinked
<1>14. ClientShape'
    BY <1>4 DEF Roots
<1>15. Inv(low2, lev2)'
    BY <1>10, <1>11, <1>12, <1>13, <1>14 DEF Inv
<1>16. low2 \in [Nat -> Nat] /\ lev2 \in [Nat -> Nat]
    BY <1>9, RootingNew
<1> QED BY <1>15, <1>16

-----------------------------------------------------------------------------
LEMMA StutterInv ==
    ASSUME NEW low, NEW lev, Inv(low, lev), UNCHANGED vars
    PROVE  Inv(low, lev)'
<1>1. UNCHANGED <<file, root, wr, got, broken>> /\ UNCHANGED <<script, pc, at, parent, stk, up>>
    BY DEF vars, callVars
<1>2. FileShape' /\ Tree(file, Len(file), low, lev)' /\ RootFits(low, lev)'
    BY <1>1 DEF Inv, FileShape, RootFits, Offset
<1>3. ClientShape'
    BY <1>1 DEF Inv, ClientShape
<1>4. ASSUME NEW c \in Client
      PROVE  ClientFits(c, low, lev)'
  <2>1. ClientFits(c, low, lev) /\ KeepsSeat(c)
      BY <1>1 DEF Inv, KeepsSeat
  <2>2. Extends(low, lev, low, lev)
    <3>1. FileShape
        BY DEF Inv
    <3>2. Len(file) \in Nat
        BY <3>1, Positions
    <3> QED BY <1>1, <3>2 DEF Extends
  <2> QED BY <1>1, <2>1, <2>2, ClientKept
<1>5. Locks' /\ Linked'
    BY <1>1 DEF Inv, Locks, Linked, HasPlace, InSplit, Offset
<1> QED BY <1>2, <1>3, <1>4, <1>5 DEF Inv

(* The nodes' least keys and heights: the new nodes' are chosen as they are   *)
(* written.                                                                   *)
LEMMA StepInv ==
    ASSUME L <= Copied, NEW low \in [Nat -> Nat], NEW lev \in [Nat -> Nat], Inv(low, lev),
           NEW c \in Client, Step(c)
    PROVE  IInv'
<1>1. ASSUME Inv(low, lev)'
      PROVE  IInv'
    BY <1>1 DEF IInv
<1>2. CASE Start(c)
    BY <1>1, <1>2, StartInv
<1>3. CASE Descend(c)
    BY <1>1, <1>3, DescendInv
<1>4. CASE DescendByJunk(c)
    BY <1>1, <1>4, DescendByJunkInv
<1>5. CASE ReadRight(c)
    BY <1>1, <1>5, ReadRightInv
<1>6. CASE ReadValue(c)
    BY <1>1, <1>6, ReadValueInv
<1>7. CASE FoundLeaf(c)
    BY <1>1, <1>7, FoundLeafInv
<1>8. CASE MoveRight(c)
    BY <1>1, <1>8, MoveRightInv
<1>9. CASE WriteLeaf(c)
    BY <1>1, <1>9, WriteLeafInv
<1>10. CASE LeafIsFull(c)
    BY <1>1, <1>10, LeafIsFullInv
<1>11. CASE ToParent(c)
    BY <1>1, <1>11, ToParentInv
<1>12. CASE NoParent(c)
    BY <1>1, <1>12, NoParentInv
<1>13. CASE ParentMovesRight(c)
    BY <1>1, <1>13, ParentMovesRightInv
<1>14. CASE Split(c)
    BY <1>14, SplitInv DEF IInv
<1>15. CASE Link(c)
    BY <1>1, <1>15, LinkInv
<1>16. CASE SplitRoot(c)
    BY <1>16, SplitRootInv DEF IInv
<1> QED BY <1>2, <1>3, <1>4, <1>5, <1>6, <1>7, <1>8, <1>9, <1>10, <1>11, <1>12, <1>13, <1>14,
           <1>15, <1>16 DEF Step

LEMMA NextInv ==
    ASSUME L <= Copied, IInv, [Next]_vars
    PROVE  IInv'
<1>1. PICK low, lev \in [Nat -> Nat] : Inv(low, lev)
    BY DEF IInv
<1>2. CASE Next
    BY <1>1, <1>2, StepInv DEF Next
<1>3. CASE UNCHANGED vars
    BY <1>1, <1>3, StutterInv DEF IInv
<1> QED BY <1>2, <1>3

LEMMA AlwaysInv ==
    ASSUME L <= Copied
    PROVE  Spec => []IInv
<1>1. Init => IInv
    BY InitInv
<1>2. IInv /\ [Next]_vars => IInv'
    BY NextInv
<1> QED BY <1>1, <1>2, PTL DEF Spec

-----------------------------------------------------------------------------
(* What the properties say of a tree as it is meant to be. *)
LEMMA LowIs ==
    ASSUME NEW low \in [Nat -> Nat], NEW lev \in [Nat -> Nat], Inv(low, lev), NEW o \in Offset
    PROVE  Low(o) = low[o]
<1>1. PICK m \in Nat : m = Len(file) /\ Offset = 1 .. m
    BY Positions DEF Inv
<1>2. Tree(file, m, low, lev) /\ NoNode \notin Offset
    BY <1>1, Positions DEF Inv
<1>3. CASE \E l \in Offset : file[l].right = o
  <2>1. PICK l : l = CHOOSE x \in Offset : file[x].right = o
      OBVIOUS
  <2>2. l \in Offset /\ file[l].right = o
      BY <1>3, <2>1
  <2>3. Low(o) = file[l].high
      BY <1>3, <2>1 DEF Low
  <2>4. low[file[l].right] = file[l].high
    <3>1. PICK f : f = file
        OBVIOUS
    <3>2. l \in 1 .. m /\ Tree(f, m, low, lev) /\ f[l].right # NoNode
        BY <1>1, <1>2, <2>2, <3>1
    <3>3. low[f[l].right] = f[l].high
        BY <3>2 DEF Tree, NodeFits
    <3> QED BY <3>1, <3>3
  <2> QED BY <2>2, <2>3, <2>4
<1>4. CASE ~\E l \in Offset : file[l].right = o
  <2>1. low[o] = 0
      BY <1>1, <1>2, <1>4 DEF Tree
  <2> QED BY <1>4, <2>1 DEF Low
<1> QED BY <1>3, <1>4

LEMMA InvNeverPastHome == IInv => NeverPastHome
<1> SUFFICES ASSUME IInv
             PROVE  NeverPastHome
    OBVIOUS
<1>1. PICK low, lev \in [Nat -> Nat] : Inv(low, lev)
    BY DEF IInv
<1>2. ASSUME NEW c \in Client, pc[c] # "idle"
      PROVE  /\ Low(at[c]) <= Key(c)
             /\ \A i \in 1 .. Len(stk[c]) : Low(stk[c][i]) <= Key(c)
             /\ parent[c] # NoNode => Low(parent[c]) <= Key(c)
  <2>1. Low(at[c]) <= Key(c)
    <3>1. at[c] \in Offset /\ low[at[c]] <= Key(c)
        BY <1>1, <1>2, Standing
    <3>2. Low(at[c]) = low[at[c]]
        BY <1>1, <3>1, LowIs
    <3> QED BY <3>1, <3>2
  <2>2. ASSUME NEW i \in 1 .. Len(stk[c])
        PROVE  Low(stk[c][i]) <= Key(c)
    <3>1. PICK x : x = stk[c][i]
        OBVIOUS
    <3>2. Passes(x, Key(c), Len(file), low)
        BY <1>1, <1>2, <2>2, <3>1, StackIs DEF Stacked
    <3>3. x \in Offset /\ low[x] <= Key(c)
        BY <3>2 DEF Passes, Offset
    <3>4. Low(x) = low[x]
        BY <1>1, <3>3, LowIs
    <3> QED BY <3>1, <3>3, <3>4
  <2>3. ASSUME parent[c] # NoNode
        PROVE  Low(parent[c]) <= Key(c)
    <3>1. ClientFits(c, low, lev)
        BY <1>1 DEF Inv
    <3>2. PICK p : p = parent[c]
        OBVIOUS
    <3>3. Passes(p, Key(c), Len(file), low)
        BY <2>3, <3>1, <3>2 DEF ClientFits
    <3>4. p \in Offset /\ low[p] <= Key(c)
        BY <3>3 DEF Passes, Offset
    <3>5. Low(p) = low[p]
        BY <1>1, <3>4, LowIs
    <3> QED BY <3>2, <3>4, <3>5
  <2> QED BY <2>1, <2>2, <2>3
<1> QED BY <1>2 DEF NeverPastHome

(* The offsets that a client of tree.cpp keeps while others split the nodes   *)
(* behind them, the node it is at, the stack of a writer and the parent it    *)
(* waits for, never name a node to the right of its key's: going right from   *)
(* them, as tree.cpp:98, 164 and 210 do, leads to the key.                    *)
THEOREM HomeAhead ==
    ASSUME L <= Copied
    PROVE  Spec => []NeverPastHome
<1>1. Spec => []IInv
    BY AlwaysInv
<1>2. IInv => NeverPastHome
    BY InvNeverPastHome
<1> QED BY <1>1, <1>2, PTL

-----------------------------------------------------------------------------
(* What holds of a node. *)
LEMMA NodeIs ==
    ASSUME NEW low \in [Nat -> Nat], NEW lev \in [Nat -> Nat], Inv(low, lev), NEW o \in Offset
    PROVE  /\ WellMade(file[o], low[o], Kids(lev[o], Len(file), low, lev), Offset)
           /\ Offset = 1 .. Len(file) /\ Len(file) \in Nat /\ o \in Nat /\ low[o] \in Nat
           /\ lev[o] \in Nat /\ Tree(file, Len(file), low, lev) /\ NoNode \notin Offset
           /\ file[o] \in Shape
<1>1. FileShape /\ Tree(file, Len(file), low, lev)
    BY DEF Inv
<1>2. Offset = 1 .. Len(file) /\ Len(file) \in Nat /\ NoNode \notin Offset
    BY <1>1, Positions
<1>3. o \in Nat
    BY <1>2
<1>4. low[o] \in Nat /\ lev[o] \in Nat
    BY <1>3
<1>5. WellMade(file[o], low[o], Kids(lev[o], Len(file), low, lev), Offset)
    BY <1>1, <1>2 DEF Tree, NodeFits
<1>6. file[o] \in Shape
    BY <1>5 DEF WellMade
<1> QED BY <1>1, <1>2, <1>3, <1>4, <1>5, <1>6

LEMMA NodeTyped ==
    ASSUME NEW low \in [Nat -> Nat], NEW lev \in [Nat -> Nat], Inv(low, lev), NEW o \in Offset
    PROVE  file[o] \in Node
<1>1. PICK nd : nd = file[o]
    OBVIOUS
<1>2. WellMade(nd, low[o], Kids(lev[o], Len(file), low, lev), Offset)
    BY <1>1, NodeIs
<1>3. nd \in Shape /\ LeafFits(nd) /\ (~nd.leaf => \A i \in Slots : nd.slots[i] \in Offset \cup {Junk})
    BY <1>2 DEF WellMade, ChildrenFit
<1>4. nd.right \in Offset \cup {NoNode}
  <2>1. NodeFits(file, Len(file), low, lev, o)
      BY NodeIs DEF Tree
  <2> QED BY <1>1, <2>1, NodeIs DEF NodeFits
<1>5. \A i \in Slots : nd.slots[i] \in Offset \cup Value \cup {Absent, Junk}
    BY <1>3 DEF LeafFits
<1>6. nd.slots \in [Slots -> Offset \cup Value \cup {Absent, Junk}]
    BY <1>3, <1>5 DEF Shape
<1>7. nd \in [leaf : BOOLEAN, root : BOOLEAN, right : Offset \cup {NoNode}, high : Nat,
              n : 0 .. 2 * L, keys : [Slots -> Nat \cup {Junk}],
              slots : [Slots -> Offset \cup Value \cup {Absent, Junk}]]
    BY <1>3, <1>4, <1>6 DEF Shape
<1> QED BY <1>1, <1>7 DEF Node

LEMMA ClientTyped ==
    ASSUME NEW low \in [Nat -> Nat], NEW lev \in [Nat -> Nat], Inv(low, lev), NEW c \in Client
    PROVE  /\ at[c] \in Offset \cup {NoNode} /\ parent[c] \in Offset \cup {NoNode}
           /\ stk[c] \in Seq(Offset)
           /\ up[c] \in [key : Nat, node : Offset \cup {NoNode}]
<1>1. ClientShape /\ ClientFits(c, low, lev) /\ Offset = 1 .. Len(file)
    BY Positions DEF Inv
<1>2. at[c] \in Offset \cup {NoNode}
  <2>1. CASE pc[c] = "idle"
      BY <1>1, <2>1 DEF ClientFits
  <2>2. CASE pc[c] # "idle"
      BY <2>2, Standing
  <2> QED BY <2>1, <2>2
<1>3. parent[c] \in Offset \cup {NoNode}
    BY <1>1 DEF ClientFits, Passes
<1>4. stk[c] \in Seq(Offset)
  <2>1. CASE pc[c] = "idle"
    <3>1. stk[c] = <<>>
        BY <1>1, <2>1 DEF ClientFits
    <3> QED BY <3>1
  <2>2. CASE pc[c] # "idle"
    <3>1. PICK s, top : s = stk[c] /\ Stacked(s, Key(c), top, Len(file), low, lev) /\ s \in Seq(Nat)
        BY <2>2, StackIs
    <3>2. \A i \in 1 .. Len(s) : s[i] \in Offset
        BY <1>1, <3>1 DEF Stacked, Passes
    <3>3. s \in Seq(Offset)
        BY <3>1, <3>2, SeqInto
    <3> QED BY <3>1, <3>3
  <2> QED BY <2>1, <2>2
<1>5. up[c] \in [key : Nat, node : Offset \cup {NoNode}]
  <2>1. PICK u : u = up[c] /\ u \in [key : Nat, node : Nat \cup {NoNode}]
      BY <1>1 DEF ClientShape
  <2>2. u.node \in Offset \cup {NoNode}
    <3>1. CASE ~InSplit(c)
      <4>1. up[c] = NoUp
          BY <1>1, <3>1 DEF ClientFits
      <4> QED BY <2>1, <4>1 DEF NoUp
    <3>2. CASE InSplit(c)
      <4>1. Held(c, file[at[c]], low, lev)
          BY <1>1, <3>2 DEF ClientFits
      <4>2. PICK nd, kids, lo, v : nd = file[at[c]] /\ lo = low[at[c]] /\ v = Op(c).value
                                /\ kids = Kids(lev[at[c]], Len(file), low, lev)
          OBVIOUS
      <4>3. Adds(nd, lo, kids, Offset, Key(c), v, u)
          BY <1>1, <2>1, <4>1, <4>2 DEF Held
      <4>4. nd.leaf => u = [key |-> Key(c), node |-> NoNode]
          BY <2>1, <4>1, <4>2 DEF Held
      <4> QED BY <4>3, <4>4 DEF Adds
    <3> QED BY <3>1, <3>2
  <2> QED BY <2>1, <2>2
<1> QED BY <1>2, <1>3, <1>4, <1>5

LEMMA InvTypeOK == IInv => TypeOK
<1> SUFFICES ASSUME IInv
             PROVE  TypeOK
    OBVIOUS
<1>1. PICK low, lev \in [Nat -> Nat] : Inv(low, lev)
    BY DEF IInv
<1>2. FileShape /\ ClientShape /\ RootFits(low, lev)
    BY <1>1 DEF Inv
<1>3. file \in Seq(Node)
  <2>1. \A i \in 1 .. Len(file) : file[i] \in Node
      BY <1>1, <1>2, NodeTyped, Positions
  <2> QED BY <1>2, <2>1, SeqInto DEF FileShape
<1>4. wr \in [Offset -> Client \cup {NoClient}]
  <2>1. PICK S, s : S = Client \cup {NoClient} /\ s = wr
      OBVIOUS
  <2>2. s \in Seq(S) /\ Len(s) = Len(file)
      BY <1>2, <2>1 DEF FileShape
  <2>3. s \in [1 .. Len(s) -> S]
      BY <2>2
  <2> QED BY <1>2, <2>1, <2>2, <2>3 DEF Offset
<1>5. root \in Offset /\ pc \in [Client -> {"idle", "descend", "leaf", "full", "parent", "link"}]
      /\ got \in [Client -> Value \cup {Absent, Junk}]
    BY <1>2 DEF RootFits, ClientShape, Places
<1>6. at \in [Client -> Offset \cup {NoNode}] /\ parent \in [Client -> Offset \cup {NoNode}]
  <2>1. at \in [Client -> Nat \cup {NoNode}] /\ parent \in [Client -> Nat \cup {NoNode}]
      BY <1>2 DEF ClientShape
  <2>2. \A c \in Client : at[c] \in Offset \cup {NoNode} /\ parent[c] \in Offset \cup {NoNode}
      BY <1>1, ClientTyped
  <2> QED BY <2>1, <2>2
<1>7. stk \in [Client -> Seq(Offset)]
  <2>1. stk \in [Client -> Seq(Nat)] /\ \A c \in Client : stk[c] \in Seq(Offset)
      BY <1>1, <1>2, ClientTyped DEF ClientShape
  <2> QED BY <2>1
<1>8. up \in [Client -> [key : Nat, node : Offset \cup {NoNode}]]
  <2>1. up \in [Client -> [key : Nat, node : Nat \cup {NoNode}]]
      BY <1>2 DEF ClientShape
  <2>2. \A c \in Client : up[c] \in [key : Nat, node : Offset \cup {NoNode}]
      BY <1>1, ClientTyped
  <2> QED BY <2>1, <2>2
<1> QED BY <1>3, <1>4, <1>5, <1>6, <1>7, <1>8 DEF TypeOK

LEMMA InvLocks == IInv => LocksHandedOver
<1> SUFFICES ASSUME IInv
             PROVE  LocksHandedOver
    OBVIOUS
<1>1. PICK low, lev \in [Nat -> Nat] : Inv(low, lev)
    BY DEF IInv
<1>2. ASSUME NEW o \in Offset, NEW c \in Client
      PROVE  wr[o] = c <=> InSplit(c) /\ at[c] = o
  <2>1. wr[o] = c => InSplit(c) /\ at[c] = o
      BY <1>1 DEF Inv, Locks
  <2>2. InSplit(c) => wr[at[c]] = c
      BY <1>1, HeldRange DEF Held
  <2> QED BY <2>1, <2>2
<1> QED BY <1>2 DEF LocksHandedOver

LEMMA InvChildren == IInv => ChildrenDefined /\ SeparatorsExact
<1> SUFFICES ASSUME IInv
             PROVE  ChildrenDefined /\ SeparatorsExact
    OBVIOUS
<1>1. PICK low, lev \in [Nat -> Nat] : Inv(low, lev)
    BY DEF IInv
<1>2. ASSUME NEW o \in Offset, ~file[o].leaf, NEW i \in 0 .. file[o].n
      PROVE  /\ file[o].slots[i] \in Offset
             /\ Low(file[o].slots[i]) = IF i = 0 THEN Low(o) ELSE file[o].keys[i - 1]
  <2>1. PICK f, m : f = file /\ m = Len(file)
      OBVIOUS
  <2>2. Tree(f, m, low, lev) /\ o \in 1 .. m /\ ~f[o].leaf /\ Offset = 1 .. m
      BY <1>1, <1>2, <2>1, NodeIs
  <2>3. PICK lo, k, y : lo = low[o] /\ y = f[o].slots[i] /\ k = IF i = 0 THEN lo ELSE f[o].keys[i - 1]
      OBVIOUS
  <2>4. <<y, k>> \in Kids(lev[o], m, low, lev)
    <3>1. CASE i = 0
        BY <2>2, <2>3, <3>1, ChildrenAre
    <3>2. CASE i # 0
      <4>1. f[o].n \in 0 .. 2 * L
          BY <2>2, NodeFacts
      <4>2. PICK j : j = i - 1
          OBVIOUS
      <4>3. j \in 0 .. f[o].n - 1 /\ j + 1 = i
        <5>1. PICK n \in Nat : n = f[o].n /\ i \in 0 .. n
          <6>1. PICK n : n = f[o].n /\ n \in 0 .. 2 * L
              BY <4>1
          <6>2. L \in Nat
              BY LAssumption
          <6>3. n \in Nat
              BY <6>1, <6>2
          <6>4. i \in 0 .. n
              BY <1>2, <2>1, <6>1
          <6> QED BY <6>1, <6>3, <6>4
        <5>2. j \in 0 .. n - 1 /\ j + 1 = i
            BY <3>2, <4>2, <5>1
        <5> QED BY <5>1, <5>2
      <4>4. j \in 0 .. 2 * L - 1 /\ f[o].keys[j] # Junk
          BY <2>2, <4>3, ChildrenAre
      <4>5. <<f[o].slots[j + 1], f[o].keys[j]>> \in Kids(lev[o], m, low, lev)
          BY <2>2, <4>4, ChildrenAre
      <4> QED BY <2>3, <3>2, <4>2, <4>3, <4>5
    <3> QED BY <3>1, <3>2
  <2>5. y \in Offset /\ low[y] = k
    <3>1. y \in 1 .. m /\ low[y] = k
      <4>1. PICK lv : lv = lev[o] /\ <<y, k>> \in Kids(lv, m, low, lev)
          BY <2>4
      <4> QED BY <4>1, KidsAre
    <3> QED BY <2>2, <3>1
  <2>6. Low(y) = low[y] /\ Low(o) = low[o]
      BY <1>1, <1>2, <2>5, LowIs
  <2> QED BY <2>1, <2>3, <2>5, <2>6
<1> QED BY <1>2 DEF ChildrenDefined, SeparatorsExact

-----------------------------------------------------------------------------
(* Two nodes with the same right sibling end where it begins: they are one.   *)
LEMMA OneLeftSibling ==
    ASSUME NEW f, NEW m, NEW low \in [Nat -> Nat], NEW lev \in [Nat -> Nat], Tree(f, m, low, lev),
           NEW x \in 1 .. m, NEW y \in 1 .. m, f[x].right # NoNode, f[x].right = f[y].right
    PROVE  x = y
<1> SUFFICES ASSUME x # y
             PROVE  FALSE
    OBVIOUS
<1>1. /\ low[f[x].right] = f[x].high /\ lev[f[x].right] = lev[x]
      /\ low[f[y].right] = f[y].high /\ lev[f[y].right] = lev[y]
    BY DEF Tree, NodeFits
<1>2. PICK h : h = f[x].high /\ h = f[y].high
    BY <1>1
<1>3. h \in Nat /\ low[x] < h /\ low[y] < h
  <2>1. f[x].high \in Nat /\ low[x] < f[x].high
      BY NodeFacts
  <2>2. low[y] < f[y].high
    <3>1. f[y].right # NoNode
        OBVIOUS
    <3> QED BY <3>1, NodeFacts
  <2> QED BY <1>2, <2>1, <2>2
<1>4. Apart(f, low, x, y)
    BY <1>1 DEF Tree
<1>5. h <= low[x] \/ h <= low[y]
    BY <1>2, <1>4 DEF Apart
<1>6. low[x] \in Nat /\ low[y] \in Nat
    OBVIOUS
<1> QED BY <1>3, <1>5, <1>6

LEMMA AtMostOne ==
    ASSUME NEW S, \A x, y \in S : x = y
    PROVE  Cardinality(S) <= 1
<1>1. CASE S = {}
    BY <1>1, FS_EmptySet
<1>2. CASE S # {}
  <2>1. PICK x : S = {x}
      BY <1>2
  <2> QED BY <2>1, FS_Singleton
<1> QED BY <1>1, <1>2

LEMMA InvAscends == IInv => LevelsAscend
<1> SUFFICES ASSUME IInv
             PROVE  LevelsAscend
    OBVIOUS
<1>1. PICK low, lev \in [Nat -> Nat] : Inv(low, lev)
    BY DEF IInv
<1>2. ASSUME NEW o \in Offset
      PROVE  /\ \A i \in 0 .. file[o].n - 1 :
                  /\ i > 0 => file[o].keys[i - 1] < file[o].keys[i]
                  /\ Low(o) <= file[o].keys[i]
                  /\ file[o].right # NoNode => file[o].keys[i] < file[o].high
             /\ file[o].right # NoNode =>
                  Low(o) < file[o].high /\ file[file[o].right].leaf = file[o].leaf
             /\ Cardinality({l \in Offset : file[l].right = o}) <= 1
  <2>1. PICK f, m, nd : f = file /\ m = Len(file) /\ nd = file[o]
      OBVIOUS
  <2>2. Tree(f, m, low, lev) /\ o \in 1 .. m /\ Offset = 1 .. m /\ f[o] = nd /\ NoNode \notin Offset
        /\ lev[o] \in Nat
      BY <1>1, <1>2, <2>1, NodeIs
  <2>3. PICK lo : lo = Low(o) /\ lo = low[o]
      BY <1>1, <1>2, LowIs
  <2>4. Ascends(nd, lo) /\ nd.n \in 0 .. 2 * L
      BY <2>2, <2>3 DEF Tree, NodeFits, WellMade, Shape
  <2>5. ASSUME NEW i \in 0 .. nd.n - 1
        PROVE  /\ i > 0 => nd.keys[i - 1] < nd.keys[i]
               /\ lo <= nd.keys[i]
               /\ nd.right # NoNode => nd.keys[i] < nd.high
    <3>1. InRange(nd, lo, nd.keys[i])
        BY <2>4, <2>5 DEF Ascends
    <3>2. ASSUME i > 0
          PROVE  nd.keys[i - 1] < nd.keys[i]
      <4>1. i - 1 \in 0 .. nd.n - 1 /\ i - 1 < i
        <5>1. PICK n : n = nd.n /\ n \in 0 .. 2 * L
            BY <2>4
        <5>2. L \in Nat
            BY LAssumption
        <5>3. n \in Nat /\ i \in 0 .. n - 1
            BY <2>5, <5>1, <5>2
        <5>4. i - 1 \in 0 .. n - 1 /\ i - 1 < i
            BY <3>2, <5>3
        <5> QED BY <5>1, <5>4
      <4> QED BY <2>4, <2>5, <4>1 DEF Ascends, Sorted
    <3> QED BY <3>1, <3>2 DEF InRange
  <2>6. ASSUME nd.right # NoNode
        PROVE  lo < nd.high /\ f[nd.right].leaf = nd.leaf
    <3>1. lo < nd.high
        BY <2>4, <2>6 DEF Ascends
    <3>2. PICK q : q = nd.right
        OBVIOUS
    <3>3. q \in 1 .. m /\ lev[q] = lev[o]
        BY <2>2, <2>6, <3>2 DEF Tree, NodeFits
    <3>4. (lev[q] = 0 <=> f[q].leaf) /\ (lev[o] = 0 <=> f[o].leaf)
        BY <2>2, <3>3 DEF Tree, NodeFits
    <3>5. f[q].leaf \in BOOLEAN /\ f[o].leaf \in BOOLEAN
        BY <2>2, <3>3, NodeFacts
    <3> QED BY <2>2, <3>1, <3>2, <3>3, <3>4, <3>5
  <2>7. Cardinality({l \in Offset : f[l].right = o}) <= 1
    <3>1. ASSUME NEW x \in 1 .. m, NEW y \in 1 .. m, f[x].right = o, f[y].right = o
          PROVE  x = y
      <4>1. f[x].right # NoNode /\ f[x].right = f[y].right
          BY <1>2, <2>2, <3>1
      <4> QED BY <2>2, <4>1, OneLeftSibling
    <3>2. PICK S : S = {l \in Offset : f[l].right = o}
        OBVIOUS
    <3>3. \A x, y \in S : x = y
        BY <2>2, <3>1, <3>2
    <3> QED BY <3>2, <3>3, AtMostOne
  <2> QED BY <2>1, <2>3, <2>5, <2>6, <2>7
<1> QED BY <1>2 DEF LevelsAscend

LEMMA InvFgoe == IInv => FgoeRight
<1> SUFFICES ASSUME IInv
             PROVE  FgoeRight
    OBVIOUS
<1>1. PICK low, lev \in [Nat -> Nat] : Inv(low, lev)
    BY DEF IInv
<1>2. ASSUME NEW o \in Offset, NEW key \in Keys
      PROVE  Fgoe(file[o], key) =
                 Cardinality({i \in 0 .. file[o].n - 1 : file[o].keys[i] < key})
  <2>1. PICK nd : nd = file[o]
      OBVIOUS
  <2>2. Sorted(nd.keys, nd.n) /\ nd.n \in 0 .. 2 * L
      BY <1>1, <1>2, <2>1, NodeIs DEF WellMade, Ascends, Shape
  <2>3. key \in Nat
      BY <1>2, KeysAreNat
  <2>4. PICK i : i = Fgoe(nd, key)
      OBVIOUS
  <2>5. Placed(nd.keys, key, nd.n, i)
      BY <2>2, <2>3, <2>4, FgoeFinds
  <2>6. PICK n, keys : n = nd.n /\ keys = nd.keys
      OBVIOUS
  <2>7. n \in Nat
      BY <2>2, <2>6, LAssumption
  <2>8. i \in 0 .. n /\ \A j \in 0 .. n - 1 : (j < i => keys[j] < key) /\ (j >= i => key <= keys[j])
      BY <2>5, <2>6 DEF Placed
  <2>9. \A j \in 0 .. n - 1 : keys[j] \in Nat
      BY <2>2, <2>6 DEF Sorted
  <2>10. {j \in 0 .. n - 1 : keys[j] < key} = 0 .. i - 1
    <3>1. ASSUME NEW j \in 0 .. n - 1
          PROVE  keys[j] < key <=> j < i
        BY <2>3, <2>7, <2>8, <2>9, <3>1
    <3> QED BY <2>7, <2>8, <3>1
  <2>11. Cardinality(0 .. i - 1) = i
    <3>1. i \in Nat /\ 0 \in Int /\ i - 1 \in Int
        BY <2>7, <2>8
    <3>2. Cardinality(0 .. i - 1) = IF 0 > i - 1 THEN 0 ELSE i - 1 - 0 + 1
        BY <3>1, FS_Interval
    <3> QED BY <3>1, <3>2
  <2> QED BY <2>1, <2>4, <2>6, <2>10, <2>11
<1> QED BY <1>2 DEF FgoeRight

-----------------------------------------------------------------------------
(* A child of p begins at one of its borders, within its range. *)
Below(f, m, low, lev, p, z) ==
    /\ z \in 1 .. m /\ lev[z] + 1 = lev[p] /\ low[p] <= low[z]
    /\ f[p].right # NoNode => low[z] < f[p].high
    /\ low[z] = low[p] \/ \E j \in 0 .. f[p].n - 1 : low[z] = f[p].keys[j]

LEMMA ChildBelow ==
    ASSUME NEW f, NEW m, NEW low \in [Nat -> Nat], NEW lev \in [Nat -> Nat], Tree(f, m, low, lev),
           NEW p \in 1 .. m, ~f[p].leaf, NEW z \in Children(f[p])
    PROVE  Below(f, m, low, lev, p, z)
<1>1. PICK i \in 0 .. f[p].n : z = f[p].slots[i]
    BY DEF Children
<1>2. PICK nd, lv, lo : nd = f[p] /\ lv = lev[p] /\ lo = low[p]
    OBVIOUS
<1>3. Ascends(nd, lo) /\ nd.n \in 0 .. 2 * L
    BY <1>2 DEF Tree, NodeFits, WellMade, Shape
<1>4. CASE i = 0
  <2>1. <<f[p].slots[0], low[p]>> \in Kids(lev[p], m, low, lev)
      BY ChildrenAre
  <2>2. <<z, lo>> \in Kids(lv, m, low, lev)
      BY <1>1, <1>2, <1>4, <2>1
  <2>3. z \in 1 .. m /\ low[z] = lo /\ lev[z] + 1 = lv
      BY <2>2, KidsAre
  <2>4. nd.right # NoNode => lo < nd.high
      BY <1>3 DEF Ascends
  <2>5. lo <= lo
    <3>1. p \in Nat
        OBVIOUS
    <3>2. lo \in Nat
        BY <1>2, <3>1
    <3> QED BY <3>2
  <2> QED BY <1>2, <2>3, <2>4, <2>5 DEF Below
<1>5. CASE i # 0
  <2>1. PICK n \in Nat : n = nd.n
      BY <1>3, LAssumption
  <2>2. PICK j \in 0 .. n - 1 : j + 1 = i
    <3>1. i \in 0 .. n
        BY <1>1, <1>2, <2>1
    <3>2. i - 1 \in 0 .. n - 1 /\ (i - 1) + 1 = i
        BY <1>5, <2>1, <3>1
    <3> QED BY <3>2
  <2>3. j \in 0 .. f[p].n - 1
      BY <1>2, <2>1, <2>2
  <2>4. j \in 0 .. 2 * L - 1 /\ f[p].keys[j] # Junk
      BY <2>3, ChildrenAre
  <2>5. <<f[p].slots[j + 1], f[p].keys[j]>> \in Kids(lev[p], m, low, lev)
      BY <2>4, ChildrenAre
  <2>6. PICK k : k = nd.keys[j]
      OBVIOUS
  <2>7. <<z, k>> \in Kids(lv, m, low, lev)
      BY <1>1, <1>2, <2>2, <2>5, <2>6
  <2>8. z \in 1 .. m /\ low[z] = k /\ lev[z] + 1 = lv
      BY <2>7, KidsAre
  <2>9. InRange(nd, lo, k)
      BY <1>2, <1>3, <2>3, <2>6 DEF Ascends
  <2> QED BY <1>2, <2>3, <2>6, <2>8, <2>9 DEF Below, InRange
<1> QED BY <1>4, <1>5

KidOf(m, lev, o, x) == x \in 1 .. m /\ lev[x] + 1 = lev[o]

(* Whatever the key, btnodeChildByKey() leads to a child. *)
LEMMA ChildIsKid ==
    ASSUME NEW f, NEW m, NEW low \in [Nat -> Nat], NEW lev \in [Nat -> Nat], NEW o \in 1 .. m,
           Tree(f, m, low, lev), ~f[o].leaf, NEW key \in Nat
    PROVE  KidOf(m, lev, o, ChildByKey(f[o], key))
<1>0. PICK x : x = ChildByKey(f[o], key)
    OBVIOUS
<1>1. WellMade(f[o], low[o], Kids(lev[o], m, low, lev), 1 .. m)
    BY DEF Tree, NodeFits
<1>2. PICK nd, n, keys, slots : nd = f[o] /\ n = nd.n /\ keys = nd.keys /\ slots = nd.slots
    OBVIOUS
<1>3. n \in 0 .. 2 * L /\ Sorted(keys, n) /\ keys[2 * L] = Junk /\ L \in Nat
    BY <1>1, <1>2, LAssumption DEF WellMade, Ascends, Shape
<1>4. PICK i \in 0 .. n : i = Fgoe(nd, key)
  <2>1. Placed(nd.keys, key, nd.n, Fgoe(nd, key))
    <3>1. nd.n \in 0 .. 2 * L /\ Sorted(nd.keys, nd.n)
        BY <1>2, <1>3
    <3> QED BY <3>1, FgoeFinds
  <2> QED BY <1>2, <2>1 DEF Placed
<1>5. x = IF keys[i] = key THEN slots[i + 1] ELSE slots[i]
    BY <1>0, <1>2, <1>4 DEF ChildByKey
<1>6. PICK kids : kids = Kids(lev[o], m, low, lev)
    OBVIOUS
<1>7. /\ <<slots[0], low[o]>> \in kids
      /\ \A j \in 0 .. 2 * L - 1 : keys[j] # Junk => <<slots[j + 1], keys[j]>> \in kids
    BY <1>1, <1>2, <1>6 DEF WellMade, ChildrenFit
<1>8. \E k : <<x, k>> \in kids
  <2>1. CASE keys[i] = key
    <3>1. keys[i] # Junk
        BY <2>1, SentinelAssumption
    <3>2. i # 2 * L
        BY <1>3, <3>1
    <3>3. i \in 0 .. 2 * L - 1
        BY <1>3, <1>4, <3>2
    <3> QED BY <1>5, <1>7, <2>1, <3>1, <3>3
  <2>2. CASE keys[i] # key /\ i = 0
      BY <1>5, <1>7, <2>2
  <2>3. CASE keys[i] # key /\ i # 0
    <3>1. PICK j \in 0 .. n - 1 : j + 1 = i
      <4>1. n \in Nat
          BY <1>3
      <4>2. i - 1 \in 0 .. n - 1 /\ (i - 1) + 1 = i
          BY <2>3, <4>1
      <4> QED BY <4>2
    <3>2. j \in 0 .. 2 * L - 1
        BY <1>3
    <3>3. keys[j] # Junk
        BY <1>3, SentinelAssumption DEF Sorted
    <3> QED BY <1>5, <1>7, <2>3, <3>1, <3>2, <3>3
  <2> QED BY <2>1, <2>2, <2>3
<1> QED BY <1>0, <1>6, <1>8, KidsAre DEF KidOf

(* When every node but the root is a child, the child chosen for a key of a   *)
(* node's range has the key in its own.                                       *)
LEMMA ChildCovers ==
    ASSUME NEW f, NEW m, NEW low \in [Nat -> Nat], NEW lev \in [Nat -> Nat], Tree(f, m, low, lev),
           NEW x \in 1 .. m, ~f[x].leaf, NEW key \in Nat, InRange(f[x], low[x], key),
           NEW y, y = ChildByKey(f[x], key),
           f[y].right # NoNode =>
               \E p \in 1 .. m : ~f[p].leaf /\ f[y].right \in Children(f[p])
    PROVE  y \in 1 .. m /\ lev[y] + 1 = lev[x] /\ InRange(f[y], low[y], key)
<1>1. low[x] <= key /\ (f[x].right # NoNode => key < f[x].high)
    BY DEF InRange
<1>2. y \in 1 .. m /\ low[y] <= key /\ lev[y] + 1 = lev[x] /\ low[x] <= low[y]
      /\ Nearest(f[x], key, low[y])
    BY <1>1, ChildChosen
<1>3. ASSUME f[y].right # NoNode, ~(key < f[y].high)
      PROVE  FALSE
  <2>1. PICK z : z = f[y].right
      OBVIOUS
  <2>2. z \in 1 .. m /\ low[z] = f[y].high /\ lev[z] = lev[y]
      BY <1>2, <1>3, <2>1 DEF Tree, NodeFits
  <2>3. PICK p \in 1 .. m : ~f[p].leaf /\ z \in Children(f[p])
      BY <1>3, <2>1
  <2>4. Below(f, m, low, lev, p, z)
      BY <2>3, ChildBelow
  <2>5. f[y].high \in Nat /\ low[y] < f[y].high
      BY <1>2, <1>3, NodeFacts
  <2>6. PICK l, h, k : l = low[y] /\ h = low[z] /\ k = low[x] /\ l \in Nat /\ h \in Nat /\ k \in Nat
    <3>1. y \in Nat /\ z \in Nat /\ x \in Nat
        BY <1>2, <2>2
    <3> QED BY <3>1
  <2>7. k <= l /\ l < h /\ h <= key
      BY <1>2, <1>3, <2>2, <2>5, <2>6
  <2>8. CASE p = x
    <3>1. h = k \/ \E j \in 0 .. f[x].n - 1 : h = f[x].keys[j]
        BY <2>4, <2>6, <2>8 DEF Below
    <3>2. ASSUME NEW j \in 0 .. f[x].n - 1, h = f[x].keys[j]
          PROVE  h <= l
        BY <1>2, <2>6, <2>7, <3>2 DEF Nearest
    <3> QED BY <2>6, <2>7, <3>1, <3>2
  <2>9. CASE p # x
    <3>1. lev[p] = lev[x] /\ low[p] <= h /\ (f[p].right # NoNode => h < f[p].high)
        BY <1>2, <2>2, <2>4, <2>6 DEF Below
    <3>2. Apart(f, low, x, p)
        BY <2>9, <3>1 DEF Tree
    <3>3. f[x].high \in Nat /\ f[p].high \in Nat
        BY NodeFacts
    <3>4. PICK g \in Nat : g = low[p]
        OBVIOUS
    <3>5. CASE f[x].right # NoNode /\ f[x].high <= low[p]
        BY <1>1, <2>6, <2>7, <3>1, <3>3, <3>4, <3>5
    <3>6. CASE f[p].right # NoNode /\ f[p].high <= low[x]
        BY <2>6, <2>7, <3>1, <3>3, <3>6
    <3> QED BY <3>2, <3>5, <3>6 DEF Apart
  <2> QED BY <2>8, <2>9
<1> QED BY <1>2, <1>3 DEF InRange

(* A key is in the range of one node of each level only. *)
LEMMA OneCovers ==
    ASSUME NEW f, NEW m, NEW low \in [Nat -> Nat], NEW lev, Tree(f, m, low, lev),
           NEW x \in 1 .. m, NEW y \in 1 .. m, lev[x] = lev[y], NEW key \in Nat,
           InRange(f[x], low[x], key), InRange(f[y], low[y], key)
    PROVE  x = y
<1> SUFFICES ASSUME x # y
             PROVE  FALSE
    OBVIOUS
<1>1. Apart(f, low, x, y)
    BY DEF Tree
<1>2. f[x].high \in Nat /\ f[y].high \in Nat /\ low[x] \in Nat /\ low[y] \in Nat
    BY NodeFacts
<1> QED BY <1>1, <1>2 DEF Apart, InRange

-----------------------------------------------------------------------------
FindStops(f, key, o) == f[o].leaf /\ ~(f[o].right # NoNode /\ f[o].high < key)
FindNext(f, key, o) == IF ~f[o].leaf THEN ChildByKey(f[o], key) ELSE f[o].right

Ranked(f, m, low, lev, M, T, rank) ==
    /\ \A o \in 1 .. m : low[o] <= M /\ lev[o] <= T
    /\ rank = [o \in 1 .. m |-> IF f[o].leaf THEN M - low[o] ELSE M + lev[o]]

RankOf(f, l, h, M, T, o, k) ==
    /\ l \in Nat /\ h \in Nat /\ l <= M /\ h <= T
    /\ k = IF f[o].leaf THEN M - l ELSE M + h

LEMMA RankIs ==
    ASSUME NEW f, NEW m \in Nat, NEW low \in [Nat -> Nat], NEW lev \in [Nat -> Nat],
           NEW M \in Nat, NEW T \in Nat, NEW rank, Ranked(f, m, low, lev, M, T, rank),
           NEW o \in 1 .. m
    PROVE  RankOf(f, low[o], lev[o], M, T, o, rank[o])
<1>1. o \in Nat
    OBVIOUS
<1>2. low[o] \in Nat /\ lev[o] \in Nat
    BY <1>1
<1>3. low[o] <= M /\ lev[o] <= T
    BY DEF Ranked
<1>4. rank[o] = IF f[o].leaf THEN M - low[o] ELSE M + lev[o]
    BY DEF Ranked
<1> QED BY <1>2, <1>3, <1>4 DEF RankOf

LEMMA RankTyped ==
    ASSUME NEW f, NEW m \in Nat, NEW low \in [Nat -> Nat], NEW lev \in [Nat -> Nat],
           NEW M \in Nat, NEW T \in Nat, NEW rank, Ranked(f, m, low, lev, M, T, rank)
    PROVE  rank \in [1 .. m -> 0 .. M + T]
<1>1. ASSUME NEW o \in 1 .. m
      PROVE  rank[o] \in 0 .. M + T
  <2>1. PICK l, h : l = low[o] /\ h = lev[o]
      OBVIOUS
  <2>2. l \in Nat /\ h \in Nat /\ l <= M /\ h <= T /\ (rank[o] = M - l \/ rank[o] = M + h)
    <3>1. RankOf(f, low[o], lev[o], M, T, o, rank[o])
        BY <1>1, RankIs
    <3> QED BY <2>1, <3>1 DEF RankOf
  <2>3. M - l \in 0 .. M + T /\ M + h \in 0 .. M + T
      BY <2>2
  <2> QED BY <2>2, <2>3
<1>2. rank = [o \in 1 .. m |-> rank[o]]
    BY DEF Ranked
<1> QED BY <1>1, <1>2

(* Every step of a read is to a lower level, or to the right among the leaves *)
LEMMA FindNears ==
    ASSUME NEW f, NEW m \in Nat, NEW low \in [Nat -> Nat], NEW lev \in [Nat -> Nat],
           Tree(f, m, low, lev), NEW key \in Nat, NEW M \in Nat, NEW T \in Nat, NEW rank,
           Ranked(f, m, low, lev, M, T, rank), NEW o \in 1 .. m, ~FindStops(f, key, o),
           NEW x, x = FindNext(f, key, o)
    PROVE  x \in 1 .. m /\ rank[x] < rank[o]
<1>1. PICK l, h : l = low[o] /\ h = lev[o]
    OBVIOUS
<1>2. l \in Nat /\ h \in Nat /\ l <= M /\ h <= T
      /\ (f[o].leaf => rank[o] = M - l) /\ (~f[o].leaf => rank[o] = M + h)
  <2>1. RankOf(f, low[o], lev[o], M, T, o, rank[o])
      BY RankIs
  <2> QED BY <1>1, <2>1 DEF RankOf
<1>3. CASE ~f[o].leaf
  <2>1. x = ChildByKey(f[o], key)
      BY <1>3 DEF FindNext
  <2>2. x \in 1 .. m /\ lev[x] + 1 = lev[o]
    <3>1. KidOf(m, lev, o, ChildByKey(f[o], key))
        BY <1>3, ChildIsKid
    <3> QED BY <2>1, <3>1 DEF KidOf
  <2>3. PICK k, g : k = low[x] /\ g = lev[x]
      OBVIOUS
  <2>4. k \in Nat /\ g \in Nat /\ k <= M /\ (rank[x] = M - k \/ rank[x] = M + g) /\ g + 1 = h
    <3>1. RankOf(f, low[x], lev[x], M, T, x, rank[x])
        BY <2>2, RankIs
    <3> QED BY <1>1, <2>2, <2>3, <3>1 DEF RankOf
  <2>5. M - k < M + h /\ M + g < M + h
      BY <1>2, <2>4
  <2> QED BY <1>2, <1>3, <2>2, <2>4, <2>5
<1>4. CASE f[o].leaf
  <2>1. f[o].right # NoNode /\ x = f[o].right
      BY <1>4 DEF FindStops, FindNext
  <2>2. x \in 1 .. m /\ low[x] = f[o].high /\ lev[x] = lev[o]
    <3>1. NodeFits(f, m, low, lev, o)
        BY DEF Tree
    <3> QED BY <2>1, <3>1 DEF NodeFits
  <2>3. f[o].high \in Nat /\ low[o] < f[o].high
      BY <2>1, NodeFacts
  <2>4. f[x].leaf
    <3>1. (lev[x] = 0 <=> f[x].leaf) /\ (lev[o] = 0 <=> f[o].leaf)
        BY <2>2 DEF Tree, NodeFits
    <3> QED BY <1>4, <2>2, <3>1
  <2>5. PICK k : k = low[x]
      OBVIOUS
  <2>6. k \in Nat /\ k <= M /\ rank[x] = M - k
    <3>1. RankOf(f, low[x], lev[x], M, T, x, rank[x])
        BY <2>2, RankIs
    <3> QED BY <2>4, <2>5, <3>1 DEF RankOf
  <2>7. M - k < M - l
      BY <1>1, <1>2, <2>2, <2>3, <2>5, <2>6
  <2> QED BY <1>2, <1>4, <2>2, <2>6, <2>7
<1> QED BY <1>3, <1>4

FindsBy(f, key, w) ==
    w = [o \in Offset |->
            IF ~f[o].leaf THEN w[ChildByKey(f[o], key)]
            ELSE IF f[o].right # NoNode /\ f[o].high < key THEN w[f[o].right]
            ELSE o]

LEMMA FindIs ==
    ASSUME NEW low \in [Nat -> Nat], NEW lev \in [Nat -> Nat], Inv(low, lev), NEW key \in Nat
    PROVE  \E w : FindsBy(file, key, w) /\ Find(key) = w[root]
<1>1. PICK f, m : f = file /\ m = Len(file)
    OBVIOUS
<1>2. RootFits(low, lev) /\ FileShape /\ Tree(f, m, low, lev)
    BY <1>1 DEF Inv
<1>3. Offset = 1 .. m /\ m \in Nat /\ root \in 1 .. m
    BY <1>1, <1>2, Positions DEF RootFits
<1>4. PICK M \in Nat : \A o \in 1 .. m : low[o] <= M
    BY <1>2, <1>3 DEF RootFits
<1>5. PICK T \in Nat : \A o \in 1 .. m : lev[o] <= T
  <2>1. root \in Nat
      BY <1>3
  <2>2. lev[root] \in Nat
      BY <2>1
  <2>3. \A o \in 1 .. m : lev[o] <= lev[root]
      BY <1>2, <1>3 DEF RootFits
  <2> QED BY <2>2, <2>3
<1>6. PICK rank : rank = [o \in 1 .. m |-> IF f[o].leaf THEN M - low[o] ELSE M + lev[o]]
    OBVIOUS
<1>7. Ranked(f, m, low, lev, M, T, rank)
    BY <1>4, <1>5, <1>6 DEF Ranked
<1>8. /\ rank \in [1 .. m -> 0 .. M + T]
      /\ \A o \in 1 .. m : ~FindStops(f, key, o) =>
            FindNext(f, key, o) \in 1 .. m /\ rank[FindNext(f, key, o)] < rank[o]
  <2>1. rank \in [1 .. m -> 0 .. M + T]
      BY <1>3, <1>7, RankTyped
  <2>2. ASSUME NEW o \in 1 .. m, ~FindStops(f, key, o)
        PROVE  FindNext(f, key, o) \in 1 .. m /\ rank[FindNext(f, key, o)] < rank[o]
    <3>1. PICK x : x = FindNext(f, key, o)
        OBVIOUS
    <3>2. Tree(f, m, low, lev) /\ m \in Nat /\ Ranked(f, m, low, lev, M, T, rank)
          /\ ~FindStops(f, key, o) /\ o \in 1 .. m
        BY <1>2, <1>3, <1>7, <2>2
    <3>3. x \in 1 .. m /\ rank[x] < rank[o]
        BY <3>1, <3>2, FindNears
    <3> QED BY <3>1, <3>3
  <2> QED BY <2>1, <2>2
<1> DEFINE S == 1 .. m
           stop == [o \in S |-> FindStops(f, key, o)]
           val == [o \in S |-> o]
           next == [o \in S |-> FindNext(f, key, o)]
<1>9. \A o \in S : ~stop[o] => next[o] \in S /\ rank[next[o]] < rank[o]
    BY <1>8
<1>10. M + T \in Nat /\ rank \in [S -> 0 .. M + T]
    BY <1>8
<1>11. \A o \in S : stop[o] = FindStops(f, key, o) /\ val[o] = o /\ next[o] = FindNext(f, key, o)
    OBVIOUS
<1> HIDE DEF S, stop, val, next
<1>12. PICK w : Walk(S, stop, val, next, w)
    BY <1>9, <1>10, WalkEnds
<1>13. w = [o \in S |-> IF stop[o] THEN val[o] ELSE w[next[o]]]
    BY <1>12 DEF Walk
<1>14. \A o \in S : w[o] = IF FindStops(f, key, o) THEN o ELSE w[FindNext(f, key, o)]
    BY <1>11, <1>13
<1>15. \A o \in S : w[o] = IF ~f[o].leaf THEN w[ChildByKey(f[o], key)]
                           ELSE IF f[o].right # NoNode /\ f[o].high < key THEN w[f[o].right]
                           ELSE o
    BY <1>14 DEF FindStops, FindNext
<1>16. w = [o \in S |-> w[o]]
    BY <1>13
<1>17. FindsBy(f, key, w)
    BY <1>3, <1>15, <1>16 DEF FindsBy, S
<1> DEFINE found == CHOOSE from : FindsBy(f, key, from)
<1>18. FindsBy(f, key, found)
    BY <1>17
<1>19. Find(key) = found[root]
    BY <1>1 DEF Find, FindsBy
<1> QED BY <1>1, <1>18, <1>19

LEMMA InvFound == IInv => FoundFromRoot
<1> SUFFICES ASSUME IInv, \A c \in Client : ~InSplit(c),
                    NEW key \in Keys, NEW o \in Leaves, LeafOf(o, key)
             PROVE  Find(key) = o
    BY DEF FoundFromRoot
<1>1. PICK low, lev \in [Nat -> Nat] : Inv(low, lev)
    BY DEF IInv
<1>2. PICK f, m : f = file /\ m = Len(file)
    OBVIOUS
<1>3. Tree(f, m, low, lev) /\ RootFits(low, lev) /\ Offset = 1 .. m /\ Linked
    BY <1>1, <1>2, Positions DEF Inv
<1>4. key \in Nat
    BY KeysAreNat
<1>5. o \in 1 .. m /\ f[o].leaf /\ lev[o] = 0 /\ InRange(f[o], low[o], key)
  <2>1. o \in 1 .. m /\ f[o].leaf
      BY <1>2, <1>3 DEF Leaves
  <2>2. Ascends(f[o], low[o]) /\ lev[o] = 0
      BY <1>3, <2>1 DEF Tree, NodeFits, WellMade
  <2>3. PICK i \in 0 .. f[o].n - 1 : f[o].keys[i] = key
      BY <1>2 DEF LeafOf
  <2> QED BY <2>1, <2>2, <2>3 DEF Ascends
<1>6. PICK w : FindsBy(f, key, w) /\ Find(key) = w[root]
    BY <1>1, <1>2, <1>4, FindIs
<1>7. \A x \in 1 .. m : w[x] = IF ~f[x].leaf THEN w[ChildByKey(f[x], key)]
                              ELSE IF f[x].right # NoNode /\ f[x].high < key THEN w[f[x].right]
                              ELSE x
    BY <1>3, <1>6 DEF FindsBy
<1> DEFINE Lost == {lv \in Nat : \E x \in 1 .. m : lev[x] = lv /\ InRange(f[x], low[x], key) /\ w[x] # o}
<1>8. Lost = {}
  <2> SUFFICES ASSUME Lost # {}
               PROVE  FALSE
      OBVIOUS
  <2>1. PICK lv \in Lost : \A y \in Lost : lv <= y
      BY HasLeast
  <2>2. PICK x \in 1 .. m : lev[x] = lv /\ InRange(f[x], low[x], key) /\ w[x] # o
      BY <2>1
  <2>3. CASE f[x].leaf
    <3>1. lev[x] = lev[o]
        BY <1>3, <1>5, <2>2, <2>3 DEF Tree, NodeFits
    <3>2. x = o
      <4>1. /\ Tree(f, m, low, lev) /\ o \in 1 .. m /\ x \in 1 .. m /\ key \in Nat /\ lev[x] = lev[o]
            /\ InRange(f[x], low[x], key) /\ InRange(f[o], low[o], key)
          BY <1>3, <1>4, <1>5, <2>2, <3>1
      <4> QED BY <4>1, OneCovers
    <3>3. ~(f[x].right # NoNode /\ f[x].high < key)
      <4>1. f[x].right # NoNode => key < f[x].high
          BY <2>2 DEF InRange
      <4>2. f[x].high \in Nat
          BY <1>3, <2>2, NodeFacts
      <4> QED BY <1>4, <4>1, <4>2
    <3>4. w[x] = x
        BY <1>7, <2>3, <3>3
    <3> QED BY <2>2, <3>2, <3>4
  <2>4. CASE ~f[x].leaf
    <3>1. PICK y : y = ChildByKey(f[x], key)
        OBVIOUS
    <3>2. y \in 1 .. m /\ lev[y] + 1 = lev[x]
      <4>1. Tree(f, m, low, lev) /\ x \in 1 .. m /\ ~f[x].leaf /\ key \in Nat
          BY <1>3, <1>4, <2>2, <2>4
      <4>2. KidOf(m, lev, x, ChildByKey(f[x], key))
          BY <1>1, <4>1, ChildIsKid
      <4> QED BY <3>1, <4>2 DEF KidOf
    <3>3. f[y].right # NoNode => \E p \in 1 .. m : ~f[p].leaf /\ f[y].right \in Children(f[p])
      <4> SUFFICES ASSUME f[y].right # NoNode
                   PROVE  \E p \in 1 .. m : ~f[p].leaf /\ f[y].right \in Children(f[p])
          OBVIOUS
      <4>1. PICK z : z = f[y].right
          OBVIOUS
      <4>2. z \in 1 .. m /\ lev[z] = lev[y]
          BY <1>3, <3>2, <4>1 DEF Tree, NodeFits
      <4>3. z # root
        <5>1. lev[x] <= lev[root]
            BY <1>3 DEF RootFits
        <5>2. x \in Nat /\ y \in Nat
            BY <3>2
        <5>3. lev[x] \in Nat /\ lev[y] \in Nat
            BY <5>2
        <5> QED BY <3>2, <4>2, <5>1, <5>3
      <4>4. HasPlace(z)
          BY <1>3, <4>2 DEF Linked
      <4> QED BY <1>2, <1>3, <4>1, <4>3, <4>4 DEF HasPlace
    <3>4. InRange(f[y], low[y], key)
        BY <1>3, <1>4, <2>2, <2>4, <3>1, <3>3, ChildCovers
    <3>5. w[x] = w[y]
        BY <1>7, <2>4, <3>1
    <3>6. lev[y] \in Lost
      <4>1. y \in Nat
          BY <3>2
      <4>2. lev[y] \in Nat
          BY <4>1
      <4> QED BY <2>2, <3>2, <3>4, <3>5, <4>2
    <3>7. lv <= lev[y] /\ lev[y] \in Nat /\ lev[y] + 1 = lv
        BY <2>1, <2>2, <3>2, <3>6
    <3> HIDE DEF Lost
    <3> QED BY <3>7
  <2> QED BY <2>3, <2>4
<1>9. root \in 1 .. m /\ InRange(f[root], low[root], key)
    BY <1>2, <1>3, <1>4 DEF RootFits, InRange
<1>10. lev[root] \in Nat
  <2>1. root \in Nat
      BY <1>9
  <2> QED BY <2>1
<1>11. w[root] = o
  <2>1. ~(lev[root] \in Lost)
      BY <1>8
  <2> QED BY <1>9, <1>10, <2>1
<1> QED BY <1>6, <1>11

LEMMA InvTreeSound == IInv => TreeSound
BY InvTypeOK, InvAscends, InvChildren, InvFgoe, InvFound, InvLocks DEF TreeSound

(* After any steps of any number of readers and writers, splits of leaves,    *)
(* internal nodes and the root under way, the tree is the one that            *)
(* tests.cpp:395 walks through: levels ascend, each child and the key before  *)
(* it belong together, fgoe() finds its place, locks are handed over, and,    *)
(* once no split is under way, every stored key is found from the root.       *)
THEOREM TreeStaysSound ==
    ASSUME L <= Copied
    PROVE  Spec => []TreeSound
<1>1. Spec => []IInv
    BY AlwaysInv
<1>2. IInv => TreeSound
    BY InvTreeSound
<1> QED BY <1>1, <1>2, PTL

-----------------------------------------------------------------------------
(* The pairs in the leaves of a file f of m nodes, and what Contents makes of *)
(* them.                                                                      *)
LeavesOf(f, m) == {o \in 1 .. m : f[o].leaf}
HoldsPair(f, m, k, v) == \E o \in LeavesOf(f, m) : HasPair(f[o], k, v)
StoredIn(f, m) == {k \in Keys : \E o \in LeavesOf(f, m) : HasKey(f[o], k)}
HomeOf(f, m, k) == CHOOSE o \in LeavesOf(f, m) : HasKey(f[o], k)
ValueIn(f, m, k) == f[HomeOf(f, m, k)].slots[Fgoe(f[HomeOf(f, m, k)], k)]
ContentsIn(f, m) == [k \in StoredIn(f, m) |-> ValueIn(f, m, k)]

LEMMA ContentsAre ==
    Stored = StoredIn(file, Len(file)) /\ Contents = ContentsIn(file, Len(file))
<1>1. Stored = StoredIn(file, Len(file))
    BY DEF Stored, StoredIn, Leaves, LeavesOf, Offset, LeafOf, HasKey
<1>2. Contents = [k \in Stored |-> ValueIn(file, Len(file), k)]
    BY DEF Contents, ValueIn, HomeOf, Leaves, LeavesOf, Offset, LeafOf, HasKey
<1> QED BY <1>1, <1>2 DEF ContentsIn

LEMMA ContentsBecome ==
    Stored' = StoredIn(file', Len(file')) /\ Contents' = ContentsIn(file', Len(file'))
<1>1. Stored' = StoredIn(file', Len(file'))
    BY DEF Stored, StoredIn, Leaves, LeavesOf, Offset, LeafOf, HasKey
<1>2. Contents' = [k \in Stored' |-> ValueIn(file', Len(file'), k)]
    BY DEF Contents, ValueIn, HomeOf, Leaves, LeavesOf, Offset, LeafOf, HasKey
<1> QED BY <1>1, <1>2 DEF ContentsIn

(* A key of a leaf's range is in no other leaf. *)
LEMMA OthersLack ==
    ASSUME NEW f, NEW m, NEW low \in [Nat -> Nat], NEW lev, Tree(f, m, low, lev),
           NEW o \in LeavesOf(f, m), NEW key \in Nat, InRange(f[o], low[o], key),
           NEW x \in LeavesOf(f, m), HasKey(f[x], key)
    PROVE  x = o
<1>1. o \in 1 .. m /\ x \in 1 .. m /\ f[o].leaf /\ f[x].leaf
    BY DEF LeavesOf
<1>2. NodeFits(f, m, low, lev, o) /\ NodeFits(f, m, low, lev, x)
    BY <1>1 DEF Tree
<1>3. lev[x] = lev[o]
    BY <1>1, <1>2 DEF NodeFits
<1>4. InRange(f[x], low[x], key)
    BY <1>2 DEF NodeFits, WellMade, Ascends, HasKey
<1> QED BY <1>1, <1>3, <1>4, OneCovers

(* A key of a leaf is in its range. *)
LEMMA KeyInRange ==
    ASSUME NEW f, NEW m, NEW low, NEW lev, Tree(f, m, low, lev),
           NEW o \in LeavesOf(f, m), NEW key, HasKey(f[o], key)
    PROVE  key \in Nat /\ InRange(f[o], low[o], key)
<1>1. NodeFits(f, m, low, lev, o)
    BY DEF Tree, LeavesOf
<1> QED BY <1>1 DEF NodeFits, WellMade, Ascends, HasKey, Sorted

(* btnodeValueByKey() of a key that the leaf has.                             *)
LEMMA PairFound ==
    ASSUME NEW f, NEW m, NEW low, NEW lev, Tree(f, m, low, lev),
           NEW o \in LeavesOf(f, m), NEW k, NEW v, HasPair(f[o], k, v)
    PROVE  f[o].slots[Fgoe(f[o], k)] = v
<1>1. NodeFits(f, m, low, lev, o)
    BY DEF Tree, LeavesOf
<1>2. PICK n, keys : n = f[o].n /\ keys = f[o].keys
    OBVIOUS
<1>3. n \in 0 .. 2 * L /\ Sorted(keys, n)
    BY <1>1, <1>2 DEF NodeFits, WellMade, Shape, Ascends
<1>4. PICK i \in 0 .. n - 1 : keys[i] = k /\ f[o].slots[i] = v
    BY <1>2 DEF HasPair
<1>5. k \in Nat
    BY <1>3, <1>4 DEF Sorted
<1>6. PICK j : j = Fgoe(f[o], k)
    OBVIOUS
<1>7. Placed(keys, k, n, j)
  <2>1. Placed(f[o].keys, k, f[o].n, Fgoe(f[o], k))
      BY <1>2, <1>3, <1>5, FgoeFinds
  <2> QED BY <1>2, <1>6, <2>1
<1>8. j = i
  <2>1. j \in 0 .. n /\ n \in Nat /\ i \in Nat /\ j \in Nat
      BY <1>3, <1>4, <1>7, LAssumption DEF Placed
  <2>2. j <= i
      BY <1>4, <1>5, <1>7, <2>1 DEF Placed
  <2>3. CASE j < i
    <3>1. j \in 0 .. n - 1 /\ keys[j] < keys[i]
        BY <1>3, <1>4, <2>1, <2>3 DEF Sorted
    <3>2. k <= keys[j] /\ keys[j] \in Nat
        BY <1>3, <1>7, <2>1, <3>1 DEF Placed, Sorted
    <3> QED BY <1>4, <1>5, <3>1, <3>2
  <2> QED BY <2>1, <2>2, <2>3
<1> QED BY <1>4, <1>6, <1>8

-----------------------------------------------------------------------------
IsTree(f, m) == \E low, lev \in [Nat -> Nat] : Tree(f, m, low, lev)

LEMMA ContentsHold ==
    ASSUME NEW f, NEW m, IsTree(f, m), NEW k \in Keys, NEW v, HoldsPair(f, m, k, v)
    PROVE  k \in StoredIn(f, m) /\ ContentsIn(f, m)[k] = v
<1>1. PICK low, lev \in [Nat -> Nat] : Tree(f, m, low, lev)
    BY DEF IsTree
<1>2. PICK o \in LeavesOf(f, m) : HasPair(f[o], k, v)
    BY DEF HoldsPair
<1>3. HasKey(f[o], k)
    BY <1>2, PairIsKey
<1>4. PICK h : h = HomeOf(f, m, k)
    OBVIOUS
<1>5. h \in LeavesOf(f, m) /\ HasKey(f[h], k)
    BY <1>2, <1>3, <1>4 DEF HomeOf
<1>6. h = o
  <2>1. k \in Nat /\ InRange(f[o], low[o], k)
      BY <1>1, <1>3, KeyInRange
  <2> QED BY <1>1, <1>5, <2>1, OthersLack
<1>7. f[o].slots[Fgoe(f[o], k)] = v
    BY <1>1, <1>2, PairFound
<1>8. k \in StoredIn(f, m)
    BY <1>2, <1>3 DEF StoredIn
<1> QED BY <1>4, <1>6, <1>7, <1>8 DEF ContentsIn, ValueIn

LEMMA StoredHolds ==
    ASSUME NEW f, NEW m, IsTree(f, m), NEW k \in StoredIn(f, m)
    PROVE  k \in Keys /\ HoldsPair(f, m, k, ContentsIn(f, m)[k])
<1>1. k \in Keys
    BY DEF StoredIn
<1>2. PICK o \in LeavesOf(f, m) : HasKey(f[o], k)
    BY DEF StoredIn
<1>3. PICK v : HasPair(f[o], k, v)
    BY <1>2, PairIsKey
<1>4. HoldsPair(f, m, k, v)
    BY <1>2, <1>3 DEF HoldsPair
<1>5. ContentsIn(f, m)[k] = v
    BY <1>1, <1>4, ContentsHold
<1> QED BY <1>1, <1>4, <1>5

-----------------------------------------------------------------------------
(* Another file with the same pairs, or with a pair put into it.              *)
SamePairs(f, m, g, n) ==
    \A k \in Keys : \A v : HoldsPair(g, n, k, v) <=> HoldsPair(f, m, k, v)
PutsPair(f, m, g, n, key, val) ==
    \A k \in Keys : \A v :
        HoldsPair(g, n, k, v) <=> IF k = key THEN v = val ELSE HoldsPair(f, m, k, v)

LEMMA SameContents ==
    ASSUME NEW f, NEW m, NEW g, NEW n, IsTree(f, m), IsTree(g, n), SamePairs(f, m, g, n)
    PROVE  ContentsIn(g, n) = ContentsIn(f, m)
<1>1. ASSUME NEW k \in StoredIn(f, m)
      PROVE  k \in StoredIn(g, n) /\ ContentsIn(g, n)[k] = ContentsIn(f, m)[k]
  <2>1. k \in Keys /\ HoldsPair(f, m, k, ContentsIn(f, m)[k])
      BY <1>1, StoredHolds
  <2>2. HoldsPair(g, n, k, ContentsIn(f, m)[k])
      BY <2>1 DEF SamePairs
  <2> QED BY <2>1, <2>2, ContentsHold
<1>2. ASSUME NEW k \in StoredIn(g, n)
      PROVE  k \in StoredIn(f, m)
  <2>1. k \in Keys /\ HoldsPair(g, n, k, ContentsIn(g, n)[k])
      BY <1>2, StoredHolds
  <2>2. HoldsPair(f, m, k, ContentsIn(g, n)[k])
      BY <2>1 DEF SamePairs
  <2> QED BY <2>1, <2>2, ContentsHold
<1>3. StoredIn(g, n) = StoredIn(f, m)
    BY <1>1, <1>2
<1>4. PICK s, p : s = StoredIn(f, m) /\ p = ContentsIn(f, m)
    OBVIOUS
<1>5. PICK q : q = ContentsIn(g, n)
    OBVIOUS
<1>6. p = [k \in s |-> p[k]] /\ q = [k \in s |-> q[k]]
    BY <1>3, <1>4, <1>5 DEF ContentsIn
<1>7. \A k \in s : q[k] = p[k]
    BY <1>1, <1>4, <1>5
<1>8. q = p
    BY <1>6, <1>7
<1> QED BY <1>4, <1>5, <1>8

PutTo(f, m, g, n, key, val) ==
    /\ StoredIn(g, n) = StoredIn(f, m) \cup {key}
    /\ ContentsIn(g, n)[key] = val
    /\ ContentsIn(g, n) = [k \in StoredIn(f, m) \cup {key} |->
                              IF k = key THEN val ELSE ContentsIn(f, m)[k]]

LEMMA PutContents ==
    ASSUME NEW f, NEW m, NEW g, NEW n, IsTree(f, m), IsTree(g, n), NEW key \in Keys, NEW val,
           PutsPair(f, m, g, n, key, val)
    PROVE  PutTo(f, m, g, n, key, val)
<1>1. key \in StoredIn(g, n) /\ ContentsIn(g, n)[key] = val
  <2>1. HoldsPair(g, n, key, val)
      BY DEF PutsPair
  <2> QED BY <2>1, ContentsHold
<1>2. ASSUME NEW k \in StoredIn(f, m), k # key
      PROVE  k \in StoredIn(g, n) /\ ContentsIn(g, n)[k] = ContentsIn(f, m)[k]
  <2>1. k \in Keys /\ HoldsPair(f, m, k, ContentsIn(f, m)[k])
      BY <1>2, StoredHolds
  <2>2. HoldsPair(g, n, k, ContentsIn(f, m)[k])
      BY <1>2, <2>1 DEF PutsPair
  <2> QED BY <2>1, <2>2, ContentsHold
<1>3. ASSUME NEW k \in StoredIn(g, n), k # key
      PROVE  k \in StoredIn(f, m)
  <2>1. k \in Keys /\ HoldsPair(g, n, k, ContentsIn(g, n)[k])
      BY <1>3, StoredHolds
  <2>2. HoldsPair(f, m, k, ContentsIn(g, n)[k])
      BY <1>3, <2>1 DEF PutsPair
  <2> QED BY <2>1, <2>2, ContentsHold
<1>4. StoredIn(g, n) = StoredIn(f, m) \cup {key}
    BY <1>1, <1>2, <1>3
<1>5. PICK s, p : s = StoredIn(f, m) \cup {key} /\ p = ContentsIn(f, m)
    OBVIOUS
<1>6. PICK q : q = ContentsIn(g, n)
    OBVIOUS
<1>7. q = [k \in s |-> q[k]]
    BY <1>4, <1>5, <1>6 DEF ContentsIn
<1>8. \A k \in s : q[k] = IF k = key THEN val ELSE p[k]
    BY <1>1, <1>2, <1>5, <1>6
<1>9. q = [k \in s |-> IF k = key THEN val ELSE p[k]]
    BY <1>7, <1>8
<1> QED BY <1>1, <1>4, <1>5, <1>6, <1>9 DEF PutTo

-----------------------------------------------------------------------------
(* The pairs of nd, with val under key, are those of the nodes S of g.        *)
PutInto(nd, g, S, key, val) ==
    \A k, v : (\E x \in S : HasPair(g[x], k, v)) <=> IF k = key THEN v = val ELSE HasPair(nd, k, v)

(* From f with m nodes to g with n: the nodes S come for the leaf o.          *)
LeafReplaced(f, m, g, n, o, S) ==
    /\ LeavesOf(g, n) = (LeavesOf(f, m) \ {o}) \cup S
    /\ \A x \in LeavesOf(f, m) : x # o => g[x] = f[x]

LEMMA ReplacedPuts ==
    ASSUME NEW f, NEW m, NEW low \in [Nat -> Nat], NEW lev, Tree(f, m, low, lev),
           NEW o \in LeavesOf(f, m), NEW key \in Nat, InRange(f[o], low[o], key),
           NEW g, NEW n, NEW S, LeafReplaced(f, m, g, n, o, S),
           NEW val, PutInto(f[o], g, S, key, val)
    PROVE  PutsPair(f, m, g, n, key, val)
<1>1. \A x \in LeavesOf(f, m) : HasKey(f[x], key) => x = o
    BY OthersLack
<1>2. ASSUME NEW k, NEW v, HoldsPair(g, n, k, v)
      PROVE  IF k = key THEN v = val ELSE HoldsPair(f, m, k, v)
  <2>1. PICK x \in LeavesOf(g, n) : HasPair(g[x], k, v)
      BY <1>2 DEF HoldsPair
  <2>2. CASE x \in S
    <3>1. IF k = key THEN v = val ELSE HasPair(f[o], k, v)
        BY <2>1, <2>2 DEF PutInto
    <3> QED BY <3>1 DEF HoldsPair
  <2>3. CASE x \in LeavesOf(f, m) /\ x # o
    <3>1. HasPair(f[x], k, v)
        BY <2>1, <2>3 DEF LeafReplaced
    <3>2. k # key
        BY <1>1, <2>3, <3>1, PairIsKey
    <3> QED BY <2>3, <3>1, <3>2 DEF HoldsPair
  <2> QED BY <2>1, <2>2, <2>3 DEF LeafReplaced
<1>3. ASSUME NEW k, NEW v, IF k = key THEN v = val ELSE HoldsPair(f, m, k, v)
      PROVE  HoldsPair(g, n, k, v)
  <2>1. CASE IF k = key THEN v = val ELSE HasPair(f[o], k, v)
    <3>1. PICK x \in S : HasPair(g[x], k, v)
        BY <2>1 DEF PutInto
    <3> QED BY <3>1 DEF LeafReplaced, HoldsPair
  <2>2. CASE \E x \in LeavesOf(f, m) : x # o /\ HasPair(f[x], k, v)
      BY <2>2 DEF LeafReplaced, HoldsPair
  <2> QED BY <1>3, <2>1, <2>2 DEF HoldsPair
<1> QED BY <1>2, <1>3 DEF PutsPair

LEMMA LeavesKept ==
    ASSUME NEW f, NEW m, NEW g, NEW n, LeavesOf(g, n) = LeavesOf(f, m),
           \A x \in LeavesOf(f, m) : g[x] = f[x]
    PROVE  SamePairs(f, m, g, n)
BY DEF SamePairs, HoldsPair

-----------------------------------------------------------------------------
(* A node is written in place. *)
NodeWritten(f, m, g, o, new) ==
    g[o] = new /\ \A x \in 1 .. m : x # o => g[x] = f[x]

LEMMA LeafWrittenPuts ==
    ASSUME NEW f, NEW m, NEW low \in [Nat -> Nat], NEW lev, Tree(f, m, low, lev),
           NEW o \in LeavesOf(f, m), NEW key \in Nat, InRange(f[o], low[o], key),
           NEW g, NEW new, NodeWritten(f, m, g, o, new), new.leaf,
           NEW val, \A k, v : HasPair(new, k, v) <=> IF k = key THEN v = val ELSE HasPair(f[o], k, v)
    PROVE  PutsPair(f, m, g, m, key, val)
<1>1. PutInto(f[o], g, {o}, key, val)
    BY DEF PutInto, NodeWritten
<1>2. LeafReplaced(f, m, g, m, o, {o})
    BY DEF LeafReplaced, LeavesOf, NodeWritten
<1> QED BY <1>1, <1>2, ReplacedPuts

LEMMA InnerWrittenKeeps ==
    ASSUME NEW f, NEW m, NEW o \in 1 .. m, ~f[o].leaf,
           NEW g, NEW new, NodeWritten(f, m, g, o, new), ~new.leaf
    PROVE  SamePairs(f, m, g, m)
<1>1. LeavesOf(g, m) = LeavesOf(f, m) /\ \A x \in LeavesOf(f, m) : g[x] = f[x]
    BY DEF LeavesOf, NodeWritten
<1> QED BY <1>1, LeavesKept

(* A node is split into a and b, at r; what comes after that is no leaf.      *)
NodeSplit(f, m, g, n, o, r, a, b) ==
    /\ m \in Nat /\ n \in Nat /\ r = m + 1 /\ r <= n /\ o \in 1 .. m
    /\ g[o] = a /\ g[r] = b /\ \A x \in 1 .. m : x # o => g[x] = f[x]
    /\ \A x \in 1 .. n : x \in 1 .. r \/ ~g[x].leaf
    /\ a.leaf = f[o].leaf /\ b.leaf = f[o].leaf

LEMMA NodesAfterSplit ==
    ASSUME NEW m \in Nat, NEW n \in Nat, NEW r, r = m + 1, r <= n
    PROVE  r \notin 1 .. m /\ r \in 1 .. n
           /\ (\A x : x \in 1 .. r <=> x \in 1 .. m \/ x = r) /\ 1 .. m \subseteq 1 .. n
OBVIOUS

HalvesPut(nd, a, b, key, val) ==
    \A k, v : HasPair(a, k, v) \/ HasPair(b, k, v) <=>
                  IF k = key THEN v = val ELSE HasPair(nd, k, v)

LEMMA LeafSplitPuts ==
    ASSUME NEW f, NEW m, NEW low \in [Nat -> Nat], NEW lev, Tree(f, m, low, lev),
           NEW o \in LeavesOf(f, m), NEW key \in Nat, InRange(f[o], low[o], key),
           NEW g, NEW n, NEW r, NEW a, NEW b, NodeSplit(f, m, g, n, o, r, a, b),
           NEW val, HalvesPut(f[o], a, b, key, val)
    PROVE  PutsPair(f, m, g, n, key, val)
<1>1. r \notin 1 .. m /\ r \in 1 .. n /\ (\A x : x \in 1 .. r <=> x \in 1 .. m \/ x = r)
      /\ 1 .. m \subseteq 1 .. n
    BY NodesAfterSplit DEF NodeSplit
<1>2. g[o] = a /\ g[r] = b /\ o \in 1 .. m /\ o # r /\ f[o].leaf /\ a.leaf /\ b.leaf
    BY <1>1 DEF NodeSplit, LeavesOf
<1>3. PutInto(f[o], g, {o, r}, key, val)
    BY <1>2 DEF PutInto, HalvesPut
<1>4. LeafReplaced(f, m, g, n, o, {o, r})
  <2>1. \A x \in LeavesOf(g, n) : x \in LeavesOf(f, m) \/ x = r
      BY <1>1, <1>2 DEF NodeSplit, LeavesOf
  <2>2. \A x \in LeavesOf(f, m) : x \in LeavesOf(g, n) /\ (x # o => g[x] = f[x])
      BY <1>1, <1>2 DEF NodeSplit, LeavesOf
  <2>3. r \in LeavesOf(g, n)
      BY <1>1, <1>2 DEF LeavesOf
  <2> QED BY <2>1, <2>2, <2>3 DEF LeafReplaced
<1> QED BY <1>3, <1>4, ReplacedPuts

LEMMA InnerSplitKeeps ==
    ASSUME NEW f, NEW m, NEW o, ~f[o].leaf,
           NEW g, NEW n, NEW r, NEW a, NEW b, NodeSplit(f, m, g, n, o, r, a, b)
    PROVE  SamePairs(f, m, g, n)
<1>1. r \notin 1 .. m /\ r \in 1 .. n /\ (\A x : x \in 1 .. r <=> x \in 1 .. m \/ x = r)
      /\ 1 .. m \subseteq 1 .. n
    BY NodesAfterSplit DEF NodeSplit
<1>2. \A x \in LeavesOf(g, n) : x \in LeavesOf(f, m)
    BY <1>1 DEF NodeSplit, LeavesOf
<1>3. \A x \in LeavesOf(f, m) : x \in LeavesOf(g, n) /\ g[x] = f[x]
    BY <1>1 DEF NodeSplit, LeavesOf
<1>4. LeavesOf(g, n) = LeavesOf(f, m)
    BY <1>2, <1>3
<1> QED BY <1>3, <1>4, LeavesKept

-----------------------------------------------------------------------------
LEMMA TreeNow == IInv => IsTree(file, Len(file))
BY DEF IInv, Inv, IsTree

LEMMA TreeNext == IInv' => IsTree(file', Len(file'))
<1> SUFFICES ASSUME IInv'
             PROVE  IsTree(file', Len(file'))
    OBVIOUS
<1>1. PICK low, lev \in [Nat -> Nat] : Inv(low, lev)'
    BY DEF IInv
<1>2. Tree(file, Len(file), low, lev)'
    BY <1>1 DEF Inv
<1>3. Tree(file', Len(file'), low, lev)
    BY <1>2
<1> QED BY <1>3 DEF IsTree

(* A step stores val under key, and nothing else.                             *)
Puts(key, val) ==
    /\ key \in Stored' /\ Contents'[key] = val
    /\ Contents' = [k \in DOMAIN Contents \cup {key} |-> IF k = key THEN val ELSE Contents[k]]

LEMMA PairsKept ==
    ASSUME IInv, IInv', SamePairs(file, Len(file), file', Len(file'))
    PROVE  Contents' = Contents /\ Stored' = Stored
<1>1. IsTree(file, Len(file)) /\ IsTree(file', Len(file'))
    BY TreeNow, TreeNext
<1>2. ContentsIn(file', Len(file')) = ContentsIn(file, Len(file))
    BY <1>1, SameContents
<1>3. Contents' = Contents
    BY <1>2, ContentsAre, ContentsBecome
<1>4. Stored = DOMAIN ContentsIn(file, Len(file))
      /\ Stored' = DOMAIN ContentsIn(file', Len(file'))
    BY ContentsAre, ContentsBecome DEF ContentsIn
<1> QED BY <1>2, <1>3, <1>4

LEMMA PairPut ==
    ASSUME IInv, IInv', NEW key \in Keys, NEW val,
           PutsPair(file, Len(file), file', Len(file'), key, val)
    PROVE  Puts(key, val)
<1>1. PICK f, m, g, n : f = file /\ m = Len(file) /\ g = file' /\ n = Len(file')
    OBVIOUS
<1>2. IsTree(f, m) /\ IsTree(g, n) /\ PutsPair(f, m, g, n, key, val)
    BY <1>1, TreeNow, TreeNext
<1>3. PutTo(f, m, g, n, key, val)
    BY <1>2, PutContents
<1>4. Stored = StoredIn(f, m) /\ Contents = ContentsIn(f, m)
    BY <1>1, ContentsAre
<1>5. Stored' = StoredIn(g, n) /\ Contents' = ContentsIn(g, n)
    BY <1>1, ContentsBecome
<1>6. DOMAIN Contents = StoredIn(f, m)
    BY <1>4 DEF ContentsIn
<1> QED BY <1>3, <1>4, <1>5, <1>6 DEF Puts, PutTo

-----------------------------------------------------------------------------
(* The lock on the leaf that the key belongs to: btnodeAddKeyValue() stores   *)
(* the pair there, but in a full node it does nothing.                        *)
LEMMA WriteLeafContents ==
    ASSUME NEW c \in Client, IInv, IInv', WriteLeaf(c)
    PROVE  IF Full(file[at[c]]) THEN Contents' = Contents /\ Stored' = Stored /\ Key(c) \in Stored
           ELSE Puts(Key(c), Op(c).value)
<1>1. PICK low, lev \in [Nat -> Nat] : Inv(low, lev)
    BY DEF IInv
<1>2. PICK o, key, nd, v, m : o = at[c] /\ key = Key(c) /\ nd = file[o] /\ v = Op(c).value
                              /\ m = Len(file)
    OBVIOUS
<1>3. PICK new : new = AddKeyValue(nd, key, v)
    OBVIOUS
<1>4. /\ pc[c] = "leaf" /\ ~Passed(nd, key) /\ (~Full(nd) \/ Has(nd, key))
      /\ file' = [file EXCEPT ![o] = new]
    BY <1>2, <1>3 DEF WriteLeaf, AtLeaf, In
<1>5. o \in 1 .. m /\ key \in Nat /\ key \in Keys /\ v \in Value \cup {Absent}
      /\ Tree(file, m, low, lev)
  <2>1. pc[c] # "idle"
      BY <1>4
  <2> QED BY <1>1, <1>2, <2>1, Standing
<1>6. PICK lo, kids, off : lo = low[o] /\ kids = Kids(lev[o], m, low, lev) /\ off = 1 .. m
    OBVIOUS
<1>7. nd.leaf /\ WellMade(nd, lo, kids, off) /\ InRange(nd, lo, key) /\ lo \in Nat
    BY <1>1, <1>2, <1>4, <1>6, AtHome
<1>8. NodeWritten(file, m, file', o, new) /\ Len(file') = m
  <2>1. file \in Seq(Shape)
      BY <1>1 DEF Inv, FileShape
  <2>2. new \in Shape
    <3>1. WellMade(new, lo, kids, off)
        BY <1>3, <1>5, <1>7, LeafWritten
    <3> QED BY <3>1 DEF WellMade
  <2>3. Len(file') = Len(file) /\ file'[o] = new
        /\ \A x \in 1 .. Len(file) : x # o => file'[x] = file[x]
    <3>1. PICK s : s = file
        OBVIOUS
    <3>2. s \in Seq(Shape) /\ o \in 1 .. Len(s) /\ new \in Shape
        BY <1>2, <1>5, <2>1, <2>2, <3>1
    <3>3. PICK t : t = [s EXCEPT ![o] = new]
        OBVIOUS
    <3>4. Len(t) = Len(s) /\ t[o] = new /\ \A x \in 1 .. Len(s) : x # o => t[x] = s[x]
        BY <3>2, <3>3, SeqExcept
    <3> QED BY <1>4, <3>1, <3>3, <3>4
  <2> QED BY <1>2, <2>3 DEF NodeWritten
<1>9. o \in LeavesOf(file, m)
    BY <1>2, <1>5, <1>7 DEF LeavesOf
<1>10. CASE Full(nd)
  <2>1. new = nd
      BY <1>3, <1>10 DEF AddKeyValue, Full
  <2>2. \A x \in 1 .. m : file'[x] = file[x]
      BY <1>2, <1>8, <2>1 DEF NodeWritten
  <2>3. SamePairs(file, m, file', Len(file'))
    <3>1. LeavesOf(file', m) = LeavesOf(file, m) /\ \A x \in LeavesOf(file, m) : file'[x] = file[x]
        BY <2>2 DEF LeavesOf
    <3> QED BY <1>8, <3>1, LeavesKept
  <2>4. Contents' = Contents /\ Stored' = Stored
      BY <1>2, <2>3, PairsKept
  <2>5. HasKey(nd, key)
    <3>1. Has(nd, key)
        BY <1>4, <1>10
    <3>2. Placed(nd.keys, key, nd.n, Fgoe(nd, key))
        BY <1>5, <1>7, FgoeFinds DEF WellMade, Shape, Ascends
    <3>3. nd.n \in Nat
        BY <1>7, LAssumption DEF WellMade, Shape
    <3>4. Fgoe(nd, key) \in 0 .. nd.n - 1
        BY <3>1, <3>2, <3>3 DEF Has, Placed
    <3> QED BY <3>1, <3>4 DEF Has, HasKey
  <2>6. key \in Stored
    <3>1. key \in StoredIn(file, m)
        BY <1>2, <1>5, <1>9, <2>5 DEF StoredIn
    <3> QED BY <1>2, <3>1, ContentsAre
  <2> QED BY <1>2, <1>10, <2>4, <2>6
<1>11. CASE ~Full(nd)
  <2>1. nd.n < 2 * L
      BY <1>7, <1>11, LAssumption DEF Full, WellMade, Shape
  <2>2. SameFrame(nd, new) /\ \A k, w : HasPair(new, k, w) <=> IF k = key THEN w = v ELSE HasPair(nd, k, w)
    <3>1. /\ SameFrame(nd, AddKeyValue(nd, key, v))
          /\ \A k, w : HasPair(AddKeyValue(nd, key, v), k, w) <=>
                           IF k = key THEN w = v ELSE HasPair(nd, k, w)
        BY <1>5, <1>7, <2>1, PairAdded
    <3> QED BY <1>3, <3>1
  <2>3. PutsPair(file, m, file', m, key, v)
    <3>1. new.leaf /\ InRange(file[o], low[o], key)
          /\ \A k, w : HasPair(new, k, w) <=> IF k = key THEN w = v ELSE HasPair(file[o], k, w)
        BY <1>2, <1>6, <1>7, <2>2 DEF SameFrame
    <3> QED BY <1>5, <1>8, <1>9, <3>1, LeafWrittenPuts
  <2>4. Puts(key, v)
      BY <1>2, <1>5, <1>8, <2>3, PairPut
  <2> QED BY <1>2, <1>11, <2>4
<1> QED BY <1>10, <1>11

-----------------------------------------------------------------------------
LEMMA LinkContents ==
    ASSUME NEW c \in Client, IInv, IInv', Link(c)
    PROVE  Contents' = Contents
<1>1. PICK low, lev \in [Nat -> Nat] : Inv(low, lev)
    BY DEF IInv
<1>2. PICK o, nd, k, y, m : o = at[c] /\ nd = file[o] /\ k = up[c].key /\ y = up[c].node
                            /\ m = Len(file)
    OBVIOUS
<1>3. PICK new : new = AddKeyChild(nd, k, y)
    OBVIOUS
<1>4. pc[c] = "link" /\ file' = [file EXCEPT ![o] = new]
    BY <1>2, <1>3 DEF Link, In
<1>5. o \in 1 .. m /\ Tree(file, m, low, lev) /\ m \in Nat
  <2>1. pc[c] # "idle"
      BY <1>4
  <2> QED BY <1>1, <1>2, <2>1, Standing
<1>6. PICK lo, kids, off : lo = low[o] /\ kids = Kids(lev[o], m, low, lev) /\ off = 1 .. m
    OBVIOUS
<1>7. PICK key, v, u : key = Key(c) /\ v = Op(c).value /\ u = up[c]
    OBVIOUS
<1>8. nd.n < 2 * L /\ ~nd.leaf /\ Adds(nd, lo, kids, off, key, v, u)
  <2>1. InSplit(c)
      BY <1>4 DEF InSplit
  <2>2. Held(c, nd, low, lev)
      BY <1>1, <1>2, <2>1, HeldRange
  <2> QED BY <1>2, <1>4, <1>6, <1>7, <2>2 DEF Held
<1>9. Linking(nd, lo, kids, off, k, y)
  <2>1. k \in Nat /\ InRange(nd, lo, k) /\ ~HasKey(nd, k) /\ y \in off /\ <<y, k>> \in kids
      BY <1>2, <1>7, <1>8 DEF Adds
  <2>2. WellMade(file[o], low[o], Kids(lev[o], m, low, lev), 1 .. m)
      BY <1>5 DEF Tree, NodeFits
  <2>3. o \in Nat
      BY <1>5
  <2>4. low[o] \in Nat /\ 1 .. m \in SUBSET Nat
      BY <1>5, <2>3
  <2> QED BY <1>2, <1>6, <1>8, <2>1, <2>2, <2>4 DEF Linking
<1>10. new \in Shape /\ ~new.leaf
  <2>1. WellMade(AddKeyChild(nd, k, y), lo, kids, off) /\ SameFrame(nd, AddKeyChild(nd, k, y))
      BY <1>9, ChildLinked
  <2> QED BY <1>3, <1>8, <2>1 DEF WellMade, SameFrame
<1>11. NodeWritten(file, m, file', o, new) /\ Len(file') = m
  <2>1. PICK s : s = file
      OBVIOUS
  <2>2. s \in Seq(Shape) /\ o \in 1 .. Len(s)
      BY <1>1, <1>2, <1>5, <2>1 DEF Inv, FileShape
  <2>3. PICK t : t = [s EXCEPT ![o] = new]
      OBVIOUS
  <2>4. Len(t) = Len(s) /\ t[o] = new /\ \A x \in 1 .. Len(s) : x # o => t[x] = s[x]
      BY <1>10, <2>2, <2>3, SeqExcept
  <2> QED BY <1>2, <1>4, <2>1, <2>3, <2>4 DEF NodeWritten
<1>12. SamePairs(file, m, file', m)
  <2>1. ~file[o].leaf /\ ~new.leaf
      BY <1>2, <1>8, <1>10
  <2> QED BY <1>5, <1>11, <2>1, InnerWrittenKeeps
<1> QED BY <1>2, <1>11, <1>12, PairsKept

-----------------------------------------------------------------------------
(* The two halves of a full leaf have its pairs and the new one; those of an  *)
(* internal node have none.                                                   *)
LEMMA HalvesContents ==
    ASSUME NEW c \in Client, NEW low \in [Nat -> Nat], NEW lev \in [Nat -> Nat], Inv(low, lev),
           IInv', InSplit(c), NEW s, NEW a, NEW b, CutInto(c, low, lev, s, a, b),
           NodeSplit(file, Len(file), file', Len(file'), at[c], Len(file) + 1, a, b)
    PROVE  IF file[at[c]].leaf THEN Puts(Key(c), Op(c).value) ELSE Contents' = Contents
<1>1. PICK o, key, nd, v, m : o = at[c] /\ key = Key(c) /\ nd = file[o] /\ v = Op(c).value
                              /\ m = Len(file)
    OBVIOUS
<1>2. PICK g, n, r : g = file' /\ n = Len(file') /\ r = m + 1
    OBVIOUS
<1>3. NodeSplit(file, m, g, n, o, r, a, b) /\ IInv
    BY <1>1, <1>2 DEF IInv
<1>4. o \in 1 .. m /\ key \in Nat /\ key \in Keys /\ Tree(file, m, low, lev)
  <2>1. pc[c] # "idle"
      BY DEF InSplit
  <2> QED BY <1>1, <2>1, Standing
<1>5. CASE nd.leaf
  <2>1. o \in LeavesOf(file, m) /\ InRange(file[o], low[o], key)
      BY <1>1, <1>4, <1>5, HeldRange DEF LeavesOf
  <2>2. HalvesPut(file[o], a, b, key, v)
      BY <1>1, <1>5 DEF CutInto, HalvedInto, HalvesPut
  <2>3. PutsPair(file, m, g, n, key, v)
      BY <1>3, <1>4, <2>1, <2>2, LeafSplitPuts
  <2>4. Puts(key, v)
      BY <1>1, <1>2, <1>3, <1>4, <2>3, PairPut
  <2> QED BY <1>1, <1>5, <2>4
<1>6. CASE ~nd.leaf
  <2>1. ~file[o].leaf
      BY <1>1, <1>6
  <2>2. SamePairs(file, m, g, n)
      BY <1>3, <2>1, InnerSplitKeeps
  <2>3. Contents' = Contents
      BY <1>1, <1>2, <1>3, <2>2, PairsKept
  <2> QED BY <1>1, <1>6, <2>3
<1> QED BY <1>5, <1>6

LEMMA SplitContents ==
    ASSUME NEW c \in Client, L <= Copied, IInv, IInv', Split(c)
    PROVE  IF file[at[c]].leaf THEN Puts(Key(c), Op(c).value) ELSE Contents' = Contents
<1>1. PICK low, lev \in [Nat -> Nat] : Inv(low, lev)
    BY DEF IInv
<1>2. pc[c] = "parent" /\ InSplit(c)
    BY DEF Split, In, InSplit
<1>3. PICK s, a, b : CutInto(c, low, lev, s, a, b)
    BY <1>1, <1>2, CutsInto
<1>4. PICK o, p, r, m : o = at[c] /\ p = parent[c] /\ r = Len(file) + 1 /\ m = Len(file)
    OBVIOUS
<1>5. Splits(c, o, p, r, a, b)
    BY <1>1, <1>3, <1>4, SplitIs
<1>6. NodeSplit(file, m, file', Len(file'), o, r, a, b)
  <2>1. o \in 1 .. m /\ m \in Nat
      BY <1>1, <1>2, <1>4, Standing
  <2>2. a.leaf = file[o].leaf /\ b.leaf = file[o].leaf
      BY <1>3, <1>4 DEF CutInto, HalvedInto, Cut
  <2>3. Len(file') = r /\ file'[o] = a /\ file'[r] = b
        /\ \A x \in 1 .. m : x # o => file'[x] = file[x]
      BY <1>4, <1>5 DEF Splits, ChangedAndAppended
  <2>4. r = m + 1 /\ r \in Nat /\ Len(file') \in Nat
      BY <1>4, <2>1, <2>3
  <2> QED BY <2>1, <2>2, <2>3, <2>4 DEF NodeSplit
<1> QED BY <1>1, <1>2, <1>3, <1>4, <1>6, HalvesContents

LEMMA SplitRootContents ==
    ASSUME NEW c \in Client, L <= Copied, IInv, IInv', SplitRoot(c)
    PROVE  IF file[at[c]].leaf THEN Puts(Key(c), Op(c).value) ELSE Contents' = Contents
<1>1. PICK low, lev \in [Nat -> Nat] : Inv(low, lev)
    BY DEF IInv
<1>2. pc[c] = "full" /\ InSplit(c)
    BY DEF SplitRoot, In, InSplit
<1>3. PICK s, a, b : CutInto(c, low, lev, s, a, b)
    BY <1>1, <1>2, CutsInto
<1>4. PICK o, r, q, m, g : o = at[c] /\ r = Len(file) + 1 /\ q = Len(file) + 2
                           /\ m = Len(file) /\ g = Append([file EXCEPT ![at[c]] = a], b)
    OBVIOUS
<1>5. Roots(c, o, r, q, s, a, b, g)
    BY <1>1, <1>3, <1>4, RootsIs
<1>6. NodeSplit(file, m, file', Len(file'), o, r, a, b)
  <2>1. o \in 1 .. m /\ m \in Nat
      BY <1>1, <1>2, <1>4, Standing
  <2>2. a.leaf = file[o].leaf /\ b.leaf = file[o].leaf
      BY <1>3, <1>4 DEF CutInto, HalvedInto, Cut
  <2>3. r = m + 1 /\ q = r + 1 /\ r \in Nat /\ q \in Nat
    <3>1. r = m + 1 /\ q = r + 1
        BY <1>4, <1>5 DEF Roots
    <3> QED BY <2>1, <3>1
  <2>4. o \in 1 .. r /\ r \in 1 .. r /\ r <= q
        /\ (\A x \in 1 .. m : x \in 1 .. r) /\ (\A x \in 1 .. q : x \in 1 .. r \/ x = q)
      BY <2>1, <2>3
  <2>5. g[o] = a /\ g[r] = b /\ \A x \in 1 .. m : x # o => g[x] = file[x]
      BY <1>4, <1>5 DEF Roots, ChangedAndAppended
  <2>6. Len(file') = q /\ file'[q] = NewRoot(s, o, r) /\ \A x \in 1 .. r : file'[x] = g[x]
      BY <1>5 DEF Roots
  <2>7. ~NewRoot(s, o, r).leaf
      BY DEF NewRoot
  <2> QED BY <2>1, <2>2, <2>3, <2>4, <2>5, <2>6, <2>7 DEF NodeSplit
<1> QED BY <1>1, <1>2, <1>3, <1>4, <1>6, HalvesContents

-----------------------------------------------------------------------------
(* fgoe() misses no key of the node.                                          *)
LEMMA KeyMissing ==
    ASSUME NEW keys, NEW n \in Nat, Sorted(keys, n), NEW key \in Nat, NEW i,
           Placed(keys, key, n, i), ~(i < n /\ keys[i] = key)
    PROVE  (\A j \in 0 .. n - 1 : keys[j] # key) /\ (keys[i] = key => i = n)
<1>1. i \in 0 .. n /\ i \in Nat
    BY DEF Placed
<1>2. ASSUME NEW j \in 0 .. n - 1, keys[j] = key
      PROVE  FALSE
  <2>1. j \in Nat /\ j < n
      BY <1>2
  <2>2. ~(j < i)
      BY <1>2, <2>1 DEF Placed
  <2>3. CASE i = j
      BY <1>2, <2>1, <2>3
  <2>4. CASE i < j
    <3>1. i \in 0 .. n - 1
        BY <1>1, <2>1, <2>4
    <3>2. keys[i] < keys[j] /\ keys[i] \in Nat
        BY <1>2, <2>4, <3>1 DEF Sorted
    <3>3. key <= keys[i]
        BY <1>1, <3>1 DEF Placed
    <3> QED BY <1>2, <3>2, <3>3
  <2> QED BY <1>1, <2>1, <2>2, <2>3, <2>4
<1> QED BY <1>1, <1>2

(* btnodeValueByKey() in the leaf whose range the key is in: the value, or    *)
(* the default one, even where what it looks at is no key of the leaf.        *)
LeafGives(nd, key, value) ==
    IF HasKey(nd, key) THEN HasPair(nd, key, value) ELSE value = Absent

LEMMA ValueInLeaf ==
    ASSUME NEW nd, NEW lo, NEW kids, NEW off, WellMade(nd, lo, kids, off), nd.leaf,
           NEW key \in Nat, InRange(nd, lo, key)
    PROVE  LeafGives(nd, key, ValueByKey(nd, key, Absent))
<1>1. PICK n, keys, i : n = nd.n /\ keys = nd.keys /\ i = Fgoe(nd, key)
    OBVIOUS
<1>2. n \in 0 .. 2 * L /\ Sorted(keys, n)
    BY <1>1 DEF WellMade, Shape, Ascends
<1>3. n \in Nat
    BY <1>2, LAssumption
<1>4. Placed(keys, key, n, i)
    BY <1>1, <1>2, FgoeFinds
<1>5. i \in 0 .. n
    BY <1>4 DEF Placed
<1>6. PICK value : value = ValueByKey(nd, key, Absent)
    OBVIOUS
<1>7. value = IF keys[i] = key THEN nd.slots[i] ELSE Absent
    BY <1>1, <1>6 DEF ValueByKey
<1>8. CASE i < n /\ keys[i] = key
  <2>1. i \in 0 .. n - 1
      BY <1>3, <1>5, <1>8
  <2> QED BY <1>1, <1>6, <1>7, <1>8, <2>1 DEF LeafGives, HasKey, HasPair
<1>9. CASE ~(i < n /\ keys[i] = key)
  <2>1. (\A j \in 0 .. n - 1 : keys[j] # key) /\ (keys[i] = key => i = n)
      BY <1>2, <1>3, <1>4, <1>9, KeyMissing
  <2>2. ~HasKey(nd, key)
      BY <1>1, <2>1 DEF HasKey
  <2>3. ASSUME keys[i] = key
        PROVE  nd.slots[i] = Absent
    <3>1. n \in n .. 2 * L /\ i = n
        BY <1>2, <2>1, <2>3
    <3>2. keys[n] # Junk
        BY <2>3, <3>1, SentinelAssumption
    <3>3. IF nd.right # NoNode THEN nd.high <= keys[n] ELSE keys[n] = 0 /\ nd.slots[n] = Absent
        BY <1>1, <3>1, <3>2 DEF WellMade, LeafFits
    <3>4. nd.high \in Nat
        BY DEF WellMade, Shape
    <3>5. nd.right = NoNode
        BY <2>3, <3>1, <3>3, <3>4 DEF InRange
    <3> QED BY <3>1, <3>3, <3>5
  <2> QED BY <1>6, <1>7, <2>2, <2>3 DEF LeafGives
<1> QED BY <1>8, <1>9

LEMMA ValueByKeyIs ==
    ASSUME IInv, NEW low \in [Nat -> Nat], NEW lev \in [Nat -> Nat], Inv(low, lev),
           NEW o \in LeavesOf(file, Len(file)), NEW key \in Keys, key \in Nat,
           InRange(file[o], low[o], key)
    PROVE  ValueByKey(file[o], key, Absent) = IF key \in Stored THEN Contents[key] ELSE Absent
<1>1. PICK nd, m : nd = file[o] /\ m = Len(file)
    OBVIOUS
<1>2. IsTree(file, m) /\ Tree(file, m, low, lev) /\ o \in LeavesOf(file, m)
    BY <1>1, TreeNow DEF Inv
<1>3. NodeFits(file, m, low, lev, o) /\ nd.leaf
    BY <1>1, <1>2 DEF Tree, LeavesOf
<1>4. Stored = StoredIn(file, m) /\ Contents = ContentsIn(file, m)
    BY <1>1, ContentsAre
<1>5. PICK value : value = ValueByKey(nd, key, Absent)
    OBVIOUS
<1>6. LeafGives(nd, key, value)
  <2>1. WellMade(nd, low[o], Kids(lev[o], m, low, lev), 1 .. m)
      BY <1>1, <1>3 DEF NodeFits
  <2>2. InRange(nd, low[o], key)
      BY <1>1
  <2> QED BY <1>3, <1>5, <2>1, <2>2, ValueInLeaf
<1>7. CASE HasKey(nd, key)
  <2>1. HoldsPair(file, m, key, value)
      BY <1>1, <1>2, <1>6, <1>7 DEF HoldsPair, LeafGives
  <2>2. key \in StoredIn(file, m) /\ ContentsIn(file, m)[key] = value
      BY <1>2, <2>1, ContentsHold
  <2> QED BY <1>1, <1>4, <1>5, <2>2
<1>8. CASE ~HasKey(nd, key)
  <2>1. key \notin StoredIn(file, m)
    <3> SUFFICES ASSUME NEW x \in LeavesOf(file, m), HasKey(file[x], key)
                 PROVE  FALSE
        BY DEF StoredIn
    <3>1. x = o
        BY <1>2, OthersLack
    <3> QED BY <1>1, <1>8, <3>1
  <2> QED BY <1>1, <1>4, <1>5, <1>6, <1>8, <2>1 DEF LeafGives
<1> QED BY <1>7, <1>8

LEMMA ReadValueIs ==
    ASSUME NEW c \in Client, IInv, ReadValue(c)
    PROVE  \/ got'[c] = IF Key(c) \in Stored THEN Contents[Key(c)] ELSE Absent
           \/ file[at[c]].right # NoNode /\ file[at[c]].high = Key(c)
           \/ got'[c] = Junk /\ ReadsJunk(file[at[c]], Key(c))
<1>1. PICK low, lev \in [Nat -> Nat] : Inv(low, lev)
    BY DEF IInv
<1>2. PICK o, nd, key, m : o = at[c] /\ nd = file[o] /\ key = Key(c) /\ m = Len(file)
    OBVIOUS
<1>3. /\ pc[c] = "descend" /\ nd.leaf /\ ~(nd.right # NoNode /\ nd.high < key)
      /\ \E v \in {ValueByKey(nd, key, Absent)} \cup (IF ReadsJunk(nd, key) THEN {Junk} ELSE {}) :
             got' = [got EXCEPT ![c] = v]
    BY <1>2 DEF ReadValue, Visit, In
<1>4. o \in 1 .. m /\ key \in Nat /\ key \in Keys /\ low[o] <= key /\ Tree(file, m, low, lev)
  <2>1. pc[c] # "idle"
      BY <1>3
  <2> QED BY <1>1, <1>2, <2>1, Standing
<1>5. got'[c] = ValueByKey(nd, key, Absent) \/ (got'[c] = Junk /\ ReadsJunk(nd, key))
  <2>1. c \in DOMAIN got
      BY <1>1 DEF Inv, ClientShape
  <2> QED BY <1>3, <2>1
<1>6. CASE nd.right # NoNode /\ nd.high = key
    BY <1>2, <1>6
<1>7. CASE ~(nd.right # NoNode /\ nd.high = key)
  <2>1. nd.high \in Nat
      BY <1>2, <1>4 DEF Tree, NodeFits, WellMade, Shape
  <2>2. InRange(nd, low[o], key)
      BY <1>3, <1>4, <1>7, <2>1 DEF InRange
  <2>3. o \in LeavesOf(file, Len(file)) /\ InRange(file[o], low[o], key)
      BY <1>2, <1>3, <1>4, <2>2 DEF LeavesOf
  <2>4. ValueByKey(file[o], key, Absent) = IF key \in Stored THEN Contents[key] ELSE Absent
      BY <1>1, <1>4, <2>3, ValueByKeyIs
  <2> QED BY <1>2, <1>5, <2>4
<1> QED BY <1>6, <1>7

(* A write that finds its leaf under the lock stores its value there, but for *)
(* an update in a full leaf, which btnodeAddKeyValue drops (tree.cpp:185,     *)
(* node.c:62): however many splits it has been overtaken by on its way.       *)
THEOREM WritesTakeEffect ==
    ASSUME L <= Copied
    PROVE  Spec => WriteTakesEffect
<1>1. ASSUME IInv, IInv', NEW c \in Client, WriteLeaf(c)
      PROVE  /\ Key(c) \in Stored'
             /\ IF Full(file[at[c]]) THEN Contents' = Contents
                ELSE Contents'[Key(c)] = Op(c).value
    BY <1>1, WriteLeafContents DEF Puts
<1>2. IInv /\ IInv' =>
          [\A c \in Client : WriteLeaf(c) =>
              /\ Key(c) \in Stored'
              /\ IF Full(file[at[c]]) THEN Contents' = Contents
                 ELSE Contents'[Key(c)] = Op(c).value]_vars
    BY <1>1
<1>3. Spec => []IInv
    BY AlwaysInv
<1> QED BY <1>2, <1>3, PTL DEF WriteTakesEffect

(* A read that ends returns what is stored under its key at that moment, but  *)
(* for the two cases of tree.cpp:98 and node.c:39: at its key's high key, and *)
(* where fgoe() leads past the keys to a slot that nobody has written.        *)
THEOREM ReadsAreCurrent ==
    ASSUME L <= Copied
    PROVE  Spec => ReadsCurrent
<1>1. IInv =>
          [\A c \in Client : ReadValue(c) =>
              \/ got'[c] = IF Key(c) \in Stored THEN Contents[Key(c)] ELSE Absent
              \/ file[at[c]].right # NoNode /\ file[at[c]].high = Key(c)
              \/ got'[c] = Junk /\ ReadsJunk(file[at[c]], Key(c))]_vars
    BY ReadValueIs
<1>2. Spec => []IInv
    BY AlwaysInv
<1> QED BY <1>1, <1>2, PTL DEF ReadsCurrent

-----------------------------------------------------------------------------
(* The operations of c that are still to happen: a write happens when its     *)
(* leaf is split, and returns later.                                          *)
Left(c) == IF Applied(c) THEN Tail(script[c]) ELSE script[c]
Todo == [c \in Client |-> Left(c)]
OthersLeft(c) == \A d \in Client \ {c} : Left(d)' = Left(d)

LEMMA KeptLeft ==
    ASSUME NEW d, pc'[d] = pc[d], up'[d] = up[d], script'[d] = script[d]
    PROVE  Left(d)' = Left(d)
BY DEF Left, Applied, InSplit

LEMMA TodoKept ==
    ASSUME NEW c \in Client, OthersLeft(c), Left(c)' = Left(c)
    PROVE  Todo' = Todo
<1>1. \A d \in Client : Left(d)' = Left(d)
    BY DEF OthersLeft
<1> QED BY <1>1 DEF Todo

Happened(c) == Todo[c] = script[c] /\ Todo' = [Todo EXCEPT ![c] = Tail(Todo[c])]

LEMMA TodoHappens ==
    ASSUME NEW c \in Client, OthersLeft(c), Left(c) = script[c], Left(c)' = Tail(script[c])
    PROVE  Happened(c)
<1>1. Todo[c] = script[c]
    BY DEF Todo
<1>2. \A d \in Client : Left(d)' = IF d = c THEN Tail(script[c]) ELSE Left(d)
    BY DEF OthersLeft
<1>3. Todo' = [d \in Client |-> IF d = c THEN Tail(script[c]) ELSE Left(d)]
    BY <1>2 DEF Todo
<1>4. [Todo EXCEPT ![c] = Tail(Todo[c])]
          = [d \in Client |-> IF d = c THEN Tail(script[c]) ELSE Left(d)]
    BY <1>1 DEF Todo
<1> QED BY <1>1, <1>3, <1>4 DEF Happened

-----------------------------------------------------------------------------
(* A step of c leaves the calls of the others alone. *)
LEMMA StepOthersLeft ==
    ASSUME NEW c \in Client, ClientShape, Step(c)
    PROVE  OthersLeft(c)
<1> SUFFICES ASSUME NEW d \in Client, d # c
             PROVE  Left(d)' = Left(d)
    BY DEF OthersLeft
<1>1. DOMAIN pc = Client /\ DOMAIN up = Client /\ DOMAIN script = Client
    BY DEF ClientShape
<1>2. CASE Start(c) \/ ReadRight(c) \/ Descend(c) \/ DescendByJunk(c)
  <2>1. pc'[d] = pc[d] /\ up' = up /\ script' = script
      BY <1>1, <1>2 DEF Start, ReadRight, Descend, DescendByJunk, GoTo
  <2> QED BY <2>1, KeptLeft
<1>3. CASE FoundLeaf(c) \/ MoveRight(c) \/ NoParent(c) \/ ParentMovesRight(c) \/ ToParent(c)
  <2>1. pc'[d] = pc[d] /\ up' = up /\ script' = script
      BY <1>1, <1>3 DEF FoundLeaf, MoveRight, NoParent, ParentMovesRight, ToParent, callVars
  <2> QED BY <2>1, KeptLeft
<1>4. CASE LeafIsFull(c)
  <2>1. pc'[d] = pc[d] /\ up'[d] = up[d] /\ script' = script
      BY <1>1, <1>4 DEF LeafIsFull
  <2> QED BY <2>1, KeptLeft
<1>5. CASE Split(c)
  <2>1. PICK place, u : pc' = [pc EXCEPT ![c] = place] /\ up' = [up EXCEPT ![c] = u]
                        /\ script' = script
      BY <1>5 DEF Split, GoTo
  <2>2. pc'[d] = pc[d] /\ up'[d] = up[d] /\ script' = script
      BY <1>1, <2>1
  <2> QED BY <2>2, KeptLeft
<1>6. CASE ReadValue(c) \/ WriteLeaf(c) \/ Link(c) \/ SplitRoot(c)
  <2>1. Return(c)
      BY <1>6 DEF ReadValue, WriteLeaf, Link, SplitRoot
  <2>2. pc'[d] = pc[d] /\ up'[d] = up[d] /\ script'[d] = script[d]
      BY <1>1, <2>1 DEF Return
  <2> QED BY <2>2, KeptLeft
<1> QED BY <1>2, <1>3, <1>4, <1>5, <1>6 DEF Step

(* The steps of a call before its operation happens, and of a write after it  *)
(* has.                                                                       *)
LEMMA QuietLeft ==
    ASSUME NEW c \in Client, ClientShape,
           \/ Start(c) \/ Descend(c) \/ DescendByJunk(c) \/ ReadRight(c) \/ FoundLeaf(c)
           \/ MoveRight(c) \/ LeafIsFull(c) \/ ToParent(c) \/ NoParent(c) \/ ParentMovesRight(c)
    PROVE  Left(c)' = Left(c) /\ file' = file
<1>1. DOMAIN pc = Client /\ DOMAIN up = Client
    BY DEF ClientShape
<1>2. CASE Start(c) \/ ReadRight(c) \/ Descend(c) \/ DescendByJunk(c)
  <2>1. pc[c] \in {"idle", "descend"} /\ pc'[c] = "descend" /\ script' = script /\ file' = file
      BY <1>1, <1>2 DEF Start, ReadRight, Descend, DescendByJunk, GoTo, Visit, In
  <2> QED BY <2>1 DEF Left, Applied, InSplit
<1>3. CASE FoundLeaf(c) \/ MoveRight(c)
  <2>1. pc[c] \in {"descend", "leaf"} /\ pc'[c] = "leaf" /\ script' = script /\ file' = file
      BY <1>1, <1>3 DEF FoundLeaf, MoveRight, AtLeaf, Visit, In
  <2> QED BY <2>1 DEF Left, Applied, InSplit
<1>4. CASE LeafIsFull(c)
  <2>1. pc[c] = "leaf" /\ up'[c].node = NoNode /\ script' = script /\ file' = file
      BY <1>1, <1>4 DEF LeafIsFull, AtLeaf, In
  <2> QED BY <2>1 DEF Left, Applied, InSplit
<1>5. CASE ToParent(c) \/ NoParent(c) \/ ParentMovesRight(c)
  <2>1. pc[c] \in {"full", "parent"} /\ pc'[c] \in {"full", "parent"} /\ up' = up
        /\ script' = script /\ file' = file
      BY <1>1, <1>5 DEF ToParent, NoParent, ParentMovesRight, In, callVars
  <2> QED BY <2>1 DEF Left, Applied, InSplit
<1> QED BY <1>2, <1>3, <1>4, <1>5

(* A writer that holds a full leaf has not happened; one that holds an        *)
(* internal node has.                                                         *)
LEMMA HeldLeft ==
    ASSUME NEW c \in Client, IInv, InSplit(c)
    PROVE  /\ Left(c) = IF file[at[c]].leaf THEN script[c] ELSE Tail(script[c])
           /\ Writer(c) /\ script[c] # <<>> /\ Key(c) \in Keys
<1>1. PICK low, lev \in [Nat -> Nat] : Inv(low, lev)
    BY DEF IInv
<1>2. PICK o, nd, m : o = at[c] /\ nd = file[o] /\ m = Len(file)
    OBVIOUS
<1>3. Held(c, nd, low, lev)
    BY <1>1, <1>2, HeldRange
<1>4. script[c] # <<>> /\ Key(c) \in Keys /\ Len(file) \in Nat
  <2>1. pc[c] # "idle"
      BY DEF InSplit
  <2> QED BY <1>1, <2>1, Standing
<1>5. CASE nd.leaf
  <2>1. up[c] = [key |-> Key(c), node |-> NoNode]
      BY <1>3, <1>5 DEF Held
  <2>2. up[c].node = NoNode
      BY <2>1
  <2> QED BY <1>2, <1>3, <1>4, <1>5, <2>2 DEF Left, Applied, Held
<1>6. CASE ~nd.leaf
  <2>1. up[c].node \in 1 .. m
      BY <1>2, <1>3, <1>6 DEF Held, Adds
  <2>2. PICK y : y = up[c].node
      OBVIOUS
  <2>3. y \in Nat
    <3>1. m \in Nat
        BY <1>2, <1>4
    <3>2. y \in 1 .. m
        BY <2>1, <2>2
    <3> QED BY <3>1, <3>2
  <2>4. up[c].node # NoNode
      BY <2>2, <2>3, SentinelAssumption
  <2> QED BY <1>2, <1>3, <1>4, <1>6, <2>4 DEF Left, Applied, Held
<1> QED BY <1>5, <1>6

-----------------------------------------------------------------------------
(* What the steps of the dictionary come to.                                  *)
Kept == Todo' = Todo /\ Contents' = Contents
GetStep(c) ==
    Happened(c) /\ script[c] # <<>> /\ Op(c).op = "read" /\ Contents' = Contents
PutStep(c) == Happened(c) /\ script[c] # <<>> /\ Writer(c) /\ Puts(Key(c), Op(c).value)
DropStep(c) ==
    /\ Happened(c) /\ script[c] # <<>> /\ Writer(c)
    /\ Key(c) \in DOMAIN Contents /\ Contents' = Contents

LEMMA LeftAtEnd ==
    ASSUME NEW c \in Client, ClientShape, Return(c)
    PROVE  Left(c)' = Tail(script[c])
<1>1. DOMAIN pc = Client /\ DOMAIN script = Client
    BY DEF ClientShape
<1>2. pc'[c] = "idle" /\ script'[c] = Tail(script[c])
    BY <1>1 DEF Return
<1> QED BY <1>2 DEF Left, Applied, InSplit

LEMMA QuietKept ==
    ASSUME NEW c \in Client, ClientShape, Step(c),
           \/ Start(c) \/ Descend(c) \/ DescendByJunk(c) \/ ReadRight(c) \/ FoundLeaf(c)
           \/ MoveRight(c) \/ LeafIsFull(c) \/ ToParent(c) \/ NoParent(c) \/ ParentMovesRight(c)
    PROVE  Kept
<1>1. Left(c)' = Left(c) /\ file' = file
    BY QuietLeft
<1>2. OthersLeft(c)
    BY StepOthersLeft
<1>3. Todo' = Todo
    BY <1>1, <1>2, TodoKept
<1>4. Contents' = Contents
    BY <1>1, ContentsAre, ContentsBecome
<1> QED BY <1>3, <1>4 DEF Kept

LEMMA LinkKept ==
    ASSUME NEW c \in Client, IInv, IInv', ClientShape, Link(c)
    PROVE  Kept
<1>1. PICK low, lev \in [Nat -> Nat] : Inv(low, lev)
    BY DEF IInv
<1>2. InSplit(c) /\ pc[c] = "link" /\ Return(c)
    BY DEF Link, In, InSplit
<1>3. Held(c, file[at[c]], low, lev)
    BY <1>1, <1>2 DEF Inv, ClientFits
<1>4. ~file[at[c]].leaf
    BY <1>2, <1>3 DEF Held
<1>5. Left(c) = Tail(script[c])
    BY <1>2, <1>4, HeldLeft
<1>6. Left(c)' = Tail(script[c])
    BY <1>2, LeftAtEnd
<1>7. OthersLeft(c)
    BY StepOthersLeft DEF Step
<1>8. Todo' = Todo
    BY <1>5, <1>6, <1>7, TodoKept
<1> QED BY <1>8, LinkContents DEF Kept

(* The write of a leaf's pair happens when the leaf is split; a split of an   *)
(* internal node changes nothing.                                             *)
PutByLeaf(c) ==
    IF file[at[c]].leaf THEN Puts(Key(c), Op(c).value) ELSE Contents' = Contents

LEMMA HalvesStep ==
    ASSUME NEW c \in Client, IInv, InSplit(c), OthersLeft(c), Left(c)' = Tail(script[c]),
           PutByLeaf(c)
    PROVE  Kept \/ PutStep(c)
<1>1. PICK leaf : leaf = file[at[c]].leaf
    OBVIOUS
<1>2. Left(c) = (IF leaf THEN script[c] ELSE Tail(script[c])) /\ Writer(c) /\ script[c] # <<>>
    BY <1>1, HeldLeft
<1>3. IF leaf THEN Puts(Key(c), Op(c).value) ELSE Contents' = Contents
    BY <1>1 DEF PutByLeaf
<1>4. CASE leaf
  <2>1. Happened(c)
      BY <1>2, <1>4, TodoHappens
  <2> QED BY <1>2, <1>3, <1>4, <2>1 DEF PutStep
<1>5. CASE ~leaf
  <2>1. Todo' = Todo
      BY <1>2, <1>5, TodoKept
  <2> QED BY <1>3, <1>5, <2>1 DEF Kept
<1> QED BY <1>4, <1>5

LEMMA SplitStep ==
    ASSUME L <= Copied, NEW c \in Client, IInv, IInv', ClientShape, Split(c)
    PROVE  Kept \/ PutStep(c)
<1>1. PICK low, lev \in [Nat -> Nat] : Inv(low, lev)
    BY DEF IInv
<1>2. pc[c] = "parent" /\ InSplit(c)
    BY DEF Split, In, InSplit
<1>3. PICK s, a, b : CutInto(c, low, lev, s, a, b)
    BY <1>1, <1>2, CutsInto
<1>4. PICK r : r = Len(file) + 1
    OBVIOUS
<1>5. Splits(c, at[c], parent[c], r, a, b)
    BY <1>1, <1>3, <1>4, SplitIs
<1>6. pc'[c] \in {"full", "link"} /\ up'[c] = [key |-> a.high, node |-> r]
      /\ script'[c] = script[c]
    BY <1>5 DEF Splits
<1>7. r # NoNode
  <2>1. Len(file) \in Nat
      BY <1>1 DEF Inv, FileShape
  <2>2. r \in Nat
      BY <1>4, <2>1
  <2> QED BY <2>2, SentinelAssumption
<1>8. up'[c].node # NoNode
    BY <1>6, <1>7
<1>9. Left(c)' = Tail(script[c])
    BY <1>6, <1>8 DEF Left, Applied, InSplit
<1>10. OthersLeft(c)
    BY StepOthersLeft DEF Step
<1>11. PutByLeaf(c)
    BY SplitContents DEF PutByLeaf
<1> QED BY <1>2, <1>9, <1>10, <1>11, HalvesStep

LEMMA SplitRootStep ==
    ASSUME L <= Copied, NEW c \in Client, IInv, IInv', ClientShape, SplitRoot(c)
    PROVE  Kept \/ PutStep(c)
<1>1. InSplit(c) /\ Return(c)
    BY DEF SplitRoot, In, InSplit
<1>2. Left(c)' = Tail(script[c])
    BY <1>1, LeftAtEnd
<1>3. OthersLeft(c)
    BY StepOthersLeft DEF Step
<1>4. PutByLeaf(c)
    BY SplitRootContents DEF PutByLeaf
<1> QED BY <1>1, <1>2, <1>3, <1>4, HalvesStep

(* A call that is at a leaf it does not split returns when it happens.        *)
LEMMA EndsCall ==
    ASSUME NEW c \in Client, ClientShape, pc[c] \in {"descend", "leaf"}, Return(c), OthersLeft(c)
    PROVE  Happened(c)
<1>1. Left(c) = script[c]
    BY DEF Left, Applied, InSplit
<1>2. Left(c)' = Tail(script[c])
    BY LeftAtEnd
<1> QED BY <1>1, <1>2, TodoHappens

LEMMA WriteLeafStep ==
    ASSUME NEW c \in Client, IInv, IInv', ClientShape, WriteLeaf(c)
    PROVE  PutStep(c) \/ DropStep(c)
<1>1. PICK low, lev \in [Nat -> Nat] : Inv(low, lev)
    BY DEF IInv
<1>2. pc[c] = "leaf" /\ Return(c)
    BY DEF WriteLeaf, AtLeaf, In
<1>3. OthersLeft(c)
    BY StepOthersLeft DEF Step
<1>4. Happened(c)
    BY <1>2, <1>3, EndsCall
<1>5. Writer(c)
    BY <1>1, <1>2 DEF Inv, ClientFits
<1>6. script[c] # <<>>
  <2>1. pc[c] # "idle"
      BY <1>2
  <2> QED BY <1>1, <2>1, Standing
<1>7. CASE Full(file[at[c]])
  <2>1. Contents' = Contents /\ Key(c) \in Stored
      BY <1>7, WriteLeafContents
  <2>2. Key(c) \in DOMAIN Contents
      BY <2>1 DEF Contents
  <2> QED BY <1>4, <1>5, <1>6, <2>1, <2>2 DEF DropStep
<1>8. CASE ~Full(file[at[c]])
  <2>1. Puts(Key(c), Op(c).value)
      BY <1>8, WriteLeafContents
  <2> QED BY <1>4, <1>5, <1>6, <2>1 DEF PutStep
<1> QED BY <1>7, <1>8

LEMMA ReadValueStep ==
    ASSUME NEW c \in Client, IInv, ClientShape, ReadValue(c)
    PROVE  GetStep(c)
<1>1. PICK low, lev \in [Nat -> Nat] : Inv(low, lev)
    BY DEF IInv
<1>2. pc[c] = "descend" /\ Return(c) /\ ~Writer(c) /\ file' = file
    BY DEF ReadValue, Visit, In
<1>3. OthersLeft(c)
    BY StepOthersLeft DEF Step
<1>4. Happened(c)
    BY <1>2, <1>3, EndsCall
<1>5. script[c] # <<>>
  <2>1. pc[c] # "idle"
      BY <1>2
  <2> QED BY <1>1, <2>1, Standing
<1>6. Op(c).op = "read"
  <2>1. PICK calls : calls = script[c]
      OBVIOUS
  <2>2. calls \in Seq(Operation) /\ calls # <<>>
      BY <1>5, <2>1 DEF ClientShape
  <2>3. Head(calls) \in Operation
      BY <2>2
  <2>4. Op(c) \in Operation
      BY <2>1, <2>3 DEF Op
  <2> QED BY <1>2, <2>4 DEF Operation, Writer
<1>7. Contents' = Contents
    BY <1>2, ContentsAre, ContentsBecome
<1> QED BY <1>4, <1>5, <1>6, <1>7 DEF GetStep

LEMMA StepIs ==
    ASSUME L <= Copied, NEW c \in Client, IInv, IInv', Step(c)
    PROVE  Kept \/ GetStep(c) \/ PutStep(c) \/ DropStep(c)
<1>1. ClientShape
    BY DEF IInv, Inv
<1>2. CASE \/ Start(c) \/ Descend(c) \/ DescendByJunk(c) \/ ReadRight(c) \/ FoundLeaf(c)
           \/ MoveRight(c) \/ LeafIsFull(c) \/ ToParent(c) \/ NoParent(c) \/ ParentMovesRight(c)
    BY <1>1, <1>2, QuietKept
<1>3. CASE Link(c)
    BY <1>1, <1>3, LinkKept
<1>4. CASE Split(c)
    BY <1>1, <1>4, SplitStep
<1>5. CASE SplitRoot(c)
    BY <1>1, <1>5, SplitRootStep
<1>6. CASE WriteLeaf(c)
    BY <1>1, <1>6, WriteLeafStep
<1>7. CASE ReadValue(c)
    BY <1>1, <1>7, ReadValueStep
<1> QED BY <1>2, <1>3, <1>4, <1>5, <1>6, <1>7 DEF Step

-----------------------------------------------------------------------------
(* The steps of the dictionary under the refinement mapping.                  *)
LEMMA GetIs ==
    ASSUME NEW c \in Client, GetStep(c)
    PROVE  Abstract!Get(c)
<1>1. Todo[c] # <<>> /\ Head(Todo[c]).op = "read" /\ Todo' = [Todo EXCEPT ![c] = Tail(Todo[c])]
      /\ Contents' = Contents
    BY DEF GetStep, Happened, Op
<1> QED BY <1>1 DEF Todo, Left, Abstract!Get, Abstract!Happens

LEMMA PutIs ==
    ASSUME NEW c \in Client, PutStep(c)
    PROVE  Abstract!Put(c)
<1>1. Todo[c] # <<>> /\ Head(Todo[c]).op = "write" /\ Todo' = [Todo EXCEPT ![c] = Tail(Todo[c])]
    BY DEF PutStep, Happened, Op, Writer
<1>2. Contents' = [k \in DOMAIN Contents \cup {Head(Todo[c]).key} |->
                      IF k = Head(Todo[c]).key THEN Head(Todo[c]).value ELSE Contents[k]]
    BY DEF PutStep, Happened, Puts, Op, Key
<1> QED BY <1>1, <1>2 DEF Todo, Left, Abstract!Put, Abstract!Happens

LEMMA DropIs ==
    ASSUME NEW c \in Client, DropStep(c)
    PROVE  Abstract!Drop(c)
<1>1. Todo[c] # <<>> /\ Head(Todo[c]).op = "write" /\ Todo' = [Todo EXCEPT ![c] = Tail(Todo[c])]
      /\ Contents' = Contents /\ Head(Todo[c]).key \in DOMAIN Contents
    BY DEF DropStep, Happened, Op, Writer, Key
<1> QED BY <1>1 DEF Todo, Left, Abstract!Drop, Abstract!Happens

LEMMA DictionarySteps ==
    ASSUME L <= Copied, IInv, IInv', [Next]_vars
    PROVE  Abstract!Next \/ Kept
<1>1. ASSUME NEW c \in Client, Step(c)
      PROVE  Abstract!Next \/ Kept
  <2>1. Kept \/ GetStep(c) \/ PutStep(c) \/ DropStep(c)
      BY <1>1, StepIs
  <2>2. Kept \/ Abstract!Get(c) \/ Abstract!Put(c) \/ Abstract!Drop(c)
      BY <2>1, GetIs, PutIs, DropIs
  <2> QED BY <2>2 DEF Abstract!Next
<1>2. CASE UNCHANGED vars
  <2>1. file' = file /\ pc' = pc /\ up' = up /\ script' = script
      BY <1>2 DEF vars, callVars
  <2>2. Contents' = Contents
      BY <2>1, ContentsAre, ContentsBecome
  <2>3. Todo' = Todo
      BY <2>1 DEF Todo, Left, Applied, InSplit
  <2> QED BY <2>2, <2>3 DEF Kept
<1> QED BY <1>1, <1>2 DEF Next

(* The tree is a dictionary: whatever its clients do at the same time, a      *)
(* write takes effect at one moment between its call and its return, when its *)
(* leaf is written or split, a read at its end, the operations of one client  *)
(* in their order; the further steps of write(), that split internal nodes    *)
(* and link the halves to their parents (tree.cpp:203-299), change nothing of *)
(* what is stored.                                                            *)
THEOREM TreeIsDictionary ==
    ASSUME L <= Copied
    PROVE  Spec => ImplementsDictionary
<1>1. ASSUME IInv, IInv', [Next]_vars
      PROVE  [Abstract!Next]_<<Contents, [c \in Client |-> IF Applied(c) THEN Tail(script[c])
                                                          ELSE script[c]]>>
    BY <1>1, DictionarySteps DEF Kept, Todo, Left
<1>2. Spec => []IInv
    BY AlwaysInv
<1> QED BY <1>1, <1>2, PTL DEF Spec, ImplementsDictionary, Abstract!Spec
=============================================================================
