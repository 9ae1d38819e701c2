------------------------ MODULE LockFreeStackProofs ------------------------
(* Proofs about LockFreeStack, for any threads, addresses, values and number  *)
(* of pushes.                                                                 *)
(*                                                                            *)
(* Every exchange that succeeds raises the tag, so a head that still has the  *)
(* tag a thread loaded is the head it loaded, and the node under it has been  *)
(* on the stack all along: the next pointer read from it is the one it has.   *)
(* That is what the tag is for, and what makes the list in the heap the chain *)
(* of the nodes pushed and not popped.                                        *)
EXTENDS LockFreeStack, TLAPS

(* A thread between its load of the head and the exchange of it. *)
Loaded(t) == pc[t] \in {"pushCAS", "next", "popCAS"}

TagsFresh ==
    \A t \in Thread : Loaded(t) =>
        /\ old[t].tag <= head.tag
        /\ old[t].tag = head.tag => old[t] = head

PushLinked ==
    \A t \in Thread :
        pc[t] = "pushCAS" => new[t] \in Address /\ next[new[t]] = old[t].ptr

PopRead ==
    \A t \in Thread :
        /\ pc[t] \in {"next", "popCAS"} => old[t].ptr \in Address
        /\ pc[t] = "popCAS" /\ old[t] = head => new[t] = next[head.ptr]

DataSet == \A a \in live : data[a] \in Datum

ResultsTaken == \A t \in Thread : pc[t] # "return" => result[t] = Nothing

WhoDoesWhat ==
    \A t \in Thread :
        /\ pc[t] \in {"pushLoad", "pushCAS"} => t \in Writer /\ new[t] \in live
        /\ pc[t] = "take" => old[t].ptr \in live

ThreadInv == TagsFresh /\ PushLinked /\ PopRead /\ ResultsTaken /\ WhoDoesWhat
Inv == TypeOK /\ ListIsChain /\ NodesAccounted /\ DataSet /\ ThreadInv

-----------------------------------------------------------------------------
LEMMA InvInit == Init => Inv
<1> SUFFICES ASSUME Init
             PROVE  Inv
  OBVIOUS
<1>1. TypeOK
  BY ValueAssumption DEF Init, TypeOK, TaggedPointer, Pointer, Places
<1>2. ListIsChain
  BY DEF Init, ListIsChain
<1>3. NodesAccounted
  BY DEF Init, NodesAccounted, Owned
<1>4. DataSet /\ ThreadInv
  BY DEF Init, DataSet, ThreadInv, TagsFresh, PushLinked, PopRead, ResultsTaken,
         WhoDoesWhat, Loaded
<1> QED
  BY <1>1, <1>2, <1>3, <1>4 DEF Inv

(* A head with the address on top of the chain is not null. *)
LEMMA HeadOnChain ==
    ASSUME TypeOK, ListIsChain
    PROVE  /\ head.ptr # Null <=> chain # <<>>
           /\ chain # <<>> => head.ptr = chain[1] /\ chain[1] \in live
  BY NullAssumption DEF TypeOK, ListIsChain

-----------------------------------------------------------------------------
(* Every variable of a reachable state has its type. *)
LEMMA TypeStep ==
    ASSUME Inv, [Next]_vars
    PROVE  TypeOK'
<1> USE DEF TypeOK, Places, GoTo
<1>0. TypeOK
  BY DEF Inv
<1>1. CASE UNCHANGED vars
  BY <1>0, <1>1 DEF vars, heap
<1>2. ASSUME NEW t \in Thread, NEW v \in Datum, NewNode(t, v)
      PROVE  TypeOK'
  BY <1>0, <1>2 DEF NewNode, Available, Pointer
<1>3. ASSUME NEW t \in Thread, PushLoad(t)
      PROVE  TypeOK'
  BY <1>0, <1>3 DEF PushLoad, Pointer, TaggedPointer
<1>4. ASSUME NEW t \in Thread, PushCAS(t)
      PROVE  TypeOK'
  <2>1. new[t] \in Address /\ t \in Writer
    BY <1>4 DEF Inv, ThreadInv, PushLinked, WhoDoesWhat, PushCAS
  <2>2. NewHead(new[t], t) \in TaggedPointer
    BY <1>0 DEF NewHead, TaggedPointer
  <2>3. <<new[t]>> \o chain \in Seq(Address)
    BY <1>0, <2>1
  <2>4. CASE head = old[t] /\ chain' = <<new[t]>> \o chain
    <3>1. head' = NewHead(new[t], t) /\ pushed' = [pushed EXCEPT ![t] = @ + 1]
          /\ pc' = [pc EXCEPT ![t] = "idle"] /\ UNCHANGED <<next, old, data, live, new, result>>
      BY <1>4, <2>4 DEF PushCAS
    <3>2. pushed' \in [Writer -> Nat] /\ pc' \in [Thread -> Places]
      BY <1>0, <2>1, <3>1
    <3> QED
      BY <1>0, <2>2, <2>3, <2>4, <3>1, <3>2
  <2>5. CASE head # old[t]
    <3>1. head.ptr \in Pointer
      BY <1>0 DEF TaggedPointer
    <3>2. /\ old' = [old EXCEPT ![t] = head]
          /\ next' = [next EXCEPT ![new[t]] = head.ptr]
          /\ UNCHANGED <<head, chain, pushed, pc, data, live, new, result>>
      BY <1>4, <2>5 DEF PushCAS
    <3>3. old' \in [Thread -> TaggedPointer] /\ next' \in [Address -> Pointer]
      BY <1>0, <3>1, <3>2
    <3> QED
      BY <1>0, <3>2, <3>3
  <2> QED
    BY <1>4, <2>4, <2>5 DEF PushCAS
<1>5. ASSUME NEW t \in Thread, IsEmpty(t) \/ WriterEnds(t) \/ Destroy(t)
      PROVE  TypeOK'
  BY <1>0, <1>5 DEF IsEmpty, WriterEnds, Destroy, heap
<1>6. ASSUME NEW t \in Thread, PopLoad(t)
      PROVE  TypeOK'
  BY <1>0, <1>6, ValueAssumption DEF PopLoad, PopLoaded, heap
<1>7. ASSUME NEW t \in Thread, ReadNext(t)
      PROVE  TypeOK'
  <2>1. PICK p \in IF old[t].ptr \in live THEN {next[old[t].ptr]} ELSE Pointer :
            new' = [new EXCEPT ![t] = p]
    BY <1>7 DEF ReadNext
  <2>2. p \in Pointer
    BY <1>0, <2>1
  <2> QED
    BY <1>0, <1>7, <2>1, <2>2 DEF ReadNext, heap
<1>8. ASSUME NEW t \in Thread, PopCAS(t)
      PROVE  TypeOK'
  <2>1. NewHead(new[t], t) \in TaggedPointer
    BY <1>0 DEF NewHead, TaggedPointer
  <2>2. CASE head = old[t] /\ chain' = Tail(chain)
    <3>1. chain # <<>>
      BY <1>0, <1>8, <2>2, HeadOnChain, NullAssumption
         DEF Inv, ThreadInv, PopRead, PopCAS
    <3>2. Tail(chain) \in Seq(Address)
      BY <1>0, <3>1
    <3> QED
      BY <1>0, <1>8, <2>1, <2>2, <3>2 DEF PopCAS, heap
  <2>3. CASE head # old[t]
    BY <1>0, <1>8, <2>3, ValueAssumption DEF PopCAS, PopLoaded, heap
  <2> QED
    BY <1>8, <2>2, <2>3 DEF PopCAS
<1>9. ASSUME NEW t \in Thread, SpuriousFailure(t)
      PROVE  TypeOK'
  BY <1>0, <1>9 DEF SpuriousFailure, heap
<1>10. ASSUME NEW t \in Thread, Take(t)
       PROVE  TypeOK'
  <2>1. data[old[t].ptr] \in Datum
    BY <1>10 DEF Inv, ThreadInv, WhoDoesWhat, DataSet, Take
  <2> QED
    BY <1>0, <1>10, <2>1 DEF Take
<1>11. ASSUME NEW t \in Thread, Return(t)
       PROVE  TypeOK'
  BY <1>0, <1>11 DEF Return, heap
<1> QED
  BY <1>1, <1>2, <1>3, <1>4, <1>5, <1>6, <1>7, <1>8, <1>9, <1>10, <1>11
     DEF Next, Step, Ended

-----------------------------------------------------------------------------
(* The heap and the chain.  A node that one thread has to itself is off the   *)
(* chain: filling it, linking it and deleting it leave the list alone.        *)
HeapInv == ListIsChain /\ NodesAccounted /\ DataSet

(* Most steps touch neither the list nor the ownership of any node. *)
LEMMA HeapUntouched ==
    ASSUME Inv, UNCHANGED <<head, chain, next, data, live>>,
           \A t \in Thread : Owned(t)' = Owned(t)
    PROVE  HeapInv'
<1>1. ListIsChain'
  BY DEF Inv, ListIsChain
<1>2. NodesAccounted'
  BY DEF Inv, NodesAccounted
<1>3. DataSet'
  BY DEF Inv, DataSet
<1> QED
  BY <1>1, <1>2, <1>3 DEF HeapInv

LEMMA NewNodeHeap ==
    ASSUME Inv, NEW t \in Thread, NEW v \in Datum, NewNode(t, v)
    PROVE  HeapInv'
<1>1. PICK a \in Address \ live :
        /\ new' = [new EXCEPT ![t] = a]
        /\ live' = live \cup {a}
        /\ data' = [data EXCEPT ![a] = v]
        /\ next' = [next EXCEPT ![a] = Null]
  BY DEF NewNode, Available
<1>2. /\ pc[t] = "idle" /\ pc' = [pc EXCEPT ![t] = "pushLoad"]
      /\ UNCHANGED <<head, old, chain>> /\ TypeOK
  BY DEF NewNode, GoTo, Inv
<1>3. Owned(t) = {} /\ Owned(t)' = {a}
  BY <1>1, <1>2 DEF Owned, TypeOK
<1>4. \A u \in Thread : u # t => Owned(u)' = Owned(u)
  BY <1>1, <1>2 DEF Owned, TypeOK
<1>5. \A u \in Thread : a \notin Owned(u)
  BY <1>1 DEF Inv, NodesAccounted
<1>6. \A i \in 1 .. Len(chain) : chain[i] \in live /\ chain[i] # a
  BY <1>1 DEF Inv, ListIsChain
<1>7. ListIsChain'
  BY <1>1, <1>2, <1>6 DEF Inv, ListIsChain, TypeOK
<1>8. NodesAccounted'
  <2>1. \A b \in Address : (\E u \in Thread : b \in Owned(u)')
                            <=> (\E u \in Thread : b \in Owned(u)) \/ b = a
    BY <1>3, <1>4
  <2> QED
    BY <1>1, <1>2, <1>3, <1>4, <1>5, <1>6, <2>1 DEF Inv, NodesAccounted
<1>9. DataSet'
  BY <1>1, <1>2 DEF Inv, DataSet, TypeOK
<1> QED
  BY <1>7, <1>8, <1>9 DEF HeapInv

(* A thread that sets the next field of the node it is pushing. *)
LEMMA LinkHeap ==
    ASSUME Inv, NEW t \in Thread, pc[t] \in {"pushLoad", "pushCAS"},
           NEW p, next' = [next EXCEPT ![new[t]] = p],
           UNCHANGED <<head, chain, data, live>>,
           \A u \in Thread : Owned(u)' = Owned(u)
    PROVE  HeapInv'
<1>1. new[t] \in Owned(t)
  BY DEF Owned
<1>2. \A i \in 1 .. Len(chain) : chain[i] # new[t] /\ chain[i] \in Address
  BY <1>1 DEF Inv, NodesAccounted, TypeOK
<1>3. \A i \in 1 .. Len(chain) : next'[chain[i]] = next[chain[i]]
  BY <1>2 DEF Inv, TypeOK
<1>4. ListIsChain'
  BY <1>3 DEF Inv, ListIsChain
<1>5. NodesAccounted'
  BY DEF Inv, NodesAccounted
<1>6. DataSet'
  BY DEF Inv, DataSet
<1> QED
  BY <1>4, <1>5, <1>6 DEF HeapInv

LEMMA PushHeap ==
    ASSUME Inv, NEW t \in Thread, PushCAS(t), head = old[t]
    PROVE  HeapInv'
<1> DEFINE n == Len(chain)
           a == new[t]
<1>1. /\ head' = NewHead(a, t) /\ chain' = <<a>> \o chain
      /\ pc[t] = "pushCAS" /\ pc' = [pc EXCEPT ![t] = "idle"]
      /\ UNCHANGED <<next, data, live, old, new>>
  BY DEF PushCAS, GoTo
<1>2. a \in Address /\ a \in live /\ next[a] = head.ptr
  BY <1>1 DEF Inv, ThreadInv, PushLinked, WhoDoesWhat
<1>3. chain \in Seq(Address) /\ n \in Nat /\ chain \in [1 .. n -> Address]
  BY DEF Inv, TypeOK
<1>4. /\ Len(chain') = n + 1
      /\ chain'[1] = a
      /\ \A i \in 2 .. n + 1 : chain'[i] = chain[i - 1]
  BY <1>1, <1>2, <1>3
<1>5. Owned(t) = {a} /\ Owned(t)' = {}
  BY <1>1 DEF Owned, Inv, TypeOK
<1>6. \A u \in Thread : u # t => Owned(u)' = Owned(u)
  BY <1>1 DEF Owned, Inv, TypeOK
<1>7. \A i \in 1 .. n : chain[i] # a
  BY <1>5 DEF Inv, NodesAccounted
<1>8. ListIsChain'
  <2>1. head'.ptr = a
    BY <1>1 DEF NewHead
  <2>2. chain'[1] \in live /\ next[chain'[1]] = IF n = 0 THEN Null ELSE chain'[2]
    <3>1. CASE n = 0
      BY <1>2, <1>3, <1>4, <3>1 DEF Inv, ListIsChain
    <3>2. CASE n > 0
      <4>1. chain # <<>> /\ chain'[2] = chain[1]
        BY <1>3, <1>4, <3>2
      <4> QED
        BY <1>2, <1>4, <3>2, <4>1 DEF Inv, ListIsChain
    <3> QED
      BY <1>3, <3>1, <3>2
  <2>3. \A i \in 2 .. n + 1 :
          /\ chain'[i] \in live
          /\ next[chain'[i]] = IF i = n + 1 THEN Null ELSE chain'[i + 1]
    <3>1. ASSUME NEW i \in 2 .. n + 1
          PROVE  /\ chain'[i] \in live
                 /\ next[chain'[i]] = IF i = n + 1 THEN Null ELSE chain'[i + 1]
      <4>1. i - 1 \in 1 .. n /\ chain'[i] = chain[i - 1] /\ (i = n + 1 <=> i - 1 = n)
        BY <1>3, <1>4
      <4>2. i # n + 1 => chain'[i + 1] = chain[i - 1 + 1]
        BY <1>3, <1>4
      <4> QED
        BY <4>1, <4>2 DEF Inv, ListIsChain
    <3> QED
      BY <3>1
  <2>4. \A i, j \in 1 .. n + 1 : chain'[i] = chain'[j] => i = j
    <3>1. ASSUME NEW i \in 1 .. n + 1, NEW j \in 1 .. n + 1, chain'[i] = chain'[j]
          PROVE  i = j
      <4>1. CASE i = 1 \/ j = 1
        BY <1>3, <1>4, <1>7, <3>1, <4>1
      <4>2. CASE i # 1 /\ j # 1
        <5>1. i - 1 \in 1 .. n /\ j - 1 \in 1 .. n /\ i \in 2 .. n + 1 /\ j \in 2 .. n + 1
          BY <1>3, <4>2
        <5>2. i - 1 = j - 1
          BY <1>4, <3>1, <5>1 DEF Inv, ListIsChain
        <5> QED
          BY <1>3, <5>2
      <4> QED
        BY <4>1, <4>2
    <3> QED
      BY <3>1
  <2> QED
    BY <1>1, <1>3, <1>4, <2>1, <2>2, <2>3, <2>4 DEF ListIsChain
<1>9. NodesAccounted'
  <2>1. \A b \in Address : (\E i \in 1 .. n + 1 : chain'[i] = b)
                            <=> (\E i \in 1 .. n : chain[i] = b) \/ b = a
    <3>1. \A i \in 1 .. n : i + 1 \in 2 .. n + 1 /\ chain'[i + 1] = chain[i]
      BY <1>3, <1>4
    <3>2. \A i \in 1 .. n + 1 : i = 1 \/ (i \in 2 .. n + 1 /\ i - 1 \in 1 .. n)
      BY <1>3
    <3>3. 1 \in 1 .. n + 1 /\ \A i \in 2 .. n + 1 : i \in 1 .. n + 1
      BY <1>3
    <3>4. chain'[1] = a /\ \A i \in 2 .. n + 1 : chain'[i] = chain[i - 1]
      BY <1>4
    <3>5. ASSUME NEW b \in Address, NEW i \in 1 .. n + 1, chain'[i] = b
          PROVE  (\E j \in 1 .. n : chain[j] = b) \/ b = a
      BY <3>2, <3>4, <3>5
    <3>6. ASSUME NEW b \in Address, NEW j \in 1 .. n, chain[j] = b
          PROVE  \E i \in 1 .. n + 1 : chain'[i] = b
      BY <3>1, <3>3, <3>6
    <3> QED
      BY <3>3, <3>4, <3>5, <3>6
  <2>2. \A b \in Address : (\E u \in Thread : b \in Owned(u)')
                            <=> (\E u \in Thread : b \in Owned(u)) /\ b # a
    BY <1>5, <1>6 DEF Inv, NodesAccounted
  <2>3. \A u \in Thread, i \in 1 .. n + 1 : chain'[i] \notin Owned(u)'
    <3>1. \A u \in Thread : a \notin Owned(u)'
      BY <1>5, <1>6 DEF Inv, NodesAccounted
    <3>2. \A u \in Thread, i \in 1 .. n : chain[i] \notin Owned(u)'
      BY <1>5, <1>6 DEF Inv, NodesAccounted
    <3>3. \A i \in 1 .. n + 1 : i = 1 \/ (i \in 2 .. n + 1 /\ i - 1 \in 1 .. n)
      BY <1>3
    <3> QED
      BY <1>4, <3>1, <3>2, <3>3
  <2>4. \A b \in Address :
          b \in live <=> \/ \E i \in 1 .. n + 1 : chain'[i] = b
                        \/ \E u \in Thread : b \in Owned(u)'
    BY <1>2, <2>1, <2>2 DEF Inv, NodesAccounted
  <2>5. /\ \A u \in Thread : Owned(u)' \subseteq Address
        /\ \A u, w \in Thread : u # w => Owned(u)' \cap Owned(w)' = {}
    BY <1>5, <1>6 DEF Inv, NodesAccounted
  <2> QED
    BY <1>1, <1>4, <2>3, <2>4, <2>5 DEF NodesAccounted
<1>10. DataSet'
  BY <1>1 DEF Inv, DataSet
<1> QED
  BY <1>8, <1>9, <1>10 DEF HeapInv

(* The exchange of a pop: the tag says that the node is still the one read.   *)
LEMMA PopUnlinksTop ==
    ASSUME Inv, NEW t \in Thread, PopCAS(t), head = old[t]
    PROVE  /\ chain # <<>> /\ old[t].ptr = chain[1] /\ chain[1] \in live
           /\ new[t] = next[chain[1]]
           /\ head' = NewHead(new[t], t) /\ chain' = Tail(chain)
           /\ pc[t] = "popCAS" /\ pc' = [pc EXCEPT ![t] = "take"]
           /\ UNCHANGED <<next, data, live, old, new, result>>
<1>1. /\ head' = NewHead(new[t], t) /\ chain' = Tail(chain)
      /\ pc[t] = "popCAS" /\ pc' = [pc EXCEPT ![t] = "take"]
      /\ UNCHANGED <<next, data, live, old, new, result>>
  BY DEF PopCAS, GoTo, heap
<1>2. old[t].ptr \in Address /\ new[t] = next[head.ptr]
  BY <1>1 DEF Inv, ThreadInv, PopRead
<1>3. chain # <<>> /\ head.ptr = chain[1] /\ chain[1] \in live
  BY <1>2, HeadOnChain, NullAssumption DEF Inv
<1> QED
  BY <1>1, <1>2, <1>3

LEMMA PopHeap ==
    ASSUME Inv, NEW t \in Thread, PopCAS(t), head = old[t]
    PROVE  HeapInv'
<1> DEFINE n == Len(chain)
           a == chain[1]
<1>1. /\ chain # <<>> /\ old[t].ptr = a /\ new[t] = next[a]
      /\ head' = NewHead(new[t], t) /\ chain' = Tail(chain)
      /\ pc[t] = "popCAS" /\ pc' = [pc EXCEPT ![t] = "take"]
      /\ UNCHANGED <<next, data, live, old, new>>
  BY PopUnlinksTop
<1>2. chain \in Seq(Address) /\ n \in Nat /\ n > 0 /\ chain \in [1 .. n -> Address]
  BY <1>1 DEF Inv, TypeOK
<1>3. /\ Len(chain') = n - 1
      /\ \A i \in 1 .. n - 1 : chain'[i] = chain[i + 1]
  BY <1>1, <1>2
<1>4. Owned(t) = {} /\ Owned(t)' = {a}
  BY <1>1 DEF Owned, Inv, TypeOK
<1>5. \A u \in Thread : u # t => Owned(u)' = Owned(u)
  BY <1>1 DEF Owned, Inv, TypeOK
<1>6. /\ \A i \in 1 .. n - 1 : i + 1 \in 1 .. n /\ chain[i + 1] # a
      /\ \A u \in Thread : a \notin Owned(u)
  <2>1. 1 \in 1 .. n /\ \A i \in 1 .. n - 1 : i + 1 \in 1 .. n /\ i + 1 # 1
    BY <1>2
  <2> QED
    BY <2>1 DEF Inv, ListIsChain, NodesAccounted
<1>7. ListIsChain'
  <2>1. head'.ptr = IF n = 1 THEN Null ELSE chain[2]
    <3>1. 1 \in 1 .. n /\ 1 + 1 = 2 /\ (1 = n <=> n = 1)
      BY <1>2
    <3>2. next[chain[1]] = IF 1 = n THEN Null ELSE chain[1 + 1]
      BY <3>1 DEF Inv, ListIsChain
    <3> QED
      BY <1>1, <3>1, <3>2 DEF NewHead
  <2>2. ASSUME NEW i \in 1 .. n - 1
        PROVE  /\ chain'[i] \in live
               /\ next[chain'[i]] = IF i = n - 1 THEN Null ELSE chain'[i + 1]
    <3>1. i + 1 \in 1 .. n /\ (i = n - 1 <=> i + 1 = n)
      BY <1>2
    <3>2. i # n - 1 => chain'[i + 1] = chain[i + 1 + 1]
      <4>0. n \in Nat /\ i \in Nat /\ 1 <= i /\ i <= n - 1
        BY <1>2
      <4>1. i # n - 1 => i + 1 \in 1 .. n - 1
        BY <4>0
      <4> QED
        BY <1>3, <4>1
    <3> QED
      BY <1>3, <3>1, <3>2 DEF Inv, ListIsChain
  <2>3. \A i, j \in 1 .. n - 1 : chain'[i] = chain'[j] => i = j
    <3>1. ASSUME NEW i \in 1 .. n - 1, NEW j \in 1 .. n - 1, chain'[i] = chain'[j]
          PROVE  i = j
      <4>1. i + 1 = j + 1
        BY <1>3, <1>6, <3>1 DEF Inv, ListIsChain
      <4> QED
        BY <1>2, <4>1
    <3> QED
      BY <3>1
  <2>4. /\ chain' = <<>> <=> n = 1
        /\ n # 1 => chain'[1] = chain[2]
    BY <1>1, <1>2, <1>3
  <2>5. head'.ptr = IF chain' = <<>> THEN Null ELSE chain'[1]
    BY <2>1, <2>4
  <2>6. \A i \in 1 .. Len(chain') :
          /\ chain'[i] \in live'
          /\ next'[chain'[i]] = IF i = Len(chain') THEN Null ELSE chain'[i + 1]
    BY <1>1, <1>3, <2>2
  <2>7. \A i, j \in 1 .. Len(chain') : chain'[i] = chain'[j] => i = j
    BY <1>3, <2>3
  <2> QED
    BY <2>5, <2>6, <2>7 DEF ListIsChain
<1>8. NodesAccounted'
  <2>1. \A b \in Address : (\E i \in 1 .. n - 1 : chain'[i] = b)
                            <=> (\E i \in 1 .. n : chain[i] = b) /\ b # a
    <3>1. \A i \in 1 .. n : i = 1 \/ (i - 1 \in 1 .. n - 1 /\ i - 1 + 1 = i)
      BY <1>2
    <3>2. ASSUME NEW i \in 1 .. n, chain[i] # a
          PROVE  \E j \in 1 .. n - 1 : chain'[j] = chain[i]
      <4>1. i - 1 \in 1 .. n - 1 /\ i - 1 + 1 = i
        BY <3>1, <3>2
      <4>2. chain'[i - 1] = chain[i]
        BY <1>3, <4>1
      <4> QED
        BY <4>1, <4>2
    <3>3. \A j \in 1 .. n - 1 : chain'[j] # a /\ \E i \in 1 .. n : chain[i] = chain'[j]
      BY <1>3, <1>6
    <3>4. ASSUME NEW b \in Address, NEW i \in 1 .. n, chain[i] = b, b # a
          PROVE  \E j \in 1 .. n - 1 : chain'[j] = b
      BY <3>2, <3>4
    <3>5. ASSUME NEW b \in Address, NEW j \in 1 .. n - 1, chain'[j] = b
          PROVE  (\E i \in 1 .. n : chain[i] = b) /\ b # a
      BY <3>3, <3>5
    <3> QED
      BY <3>4, <3>5
  <2>2. \A b \in Address : (\E u \in Thread : b \in Owned(u)')
                            <=> (\E u \in Thread : b \in Owned(u)) \/ b = a
    BY <1>4, <1>5
  <2>3. ASSUME NEW u \in Thread, NEW i \in 1 .. n - 1
        PROVE  chain'[i] \notin Owned(u)'
    <3>1. chain'[i] = chain[i + 1] /\ i + 1 \in 1 .. n /\ chain[i + 1] # a
      BY <1>3, <1>6
    <3>2. chain[i + 1] \notin Owned(u)
      BY <3>1 DEF Inv, NodesAccounted
    <3> QED
      BY <1>4, <1>5, <3>1, <3>2
  <2>4. \A b \in Address :
          b \in live <=> \/ \E i \in 1 .. n - 1 : chain'[i] = b
                        \/ \E u \in Thread : b \in Owned(u)'
    <3>1. a \in live
      BY PopUnlinksTop
    <3> QED
      BY <2>1, <2>2, <3>1 DEF Inv, NodesAccounted
  <2>5. /\ \A u \in Thread : Owned(u)' \subseteq Address
        /\ \A u, w \in Thread : u # w => Owned(u)' \cap Owned(w)' = {}
    BY <1>2, <1>4, <1>5, <1>6 DEF Inv, NodesAccounted
  <2> QED
    BY <1>1, <1>3, <2>3, <2>4, <2>5 DEF NodesAccounted
<1>9. DataSet'
  BY <1>1 DEF Inv, DataSet
<1> QED
  BY <1>7, <1>8, <1>9 DEF HeapInv

LEMMA TakeHeap ==
    ASSUME Inv, NEW t \in Thread, Take(t)
    PROVE  HeapInv'
<1> DEFINE a == old[t].ptr
<1>1. /\ pc[t] = "take" /\ pc' = [pc EXCEPT ![t] = "return"]
      /\ live' = live \ {a} /\ UNCHANGED <<head, next, data, old, new, chain>>
  BY DEF Take, GoTo
<1>2. Owned(t) = {a} /\ Owned(t)' = {}
  BY <1>1 DEF Owned, Inv, TypeOK
<1>3. \A u \in Thread : u # t => Owned(u)' = Owned(u)
  BY <1>1 DEF Owned, Inv, TypeOK
<1>4. \A i \in 1 .. Len(chain) : chain[i] # a
  BY <1>2 DEF Inv, NodesAccounted
<1>5. \A u \in Thread : u # t => a \notin Owned(u)
  BY <1>2 DEF Inv, NodesAccounted
<1>6. ListIsChain'
  BY <1>1, <1>4 DEF Inv, ListIsChain
<1>7. NodesAccounted'
  <2>1. \A b \in Address :
          b \in live' <=> \/ \E i \in 1 .. Len(chain) : chain[i] = b
                         \/ \E u \in Thread : b \in Owned(u)'
    BY <1>1, <1>2, <1>3, <1>4, <1>5 DEF Inv, NodesAccounted
  <2>2. /\ \A u \in Thread : Owned(u)' \subseteq Address
        /\ \A u, w \in Thread : u # w => Owned(u)' \cap Owned(w)' = {}
        /\ \A u \in Thread, i \in 1 .. Len(chain) : chain[i] \notin Owned(u)'
    BY <1>2, <1>3 DEF Inv, NodesAccounted
  <2> QED
    BY <1>1, <2>1, <2>2 DEF NodesAccounted
<1>8. DataSet'
  BY <1>1 DEF Inv, DataSet
<1> QED
  BY <1>6, <1>7, <1>8 DEF HeapInv

LEMMA HeapStep ==
    ASSUME Inv, [Next]_vars
    PROVE  HeapInv'
<1> USE DEF GoTo
<1>0. TypeOK
  BY DEF Inv
<1>1. CASE UNCHANGED vars
  <2>1. \A u \in Thread : Owned(u)' = Owned(u)
    BY <1>1 DEF vars, Owned
  <2> QED
    BY <1>1, <2>1, HeapUntouched DEF vars, heap
<1>2. ASSUME NEW t \in Thread, PushLoad(t)
      PROVE  HeapInv'
  <2>1. \A u \in Thread : Owned(u)' = Owned(u)
    <3>1. pc[t] = "pushLoad" /\ pc' = [pc EXCEPT ![t] = "pushCAS"]
          /\ new' = new /\ old' = [old EXCEPT ![t] = head]
      BY <1>2 DEF PushLoad
    <3>2. Owned(t)' = Owned(t)
      BY <1>0, <3>1 DEF Owned, TypeOK
    <3>3. \A u \in Thread : u # t => pc'[u] = pc[u] /\ old'[u] = old[u]
      BY <1>0, <3>1 DEF TypeOK
    <3>4. \A u \in Thread : u # t => Owned(u)' = Owned(u)
      BY <3>1, <3>3 DEF Owned
    <3> QED
      BY <3>2, <3>4
  <2> QED
    BY <1>2, <2>1, LinkHeap DEF PushLoad
<1>3. ASSUME NEW t \in Thread, PushCAS(t)
      PROVE  HeapInv'
  <2>1. CASE head # old[t]
    <3>1. \A u \in Thread : Owned(u)' = Owned(u)
      BY <1>0, <1>3, <2>1 DEF PushCAS, Owned, TypeOK
    <3> QED
      BY <1>3, <2>1, <3>1, LinkHeap DEF PushCAS
  <2> QED
    BY <1>3, <2>1, PushHeap
<1>4. ASSUME NEW t \in Thread, IsEmpty(t) \/ WriterEnds(t) \/ Destroy(t)
      PROVE  HeapInv'
  <2>1. \A u \in Thread : Owned(u)' = Owned(u)
    BY <1>0, <1>4 DEF IsEmpty, WriterEnds, Destroy, Owned, TypeOK
  <2> QED
    BY <1>4, <2>1, HeapUntouched DEF IsEmpty, WriterEnds, Destroy, heap
<1>5. ASSUME NEW t \in Thread, PopLoad(t)
      PROVE  HeapInv'
  <2>1. \A u \in Thread : Owned(u)' = Owned(u)
    BY <1>0, <1>5 DEF PopLoad, PopLoaded, Owned, TypeOK
  <2> QED
    BY <1>5, <2>1, HeapUntouched DEF PopLoad, PopLoaded, heap
<1>6. ASSUME NEW t \in Thread, ReadNext(t)
      PROVE  HeapInv'
  <2>1. \A u \in Thread : Owned(u)' = Owned(u)
    BY <1>0, <1>6 DEF ReadNext, Owned, TypeOK
  <2> QED
    BY <1>6, <2>1, HeapUntouched DEF ReadNext, heap
<1>7. ASSUME NEW t \in Thread, PopCAS(t)
      PROVE  HeapInv'
  <2>1. CASE head # old[t]
    <3>1. \A u \in Thread : Owned(u)' = Owned(u)
      BY <1>0, <1>7, <2>1 DEF PopCAS, PopLoaded, Owned, TypeOK
    <3> QED
      BY <1>7, <2>1, <3>1, HeapUntouched DEF PopCAS, PopLoaded, heap
  <2> QED
    BY <1>7, <2>1, PopHeap
<1>8. ASSUME NEW t \in Thread, SpuriousFailure(t)
      PROVE  HeapInv'
  <2>1. \A u \in Thread : Owned(u)' = Owned(u)
    BY <1>0, <1>8 DEF SpuriousFailure, Owned, TypeOK
  <2> QED
    BY <1>8, <2>1, HeapUntouched DEF SpuriousFailure, heap
<1>9. ASSUME NEW t \in Thread, Return(t)
      PROVE  HeapInv'
  <2>1. \A u \in Thread : Owned(u)' = Owned(u)
    BY <1>0, <1>9 DEF Return, Owned, TypeOK
  <2> QED
    BY <1>9, <2>1, HeapUntouched DEF Return, heap
<1> QED
  BY <1>1, NewNodeHeap, <1>2, <1>3, <1>4, <1>5, <1>6, <1>7, <1>8, TakeHeap, <1>9
     DEF Next, Step, Ended

-----------------------------------------------------------------------------
(* What each thread knows of the head it loaded. *)

(* A step that writes the next field of a node that is off the chain and that *)
(* no other thread pushes leaves what the others know.                        *)
LEMMA HeadNextKept ==
    ASSUME Inv, NEW a \in Address, NEW p, next' = [next EXCEPT ![a] = p],
           \A i \in 1 .. Len(chain) : chain[i] # a
    PROVE  head.ptr \in Address => next'[head.ptr] = next[head.ptr]
  BY NullAssumption DEF Inv, TypeOK, ListIsChain

LEMMA NewNodeThreads ==
    ASSUME Inv, NEW t \in Thread, NEW v \in Datum, NewNode(t, v)
    PROVE  ThreadInv'
<1>1. PICK a \in Address \ live :
        /\ new' = [new EXCEPT ![t] = a]
        /\ live' = live \cup {a}
        /\ next' = [next EXCEPT ![a] = Null]
  BY DEF NewNode, Available
<1>2. /\ pc[t] = "idle" /\ pc' = [pc EXCEPT ![t] = "pushLoad"] /\ t \in Writer
      /\ UNCHANGED <<head, old, result>> /\ TypeOK /\ ThreadInv
  BY DEF NewNode, GoTo, Inv
<1>3. head.ptr \in Address => next'[head.ptr] = next[head.ptr]
  <2>1. \A i \in 1 .. Len(chain) : chain[i] # a
    BY <1>1 DEF Inv, ListIsChain
  <2> QED
    BY <1>1, <2>1, HeadNextKept
<1> USE <1>1, <1>2 DEF ThreadInv, TypeOK
<1>4. TagsFresh'
  BY DEF TagsFresh, Loaded
<1>5. PushLinked'
  BY DEF PushLinked, WhoDoesWhat
<1>6. PopRead'
  BY <1>3 DEF PopRead
<1>7. ResultsTaken' /\ WhoDoesWhat'
  BY DEF ResultsTaken, WhoDoesWhat
<1> QED
  BY <1>4, <1>5, <1>6, <1>7

(* oldHead and newNode->next are set from the head. *)
LEMMA LinkThreads ==
    ASSUME Inv, NEW t \in Thread, pc[t] \in {"pushLoad", "pushCAS"},
           pc' = [pc EXCEPT ![t] = "pushCAS"], old' = [old EXCEPT ![t] = head],
           next' = [next EXCEPT ![new[t]] = head.ptr],
           UNCHANGED <<head, live, new, result>>
    PROVE  ThreadInv'
<1>1. TypeOK /\ ThreadInv
  BY DEF Inv
<1>2. Owned(t) = {new[t]} /\ new[t] \in Address
  BY DEF Owned, Inv, NodesAccounted
<1>3. /\ \A i \in 1 .. Len(chain) : chain[i] # new[t]
      /\ \A u \in Thread : u # t => new[t] \notin Owned(u)
  BY <1>2 DEF Inv, NodesAccounted
<1>4. head.ptr \in Address => next'[head.ptr] = next[head.ptr]
  BY <1>2, <1>3, HeadNextKept
<1>5. \A u \in Thread : u # t /\ pc[u] = "pushCAS" => new[u] # new[t]
  BY <1>3 DEF Owned
<1> USE <1>1 DEF ThreadInv, TypeOK
<1>6. TagsFresh'
  BY DEF TagsFresh, Loaded, TaggedPointer
<1>7. PushLinked'
  BY <1>2, <1>5 DEF PushLinked
<1>8. PopRead'
  BY <1>4 DEF PopRead
<1>9. ResultsTaken' /\ WhoDoesWhat'
  BY DEF ResultsTaken, WhoDoesWhat
<1> QED
  BY <1>6, <1>7, <1>8, <1>9

(* An exchange that succeeds raises the tag: every head loaded before is old. *)
LEMMA ExchangeThreads ==
    ASSUME Inv, NEW t \in Thread, pc[t] \in {"pushCAS", "popCAS"}, head = old[t],
           head'.tag = head.tag + 1, NEW place \in {"idle", "take"},
           pc' = [pc EXCEPT ![t] = place], place = "take" => old[t].ptr \in live,
           UNCHANGED <<next, live, old, new, result>>
    PROVE  ThreadInv'
<1>1. TypeOK /\ ThreadInv /\ head.tag \in Nat
  BY DEF Inv, TypeOK, TaggedPointer
<1> USE <1>1 DEF ThreadInv, TypeOK
<1>2. \A u \in Thread : Loaded(u) => old[u].tag \in Nat /\ old[u].tag < head'.tag
  BY DEF TagsFresh, TaggedPointer
<1>3. \A u \in Thread : Loaded(u)' => Loaded(u) /\ pc'[u] = pc[u]
  BY DEF Loaded
<1>4. TagsFresh'
  BY <1>2, <1>3 DEF TagsFresh
<1>5. PushLinked'
  BY DEF PushLinked
<1>6. PopRead'
  BY <1>2, <1>3 DEF PopRead, Loaded
<1>7. ResultsTaken' /\ WhoDoesWhat'
  BY DEF ResultsTaken, WhoDoesWhat
<1> QED
  BY <1>4, <1>5, <1>6, <1>7

(* The head is loaded in pop(). *)
LEMMA PopLoadedThreads ==
    ASSUME Inv, NEW t \in Thread, pc[t] \in {"popLoad", "popCAS"}, PopLoaded(t),
           UNCHANGED <<head, next, live, new>>
    PROVE  ThreadInv'
<1>1. TypeOK /\ ThreadInv
  BY DEF Inv
<1>2. head.ptr # Null => head.ptr \in Address
  BY <1>1 DEF TypeOK, TaggedPointer, Pointer
<1> USE <1>1 DEF ThreadInv, TypeOK, PopLoaded, GoTo
<1>3. TagsFresh'
  BY DEF TagsFresh, Loaded, TaggedPointer
<1>4. PushLinked'
  BY DEF PushLinked
<1>5. PopRead'
  BY <1>2 DEF PopRead
<1>6. ResultsTaken' /\ WhoDoesWhat'
  BY DEF ResultsTaken, WhoDoesWhat
<1> QED
  BY <1>3, <1>4, <1>5, <1>6

(* A thread that deletes its node takes none from another. *)
LEMMA TakeThreads ==
    ASSUME Inv, NEW t \in Thread, Take(t)
    PROVE  ThreadInv'
<1>1. /\ pc[t] = "take" /\ pc' = [pc EXCEPT ![t] = "return"]
      /\ live' = live \ {old[t].ptr} /\ UNCHANGED <<head, next, old, new>>
      /\ \A u \in Thread : u # t => result'[u] = result[u]
      /\ TypeOK /\ ThreadInv
  BY DEF Take, GoTo, Inv, TypeOK
<1>2. \A u \in Thread : u # t => old[t].ptr \notin Owned(u)
  BY <1>1 DEF Owned, Inv, NodesAccounted
<1> USE <1>1 DEF ThreadInv, TypeOK
<1>3. TagsFresh' /\ PushLinked' /\ PopRead' /\ ResultsTaken'
  BY DEF TagsFresh, PushLinked, PopRead, ResultsTaken, Loaded
<1>4. WhoDoesWhat'
  BY <1>2 DEF WhoDoesWhat, Owned
<1> QED
  BY <1>3, <1>4

LEMMA ThreadStep ==
    ASSUME Inv, [Next]_vars
    PROVE  ThreadInv'
<1> USE DEF GoTo
<1>0. TypeOK /\ ThreadInv
  BY DEF Inv
<1>1. CASE UNCHANGED vars
  BY <1>0, <1>1 DEF vars, heap, ThreadInv, TagsFresh, PushLinked, PopRead, ResultsTaken,
                    WhoDoesWhat, Loaded
<1>2. ASSUME NEW t \in Thread, PushLoad(t)
      PROVE  ThreadInv'
  BY <1>2, LinkThreads DEF PushLoad
<1>3. ASSUME NEW t \in Thread, PushCAS(t)
      PROVE  ThreadInv'
  <2>1. CASE head = old[t]
    BY <1>3, <2>1, ExchangeThreads DEF PushCAS, NewHead
  <2>2. CASE head # old[t]
    <3>1. pc' = [pc EXCEPT ![t] = "pushCAS"]
      BY <1>0, <1>3, <2>2 DEF PushCAS, TypeOK
    <3> QED
      BY <1>3, <2>2, <3>1, LinkThreads DEF PushCAS
  <2> QED
    BY <2>1, <2>2
<1>4. ASSUME NEW t \in Thread, IsEmpty(t) \/ WriterEnds(t) \/ Destroy(t)
      PROVE  ThreadInv'
  BY <1>0, <1>4 DEF IsEmpty, WriterEnds, Destroy, heap, TypeOK, ThreadInv, TagsFresh,
                    PushLinked, PopRead, ResultsTaken, WhoDoesWhat, Loaded
<1>5. ASSUME NEW t \in Thread, PopLoad(t)
      PROVE  ThreadInv'
  BY <1>5, PopLoadedThreads DEF PopLoad, heap
<1>6. ASSUME NEW t \in Thread, ReadNext(t)
      PROVE  ThreadInv'
  <2>1. PICK p \in IF old[t].ptr \in live THEN {next[old[t].ptr]} ELSE Pointer :
            new' = [new EXCEPT ![t] = p]
    BY <1>6 DEF ReadNext
  <2>2. old[t] = head => p = next[head.ptr]
    BY <1>6, <2>1, HeadOnChain, NullAssumption
       DEF Inv, ThreadInv, PopRead, ReadNext
  <2> QED
    BY <1>0, <1>6, <2>1, <2>2
       DEF ReadNext, heap, TypeOK, ThreadInv, TagsFresh, PushLinked, PopRead, ResultsTaken,
           WhoDoesWhat, Loaded
<1>7. ASSUME NEW t \in Thread, PopCAS(t)
      PROVE  ThreadInv'
  <2>1. CASE head = old[t]
    BY <1>7, <2>1, PopUnlinksTop, ExchangeThreads DEF NewHead
  <2>2. CASE head # old[t]
    BY <1>7, <2>2, PopLoadedThreads DEF PopCAS, heap
  <2> QED
    BY <2>1, <2>2
<1>8. ASSUME NEW t \in Thread, SpuriousFailure(t)
      PROVE  ThreadInv'
  BY <1>0, <1>8 DEF SpuriousFailure, heap, TypeOK, ThreadInv, TagsFresh, PushLinked,
                    PopRead, ResultsTaken, WhoDoesWhat, Loaded
<1>9. ASSUME NEW t \in Thread, Return(t)
      PROVE  ThreadInv'
  BY <1>0, <1>9 DEF Return, heap, TypeOK, ThreadInv, TagsFresh, PushLinked,
                    PopRead, ResultsTaken, WhoDoesWhat, Loaded
<1> QED
  BY <1>1, NewNodeThreads, <1>2, <1>3, <1>4, <1>5, <1>6, <1>7, <1>8, TakeThreads, <1>9
     DEF Next, Step, Ended

LEMMA InvAlways == Spec => []Inv
<1>1. Inv /\ [Next]_vars => Inv'
  BY TypeStep, HeapStep, ThreadStep DEF Inv, HeapInv
<1> QED
  BY InvInit, <1>1, PTL DEF Spec

(* Every variable of a reachable state has its type: a pop never unlinks a    *)
(* node that is not there.                                                    *)
THEOREM TypeCorrect == Spec => []TypeOK
  BY InvAlways, PTL DEF Inv

(* The list in the heap is the chain of the nodes pushed and not popped,      *)
(* whatever addresses come back.                                              *)
THEOREM ListStaysChain == Spec => []ListIsChain
  BY InvAlways, PTL DEF Inv

(* No node is deleted twice and none is lost. *)
THEOREM NoNodeLost == Spec => []NodesAccounted
  BY InvAlways, PTL DEF Inv

-----------------------------------------------------------------------------
(* The refinement.  Top and Out are what LockFreeStack puts for the abstract  *)
(* stack's variables.                                                         *)
Top == [i \in 1 .. Len(chain) |-> data[chain[i]]]
Out == [t \in Thread |-> IF pc[t] = "take" THEN data[old[t].ptr] ELSE result[t]]

(* A sequence of data, element by element. *)
LEMMA TopIsSeq ==
    ASSUME Inv
    PROVE  /\ Top \in Seq(Datum)
           /\ Len(Top) = Len(chain)
           /\ \A i \in 1 .. Len(chain) : Top[i] = data[chain[i]]
<1>1. Len(chain) \in Nat /\ \A i \in 1 .. Len(chain) : data[chain[i]] \in Datum
  BY DEF Inv, TypeOK, ListIsChain, DataSet
<1>2. Top \in [1 .. Len(chain) -> Datum]
  BY <1>1 DEF Top
<1> QED
  BY <1>1, <1>2 DEF Top

LEMMA SeqIsFunction ==
    ASSUME NEW s \in Seq(Datum)
    PROVE  s = [i \in 1 .. Len(s) |-> s[i]]
  OBVIOUS

LEMMA TopKept ==
    ASSUME Inv, chain' = chain, \A i \in 1 .. Len(chain) : data'[chain[i]] = data[chain[i]]
    PROVE  Top' = Top
  BY DEF Top

LEMMA OutKept ==
    ASSUME \A t \in Thread : (IF pc'[t] = "take" THEN data'[old'[t].ptr] ELSE result'[t])
                           = (IF pc[t] = "take" THEN data[old[t].ptr] ELSE result[t])
    PROVE  Out' = Out
  BY DEF Out

LEMMA PushRefines ==
    ASSUME Inv, NEW t \in Thread, PushCAS(t), head = old[t]
    PROVE  Top' = <<data[new[t]]>> \o Top /\ Out' = Out /\ data[new[t]] \in Datum
<1> DEFINE n == Len(chain)
           a == new[t]
<1>1. /\ chain' = <<a>> \o chain /\ pc[t] = "pushCAS" /\ pc' = [pc EXCEPT ![t] = "idle"]
      /\ UNCHANGED <<data, old, result>>
  BY DEF PushCAS, GoTo
<1>2. /\ a \in Address /\ data[a] \in Datum
      /\ chain \in Seq(Address) /\ n \in Nat /\ TypeOK
  BY <1>1 DEF Inv, ThreadInv, PushLinked, WhoDoesWhat, DataSet, TypeOK
<1>3. /\ Len(chain') = n + 1
      /\ \A i \in 1 .. n + 1 : chain'[i] = IF i = 1 THEN a ELSE chain[i - 1]
  BY <1>1, <1>2
<1>4. /\ Len(<<data[a]>> \o Top) = n + 1
      /\ \A i \in 1 .. n + 1 : (<<data[a]>> \o Top)[i] = IF i = 1 THEN data[a] ELSE Top[i - 1]
      /\ <<data[a]>> \o Top \in Seq(Datum)
  BY <1>2, TopIsSeq
<1>5. \A i \in 1 .. n + 1 : data'[chain'[i]] = (<<data[a]>> \o Top)[i]
  <2>1. ASSUME NEW i \in 1 .. n + 1, i # 1
        PROVE  i - 1 \in 1 .. n
    BY <1>2, <2>1
  <2> QED
    BY <1>1, <1>3, <1>4, <2>1, TopIsSeq
<1>6. <<data[a]>> \o Top = [i \in 1 .. n + 1 |-> (<<data[a]>> \o Top)[i]]
  BY <1>4
<1>7. Top' = <<data[a]>> \o Top
  BY <1>3, <1>5, <1>6 DEF Top
<1>8. Out' = Out
  BY <1>1, <1>2, OutKept DEF TypeOK
<1> QED
  BY <1>2, <1>7, <1>8

LEMMA PopRefines ==
    ASSUME Inv, NEW t \in Thread, PopCAS(t), head = old[t]
    PROVE  /\ Top # <<>> /\ Out[t] = Nothing
           /\ Top' = Tail(Top) /\ Out' = [Out EXCEPT ![t] = Head(Top)]
<1> DEFINE n == Len(chain)
<1>1. /\ chain # <<>> /\ old[t].ptr = chain[1]
      /\ chain' = Tail(chain) /\ pc[t] = "popCAS" /\ pc' = [pc EXCEPT ![t] = "take"]
      /\ UNCHANGED <<data, old, result>>
  BY PopUnlinksTop
<1>2. chain \in Seq(Address) /\ n \in Nat /\ n > 0 /\ TypeOK
  BY <1>1 DEF Inv, TypeOK
<1>3. /\ Len(chain') = n - 1
      /\ \A i \in 1 .. n - 1 : chain'[i] = chain[i + 1]
  BY <1>1, <1>2
<1>4. Top \in Seq(Datum) /\ Len(Top) = n /\ Top # <<>> /\ Top[1] = data[chain[1]]
  BY <1>2, TopIsSeq
<1>5. /\ Len(Tail(Top)) = n - 1 /\ Tail(Top) \in Seq(Datum)
      /\ \A i \in 1 .. n - 1 : Tail(Top)[i] = Top[i + 1]
  BY <1>2, <1>4
<1>6. \A i \in 1 .. n - 1 : data'[chain'[i]] = Tail(Top)[i]
  <2>1. \A i \in 1 .. n - 1 : i + 1 \in 1 .. n
    BY <1>2
  <2> QED
    BY <1>1, <1>3, <1>5, <2>1, TopIsSeq
<1>7. Tail(Top) = [i \in 1 .. n - 1 |-> Tail(Top)[i]]
  BY <1>5, SeqIsFunction
<1>8. Top' = Tail(Top)
  BY <1>3, <1>6, <1>7 DEF Top
<1>9. Out[t] = Nothing
  BY <1>1 DEF Out, Inv, ThreadInv, ResultsTaken
<1>10. Out' = [Out EXCEPT ![t] = Head(Top)]
  <2>1. Head(Top) = data[chain[1]]
    BY <1>4
  <2> QED
    BY <1>1, <1>2, <2>1 DEF Out, TypeOK
<1> QED
  BY <1>4, <1>8, <1>9, <1>10

(* A null head: pop() returns T{} of an empty stack. *)
LEMMA PopEmptyRefines ==
    ASSUME Inv, NEW t \in Thread, pc[t] \in {"popLoad", "popCAS"}, PopLoaded(t),
           UNCHANGED <<head, heap, chain>>
    PROVE  \/ Top = <<>> /\ Out[t] = Nothing /\ Out' = [Out EXCEPT ![t] = Zero] /\ Top' = Top
           \/ UNCHANGED <<Top, Out>>
<1>1. Top' = Top /\ TypeOK
  BY TopKept DEF heap, Inv
<1>2. CASE head.ptr # Null
  BY <1>1, <1>2, OutKept DEF PopLoaded, GoTo, heap, TypeOK
<1>3. CASE head.ptr = Null
  <2>1. chain = <<>>
    BY <1>3, HeadOnChain DEF Inv
  <2>2. Top = <<>>
    BY <2>1, TopIsSeq
  <2>3. Out[t] = Nothing
    BY DEF Out, Inv, ThreadInv, ResultsTaken
  <2>4. Out' = [Out EXCEPT ![t] = Zero]
    <3>1. /\ pc' = [pc EXCEPT ![t] = "return"] /\ result' = [result EXCEPT ![t] = Zero]
          /\ old' = [old EXCEPT ![t] = head] /\ data' = data
      BY <1>3 DEF PopLoaded, GoTo, heap
    <3> QED
      BY <1>1, <3>1 DEF Out, TypeOK
  <2> QED
    BY <1>1, <2>2, <2>3, <2>4
<1> QED
  BY <1>2, <1>3

LEMMA StackStep ==
    ASSUME Inv, [Next]_vars
    PROVE  [S!Next]_<<Top, Out>>
<1> USE DEF GoTo, Top, Out
<1>0. TypeOK
  BY DEF Inv
<1>1. CASE UNCHANGED vars
  BY <1>1 DEF vars, heap
<1>2. ASSUME NEW t \in Thread, NEW v \in Datum, NewNode(t, v)
      PROVE  UNCHANGED <<Top, Out>>
  <2>1. PICK a \in Address \ live : data' = [data EXCEPT ![a] = v]
    BY <1>2 DEF NewNode, Available
  <2>2. Top' = Top
    BY <1>0, <1>2, <2>1, TopKept DEF NewNode, Inv, ListIsChain, TypeOK
  <2>3. \A u \in Thread : pc[u] = "take" => data'[old[u].ptr] = data[old[u].ptr]
    BY <1>0, <2>1 DEF Inv, ThreadInv, WhoDoesWhat, TypeOK
  <2>4. Out' = Out
    BY <1>0, <1>2, <2>3, OutKept DEF NewNode, TypeOK
  <2> QED
    BY <2>2, <2>4
<1>3. ASSUME NEW t \in Thread, PushLoad(t)
      PROVE  UNCHANGED <<Top, Out>>
  BY <1>0, <1>3, TopKept, OutKept DEF PushLoad, TypeOK
<1>4. ASSUME NEW t \in Thread, PushCAS(t)
      PROVE  (\E v \in Datum : S!Push(v)) \/ UNCHANGED <<Top, Out>>
  <2>1. CASE head = old[t]
    BY <1>4, <2>1, PushRefines DEF S!Push
  <2>2. CASE head # old[t]
    BY <1>0, <1>4, <2>2, TopKept, OutKept DEF PushCAS, TypeOK
  <2> QED
    BY <2>1, <2>2
<1>5. ASSUME NEW t \in Thread, IsEmpty(t) \/ WriterEnds(t) \/ Destroy(t)
      PROVE  UNCHANGED <<Top, Out>>
  BY <1>0, <1>5, TopKept, OutKept DEF IsEmpty, WriterEnds, Destroy, heap, TypeOK
<1>6. ASSUME NEW t \in Thread, pc[t] \in {"popLoad", "popCAS"}, PopLoaded(t),
             UNCHANGED <<head, heap, chain>>
      PROVE  S!PopEmpty(t) \/ UNCHANGED <<Top, Out>>
  BY <1>6, PopEmptyRefines DEF S!PopEmpty
<1>7. ASSUME NEW t \in Thread, PopLoad(t)
      PROVE  S!PopEmpty(t) \/ UNCHANGED <<Top, Out>>
  BY <1>6, <1>7 DEF PopLoad
<1>8. ASSUME NEW t \in Thread, ReadNext(t)
      PROVE  UNCHANGED <<Top, Out>>
  BY <1>0, <1>8, TopKept, OutKept DEF ReadNext, heap, TypeOK
<1>9. ASSUME NEW t \in Thread, PopCAS(t)
      PROVE  S!PopTop(t) \/ S!PopEmpty(t) \/ UNCHANGED <<Top, Out>>
  <2>1. CASE head = old[t]
    BY <1>9, <2>1, PopRefines DEF S!PopTop
  <2>2. CASE head # old[t]
    BY <1>6, <1>9, <2>2 DEF PopCAS
  <2> QED
    BY <2>1, <2>2
<1>10. ASSUME NEW t \in Thread, SpuriousFailure(t)
       PROVE  UNCHANGED <<Top, Out>>
  BY <1>0, <1>10, TopKept, OutKept DEF SpuriousFailure, heap, TypeOK
<1>11. ASSUME NEW t \in Thread, Take(t)
       PROVE  UNCHANGED <<Top, Out>>
  BY <1>0, <1>11, TopKept, OutKept DEF Take, TypeOK
<1>12. ASSUME NEW t \in Thread, Return(t)
       PROVE  S!Return(t)
  <2>1. Top' = Top
    BY <1>12, TopKept DEF Return, heap
  <2>2. Out' = [Out EXCEPT ![t] = Nothing]
    BY <1>0, <1>12 DEF Return, heap, TypeOK
  <2> QED
    BY <2>1, <2>2 DEF S!Return
<1> QED
  BY <1>1, <1>2, <1>3, <1>4, <1>5, <1>7, <1>8, <1>9, <1>10, <1>11, <1>12
     DEF Next, Step, Ended, S!Next

(* The lock-free stack is a stack: each push and each pop takes effect at     *)
(* one moment, and a pop returns the value that was on top at that moment.    *)
THEOREM StackIsLinearizable == Spec => ImplementsStack
<1>1. Init => S!Init
  BY DEF Init, S!Init
<1>2. Inv /\ [Next]_vars => [S!Next]_<<Top, Out>>
  BY StackStep
<1> QED
  BY <1>1, <1>2, InvAlways, PTL DEF Spec, ImplementsStack, S!Spec, Top, Out
=============================================================================
