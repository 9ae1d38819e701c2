--------------------------- MODULE LockFreeStack ---------------------------
(* The lock-free stack of src/LockFreeStack/src/lock_free_stack.hpp under the *)
(* threads of its tests.cpp: writers push, readers pop while the stack is not *)
(* empty, and the destructor pops what is left when all have been joined.     *)
(*                                                                            *)
(* The head is a pointer and a tag that are loaded and exchanged as one.      *)
(* Nodes are at addresses that `new' takes from the free ones and `delete'    *)
(* gives back, so an address comes back with another node at it.  pop() reads *)
(* a node that may have been deleted under it: what it finds there is         *)
(* undefined, any pointer.  The head is loaded with relaxed ordering and the  *)
(* node read through the pointer loaded: the reads are ordered by that        *)
(* dependency on the processors the code is built for.                        *)
(*                                                                            *)
(* The tag is a uintptr_t: that it comes round to the same value between a    *)
(* load and its exchange takes 2^64 operations, and is left out.              *)
EXTENDS Integers, Sequences, FiniteSets

CONSTANTS Writer, Reader,   \* the threads of tests.cpp
          Owner,            \* the thread that destroys the stack
          Address, Null,
          Datum,            \* the values of type T
          Zero,             \* T{}, the value that converts to false
          Nothing,
          Pushes            \* how many values a writer pushes

Thread == Writer \cup Reader \cup {Owner}

ASSUME ThreadAssumption ==
    Writer \cap Reader = {} /\ Owner \notin Writer \cup Reader
ASSUME NullAssumption == Null \notin Address
ASSUME ValueAssumption == Zero \in Datum /\ Nothing \notin Datum
ASSUME PushesAssumption == Pushes \in Nat

VARIABLES head,      \* the TaggedPointer
          next,      \* the next field of the node at each address
          data,      \* its data field
          live,      \* the addresses between new and delete
          pc,        \* where each thread is
          old,       \* oldHead of each thread
          new,       \* newNode of each thread in push(), oldHead.ptr->next as
                     \* it was read of each thread in pop()
          result,    \* what the pop a thread is in returns
          pushed,    \* how many values a writer has pushed
          chain      \* history: the addresses pushed and not popped, top first

heap == <<next, data, live>>
vars == <<head, heap, pc, old, new, result, pushed, chain>>

Pointer == Address \cup {Null}
TaggedPointer == [ptr : Pointer, tag : Nat]
Places == {"idle", "pushLoad", "pushCAS", "popLoad", "next", "popCAS", "take",
           "return", "finished"}

GoTo(t, place) == pc' = [pc EXCEPT ![t] = place]
(* Mutant: the tag is not counted up.                                         *)
NewHeadUntagged(p, t) == [ptr |-> p, tag |-> old[t].tag]

NewHead(p, t) == [ptr |-> p, tag |-> old[t].tag + 1]

-----------------------------------------------------------------------------
Init ==
    /\ head = [ptr |-> Null, tag |-> 0]
    /\ next = [a \in Address |-> Null]
    /\ data = [a \in Address |-> Nothing]
    /\ live = {}
    /\ pc = [t \in Thread |-> "idle"]
    /\ old = [t \in Thread |-> [ptr |-> Null, tag |-> 0]]
    /\ new = [t \in Thread |-> Null]
    /\ result = [t \in Thread |-> Nothing]
    /\ pushed = [t \in Writer |-> 0]
    /\ chain = <<>>

(* The addresses `new' may return: any that was deleted, or one that was not  *)
(* used before; those are alike.                                              *)
Unused == {a \in Address : data[a] = Nothing}
Available ==
    {a \in Address \ live : a \in Unused => a = CHOOSE b \in Unused : TRUE}

(* push(value): new Node<T>(value). *)
NewNode(t, v) ==
    /\ t \in Writer /\ pc[t] = "idle" /\ pushed[t] < Pushes
    /\ \E a \in Available :
         /\ new' = [new EXCEPT ![t] = a]
         /\ live' = live \cup {a}
         /\ data' = [data EXCEPT ![a] = v]
         /\ next' = [next EXCEPT ![a] = Null]
    /\ GoTo(t, "pushLoad")
    /\ UNCHANGED <<head, old, result, pushed, chain>>

(* The load of the head, and newNode->next for the first turn of the loop. *)
PushLoad(t) ==
    /\ pc[t] = "pushLoad"
    /\ old' = [old EXCEPT ![t] = head]
    /\ next' = [next EXCEPT ![new[t]] = head.ptr]
    /\ GoTo(t, "pushCAS")
    /\ UNCHANGED <<head, data, live, new, result, pushed, chain>>

(* The exchange in push(): when it fails, which it may do spuriously, oldHead *)
(* is the head it found and the loop sets newNode->next from it.              *)
PushCAS(t) ==
    /\ pc[t] = "pushCAS"
    /\ \/ /\ head = old[t]
          /\ head' = NewHead(new[t], t)
          /\ chain' = <<new[t]>> \o chain
          /\ pushed' = [pushed EXCEPT ![t] = @ + 1]
          /\ GoTo(t, "idle")
          /\ UNCHANGED <<next, old>>
       \/ /\ head # old[t]
          /\ old' = [old EXCEPT ![t] = head]
          /\ next' = [next EXCEPT ![new[t]] = head.ptr]
          /\ UNCHANGED <<head, chain, pushed, pc>>
    /\ UNCHANGED <<data, live, new, result>>

(* A reader calls pop() while isEmpty() is false; the destructor, when every  *)
(* thread has been joined, calls it at once.                                  *)
IsEmpty(t) ==
    /\ t \in Reader /\ pc[t] = "idle"
    /\ GoTo(t, IF head.ptr = Null THEN "finished" ELSE "popLoad")
    /\ UNCHANGED <<head, heap, old, new, result, pushed, chain>>

WriterEnds(t) ==
    /\ t \in Writer /\ pc[t] = "idle" /\ pushed[t] = Pushes
    /\ GoTo(t, "finished")
    /\ UNCHANGED <<head, heap, old, new, result, pushed, chain>>

Destroy(t) ==
    /\ t = Owner /\ pc[t] = "idle"
    /\ \A u \in Writer \cup Reader : pc[u] = "finished"
    /\ GoTo(t, "popLoad")
    /\ UNCHANGED <<head, heap, old, new, result, pushed, chain>>

(* oldHead has been loaded in pop(), by the load or by an exchange that       *)
(* failed: with a null pointer pop() returns T{}.                             *)
PopLoaded(t) ==
    /\ old' = [old EXCEPT ![t] = head]
    /\ \/ head.ptr # Null /\ GoTo(t, "next") /\ UNCHANGED result
       \/ /\ head.ptr = Null
          /\ result' = [result EXCEPT ![t] = Zero]
          /\ GoTo(t, "return")

PopLoad(t) ==
    /\ pc[t] = "popLoad"
    /\ PopLoaded(t)
    /\ UNCHANGED <<head, heap, new, pushed, chain>>

(* oldHead.ptr->next, of a node another pop() may have deleted. *)
ReadNext(t) ==
    /\ pc[t] = "next"
    /\ \E p \in IF old[t].ptr \in live THEN {next[old[t].ptr]} ELSE Pointer :
          new' = [new EXCEPT ![t] = p]
    /\ GoTo(t, "popCAS")
    /\ UNCHANGED <<head, heap, old, result, pushed, chain>>

(* The exchange in pop(). *)
PopCAS(t) ==
    /\ pc[t] = "popCAS"
    /\ \/ /\ head = old[t]
          /\ head' = NewHead(new[t], t)
          /\ chain' = Tail(chain)
          /\ GoTo(t, "take")
          /\ UNCHANGED <<old, result>>
       \/ head # old[t] /\ PopLoaded(t) /\ UNCHANGED <<head, chain>>
    /\ UNCHANGED <<heap, new, pushed>>

(* A spurious failure of that exchange: the loop reads next again. *)
SpuriousFailure(t) ==
    /\ pc[t] = "popCAS"
    /\ head = old[t]
    /\ GoTo(t, "next")
    /\ UNCHANGED <<head, heap, old, new, result, pushed, chain>>

(* Mutant: the node is deleted before its data is read.                       *)
TakeDeleted(t) ==
    /\ pc[t] = "take"
    /\ \E v \in Datum : result' = [result EXCEPT ![t] = v]
    /\ live' = live \ {old[t].ptr}
    /\ GoTo(t, "return")
    /\ UNCHANGED <<head, next, data, old, new, pushed, chain>>

(* Mutant: the node is not deleted.                                           *)
TakeKept(t) ==
    /\ pc[t] = "take"
    /\ result' = [result EXCEPT ![t] = data[old[t].ptr]]
    /\ GoTo(t, "return")
    /\ UNCHANGED <<head, heap, old, new, pushed, chain>>

(* The node is this thread's: its data, and delete. *)
Take(t) ==
    /\ pc[t] = "take"
    /\ result' = [result EXCEPT ![t] = data[old[t].ptr]]
    /\ live' = live \ {old[t].ptr}
    /\ GoTo(t, "return")
    /\ UNCHANGED <<head, next, data, old, new, pushed, chain>>

(* Mutant: the destructor takes any result for a value.                       *)
ReturnAgain(t) ==
    /\ pc[t] = "return"
    /\ result' = [result EXCEPT ![t] = Nothing]
    /\ GoTo(t, IF t # Owner THEN "idle" ELSE "popLoad")
    /\ UNCHANGED <<head, heap, old, new, pushed, chain>>

(* The destructor, `while (pop());', ends at a result that converts to false. *)
Return(t) ==
    /\ pc[t] = "return"
    /\ result' = [result EXCEPT ![t] = Nothing]
    /\ GoTo(t, IF t # Owner THEN "idle"
               ELSE IF result[t] = Zero THEN "finished" ELSE "popLoad")
    /\ UNCHANGED <<head, heap, old, new, pushed, chain>>

Step(t) ==
    \/ \E v \in Datum : NewNode(t, v)
    \/ PushLoad(t)
    \/ PushCAS(t)
    \/ IsEmpty(t)
    \/ WriterEnds(t)
    \/ Destroy(t)
    \/ PopLoad(t)
    \/ ReadNext(t)
    \/ PopCAS(t)
    \/ Take(t)
    \/ Return(t)

Ended == pc[Owner] = "finished" /\ UNCHANGED vars

Next == (\E t \in Thread : Step(t) \/ SpuriousFailure(t)) \/ Ended

(* The scheduler runs every thread, and an exchange that could succeed again  *)
(* and again does not fail spuriously each time.                              *)
Fairness == \A t \in Thread : WF_vars(Step(t)) /\ SF_vars(PopCAS(t))

Spec == Init /\ [][Next]_vars
FairSpec == Spec /\ Fairness
-----------------------------------------------------------------------------
TypeOK ==
    /\ head \in TaggedPointer
    /\ next \in [Address -> Pointer]
    /\ data \in [Address -> Datum \cup {Nothing}]
    /\ live \subseteq Address
    /\ pc \in [Thread -> Places]
    /\ old \in [Thread -> TaggedPointer]
    /\ new \in [Thread -> Pointer]
    /\ result \in [Thread -> Datum \cup {Nothing}]
    /\ pushed \in [Writer -> Nat]
    /\ chain \in Seq(Address)

(* The list in the heap is the stack: from the head, the nodes pushed and not *)
(* popped, each once, all alive, the last with a null next.  Neither a node   *)
(* that was deleted nor one that is not yet pushed is ever linked in.         *)
ListIsChain ==
    /\ head.ptr = (IF chain = <<>> THEN Null ELSE chain[1])
    /\ \A i \in 1 .. Len(chain) :
         /\ chain[i] \in live
         /\ next[chain[i]] = (IF i = Len(chain) THEN Null ELSE chain[i + 1])
    /\ \A i, j \in 1 .. Len(chain) : chain[i] = chain[j] => i = j

(* The node each thread has to itself: not yet pushed, or popped and not yet  *)
(* deleted.                                                                   *)
Owned(t) ==
    CASE pc[t] \in {"pushLoad", "pushCAS"} -> {new[t]}
      [] pc[t] = "take" -> {old[t].ptr}
      [] OTHER -> {}

(* Every node alive is on the stack or one thread's: none is deleted twice,   *)
(* and none is lost.                                                          *)
NodesAccounted ==
    /\ \A a \in Address :
         a \in live <=> \/ \E i \in 1 .. Len(chain) : chain[i] = a
                       \/ \E t \in Thread : a \in Owned(t)
    /\ \A t \in Thread : Owned(t) \subseteq Address
    /\ \A t, u \in Thread : t # u => Owned(t) \cap Owned(u) = {}
    /\ \A t \in Thread, i \in 1 .. Len(chain) : chain[i] \notin Owned(t)

S == INSTANCE Stack WITH
        stack <- [i \in 1 .. Len(chain) |-> data[chain[i]]],
        taken <- [t \in Thread |->
                    IF pc[t] = "take" THEN data[old[t].ptr] ELSE result[t]]

(* The stack is linearizable: a push takes effect when its exchange succeeds, *)
(* a pop when its exchange does or when it loads a null pointer, and what it  *)
(* returns is the value on top at that moment.                                *)
ImplementsStack == S!Spec

(* Every thread ends, the destructor too: a loop around an exchange ends,     *)
(* since an exchange fails only when another thread's succeeded.              *)
Finishes == <>(pc[Owner] = "finished")
=============================================================================
