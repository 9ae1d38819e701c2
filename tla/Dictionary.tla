----------------------------- MODULE Dictionary -----------------------------
(* What src/BLinkTree promises its clients: a write takes effect at one      *)
(* moment between its call and its return, the operations of one client       *)
(* happen in their order, and nothing else changes what is stored.  An update *)
(* of a key that is present may be dropped: see BLinkTree!WriteTakesEffect    *)
(* for when it is.  BLinkTree implements it.                                  *)
EXTENDS Sequences

CONSTANTS Client

VARIABLES map,    \* the value of each key that is stored
          todo    \* todo[c]: the operations of client c that are still to happen

Happens(c, kind) ==
    /\ todo[c] # <<>> /\ Head(todo[c]).op = kind
    /\ todo' = [todo EXCEPT ![c] = Tail(@)]

Get(c) == Happens(c, "read") /\ UNCHANGED map

Put(c) ==
    LET op == Head(todo[c]) IN
    /\ Happens(c, "write")
    /\ map' = [key \in DOMAIN map \cup {op.key} |->
                  IF key = op.key THEN op.value ELSE map[key]]

Drop(c) ==
    /\ Happens(c, "write")
    /\ Head(todo[c]).key \in DOMAIN map
    /\ UNCHANGED map

Next == \E c \in Client : Get(c) \/ Put(c) \/ Drop(c)

(* Whatever is stored and asked for at first. *)
Spec == [][Next]_<<map, todo>>
=============================================================================
