------------------------------- MODULE Stack -------------------------------
(* What src/LockFreeStack promises its callers: a last-in-first-out stack on  *)
(* which a push and a pop each take effect at one moment.  LockFreeStack      *)
(* implements it.                                                             *)
EXTENDS Sequences

CONSTANTS Thread, Datum,
          Zero,      \* T{}: what pop() returns when there is nothing to pop
          Nothing    \* no pop of this thread has taken effect and not returned

VARIABLES stack,     \* the values on the stack, the top first
          taken      \* what the pop that a thread is in will return

Init == stack = <<>> /\ taken = [t \in Thread |-> Nothing]

Push(v) == stack' = <<v>> \o stack /\ UNCHANGED taken

PopTop(t) ==
    /\ stack # <<>> /\ taken[t] = Nothing
    /\ taken' = [taken EXCEPT ![t] = Head(stack)]
    /\ stack' = Tail(stack)

PopEmpty(t) ==
    /\ stack = <<>> /\ taken[t] = Nothing
    /\ taken' = [taken EXCEPT ![t] = Zero]
    /\ UNCHANGED stack

Return(t) == taken' = [taken EXCEPT ![t] = Nothing] /\ UNCHANGED stack

Next ==
    \/ \E v \in Datum : Push(v)
    \/ \E t \in Thread : PopTop(t) \/ PopEmpty(t) \/ Return(t)

Spec == Init /\ [][Next]_<<stack, taken>>
=============================================================================
