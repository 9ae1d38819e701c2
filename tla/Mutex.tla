------------------------------- MODULE Mutex -------------------------------
(* What the three spin locks of src/SpinLock promise to their callers: one   *)
(* thread at a time is between lock() and unlock(), and every increment that  *)
(* is made there builds on the one before it.  SpinLock implements it.        *)
EXTENDS Naturals

CONSTANTS Thread, NoThread

VARIABLES holder,   \* the thread between lock() and unlock(), or NoThread
          count     \* the increments the shared counter has taken

Init == holder = NoThread /\ count = 0

Acquire(t) == holder = NoThread /\ holder' = t /\ UNCHANGED count

Increment(t) == holder = t /\ count' = count + 1 /\ UNCHANGED holder

Release(t) == holder = t /\ holder' = NoThread /\ UNCHANGED count

Next == \E t \in Thread : Acquire(t) \/ Increment(t) \/ Release(t)

Spec == Init /\ [][Next]_<<holder, count>>
=============================================================================
