------------------------------- MODULE Tasks -------------------------------
(* What src/ThreadPool promises for each task that is submitted to it: it is  *)
(* run at most once, by one worker, and not once the pool has been destroyed. *)
(* It promises no more: see the README for the tasks it leaves behind.        *)
(* ThreadPool implements this.                                                *)
CONSTANT Task

VARIABLES stage,   \* of each task
          closed   \* the pool has been destroyed

Init == stage = [t \in Task |-> "new"] /\ closed = FALSE

Move(t, from, to) ==
    /\ stage[t] = from /\ ~closed
    /\ stage' = [stage EXCEPT ![t] = to]
    /\ UNCHANGED closed

Submit(t) == Move(t, "new", "waiting")
Begin(t) == Move(t, "waiting", "running")
Finish(t) == Move(t, "running", "finished")

Close ==
    /\ \A t \in Task : stage[t] # "running"
    /\ closed' = TRUE
    /\ UNCHANGED stage

Next == Close \/ \E t \in Task : Submit(t) \/ Begin(t) \/ Finish(t)

Spec == Init /\ [][Next]_<<stage, closed>>
=============================================================================
