---------------------------- MODULE MCThreadPool ----------------------------
(* ThreadPool for TLC: a task that submits another, one that may throw, and   *)
(* two submitters.                                                          *)
EXTENDS ThreadPool

CONSTANTS a, b, c

MCTask == {a, b, c}
MCMainTasks == <<a>>
MCOtherTasks == <<b>>
MCSubtasks == [x \in MCTask |-> IF x = a THEN <<c>> ELSE <<>>]
=============================================================================
