----------------------------- MODULE ThreadPool -----------------------------
(* The work-stealing pool of src/ThreadPool/src/thread_pool.hpp: its workers, *)
(* the thread that constructs, feeds and destroys it, and another thread that *)
(* feeds it.  Tasks may submit tasks (thread_pool_tests.cpp) and may throw.   *)
(*                                                                            *)
(* A worker's queue is a deque under a mutex of its own.  What is done under  *)
(* one mutex is one step; trySteal holds two, and the step between its two    *)
(* lock_guards is the one at which a worker holds a mutex and waits for       *)
(* another.  rand() is any choice.                                            *)
EXTENDS Integers, Sequences, SequencesExt, FiniteSets

CONSTANTS MaxThreads,     \* the largest n_threads
          Task,
          MainTasks,      \* what the constructing thread submits, in order
          OtherTasks,     \* what another thread submits, in order
          Subtasks,       \* Subtasks[t]: what task t submits, in order
          MayThrow,       \* the tasks that may throw a std::exception
          NoTask, NoWorker

ASSUME MaxThreadsAssumption == MaxThreads \in Nat \ {0}
ASSUME TaskAssumption ==
    /\ NoTask \notin Task
    /\ MainTasks \in Seq(Task) /\ OtherTasks \in Seq(Task)
    /\ Subtasks \in [Task -> Seq(Task)]
    /\ MayThrow \subseteq Task
(* A std::function that is submitted is an object of its own: a function that *)
(* is submitted twice is two tasks.                                           *)
ASSUME SubmittedOnceAssumption ==
    /\ IsInjective(MainTasks) /\ IsInjective(OtherTasks)
    /\ ToSet(MainTasks) \cap ToSet(OtherTasks) = {}
    /\ \A x \in Task :
         /\ IsInjective(Subtasks[x])
         /\ ToSet(Subtasks[x]) \cap (ToSet(MainTasks) \cup ToSet(OtherTasks)) = {}
         /\ \A y \in Task \ {x} : ToSet(Subtasks[x]) \cap ToSet(Subtasks[y]) = {}
ASSUME NoWorkerAssumption == NoWorker \notin 0 .. MaxThreads - 1

VARIABLES n_threads,
          queue,      \* the deque of each worker, its front first
          m,          \* the holder of each queue's mutex
          done,       \* the static flag
          pc,         \* where each worker is
          pair,       \* the two queues trySteal has chosen, in order, while it
              \* is called
          t,          \* the task a worker runs
          left,       \* what that task has still to submit
          main,       \* where the constructing thread is
          mainLeft,   \* what it has still to submit
          otherLeft,  \* what the other thread has still to submit
          submitted,  \* history: the tasks in the order of their submission
          begun       \* history: the tasks in the order in which they were taken

threadVars == <<pc, pair, t, left>>
clientVars == <<main, mainLeft, otherLeft>>
vars == <<n_threads, queue, m, done, threadVars, clientVars, submitted, begun>>

Worker == 0 .. MaxThreads - 1
Started == {w \in Worker : pc[w] # "unborn"}
Index == 0 .. n_threads - 1

(* Mutant: the numbers are not put in order.                                  *)
PairsUnordered == {p \in Index \X Index : p[1] # p[2]}

Pairs == {p \in Index \X Index : p[1] < p[2]}

GoTo(w, place) == pc' = [pc EXCEPT ![w] = place]

(* Mutant: a task that is taken stays.                                        *)
PopNothing(q) == q

(* deque operations: the back is the last element. *)
PushFront(q, x) == <<x>> \o q
PopBack(q) == Front(q)

-----------------------------------------------------------------------------
(* The constructor has set done and self, and starts the workers. *)
Init ==
    /\ n_threads \in 1 .. MaxThreads
    /\ queue = [w \in Worker |-> <<>>]
    /\ m = [w \in Worker |-> NoWorker]
    /\ done = FALSE
    /\ pc = [w \in Worker |-> "unborn"]
    /\ pair = [w \in Worker |-> <<0, 0>>]
    /\ t = [w \in Worker |-> NoTask]
    /\ left = [w \in Worker |-> <<>>]
    /\ main = "constructor"
    /\ mainLeft = MainTasks
    /\ otherLeft = OtherTasks
    /\ submitted = <<>>
    /\ begun = <<>>

StartWorker ==
    /\ main = "constructor"
    /\ \E w \in Index \ Started :
         /\ \A u \in Index : u < w => u \in Started
         /\ GoTo(w, "pop")
    /\ main' = IF Cardinality(Started) + 1 = n_threads THEN "open" ELSE "constructor"
    /\ UNCHANGED <<n_threads, queue, m, done, pair, t, left, mainLeft, otherLeft,
                   submitted, begun>>

(* std::thread throws: done is set, and as the exception leaves the           *)
(* constructor the vector of running threads is destroyed: std::terminate.    *)
StartFails ==
    /\ main = "constructor"
    /\ done' = TRUE
    /\ main' = "terminated"
    /\ UNCHANGED <<n_threads, queue, m, threadVars, mainLeft, otherLeft, submitted, begun>>

(* submit(): a task goes to the front of a queue, under its mutex. *)
Submit(x, q) ==
    /\ m[q] = NoWorker
    /\ queue' = [queue EXCEPT ![q] = PushFront(@, x)]
    /\ submitted' = Append(submitted, x)
    /\ UNCHANGED <<n_threads, m, done, begun>>

(* In the thread that constructed the pool ind is BAD_INDEX: a random queue.  *)
SubmitByMain ==
    /\ main = "open"
    /\ mainLeft # <<>>
    /\ \E q \in Index : Submit(Head(mainLeft), q)
    /\ mainLeft' = Tail(mainLeft)
    /\ UNCHANGED <<threadVars, main, otherLeft>>

(* In any other thread that is not a worker ind is 0. *)
SubmitByOther ==
    /\ main = "open"
    /\ otherLeft # <<>>
    /\ Submit(Head(otherLeft), 0)
    /\ otherLeft' = Tail(otherLeft)
    /\ UNCHANGED <<threadVars, main, mainLeft>>

(* ~ThreadPool(): the flag, and the joins. *)
Destroy ==
    /\ main = "open"
    /\ done' = TRUE
    /\ main' = "joining"
    /\ UNCHANGED <<n_threads, queue, m, threadVars, mainLeft, otherLeft, submitted, begun>>

(* Mutant: the threads are not joined.                                        *)
JoinedAtOnce ==
    /\ main = "joining"
    /\ main' = "closed"
    /\ UNCHANGED <<n_threads, queue, m, done, threadVars, mainLeft, otherLeft,
                   submitted, begun>>

Joined ==
    /\ main = "joining"
    /\ \A w \in Index : pc[w] = "exited"
    /\ main' = "closed"
    /\ UNCHANGED <<n_threads, queue, m, done, threadVars, mainLeft, otherLeft,
                   submitted, begun>>

-----------------------------------------------------------------------------
(* worker(), while the process is there. *)

(* The worker has a task and calls it. *)
Take(w, x) ==
    /\ t' = [t EXCEPT ![w] = x]
    /\ left' = [left EXCEPT ![w] = Subtasks[x]]
    /\ begun' = Append(begun, x)
    /\ GoTo(w, "run")

(* Mutant: the last task of a queue is taken for none.                        *)
TryPopLocalButOne(w) ==
    /\ pc[w] = "pop"
    /\ m[w] = NoWorker
    /\ \/ /\ Len(queue[w]) > 1
          /\ Take(w, Last(queue[w]))
          /\ queue' = [queue EXCEPT ![w] = PopBack(@)]
       \/ /\ Len(queue[w]) <= 1
          /\ GoTo(w, IF n_threads < 2 THEN "check" ELSE "steal")
          /\ UNCHANGED <<queue, t, left, begun>>
    /\ UNCHANGED <<n_threads, m, done, pair, clientVars, submitted>>

(* tryPopLocal(): the back of the worker's own queue. *)
TryPopLocal(w) ==
    /\ pc[w] = "pop"
    /\ m[w] = NoWorker
    /\ \/ /\ queue[w] # <<>>
          /\ Take(w, Last(queue[w]))
          /\ queue' = [queue EXCEPT ![w] = PopBack(@)]
       \/ /\ queue[w] = <<>>
          /\ GoTo(w, IF n_threads < 2 THEN "check" ELSE "steal")
          /\ UNCHANGED <<queue, t, left, begun>>
    /\ UNCHANGED <<n_threads, m, done, pair, clientVars, submitted>>

(* trySteal(): two queues, any two, and the mutex of the first. *)
LockFirst(w) ==
    /\ pc[w] = "steal"
    /\ \E p \in Pairs :
         /\ m[p[1]] = NoWorker
         /\ pair' = [pair EXCEPT ![w] = p]
         /\ m' = [m EXCEPT ![p[1]] = w]
    /\ GoTo(w, "locked")
    /\ UNCHANGED <<n_threads, queue, done, t, left, clientVars, submitted, begun>>

(* The mutex of the second; a task moves from the longer queue to the shorter,*)
(* or to the worker itself when the shorter is its own.                       *)
Move(w, from, to) ==
    /\ Len(queue[from]) > Len(queue[to])
    /\ \/ /\ to = w
          /\ Take(w, Last(queue[from]))
          /\ queue' = [queue EXCEPT ![from] = PopBack(@)]
       \/ /\ to # w
          /\ queue' = [queue EXCEPT ![from] = PopBack(@),
                                    ![to] = PushFront(@, Last(queue[from]))]
          /\ GoTo(w, "check")
          /\ UNCHANGED <<t, left, begun>>

Steal(w) ==
    LET th1 == pair[w][1]
        th2 == pair[w][2]
    IN /\ pc[w] = "locked"
       /\ m[th2] = NoWorker
       /\ \/ Move(w, th1, th2)
          \/ Move(w, th2, th1)
          \/ /\ Len(queue[th1]) = Len(queue[th2])
             /\ GoTo(w, "check")
             /\ UNCHANGED <<queue, t, left, begun>>
       /\ m' = [m EXCEPT ![th1] = NoWorker]
       /\ pair' = [pair EXCEPT ![w] = <<0, 0>>]
       /\ UNCHANGED <<n_threads, done, clientVars, submitted>>

(* Mutant: done is not looked at.                                             *)
CheckNot(w) ==
    /\ pc[w] = "check"
    /\ GoTo(w, "pop")
    /\ UNCHANGED <<n_threads, queue, m, done, pair, t, left, clientVars, submitted, begun>>

(* Neither gave a task: the worker ends if done is set. *)
Check(w) ==
    /\ pc[w] = "check"
    /\ GoTo(w, IF done THEN "exited" ELSE "pop")
    /\ UNCHANGED <<n_threads, queue, m, done, pair, t, left, clientVars, submitted, begun>>

(* The task submits a task: ind is the worker's own index. *)
SubmitByTask(w) ==
    /\ pc[w] = "run"
    /\ left[w] # <<>>
    /\ Submit(Head(left[w]), w)
    /\ left' = [left EXCEPT ![w] = Tail(@)]
    /\ UNCHANGED <<pc, pair, t, clientVars>>

(* Mutant: done is looked at after a task, too.                               *)
FinishChecks(w) ==
    /\ pc[w] = "run"
    /\ left[w] = <<>>
    /\ t' = [t EXCEPT ![w] = NoTask]
    /\ GoTo(w, "check")
    /\ UNCHANGED <<n_threads, queue, m, done, pair, left, clientVars, submitted, begun>>

Finish(w) ==
    /\ pc[w] = "run"
    /\ left[w] = <<>>
    /\ t' = [t EXCEPT ![w] = NoTask]
    /\ GoTo(w, "pop")
    /\ UNCHANGED <<n_threads, queue, m, done, pair, left, clientVars, submitted, begun>>

(* The task throws: done is set, and the exception leaves the thread. *)
Throw(w) ==
    /\ pc[w] = "run"
    /\ t[w] \in MayThrow
    /\ done' = TRUE
    /\ GoTo(w, "throw")
    /\ UNCHANGED <<n_threads, queue, m, pair, t, left, clientVars, submitted, begun>>

Terminate(w) ==
    /\ pc[w] = "throw"
    /\ main' = "terminated"
    /\ UNCHANGED <<n_threads, queue, m, done, threadVars, mainLeft, otherLeft,
                   submitted, begun>>

WorkerStep(w) ==
    /\ main # "terminated"
    /\ \/ TryPopLocal(w)
       \/ LockFirst(w)
       \/ Steal(w)
       \/ Check(w)
       \/ SubmitByTask(w)
       \/ Finish(w)
       \/ Throw(w)
       \/ Terminate(w)

Ended == main \in {"closed", "terminated"} /\ UNCHANGED vars

Next ==
    \/ StartWorker
    \/ StartFails
    \/ SubmitByMain
    \/ SubmitByOther
    \/ Destroy
    \/ Joined
    \/ \E w \in Worker : WorkerStep(w)
    \/ Ended

(* The scheduler runs every worker and the joining thread; no order is        *)
(* promised among those that wait for a mutex.                                *)
Fairness ==
    /\ \A w \in Worker : WF_vars(WorkerStep(w))
    /\ WF_vars(Joined)

Spec == Init /\ [][Next]_vars
FairSpec == Spec /\ Fairness
-----------------------------------------------------------------------------
(* Type invariant. *)
TypeOK ==
    /\ n_threads \in 1 .. MaxThreads
    /\ queue \in [Worker -> Seq(Task)]
    /\ m \in [Worker -> Worker \cup {NoWorker}]
    /\ done \in BOOLEAN
    /\ pc \in [Worker -> {"unborn", "pop", "steal", "locked", "check", "run", "throw", "exited"}]
    /\ pair \in [Worker -> Worker \X Worker]
    /\ t \in [Worker -> Task \cup {NoTask}]
    /\ left \in [Worker -> Seq(Task)]
    /\ main \in {"constructor", "open", "joining", "closed", "terminated"}
    /\ mainLeft \in Seq(Task) /\ otherLeft \in Seq(Task)
    /\ submitted \in Seq(Task) /\ begun \in Seq(Task)

Waits(x) == x \in ToSet(submitted) \ ToSet(begun)
Runs(x) == \E w \in Worker : t[w] = x

(* A task that waits is at one place in one queue, and a task that has been   *)
(* taken is in none: balancing the queues loses and doubles no task.          *)
TaskInOnePlace ==
    /\ \A x \in Task :
         Cardinality({p \in Worker \X (1 .. Len(submitted)) :
                        p[2] <= Len(queue[p[1]]) /\ queue[p[1]][p[2]] = x})
           = IF Waits(x) THEN 1 ELSE 0
    /\ \A i, j \in 1 .. Len(begun) : begun[i] = begun[j] => i = j

(* The queues hold tasks, and each waiting task once. *)
TasksAccounted == TypeOK /\ TaskInOnePlace

(* How far a task has come. *)
StageOf(x) == CASE Runs(x)                           -> "running"
                [] x \in ToSet(begun) /\ ~Runs(x)    -> "finished"
                [] Waits(x)                          -> "waiting"
                [] OTHER                             -> "new"

T == INSTANCE Tasks WITH
        stage <- [x \in Task |-> StageOf(x)],
        closed <- (main = "closed")

(* Each task is run once at most, by one worker, and none is run, submitted   *)
(* or still running once the destructor has returned.                         *)
ImplementsTasks == T!Spec

(* Workers that hold a mutex and wait for another never wait in a circle:     *)
(* trySteal takes the lower queue's mutex first.                              *)
NoLockCycle ==
    \A S \in (SUBSET Worker) \ {{}} :
        ~ \A w \in S : pc[w] = "locked" /\ m[pair[w][2]] \in S

(* A pool of one worker runs the tasks in the order of their submission:      *)
(* submit() fills the front of the queue and the worker empties the back.     *)
(* Destroyed, it may leave tasks that a client submitted last, but none that  *)
(* a task submitted: the worker looks into its queue again after every task.  *)
AloneInOrder ==
    n_threads = 1 =>
        /\ IsPrefix(begun, submitted)
        /\ main = "closed" =>
             \A x \in Task : ToSet(Subtasks[x]) \cap ToSet(submitted) \subseteq ToSet(begun)

(* The destructor returns, unless a task ends the process: every worker sees  *)
(* the flag, whatever the others move between the queues meanwhile.           *)
ShutdownEnds == main = "joining" ~> main \in {"closed", "terminated"}

(* While the pool is open its one worker takes every task at last.  With two  *)
(* workers or more this is left to chance: a worker that finds a task in its  *)
(* own queue while it balances gives it to another, which may do the same.    *)
EveryTaskRuns ==
    \A x \in Task : (n_threads = 1 /\ Waits(x)) ~> (~Waits(x) \/ done)
=============================================================================
