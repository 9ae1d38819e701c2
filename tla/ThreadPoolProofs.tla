-------------------------- MODULE ThreadPoolProofs --------------------------
(* For every number of workers: the workers of ThreadPool that balance their  *)
(* queues never wait for each other's mutexes in a circle.                    *)
EXTENDS ThreadPool, FiniteSetTheorems, WellFoundedInduction, TLAPS

Place == {"unborn", "pop", "steal", "locked", "check", "run", "throw", "exited"}

Shape ==
    /\ n_threads \in 1 .. MaxThreads
    /\ m \in [Worker -> Worker \cup {NoWorker}]
    /\ pc \in [Worker -> Place]
    /\ pair \in [Worker -> Worker \X Worker]

(* A worker between the two lock_guards of trySteal holds the mutex of the    *)
(* first of its two queues, which is the lower one.                           *)
HoldsLower ==
    \A w \in Worker : pc[w] = "locked" =>
        pair[w][1] < pair[w][2] /\ m[pair[w][1]] = w

(* Only such a worker holds a mutex from one step to the next. *)
HeldInSteal ==
    \A q \in Worker : m[q] # NoWorker => pc[m[q]] = "locked" /\ pair[m[q]][1] = q

LockInv == Shape /\ HoldsLower /\ HeldInSteal

lockVars == <<n_threads, m, pc, pair>>

-----------------------------------------------------------------------------
LEMMA InitLocks == Init => LockInv
BY MaxThreadsAssumption DEF Init, LockInv, Shape, HoldsLower, HeldInSteal, Place, Worker

(* A step that moves one worker from a place outside trySteal to another, and *)
(* touches no mutex.                                                          *)
LEMMA MovesOutside ==
    ASSUME LockInv, NEW w \in Worker, NEW place \in Place \ {"locked"},
           pc[w] # "locked", GoTo(w, place), UNCHANGED <<n_threads, m, pair>>
    PROVE  LockInv'
BY NoWorkerAssumption DEF LockInv, Shape, HoldsLower, HeldInSteal, GoTo, Worker

LEMMA IndexInWorker == Shape => Index \subseteq Worker
<1> SUFFICES ASSUME Shape, NEW i \in Index
             PROVE  i \in Worker
    OBVIOUS
<1>1. n_threads \in Nat /\ n_threads <= MaxThreads
      BY MaxThreadsAssumption DEF Shape
<1> QED BY <1>1, MaxThreadsAssumption DEF Index, Worker

LEMMA StuttersOnLocks ==
    ASSUME LockInv, UNCHANGED lockVars
    PROVE  LockInv'
BY DEF LockInv, Shape, HoldsLower, HeldInSteal, lockVars

LEMMA LocksFirst ==
    ASSUME LockInv, NEW w \in Worker, LockFirst(w)
    PROVE  LockInv'
<1>1. PICK p \in Pairs :
          /\ m[p[1]] = NoWorker
          /\ pair' = [pair EXCEPT ![w] = p]
          /\ m' = [m EXCEPT ![p[1]] = w]
      BY DEF LockFirst
<1>2. p \in Worker \X Worker /\ p[1] < p[2]
      <2>1. Index \subseteq Worker
            BY IndexInWorker DEF LockInv
      <2>2. p \in Index \X Index /\ p[1] < p[2]
            BY DEF Pairs
      <2>3. p[1] \in Index /\ p[2] \in Index /\ p = <<p[1], p[2]>>
            BY <2>2
      <2> HIDE DEF Index
      <2> QED BY <2>1, <2>2, <2>3
<1>3. pc' = [pc EXCEPT ![w] = "locked"] /\ n_threads' = n_threads /\ pc[w] = "steal"
      BY DEF LockFirst, GoTo
<1>4. Shape'
      BY <1>1, <1>2, <1>3 DEF LockInv, Shape, Place
<1>5. HoldsLower'
      <2> SUFFICES ASSUME NEW u \in Worker, pc'[u] = "locked"
                   PROVE  pair'[u][1] < pair'[u][2] /\ m'[pair'[u][1]] = u
          BY DEF HoldsLower
      <2>1. CASE u = w
            BY <1>1, <1>2, <2>1 DEF LockInv, Shape
      <2>2. CASE u # w
            <3>1. pair'[u] = pair[u] /\ pc[u] = "locked"
                  BY <1>1, <1>3, <2>2 DEF LockInv, Shape
            <3>2. pair[u][1] < pair[u][2] /\ m[pair[u][1]] = u /\ pair[u][1] \in Worker
                  BY <3>1 DEF LockInv, HoldsLower, Shape
            <3>3. pair[u][1] # p[1]
                  BY <1>1, <3>2, NoWorkerAssumption DEF Worker
            <3> QED BY <1>1, <3>1, <3>2, <3>3 DEF LockInv, Shape
      <2> QED BY <2>1, <2>2
<1>6. HeldInSteal'
      BY <1>1, <1>2, <1>3, NoWorkerAssumption DEF LockInv, Shape, HeldInSteal, Worker
<1> QED BY <1>4, <1>5, <1>6 DEF LockInv

LEMMA Steals ==
    ASSUME LockInv, NEW w \in Worker, Steal(w)
    PROVE  LockInv'
<1>1. /\ pc[w] = "locked" /\ n_threads' = n_threads
      /\ m' = [m EXCEPT ![pair[w][1]] = NoWorker]
      /\ pair' = [pair EXCEPT ![w] = <<0, 0>>]
      BY DEF Steal
<1>2. pc' = [pc EXCEPT ![w] = "run"] \/ pc' = [pc EXCEPT ![w] = "check"]
      BY DEF Steal, Move, Take, GoTo
<1>3. 0 \in Worker
      BY MaxThreadsAssumption DEF Worker
<1>4. Shape'
      BY <1>1, <1>2, <1>3 DEF LockInv, Shape, Place
<1>5. HoldsLower'
      <2> SUFFICES ASSUME NEW u \in Worker, pc'[u] = "locked"
                   PROVE  pair'[u][1] < pair'[u][2] /\ m'[pair'[u][1]] = u
          BY DEF HoldsLower
      <2>1. u # w /\ pc[u] = "locked" /\ pair'[u] = pair[u]
            BY <1>1, <1>2 DEF LockInv, Shape
      <2>2. pair[u][1] < pair[u][2] /\ m[pair[u][1]] = u /\ pair[u][1] \in Worker
            BY <2>1 DEF LockInv, HoldsLower, Shape
      <2>3. m[pair[w][1]] = w /\ pair[w][1] \in Worker
            BY <1>1 DEF LockInv, HoldsLower, Shape
      <2>4. pair[u][1] # pair[w][1]
            BY <2>1, <2>2, <2>3
      <2> QED BY <1>1, <2>1, <2>2, <2>4 DEF LockInv, Shape
<1>6. HeldInSteal'
      <2> SUFFICES ASSUME NEW q \in Worker, m'[q] # NoWorker
                   PROVE  pc'[m'[q]] = "locked" /\ pair'[m'[q]][1] = q
          BY DEF HeldInSteal
      <2>1. q # pair[w][1] /\ m'[q] = m[q]
            BY <1>1 DEF LockInv, Shape
      <2>2. m[q] \in Worker /\ pc[m[q]] = "locked" /\ pair[m[q]][1] = q
            BY <2>1 DEF LockInv, Shape, HeldInSteal
      <2>3. m[q] # w
            BY <2>1, <2>2
      <2> QED BY <1>1, <1>2, <2>1, <2>2, <2>3 DEF LockInv, Shape
<1> QED BY <1>4, <1>5, <1>6 DEF LockInv

LEMMA NextLocks == LockInv /\ [Next]_vars => LockInv'
<1> SUFFICES ASSUME LockInv, [Next]_vars
             PROVE  LockInv'
    OBVIOUS
<1>1. CASE StartWorker
      <2>1. PICK w \in Index \ Started : GoTo(w, "pop")
            BY <1>1 DEF StartWorker
      <2>2. w \in Worker /\ pc[w] = "unborn"
            BY <2>1, IndexInWorker DEF Started, LockInv
      <2> QED BY <1>1, <2>1, <2>2, MovesOutside DEF StartWorker, Place
<1>2. CASE StartFails \/ SubmitByMain \/ SubmitByOther \/ Destroy \/ Joined \/ Ended
      BY <1>2, StuttersOnLocks
      DEF StartFails, SubmitByMain, SubmitByOther, Submit, Destroy, Joined, Ended,
          lockVars, threadVars, vars
<1>3. ASSUME NEW w \in Worker, WorkerStep(w)
      PROVE  LockInv'
      <2>1. CASE TryPopLocal(w)
            <3>1. GoTo(w, "run") \/ GoTo(w, "check") \/ GoTo(w, "steal")
                  BY <2>1 DEF TryPopLocal, Take
            <3>2. pc[w] = "pop" /\ UNCHANGED <<n_threads, m, pair>>
                  BY <2>1 DEF TryPopLocal
            <3> QED BY <3>1, <3>2, MovesOutside DEF Place
      <2>2. CASE LockFirst(w)
            BY <2>2, LocksFirst
      <2>3. CASE Steal(w)
            BY <2>3, Steals
      <2>4. CASE Check(w)
            <3>1. GoTo(w, "exited") \/ GoTo(w, "pop")
                  BY <2>4 DEF Check
            <3> QED BY <2>4, <3>1, MovesOutside DEF Check, Place
      <2>5. CASE SubmitByTask(w) \/ Terminate(w)
            BY <2>5, StuttersOnLocks
            DEF SubmitByTask, Submit, Terminate, lockVars, threadVars
      <2>6. CASE Finish(w)
            BY <2>6, MovesOutside DEF Finish, Place
      <2>7. CASE Throw(w)
            BY <2>7, MovesOutside DEF Throw, Place
      <2> QED BY <1>3, <2>1, <2>2, <2>3, <2>4, <2>5, <2>6, <2>7 DEF WorkerStep
<1>4. CASE UNCHANGED vars
      BY <1>4, StuttersOnLocks DEF vars, threadVars, lockVars
<1> QED BY <1>1, <1>2, <1>3, <1>4 DEF Next

-----------------------------------------------------------------------------
(* The highest of the mutexes that a set of workers waits for: nobody of the  *)
(* set holds it, for its holder would wait for a higher one.                  *)
LEMMA SomeoneWaitsHighest ==
    ASSUME LockInv, NEW S \in SUBSET Worker, S # {}
    PROVE  \E w \in S : \A u \in S : pair[u][2] <= pair[w][2]
<1> DEFINE Second(w) == pair[w][2]
           Less == {ss \in Nat \X Nat : ss[1] < ss[2]}
           Below == {MaxThreads - Second(w) : w \in S}
<1>1. \A w \in S : Second(w) \in Int /\ MaxThreads - Second(w) \in Nat
      <2> TAKE w \in S
      <2>1. pair[w] \in Worker \X Worker
            BY DEF LockInv, Shape
      <2>2. Second(w) \in Worker
            BY <2>1
      <2> QED BY <2>2, MaxThreadsAssumption DEF Worker
<1>2. PICK s : s \in S
      OBVIOUS
<1> HIDE DEF Second
<1>3. Below \subseteq Nat /\ MaxThreads - Second(s) \in Below
      BY <1>1, <1>2
<1>4. IsWellFoundedOn(Less, Nat)
      BY NatLessThanWellFounded DEF OpToRel
<1>5. PICK x \in Below : \A y \in Below : ~(<<y, x>> \in Less)
      <2> HIDE DEF Below
      <2> QED BY <1>3, <1>4, WFMin
<1>6. \A y \in Below : ~(y < x)
      <2> SUFFICES ASSUME NEW y \in Below, y < x
                   PROVE  FALSE
          OBVIOUS
      <2>1. y \in Nat /\ x \in Nat
            BY <1>3
      <2> HIDE DEF Below
      <2>2. <<y, x>> \in Less
            BY <2>1 DEF Less
      <2> QED BY <1>5, <2>2
<1>7. PICK w \in S : x = MaxThreads - Second(w)
      OBVIOUS
<1>8. \A u \in S : Second(u) <= Second(w)
      <2> TAKE u \in S
      <2>1. ~(MaxThreads - Second(u) < MaxThreads - Second(w))
            BY <1>6, <1>7
      <2> QED BY <2>1, <1>1, MaxThreadsAssumption
<1> QED BY <1>8 DEF Second

LEMMA NoCircle == LockInv => NoLockCycle
<1> SUFFICES ASSUME LockInv, NEW S \in (SUBSET Worker) \ {{}},
                    \A w \in S : pc[w] = "locked" /\ m[pair[w][2]] \in S
             PROVE  FALSE
    BY DEF NoLockCycle
<1>1. PICK w \in S : \A u \in S : pair[u][2] <= pair[w][2]
      <2>1. S \in SUBSET Worker /\ S # {}
            OBVIOUS
      <2> QED BY <2>1, SomeoneWaitsHighest
<1> DEFINE u == m[pair[w][2]]
<1>2. w \in Worker /\ u \in Worker /\ u \in S /\ pc[u] = "locked" /\ pair[w][2] \in Worker
      BY DEF LockInv, Shape
<1>3. pair[u][1] = pair[w][2]
      BY <1>2, NoWorkerAssumption DEF LockInv, HeldInSteal, Worker
<1>4. pair[u][1] < pair[u][2]
      BY <1>2 DEF LockInv, HoldsLower
<1>5. pair[u][2] <= pair[w][2]
      BY <1>1, <1>2
<1> QED BY <1>2, <1>3, <1>4, <1>5 DEF LockInv, Shape, Worker

(* trySteal takes the mutex of the lower queue first (thread_pool.hpp:58), so *)
(* that no set of workers waits in a circle, however many there are.          *)
THEOREM StealersNeverDeadlock == Spec => []NoLockCycle
<1>1. Init => LockInv
      BY InitLocks
<1>2. LockInv /\ [Next]_vars => LockInv'
      BY NextLocks
<1>3. LockInv => NoLockCycle
      BY NoCircle
<1> QED BY <1>1, <1>2, <1>3, PTL DEF Spec

-----------------------------------------------------------------------------
(* What the operations of a deque do to the set of its tasks. *)
LEMMA BeforeLast ==
    ASSUME NEW S, NEW s \in Seq(S), s # <<>>
    PROVE  /\ Last(s) \in S /\ Front(s) \in Seq(S)
           /\ ToSet(s) = ToSet(Front(s)) \cup {Last(s)}
           /\ IsInjective(s) => IsInjective(Front(s)) /\ Last(s) \notin ToSet(Front(s))
<1> DEFINE f == Front(s)
           n == Len(s)
<1>1. n \in Nat /\ n > 0 /\ s \in [1 .. n -> S]
      OBVIOUS
<1>2. f = SubSeq(s, 1, n - 1)
      BY DEF Front
<1>3. f \in Seq(S) /\ Len(f) = n - 1 /\ \A i \in 1 .. n - 1 : f[i] = s[i]
      BY <1>1, <1>2
<1>4. DOMAIN f = 1 .. n - 1 /\ DOMAIN s = 1 .. n
      BY <1>1, <1>3
<1>0. n \in Nat /\ n > 0
      BY <1>1
<1> HIDE DEF f, n
<1>5. \A i \in 1 .. n : i \in 1 .. n - 1 \/ i = n
      BY <1>0
<1>6. n \in 1 .. n /\ n \notin 1 .. n - 1 /\ \A i \in 1 .. n - 1 : i \in 1 .. n
      BY <1>0
<1>7. s[n] \in S /\ Last(s) = s[n]
      BY <1>1, <1>6 DEF Last, n
<1>8. ToSet(s) = ToSet(f) \cup {s[n]}
      BY <1>3, <1>4, <1>5, <1>6 DEF ToSet
<1>9. IsInjective(s) => IsInjective(f) /\ s[n] \notin ToSet(f)
      BY <1>3, <1>4, <1>6 DEF IsInjective, ToSet
<1> QED BY <1>3, <1>7, <1>8, <1>9 DEF f

LEMMA AfterHead ==
    ASSUME NEW S, NEW s \in Seq(S), s # <<>>
    PROVE  /\ Head(s) \in S /\ Tail(s) \in Seq(S)
           /\ ToSet(s) = ToSet(Tail(s)) \cup {Head(s)}
           /\ IsInjective(s) => IsInjective(Tail(s)) /\ Head(s) \notin ToSet(Tail(s))
<1> DEFINE r == Tail(s)
           n == Len(s)
<1>1. n \in Nat /\ n > 0 /\ s \in [1 .. n -> S] /\ Head(s) = s[1]
      OBVIOUS
<1>2. r \in Seq(S) /\ Len(r) = n - 1 /\ \A i \in 1 .. n - 1 : r[i] = s[i + 1]
      OBVIOUS
<1>3. DOMAIN r = 1 .. n - 1 /\ DOMAIN s = 1 .. n
      BY <1>1, <1>2
<1> HIDE DEF r, n
<1>0. n \in Nat /\ n > 0
      BY <1>1
<1>4. \A i \in 1 .. n : i = 1 \/ (i - 1 \in 1 .. n - 1 /\ i - 1 + 1 = i)
      BY <1>0
<1>5. /\ 1 \in 1 .. n
      /\ \A i \in 1 .. n - 1 : i + 1 \in 1 .. n /\ i + 1 # 1
      /\ \A i, j \in 1 .. n - 1 : i + 1 = j + 1 => i = j
      BY <1>0
<1>6. ToSet(s) = ToSet(r) \cup {s[1]}
      <2>1. ASSUME NEW x \in ToSet(s)
            PROVE  x \in ToSet(r) \cup {s[1]}
            <3>1. PICK i \in 1 .. n : x = s[i]
                  BY <1>3, <2>1 DEF ToSet
            <3>2. i # 1 => x = r[i - 1] /\ i - 1 \in DOMAIN r
                  BY <1>2, <1>3, <1>4, <3>1
            <3> QED BY <3>1, <3>2 DEF ToSet
      <2>2. ToSet(r) \subseteq ToSet(s)
            BY <1>2, <1>3, <1>5 DEF ToSet
      <2>3. s[1] \in ToSet(s)
            BY <1>3, <1>5 DEF ToSet
      <2> QED BY <2>1, <2>2, <2>3
<1>7. ASSUME IsInjective(s)
      PROVE  IsInjective(r) /\ s[1] \notin ToSet(r)
      <2>1. IsInjective(r)
            BY <1>2, <1>3, <1>5, <1>7 DEF IsInjective
      <2>2. s[1] \notin ToSet(r)
            BY <1>2, <1>3, <1>5, <1>7 DEF IsInjective, ToSet
      <2> QED BY <2>1, <2>2
<1>8. s[1] \in S
      BY <1>1, <1>5
<1> QED BY <1>1, <1>2, <1>6, <1>7, <1>8 DEF r

LEMMA Pushed ==
    ASSUME NEW S, NEW s \in Seq(S), NEW x \in S
    PROVE  /\ PushFront(s, x) \in Seq(S) /\ PushFront(s, x) # <<>>
           /\ ToSet(PushFront(s, x)) = ToSet(s) \cup {x}
           /\ IsInjective(s) /\ x \notin ToSet(s) => IsInjective(PushFront(s, x))
<1> DEFINE q == PushFront(s, x)
<1>1. q \in Seq(S) /\ q # <<>> /\ Head(q) = x /\ Tail(q) = s
      BY DEF PushFront
<1> HIDE DEF q
<1>2. ToSet(q) = ToSet(s) \cup {x}
      BY <1>1, AfterHead
<1>3. ASSUME IsInjective(s), x \notin ToSet(s)
      PROVE  IsInjective(q)
      <2> DEFINE n == Len(q)
      <2>1. n \in Nat /\ DOMAIN q = 1 .. n /\ q[1] = x
            BY <1>1
      <2>2. DOMAIN s = 1 .. n - 1 /\ \A i \in 1 .. n - 1 : q[i + 1] = s[i]
            <3>1. Len(s) = n - 1
                  BY <1>1
            <3>2. \A i \in 1 .. Len(s) : q[i + 1] = s[i]
                  BY DEF q, PushFront
            <3>3. DOMAIN s = 1 .. Len(s)
                  OBVIOUS
            <3> QED BY <3>1, <3>2, <3>3
      <2> HIDE DEF n
      <2>3. /\ \A i \in 1 .. n : i = 1 \/ (i - 1 \in 1 .. n - 1 /\ i - 1 + 1 = i)
            /\ \A i, j \in 1 .. n : i - 1 = j - 1 => i = j
            BY <2>1
      <2>4. \A i \in 1 .. n : i # 1 => i - 1 \in DOMAIN s /\ q[i] = s[i - 1]
            BY <2>2, <2>3
      <2>5. ASSUME NEW i \in 1 .. n, NEW j \in 1 .. n, q[i] = q[j]
            PROVE  i = j
            <3>1. \A k \in 1 .. n : k # 1 => q[k] # x
                  BY <1>3, <2>4 DEF ToSet
            <3>2. CASE i = 1 \/ j = 1
                  BY <2>1, <2>5, <3>1, <3>2
            <3>3. CASE i # 1 /\ j # 1
                  <4>1. i - 1 \in DOMAIN s /\ j - 1 \in DOMAIN s /\ s[i - 1] = s[j - 1]
                        BY <2>4, <2>5, <3>3
                  <4>2. i - 1 = j - 1
                        BY <1>3, <4>1 DEF IsInjective
                  <4> QED BY <2>3, <4>2
            <3> QED BY <3>2, <3>3
      <2> QED BY <2>1, <2>5 DEF IsInjective
<1> QED BY <1>1, <1>2, <1>3 DEF q

LEMMA Appended ==
    ASSUME NEW S, NEW s \in Seq(S), NEW x \in S
    PROVE  /\ Append(s, x) \in Seq(S)
           /\ ToSet(Append(s, x)) = ToSet(s) \cup {x}
           /\ IsInjective(s) /\ x \notin ToSet(s) => IsInjective(Append(s, x))
<1> DEFINE q == Append(s, x)
           n == Len(s)
<1>1. /\ q \in Seq(S) /\ n \in Nat /\ DOMAIN q = 1 .. n + 1 /\ DOMAIN s = 1 .. n
      /\ q[n + 1] = x /\ \A i \in 1 .. n : q[i] = s[i]
      OBVIOUS
<1> HIDE DEF q, n
<1>2. /\ \A i \in 1 .. n + 1 : i \in 1 .. n \/ i = n + 1
      /\ n + 1 \in 1 .. n + 1 /\ \A i \in 1 .. n : i \in 1 .. n + 1
      BY <1>1
<1>3. ToSet(q) = ToSet(s) \cup {x}
      BY <1>1, <1>2 DEF ToSet
<1>4. IsInjective(s) /\ x \notin ToSet(s) => IsInjective(q)
      BY <1>1, <1>2 DEF IsInjective, ToSet
<1> QED BY <1>1, <1>3, <1>4 DEF q

LEMMA ElementsOf ==
    ASSUME NEW S, NEW s \in Seq(S)
    PROVE  /\ ToSet(s) \subseteq S
           /\ ToSet(s) = {} <=> s = <<>>
           /\ \A x : x \in ToSet(s) <=> \E i \in 1 .. Len(s) : s[i] = x
<1>1. DOMAIN s = 1 .. Len(s) /\ \A i \in 1 .. Len(s) : s[i] \in S
      OBVIOUS
<1>2. \A x : x \in ToSet(s) <=> \E i \in 1 .. Len(s) : s[i] = x
      BY <1>1 DEF ToSet
<1>3. s # <<>> => 1 \in 1 .. Len(s)
      OBVIOUS
<1>4. s = <<>> => 1 .. Len(s) = {}
      OBVIOUS
<1> QED BY <1>1, <1>2, <1>3, <1>4 DEF ToSet

-----------------------------------------------------------------------------
(* The tasks are accounted for. *)
Submitted == ToSet(submitted)
Begun == ToSet(begun)
Queued(w) == ToSet(queue[w])

(* A worker has a task from when it takes it until the call returns, and no   *)
(* two have the same.                                                         *)
OneTaskEach ==
    /\ \A w \in Worker : t[w] # NoTask <=> pc[w] \in {"run", "throw"}
    /\ \A w \in Worker : t[w] # NoTask => t[w] \in Begun
    /\ \A w \in Worker : left[w] # <<>> => t[w] # NoTask
    /\ \A w, u \in Worker : t[w] # NoTask /\ t[w] = t[u] => w = u

(* The queues hold the tasks that wait, each once. *)
QueuesHoldWaiting ==
    /\ IsInjective(begun) /\ Begun \subseteq Submitted
    /\ \A w \in Worker : IsInjective(queue[w])
    /\ \A w, u \in Worker : w # u => Queued(w) \cap Queued(u) = {}
    /\ \A x \in Task :
         x \in Submitted \ Begun <=> \E w \in Worker : x \in Queued(w)

(* What a submitter has left has not been submitted, by it or by another. *)
LeftIsNew ==
    /\ IsInjective(mainLeft) /\ ToSet(mainLeft) \subseteq ToSet(MainTasks) \ Submitted
    /\ IsInjective(otherLeft) /\ ToSet(otherLeft) \subseteq ToSet(OtherTasks) \ Submitted
    /\ \A w \in Worker :
         /\ IsInjective(left[w])
         /\ left[w] # <<>> => ToSet(left[w]) \subseteq ToSet(Subtasks[t[w]]) \ Submitted
    /\ \A x \in Task \ Begun : ToSet(Subtasks[x]) \cap Submitted = {}

(* Only the workers the constructor started run, and none once the destructor *)
(* has returned.                                                              *)
RunWhileOpen ==
    /\ Started \subseteq Index
    /\ main = "closed" => \A w \in Index : pc[w] = "exited"

DataOK ==
    /\ queue \in [Worker -> Seq(Task)]
    /\ done \in BOOLEAN
    /\ t \in [Worker -> Task \cup {NoTask}]
    /\ left \in [Worker -> Seq(Task)]
    /\ main \in {"constructor", "open", "joining", "closed", "terminated"}
    /\ mainLeft \in Seq(Task) /\ otherLeft \in Seq(Task)
    /\ submitted \in Seq(Task) /\ begun \in Seq(Task)

TasksInv == DataOK /\ OneTaskEach /\ QueuesHoldWaiting /\ LeftIsNew /\ RunWhileOpen
PoolInv == LockInv /\ TasksInv

LEMMA PoolTypes == PoolInv => TypeOK
BY DEF PoolInv, TasksInv, LockInv, Shape, Place, DataOK, TypeOK

LEMMA InitPool == Init => PoolInv
<1> SUFFICES ASSUME Init
             PROVE  PoolInv
    OBVIOUS
<1>1. ToSet(<<>>) = {} /\ IsInjective(<<>>) /\ <<>> \in Seq(Task)
      BY DEF ToSet, IsInjective
<1>2. DataOK
      BY <1>1, TaskAssumption DEF Init, DataOK
<1>3. OneTaskEach
      BY DEF Init, OneTaskEach
<1>4. QueuesHoldWaiting
      BY <1>1 DEF Init, QueuesHoldWaiting, Submitted, Begun, Queued
<1>5. LeftIsNew
      BY <1>1, SubmittedOnceAssumption DEF Init, LeftIsNew, Submitted, Begun
<1>6. RunWhileOpen
      BY DEF Init, RunWhileOpen, Started
<1> QED BY <1>2, <1>3, <1>4, <1>5, <1>6, InitLocks DEF PoolInv, TasksInv

(* What submit() does: the task is in one queue more. *)
LEMMA Submits ==
    ASSUME PoolInv, NEW x \in Task \ Submitted, NEW q \in Worker, Submit(x, q)
    PROVE  /\ Submitted' = Submitted \cup {x} /\ Begun' = Begun
           /\ queue' \in [Worker -> Seq(Task)] /\ submitted' \in Seq(Task)
           /\ QueuesHoldWaiting'
<1> DEFINE s == PushFront(queue[q], x)
<1>1. /\ queue' = [queue EXCEPT ![q] = s]
      /\ submitted' = Append(submitted, x) /\ begun' = begun
      BY DEF Submit
<1>2. queue \in [Worker -> Seq(Task)] /\ queue[q] \in Seq(Task) /\ submitted \in Seq(Task)
      BY DEF PoolInv, TasksInv, DataOK
<1>3. x \notin Queued(q) /\ IsInjective(queue[q]) /\ \A w \in Worker : x \notin Queued(w)
      BY DEF PoolInv, TasksInv, QueuesHoldWaiting
<1>4. s \in Seq(Task) /\ ToSet(s) = Queued(q) \cup {x} /\ IsInjective(s)
      BY <1>2, <1>3, Pushed DEF Queued
<1>5. submitted' \in Seq(Task) /\ Submitted' = Submitted \cup {x}
      BY <1>1, <1>2, Appended DEF Submitted
<1> HIDE DEF s
<1>6. /\ queue' \in [Worker -> Seq(Task)] /\ queue'[q] = s
      /\ \A w \in Worker \ {q} : queue'[w] = queue[w]
      BY <1>1, <1>2, <1>4
<1>7. /\ Queued(q)' = Queued(q) \cup {x}
      /\ \A w \in Worker \ {q} : Queued(w)' = Queued(w)
      /\ Begun' = Begun
      BY <1>1, <1>4, <1>6 DEF Queued, Begun
<1>8. /\ IsInjective(begun)' /\ (Begun \subseteq Submitted)'
      /\ \A w \in Worker : IsInjective(queue'[w])
      BY <1>1, <1>4, <1>5, <1>6, <1>7 DEF PoolInv, TasksInv, QueuesHoldWaiting
<1>9. \A w, u \in Worker : w # u => Queued(w)' \cap Queued(u)' = {}
      BY <1>3, <1>7 DEF PoolInv, TasksInv, QueuesHoldWaiting
<1>10. \A y \in Task :
          y \in Submitted' \ Begun' <=> \E w \in Worker : y \in Queued(w)'
      <2> SUFFICES ASSUME NEW y \in Task
                   PROVE  y \in Submitted' \ Begun' <=> \E w \in Worker : y \in Queued(w)'
          OBVIOUS
      <2>1. y \in Submitted \ Begun <=> \E w \in Worker : y \in Queued(w)
            BY DEF PoolInv, TasksInv, QueuesHoldWaiting
      <2>2. x \notin Begun
            BY DEF PoolInv, TasksInv, QueuesHoldWaiting
      <2>3. (\E w \in Worker : y \in Queued(w)') <=> y = x \/ \E w \in Worker : y \in Queued(w)
            BY <1>7
      <2> QED BY <1>5, <1>7, <2>1, <2>2, <2>3
<1> QED BY <1>5, <1>6, <1>7, <1>8, <1>9, <1>10 DEF QueuesHoldWaiting

(* What taking the task at the back of a queue does. *)
LEMMA Takes ==
    ASSUME PoolInv, NEW w \in Worker, NEW from \in Worker, queue[from] # <<>>,
           Take(w, Last(queue[from])),
           queue' = [queue EXCEPT ![from] = PopBack(@)], UNCHANGED submitted
    PROVE  /\ Last(queue[from]) \in Task
           /\ Last(queue[from]) \in Submitted \ Begun
           /\ Begun' = Begun \cup {Last(queue[from])} /\ Submitted' = Submitted
           /\ queue' \in [Worker -> Seq(Task)] /\ begun' \in Seq(Task)
           /\ QueuesHoldWaiting'
<1> DEFINE x == Last(queue[from])
           s == Front(queue[from])
<1>1. queue' = [queue EXCEPT ![from] = s] /\ begun' = Append(begun, x) /\ submitted' = submitted
      BY DEF Take, PopBack
<1>2. queue \in [Worker -> Seq(Task)] /\ queue[from] \in Seq(Task) /\ begun \in Seq(Task)
      BY DEF PoolInv, TasksInv, DataOK
<1>3. IsInjective(queue[from])
      BY DEF PoolInv, TasksInv, QueuesHoldWaiting
<1>4. /\ x \in Task /\ s \in Seq(Task) /\ Queued(from) = ToSet(s) \cup {x}
      /\ IsInjective(s) /\ x \notin ToSet(s)
      BY <1>2, <1>3, BeforeLast DEF Queued
<1> HIDE DEF x, s
<1>5. x \in Submitted \ Begun
      BY <1>4 DEF PoolInv, TasksInv, QueuesHoldWaiting
<1>6. begun' \in Seq(Task) /\ Begun' = Begun \cup {x} /\ IsInjective(begun')
      BY <1>1, <1>2, <1>4, <1>5, Appended DEF Begun, PoolInv, TasksInv, QueuesHoldWaiting
<1>7. /\ queue' \in [Worker -> Seq(Task)] /\ queue'[from] = s
      /\ \A u \in Worker \ {from} : queue'[u] = queue[u]
      BY <1>1, <1>2, <1>4
<1>8. /\ Queued(from)' = Queued(from) \ {x}
      /\ \A u \in Worker \ {from} : Queued(u)' = Queued(u)
      /\ Submitted' = Submitted
      BY <1>1, <1>4, <1>7 DEF Queued, Submitted
<1>9. (Begun \subseteq Submitted)' /\ \A u \in Worker : IsInjective(queue'[u])
      BY <1>4, <1>5, <1>6, <1>7, <1>8 DEF PoolInv, TasksInv, QueuesHoldWaiting
<1>10. \A u, v \in Worker : u # v => Queued(u)' \cap Queued(v)' = {}
      BY <1>8 DEF PoolInv, TasksInv, QueuesHoldWaiting
<1>11. \A y \in Task :
          y \in Submitted' \ Begun' <=> \E u \in Worker : y \in Queued(u)'
      <2> SUFFICES ASSUME NEW y \in Task
                   PROVE  y \in Submitted' \ Begun' <=> \E u \in Worker : y \in Queued(u)'
          OBVIOUS
      <2>1. y \in Submitted \ Begun <=> \E u \in Worker : y \in Queued(u)
            BY DEF PoolInv, TasksInv, QueuesHoldWaiting
      <2>2. x \in Queued(from) /\ \A u \in Worker \ {from} : x \notin Queued(u)
            BY <1>4 DEF PoolInv, TasksInv, QueuesHoldWaiting
      <2>3. (\E u \in Worker : y \in Queued(u)') <=> y # x /\ \E u \in Worker : y \in Queued(u)
            BY <1>8, <2>2
      <2> QED BY <1>6, <1>8, <2>1, <2>3
<1> QED BY <1>4, <1>5, <1>6, <1>7, <1>8, <1>9, <1>10, <1>11 DEF x, QueuesHoldWaiting

(* What moving the task at the back of a queue to the front of another does. *)
LEMMA Moves ==
    ASSUME PoolInv, NEW from \in Worker, NEW to \in Worker \ {from}, queue[from] # <<>>,
           queue' = [queue EXCEPT ![from] = PopBack(@),
                                  ![to] = PushFront(@, Last(queue[from]))],
           UNCHANGED <<submitted, begun>>
    PROVE  queue' \in [Worker -> Seq(Task)] /\ QueuesHoldWaiting'
<1> DEFINE x == Last(queue[from])
           s == Front(queue[from])
           r == PushFront(queue[to], x)
<1>1. queue' = [queue EXCEPT ![from] = s, ![to] = r]
      BY DEF PopBack
<1>2. queue \in [Worker -> Seq(Task)] /\ queue[from] \in Seq(Task) /\ queue[to] \in Seq(Task)
      BY DEF PoolInv, TasksInv, DataOK
<1>3. /\ IsInjective(queue[from]) /\ IsInjective(queue[to])
      /\ Queued(from) \cap Queued(to) = {}
      BY DEF PoolInv, TasksInv, QueuesHoldWaiting
<1>4. /\ x \in Task /\ s \in Seq(Task) /\ Queued(from) = ToSet(s) \cup {x}
      /\ IsInjective(s) /\ x \notin ToSet(s)
      BY <1>2, <1>3, BeforeLast DEF Queued
<1>5. r \in Seq(Task) /\ ToSet(r) = Queued(to) \cup {x} /\ IsInjective(r)
      <2>1. x \notin ToSet(queue[to])
            BY <1>3, <1>4 DEF Queued
      <2> HIDE DEF x
      <2> QED BY <1>2, <1>3, <1>4, <2>1, Pushed DEF Queued
<1> HIDE DEF x, s, r
<1>6. /\ queue' \in [Worker -> Seq(Task)] /\ queue'[from] = s /\ queue'[to] = r
      /\ \A u \in Worker \ {from, to} : queue'[u] = queue[u]
      BY <1>1, <1>2, <1>4, <1>5
<1>7. /\ Queued(from)' = Queued(from) \ {x} /\ Queued(to)' = Queued(to) \cup {x}
      /\ \A u \in Worker \ {from, to} : Queued(u)' = Queued(u)
      /\ Submitted' = Submitted /\ Begun' = Begun
      BY <1>4, <1>5, <1>6 DEF Queued, Submitted, Begun
<1>8. /\ IsInjective(begun)' /\ (Begun \subseteq Submitted)'
      /\ \A u \in Worker : IsInjective(queue'[u])
      BY <1>4, <1>5, <1>6, <1>7 DEF PoolInv, TasksInv, QueuesHoldWaiting
<1>9. x \in Queued(from) /\ \A u \in Worker \ {from} : x \notin Queued(u)
      BY <1>4 DEF PoolInv, TasksInv, QueuesHoldWaiting
<1>10. \A u, v \in Worker : u # v => Queued(u)' \cap Queued(v)' = {}
      BY <1>7, <1>9 DEF PoolInv, TasksInv, QueuesHoldWaiting
<1>11. \A y \in Task : (\E u \in Worker : y \in Queued(u)') <=> \E u \in Worker : y \in Queued(u)
      BY <1>7, <1>9
<1> QED BY <1>6, <1>7, <1>8, <1>10, <1>11 DEF PoolInv, TasksInv, QueuesHoldWaiting

(* A worker that is between start and exit is one of the pool's, and the pool *)
(* has not been destroyed.                                                    *)
LEMMA RunningIsOpen ==
    ASSUME PoolInv, NEW w \in Worker, pc[w] \notin {"unborn", "exited"}
    PROVE  w \in Index /\ main # "closed"
BY DEF PoolInv, TasksInv, RunWhileOpen, Started

LEMMA SubmitsByMain ==
    ASSUME PoolInv, SubmitByMain
    PROVE  TasksInv'
<1> DEFINE x == Head(mainLeft)
<1>1. PICK q \in Index : Submit(x, q)
      BY DEF SubmitByMain
<1>2. /\ mainLeft # <<>> /\ main = "open" /\ mainLeft' = Tail(mainLeft)
      /\ UNCHANGED <<pc, pair, t, left, main, otherLeft>>
      BY DEF SubmitByMain, threadVars
<1>3. n_threads' = n_threads /\ done' = done
      BY <1>1 DEF Submit
<1>4. mainLeft \in Seq(Task)
      BY DEF PoolInv, TasksInv, DataOK
<1>5. q \in Worker
      BY IndexInWorker DEF PoolInv, LockInv
<1>6. /\ x \in Task /\ Tail(mainLeft) \in Seq(Task)
      /\ ToSet(mainLeft) = ToSet(Tail(mainLeft)) \cup {x}
      /\ IsInjective(Tail(mainLeft)) /\ x \notin ToSet(Tail(mainLeft))
      BY <1>2, <1>4, AfterHead DEF PoolInv, TasksInv, LeftIsNew
<1>7. x \in ToSet(MainTasks) \ Submitted
      BY <1>6 DEF PoolInv, TasksInv, LeftIsNew
<1> HIDE DEF x
<1>8. /\ Submitted' = Submitted \cup {x} /\ Begun' = Begun
      /\ queue' \in [Worker -> Seq(Task)] /\ submitted' \in Seq(Task)
      /\ QueuesHoldWaiting'
      BY <1>1, <1>5, <1>6, <1>7, Submits
<1>9. DataOK'
      BY <1>1, <1>2, <1>3, <1>6, <1>8 DEF PoolInv, TasksInv, DataOK, Submit
<1>10. OneTaskEach'
      BY <1>2, <1>8 DEF PoolInv, TasksInv, OneTaskEach
<1>11. LeftIsNew'
      <2>1. x \notin ToSet(OtherTasks) /\ \A y \in Task : x \notin ToSet(Subtasks[y])
            BY <1>7, SubmittedOnceAssumption
      <2>2. \A w \in Worker : left[w] # <<>> => t[w] \in Task
            BY DEF PoolInv, TasksInv, OneTaskEach, DataOK
      <2>3. ASSUME NEW w \in Worker
            PROVE  /\ IsInjective(left[w])
                   /\ left[w] # <<>> =>
                        ToSet(left[w]) \subseteq ToSet(Subtasks[t[w]]) \ Submitted'
            <3>1. /\ IsInjective(left[w])
                  /\ left[w] # <<>> =>
                       ToSet(left[w]) \subseteq ToSet(Subtasks[t[w]]) \ Submitted
                  BY DEF PoolInv, TasksInv, LeftIsNew
            <3>2. left[w] # <<>> => x \notin ToSet(Subtasks[t[w]])
                  BY <2>1, <2>2
            <3> QED BY <1>8, <3>1, <3>2
      <2>4. \A y \in Task \ Begun : ToSet(Subtasks[y]) \cap Submitted' = {}
            BY <1>8, <2>1 DEF PoolInv, TasksInv, LeftIsNew
      <2>5. /\ ToSet(otherLeft) \subseteq ToSet(OtherTasks) \ Submitted'
            /\ ToSet(Tail(mainLeft)) \subseteq ToSet(MainTasks) \ Submitted'
            /\ IsInjective(otherLeft)
            BY <1>6, <1>8, <2>1 DEF PoolInv, TasksInv, LeftIsNew
      <2> QED BY <1>2, <1>6, <1>8, <2>3, <2>4, <2>5 DEF LeftIsNew
<1>12. RunWhileOpen'
      BY <1>2, <1>3 DEF PoolInv, TasksInv, RunWhileOpen, Started, Index
<1> QED BY <1>8, <1>9, <1>10, <1>11, <1>12 DEF TasksInv

LEMMA SubmitsByOther ==
    ASSUME PoolInv, SubmitByOther
    PROVE  TasksInv'
<1> DEFINE x == Head(otherLeft)
<1>1. Submit(x, 0)
      BY DEF SubmitByOther
<1>2. /\ otherLeft # <<>> /\ main = "open" /\ otherLeft' = Tail(otherLeft)
      /\ UNCHANGED <<pc, pair, t, left, main, mainLeft>>
      BY DEF SubmitByOther, threadVars
<1>3. n_threads' = n_threads /\ done' = done
      BY <1>1 DEF Submit
<1>4. otherLeft \in Seq(Task)
      BY DEF PoolInv, TasksInv, DataOK
<1>5. 0 \in Worker
      BY MaxThreadsAssumption DEF Worker
<1>6. /\ x \in Task /\ Tail(otherLeft) \in Seq(Task)
      /\ ToSet(otherLeft) = ToSet(Tail(otherLeft)) \cup {x}
      /\ IsInjective(Tail(otherLeft)) /\ x \notin ToSet(Tail(otherLeft))
      BY <1>2, <1>4, AfterHead DEF PoolInv, TasksInv, LeftIsNew
<1>7. x \in ToSet(OtherTasks) \ Submitted
      BY <1>6 DEF PoolInv, TasksInv, LeftIsNew
<1> HIDE DEF x
<1>8. /\ Submitted' = Submitted \cup {x} /\ Begun' = Begun
      /\ queue' \in [Worker -> Seq(Task)] /\ submitted' \in Seq(Task)
      /\ QueuesHoldWaiting'
      BY <1>1, <1>5, <1>6, <1>7, Submits
<1>9. DataOK'
      BY <1>1, <1>2, <1>3, <1>6, <1>8 DEF PoolInv, TasksInv, DataOK, Submit
<1>10. OneTaskEach'
      BY <1>2, <1>8 DEF PoolInv, TasksInv, OneTaskEach
<1>11. LeftIsNew'
      <2>1. x \notin ToSet(MainTasks) /\ \A y \in Task : x \notin ToSet(Subtasks[y])
            BY <1>7, SubmittedOnceAssumption
      <2>2. \A w \in Worker : left[w] # <<>> => t[w] \in Task
            BY DEF PoolInv, TasksInv, OneTaskEach, DataOK
      <2>3. ASSUME NEW w \in Worker
            PROVE  /\ IsInjective(left[w])
                   /\ left[w] # <<>> =>
                        ToSet(left[w]) \subseteq ToSet(Subtasks[t[w]]) \ Submitted'
            <3>1. /\ IsInjective(left[w])
                  /\ left[w] # <<>> =>
                       ToSet(left[w]) \subseteq ToSet(Subtasks[t[w]]) \ Submitted
                  BY DEF PoolInv, TasksInv, LeftIsNew
            <3>2. left[w] # <<>> => x \notin ToSet(Subtasks[t[w]])
                  BY <2>1, <2>2
            <3> QED BY <1>8, <3>1, <3>2
      <2>4. \A y \in Task \ Begun : ToSet(Subtasks[y]) \cap Submitted' = {}
            BY <1>8, <2>1 DEF PoolInv, TasksInv, LeftIsNew
      <2>5. /\ ToSet(mainLeft) \subseteq ToSet(MainTasks) \ Submitted'
            /\ ToSet(Tail(otherLeft)) \subseteq ToSet(OtherTasks) \ Submitted'
            /\ IsInjective(mainLeft)
            BY <1>6, <1>8, <2>1 DEF PoolInv, TasksInv, LeftIsNew
      <2> QED BY <1>2, <1>6, <1>8, <2>3, <2>4, <2>5 DEF LeftIsNew
<1>12. RunWhileOpen'
      BY <1>2, <1>3 DEF PoolInv, TasksInv, RunWhileOpen, Started, Index
<1> QED BY <1>8, <1>9, <1>10, <1>11, <1>12 DEF TasksInv

LEMMA SubmitsByTask ==
    ASSUME PoolInv, NEW w \in Worker, SubmitByTask(w)
    PROVE  TasksInv'
<1> DEFINE x == Head(left[w])
<1>1. Submit(x, w)
      BY DEF SubmitByTask
<1>2. /\ left[w] # <<>> /\ pc[w] = "run" /\ left' = [left EXCEPT ![w] = Tail(left[w])]
      /\ UNCHANGED <<pc, pair, t, main, mainLeft, otherLeft>>
      BY DEF SubmitByTask, clientVars
<1>3. n_threads' = n_threads /\ done' = done
      BY <1>1 DEF Submit
<1>4. left \in [Worker -> Seq(Task)] /\ left[w] \in Seq(Task)
      BY DEF PoolInv, TasksInv, DataOK
<1>5. t[w] \in Task /\ t[w] \in Begun
      BY <1>2 DEF PoolInv, TasksInv, OneTaskEach, DataOK
<1>6. /\ x \in Task /\ Tail(left[w]) \in Seq(Task)
      /\ ToSet(left[w]) = ToSet(Tail(left[w])) \cup {x}
      /\ IsInjective(Tail(left[w])) /\ x \notin ToSet(Tail(left[w]))
      BY <1>2, <1>4, AfterHead DEF PoolInv, TasksInv, LeftIsNew
<1>7. x \in ToSet(Subtasks[t[w]]) \ Submitted
      BY <1>2, <1>6 DEF PoolInv, TasksInv, LeftIsNew
<1> HIDE DEF x
<1>8. /\ Submitted' = Submitted \cup {x} /\ Begun' = Begun
      /\ queue' \in [Worker -> Seq(Task)] /\ submitted' \in Seq(Task)
      /\ QueuesHoldWaiting'
      BY <1>1, <1>6, <1>7, Submits
<1>9. /\ left' \in [Worker -> Seq(Task)] /\ left'[w] = Tail(left[w])
      /\ \A u \in Worker \ {w} : left'[u] = left[u]
      BY <1>2, <1>4, <1>6
<1>10. DataOK'
      BY <1>1, <1>2, <1>3, <1>8, <1>9 DEF PoolInv, TasksInv, DataOK, Submit
<1>11. OneTaskEach'
      BY <1>2, <1>5, <1>8, <1>9, TaskAssumption DEF PoolInv, TasksInv, OneTaskEach
<1>12. LeftIsNew'
      <2>1. /\ x \notin ToSet(MainTasks) /\ x \notin ToSet(OtherTasks)
            /\ \A y \in Task \ {t[w]} : x \notin ToSet(Subtasks[y])
            BY <1>5, <1>7, SubmittedOnceAssumption
      <2>2. \A u \in Worker \ {w} : left[u] # <<>> => t[u] \in Task \ {t[w]}
            BY DEF PoolInv, TasksInv, OneTaskEach, DataOK
      <2>3. \A u \in Worker \ {w} :
              /\ IsInjective(left[u])
              /\ left[u] # <<>> => ToSet(left[u]) \subseteq ToSet(Subtasks[t[u]]) \ Submitted'
            BY <1>8, <2>1, <2>2 DEF PoolInv, TasksInv, LeftIsNew
      <2>4. /\ IsInjective(left'[w])
            /\ ToSet(left'[w]) \subseteq ToSet(Subtasks[t[w]]) \ Submitted'
            BY <1>2, <1>6, <1>8, <1>9 DEF PoolInv, TasksInv, LeftIsNew
      <2>5. \A y \in Task \ Begun : ToSet(Subtasks[y]) \cap Submitted' = {}
            BY <1>5, <1>8, <2>1 DEF PoolInv, TasksInv, LeftIsNew
      <2>6. /\ ToSet(mainLeft) \subseteq ToSet(MainTasks) \ Submitted'
            /\ ToSet(otherLeft) \subseteq ToSet(OtherTasks) \ Submitted'
            /\ IsInjective(mainLeft) /\ IsInjective(otherLeft)
            BY <1>8, <2>1 DEF PoolInv, TasksInv, LeftIsNew
      <2>7. \A u \in Worker :
              /\ IsInjective(left'[u])
              /\ left'[u] # <<>> => ToSet(left'[u]) \subseteq ToSet(Subtasks[t[u]]) \ Submitted'
            BY <1>9, <2>3, <2>4
      <2> QED BY <1>2, <1>8, <2>5, <2>6, <2>7 DEF LeftIsNew
<1>13. RunWhileOpen'
      BY <1>2, <1>3 DEF PoolInv, TasksInv, RunWhileOpen, Started, Index
<1> QED BY <1>8, <1>10, <1>11, <1>12, <1>13 DEF TasksInv

(* A worker without a task takes the one at the back of a queue. *)
LEMMA TakesTask ==
    ASSUME PoolInv, NEW w \in Worker, NEW from \in Worker, queue[from] # <<>>,
           t[w] = NoTask, pc[w] \notin {"unborn", "exited"},
           Take(w, Last(queue[from])),
           queue' = [queue EXCEPT ![from] = PopBack(@)],
           UNCHANGED <<n_threads, done, clientVars, submitted>>
    PROVE  TasksInv'
<1> DEFINE x == Last(queue[from])
<1>1. /\ x \in Task /\ x \in Submitted \ Begun
      /\ Begun' = Begun \cup {x} /\ Submitted' = Submitted
      /\ queue' \in [Worker -> Seq(Task)] /\ begun' \in Seq(Task)
      /\ QueuesHoldWaiting'
      BY Takes
<1>2. /\ t' = [t EXCEPT ![w] = x] /\ left' = [left EXCEPT ![w] = Subtasks[x]]
      /\ pc' = [pc EXCEPT ![w] = "run"]
      /\ UNCHANGED <<main, mainLeft, otherLeft>>
      BY DEF Take, GoTo, clientVars
<1> HIDE DEF x
<1>3. /\ t \in [Worker -> Task \cup {NoTask}] /\ left \in [Worker -> Seq(Task)]
      /\ Subtasks[x] \in Seq(Task)
      BY <1>1, TaskAssumption DEF PoolInv, TasksInv, DataOK
<1>4. pc \in [Worker -> Place]
      BY DEF PoolInv, LockInv, Shape
<1>5. /\ t' \in [Worker -> Task \cup {NoTask}] /\ t'[w] = x
      /\ left' \in [Worker -> Seq(Task)] /\ left'[w] = Subtasks[x]
      /\ pc'[w] = "run"
      /\ \A u \in Worker \ {w} : t'[u] = t[u] /\ left'[u] = left[u] /\ pc'[u] = pc[u]
      BY <1>1, <1>2, <1>3, <1>4
<1>6. DataOK'
      BY <1>1, <1>2, <1>5 DEF PoolInv, TasksInv, DataOK
<1>7. OneTaskEach'
      <2>1. x # NoTask /\ \A u \in Worker : t[u] # x
            BY <1>1, TaskAssumption DEF PoolInv, TasksInv, OneTaskEach
      <2>2. \A u \in Worker : t'[u] # NoTask <=> pc'[u] \in {"run", "throw"}
            BY <1>5, <2>1 DEF PoolInv, TasksInv, OneTaskEach
      <2>3. \A u \in Worker : t'[u] # NoTask => t'[u] \in Begun'
            BY <1>1, <1>5 DEF PoolInv, TasksInv, OneTaskEach
      <2>4. \A u \in Worker : left'[u] # <<>> => t'[u] # NoTask
            BY <1>5, <2>1 DEF PoolInv, TasksInv, OneTaskEach
      <2>5. \A u, v \in Worker : t'[u] # NoTask /\ t'[u] = t'[v] => u = v
            BY <1>5, <2>1 DEF PoolInv, TasksInv, OneTaskEach
      <2> QED BY <2>2, <2>3, <2>4, <2>5 DEF OneTaskEach
<1>8. LeftIsNew'
      <2>1. IsInjective(Subtasks[x]) /\ ToSet(Subtasks[x]) \cap Submitted = {}
            BY <1>1, SubmittedOnceAssumption DEF PoolInv, TasksInv, LeftIsNew
      <2>2. ASSUME NEW u \in Worker
            PROVE  /\ IsInjective(left'[u])
                   /\ left'[u] # <<>> =>
                        ToSet(left'[u]) \subseteq ToSet(Subtasks[t'[u]]) \ Submitted
            <3>1. CASE u = w
                  BY <1>5, <2>1, <3>1
            <3>2. CASE u # w
                  BY <1>5, <3>2 DEF PoolInv, TasksInv, LeftIsNew
            <3> QED BY <3>1, <3>2
      <2>3. \A y \in Task \ Begun' : ToSet(Subtasks[y]) \cap Submitted = {}
            BY <1>1 DEF PoolInv, TasksInv, LeftIsNew
      <2> QED BY <1>1, <1>2, <2>2, <2>3 DEF PoolInv, TasksInv, LeftIsNew
<1>9. RunWhileOpen'
      BY <1>2, <1>4, <1>5, RunningIsOpen DEF PoolInv, TasksInv, RunWhileOpen, Started, Index
<1> QED BY <1>1, <1>6, <1>7, <1>8, <1>9 DEF TasksInv

(* A worker without a task goes on without one, after it has perhaps moved    *)
(* tasks between the queues.                                                  *)
LEMMA GoesWithout ==
    ASSUME PoolInv, NEW w \in Worker, NEW place \in Place \ {"run", "throw"},
           t[w] = NoTask, pc[w] \notin {"unborn", "exited"}, GoTo(w, place), place # "unborn",
           queue' \in [Worker -> Seq(Task)], QueuesHoldWaiting',
           UNCHANGED <<n_threads, done, t, left, clientVars, submitted, begun>>
    PROVE  TasksInv'
<1>1. pc \in [Worker -> Place] /\ pc' = [pc EXCEPT ![w] = place]
      BY DEF PoolInv, LockInv, Shape, GoTo
<1>2. Submitted' = Submitted /\ Begun' = Begun
      BY DEF Submitted, Begun
<1>3. DataOK'
      BY DEF PoolInv, TasksInv, DataOK, clientVars
<1>4. OneTaskEach'
      BY <1>1, <1>2 DEF PoolInv, TasksInv, OneTaskEach
<1>5. LeftIsNew'
      BY <1>2 DEF PoolInv, TasksInv, LeftIsNew, clientVars
<1>6. RunWhileOpen'
      BY <1>1, RunningIsOpen DEF PoolInv, TasksInv, RunWhileOpen, Started, Index, clientVars
<1> QED BY <1>3, <1>4, <1>5, <1>6 DEF TasksInv

LEMMA QueuesUntouched ==
    ASSUME PoolInv, UNCHANGED <<queue, submitted, begun>>
    PROVE  /\ QueuesHoldWaiting' /\ queue' \in [Worker -> Seq(Task)]
           /\ Submitted' = Submitted /\ Begun' = Begun
BY DEF PoolInv, TasksInv, DataOK, QueuesHoldWaiting, Submitted, Begun, Queued

LEMMA StealsTasks ==
    ASSUME PoolInv, NEW w \in Worker, Steal(w)
    PROVE  TasksInv'
<1> DEFINE p == pair[w]
<1>1. /\ pc[w] = "locked" /\ t[w] = NoTask
      /\ p[1] \in Worker /\ p[2] \in Worker /\ p[1] # p[2]
      <2>1. pc[w] = "locked" /\ p \in Worker \X Worker
            BY DEF Steal, PoolInv, LockInv, Shape
      <2>2. p[1] < p[2]
            BY <2>1 DEF PoolInv, LockInv, HoldsLower
      <2>3. p[1] \in Worker /\ p[2] \in Worker
            BY <2>1
      <2>4. p[1] # p[2]
            BY <2>2, <2>3 DEF Worker
      <2> QED BY <2>1, <2>3, <2>4 DEF PoolInv, TasksInv, OneTaskEach
<1>2. UNCHANGED <<n_threads, done, clientVars, submitted>>
      BY DEF Steal
<1>3. ASSUME NEW from \in Worker, NEW to \in Worker \ {from}, Move(w, from, to)
      PROVE  TasksInv'
      <2>1. queue[from] # <<>>
            <3>1. queue[from] \in Seq(Task) /\ queue[to] \in Seq(Task)
                  BY DEF PoolInv, TasksInv, DataOK
            <3>2. Len(queue[from]) > Len(queue[to])
                  BY <1>3 DEF Move
            <3> QED BY <3>1, <3>2
      <2>2. CASE /\ Take(w, Last(queue[from]))
                 /\ queue' = [queue EXCEPT ![from] = PopBack(@)]
            BY <1>1, <1>2, <2>1, <2>2, TakesTask
      <2>3. CASE /\ queue' = [queue EXCEPT ![from] = PopBack(@),
                                           ![to] = PushFront(@, Last(queue[from]))]
                 /\ GoTo(w, "check") /\ UNCHANGED <<t, left, begun>>
            <3>1. queue' \in [Worker -> Seq(Task)] /\ QueuesHoldWaiting'
                  BY <1>2, <2>1, <2>3, Moves
            <3> QED BY <1>1, <1>2, <2>3, <3>1, GoesWithout DEF Place
      <2> QED BY <1>3, <2>2, <2>3 DEF Move
<1>4. CASE GoTo(w, "check") /\ UNCHANGED <<queue, t, left, begun>>
      BY <1>1, <1>2, <1>4, QueuesUntouched, GoesWithout DEF Place
<1> QED BY <1>1, <1>3, <1>4 DEF Steal

LEMMA WorkerKeepsTasks ==
    ASSUME PoolInv, NEW w \in Worker, WorkerStep(w)
    PROVE  TasksInv'
<1>1. CASE TryPopLocal(w)
      <2>1. /\ pc[w] = "pop" /\ t[w] = NoTask
            /\ UNCHANGED <<n_threads, done, clientVars, submitted>>
            BY <1>1 DEF TryPopLocal, PoolInv, TasksInv, OneTaskEach
      <2>2. CASE /\ queue[w] # <<>> /\ Take(w, Last(queue[w]))
                 /\ queue' = [queue EXCEPT ![w] = PopBack(@)]
            BY <2>1, <2>2, TakesTask
      <2>3. CASE /\ GoTo(w, IF n_threads < 2 THEN "check" ELSE "steal")
                 /\ UNCHANGED <<queue, t, left, begun>>
            BY <2>1, <2>3, QueuesUntouched, GoesWithout DEF Place
      <2> QED BY <1>1, <2>2, <2>3 DEF TryPopLocal
<1>2. CASE LockFirst(w)
      BY <1>2, QueuesUntouched, GoesWithout
      DEF LockFirst, Place, PoolInv, TasksInv, OneTaskEach
<1>3. CASE Steal(w)
      BY <1>3, StealsTasks
<1>4. CASE Check(w)
      BY <1>4, QueuesUntouched, GoesWithout
      DEF Check, Place, PoolInv, TasksInv, OneTaskEach
<1>5. CASE SubmitByTask(w)
      BY <1>5, SubmitsByTask
<1>6. CASE Finish(w)
      <2>1. /\ pc[w] = "run" /\ left[w] = <<>>
            /\ t' = [t EXCEPT ![w] = NoTask] /\ pc' = [pc EXCEPT ![w] = "pop"]
            /\ UNCHANGED <<n_threads, queue, done, left, main, mainLeft, otherLeft,
                           submitted, begun>>
            BY <1>6 DEF Finish, GoTo, clientVars
      <2>2. pc \in [Worker -> Place] /\ t \in [Worker -> Task \cup {NoTask}]
            BY DEF PoolInv, LockInv, Shape, TasksInv, DataOK
      <2>3. QueuesHoldWaiting' /\ Submitted' = Submitted /\ Begun' = Begun
            BY <2>1, QueuesUntouched
      <2>4. DataOK'
            BY <2>1, <2>2 DEF PoolInv, TasksInv, DataOK
      <2>5. OneTaskEach'
            BY <2>1, <2>2, <2>3 DEF PoolInv, TasksInv, OneTaskEach
      <2>6. LeftIsNew'
            BY <2>1, <2>2, <2>3 DEF PoolInv, TasksInv, LeftIsNew
      <2>7. RunWhileOpen'
            BY <2>1, <2>2, RunningIsOpen DEF PoolInv, TasksInv, RunWhileOpen, Started, Index
      <2> QED BY <2>3, <2>4, <2>5, <2>6, <2>7 DEF TasksInv
<1>7. CASE Throw(w) \/ Terminate(w)
      <2>1. /\ pc[w] \in {"run", "throw"} /\ pc' = [pc EXCEPT ![w] = "throw"]
            /\ done' \in BOOLEAN /\ main' \in {main, "terminated"}
            /\ UNCHANGED <<n_threads, queue, t, left, mainLeft, otherLeft, submitted, begun>>
            BY <1>7
            DEF Throw, Terminate, GoTo, clientVars, threadVars, PoolInv, LockInv, Shape,
                TasksInv, DataOK
      <2>2. pc \in [Worker -> Place]
            BY DEF PoolInv, LockInv, Shape
      <2>3. QueuesHoldWaiting' /\ Submitted' = Submitted /\ Begun' = Begun
            BY <2>1, QueuesUntouched
      <2>4. DataOK'
            BY <2>1 DEF PoolInv, TasksInv, DataOK
      <2>5. OneTaskEach'
            BY <2>1, <2>2, <2>3 DEF PoolInv, TasksInv, OneTaskEach
      <2>6. LeftIsNew'
            BY <2>1, <2>3 DEF PoolInv, TasksInv, LeftIsNew
      <2>7. RunWhileOpen'
            BY <2>1, <2>2, RunningIsOpen DEF PoolInv, TasksInv, RunWhileOpen, Started, Index
      <2> QED BY <2>3, <2>4, <2>5, <2>6, <2>7 DEF TasksInv
<1> QED BY <1>1, <1>2, <1>3, <1>4, <1>5, <1>6, <1>7 DEF WorkerStep

LEMMA NextPool == PoolInv /\ [Next]_vars => PoolInv'
<1> SUFFICES ASSUME PoolInv, [Next]_vars
             PROVE  TasksInv'
    BY NextLocks DEF PoolInv
<1>1. CASE StartWorker
      <2>1. PICK w \in Index \ Started : pc' = [pc EXCEPT ![w] = "pop"]
            BY <1>1 DEF StartWorker, GoTo
      <2>2. /\ main = "constructor" /\ main' \in {"open", "constructor"}
            /\ UNCHANGED <<n_threads, queue, done, t, left, mainLeft, otherLeft,
                           submitted, begun>>
            BY <1>1 DEF StartWorker
      <2>3. w \in Worker /\ pc[w] = "unborn" /\ pc \in [Worker -> Place]
            BY <2>1, IndexInWorker DEF Started, PoolInv, LockInv, Shape
      <2>4. QueuesHoldWaiting' /\ Submitted' = Submitted /\ Begun' = Begun
            BY <2>2, QueuesUntouched
      <2>5. DataOK'
            BY <2>2 DEF PoolInv, TasksInv, DataOK
      <2>6. OneTaskEach'
            BY <2>1, <2>2, <2>3, <2>4 DEF PoolInv, TasksInv, OneTaskEach
      <2>7. LeftIsNew'
            BY <2>2, <2>4 DEF PoolInv, TasksInv, LeftIsNew
      <2>8. RunWhileOpen'
            BY <2>1, <2>2, <2>3 DEF PoolInv, TasksInv, RunWhileOpen, Started, Index
      <2> QED BY <2>4, <2>5, <2>6, <2>7, <2>8 DEF TasksInv
<1>2. CASE StartFails \/ Destroy \/ Joined \/ Ended \/ UNCHANGED vars
      <2>1. /\ UNCHANGED <<n_threads, queue, pc, t, left, mainLeft, otherLeft,
                           submitted, begun>>
            /\ done' \in {done, TRUE}
            /\ main' \in {main, "terminated", "joining", "closed"}
            BY <1>2 DEF StartFails, Destroy, Joined, Ended, threadVars, clientVars, vars
      <2>2. main' = "closed" => \A w \in Index : pc[w] = "exited"
            BY <1>2
            DEF StartFails, Destroy, Joined, Ended, clientVars, vars, PoolInv, TasksInv,
                RunWhileOpen
      <2>3. QueuesHoldWaiting' /\ Submitted' = Submitted /\ Begun' = Begun
            BY <2>1, QueuesUntouched
      <2>4. DataOK'
            BY <2>1 DEF PoolInv, TasksInv, DataOK
      <2>5. OneTaskEach'
            BY <2>1, <2>3 DEF PoolInv, TasksInv, OneTaskEach
      <2>6. LeftIsNew'
            BY <2>1, <2>3 DEF PoolInv, TasksInv, LeftIsNew
      <2>7. RunWhileOpen'
            BY <2>1, <2>2 DEF PoolInv, TasksInv, RunWhileOpen, Started, Index
      <2> QED BY <2>3, <2>4, <2>5, <2>6, <2>7 DEF TasksInv
<1>3. CASE SubmitByMain
      BY <1>3, SubmitsByMain
<1>4. CASE SubmitByOther
      BY <1>4, SubmitsByOther
<1>5. ASSUME NEW w \in Worker, WorkerStep(w)
      PROVE  TasksInv'
      BY <1>5, WorkerKeepsTasks
<1> QED BY <1>1, <1>2, <1>3, <1>4, <1>5 DEF Next

(* A queue that holds each waiting task once is no longer than the list of    *)
(* what was submitted.                                                        *)
LEMMA QueueIsShort ==
    ASSUME PoolInv, NEW w \in Worker
    PROVE  Len(queue[w]) <= Len(submitted)
<1> DEFINE q == queue[w]
           n == Len(q)
           k == Len(submitted)
           f == [i \in 1 .. n |-> CHOOSE j \in 1 .. k : submitted[j] = q[i]]
<1>1. q \in Seq(Task) /\ n \in Nat /\ submitted \in Seq(Task) /\ k \in Nat /\ DOMAIN q = 1 .. n
      BY DEF PoolInv, TasksInv, DataOK
<1>2. \A i \in 1 .. n : \E j \in 1 .. k : submitted[j] = q[i]
      <2> TAKE i \in 1 .. n
      <2>1. q[i] \in Queued(w) /\ q[i] \in Task
            BY <1>1 DEF Queued, ToSet
      <2>2. q[i] \in Submitted
            BY <2>1 DEF PoolInv, TasksInv, QueuesHoldWaiting
      <2> HIDE DEF q, k
      <2> QED BY <1>1, <2>2, ElementsOf DEF Submitted, k
<1>3. IsInjective(q)
      BY DEF PoolInv, TasksInv, QueuesHoldWaiting
<1> HIDE DEF q, n, k
<1>4. \A i \in 1 .. n : f[i] \in 1 .. k /\ submitted[f[i]] = q[i]
      BY <1>2
<1>5. f \in Injection(1 .. n, 1 .. k)
      <2>1. f \in [1 .. n -> 1 .. k]
            BY <1>4
      <2>2. \A i, j \in 1 .. n : f[i] = f[j] => q[i] = q[j]
            BY <1>4
      <2>3. DOMAIN f = 1 .. n
            OBVIOUS
      <2> HIDE DEF f
      <2>4. IsInjective(f)
            BY <1>1, <1>3, <2>2, <2>3 DEF IsInjective
      <2> QED BY <2>1, <2>4 DEF Injection
<1>6. IsFiniteSet(1 .. k) /\ Cardinality(1 .. k) = k /\ Cardinality(1 .. n) = n
      BY <1>1, FS_Interval
<1> HIDE DEF f
<1>7. Cardinality(1 .. n) <= Cardinality(1 .. k)
      BY <1>5, <1>6, FS_Injection
<1> QED BY <1>6, <1>7 DEF n, k, q

LEMMA PoolAccounts == PoolInv => TaskInOnePlace
<1> SUFFICES ASSUME PoolInv
             PROVE  TaskInOnePlace
    OBVIOUS
<1>1. \A i, j \in 1 .. Len(begun) : begun[i] = begun[j] => i = j
      <2>1. begun \in Seq(Task) /\ IsInjective(begun)
            BY DEF PoolInv, TasksInv, DataOK, QueuesHoldWaiting
      <2>2. DOMAIN begun = 1 .. Len(begun)
            BY <2>1
      <2> QED BY <2>1, <2>2 DEF IsInjective
<1>2. ASSUME NEW x \in Task
      PROVE  Cardinality({p \in Worker \X (1 .. Len(submitted)) :
                            p[2] <= Len(queue[p[1]]) /\ queue[p[1]][p[2]] = x})
               = IF Waits(x) THEN 1 ELSE 0
      <2> DEFINE P == {p \in Worker \X (1 .. Len(submitted)) :
                         p[2] <= Len(queue[p[1]]) /\ queue[p[1]][p[2]] = x}
      <2>1. Len(submitted) \in Nat /\ \A w \in Worker : queue[w] \in Seq(Task)
            BY DEF PoolInv, TasksInv, DataOK
      <2>2. \A w \in Worker : x \in Queued(w) <=> \E i \in 1 .. Len(queue[w]) : queue[w][i] = x
            BY <2>1, ElementsOf DEF Queued
      <2>3. \A p : p \in P <=> \E w \in Worker : \E i \in 1 .. Len(queue[w]) :
                                  p = <<w, i>> /\ queue[w][i] = x
            <3>1. \A w \in Worker : Len(queue[w]) \in Nat /\ Len(queue[w]) <= Len(submitted)
                  BY <2>1, QueueIsShort
            <3>2. ASSUME NEW w \in Worker, NEW i
                  PROVE  i \in 1 .. Len(queue[w])
                           <=> i \in 1 .. Len(submitted) /\ i <= Len(queue[w])
                  BY <2>1, <3>1
            <3>3. ASSUME NEW p \in P
                  PROVE  \E w \in Worker : \E i \in 1 .. Len(queue[w]) :
                            p = <<w, i>> /\ queue[w][i] = x
                  BY <3>2
            <3>4. ASSUME NEW w \in Worker, NEW i \in 1 .. Len(queue[w]), queue[w][i] = x
                  PROVE  <<w, i>> \in P
                  BY <3>2, <3>4
            <3> QED BY <3>3, <3>4
      <2> HIDE DEF P
      <2>4. CASE Waits(x)
            <3>1. PICK w \in Worker : x \in Queued(w)
                  BY <2>4 DEF Waits, Submitted, Begun, PoolInv, TasksInv, QueuesHoldWaiting
            <3>2. PICK i \in 1 .. Len(queue[w]) : queue[w][i] = x
                  BY <2>2, <3>1
            <3>3. ASSUME NEW u \in Worker, NEW j \in 1 .. Len(queue[u]), queue[u][j] = x
                  PROVE  u = w /\ j = i
                  <4>1. u = w
                        BY <2>2, <3>1, <3>3 DEF PoolInv, TasksInv, QueuesHoldWaiting
                  <4>2. IsInjective(queue[w]) /\ DOMAIN queue[w] = 1 .. Len(queue[w])
                        BY <2>1 DEF PoolInv, TasksInv, QueuesHoldWaiting
                  <4> QED BY <3>2, <3>3, <4>1, <4>2 DEF IsInjective
            <3>4. P = {<<w, i>>}
                  BY <2>3, <3>2, <3>3
            <3> QED BY <2>4, <3>4, FS_Singleton DEF P
      <2>5. CASE ~Waits(x)
            <3>1. \A w \in Worker : x \notin Queued(w)
                  BY <2>5 DEF Waits, Submitted, Begun, PoolInv, TasksInv, QueuesHoldWaiting
            <3>2. P = {}
                  BY <2>2, <2>3, <3>1
            <3> QED BY <2>5, <3>2, FS_EmptySet DEF P
      <2> QED BY <2>4, <2>5
<1> QED BY <1>1, <1>2 DEF TaskInOnePlace

(* submit(), tryPopLocal() and trySteal() keep account of the tasks, however  *)
(* many threads submit and balance: a task that waits is at one place in one  *)
(* queue, and a task that was taken is in none and is not taken again.        *)
THEOREM QueuesKeepEveryTask == Spec => []TasksAccounted
<1>1. Init => PoolInv
      BY InitPool
<1>2. PoolInv /\ [Next]_vars => PoolInv'
      BY NextPool
<1>3. PoolInv => TasksAccounted
      BY PoolTypes, PoolAccounts DEF TasksAccounted
<1> QED BY <1>1, <1>2, <1>3, PTL DEF Spec

-----------------------------------------------------------------------------
(* A pool of one worker empties the one queue from its back: what it has      *)
(* begun and what is queued are together what was submitted, in that order;   *)
(* and when it goes to look at the flag, having found the queue empty, only a *)
(* client can have put a task there since.                                    *)
AloneInv ==
    n_threads = 1 =>
        /\ submitted = begun \o Reverse(queue[0])
        /\ pc[0] \notin {"steal", "locked"}
        /\ pc[0] \in {"check", "exited"} =>
             \A x \in Task : ToSet(Subtasks[x]) \cap Queued(0) = {}

LEMMA ReverseOf ==
    ASSUME NEW S, NEW q \in Seq(S)
    PROVE  /\ Reverse(q) \in Seq(S) /\ Len(Reverse(q)) = Len(q)
           /\ \A i \in 1 .. Len(q) : Reverse(q)[i] = q[Len(q) - i + 1]
<1>1. \A i \in 1 .. Len(q) : Len(q) - i + 1 \in 1 .. Len(q)
      OBVIOUS
<1>2. \A i \in 1 .. Len(q) : q[Len(q) - i + 1] \in S
      BY <1>1
<1>3. Reverse(q) = [i \in 1 .. Len(q) |-> q[Len(q) - i + 1]]
      BY DEF Reverse
<1> QED BY <1>2, <1>3

(* Two sequences of one length with the same elements are the same. *)
LEMMA SameSequence ==
    ASSUME NEW S, NEW s \in Seq(S), NEW r \in Seq(S), Len(s) = Len(r),
           \A i \in 1 .. Len(s) : s[i] = r[i]
    PROVE  s = r
OBVIOUS

LEMMA ReversePushed ==
    ASSUME NEW S, NEW q \in Seq(S), NEW x \in S
    PROVE  Reverse(PushFront(q, x)) = Append(Reverse(q), x)
<1> DEFINE p == PushFront(q, x)
           n == Len(q)
<1>1. p \in Seq(S) /\ Len(p) = n + 1 /\ p[1] = x /\ \A i \in 1 .. n : p[i + 1] = q[i]
      BY DEF PushFront
<1>2. n \in Nat
      OBVIOUS
<1> HIDE DEF p
<1>3. /\ Reverse(p) \in Seq(S) /\ Len(Reverse(p)) = n + 1
      /\ \A i \in 1 .. n + 1 : Reverse(p)[i] = p[n + 1 - i + 1]
      BY <1>1, ReverseOf
<1>4. /\ Reverse(q) \in Seq(S) /\ Len(Reverse(q)) = n
      /\ \A i \in 1 .. n : Reverse(q)[i] = q[n - i + 1]
      BY ReverseOf
<1> DEFINE r == Append(Reverse(q), x)
<1>5. /\ r \in Seq(S) /\ Len(r) = n + 1 /\ r[n + 1] = x
      /\ \A i \in 1 .. n : r[i] = Reverse(q)[i]
      BY <1>4
<1> HIDE DEF r, n
<1>6. ASSUME NEW i \in 1 .. n + 1
      PROVE  Reverse(p)[i] = r[i]
      <2>1. CASE i = n + 1
            <3>1. n + 1 - i + 1 = 1
                  BY <1>2, <2>1
            <3> QED BY <1>1, <1>3, <1>5, <2>1, <3>1
      <2>2. CASE i # n + 1
            <3>1. i \in 1 .. n /\ n - i + 1 \in 1 .. n /\ n + 1 - i + 1 = n - i + 1 + 1
                  BY <1>2, <2>2
            <3>2. r[i] = Reverse(q)[i] /\ Reverse(q)[i] = q[n - i + 1]
                  BY <1>4, <1>5, <3>1
            <3>3. Reverse(p)[i] = p[n - i + 1 + 1]
                  BY <1>3, <3>1
            <3> QED BY <1>1, <3>1, <3>2, <3>3
      <2> QED BY <2>1, <2>2
<1>7. Reverse(p) = r
      BY <1>3, <1>5, <1>6, SameSequence
<1> QED BY <1>7 DEF p, r

LEMMA ReverseOfFront ==
    ASSUME NEW S, NEW q \in Seq(S), q # <<>>
    PROVE  Reverse(q) = <<Last(q)>> \o Reverse(Front(q))
<1> DEFINE f == Front(q)
           n == Len(q)
<1>0. n \in Nat /\ n > 0
      OBVIOUS
<1>1. f \in Seq(S) /\ Len(f) = n - 1 /\ \A i \in 1 .. n - 1 : f[i] = q[i]
      BY DEF Front
<1>2. Last(q) = q[n] /\ q[n] \in S
      BY DEF Last
<1> HIDE DEF f
<1>3. /\ Reverse(q) \in Seq(S) /\ Len(Reverse(q)) = n
      /\ \A i \in 1 .. n : Reverse(q)[i] = q[n - i + 1]
      BY ReverseOf
<1>4. /\ Reverse(f) \in Seq(S) /\ Len(Reverse(f)) = n - 1
      /\ \A i \in 1 .. n - 1 : Reverse(f)[i] = f[n - 1 - i + 1]
      BY <1>1, ReverseOf
<1> DEFINE r == <<Last(q)>> \o Reverse(f)
<1>5. /\ r \in Seq(S) /\ Len(r) = n /\ r[1] = q[n]
      /\ \A i \in 1 .. n - 1 : r[i + 1] = Reverse(f)[i]
      BY <1>0, <1>2, <1>4
<1> HIDE DEF r, n
<1>6. ASSUME NEW i \in 1 .. n
      PROVE  Reverse(q)[i] = r[i]
      <2>1. CASE i = 1
            <3>1. n - i + 1 = n
                  BY <1>0, <2>1
            <3> QED BY <1>3, <1>5, <2>1, <3>1
      <2>2. CASE i # 1
            <3>1. /\ i - 1 \in 1 .. n - 1 /\ i - 1 + 1 = i
                  /\ n - i + 1 \in 1 .. n - 1 /\ n - 1 - (i - 1) + 1 = n - i + 1
                  BY <1>0, <2>2
            <3>2. r[i] = Reverse(f)[i - 1] /\ Reverse(f)[i - 1] = f[n - i + 1]
                  BY <1>4, <1>5, <3>1
            <3> QED BY <1>1, <1>3, <3>1, <3>2
      <2> QED BY <2>1, <2>2
<1>7. Reverse(q) = r
      BY <1>3, <1>5, <1>6, SameSequence
<1> QED BY <1>7 DEF r, f

LEMMA JoinedSet ==
    ASSUME NEW S, NEW s \in Seq(S), NEW r \in Seq(S)
    PROVE  ToSet(s \o r) = ToSet(s) \cup ToSet(r)
<1> DEFINE c == s \o r
<1>1. /\ c \in Seq(S) /\ Len(c) = Len(s) + Len(r)
      /\ \A i \in 1 .. Len(s) : c[i] = s[i]
      /\ \A i \in 1 .. Len(r) : c[Len(s) + i] = r[i]
      OBVIOUS
<1> HIDE DEF c
<1>2. Len(s) \in Nat /\ Len(r) \in Nat
      OBVIOUS
<1>3. /\ \A i \in 1 .. Len(s) + Len(r) :
             i \in 1 .. Len(s) \/ (i - Len(s) \in 1 .. Len(r) /\ Len(s) + (i - Len(s)) = i)
      /\ \A i \in 1 .. Len(s) : i \in 1 .. Len(s) + Len(r)
      /\ \A i \in 1 .. Len(r) : Len(s) + i \in 1 .. Len(s) + Len(r)
      BY <1>2
<1>4. ASSUME NEW y
      PROVE  y \in ToSet(c) <=> y \in ToSet(s) \cup ToSet(r)
      <2>1. /\ y \in ToSet(c) <=> \E i \in 1 .. Len(s) + Len(r) : c[i] = y
            /\ y \in ToSet(s) <=> \E i \in 1 .. Len(s) : s[i] = y
            /\ y \in ToSet(r) <=> \E i \in 1 .. Len(r) : r[i] = y
            BY <1>1, ElementsOf
      <2>2. ASSUME NEW i \in 1 .. Len(s) + Len(r), c[i] = y
            PROVE  y \in ToSet(s) \cup ToSet(r)
            <3>1. CASE i \in 1 .. Len(s)
                  BY <1>1, <2>1, <2>2, <3>1
            <3>2. CASE i - Len(s) \in 1 .. Len(r) /\ Len(s) + (i - Len(s)) = i
                  <4>1. r[i - Len(s)] = y
                        BY <1>1, <2>2, <3>2
                  <4> QED BY <2>1, <3>2, <4>1
            <3> QED BY <1>3, <3>1, <3>2
      <2>3. ASSUME y \in ToSet(s)
            PROVE  y \in ToSet(c)
            BY <1>1, <1>3, <2>1, <2>3
      <2>4. ASSUME y \in ToSet(r)
            PROVE  y \in ToSet(c)
            BY <1>1, <1>3, <2>1, <2>4
      <2> QED BY <2>1, <2>2, <2>3, <2>4
<1> QED BY <1>4 DEF c

(* The only worker's place changes, and the queue does not. *)
LEMMA AloneMoves ==
    ASSUME PoolInv, AloneInv, UNCHANGED <<n_threads, queue, submitted, begun>>,
           pc'[0] \notin {"steal", "locked"},
           pc'[0] \in {"check", "exited"} =>
              pc[0] \in {"check", "exited"} \/ queue[0] = <<>>
    PROVE  AloneInv'
<1>1. Queued(0)' = Queued(0)
      BY DEF Queued
<1>2. queue[0] = <<>> => Queued(0) = {}
      BY DEF Queued, ToSet
<1> QED BY <1>1, <1>2 DEF AloneInv

LEMMA AloneSubmits ==
    ASSUME PoolInv, AloneInv, n_threads = 1, NEW x \in Task, Submit(x, 0), UNCHANGED pc,
           pc[0] \notin {"check", "exited"} \/ \A y \in Task : x \notin ToSet(Subtasks[y])
    PROVE  AloneInv'
<1>1. /\ queue[0] \in Seq(Task) /\ begun \in Seq(Task) /\ 0 \in Worker
      /\ queue \in [Worker -> Seq(Task)]
      BY MaxThreadsAssumption DEF PoolInv, TasksInv, DataOK, Worker
<1>2. /\ queue'[0] = PushFront(queue[0], x) /\ submitted' = Append(submitted, x)
      /\ begun' = begun /\ n_threads' = n_threads
      BY <1>1 DEF Submit
<1>3. submitted' = begun' \o Reverse(queue'[0])
      <2>1. Reverse(queue[0]) \in Seq(Task)
            BY <1>1, ReverseOf
      <2>2. Reverse(queue'[0]) = Append(Reverse(queue[0]), x)
            BY <1>1, <1>2, ReversePushed
      <2>3. submitted = begun \o Reverse(queue[0])
            BY DEF AloneInv
      <2>4. Append(begun \o Reverse(queue[0]), x) = begun \o Append(Reverse(queue[0]), x)
            <3>1. begun \in Seq(Task)
                  BY <1>1
            <3> QED BY <2>1, <3>1
      <2> QED BY <1>2, <2>2, <2>3, <2>4
<1>4. Queued(0)' = Queued(0) \cup {x}
      BY <1>1, <1>2, Pushed DEF Queued
<1> QED BY <1>2, <1>3, <1>4 DEF AloneInv

LEMMA AloneTakes ==
    ASSUME PoolInv, AloneInv, n_threads = 1, n_threads' = 1, queue[0] # <<>>,
           Take(0, Last(queue[0])),
           queue' = [queue EXCEPT ![0] = PopBack(@)], UNCHANGED submitted
    PROVE  AloneInv'
<1> DEFINE x == Last(queue[0])
           f == Front(queue[0])
<1>1. /\ queue[0] \in Seq(Task) /\ begun \in Seq(Task) /\ 0 \in Worker
      /\ queue \in [Worker -> Seq(Task)]
      BY MaxThreadsAssumption DEF PoolInv, TasksInv, DataOK, Worker
<1>2. queue'[0] = f /\ begun' = Append(begun, x)
      BY <1>1 DEF Take, PopBack
<1>3. x \in Task /\ f \in Seq(Task)
      BY <1>1, BeforeLast
<1>4. Reverse(queue[0]) = <<x>> \o Reverse(f)
      BY <1>1, ReverseOfFront
<1> HIDE DEF x, f
<1>5. Reverse(f) \in Seq(Task)
      BY <1>3, ReverseOf
<1>6. submitted = begun \o Reverse(queue[0])
      BY DEF AloneInv
<1>7. submitted' = begun' \o Reverse(queue'[0])
      <2>1. submitted = begun \o (<<x>> \o Reverse(f))
            BY <1>4, <1>6
      <2>2. begun \o (<<x>> \o Reverse(f)) = Append(begun, x) \o Reverse(f)
            BY <1>1, <1>3, <1>5
      <2> QED BY <1>2, <2>1, <2>2
<1>8. pc'[0] = "run"
      BY <1>1 DEF Take, GoTo, PoolInv, LockInv, Shape
<1> QED BY <1>7, <1>8 DEF AloneInv

LEMMA NextAlone == PoolInv /\ AloneInv /\ [Next]_vars => AloneInv'
<1> SUFFICES ASSUME PoolInv, AloneInv, [Next]_vars, n_threads' = 1
             PROVE  AloneInv'
    BY DEF AloneInv
<1>1. /\ pc \in [Worker -> Place] /\ 0 \in Worker
      /\ n_threads = 1 => Index = {0}
      <2>1. pc \in [Worker -> Place]
            BY DEF PoolInv, LockInv, Shape
      <2>2. 0 \in Worker
            BY MaxThreadsAssumption DEF Worker
      <2>3. n_threads = 1 => Index = {0}
            BY DEF Index
      <2> QED BY <2>1, <2>2, <2>3
<1>2. CASE StartWorker
      <2>1. PICK w \in Index \ Started : pc' = [pc EXCEPT ![w] = "pop"]
            BY <1>2 DEF StartWorker, GoTo
      <2>2. UNCHANGED <<n_threads, queue, submitted, begun>>
            BY <1>2 DEF StartWorker
      <2>3. w = 0 /\ pc'[0] = "pop"
            BY <1>1, <2>1, <2>2
      <2> QED BY <2>2, <2>3, AloneMoves
<1>3. CASE StartFails \/ Destroy \/ Joined \/ Ended \/ UNCHANGED vars
      <2>1. UNCHANGED <<n_threads, queue, pc, submitted, begun>>
            BY <1>3 DEF StartFails, Destroy, Joined, Ended, threadVars, vars
      <2> QED BY <2>1, AloneMoves DEF AloneInv
<1>4. CASE SubmitByMain
      <2>1. PICK q \in Index : Submit(Head(mainLeft), q)
            BY <1>4 DEF SubmitByMain
      <2>2. mainLeft # <<>> /\ mainLeft \in Seq(Task) /\ UNCHANGED pc /\ n_threads' = n_threads
            BY <1>4, <2>1 DEF SubmitByMain, Submit, threadVars, PoolInv, TasksInv, DataOK
      <2>3. Head(mainLeft) \in Task /\ Head(mainLeft) \in ToSet(mainLeft)
            BY <2>2, AfterHead
      <2>4. \A y \in Task : Head(mainLeft) \notin ToSet(Subtasks[y])
            BY <2>3, SubmittedOnceAssumption DEF PoolInv, TasksInv, LeftIsNew
      <2>5. q = 0
            BY <1>1, <2>1, <2>2
      <2> QED BY <2>1, <2>2, <2>3, <2>4, <2>5, AloneSubmits
<1>5. CASE SubmitByOther
      <2>1. Submit(Head(otherLeft), 0)
            BY <1>5 DEF SubmitByOther
      <2>2. otherLeft # <<>> /\ otherLeft \in Seq(Task) /\ UNCHANGED pc /\ n_threads' = n_threads
            BY <1>5, <2>1 DEF SubmitByOther, Submit, threadVars, PoolInv, TasksInv, DataOK
      <2>3. Head(otherLeft) \in Task /\ Head(otherLeft) \in ToSet(otherLeft)
            BY <2>2, AfterHead
      <2>4. \A y \in Task : Head(otherLeft) \notin ToSet(Subtasks[y])
            BY <2>3, SubmittedOnceAssumption DEF PoolInv, TasksInv, LeftIsNew
      <2> QED BY <2>1, <2>2, <2>3, <2>4, AloneSubmits
<1>6. ASSUME NEW w \in Worker, WorkerStep(w)
      PROVE  AloneInv'
      <2>1. n_threads = 1
            BY <1>6
            DEF WorkerStep, TryPopLocal, LockFirst, Steal, Check, SubmitByTask, Submit,
                Finish, Throw, Terminate
      <2>2. pc[w] \notin {"unborn", "exited"}
            BY <1>6
            DEF WorkerStep, TryPopLocal, LockFirst, Steal, Check, SubmitByTask, Finish,
                Throw, Terminate
      <2>3. w = 0 /\ pc[0] \notin {"steal", "locked"}
            BY <1>1, <2>1, <2>2, RunningIsOpen DEF AloneInv
      <2>4. CASE TryPopLocal(w)
            <3>1. CASE /\ queue[w] # <<>> /\ Take(w, Last(queue[w]))
                       /\ queue' = [queue EXCEPT ![w] = PopBack(@)]
                  BY <2>1, <2>3, <2>4, <3>1, AloneTakes DEF TryPopLocal
            <3>2. CASE /\ queue[w] = <<>> /\ GoTo(w, IF n_threads < 2 THEN "check" ELSE "steal")
                       /\ UNCHANGED <<queue, t, left, begun>>
                  <4>1. pc'[0] = "check" /\ UNCHANGED <<n_threads, queue, submitted, begun>>
                        BY <1>1, <2>1, <2>3, <2>4, <3>2 DEF TryPopLocal, GoTo
                  <4> QED BY <2>3, <3>2, <4>1, AloneMoves
            <3> QED BY <2>4, <3>1, <3>2 DEF TryPopLocal
      <2>5. CASE LockFirst(w) \/ Steal(w)
            BY <2>3, <2>5 DEF LockFirst, Steal
      <2>6. CASE Check(w)
            <3>1. /\ pc'[0] \in {"exited", "pop"} /\ pc[0] = "check"
                  /\ UNCHANGED <<n_threads, queue, submitted, begun>>
                  BY <1>1, <2>3, <2>6 DEF Check, GoTo
            <3> QED BY <3>1, AloneMoves
      <2>7. CASE SubmitByTask(w)
            <3>1. /\ Submit(Head(left[0]), 0) /\ left[0] # <<>> /\ pc[0] = "run" /\ UNCHANGED pc
                  BY <2>3, <2>7 DEF SubmitByTask
            <3>2. left[0] \in Seq(Task)
                  BY <1>1 DEF PoolInv, TasksInv, DataOK
            <3>3. Head(left[0]) \in Task
                  BY <3>1, <3>2, AfterHead
            <3> QED BY <2>1, <3>1, <3>3, AloneSubmits
      <2>8. CASE Finish(w) \/ Throw(w) \/ Terminate(w)
            <3>1. /\ pc'[0] \in {"pop", "throw"}
                  /\ UNCHANGED <<n_threads, queue, submitted, begun>>
                  BY <1>1, <2>3, <2>8 DEF Finish, Throw, Terminate, GoTo, threadVars
            <3> QED BY <3>1, AloneMoves
      <2> QED BY <1>6, <2>4, <2>5, <2>6, <2>7, <2>8 DEF WorkerStep
<1> QED BY <1>2, <1>3, <1>4, <1>5, <1>6 DEF Next

LEMMA AloneKeepsOrder == PoolInv /\ AloneInv => AloneInOrder
<1> SUFFICES ASSUME PoolInv, AloneInv, n_threads = 1
             PROVE  /\ IsPrefix(begun, submitted)
                    /\ main = "closed" =>
                         \A x \in Task : ToSet(Subtasks[x]) \cap ToSet(submitted)
                                            \subseteq ToSet(begun)
    BY DEF AloneInOrder
<1> DEFINE r == Reverse(queue[0])
<1>1. /\ queue[0] \in Seq(Task) /\ begun \in Seq(Task) /\ submitted \in Seq(Task)
      /\ 0 \in Worker
      BY MaxThreadsAssumption DEF PoolInv, TasksInv, DataOK, Worker
<1>2. r \in Seq(Task) /\ submitted = begun \o r
      BY <1>1, ReverseOf DEF AloneInv
<1>3. ToSet(r) = Queued(0)
      <2>1. /\ Len(r) = Len(queue[0]) /\ Len(r) \in Nat
            /\ \A i \in 1 .. Len(queue[0]) : r[i] = queue[0][Len(queue[0]) - i + 1]
            BY <1>1, ReverseOf
      <2>2. \A i \in 1 .. Len(r) :
               Len(r) - i + 1 \in 1 .. Len(r) /\ Len(r) - (Len(r) - i + 1) + 1 = i
            BY <2>1
      <2>3. DOMAIN r = 1 .. Len(r) /\ DOMAIN queue[0] = 1 .. Len(queue[0])
            BY <1>1, <1>2
      <2> HIDE DEF r
      <2>4. \A y : y \in ToSet(r) => y \in Queued(0)
            BY <2>1, <2>2, <2>3 DEF ToSet, Queued
      <2>5. ASSUME NEW y \in Queued(0)
            PROVE  y \in ToSet(r)
            <3>1. PICK i \in 1 .. Len(r) : queue[0][i] = y
                  BY <2>1, <2>3 DEF ToSet, Queued
            <3>2. r[Len(r) - i + 1] = queue[0][i]
                  BY <2>1, <2>2, <3>1
            <3> QED BY <2>2, <2>3, <3>1, <3>2 DEF ToSet
      <2> QED BY <2>4, <2>5
<1> HIDE DEF r
<1>4. IsPrefix(begun, submitted)
      <2>1. /\ Len(begun) <= Len(submitted) /\ Len(begun) \in Nat
            /\ \A i \in 1 .. Len(begun) : submitted[i] = begun[i]
            BY <1>1, <1>2
      <2>2. /\ SubSeq(begun, 1, Len(begun)) \in Seq(Task)
            /\ Len(SubSeq(begun, 1, Len(begun))) = Len(begun)
            /\ \A i \in 1 .. Len(begun) : SubSeq(begun, 1, Len(begun))[i] = begun[i]
            BY <1>1
      <2>3. /\ SubSeq(submitted, 1, Len(begun)) \in Seq(Task)
            /\ Len(SubSeq(submitted, 1, Len(begun))) = Len(begun)
            /\ \A i \in 1 .. Len(begun) : SubSeq(submitted, 1, Len(begun))[i] = submitted[i]
            BY <1>1, <2>1
      <2>4. SubSeq(begun, 1, Len(begun)) = SubSeq(submitted, 1, Len(begun))
            BY <2>1, <2>2, <2>3, SameSequence
      <2> QED BY <2>1, <2>4 DEF IsPrefix
<1>5. ASSUME main = "closed", NEW x \in Task
      PROVE  ToSet(Subtasks[x]) \cap ToSet(submitted) \subseteq ToSet(begun)
      <2>1. pc[0] = "exited"
            BY <1>5 DEF PoolInv, TasksInv, RunWhileOpen, Index
      <2>2. ToSet(Subtasks[x]) \cap Queued(0) = {}
            BY <2>1 DEF AloneInv
      <2>3. ToSet(submitted) = ToSet(begun) \cup ToSet(r)
            <3>1. ToSet(begun \o r) = ToSet(begun) \cup ToSet(r)
                  BY <1>1, <1>2, JoinedSet
            <3> QED BY <1>2, <3>1
      <2> QED BY <1>3, <2>2, <2>3
<1> QED BY <1>4, <1>5

(* A pool of one worker runs the tasks in the order of their submission, and  *)
(* its destructor leaves no task behind that a task submitted: submit() fills *)
(* the front of the queue, tryPopLocal() empties the back, and the worker     *)
(* looks at the flag only when it has found its queue empty.                  *)
THEOREM AlonePoolIsFIFO == Spec => []AloneInOrder
<1>1. Init => PoolInv
      BY InitPool
<1>2. PoolInv /\ [Next]_vars => PoolInv'
      BY NextPool
<1>3. Init => AloneInv
      <2> SUFFICES ASSUME Init
                   PROVE  AloneInv
          OBVIOUS
      <2>1. queue[0] = <<>> /\ begun = <<>> /\ submitted = <<>> /\ pc[0] = "unborn"
            BY MaxThreadsAssumption DEF Init, Worker
      <2>2. Reverse(<<>>) = <<>>
            BY DEF Reverse
      <2> QED BY <2>1, <2>2 DEF AloneInv
<1>4. PoolInv /\ AloneInv /\ [Next]_vars => AloneInv'
      BY NextAlone
<1>5. PoolInv /\ AloneInv => AloneInOrder
      BY AloneKeepsOrder
<1> QED BY <1>1, <1>2, <1>3, <1>4, <1>5, PTL DEF Spec

-----------------------------------------------------------------------------
(* The pool implements Tasks: every step moves one task on by one stage, or   *)
(* none.                                                                      *)
Stages == [x \in Task |-> StageOf(x)]
Closed == main = "closed"

StageFacts ==
    \A x \in Task :
        /\ StageOf(x) \in {"new", "waiting", "running", "finished"}
        /\ StageOf(x) = "running" <=> \E w \in Worker : t[w] = x
        /\ StageOf(x) = "new" <=> x \notin Submitted
        /\ StageOf(x) = "waiting" <=> x \in Submitted \ Begun
        /\ StageOf(x) = "finished" <=> x \in Begun /\ \A w \in Worker : t[w] # x

LEMMA StageIs == PoolInv => StageFacts
<1> SUFFICES ASSUME PoolInv, NEW x \in Task
             PROVE  /\ StageOf(x) \in {"new", "waiting", "running", "finished"}
                    /\ StageOf(x) = "running" <=> \E w \in Worker : t[w] = x
                    /\ StageOf(x) = "new" <=> x \notin Submitted
                    /\ StageOf(x) = "waiting" <=> x \in Submitted \ Begun
                    /\ StageOf(x) = "finished" <=> x \in Begun /\ \A w \in Worker : t[w] # x
    BY DEF StageFacts
<1>1. Runs(x) <=> \E w \in Worker : t[w] = x
      BY DEF Runs
<1>2. Waits(x) <=> x \in Submitted \ Begun
      BY DEF Waits, Submitted, Begun
<1>3. Runs(x) => x \in Begun
      BY <1>1, TaskAssumption DEF PoolInv, TasksInv, OneTaskEach
<1>4. Begun \subseteq Submitted
      BY DEF PoolInv, TasksInv, QueuesHoldWaiting
<1>5. StageOf(x) = CASE Runs(x)                -> "running"
                     [] x \in Begun /\ ~Runs(x) -> "finished"
                     [] Waits(x)               -> "waiting"
                     [] OTHER                  -> "new"
      BY DEF StageOf, Begun
<1>6. CASE Runs(x)
      BY <1>1, <1>2, <1>3, <1>4, <1>5, <1>6
<1>7. CASE ~Runs(x) /\ x \in Begun
      BY <1>1, <1>2, <1>4, <1>5, <1>7
<1>8. CASE ~Runs(x) /\ x \notin Begun /\ x \in Submitted
      BY <1>1, <1>2, <1>5, <1>8
<1>9. CASE ~Runs(x) /\ x \notin Begun /\ x \notin Submitted
      BY <1>1, <1>2, <1>5, <1>9
<1> QED BY <1>6, <1>7, <1>8, <1>9

LEMMA StageIsAfter == PoolInv' => StageFacts'
BY StageIs, PTL

(* One task comes to another stage. *)
LEMMA OneMoves ==
    ASSUME NEW x \in Task, NEW to, StageOf(x)' = to,
           \A y \in Task \ {x} : StageOf(y)' = StageOf(y)
    PROVE  Stages' = [Stages EXCEPT ![x] = to]
BY DEF Stages

(* A stage depends only on what was submitted, begun and is run. *)
LEMMA StageKept ==
    ASSUME PoolInv, PoolInv', NEW x \in Task,
           x \in Submitted' <=> x \in Submitted, x \in Begun' <=> x \in Begun,
           (\E w \in Worker : t'[w] = x) <=> \E w \in Worker : t[w] = x
    PROVE  StageOf(x)' = StageOf(x)
<1>1. StageFacts /\ StageFacts'
      BY StageIs, StageIsAfter
<1> QED BY <1>1 DEF StageFacts

(* A step that neither submits, takes nor ends a task moves none. *)
LEMMA NoneMoves ==
    ASSUME PoolInv, PoolInv', UNCHANGED <<t, submitted, begun>>
    PROVE  Stages' = Stages
<1>1. Submitted' = Submitted /\ Begun' = Begun
      BY DEF Submitted, Begun
<1>2. \A x \in Task : StageOf(x)' = StageOf(x)
      BY <1>1, StageKept
<1> QED BY <1>2 DEF Stages

LEMMA SubmitMoves ==
    ASSUME PoolInv, PoolInv', NEW x \in Task \ Submitted, NEW q \in Worker, Submit(x, q),
           main # "closed", UNCHANGED <<t, main>>
    PROVE  T!Submit(x)
<1>1. Submitted' = Submitted \cup {x} /\ Begun' = Begun
      BY Submits
<1>2. StageOf(x) = "new"
      BY StageIs DEF StageFacts
<1>3. StageOf(x)' = "waiting"
      <2>1. x \notin Begun
            BY DEF PoolInv, TasksInv, QueuesHoldWaiting
      <2>2. StageOf(x)' = "waiting" <=> x \in Submitted' \ Begun'
            BY StageIsAfter DEF StageFacts
      <2> QED BY <1>1, <2>1, <2>2
<1>4. \A y \in Task \ {x} : StageOf(y)' = StageOf(y)
      BY <1>1, StageKept
<1>5. Stages[x] = "new" /\ Stages' = [Stages EXCEPT ![x] = "waiting"]
      BY <1>2, <1>3, <1>4, OneMoves DEF Stages
<1> QED BY <1>5 DEF T!Submit, T!Move, Stages

LEMMA TakeMoves ==
    ASSUME PoolInv, PoolInv', NEW w \in Worker, NEW from \in Worker, queue[from] # <<>>,
           Take(w, Last(queue[from])), t[w] = NoTask, main # "closed",
           queue' = [queue EXCEPT ![from] = PopBack(@)], UNCHANGED <<main, submitted>>
    PROVE  \E x \in Task : T!Begin(x)
<1>0. PICK x : x = Last(queue[from])
      OBVIOUS
<1>1. /\ x \in Task /\ x \in Submitted \ Begun
      /\ Begun' = Begun \cup {x} /\ Submitted' = Submitted
      BY <1>0, Takes
<1>2. t' = [t EXCEPT ![w] = x] /\ t \in [Worker -> Task \cup {NoTask}]
      BY <1>0 DEF Take, PoolInv, TasksInv, DataOK
<1>3. StageOf(x) = "waiting"
      BY <1>1, StageIs DEF StageFacts
<1>4. t'[w] = x /\ \A u \in Worker \ {w} : t'[u] = t[u]
      BY <1>2
<1>5. StageOf(x)' = "running"
      <2>1. StageOf(x)' = "running" <=> \E u \in Worker : t'[u] = x
            BY <1>1, StageIsAfter DEF StageFacts
      <2> QED BY <1>4, <2>1
<1>6. ASSUME NEW y \in Task \ {x}
      PROVE  StageOf(y)' = StageOf(y)
      <2>1. (\E u \in Worker : t'[u] = y) <=> \E u \in Worker : t[u] = y
            BY <1>4, TaskAssumption
      <2> QED BY <1>1, <2>1, StageKept
<1>7. Stages[x] = "waiting" /\ Stages' = [Stages EXCEPT ![x] = "running"]
      BY <1>1, <1>3, <1>5, <1>6, OneMoves DEF Stages
<1> QED BY <1>1, <1>7 DEF T!Begin, T!Move, Stages

LEMMA FinishMoves ==
    ASSUME PoolInv, PoolInv', NEW w \in Worker, Finish(w), main # "closed"
    PROVE  \E x \in Task : T!Finish(x)
<1>0. PICK x : x = t[w]
      OBVIOUS
<1>1. /\ pc[w] = "run" /\ t' = [t EXCEPT ![w] = NoTask]
      /\ UNCHANGED <<main, submitted, begun>>
      BY DEF Finish, clientVars
<1>2. x \in Task /\ x \in Begun /\ \A u \in Worker \ {w} : t[u] # x
      BY <1>0, <1>1 DEF PoolInv, TasksInv, OneTaskEach, DataOK
<1>3. t \in [Worker -> Task \cup {NoTask}]
      BY DEF PoolInv, TasksInv, DataOK
<1>4. Submitted' = Submitted /\ Begun' = Begun
      BY <1>1 DEF Submitted, Begun
<1>5. t'[w] = NoTask /\ \A u \in Worker \ {w} : t'[u] = t[u]
      BY <1>1, <1>3
<1>6. StageOf(x) = "running"
      BY <1>0, <1>2, StageIs DEF StageFacts
<1>7. StageOf(x)' = "finished"
      <2>1. StageOf(x)' = "finished" <=> x \in Begun' /\ \A u \in Worker : t'[u] # x
            BY <1>2, StageIsAfter DEF StageFacts
      <2> QED BY <1>2, <1>4, <1>5, <2>1, TaskAssumption
<1>8. ASSUME NEW y \in Task \ {x}
      PROVE  StageOf(y)' = StageOf(y)
      <2>1. (\E u \in Worker : t'[u] = y) <=> \E u \in Worker : t[u] = y
            BY <1>0, <1>5, TaskAssumption
      <2> QED BY <1>4, <2>1, StageKept
<1>9. Stages[x] = "running" /\ Stages' = [Stages EXCEPT ![x] = "finished"]
      BY <1>2, <1>6, <1>7, <1>8, OneMoves DEF Stages
<1> QED BY <1>1, <1>2, <1>9 DEF T!Finish, T!Move, Stages

LEMMA JoinedCloses ==
    ASSUME PoolInv, PoolInv', Joined
    PROVE  T!Close
<1>1. /\ \A w \in Index : pc[w] = "exited"
      /\ main' = "closed" /\ UNCHANGED <<t, submitted, begun>>
      BY DEF Joined, threadVars
<1>2. \A w \in Worker : t[w] = NoTask
      BY <1>1 DEF PoolInv, TasksInv, OneTaskEach, RunWhileOpen, Started
<1>3. \A x \in Task : StageOf(x) # "running"
      <2> SUFFICES ASSUME NEW x \in Task
                   PROVE  StageOf(x) # "running"
          OBVIOUS
      <2>1. ~ \E w \in Worker : t[w] = x
            BY <1>2, TaskAssumption
      <2> QED BY <2>1, StageIs DEF StageFacts
<1>4. \A x \in Task : Stages[x] # "running"
      BY <1>3 DEF Stages
<1>5. Stages' = Stages
      BY <1>1, NoneMoves
<1> QED BY <1>1, <1>4, <1>5 DEF T!Close, Stages

LEMMA TaskSteps ==
    ASSUME PoolInv, PoolInv', [Next]_vars
    PROVE  [T!Next]_<<Stages, Closed>>
<1>1. CASE SubmitByMain
      <2>1. PICK q \in Index : Submit(Head(mainLeft), q)
            BY <1>1 DEF SubmitByMain
      <2>2. /\ mainLeft # <<>> /\ mainLeft \in Seq(Task) /\ main = "open"
            /\ UNCHANGED <<t, main>>
            BY <1>1 DEF SubmitByMain, threadVars, PoolInv, TasksInv, DataOK
      <2>3. Head(mainLeft) \in Task /\ Head(mainLeft) \in ToSet(mainLeft)
            BY <2>2, AfterHead
      <2>4. q \in Worker /\ Head(mainLeft) \notin Submitted
            BY <2>3, IndexInWorker DEF PoolInv, LockInv, TasksInv, LeftIsNew
      <2>5. T!Submit(Head(mainLeft))
            BY <2>1, <2>2, <2>3, <2>4, SubmitMoves
      <2> QED BY <2>3, <2>5 DEF T!Next
<1>2. CASE SubmitByOther
      <2>1. Submit(Head(otherLeft), 0)
            BY <1>2 DEF SubmitByOther
      <2>2. /\ otherLeft # <<>> /\ otherLeft \in Seq(Task) /\ main = "open"
            /\ UNCHANGED <<t, main>>
            BY <1>2 DEF SubmitByOther, threadVars, PoolInv, TasksInv, DataOK
      <2>3. Head(otherLeft) \in Task /\ Head(otherLeft) \in ToSet(otherLeft)
            BY <2>2, AfterHead
      <2>4. 0 \in Worker /\ Head(otherLeft) \notin Submitted
            BY <2>3, MaxThreadsAssumption DEF Worker, PoolInv, TasksInv, LeftIsNew
      <2>5. T!Submit(Head(otherLeft))
            BY <2>1, <2>2, <2>3, <2>4, SubmitMoves
      <2> QED BY <2>3, <2>5 DEF T!Next
<1>3. ASSUME NEW w \in Worker, WorkerStep(w)
      PROVE  [T!Next]_<<Stages, Closed>>
      <2>1. pc[w] \notin {"unborn", "exited"}
            BY <1>3
            DEF WorkerStep, TryPopLocal, LockFirst, Steal, Check, SubmitByTask, Finish,
                Throw, Terminate
      <2>2. main # "closed"
            BY <2>1, RunningIsOpen
      <2>3. pc[w] \in {"pop", "locked"} => t[w] = NoTask
            BY DEF PoolInv, TasksInv, OneTaskEach
      <2>4. CASE UNCHANGED <<t, submitted, begun>> /\ main' # "closed"
            BY <2>2, <2>4, NoneMoves DEF Closed
      <2>5. CASE TryPopLocal(w)
            <3>1. CASE /\ queue[w] # <<>> /\ Take(w, Last(queue[w]))
                       /\ queue' = [queue EXCEPT ![w] = PopBack(@)]
                  BY <2>2, <2>3, <2>5, <3>1, TakeMoves DEF TryPopLocal, clientVars, T!Next
            <3> QED BY <2>2, <2>4, <2>5, <3>1 DEF TryPopLocal, clientVars
      <2>6. CASE Steal(w)
            <3>1. ASSUME NEW from \in Worker, NEW to \in Worker, Move(w, from, to)
                  PROVE  [T!Next]_<<Stages, Closed>>
                  <4>1. queue[from] # <<>>
                        <5>1. queue[from] \in Seq(Task) /\ queue[to] \in Seq(Task)
                              BY DEF PoolInv, TasksInv, DataOK
                        <5>2. Len(queue[from]) > Len(queue[to])
                              BY <3>1 DEF Move
                        <5> QED BY <5>1, <5>2
                  <4>2. UNCHANGED <<main, submitted>> /\ pc[w] = "locked"
                        BY <2>6 DEF Steal, clientVars
                  <4>3. CASE /\ Take(w, Last(queue[from]))
                             /\ queue' = [queue EXCEPT ![from] = PopBack(@)]
                        BY <2>2, <2>3, <4>1, <4>2, <4>3, TakeMoves DEF T!Next
                  <4>4. CASE UNCHANGED <<t, left, begun>>
                        BY <2>2, <2>4, <4>2, <4>4
                  <4> QED BY <3>1, <4>3, <4>4 DEF Move
            <3>2. pair[w][1] \in Worker /\ pair[w][2] \in Worker
                  BY DEF PoolInv, LockInv, Shape
            <3>3. CASE UNCHANGED <<queue, t, left, begun>>
                  BY <2>2, <2>4, <2>6, <3>3 DEF Steal, clientVars
            <3> QED BY <2>6, <3>1, <3>2, <3>3 DEF Steal
      <2>7. CASE SubmitByTask(w)
            <3>1. /\ Submit(Head(left[w]), w) /\ left[w] # <<>> /\ UNCHANGED <<t, main>>
                  BY <2>7 DEF SubmitByTask, clientVars
            <3>2. left[w] \in Seq(Task)
                  BY DEF PoolInv, TasksInv, DataOK
            <3>3. Head(left[w]) \in Task /\ Head(left[w]) \in ToSet(left[w])
                  BY <3>1, <3>2, AfterHead
            <3>4. Head(left[w]) \notin Submitted
                  BY <3>1, <3>3 DEF PoolInv, TasksInv, LeftIsNew
            <3>5. T!Submit(Head(left[w]))
                  BY <2>2, <3>1, <3>3, <3>4, SubmitMoves
            <3> QED BY <3>3, <3>5 DEF T!Next
      <2>8. CASE Finish(w)
            BY <2>2, <2>8, FinishMoves DEF T!Next
      <2>9. CASE LockFirst(w) \/ Check(w) \/ Throw(w) \/ Terminate(w)
            BY <2>2, <2>4, <2>9
            DEF LockFirst, Check, Throw, Terminate, clientVars, threadVars
      <2> QED BY <1>3, <2>5, <2>6, <2>7, <2>8, <2>9 DEF WorkerStep
<1>4. CASE Joined
      BY <1>4, JoinedCloses DEF T!Next
<1>5. CASE StartWorker \/ StartFails \/ Destroy \/ Ended \/ UNCHANGED vars
      <2>1. UNCHANGED <<t, submitted, begun>> /\ Closed' = Closed
            BY <1>5
            DEF StartWorker, StartFails, Destroy, Ended, vars, threadVars, clientVars, Closed
      <2> QED BY <2>1, NoneMoves
<1> QED BY <1>1, <1>2, <1>3, <1>4, <1>5 DEF Next

(* The pool runs a task at most once, by one worker, and neither runs nor     *)
(* takes any once its destructor has joined the workers.                      *)
THEOREM PoolRunsTasksOnce == Spec => ImplementsTasks
<1>1. Init => PoolInv
      BY InitPool
<1>2. PoolInv /\ [Next]_vars => PoolInv'
      BY NextPool
<1>3. Init => T!Init
      <2> SUFFICES ASSUME Init
                   PROVE  T!Init
          OBVIOUS
      <2>1. PoolInv /\ Submitted = {}
            BY InitPool DEF Init, Submitted, ToSet
      <2>2. \A x \in Task : StageOf(x) = "new"
            BY <2>1, StageIs DEF StageFacts
      <2>3. main # "closed"
            BY DEF Init
      <2> QED BY <2>2, <2>3 DEF T!Init
<1>4. PoolInv /\ PoolInv' /\ [Next]_vars => [T!Next]_<<Stages, Closed>>
      BY TaskSteps
<1> QED BY <1>1, <1>2, <1>3, <1>4, PTL DEF Spec, ImplementsTasks, T!Spec, Stages, Closed
=============================================================================
