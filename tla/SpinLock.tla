------------------------------ MODULE SpinLock ------------------------------
(* The locks of src/SpinLock/src (TASLock, TTASLock, TicketLock) under the    *)
(* worker loop of main.cpp: every thread locks, increments a plain shared     *)
(* counter and unlocks, Iterations times.  A behaviour uses one of the three  *)
(* locks, chosen by `kind'.                                                   *)
(*                                                                            *)
(* The counter is not atomic: what orders its accesses is the lock's release  *)
(* and acquire.  `writes' is the history of the counter's values; view[t] is  *)
(* how much of it has happened before thread t's next access.  A release      *)
(* store publishes the view of its thread, an acquire load takes it over, a   *)
(* relaxed one does neither.  A read that is not ordered after every write is *)
(* a data race and may return any value from view[t] on.  main.cpp:47 leaves  *)
(* the counter uninitialised: its values are counted from whatever it holds.  *)
(*                                                                            *)
(* A turn of a spin loop that finds the lock taken, and a weak compare-and-   *)
(* exchange that fails spuriously, change nothing: they are stuttering steps. *)
EXTENDS Integers, Sequences, FiniteSets

CONSTANTS Thread,       \* the workers of a round, the main thread among them
          NoThread,
          Iterations,   \* ITER_NUM
          MaxTicket     \* the largest uint64_t

ASSUME NoThreadAssumption == NoThread \notin Thread
ASSUME IterationsAssumption == Iterations \in Nat \ {0}
(* The ticket counters wrap; a waiting thread holds one ticket, so tickets    *)
(* stay distinct while the threads are no more than the tickets.              *)
ASSUME TicketAssumption ==
    /\ MaxTicket \in Nat
    /\ IsFiniteSet(Thread)
    /\ Cardinality(Thread) <= MaxTicket + 1

VARIABLES kind,          \* which lock is used
          locked,        \* TAS and TTAS: the flag
          next_ticket,   \* Ticket: the next ticket to hand out
          current,       \* Ticket: the ticket being served
          pc,            \* where each thread is
          ticket,        \* Ticket: the ticket a thread took last
          register,      \* the value a thread read from the counter
          done,          \* the iterations a thread has finished
          writes,        \* the values written to the counter, in order
          view,          \* how many of them each thread is ordered after
          published,     \* the view the last release wrote to the lock
          arrivals       \* history: the threads with a ticket, in ticket order

lockVars == <<locked, next_ticket, current, ticket, arrivals>>
memory == <<writes, view, published>>
vars == <<kind, lockVars, pc, register, done, memory>>

Kinds == {"TAS", "TTAS", "Ticket"}
Tickets == 0 .. MaxTicket
Places == {"ticket", "spin", "exchange", "sync", "read", "write", "unlock", "finished"}
(* Between the step that takes the lock and the one that gives it back. *)
Section == {"sync", "read", "write", "unlock"}

(* The counter after its first i writes. *)
Value(i) == IF i = 0 THEN 0 ELSE writes[i]

(* fetch_add(1) on a uint64_t. *)
FetchAdd(x) == IF x = MaxTicket THEN 0 ELSE x + 1

(* Where lock() starts. *)
Entry == IF kind = "Ticket" THEN "ticket" ELSE "spin"

GoTo(t, place) == pc' = [pc EXCEPT ![t] = place]

(* Mutant: a relaxed operation, which takes nothing over.                     *)
RelaxedView(t) == UNCHANGED view

(* The thread's view after an acquire operation on the lock. *)
AcquireView(t) ==
    view' = [view EXCEPT ![t] = IF published > @ THEN published ELSE @]

-----------------------------------------------------------------------------
(* The lock objects are global and serve one round of threads after another,  *)
(* so a round may find the ticket counters at any, equal, value.              *)
Init ==
    /\ kind \in Kinds
    /\ locked = FALSE
    /\ next_ticket \in Tickets
    /\ current = next_ticket
    /\ pc = [t \in Thread |-> Entry]
    /\ ticket = [t \in Thread |-> 0]
    /\ register = [t \in Thread |-> 0]
    /\ done = [t \in Thread |-> 0]
    /\ writes = <<>>
    /\ view = [t \in Thread |-> 0]
    /\ published = 0
    /\ arrivals = <<>>

(* Mutant: the result of the compare-and-exchange is not looked at.           *)
CompareExchangeOnce(t) ==
    /\ kind = "TAS"
    /\ pc[t] = "spin"
    /\ locked' = TRUE
    /\ AcquireView(t)
    /\ GoTo(t, "read")
    /\ UNCHANGED <<kind, next_ticket, current, ticket, arrivals, register, done,
                   writes, published>>

(* TASLock::lock(): the compare_exchange_weak that succeeds. *)
CompareExchange(t) ==
    /\ kind = "TAS"
    /\ pc[t] = "spin"
    /\ ~locked
    /\ locked' = TRUE
    /\ AcquireView(t)
    /\ GoTo(t, "read")
    /\ UNCHANGED <<kind, next_ticket, current, ticket, arrivals, register, done,
                   writes, published>>

(* TTASLock::lock(): the relaxed load that sees the flag clear. *)
SeeFree(t) ==
    /\ kind = "TTAS"
    /\ pc[t] = "spin"
    /\ ~locked
    /\ GoTo(t, "exchange")
    /\ UNCHANGED <<kind, lockVars, register, done, memory>>

(* TTASLock::lock(): the exchange; another waiter may have come first. *)
Exchange(t) ==
    /\ pc[t] = "exchange"
    /\ locked' = TRUE
    /\ AcquireView(t)
    /\ GoTo(t, IF locked THEN "spin" ELSE "read")
    /\ UNCHANGED <<kind, next_ticket, current, ticket, arrivals, register, done,
                   writes, published>>

(* TicketLock::lock(): next_ticket.fetch_add(1, relaxed). *)
TakeTicket(t) ==
    /\ pc[t] = "ticket"
    /\ ticket' = [ticket EXCEPT ![t] = next_ticket]
    /\ next_ticket' = FetchAdd(next_ticket)
    /\ arrivals' = Append(arrivals, t)
    /\ GoTo(t, "spin")
    /\ UNCHANGED <<kind, locked, current, register, done, memory>>

(* Mutant: a ticket that is not past is taken for a turn that has come.       *)
MyTurnPassed(t) ==
    /\ kind = "Ticket"
    /\ pc[t] = "spin"
    /\ ticket[t] <= current
    /\ GoTo(t, "sync")
    /\ UNCHANGED <<kind, lockVars, register, done, memory>>

(* TicketLock::lock(): the relaxed load that ends the loop. *)
MyTurn(t) ==
    /\ kind = "Ticket"
    /\ pc[t] = "spin"
    /\ ticket[t] = current
    /\ GoTo(t, "sync")
    /\ UNCHANGED <<kind, lockVars, register, done, memory>>

(* TicketLock::lock(): the acquire load after the loop, for its ordering. *)
AcquireLoad(t) ==
    /\ pc[t] = "sync"
    /\ AcquireView(t)
    /\ GoTo(t, "read")
    /\ UNCHANGED <<kind, lockVars, register, done, writes, published>>

(* ( *counter)++: the load, *)
ReadCounter(t) ==
    /\ pc[t] = "read"
    /\ \E i \in view[t] .. Len(writes) : register' = [register EXCEPT ![t] = Value(i)]
    /\ GoTo(t, "write")
    /\ UNCHANGED <<kind, lockVars, done, memory>>

(* and the store. *)
WriteCounter(t) ==
    /\ pc[t] = "write"
    /\ writes' = Append(writes, register[t] + 1)
    /\ view' = [view EXCEPT ![t] = Len(writes) + 1]
    /\ GoTo(t, "unlock")
    /\ UNCHANGED <<kind, lockVars, register, done, published>>

(* Mutant: the lock is not given back.                                        *)
UnlockKept(t) ==
    /\ pc[t] = "unlock"
    /\ done' = [done EXCEPT ![t] = @ + 1]
    /\ GoTo(t, IF done[t] + 1 < Iterations THEN Entry ELSE "finished")
    /\ UNCHANGED <<kind, lockVars, register, memory>>

(* unlock(): a release store of 0, or a release fetch_add on current; then    *)
(* the worker's next iteration.                                               *)
Unlock(t) ==
    /\ pc[t] = "unlock"
    /\ published' = view[t]
    /\ \/ /\ kind # "Ticket"
          /\ locked' = FALSE
          /\ UNCHANGED <<current, arrivals>>
       \/ /\ kind = "Ticket"
          /\ current' = FetchAdd(current)
          /\ arrivals' = Tail(arrivals)
          /\ UNCHANGED locked
    /\ done' = [done EXCEPT ![t] = @ + 1]
    /\ GoTo(t, IF done[t] + 1 < Iterations THEN Entry ELSE "finished")
    /\ UNCHANGED <<kind, next_ticket, ticket, register, writes, view>>

Step(t) ==
    \/ CompareExchange(t)
    \/ SeeFree(t)
    \/ Exchange(t)
    \/ TakeTicket(t)
    \/ MyTurn(t)
    \/ AcquireLoad(t)
    \/ ReadCounter(t)
    \/ WriteCounter(t)
    \/ Unlock(t)

(* All threads of the round are joined: the program goes on elsewhere. *)
Joined ==
    /\ \A t \in Thread : pc[t] = "finished"
    /\ UNCHANGED vars

Next == (\E t \in Thread : Step(t)) \/ Joined

(* The scheduler runs every thread; a weak compare-and-exchange does not fail *)
(* spuriously for ever.                                                       *)
Fairness == \A t \in Thread : WF_vars(Step(t))

Spec == Init /\ [][Next]_vars
FairSpec == Spec /\ Fairness
-----------------------------------------------------------------------------
TypeOK ==
    /\ kind \in Kinds
    /\ locked \in BOOLEAN
    /\ next_ticket \in Tickets
    /\ current \in Tickets
    /\ pc \in [Thread -> Places]
    /\ ticket \in [Thread -> Tickets]
    /\ register \in [Thread -> Nat]
    /\ done \in [Thread -> Nat]
    /\ writes \in Seq(Nat)
    /\ view \in [Thread -> 0 .. Len(writes)]
    /\ published \in 0 .. Len(writes)
    /\ arrivals \in Seq(Thread)

(* A thread at the counter is ordered after every write made to it so far, so *)
(* its plain load and store race with none: the acquire of lock() meets the   *)
(* release of the last unlock(), whichever thread that was.                   *)
NoDataRace ==
    \A t \in Thread : pc[t] \in {"read", "write"} => view[t] = Len(writes)

(* The thread that is between lock() and unlock(). *)
Holder ==
    IF \E t \in Thread : pc[t] \in Section
    THEN CHOOSE t \in Thread : pc[t] \in Section
    ELSE NoThread

M == INSTANCE Mutex WITH holder <- Holder, count <- Value(Len(writes))

(* Every lock implements the mutex: it is taken only when nobody has it, and  *)
(* the counter is incremented only by its holder and by one.                  *)
ImplementsMutex == M!Spec

(* The ticket lock serves the threads in the order in which they came, when   *)
(* the two counters wrap too.                                                 *)
ServedInOrder ==
    [][\A t \in Thread :
         pc[t] = "spin" /\ pc'[t] = "sync" => t = Head(arrivals)]_vars

(* Every round ends: no lock leaves its waiters spinning for ever, though TAS *)
(* and TTAS promise no order among them.                                      *)
Finishes == <>(\A t \in Thread : pc[t] = "finished")
=============================================================================
