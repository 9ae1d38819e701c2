--------------------------- MODULE SpinLockProofs ---------------------------
(* Proofs about SpinLock, for any set of threads, any number of iterations    *)
(* and any largest ticket the assumptions allow.                              *)
(*                                                                            *)
(* The flag of TAS and TTAS is set exactly while a thread is in its section.  *)
(* For the ticket lock the history `arrivals' is the key: the waiting threads *)
(* hold consecutive tickets from the one being served, counted around the     *)
(* wrap of the counters, and they are distinct because no thread waits twice  *)
(* and there are no more threads than tickets.  Either way one thread at a    *)
(* time is in its section, so the view it acquires is the whole history.      *)
EXTENDS SpinLock, FiniteSetTheorems, TLAPS

(* The i-th ticket from c, around the wrap. *)
Nth(c, i) == IF c + i <= MaxTicket THEN c + i ELSE c + i - MaxTicket - 1

PlacesOfKind ==
    \A t \in Thread :
        /\ pc[t] \in {"ticket", "sync"} => kind = "Ticket"
        /\ pc[t] = "exchange" => kind = "TTAS"

OneInSection ==
    \A t, u \in Thread : pc[t] \in Section /\ pc[u] \in Section => t = u

FlagShowsHolder ==
    kind # "Ticket" => (locked <=> \E t \in Thread : pc[t] \in Section)

Waiting(t) == pc[t] \in Section \cup {"spin"}

(* arrivals lists the threads with a ticket, each once, with consecutive ones. *)
ArrivalsDistinct ==
    \A i, j \in 1 .. Len(arrivals) : arrivals[i] = arrivals[j] => i = j
ArrivalsWait ==
    kind = "Ticket" =>
        /\ \A i \in 1 .. Len(arrivals) : Waiting(arrivals[i])
        /\ \A t \in Thread : Waiting(t) => \E i \in 1 .. Len(arrivals) : arrivals[i] = t
TicketsConsecutive ==
    kind = "Ticket" =>
        /\ Len(arrivals) <= MaxTicket + 1
        /\ next_ticket = Nth(current, Len(arrivals))
        /\ \A i \in 1 .. Len(arrivals) : ticket[arrivals[i]] = Nth(current, i - 1)
HolderIsFirst ==
    kind = "Ticket" =>
        \A t \in Thread : pc[t] \in Section => arrivals # <<>> /\ arrivals[1] = t

(* The counter takes the values 1, 2, 3, ... and the section sees the last.   *)
ValuesInOrder == \A i \in 1 .. Len(writes) : writes[i] = i
SectionUpToDate ==
    \A t \in Thread :
        /\ pc[t] \in {"read", "write", "unlock"} => view[t] = Len(writes)
        /\ pc[t] = "write" => register[t] = Len(writes)
PublishedUpToDate ==
    (\A t \in Thread : pc[t] # "unlock") => published = Len(writes)

LockInv == PlacesOfKind /\ OneInSection /\ FlagShowsHolder
TicketInv == ArrivalsDistinct /\ ArrivalsWait /\ TicketsConsecutive /\ HolderIsFirst
MemoryInv == ValuesInOrder /\ SectionUpToDate /\ PublishedUpToDate
Inv == TypeOK /\ LockInv /\ TicketInv /\ MemoryInv

-----------------------------------------------------------------------------
(* fetch_add stays within the width of the counters. *)
LEMMA FetchAddType ==
    ASSUME NEW x \in Tickets
    PROVE  FetchAdd(x) \in Tickets
  BY TicketAssumption DEF Tickets, FetchAdd

(* With no more threads than tickets, a thread that is not waiting finds a    *)
(* ticket that nobody waits with.                                             *)
LEMMA RoomForTicket ==
    ASSUME TypeOK, ArrivalsDistinct, NEW t \in Thread,
           \A i \in 1 .. Len(arrivals) : arrivals[i] # t
    PROVE  Len(arrivals) < MaxTicket + 1
<1> DEFINE n == Len(arrivals)
<1>1. n \in Nat /\ arrivals \in [1 .. n -> Thread]
  BY DEF TypeOK
<1>2. IsFiniteSet(1 .. n) /\ Cardinality(1 .. n) = n
  BY <1>1, FS_Interval
<1>3. arrivals \in Injection(1 .. n, Thread \ {t})
  <2>1. arrivals \in [1 .. n -> Thread \ {t}]
    BY <1>1
  <2> QED
    BY <2>1, <1>1 DEF ArrivalsDistinct, Injection, IsInjective
<1>4. IsFiniteSet(Thread \ {t}) /\ Cardinality(Thread \ {t}) = Cardinality(Thread) - 1
  BY FS_RemoveElement, TicketAssumption
<1>5. Cardinality(1 .. n) <= Cardinality(Thread \ {t})
  BY <1>3, <1>4, FS_Injection
<1>6. Cardinality(Thread) \in Nat
  BY TicketAssumption, FS_CardinalityType
<1> QED
  BY <1>1, <1>2, <1>4, <1>5, <1>6, TicketAssumption

(* The thread whose turn it is waits longest. *)
LEMMA TurnIsFirst ==
    ASSUME Inv, NEW t \in Thread, MyTurn(t)
    PROVE  arrivals # <<>> /\ arrivals[1] = t
<1>1. PICK i \in 1 .. Len(arrivals) : arrivals[i] = t
  BY DEF Inv, TicketInv, ArrivalsWait, Waiting, MyTurn
<1>2. ticket[t] = Nth(current, i - 1) /\ ticket[t] = current /\ Len(arrivals) <= MaxTicket + 1
  BY <1>1 DEF Inv, TicketInv, TicketsConsecutive, MyTurn
<1>3. Len(arrivals) \in Nat /\ current \in 0 .. MaxTicket /\ MaxTicket \in Nat
  BY TicketAssumption DEF Inv, TypeOK, Tickets
<1>4. i = 1
  BY <1>2, <1>3 DEF Nth
<1> QED
  BY <1>1, <1>3, <1>4

-----------------------------------------------------------------------------
(* Every variable of a reachable state has its type. *)
LEMMA TypeStep ==
    ASSUME Inv, [Next]_vars
    PROVE  TypeOK'
<1> USE FetchAddType DEF TypeOK, Places
<1>0. TypeOK
  BY DEF Inv
<1>1. CASE UNCHANGED vars
  BY <1>0, <1>1 DEF vars, lockVars, memory
<1>2. ASSUME NEW t \in Thread, CompareExchange(t)
      PROVE  TypeOK'
  BY <1>0, <1>2 DEF CompareExchange, AcquireView, GoTo
<1>3. ASSUME NEW t \in Thread, SeeFree(t)
      PROVE  TypeOK'
  BY <1>0, <1>3 DEF SeeFree, GoTo, lockVars, memory
<1>4. ASSUME NEW t \in Thread, Exchange(t)
      PROVE  TypeOK'
  BY <1>0, <1>4 DEF Exchange, AcquireView, GoTo
<1>5. ASSUME NEW t \in Thread, TakeTicket(t)
      PROVE  TypeOK'
  BY <1>0, <1>5 DEF TakeTicket, GoTo, memory
<1>6. ASSUME NEW t \in Thread, MyTurn(t)
      PROVE  TypeOK'
  BY <1>0, <1>6 DEF MyTurn, GoTo, lockVars, memory
<1>7. ASSUME NEW t \in Thread, AcquireLoad(t)
      PROVE  TypeOK'
  BY <1>0, <1>7 DEF AcquireLoad, AcquireView, GoTo, lockVars
<1>8. ASSUME NEW t \in Thread, ReadCounter(t)
      PROVE  TypeOK'
  <2>1. PICK i \in view[t] .. Len(writes) :
            register' = [register EXCEPT ![t] = Value(i)]
    BY <1>8 DEF ReadCounter
  <2>2. Value(i) \in Nat
    BY <1>0, <2>1 DEF Value
  <2> QED
    BY <1>0, <1>8, <2>1, <2>2 DEF ReadCounter, GoTo, lockVars, memory
<1>9. ASSUME NEW t \in Thread, WriteCounter(t)
      PROVE  TypeOK'
  <2>1. Len(writes') = Len(writes) + 1 /\ writes' \in Seq(Nat)
    BY <1>0, <1>9 DEF WriteCounter
  <2> QED
    BY <1>0, <1>9, <2>1 DEF WriteCounter, GoTo, lockVars
<1>10. ASSUME NEW t \in Thread, Unlock(t)
       PROVE  TypeOK'
  <2>1. arrivals' \in Seq(Thread)
    <3>1. kind = "Ticket" => arrivals # <<>>
      BY <1>10 DEF Inv, TicketInv, HolderIsFirst, Unlock, Section
    <3>2. arrivals # <<>> => Tail(arrivals) \in Seq(Thread)
      BY <1>0
    <3> QED
      BY <1>0, <1>10, <3>1, <3>2 DEF Unlock
  <2>2. pc' \in [Thread -> Places]
    BY <1>0, <1>10 DEF Unlock, GoTo, Entry
  <2>3. current' \in Tickets /\ locked' \in BOOLEAN /\ published' \in 0 .. Len(writes)
    BY <1>0, <1>10 DEF Unlock
  <2>4. done' \in [Thread -> Nat]
    BY <1>0, <1>10 DEF Unlock
  <2> QED
    BY <1>0, <1>10, <2>1, <2>2, <2>3, <2>4 DEF Unlock
<1> QED
  BY <1>1, <1>2, <1>3, <1>4, <1>5, <1>6, <1>7, <1>8, <1>9, <1>10 DEF Next, Step, Joined

-----------------------------------------------------------------------------
(* One thread at a time is in its section, and the flag shows it. *)
LEMMA LockStep ==
    ASSUME Inv, [Next]_vars
    PROVE  LockInv'
<1> USE DEF LockInv, PlacesOfKind, OneInSection, FlagShowsHolder, Section
<1>0. LockInv /\ TypeOK
  BY DEF Inv
<1>1. CASE UNCHANGED vars
  BY <1>0, <1>1 DEF vars, lockVars
<1>2. ASSUME NEW t \in Thread, CompareExchange(t)
      PROVE  LockInv'
  BY <1>0, <1>2 DEF TypeOK, CompareExchange, GoTo
<1>3. ASSUME NEW t \in Thread, SeeFree(t)
      PROVE  LockInv'
  BY <1>0, <1>3 DEF TypeOK, SeeFree, GoTo, lockVars
<1>4. ASSUME NEW t \in Thread, Exchange(t)
      PROVE  LockInv'
  BY <1>0, <1>4 DEF TypeOK, Exchange, GoTo
<1>5. ASSUME NEW t \in Thread, TakeTicket(t)
      PROVE  LockInv'
  BY <1>0, <1>5 DEF TypeOK, TakeTicket, GoTo
<1>6. ASSUME NEW t \in Thread, MyTurn(t)
      PROVE  LockInv'
  <2>1. \A u \in Thread : pc[u] \in Section => u = t
    BY <1>6, TurnIsFirst DEF Inv, TicketInv, HolderIsFirst, MyTurn
  <2> QED
    BY <1>0, <1>6, <2>1 DEF TypeOK, MyTurn, GoTo, lockVars
<1>7. ASSUME NEW t \in Thread, AcquireLoad(t)
      PROVE  LockInv'
  BY <1>0, <1>7 DEF TypeOK, AcquireLoad, GoTo, lockVars
<1>8. ASSUME NEW t \in Thread, ReadCounter(t)
      PROVE  LockInv'
  BY <1>0, <1>8 DEF TypeOK, ReadCounter, GoTo, lockVars
<1>9. ASSUME NEW t \in Thread, WriteCounter(t)
      PROVE  LockInv'
  BY <1>0, <1>9 DEF TypeOK, WriteCounter, GoTo, lockVars
<1>10. ASSUME NEW t \in Thread, Unlock(t)
       PROVE  LockInv'
  BY <1>0, <1>10 DEF TypeOK, Unlock, GoTo, Entry
<1> QED
  BY <1>1, <1>2, <1>3, <1>4, <1>5, <1>6, <1>7, <1>8, <1>9, <1>10 DEF Next, Step, Joined

(* The tickets after the one drawn, and from the next one served. *)
LEMMA NthNext ==
    ASSUME NEW c \in Tickets, NEW i \in 0 .. MaxTicket
    PROVE  /\ Nth(c, i + 1) = FetchAdd(Nth(c, i))
           /\ Nth(c, i + 1) = Nth(FetchAdd(c), i)
           /\ Nth(c, 0) = c
  BY TicketAssumption DEF Nth, FetchAdd, Tickets

(* A thread that draws a ticket joins the end of the arrivals. *)
LEMMA TakeTicketStep ==
    ASSUME Inv, NEW t \in Thread, TakeTicket(t)
    PROVE  TicketInv'
<1> DEFINE n == Len(arrivals)
<1>1. /\ n \in Nat /\ arrivals \in [1 .. n -> Thread] /\ current \in Tickets
      /\ pc \in [Thread -> Places] /\ ticket \in [Thread -> Tickets]
  BY DEF Inv, TypeOK
<1>2. kind = "Ticket" /\ kind' = kind /\ current' = current
  BY DEF Inv, LockInv, PlacesOfKind, TakeTicket
<1>3. \A i \in 1 .. n : arrivals[i] # t
  BY <1>2 DEF Inv, TicketInv, ArrivalsWait, Waiting, Section, TakeTicket
<1>4. n < MaxTicket + 1
  BY <1>3, RoomForTicket DEF Inv, TicketInv
<1>5. /\ Len(arrivals') = n + 1
      /\ \A i \in 1 .. n : arrivals'[i] = arrivals[i]
      /\ arrivals'[n + 1] = t
  BY DEF TakeTicket, Inv, TypeOK
<1>6. ArrivalsDistinct'
  BY <1>1, <1>3, <1>5 DEF Inv, TicketInv, ArrivalsDistinct
<1>7. ArrivalsWait'
  BY <1>1, <1>2, <1>5
     DEF Inv, TicketInv, ArrivalsWait, Waiting, Section, TakeTicket, GoTo
<1>8. TicketsConsecutive'
  <2>1. next_ticket' = Nth(current', Len(arrivals'))
    BY <1>1, <1>2, <1>4, <1>5, NthNext, TicketAssumption
       DEF Inv, TicketInv, TicketsConsecutive, TakeTicket
  <2>2. \A i \in 1 .. n : ticket'[arrivals'[i]] = Nth(current, i - 1)
    BY <1>1, <1>2, <1>3, <1>5 DEF Inv, TicketInv, TicketsConsecutive, TakeTicket
  <2>3. ticket'[arrivals'[n + 1]] = Nth(current, n)
    BY <1>1, <1>2, <1>5 DEF Inv, TicketInv, TicketsConsecutive, TakeTicket
  <2> QED
    BY <1>1, <1>2, <1>4, <1>5, <2>1, <2>2, <2>3, TicketAssumption DEF TicketsConsecutive
<1>9. HolderIsFirst'
  BY <1>1, <1>2, <1>5 DEF Inv, TicketInv, HolderIsFirst, TakeTicket, GoTo, Section
<1> QED
  BY <1>6, <1>7, <1>8, <1>9 DEF TicketInv

(* A thread that unlocks leaves the front of the arrivals. *)
LEMMA UnlockTicketStep ==
    ASSUME Inv, NEW t \in Thread, Unlock(t)
    PROVE  TicketInv'
<1> DEFINE n == Len(arrivals)
<1>1. /\ n \in Nat /\ arrivals \in [1 .. n -> Thread] /\ current \in Tickets
      /\ pc \in [Thread -> Places] /\ ticket \in [Thread -> Tickets]
  BY DEF Inv, TypeOK
<1>2. CASE kind # "Ticket"
  BY <1>2 DEF Inv, TicketInv, ArrivalsDistinct, ArrivalsWait, TicketsConsecutive,
              HolderIsFirst, Unlock
<1>3. CASE kind = "Ticket"
  <2>1. n >= 1 /\ arrivals[1] = t
    BY <1>1, <1>3 DEF Inv, TypeOK, TicketInv, HolderIsFirst, Unlock, Section
  <2>2. /\ Len(arrivals') = n - 1
        /\ \A i \in 1 .. n - 1 : arrivals'[i] = arrivals[i + 1]
    <3>1. arrivals' = Tail(arrivals) /\ arrivals \in Seq(Thread) /\ arrivals # <<>>
      BY <1>3, <2>1 DEF Unlock, Inv, TypeOK
    <3> QED
      BY <3>1, <2>1
  <2>3. \A i \in 1 .. n - 1 : arrivals'[i] # t
    BY <1>1, <2>1, <2>2 DEF Inv, TicketInv, ArrivalsDistinct
  <2>4. ArrivalsDistinct'
    BY <1>1, <2>1, <2>2 DEF Inv, TicketInv, ArrivalsDistinct
  <2>5. ArrivalsWait'
    <3>1. ASSUME NEW i \in 1 .. n - 1
          PROVE  Waiting(arrivals[i])'
      <4>1. /\ i + 1 \in 1 .. n /\ arrivals'[i] = arrivals[i + 1]
            /\ arrivals[i + 1] # t /\ arrivals[i + 1] \in Thread
        BY <1>1, <2>2, <2>3
      <4>2. Waiting(arrivals[i + 1])
        BY <1>3, <4>1 DEF Inv, TicketInv, ArrivalsWait
      <4>3. pc'[arrivals[i + 1]] = pc[arrivals[i + 1]]
        BY <1>1, <4>1 DEF Unlock, GoTo
      <4> QED
        BY <4>1, <4>2, <4>3 DEF Waiting
    <3>2. ASSUME NEW u \in Thread, Waiting(u)'
          PROVE  \E i \in 1 .. n - 1 : arrivals'[i] = u
      <4>1. u # t
        BY <1>1, <1>3, <3>2 DEF Waiting, Section, Unlock, GoTo, Entry
      <4>2. PICK i \in 1 .. n : arrivals[i] = u
        BY <1>1, <1>3, <3>2, <4>1 DEF Inv, TicketInv, ArrivalsWait, Waiting, Unlock, GoTo
      <4>3. i - 1 \in 1 .. n - 1 /\ i - 1 + 1 = i
        BY <1>1, <2>1, <4>1, <4>2
      <4> QED
        BY <2>2, <4>2, <4>3
    <3>3. ASSUME NEW i \in 1 .. Len(arrivals')
          PROVE  Waiting(arrivals[i])'
      BY <2>2, <3>1, <3>3
    <3> QED
      BY <2>2, <3>2, <3>3 DEF ArrivalsWait
  <2>6. TicketsConsecutive'
    <3>1. kind' = kind /\ current' = FetchAdd(current) /\ next_ticket' = next_ticket
          /\ ticket' = ticket
      BY <1>3 DEF Unlock
    <3>2. n <= MaxTicket + 1 /\ next_ticket = Nth(current, n)
          /\ \A i \in 1 .. n : ticket[arrivals[i]] = Nth(current, i - 1)
      BY <1>3 DEF Inv, TicketInv, TicketsConsecutive
    <3>3. n - 1 \in 0 .. MaxTicket /\ MaxTicket \in Nat
      BY <1>1, <2>1, <3>2, TicketAssumption
    <3>4. next_ticket = Nth(FetchAdd(current), n - 1)
      BY <1>1, <3>2, <3>3, NthNext
    <3>5. ASSUME NEW i \in 1 .. n - 1
          PROVE  ticket[arrivals[i + 1]] = Nth(FetchAdd(current), i - 1)
      <4>1. i + 1 \in 1 .. n /\ i - 1 \in 0 .. MaxTicket /\ i + 1 - 1 = i - 1 + 1
        BY <1>1, <3>3
      <4> QED
        BY <1>1, <3>2, <4>1, NthNext
    <3>6. /\ Len(arrivals') <= MaxTicket + 1
          /\ next_ticket' = Nth(current', Len(arrivals'))
      BY <2>2, <3>1, <3>3, <3>4
    <3>7. \A i \in 1 .. Len(arrivals') : ticket'[arrivals'[i]] = Nth(current', i - 1)
      BY <2>2, <3>1, <3>5
    <3> QED
      BY <3>6, <3>7 DEF TicketsConsecutive, Nth
  <2>7. HolderIsFirst'
    BY <1>1, <1>3 DEF Inv, LockInv, OneInSection, HolderIsFirst, Section, Unlock, GoTo, Entry
  <2> QED
    BY <2>4, <2>5, <2>6, <2>7 DEF TicketInv
<1> QED
  BY <1>2, <1>3

(* A step of a waiting thread that leaves the tickets alone. *)
LEMMA WaiterMoves ==
    ASSUME Inv, NEW t \in Thread, Waiting(t), UNCHANGED <<kind, lockVars>>,
           NEW place \in Section, GoTo(t, place),
           kind = "Ticket" => arrivals # <<>> /\ arrivals[1] = t
    PROVE  TicketInv'
<1>1. /\ kind' = kind /\ current' = current /\ next_ticket' = next_ticket
      /\ ticket' = ticket /\ arrivals' = arrivals
      /\ \A u \in Thread : pc'[u] = IF u = t THEN place ELSE pc[u]
  BY DEF lockVars, GoTo, Inv, TypeOK
<1>2. \A u : arrivals'[u] = arrivals[u]
  BY <1>1
<1>3. \A i \in 1 .. Len(arrivals) : arrivals[i] \in Thread
  BY DEF Inv, TypeOK
<1>4. ArrivalsDistinct'
  BY <1>1 DEF Inv, TicketInv, ArrivalsDistinct
<1>5. ArrivalsWait'
  BY <1>1, <1>3 DEF Inv, TicketInv, ArrivalsWait, Waiting
<1>6. TicketsConsecutive'
  BY <1>1 DEF Inv, TicketInv, TicketsConsecutive
<1>7. HolderIsFirst'
  BY <1>1 DEF Inv, TicketInv, HolderIsFirst
<1> QED
  BY <1>4, <1>5, <1>6, <1>7 DEF TicketInv

(* The waiting threads hold consecutive tickets, the holder the first. *)
LEMMA TicketStep ==
    ASSUME Inv, [Next]_vars
    PROVE  TicketInv'
<1> USE DEF TicketInv, ArrivalsDistinct, ArrivalsWait, TicketsConsecutive, HolderIsFirst,
            Waiting, Section
<1>0. TicketInv /\ TypeOK /\ PlacesOfKind
  BY DEF Inv, LockInv
<1>1. CASE UNCHANGED vars
  BY <1>0, <1>1 DEF vars, lockVars
<1>2. ASSUME NEW t \in Thread, CompareExchange(t)
      PROVE  TicketInv'
  BY <1>0, <1>2 DEF CompareExchange
<1>3. ASSUME NEW t \in Thread, SeeFree(t)
      PROVE  TicketInv'
  BY <1>0, <1>3 DEF SeeFree, lockVars
<1>4. ASSUME NEW t \in Thread, Exchange(t)
      PROVE  TicketInv'
  BY <1>0, <1>4 DEF Exchange, PlacesOfKind
<1>6. ASSUME NEW t \in Thread, MyTurn(t)
      PROVE  TicketInv'
  BY <1>0, <1>6, TurnIsFirst, WaiterMoves DEF MyTurn
<1>7. ASSUME NEW t \in Thread, AcquireLoad(t)
      PROVE  TicketInv'
  BY <1>0, <1>7, WaiterMoves DEF AcquireLoad
<1>8. ASSUME NEW t \in Thread, ReadCounter(t)
      PROVE  TicketInv'
  BY <1>0, <1>8, WaiterMoves DEF ReadCounter
<1>9. ASSUME NEW t \in Thread, WriteCounter(t)
      PROVE  TicketInv'
  BY <1>0, <1>9, WaiterMoves DEF WriteCounter
<1> QED
  BY <1>1, <1>2, <1>3, <1>4, TakeTicketStep, <1>6, <1>7, <1>8, <1>9, UnlockTicketStep
     DEF Next, Step, Joined

-----------------------------------------------------------------------------
(* What a lock publishes while nobody is in a section is the whole history,   *)
(* so the thread that takes the lock sees all of it.                          *)
LEMMA AcquiresAll ==
    ASSUME Inv, NEW t \in Thread, AcquireView(t), published = Len(writes)
    PROVE  view'[t] = Len(writes) /\ \A u \in Thread : u # t => view'[u] = view[u]
  BY DEF Inv, TypeOK, AcquireView

(* The section works on the last value, and unlocking publishes it. *)
LEMMA MemoryStep ==
    ASSUME Inv, [Next]_vars
    PROVE  MemoryInv'
<1> USE DEF MemoryInv, ValuesInOrder, SectionUpToDate, PublishedUpToDate
<1>0. MemoryInv /\ TypeOK /\ LockInv
  BY DEF Inv
<1>1. CASE UNCHANGED vars
  BY <1>0, <1>1 DEF vars, memory
<1>2. ASSUME NEW t \in Thread, CompareExchange(t)
      PROVE  MemoryInv'
  <2>1. published = Len(writes)
    BY <1>0, <1>2 DEF LockInv, FlagShowsHolder, CompareExchange, Section
  <2> QED
    BY <1>0, <1>2, <2>1, AcquiresAll DEF TypeOK, CompareExchange, GoTo
<1>3. ASSUME NEW t \in Thread, SeeFree(t)
      PROVE  MemoryInv'
  BY <1>0, <1>3 DEF TypeOK, SeeFree, GoTo, memory
<1>4. ASSUME NEW t \in Thread, Exchange(t)
      PROVE  MemoryInv'
  <2>1. CASE locked
    BY <1>0, <1>4, <2>1 DEF TypeOK, Exchange, GoTo, AcquireView
  <2>2. CASE ~locked
    <3>1. published = Len(writes)
      BY <1>0, <1>4, <2>2 DEF LockInv, PlacesOfKind, FlagShowsHolder, Exchange, Section
    <3> QED
      BY <1>0, <1>4, <2>2, <3>1, AcquiresAll DEF TypeOK, Exchange, GoTo
  <2> QED
    BY <2>1, <2>2
<1>5. ASSUME NEW t \in Thread, TakeTicket(t)
      PROVE  MemoryInv'
  BY <1>0, <1>5 DEF TypeOK, TakeTicket, GoTo, memory
<1>6. ASSUME NEW t \in Thread, MyTurn(t)
      PROVE  MemoryInv'
  BY <1>0, <1>6 DEF TypeOK, MyTurn, GoTo, memory
<1>7. ASSUME NEW t \in Thread, AcquireLoad(t)
      PROVE  MemoryInv'
  <2>1. published = Len(writes)
    BY <1>0, <1>7 DEF LockInv, OneInSection, AcquireLoad, Section
  <2> QED
    BY <1>0, <1>7, <2>1, AcquiresAll DEF TypeOK, AcquireLoad, GoTo
<1>8. ASSUME NEW t \in Thread, ReadCounter(t)
      PROVE  MemoryInv'
  <2>1. view[t] = Len(writes) /\ Len(writes) \in Nat
    BY <1>0, <1>8 DEF ReadCounter, TypeOK
  <2>2. register' = [register EXCEPT ![t] = Value(Len(writes))]
    <3>1. PICK i \in view[t] .. Len(writes) :
              register' = [register EXCEPT ![t] = Value(i)]
      BY <1>8 DEF ReadCounter
    <3>2. i = Len(writes)
      BY <2>1
    <3> QED
      BY <3>1, <3>2
  <2>3. Value(Len(writes)) = Len(writes)
    BY <1>0, <2>1 DEF Value
  <2> QED
    BY <1>0, <1>8, <2>1, <2>2, <2>3 DEF TypeOK, ReadCounter, GoTo, memory
<1>9. ASSUME NEW t \in Thread, WriteCounter(t)
      PROVE  MemoryInv'
  <2>1. /\ Len(writes') = Len(writes) + 1
        /\ writes'[Len(writes) + 1] = Len(writes) + 1
        /\ \A i \in 1 .. Len(writes) : writes'[i] = writes[i]
    BY <1>0, <1>9 DEF WriteCounter, TypeOK
  <2>2. ValuesInOrder'
    <3>1. ASSUME NEW i \in 1 .. Len(writes')
          PROVE  writes'[i] = i
      <4>1. Len(writes) \in Nat
        BY <1>0 DEF TypeOK
      <4>2. i \in 1 .. Len(writes) \/ i = Len(writes) + 1
        BY <2>1, <4>1
      <4> QED
        BY <1>0, <2>1, <4>2
    <3> QED
      BY <3>1
  <2>3. \A u \in Thread : pc'[u] \in {"read", "write", "unlock"} => u = t
    BY <1>0, <1>9 DEF LockInv, OneInSection, WriteCounter, GoTo, Section, TypeOK
  <2>4. pc'[t] = "unlock" /\ view'[t] = Len(writes')
    BY <1>0, <1>9, <2>1 DEF WriteCounter, GoTo, TypeOK
  <2> QED
    BY <2>2, <2>3, <2>4
<1>10. ASSUME NEW t \in Thread, Unlock(t)
       PROVE  MemoryInv'
  <2>1. \A u \in Thread : pc'[u] \notin {"read", "write", "unlock"}
    BY <1>0, <1>10 DEF LockInv, OneInSection, Unlock, GoTo, Entry, Section, TypeOK
  <2>2. published' = Len(writes) /\ writes' = writes
    BY <1>0, <1>10 DEF Unlock
  <2> QED
    BY <1>0, <2>1, <2>2
<1> QED
  BY <1>1, <1>2, <1>3, <1>4, <1>5, <1>6, <1>7, <1>8, <1>9, <1>10 DEF Next, Step, Joined

LEMMA InvInit == Init => Inv
<1> SUFFICES ASSUME Init
             PROVE  Inv
  OBVIOUS
<1>1. TypeOK
  <2>1. MaxTicket \in Nat /\ Len(writes) = 0
    BY TicketAssumption DEF Init
  <2>2. pc \in [Thread -> Places]
    BY DEF Init, Places, Entry
  <2>3. view \in [Thread -> 0 .. Len(writes)] /\ published \in 0 .. Len(writes)
    BY <2>1 DEF Init
  <2>4. ticket \in [Thread -> Tickets]
    BY <2>1 DEF Init, Tickets
  <2>5. /\ register \in [Thread -> Nat] /\ done \in [Thread -> Nat]
        /\ writes \in Seq(Nat) /\ arrivals \in Seq(Thread)
    BY DEF Init
  <2> QED
    BY <2>2, <2>3, <2>4, <2>5 DEF Init, TypeOK
<1>2. LockInv
  BY DEF Init, LockInv, PlacesOfKind, OneInSection, FlagShowsHolder, Section, Entry
<1>3. TicketInv
  BY NthNext, TicketAssumption
     DEF Init, TicketInv, ArrivalsDistinct, ArrivalsWait, TicketsConsecutive,
         HolderIsFirst, Waiting, Section, Entry, Tickets
<1>4. MemoryInv
  BY DEF Init, MemoryInv, ValuesInOrder, SectionUpToDate, PublishedUpToDate, Entry
<1> QED
  BY <1>1, <1>2, <1>3, <1>4 DEF Inv

LEMMA InvAlways == Spec => []Inv
<1>1. Inv /\ [Next]_vars => Inv'
  BY TypeStep, LockStep, TicketStep, MemoryStep DEF Inv
<1> QED
  BY InvInit, <1>1, PTL DEF Spec

-----------------------------------------------------------------------------
(* Reachable states are well typed: no unlock takes a ticket that is not      *)
(* there, and the ticket counters stay within their width.                    *)
THEOREM TypeCorrect == Spec => []TypeOK
  BY InvAlways, PTL DEF Inv

(* No access to the counter races with another: each is ordered after all the *)
(* writes before it by the lock.                                              *)
THEOREM CounterNeverRaces == Spec => []NoDataRace
<1>1. Inv => NoDataRace
  BY DEF Inv, MemoryInv, SectionUpToDate, NoDataRace
<1> QED
  BY <1>1, InvAlways, PTL

(* The ticket lock is taken in the order of the tickets, wrap or no wrap.     *)
THEOREM TicketsInOrder == Spec => ServedInOrder
<1>1. ASSUME Inv, [Next]_vars, NEW t \in Thread, pc[t] = "spin", pc'[t] = "sync"
      PROVE  t = Head(arrivals)
  <2>1. MyTurn(t)
    <3> USE DEF Inv, TypeOK, GoTo
    <3>1. CASE UNCHANGED vars
      BY <1>1, <3>1 DEF vars
    <3>2. ASSUME NEW u \in Thread, Step(u)
          PROVE  MyTurn(t)
      BY <1>1, <3>2 DEF Step, CompareExchange, SeeFree, Exchange, TakeTicket, MyTurn,
                        AcquireLoad, ReadCounter, WriteCounter, Unlock, Entry
    <3> QED
      BY <1>1, <3>1, <3>2 DEF Next, Joined
  <2> QED
    BY <1>1, <2>1, TurnIsFirst DEF Inv, TypeOK
<1>2. Inv /\ [Next]_vars =>
        [\A t \in Thread : pc[t] = "spin" /\ pc'[t] = "sync" => t = Head(arrivals)]_vars
  BY <1>1
<1> QED
  BY <1>2, InvAlways, PTL DEF Spec, ServedInOrder

-----------------------------------------------------------------------------
(* The holder is the one thread in its section. *)
LEMMA HolderIs ==
    ASSUME NEW place, NEW t \in Thread, place[t] \in Section,
           \A u \in Thread : place[u] \in Section => u = t
    PROVE  t = IF \E u \in Thread : place[u] \in Section
               THEN CHOOSE u \in Thread : place[u] \in Section
               ELSE NoThread
  OBVIOUS

LEMMA CountIsWrites ==
    ASSUME NEW w \in Seq(Nat), \A i \in 1 .. Len(w) : w[i] = i
    PROVE  (IF Len(w) = 0 THEN 0 ELSE w[Len(w)]) = Len(w)
<1>1. Len(w) \in Nat
  OBVIOUS
<1> QED
  BY <1>1

LEMMA MutexStep ==
    ASSUME Inv, Inv', [Next]_vars
    PROVE  [M!Next]_<<Holder, Value(Len(writes))>>
<1>1. Value(Len(writes)) = Len(writes)
  <2>1. writes \in Seq(Nat) /\ \A i \in 1 .. Len(writes) : writes[i] = i
    BY DEF Inv, MemoryInv, ValuesInOrder, TypeOK
  <2> QED
    BY <2>1, CountIsWrites DEF Value
<1>2. Value(Len(writes))' = Len(writes')
  <2>1. writes' \in Seq(Nat) /\ \A i \in 1 .. Len(writes') : writes'[i] = i
    BY DEF Inv, MemoryInv, ValuesInOrder, TypeOK
  <2> QED
    BY <2>1, CountIsWrites DEF Value
<1>3. ASSUME NEW t \in Thread, pc[t] \in Section
      PROVE  Holder = t
  BY <1>3, HolderIs DEF Inv, LockInv, OneInSection, Holder
<1>4. ASSUME NEW t \in Thread, pc'[t] \in Section
      PROVE  Holder' = t
  BY <1>4, HolderIs DEF Inv, LockInv, OneInSection, Holder
<1>5. ASSUME NEW t \in Thread,
             \A u \in Thread : pc[u] \notin Section, pc'[t] \in Section, writes' = writes
      PROVE  M!Acquire(t)
  BY <1>1, <1>2, <1>4, <1>5 DEF M!Acquire, Holder
<1>6. ASSUME NEW t \in Thread, pc[t] \in Section, pc'[t] \in Section, writes' = writes
      PROVE  UNCHANGED <<Holder, Value(Len(writes))>>
  BY <1>1, <1>2, <1>3, <1>4, <1>6
<1>7. ASSUME \A u \in Thread : pc'[u] \in Section <=> pc[u] \in Section, writes' = writes
      PROVE  UNCHANGED <<Holder, Value(Len(writes))>>
  <2>1. CASE \E t \in Thread : pc[t] \in Section
    BY <1>6, <1>7, <2>1
  <2>2. CASE \A t \in Thread : pc[t] \notin Section
    BY <1>1, <1>2, <1>7, <2>2 DEF Holder
  <2> QED
    BY <2>1, <2>2
<1> USE DEF Section
<1>a. TypeOK /\ LockInv
  BY DEF Inv
<1>b. CASE UNCHANGED vars
  BY <1>7, <1>b DEF vars, memory
<1>c. ASSUME NEW t \in Thread, CompareExchange(t)
      PROVE  M!Acquire(t)
  BY <1>5, <1>a, <1>c DEF TypeOK, LockInv, FlagShowsHolder, CompareExchange, GoTo
<1>d. ASSUME NEW t \in Thread, SeeFree(t)
      PROVE  UNCHANGED <<Holder, Value(Len(writes))>>
  BY <1>7, <1>a, <1>d DEF TypeOK, SeeFree, GoTo, memory
<1>e. ASSUME NEW t \in Thread, Exchange(t)
      PROVE  M!Acquire(t) \/ UNCHANGED <<Holder, Value(Len(writes))>>
  <2>1. CASE locked
    BY <1>7, <1>a, <1>e, <2>1 DEF TypeOK, Exchange, GoTo
  <2>2. CASE ~locked
    BY <1>5, <1>a, <1>e, <2>2
       DEF TypeOK, LockInv, PlacesOfKind, FlagShowsHolder, Exchange, GoTo
  <2> QED
    BY <2>1, <2>2
<1>f. ASSUME NEW t \in Thread, TakeTicket(t)
      PROVE  UNCHANGED <<Holder, Value(Len(writes))>>
  BY <1>7, <1>a, <1>f DEF TypeOK, TakeTicket, GoTo, memory
<1>g. ASSUME NEW t \in Thread, MyTurn(t)
      PROVE  M!Acquire(t)
  <2>1. \A u \in Thread : pc[u] \notin Section
    BY <1>g, TurnIsFirst DEF Inv, TicketInv, HolderIsFirst, MyTurn
  <2> QED
    BY <1>5, <1>a, <1>g, <2>1 DEF TypeOK, MyTurn, GoTo, memory
<1>h. ASSUME NEW t \in Thread, AcquireLoad(t)
      PROVE  UNCHANGED <<Holder, Value(Len(writes))>>
  BY <1>6, <1>a, <1>h DEF TypeOK, AcquireLoad, GoTo
<1>i. ASSUME NEW t \in Thread, ReadCounter(t)
      PROVE  UNCHANGED <<Holder, Value(Len(writes))>>
  BY <1>6, <1>a, <1>i DEF TypeOK, ReadCounter, GoTo, memory
<1>j. ASSUME NEW t \in Thread, WriteCounter(t)
      PROVE  M!Increment(t)
  <2>1. Holder = t /\ Holder' = t
    BY <1>3, <1>4, <1>a, <1>j DEF TypeOK, WriteCounter, GoTo
  <2>2. Len(writes') = Len(writes) + 1
    BY <1>a, <1>j DEF TypeOK, WriteCounter
  <2> QED
    BY <1>1, <1>2, <2>1, <2>2 DEF M!Increment
<1>k. ASSUME NEW t \in Thread, Unlock(t)
      PROVE  M!Release(t)
  <2>1. Holder = t
    BY <1>3, <1>k DEF Unlock
  <2>2. \A u \in Thread : pc'[u] \notin Section
    BY <1>a, <1>k DEF TypeOK, LockInv, OneInSection, Unlock, GoTo, Entry
  <2>3. Holder' = NoThread /\ writes' = writes
    BY <1>k, <2>2 DEF Holder, Unlock
  <2> QED
    BY <1>1, <1>2, <2>1, <2>3 DEF M!Release
<1> QED
  BY <1>b, <1>c, <1>d, <1>e, <1>f, <1>g, <1>h, <1>i, <1>j, <1>k
     DEF Next, Step, Joined, M!Next

(* Each of the three locks is a mutex: it is taken only when it is free, and  *)
(* the counter is incremented, by one, only by the thread that has it.        *)
THEOREM LocksAreMutex == Spec => ImplementsMutex
<1>1. Init => M!Init
  BY DEF Init, M!Init, Holder, Section, Entry, Value
<1> QED
  BY <1>1, MutexStep, InvAlways, PTL DEF Spec, ImplementsMutex, M!Spec
=============================================================================
