----------------------------- MODULE RaftCluster -----------------------------
(***************************************************************************)
(* The replicated key-value store of DB/: N servers, each running          *)
(*                                                                         *)
(*   the main loop of cmd/server/main.go, which runs one coroutine at a    *)
(*   time: Heartbeat_consumer_co (slave), Election_co (condidate) or       *)
(*   Heartbeat_producer_co (master), all of internal/raft/middleware.go;   *)
(*   the heartbeat sessions, goroutines the producer leaves behind;        *)
(*   the HTTP handlers HandleReplicate and HandleVoteRequest               *)
(*   (internal/raft/raftapi.go) and HandleKvs (internal/rest/api.go).      *)
(*                                                                         *)
(* Handlers hold Cond.L, so each is one action; what runs without the lock *)
(* (timers, State and Term stores of the coroutines) is a step of its own. *)
(* Timers may fire at any moment and messages take arbitrarily long.       *)
(***************************************************************************)
EXTENDS RaftLog, Integers, FiniteSets

CONSTANTS
    Server,         \* the addresses of the cluster: SelfIp and OtherIp
    Electable,      \* servers whose slave timer may expire
    Client,         \* client requests; each is made once
    Request,        \* Client -> Command: what each request asks for
    Key, Value,     \* keys and values of the store
    NoValue,        \* the value of an absent key
    Nil,            \* no server
    Slot,           \* bound: heartbeat sessions of one server at a time
    SlotReuse,      \* bound: whether a slot serves one session after another
    MaxNet,         \* bound: messages in flight when a server starts to send
    MaxTerm,        \* bound: no server in a later term starts an election
    MaxRestarts,    \* bound: crashes and restarts of each server
    Lossy,          \* whether messages may be lost
    Prompt          \* whether answers always arrive before the timeouts

ASSUME RaftClusterAssumption ==
    /\ IsFiniteSet(Server)
    /\ Cardinality(Server) % 2 = 1  \* "out of 2N+1", middleware.go:115
    /\ Command \subseteq [op : {"create", "update", "delete"}, key : Key, val : Value]
    /\ NoValue \notin Value
    /\ Nil \notin Server
    /\ Electable \subseteq Server
    /\ Request \in [Client -> Command]
    /\ MaxNet \in Nat /\ MaxTerm \in Nat /\ MaxRestarts \in Nat
    /\ SlotReuse \in BOOLEAN /\ Lossy \in BOOLEAN /\ Prompt \in BOOLEAN

VARIABLES
    \* MiddleWare
    term,           \* Term
    state,          \* State
    votedFor,       \* VotedFor, Nil when unset
    log,            \* RaftLog
    kvs,            \* Kvs, the only thing besides log.file that is on disk
    sentLen,        \* SentLen, a partial function: a peer enters on its first answer
    commitLen,      \* CommitLen, likewise
    timer,          \* whether Timer is armed (or has fired and not been read)
    poisoned,       \* Cond.L is held by a handler that panicked
    \* the goroutines
    co,             \* where the main loop and its coroutine are
    cancelled,      \* Co_done_ctx was called on the current coroutine
    elTerm,         \* Election_co: its local term
    votes,          \* Election_co: its local votes
    session,        \* the heartbeat sessions, by slot
    client,         \* the HandleKvs handlers, by request
    net,            \* requests and answers in flight
    \* history
    granted,        \* the votes given: voter, its incarnation, term, condidate
    elected,        \* the elections won: condidate, term, votes counted
    incarnation     \* restarts of each server so far

serverVars == <<term, state, votedFor>>
storeVars == <<log, kvs>>
peerVars == <<sentLen, commitLen>>
loopVars == <<co, cancelled>>
electionVars == <<elTerm, votes>>
historyVars == <<granted, elected, incarnation>>

vars == <<serverVars, storeVars, peerVars, timer, poisoned, loopVars,
          electionVars, session, client, net, historyVars>>

-----------------------------------------------------------------------------
Others(s) == Server \ {s}

(* Election_co counts votes, its own included, up to len(OtherIp)/2 + 1; a  *)
(* heartbeat session is content with (len(OtherIp)+1)/2 answers.           *)
ElectionQuorum == (Cardinality(Server) - 1) \div 2 + 1
SessionQuorum == Cardinality(Server) \div 2

(* A Go map read: a missing peer reads as 0.                               *)
At(len, p) == IF p \in DOMAIN len THEN len[p] ELSE 0

(* Mutant: the length of the peer after the entry it is about to get.      *)
RaisedOnePast(len, p, n) ==
    [q \in DOMAIN len \cup {p} |-> IF q = p THEN n + 1 ELSE At(len, q)]

(* len[p] = max(n, len[p])                                                 *)
Raised(len, p, n) ==
    [q \in DOMAIN len \cup {p} |->
        IF q = p /\ n > At(len, p) THEN n ELSE At(len, q)]

(* minSentLenQuorum: element len/2 of the recorded lengths, sorted.        *)
MinSentLenQuorum(len) ==
    LET middle == Cardinality(DOMAIN len) \div 2
    IN  CHOOSE n \in {len[p] : p \in DOMAIN len} :
            /\ Cardinality({p \in DOMAIN len : len[p] < n}) <= middle
            /\ Cardinality({p \in DOMAIN len : len[p] <= n}) > middle

(* Mutants: Operand is written for Value1; a present key is not written    *)
(* again.                                                                  *)
AppliedOperand(kv, cmd) ==
    IF cmd = NoCommand THEN kv ELSE [kv EXCEPT ![cmd.key] = cmd.key]

AppliedIfAbsent(kv, cmd) ==
    IF cmd = NoCommand \/ kv[cmd.key] # NoValue THEN kv ELSE [kv EXCEPT ![cmd.key] = cmd.val]

(* applyToKvs, and the Kvs.Write or Kvs.Delete of a client handler.        *)
Applied(kv, cmd) ==
    IF cmd = NoCommand THEN kv
    ELSE [kv EXCEPT ![cmd.key] = IF cmd.op = "delete" THEN NoValue ELSE cmd.val]

FreshSession == [st |-> "free", first |-> FALSE, nr |-> 0, upd |-> FALSE]
NoRequest == [st |-> "idle", node |-> Nil, need |-> 0]
EmptyMap == [p \in {} |-> 0]

Init ==
    /\ term = [s \in Server |-> 0]
    /\ state = [s \in Server |-> "slave"]
    /\ votedFor = [s \in Server |-> Nil]
    /\ log = [s \in Server |-> EmptyLog]
    /\ kvs = [s \in Server |-> [k \in Key |-> NoValue]]
    /\ sentLen = [s \in Server |-> EmptyMap]
    /\ commitLen = [s \in Server |-> EmptyMap]
    /\ timer = [s \in Server |-> TRUE]
    /\ poisoned = [s \in Server |-> FALSE]
    /\ co = [s \in Server |-> "loop"]
    /\ cancelled = [s \in Server |-> FALSE]
    /\ elTerm = [s \in Server |-> 0]
    /\ votes = [s \in Server |-> {}]
    /\ session = [s \in Server |-> [i \in Slot |-> FreshSession]]
    /\ client = [c \in Client |-> NoRequest]
    /\ net = {}
    /\ granted = {}
    /\ elected = {}
    /\ incarnation = [s \in Server |-> 0]

-----------------------------------------------------------------------------
(* Co_done_ctx() cancels the running coroutine.  It has no effect on one    *)
(* that has already returned or looks at its context no more.              *)
Cancel(s) ==
    cancelled' = [cancelled EXCEPT ![s] = co[s] \notin {"loop", "won", "stuck"}]

(* The coroutine of s stops listening to its context.                      *)
Leaves(s, where) ==
    /\ co' = [co EXCEPT ![s] = where]
    /\ cancelled' = [cancelled EXCEPT ![s] = FALSE]

(* The main loop.  It makes a new context, reads State and runs the        *)
(* coroutine for it; a master or condidate flushes the pending entries     *)
(* before the coroutine is spawned.                                        *)

LoopIteration(s) ==
    /\ co[s] = "loop"
    /\ co' = [co EXCEPT ![s] = CASE state[s] = "master" -> "become_master"
                                 [] state[s] = "condidate" -> "become_condidate"
                                 [] state[s] = "slave" -> "consumer"]
    /\ UNCHANGED <<serverVars, storeVars, peerVars, timer, poisoned, cancelled,
                   electionVars, session, client, net, historyVars>>

SpawnFlushed(s) ==
    /\ \/ /\ co[s] = "become_master"
          /\ co' = [co EXCEPT ![s] = "producer0"]
       \/ /\ co[s] = "become_condidate"
          /\ co' = [co EXCEPT ![s] = "elect"]
    /\ log' = [log EXCEPT ![s] = FlushUncommited(@)]
    /\ UNCHANGED <<serverVars, kvs, peerVars, timer, poisoned, cancelled,
                   electionVars, session, client, net, historyVars>>

-----------------------------------------------------------------------------
(* Heartbeat_consumer_co *)

ConsumerExpire(s) ==
    /\ co[s] = "consumer"
    /\ s \in Electable
    /\ timer[s]
    /\ timer' = [timer EXCEPT ![s] = FALSE]
    /\ state' = [state EXCEPT ![s] = "condidate"]
    /\ Leaves(s, "loop")
    /\ UNCHANGED <<term, votedFor, storeVars, peerVars, poisoned,
                   electionVars, session, client, net, historyVars>>

ConsumerCancelled(s) ==
    /\ co[s] = "consumer"
    /\ cancelled[s]
    /\ Leaves(s, "loop")
    /\ UNCHANGED <<serverVars, storeVars, peerVars, timer, poisoned,
                   electionVars, session, client, net, historyVars>>

-----------------------------------------------------------------------------
(* Election_co *)

(* atomic.AddUint64(&mw.Term, 1), without the lock.                        *)
AddTerm(s) ==
    /\ co[s] = "elect"
    /\ term[s] < MaxTerm
    /\ elTerm' = [elTerm EXCEPT ![s] = term[s] + 1]
    /\ votes' = [votes EXCEPT ![s] = {s}]
    /\ co' = [co EXCEPT ![s] = "canvass"]

ElectionStart(s) ==
    /\ AddTerm(s)
    /\ term' = [term EXCEPT ![s] = @ + 1]
    /\ UNCHANGED <<state, votedFor, storeVars, peerVars, timer, poisoned,
                   cancelled, session, client, net, historyVars>>

(* SendVoteRequest_co to every peer.                                       *)
Canvass(s) ==
    /\ co[s] = "canvass"
    /\ Cardinality(net) <= MaxNet
    /\ net' = net \cup
         {[type |-> "vote", from |-> s, to |-> p, elTerm |-> elTerm[s],
           logLen |-> LenCommited(log[s]), logTerm |-> LastOp(log[s]).term]
             : p \in Others(s)}
    /\ co' = [co EXCEPT ![s] = "election"]
    /\ UNCHANGED <<serverVars, storeVars, peerVars, timer, poisoned, cancelled,
                   electionVars, session, client, historyVars>>

(* Answers to an election nobody waits for any more: vote_ch is garbage.   *)
WithoutVotesFor(s, msgs) == {m \in msgs : ~(m.type = "granted" /\ m.to = s)}

(* One positive answer out of vote_ch.  Negative ones change nothing.      *)
CountVote(s) == \E m \in net :
    /\ m.type = "granted" /\ m.to = s
    /\ co[s] = "election"
    /\ votes' = [votes EXCEPT ![s] = @ \cup {m.from}]
    /\ IF Cardinality(votes'[s]) >= ElectionQuorum
         THEN Leaves(s, "won") /\ net' = WithoutVotesFor(s, net)
         ELSE net' = net \ {m} /\ UNCHANGED loopVars
    /\ UNCHANGED <<serverVars, storeVars, peerVars, timer, poisoned, elTerm,
                   session, client, historyVars>>

(* The context is cancelled, or the election timer expires.                *)
ElectionGivenUp(s) ==
    /\ co[s] = "election"
    /\ \/ cancelled[s]
       \/ Prompt => \A m \in net : m.type \in {"vote", "granted"} => s \notin {m.from, m.to}
    /\ Leaves(s, "loop")
    /\ elTerm' = [elTerm EXCEPT ![s] = 0]
    /\ votes' = [votes EXCEPT ![s] = {}]
    /\ net' = WithoutVotesFor(s, net)
    /\ UNCHANGED <<serverVars, storeVars, peerVars, timer, poisoned,
                   session, client, historyVars>>

(* The quorum is collected: take the lock and become master.  Neither the  *)
(* context nor Term is looked at again.                                    *)
BecomeLeader(s) ==
    /\ co[s] = "won"
    /\ ~poisoned[s]
    /\ state' = [state EXCEPT ![s] = "master"]
    /\ timer' = [timer EXCEPT ![s] = TRUE]
    /\ Leaves(s, "loop")
    /\ elected' = elected \cup {[cand |-> s, term |-> elTerm[s], votes |-> votes[s]]}
    /\ elTerm' = [elTerm EXCEPT ![s] = 0]
    /\ votes' = [votes EXCEPT ![s] = {}]
    /\ UNCHANGED <<term, votedFor, storeVars, peerVars, poisoned,
                   session, client, net, granted, incarnation>>
-----------------------------------------------------------------------------
(* Heartbeat_producer_co *)

OfSession(m, s, i) ==
    \/ m.type = "replicate" /\ m.from = s /\ m.slot = i
    \/ m.type = "replicated" /\ m.to = s /\ m.slot = i

(* A slot is reused once nothing of its last session is in flight.         *)
FreeSlots(s) ==
    {i \in Slot : session[s][i].st = "free" /\ \A m \in net : ~OfSession(m, s, i)}

(* Timer.C: leave if State is no longer MASTER, else start session number  *)
(* i in a goroutine; the first one (i = 0) sends plain heartbeats only.    *)
ProducerTick(s) ==
    /\ co[s] \in {"producer0", "producer"}
    /\ timer[s]
    /\ \/ /\ state[s] # "master"
          /\ Leaves(s, "loop")
          /\ UNCHANGED session
       \/ /\ state[s] = "master"
          /\ FreeSlots(s) # {}
          /\ session' = [session EXCEPT ![s][CHOOSE i \in FreeSlots(s) : TRUE] =
                [FreshSession EXCEPT !.st = "spawned", !.first = (co[s] = "producer0")]]
          /\ co' = [co EXCEPT ![s] = "producer"]
          /\ UNCHANGED cancelled
    /\ UNCHANGED <<serverVars, storeVars, peerVars, timer, poisoned,
                   electionVars, client, net, historyVars>>

(* ctx.Done(): return, and co_done_ch is never closed.  The main loop      *)
(* waits for it from now on.                                               *)
ProducerCancelled(s) ==
    /\ co[s] \in {"producer0", "producer"}
    /\ cancelled[s]
    /\ Leaves(s, "stuck")
    /\ UNCHANGED <<serverVars, storeVars, peerVars, timer, poisoned,
                   electionVars, session, client, net, historyVars>>

(* What a session sends to peer p: the commit p misses, else the entry p   *)
(* misses, else a bare heartbeat (whose entry no receiver looks at).       *)
Shipment(s, p, first) ==
    LET committed == LenCommited(log[s])
        sent == At(sentLen[s], p)
        applied == At(commitLen[s], p)
    IN  IF ~first /\ applied < committed
          THEN [mean |-> "logcommit", entry |-> Ops(log[s])[applied + 1]]
        ELSE IF ~first /\ sent < committed
          THEN [mean |-> "logcommit", entry |-> Ops(log[s])[sent + 1]]
        ELSE IF ~first /\ sent < LenUncommited(log[s])
          THEN [mean |-> "logappend",
                entry |-> UncommitedOps(log[s])[sent - committed + 1]]
        ELSE [mean |-> "heartbeat", entry |-> ZeroEntry]

(* The session goroutine: under the lock, one SendReplicate per peer, with *)
(* the Term of this moment and not that of the tick.                       *)
SessionStart(s, i) ==
    /\ session[s][i].st = "spawned"
    /\ Cardinality(net) <= MaxNet
    /\ ~poisoned[s]
    /\ net' = net \cup
         {LET ship == Shipment(s, p, session[s][i].first)
          IN  [type |-> "replicate", mean |-> ship.mean, entry |-> ship.entry,
               from |-> s, to |-> p, slot |-> i, term |-> term[s]]
             : p \in Others(s)}
    /\ session' = [session EXCEPT ![s][i].st = "open", ![s][i].first = FALSE]
    /\ UNCHANGED <<serverVars, storeVars, peerVars, timer, poisoned, loopVars,
                   electionVars, client, historyVars>>

(* Mutant: no Broadcast.                                                   *)
NobodyWoken(s) == client

(* Cond.Broadcast *)
Woken(s) ==
    [c \in Client |-> IF client[c].node = s /\ client[c].st = "waiting"
                        THEN [client[c] EXCEPT !.st = "woken"] ELSE client[c]]

(* The session is over: late answers go to a channel nobody reads.         *)
SessionOver(s, i, upd) ==
    /\ session' = [session EXCEPT ![s][i] =
                      [FreshSession EXCEPT !.st = IF SlotReuse THEN "free" ELSE "over"]]
    /\ net' = {m \in net : ~(m.type = "replicated" /\ OfSession(m, s, i))}
    /\ client' = IF upd THEN Woken(s) ELSE client

(* One answer without error out of resp_ch.  A refusal (status 400) comes  *)
(* as one too: SendReplicate does not return after its error answers, and  *)
(* delivers length 0, not acknowledged.                                    *)
SessionReceive(s, i) == \E m \in net :
    LET sentOnly == ~m.ack /\ m.len <= LenUncommited(log[s])
        applied == m.ack /\ m.len <= LenCommited(log[s])
        upd == session[s][i].upd \/ sentOnly \/ applied
        nr == session[s][i].nr + 1
    IN  /\ m.type = "replicated" /\ OfSession(m, s, i)
        /\ session[s][i].st = "open"
        /\ sentOnly \/ applied => ~poisoned[s]
        /\ sentLen' = IF sentOnly \/ applied
                        THEN [sentLen EXCEPT ![s] = Raised(@, m.from, m.len)] ELSE sentLen
        /\ commitLen' = IF applied
                        THEN [commitLen EXCEPT ![s] = Raised(@, m.from, m.len)] ELSE commitLen
        /\ IF nr = Cardinality(Others(s))
             THEN SessionOver(s, i, upd)
             ELSE /\ session' = [session EXCEPT ![s][i].nr = nr, ![s][i].upd = upd]
                  /\ net' = net \ {m}
                  /\ UNCHANGED client
        /\ UNCHANGED <<serverVars, storeVars, timer, poisoned, loopVars,
                       electionVars, historyVars>>

(* HEARTBEAT_TOUT, or the producer has returned and cancelled its          *)
(* sessions: without enough answers State becomes SLAVE, whatever it is by *)
(* now, and nobody is notified.                                            *)
SessionExpire(s, i) ==
    /\ session[s][i].st = "open"
    /\ Prompt => \A m \in net : ~OfSession(m, s, i)
    /\ IF session[s][i].nr < SessionQuorum
         THEN /\ state' = [state EXCEPT ![s] = "slave"]
              /\ SessionOver(s, i, FALSE)
         ELSE /\ UNCHANGED state
              /\ SessionOver(s, i, session[s][i].upd)
    /\ UNCHANGED <<term, votedFor, storeVars, peerVars, timer, poisoned, loopVars,
                   electionVars, historyVars>>
-----------------------------------------------------------------------------
(* The process of s ends: Fatalf, or a crash.  Its memory is gone, and so  *)
(* are the answers on their way to it; its requests may still arrive.      *)
Dies(s, msgs) ==
    /\ term' = [term EXCEPT ![s] = 0]
    /\ state' = [state EXCEPT ![s] = "slave"]
    /\ votedFor' = [votedFor EXCEPT ![s] = Nil]
    /\ log' = [log EXCEPT ![s] = [EmptyLog EXCEPT !.file = log[s].file]]
    /\ sentLen' = [sentLen EXCEPT ![s] = EmptyMap]
    /\ commitLen' = [commitLen EXCEPT ![s] = EmptyMap]
    /\ timer' = [timer EXCEPT ![s] = TRUE]
    /\ poisoned' = [poisoned EXCEPT ![s] = FALSE]
    /\ co' = [co EXCEPT ![s] = "down"]
    /\ cancelled' = [cancelled EXCEPT ![s] = FALSE]
    /\ elTerm' = [elTerm EXCEPT ![s] = 0]
    /\ votes' = [votes EXCEPT ![s] = {}]
    /\ session' = [session EXCEPT ![s] = [i \in Slot |-> FreshSession]]
    /\ client' = [c \in Client |-> IF client[c].node = s
                                     THEN [NoRequest EXCEPT !.st = "lost"] ELSE client[c]]
    /\ net' = {m \in msgs : ~(m.type \in {"granted", "replicated"} /\ m.to = s)}

Serving(s) == co[s] # "down" /\ ~poisoned[s]

(* Mutant: Term is not stored.                                             *)
TermNotStored(s, t) ==
    /\ UNCHANGED term
    /\ UNCHANGED <<co, elTerm, votes>>

(* A handler stores Term.  The Add of Election_co is not under the lock:   *)
(* it may fall between the handler's load and its store, which undoes it.  *)
StoreTerm(s, t) ==
    /\ term' = [term EXCEPT ![s] = t]
    /\ AddTerm(s) \/ UNCHANGED <<co, elTerm, votes>>

-----------------------------------------------------------------------------
(* HandleReplicate *)

(* The answer to replication request m, if its session still waits.        *)
Answered(m, len, ack) ==
    (net \ {m}) \cup
        IF session[m.from][m.slot].st = "open"
          THEN {[type |-> "replicated", from |-> m.to, to |-> m.from, slot |-> m.slot,
                 len |-> len, ack |-> ack]}
          ELSE {}

Progress(m, lg) ==
    Answered(m, LenUncommited(lg), LenUncommited(lg) = LenCommited(lg))

(* Status 400, no body.                                                    *)
ReplicateRefused(s) == \E m \in net :
    /\ m.type = "replicate" /\ m.to = s /\ Serving(s)
    /\ net' = Answered(m, 0, FALSE)
    /\ \/ /\ IF state[s] = "master" THEN term[s] >= m.term ELSE term[s] > m.term
          /\ UNCHANGED <<term, co, elTerm, votes>>
       \/ \* a slave whose Term is raised and, before it is read again, added to
          /\ state[s] = "slave" /\ term[s] < m.term
          /\ co[s] = "elect" /\ m.term <= MaxTerm
          /\ term' = [term EXCEPT ![s] = m.term + 1]
          /\ elTerm' = [elTerm EXCEPT ![s] = m.term + 1]
          /\ votes' = [votes EXCEPT ![s] = {s}]
          /\ co' = [co EXCEPT ![s] = "canvass"]
    /\ UNCHANGED <<state, votedFor, storeVars, peerVars, timer, poisoned, cancelled,
                   session, client, historyVars>>

(* A master or condidate becomes slave; the entry is not looked at.        *)
ReplicateDemotes(s) == \E m \in net :
    /\ m.type = "replicate" /\ m.to = s /\ Serving(s)
    /\ \/ state[s] = "master" /\ term[s] < m.term
       \/ state[s] = "condidate" /\ term[s] <= m.term
    /\ StoreTerm(s, m.term)
    /\ state' = [state EXCEPT ![s] = "slave"]
    /\ Cancel(s)
    /\ timer' = [timer EXCEPT ![s] = TRUE]
    /\ net' = Progress(m, log[s])
    /\ UNCHANGED <<votedFor, storeVars, peerVars, poisoned, session, client, historyVars>>

(* A slave logs the entry if it fits after what is written; an entry that  *)
(* is pending already gives way.  PrevInd == LenCommited - 1 is unsigned,  *)
(* so with nothing written it is false for every PrevInd.                  *)
Fits(lg, e) ==
    \/ e.ind = 0 /\ LenUncommited(lg) = 0
    \/ e.prevInd + 1 = LenCommited(lg)

Logged(lg, m) ==
    IF m.mean # "heartbeat" /\ Fits(lg, m.entry)
      THEN LogOp(FlushUncommited(lg), m.entry) ELSE lg

(* Mutant: the check is dropped.                                           *)
CommittableAlways(lg, m) == TRUE

(* The check before LogCommit: LenUncommited - 1 == Ind, unsigned.         *)
Committable(lg, m) == m.mean = "logcommit" => LenUncommited(lg) = m.entry.ind + 1

SlaveReplicates(s) == \E m \in net :
    LET logged == Logged(log[s], m)
        stored == IF m.mean = "logcommit" THEN LogCommit(logged) ELSE logged
    IN  /\ m.type = "replicate" /\ m.to = s /\ Serving(s)
        /\ state[s] = "slave" /\ term[s] <= m.term
        /\ Committable(logged, m)
        /\ IF term[s] < m.term THEN StoreTerm(s, m.term)
             ELSE UNCHANGED <<term, co, elTerm, votes>>
        /\ log' = [log EXCEPT ![s] = stored]
        /\ kvs' = IF m.mean = "logcommit"
                    THEN [kvs EXCEPT ![s] = Applied(@, LastOp(stored).cmd)] ELSE kvs
        /\ timer' = [timer EXCEPT ![s] = TRUE]
        /\ net' = Progress(m, stored)
        /\ UNCHANGED <<state, votedFor, peerVars, poisoned, cancelled, session, client,
                       historyVars>>

(* Fatalf: the server process ends.                                        *)
SlaveFatal(s) == \E m \in net :
    /\ m.type = "replicate" /\ m.to = s /\ Serving(s)
    /\ state[s] = "slave" /\ term[s] <= m.term
    /\ ~Committable(Logged(log[s], m), m)
    /\ Dies(s, net \ {m})
    /\ UNCHANGED <<kvs, historyVars>>

-----------------------------------------------------------------------------
(* HandleVoteRequest: logs are compared by what is written, and VotedFor   *)
(* counts only against a request for the current Term.                     *)
VoteLogOk(s, m) ==
    \/ m.logTerm > LastOp(log[s]).term
    \/ m.logTerm = LastOp(log[s]).term /\ m.logLen >= LenCommited(log[s])

(* Mutant: VotedFor is not looked at.                                      *)
VoteTermNotLess(s, m) == m.elTerm >= term[s]

VoteTermOk(s, m) ==
    \/ m.elTerm > term[s]
    \/ m.elTerm = term[s] /\ votedFor[s] = m.from

VoteGranted(s) == \E m \in net :
    /\ m.type = "vote" /\ m.to = s /\ Serving(s)
    /\ VoteTermOk(s, m) /\ VoteLogOk(s, m)
    /\ StoreTerm(s, m.elTerm)
    /\ state' = [state EXCEPT ![s] = "slave"]
    /\ votedFor' = [votedFor EXCEPT ![s] = m.from]
    /\ Cancel(s)
    /\ timer' = [timer EXCEPT ![s] = TRUE]
    /\ net' = (net \ {m}) \cup
         IF co[m.from] = "election" /\ elTerm[m.from] = m.elTerm
           THEN {[type |-> "granted", from |-> s, to |-> m.from]} ELSE {}
    /\ granted' = granted \cup {[voter |-> s, inc |-> incarnation[s],
                                 term |-> m.elTerm, cand |-> m.from]}
    /\ UNCHANGED <<storeVars, peerVars, poisoned, session, client, elected, incarnation>>

(* A negative answer has no effect on the condidate and is not modelled.   *)
VoteRefused(s) == \E m \in net :
    /\ m.type = "vote" /\ m.to = s /\ Serving(s)
    /\ ~(VoteTermOk(s, m) /\ VoteLogOk(s, m))
    /\ net' = net \ {m}
    /\ UNCHANGED <<serverVars, storeVars, peerVars, timer, poisoned, loopVars,
                   electionVars, session, client, historyVars>>

-----------------------------------------------------------------------------
(* HandleKvs: POST, PATCH and DELETE.                                      *)

(* State is read before the lock is taken; a slave only redirects.         *)
ClientAdmitted(c, s) ==
    /\ client[c].st = "idle"
    /\ co[s] # "down"
    /\ state[s] = "master"
    /\ client' = [client EXCEPT ![c] = [NoRequest EXCEPT !.st = "admitted", !.node = s]]
    /\ UNCHANGED <<serverVars, storeVars, peerVars, timer, poisoned, loopVars,
                   electionVars, session, net, historyVars>>

Finished(c, st) == client' = [client EXCEPT ![c] = [NoRequest EXCEPT !.st = st]]

(* Mutant: nothing is committed to the log.                                *)
CompleteUncommited(c, s, lg) ==
    /\ kvs' = [kvs EXCEPT ![s] = Applied(@, Request[c])]
    /\ log' = [log EXCEPT ![s] = lg]
    /\ Finished(c, "acked")

(* Behind the wait: the store is written, then one pending entry committed *)
(* to the log, and the client answered.  Deleting a key that is gone by    *)
(* now is an error and leaves the log alone.                               *)
Complete(c, s, lg) ==
    IF Request[c].op = "delete" /\ kvs[s][Request[c].key] = NoValue
      THEN /\ log' = [log EXCEPT ![s] = lg]
           /\ Finished(c, "failed")
           /\ UNCHANGED kvs
      ELSE /\ kvs' = [kvs EXCEPT ![s] = Applied(@, Request[c])]
           /\ log' = [log EXCEPT ![s] = LogCommit(lg)]
           /\ Finished(c, "acked")

(* POST wants the key absent, PATCH and DELETE want it present.            *)
Acceptable(c, s) ==
    (Request[c].op = "create") = (kvs[s][Request[c].key] = NoValue)

ClientRejected(c) ==
    LET s == client[c].node
    IN  /\ client[c].st = "admitted" /\ Serving(s)
        /\ ~Acceptable(c, s)
        /\ Finished(c, "rejected")
        /\ UNCHANGED <<serverVars, storeVars, peerVars, timer, poisoned, loopVars,
                       electionVars, session, net, historyVars>>

(* The request is logged, the producer's timer is set off, and the handler *)
(* waits for a quorum.  While no peer has ever answered, minSentLenQuorum  *)
(* indexes an empty slice: the handler panics, and the lock stays held.    *)
ClientSubmits(c) ==
    LET s == client[c].node
        lg == LogOp(log[s], [ZeroEntry EXCEPT !.cmd = Request[c], !.term = term[s]])
        need == LenUncommited(lg)
    IN  /\ client[c].st = "admitted" /\ Serving(s)
        /\ Acceptable(c, s)
        /\ timer' = [timer EXCEPT ![s] = TRUE]
        /\ \/ /\ DOMAIN sentLen[s] = {}
              /\ poisoned' = [poisoned EXCEPT ![s] = TRUE]
              /\ log' = [log EXCEPT ![s] = lg]
              /\ Finished(c, "lost")
              /\ UNCHANGED kvs
           \/ /\ DOMAIN sentLen[s] # {}
              /\ IF need > MinSentLenQuorum(sentLen[s])
                   THEN /\ log' = [log EXCEPT ![s] = lg]
                        /\ client' = [client EXCEPT ![c].st = "waiting", ![c].need = need]
                        /\ UNCHANGED kvs
                   ELSE Complete(c, s, lg)
              /\ UNCHANGED poisoned
        /\ UNCHANGED <<serverVars, peerVars, loopVars, electionVars, session, net,
                       historyVars>>

(* Cond.Wait returns: the length is checked again, State and Term are not. *)
ClientResumes(c) ==
    LET s == client[c].node
    IN  /\ client[c].st = "woken" /\ Serving(s)
        /\ IF client[c].need > MinSentLenQuorum(sentLen[s])
             THEN client' = [client EXCEPT ![c].st = "waiting"] /\ UNCHANGED storeVars
             ELSE Complete(c, s, log[s])
        /\ UNCHANGED <<serverVars, peerVars, timer, poisoned, loopVars, electionVars,
                       session, net, historyVars>>

-----------------------------------------------------------------------------
(* Failures *)

(* A message is lost, or is for a server that is down.                     *)
MessageLost == \E m \in net :
    /\ Lossy \/ co[m.to] = "down"
    /\ net' = net \ {m}
    /\ UNCHANGED <<serverVars, storeVars, peerVars, timer, poisoned, loopVars,
                   electionVars, session, client, historyVars>>

Crash(s) ==
    /\ co[s] # "down"
    /\ incarnation[s] < MaxRestarts
    /\ Dies(s, net)
    /\ UNCHANGED <<kvs, historyVars>>

(* main(): a server starts anew if its log can be restored, and ends with  *)
(* Fatalf otherwise.  Neither Term nor VotedFor was saved.                 *)
Restart(s) ==
    /\ co[s] = "down"
    /\ incarnation[s] < MaxRestarts
    /\ CanRestore(log[s].file)
    /\ log' = [log EXCEPT ![s] = InitOrRestore(@.file)]
    /\ co' = [co EXCEPT ![s] = "loop"]
    /\ incarnation' = [incarnation EXCEPT ![s] = @ + 1]
    /\ UNCHANGED <<serverVars, kvs, peerVars, timer, poisoned, cancelled,
                   electionVars, session, client, net, granted, elected>>

-----------------------------------------------------------------------------
Coroutine(s) ==
    \/ LoopIteration(s) \/ SpawnFlushed(s)
    \/ ConsumerExpire(s) \/ ConsumerCancelled(s)
    \/ ElectionStart(s) \/ Canvass(s) \/ CountVote(s) \/ ElectionGivenUp(s)
    \/ BecomeLeader(s)
    \/ ProducerTick(s) \/ ProducerCancelled(s)
    \/ \E i \in Slot : SessionStart(s, i) \/ SessionReceive(s, i) \/ SessionExpire(s, i)

Handler(s) ==
    \/ ReplicateRefused(s) \/ ReplicateDemotes(s) \/ SlaveReplicates(s) \/ SlaveFatal(s)
    \/ VoteGranted(s) \/ VoteRefused(s)

HandleKvs(c) ==
    \/ \E s \in Server : ClientAdmitted(c, s)
    \/ ClientRejected(c) \/ ClientSubmits(c) \/ ClientResumes(c)

Next ==
    \/ \E s \in Server : Coroutine(s) \/ Handler(s) \/ Crash(s) \/ Restart(s)
    \/ \E c \in Client : HandleKvs(c)
    \/ MessageLost

Spec == Init /\ [][Next]_vars
=============================================================================
