---------------------------- MODULE RaftProperties ----------------------------
(***************************************************************************)
(* What the cluster of DB/ should do, stated over RaftCluster: properties  *)
(* of every behaviour, then properties of behaviours with one master, then *)
(* claims of the repository that the code does not keep.                   *)
(***************************************************************************)
EXTENDS RaftCluster

-----------------------------------------------------------------------------
(* Types *)

Coroutines == {"loop", "consumer", "become_condidate", "elect", "canvass", "election",
               "won", "become_master", "producer0", "producer", "stuck", "down"}

IsPeerLengths(len) ==
    /\ DOMAIN len \subseteq Server
    /\ \A p \in DOMAIN len : len[p] \in Nat

Terms == 0..MaxTerm + 1

Message ==
    [type : {"vote"}, from : Server, to : Server, elTerm : Terms, logLen : Nat,
     logTerm : Terms]
    \cup [type : {"granted"}, from : Server, to : Server]
    \cup [type : {"replicate"}, mean : {"heartbeat", "logappend", "logcommit"},
          entry : Entry \cup {ZeroEntry}, from : Server, to : Server, slot : Slot,
          term : Terms]
    \cup [type : {"replicated"}, from : Server, to : Server, slot : Slot, len : Nat,
          ack : BOOLEAN]

(* The variables hold what their Go counterparts can hold.                 *)
TypeOK ==
    /\ term \in [Server -> Terms]
    /\ state \in [Server -> {"slave", "condidate", "master"}]
    /\ votedFor \in [Server -> Server \cup {Nil}]
    /\ log \in [Server -> Log]
    /\ kvs \in [Server -> [Key -> Value \cup {NoValue}]]
    /\ DOMAIN sentLen = Server /\ DOMAIN commitLen = Server
    /\ \A s \in Server : IsPeerLengths(sentLen[s]) /\ IsPeerLengths(commitLen[s])
    /\ timer \in [Server -> BOOLEAN]
    /\ poisoned \in [Server -> BOOLEAN]
    /\ co \in [Server -> Coroutines]
    /\ cancelled \in [Server -> BOOLEAN]
    /\ elTerm \in [Server -> Terms]
    /\ votes \in [Server -> SUBSET Server]
    /\ session \in [Server -> [Slot ->
           [st : {"free", "spawned", "open", "over"}, first : BOOLEAN, nr : Nat, upd : BOOLEAN]]]
    /\ client \in [Client ->
           [st : {"idle", "admitted", "waiting", "woken", "acked", "rejected", "failed", "lost"},
            node : Server \cup {Nil}, need : Nat]]
    /\ net \subseteq Message
    /\ granted \subseteq [voter : Server, inc : 0..MaxRestarts, term : Terms, cand : Server]
    /\ elected \subseteq [cand : Server, term : Terms, votes : SUBSET Server]
    /\ incarnation \in [Server -> 0..MaxRestarts]

-----------------------------------------------------------------------------
(* Elections *)

ElectionQuorums == {V \in SUBSET Server : Cardinality(V) >= ElectionQuorum}

Voting == INSTANCE Ballots WITH
    Quorum <- ElectionQuorums,
    Term <- Terms,
    Incarnation <- 0..MaxRestarts

(* Whatever the handlers, coroutines and late messages do to Term, State   *)
(* and VotedFor, votes are given in terms that never go down and elections *)
(* are won with votes really given (raftapi.go:315-338,                    *)
(* middleware.go:229-268).                                                 *)
ImplementsBallots == Voting!Spec

(* Two winners of one term are the work of a condidate that voted for its  *)
(* rival, or of a voter that forgot its vote (middleware.go:241 counts the *)
(* own vote without recording it in VotedFor; nothing is restored).        *)
RivalWinners == Voting!RivalWinners

-----------------------------------------------------------------------------
(* Logs *)

(* On every server the entries carry their positions and the positions and *)
(* terms of their predecessors, and the lengths computed from last_entry   *)
(* count the lines of the file, which is what the Fatalf at                *)
(* middleware.go:139 insists on.                                           *)
LogsWellFormed ==
    \A s \in Server : co[s] # "down" =>
        /\ LastIsCached(log[s])
        /\ WellNumbered(Content(log[s]))
        /\ LenCommited(log[s]) = Len(log[s].file)

(* No step of any actor takes back or rewrites a line of a log file: not a *)
(* new master, not a flush, not the end of the process.                    *)
FilesOnlyGrow ==
    [][\A s \in Server : \A i \in 1..Len(log[s].file) :
           i <= Len(log'[s].file) /\ log'[s].file[i] = log[s].file[i]]_vars

(* The lines of a log file about key k, and the last of them.              *)
Touching(file, k) == {i \in 1..Len(file) : file[i].cmd.key = k}
LastTouching(file, k) ==
    CHOOSE i \in Touching(file, k) : \A j \in Touching(file, k) : j <= i

(* The value an entry leaves its key with.                                 *)
ValueOf(e) == IF e.cmd.op = "delete" THEN NoValue ELSE e.cmd.val

(* The store after the requests of a log file.                             *)
ReplayedValue(file, k) ==
    IF Touching(file, k) = {} THEN NoValue ELSE ValueOf(file[LastTouching(file, k)])
Replayed(file) == [k \in Key |-> ReplayedValue(file, k)]

(* A server that was never elected has in its store what its log file      *)
(* says: re-applying the last entry on a repeated logcommit                *)
(* (raftapi.go:190-192) does no harm.                                      *)
SlaveStoreReplaysLog ==
    \A s \in Server : (\A e \in elected : e.cand # s) => kvs[s] = Replayed(log[s].file)

-----------------------------------------------------------------------------
(* Behaviours with one master: one electable server, one term.             *)

(* A winner that has lost its state: its log is flushed, and a client that  *)
(* it wakes goes on and commits another entry under the same number.       *)
SteppedDown == \E e \in elected : state[e.cand] # "master"

(* Until the master steps down, two servers agree on every line both have  *)
(* in their files, though entries were sent again, late and out of order.  *)
FilesAgree ==
    SteppedDown \/ \A s, t \in Server : \A i \in 1..Len(log[s].file) :
        i <= Len(log[t].file) => log[s].file[i] = log[t].file[i]

(* The master never thinks a peer further than it is, whatever answers are *)
(* late: SentLen is at most what the peer has logged, CommitLen what it    *)
(* has written (middleware.go:202-213).                                    *)
PeerLengthsReached ==
    \A s, p \in Server : co[p] # "down" =>
        /\ At(sentLen[s], p) <= LenUncommited(log[p])
        /\ At(commitLen[s], p) <= LenCommited(log[p])

(* The two ways the server side breaks down without any failure around it. *)
Broken == \E s \in Server : poisoned[s] \/ co[s] = "down"

Acked == {c \in Client : client[c].st = "acked"}

(* While the master stays and no server breaks down, what was acknowledged *)
(* is in its log, once, and the file counts the acknowledgements, though   *)
(* LogCommit may have written another request's entry than the             *)
(* acknowledged one (rest/api.go:121, 257, 329).                           *)
AckedStaysLogged ==
    Broken \/ SteppedDown \/ \A c \in Acked : \E s \in Server :
        /\ Cardinality({i \in 1..Len(Content(log[s])) :
                           Content(log[s])[i].cmd = Request[c]}) = 1
        /\ Len(log[s].file) = Cardinality(Acked)

-----------------------------------------------------------------------------
(* Liveness, in behaviours with one master whose answers come in time.     *)

(* Goroutines are scheduled, timers fire, and requests that were sent are  *)
(* handled and answered.  Slave timers, crashes and clients are not fair.  *)
Fairness ==
    /\ \A s \in Server :
        /\ WF_vars(LoopIteration(s)) /\ WF_vars(SpawnFlushed(s))
        /\ WF_vars(ElectionStart(s)) /\ WF_vars(Canvass(s)) /\ WF_vars(CountVote(s))
        /\ WF_vars(BecomeLeader(s)) /\ WF_vars(ProducerTick(s))
        /\ \A i \in Slot : /\ WF_vars(SessionStart(s, i)) /\ WF_vars(SessionReceive(s, i))
                           /\ WF_vars(SessionExpire(s, i))
        /\ WF_vars(Handler(s))
    /\ \A c \in Client : WF_vars(ClientRejected(c) \/ ClientSubmits(c) \/ ClientResumes(c))
    /\ WF_vars(MessageLost)

FairSpec == Spec /\ Fairness

(* A request the master let in is answered, unless a server broke down:    *)
(* no wake-up between the quorum test and Cond.Wait is lost                *)
(* (rest/api.go:108-110, middleware.go:219-221).                           *)
RequestsAnswered ==
    \A c \in Client :
        client[c].st = "admitted" ~> client[c].st \in {"acked", "rejected", "failed"} \/ Broken

(* What one server has written reaches every server (middleware.go:138).   *)
SlavesCatchUp ==
    \A p \in Server, n \in 1..Cardinality(Client) :
        (\E s \in Server : Len(log[s].file) >= n) ~> Len(log[p].file) >= n \/ Broken

-----------------------------------------------------------------------------
(* Claims of the repository *)

(* "quorum had been accept this log" (rest/api.go:107): when a request is  *)
(* acknowledged, most servers have its entry.                              *)
AckedOnQuorum ==
    [][\A c \in Client : client[c].st # "acked" /\ client'[c].st = "acked" =>
         2 * Cardinality({s \in Server : \E i \in 1..Len(Content(log'[s])) :
                             Content(log'[s])[i].cmd = Request[c]}) > Cardinality(Server)]_vars
=============================================================================
