--------------------------- MODULE RaftClusterProofs ---------------------------
(***************************************************************************)
(* Proofs about RaftCluster, for every odd number of servers, any clients  *)
(* and any bounds, messages lost and restarts included.                    *)
(*                                                                         *)
(* Voting implements Ballots, whatever replication does to Term and State. *)
(* Its invariant, VotingInv, has three parts.  GrantsRemembered: a running *)
(* server's votes of this life are of terms it has not left behind, and in *)
(* its Term it has voted for VotedFor at most.  VotesBacked: the votes a   *)
(* condidate has counted, and those on their way to it, were given in the  *)
(* term it is asking for.  VotingTypes: the few types this needs.          *)
(*                                                                         *)
(* Replication keeps the logs.  ReplicaInv adds LogInv, that every log,    *)
(* and every entry under way, is one the logger could have made, which     *)
(* needs the sessions and lengths they are sent by, and ClientInv, that    *)
(* only a server that has won handles clients.  TypeInv adds the remaining *)
(* types, and Replays, over it, that a slave's store follows its file.     *)
(*                                                                         *)
(* What follows is about clusters where one server, a, can be elected and  *)
(* none comes back after a crash.  OneLeader: the others only follow, and  *)
(* what is under way goes from a or to it.  Reached: what a counts of a    *)
(* slave's file is there.  With one term, Campaign: nobody has heard of a  *)
(* before it wins.  Reign: a slave's file is the beginning of a's, up to   *)
(* the last lines.  Accounts: what a client was told of is in a's file.    *)
(***************************************************************************)
EXTENDS RaftProperties, RaftLogProofs, FiniteSetTheorems, WellFoundedInduction, TLAPS

Asking == {"canvass", "election", "won"}

VoteGiven(v, t, c) ==
    \E g \in granted : g.voter = v /\ g.term = t /\ g.cand = c

VotingTypes ==
    /\ term \in [Server -> Terms]
    /\ state \in [Server -> {"slave", "condidate", "master"}]
    /\ co \in [Server -> Coroutines]
    /\ votedFor \in [Server -> Server \cup {Nil}]
    /\ elTerm \in [Server -> Terms]
    /\ votes \in [Server -> SUBSET Server]
    /\ incarnation \in [Server -> 0..MaxRestarts]
    /\ granted \subseteq [voter : Server, inc : 0..MaxRestarts, term : Terms, cand : Server]
    /\ \A m \in net :
        /\ m.type = "vote" => m.from \in Server /\ m.elTerm \in Terms
        /\ m.type = "replicate" => m.term \in Terms
        /\ m.type = "granted" => m.from \in Server /\ m.to \in Server

GrantsRemembered ==
    \A g \in granted :
        /\ g.inc <= incarnation[g.voter]
        /\ g.inc = incarnation[g.voter] /\ co[g.voter] # "down" =>
               /\ g.term <= term[g.voter]
               /\ g.term = term[g.voter] => votedFor[g.voter] = g.cand

VotesBacked ==
    /\ \A s \in Server : co[s] \in Asking =>
           \A v \in votes[s] \ {s} : VoteGiven(v, elTerm[s], s)
    /\ \A s \in Server : co[s] = "won" => Cardinality(votes[s]) >= ElectionQuorum
    /\ \A m \in net : m.type = "granted" =>
           co[m.to] = "election" /\ VoteGiven(m.from, elTerm[m.to], m.to)

VotingInv == VotingTypes /\ GrantsRemembered /\ VotesBacked

-----------------------------------------------------------------------------
(* What a step may do to a server's part in an election, and what none of  *)
(* the steps but a vote does to a server's memory.                         *)

(* The term of p is not left behind, nor its vote in it forgotten.         *)
Remembers(p) ==
    /\ co[p] # "down"
    /\ term[p] <= term'[p]
    /\ term'[p] = term[p] => votedFor'[p] = votedFor[p]

(* p goes on asking for the same votes.                                    *)
AsksOn(p) ==
    /\ elTerm'[p] = elTerm[p] /\ votes'[p] = votes[p]
    /\ \/ co'[p] = co[p]
       \/ co[p] = "canvass" /\ co'[p] = "election"

(* p is not, or only begins to be, a condidate.                            *)
AsksNothing(p) ==
    /\ \/ co'[p] \notin Asking
       \/ co'[p] = "canvass" /\ votes'[p] = {p}
    /\ \A m \in net' : m.type = "granted" => m.to # p

(* Only votes that were on their way before are on their way now.          *)
NoNewVotes == \A m \in net' : m.type = "granted" => m \in net

-----------------------------------------------------------------------------
(* A step that gives no vote keeps the memory of those given.              *)
LEMMA MemoryKept ==
    ASSUME VotingInv, granted' = granted, incarnation' = incarnation,
           \A p \in Server : co'[p] # "down" => Remembers(p),
           term' \in [Server -> Terms]
    PROVE  GrantsRemembered'
<1> SUFFICES ASSUME NEW g \in granted
             PROVE  /\ g.inc <= incarnation[g.voter]
                    /\ g.inc = incarnation[g.voter] /\ co'[g.voter] # "down" =>
                           /\ g.term <= term'[g.voter]
                           /\ g.term = term'[g.voter] => votedFor'[g.voter] = g.cand
    BY DEF GrantsRemembered
<1>1. g.voter \in Server /\ g.term \in Nat /\ g.term \in Int
    BY RaftClusterAssumption DEF VotingInv, VotingTypes, Terms
<1>2. term[g.voter] \in Nat /\ term'[g.voter] \in Nat
    BY <1>1, RaftClusterAssumption DEF VotingInv, VotingTypes, Terms
<1>3. g.inc <= incarnation[g.voter]
    BY DEF VotingInv, GrantsRemembered
<1>4. ASSUME g.inc = incarnation[g.voter], co'[g.voter] # "down"
      PROVE  /\ g.term <= term'[g.voter]
             /\ g.term = term'[g.voter] => votedFor'[g.voter] = g.cand
  <2>1. Remembers(g.voter)
      BY <1>1, <1>4
  <2>2. /\ g.term <= term[g.voter]
        /\ g.term = term[g.voter] => votedFor[g.voter] = g.cand
      BY <1>4, <2>1 DEF VotingInv, GrantsRemembered, Remembers
  <2> QED BY <1>1, <1>2, <2>1, <2>2 DEF Remembers
<1> QED BY <1>3, <1>4

(* A step after which every server asks on, or asks for nothing, keeps the *)
(* votes backed.                                                           *)
LEMMA BackingKept ==
    ASSUME VotingInv, granted \subseteq granted', NoNewVotes,
           \A p \in Server : AsksOn(p) \/ AsksNothing(p)
    PROVE  VotesBacked'
<1>1. ASSUME NEW v, NEW t, NEW c, VoteGiven(v, t, c)
      PROVE  VoteGiven(v, t, c)'
    BY <1>1 DEF VoteGiven
<1>2. ASSUME NEW s \in Server, co'[s] \in Asking, NEW v \in votes'[s] \ {s}
      PROVE  VoteGiven(v, elTerm[s], s)'
  <2>1. CASE AsksOn(s)
    <3>1. co[s] \in Asking /\ v \in votes[s] \ {s} /\ elTerm'[s] = elTerm[s]
        BY <1>2, <2>1 DEF AsksOn, Asking
    <3>2. VoteGiven(v, elTerm[s], s)
        BY <3>1 DEF VotingInv, VotesBacked
    <3> QED BY <3>1, <3>2 DEF VoteGiven
  <2>2. CASE AsksNothing(s)
      BY <1>2, <2>2 DEF AsksNothing
  <2> QED BY <2>1, <2>2
<1>3. ASSUME NEW s \in Server, co'[s] = "won"
      PROVE  Cardinality(votes'[s]) >= ElectionQuorum
  <2>1. CASE AsksOn(s)
      BY <1>3, <2>1 DEF AsksOn, VotingInv, VotesBacked
  <2>2. CASE AsksNothing(s)
      BY <1>3, <2>2 DEF AsksNothing, Asking
  <2> QED BY <2>1, <2>2
<1>4. ASSUME NEW m \in net', m.type = "granted"
      PROVE  co'[m.to] = "election" /\ VoteGiven(m.from, elTerm[m.to], m.to)'
  <2>1. m \in net
      BY <1>4 DEF NoNewVotes
  <2>2. m.to \in Server /\ co[m.to] = "election" /\ VoteGiven(m.from, elTerm[m.to], m.to)
      BY <1>4, <2>1 DEF VotingInv, VotingTypes, VotesBacked
  <2>3. AsksOn(m.to)
      BY <1>4, <2>2 DEF AsksNothing
  <2>4. co'[m.to] = "election" /\ elTerm'[m.to] = elTerm[m.to]
      BY <2>2, <2>3 DEF AsksOn
  <2> QED BY <2>2, <2>4 DEF VoteGiven
<1> QED BY <1>2, <1>3, <1>4 DEF VotesBacked

-----------------------------------------------------------------------------
(* Steps that take no part in voting.                                      *)

(* New messages are requests, with terms that are terms.                   *)
NewRequestsOnly ==
    \A m \in net' : m \in net \/
        /\ m.type # "granted"
        /\ m.type = "vote" => m.from \in Server /\ m.elTerm \in Terms
        /\ m.type = "replicate" => m.term \in Terms

(* The main loop of p moves, but neither into an election nor out of one.  *)
MovesQuietly(p) ==
    /\ co[p] # "down"
    /\ \/ co[p] = "canvass" /\ co'[p] = "election"
       \/ co[p] # "election" /\ co'[p] \notin Asking

Quiet ==
    /\ UNCHANGED <<term, votedFor, electionVars, historyVars>>
    /\ state' \in [Server -> {"slave", "condidate", "master"}]
    /\ NewRequestsOnly
    /\ co' \in [Server -> Coroutines]
    /\ \A p \in Server : co'[p] = co[p] \/ MovesQuietly(p)

(* Such a step keeps the invariant.                                        *)
LEMMA QuietKeeps ==
    ASSUME VotingInv, Quiet
    PROVE  VotingInv'
<1>1. NoNewVotes
    BY DEF Quiet, NewRequestsOnly, NoNewVotes
<1>2. /\ term' = term /\ votedFor' = votedFor /\ elTerm' = elTerm /\ votes' = votes
      /\ granted' = granted /\ incarnation' = incarnation
    BY DEF Quiet, electionVars, historyVars
<1>3. VotingTypes'
    BY <1>2 DEF VotingInv, VotingTypes, Quiet, NewRequestsOnly
<1>4. GrantsRemembered'
  <2>1. ASSUME NEW p \in Server, co'[p] # "down"
        PROVE  Remembers(p)
    <3>1. co[p] # "down"
        BY <2>1 DEF Quiet, MovesQuietly
    <3>2. term[p] \in Int
        BY RaftClusterAssumption DEF VotingInv, VotingTypes, Terms
    <3> QED BY <1>2, <3>1, <3>2 DEF Remembers
  <2> QED BY <1>2, <2>1, MemoryKept DEF VotingInv, VotingTypes
<1>5. VotesBacked'
  <2>1. ASSUME NEW p \in Server
        PROVE  AsksOn(p) \/ AsksNothing(p)
    <3>1. CASE co'[p] = co[p] \/ (co[p] = "canvass" /\ co'[p] = "election")
        BY <1>2, <3>1 DEF AsksOn
    <3>2. CASE co[p] # "election" /\ co'[p] \notin Asking
      <4>1. \A m \in net' : m.type = "granted" => m.to # p
          BY <1>1, <3>2 DEF NoNewVotes, VotingInv, VotesBacked
      <4> QED BY <3>2, <4>1 DEF AsksNothing
    <3> QED BY <3>1, <3>2 DEF Quiet, MovesQuietly
  <2> QED BY <1>1, <1>2, <2>1, BackingKept
<1> QED BY <1>3, <1>4, <1>5 DEF VotingInv

(* A step is quiet that leaves the main loops alone and sends nothing.     *)
LEMMA QuietIfNothingSent ==
    ASSUME VotingInv, UNCHANGED <<term, votedFor, electionVars, historyVars, co>>,
           state' \in [Server -> {"slave", "condidate", "master"}],
           net' \subseteq net
    PROVE  Quiet
BY DEF Quiet, NewRequestsOnly, VotingInv, VotingTypes

(* A step of one main loop that sends nothing is quiet.                    *)
LEMMA QuietIfLoopMoves ==
    ASSUME VotingInv, NEW s \in Server, NEW to \in Coroutines \ Asking,
           co' = [co EXCEPT ![s] = to],
           co[s] \notin {"election", "down"},
           UNCHANGED <<term, votedFor, electionVars, historyVars>>,
           state' \in [Server -> {"slave", "condidate", "master"}],
           net' = net
    PROVE  Quiet
BY DEF Quiet, NewRequestsOnly, MovesQuietly, VotingInv, VotingTypes

(* The coroutines, but for the election, are quiet.                        *)
LEMMA LoopQuiet ==
    ASSUME VotingInv, NEW s \in Server,
           \/ LoopIteration(s) \/ SpawnFlushed(s)
           \/ ConsumerExpire(s) \/ ConsumerCancelled(s)
           \/ ProducerTick(s) \/ ProducerCancelled(s)
    PROVE  Quiet /\ UNCHANGED elected
<1>1. CASE LoopIteration(s)
  <2>1. PICK to \in {"become_master", "become_condidate", "consumer"} :
            co' = [co EXCEPT ![s] = to]
      BY <1>1 DEF LoopIteration, VotingInv, VotingTypes
  <2>2. to \in Coroutines \ Asking
      BY DEF Coroutines, Asking
  <2> QED BY <1>1, <2>1, <2>2, QuietIfLoopMoves
          DEF LoopIteration, serverVars, historyVars, VotingInv, VotingTypes
<1>2. CASE SpawnFlushed(s)
  <2>1. PICK to \in {"producer0", "elect"} : co' = [co EXCEPT ![s] = to]
      BY <1>2 DEF SpawnFlushed
  <2>2. to \in Coroutines \ Asking /\ co[s] \notin {"election", "down"}
      BY <1>2 DEF SpawnFlushed, Coroutines, Asking
  <2> QED BY <1>2, <2>1, <2>2, QuietIfLoopMoves
          DEF SpawnFlushed, serverVars, historyVars, VotingInv, VotingTypes
<1>3. "loop" \in Coroutines \ Asking /\ "stuck" \in Coroutines \ Asking
      /\ "producer" \in Coroutines \ Asking
    BY DEF Coroutines, Asking
<1>4. CASE ConsumerExpire(s)
    BY <1>3, <1>4, QuietIfLoopMoves
       DEF ConsumerExpire, Leaves, historyVars, VotingInv, VotingTypes
<1>5. CASE ConsumerCancelled(s)
    BY <1>3, <1>5, QuietIfLoopMoves
       DEF ConsumerCancelled, Leaves, serverVars, historyVars, VotingInv, VotingTypes
<1>6. CASE ProducerTick(s)
  <2>1. PICK to \in {"loop", "producer"} : co' = [co EXCEPT ![s] = to]
      BY <1>6 DEF ProducerTick, Leaves
  <2> QED BY <1>3, <1>6, <2>1, QuietIfLoopMoves
          DEF ProducerTick, serverVars, historyVars, VotingInv, VotingTypes
<1>7. CASE ProducerCancelled(s)
    BY <1>3, <1>7, QuietIfLoopMoves
       DEF ProducerCancelled, Leaves, serverVars, historyVars, VotingInv, VotingTypes
<1> QED BY <1>1, <1>2, <1>4, <1>5, <1>6, <1>7

(* The requests for votes: the condidate asks on.                          *)
LEMMA CanvassQuiet ==
    ASSUME VotingInv, NEW s \in Server, Canvass(s)
    PROVE  Quiet /\ UNCHANGED elected
<1>1. "election" \in Coroutines
    BY DEF Coroutines
<1>2. /\ co[s] = "canvass" /\ co' = [co EXCEPT ![s] = "election"]
      /\ UNCHANGED <<term, state, votedFor, electionVars, historyVars>>
    BY DEF Canvass, serverVars
<1>3. \A m \in net' : m \in net \/ (m.type = "vote" /\ m.from = s /\ m.elTerm = elTerm[s])
    BY DEF Canvass
<1>4. NewRequestsOnly
    BY <1>3 DEF NewRequestsOnly, VotingInv, VotingTypes
<1> QED BY <1>1, <1>2, <1>4 DEF Quiet, MovesQuietly, historyVars, VotingInv, VotingTypes

(* The heartbeat sessions send requests of the sender's Term.              *)
LEMMA SessionQuiet ==
    ASSUME VotingInv, NEW s \in Server, NEW i \in Slot,
           SessionStart(s, i) \/ SessionReceive(s, i) \/ SessionExpire(s, i)
    PROVE  Quiet /\ UNCHANGED elected
<1>1. CASE SessionStart(s, i)
  <2>1. \A m \in net' : m \in net \/ (m.type = "replicate" /\ m.term = term[s])
      BY <1>1 DEF SessionStart
  <2>2. NewRequestsOnly
      BY <2>1 DEF NewRequestsOnly, VotingInv, VotingTypes
  <2>3. UNCHANGED <<term, state, votedFor, electionVars, historyVars, co>>
      BY <1>1 DEF SessionStart, serverVars, loopVars
  <2> QED BY <2>2, <2>3 DEF Quiet, historyVars, VotingInv, VotingTypes
<1>2. CASE SessionReceive(s, i)
  <2>1. net' \subseteq net
      BY <1>2 DEF SessionReceive, SessionOver
  <2>2. UNCHANGED <<term, state, votedFor, electionVars, historyVars, co>>
      BY <1>2 DEF SessionReceive, serverVars, loopVars
  <2> QED BY <2>1, <2>2, QuietIfNothingSent DEF historyVars, VotingInv, VotingTypes
<1>3. CASE SessionExpire(s, i)
  <2>1. net' \subseteq net
      BY <1>3 DEF SessionExpire, SessionOver
  <2>2. UNCHANGED <<term, votedFor, electionVars, historyVars, co>>
      BY <1>3 DEF SessionExpire, loopVars
  <2>3. state' \in [Server -> {"slave", "condidate", "master"}]
      BY <1>3 DEF SessionExpire, VotingInv, VotingTypes
  <2> QED BY <2>1, <2>2, <2>3, QuietIfNothingSent DEF historyVars
<1> QED BY <1>1, <1>2, <1>3

(* The client handlers, lost messages and refused votes.                   *)
LEMMA ClientQuiet ==
    ASSUME VotingInv, NEW c \in Client, HandleKvs(c)
    PROVE  Quiet /\ UNCHANGED elected
<1>1. /\ UNCHANGED <<term, state, votedFor, electionVars, historyVars, co>>
      /\ net' = net
    BY DEF HandleKvs, ClientAdmitted, ClientRejected, ClientSubmits, ClientResumes,
           serverVars, loopVars
<1> QED BY <1>1, QuietIfNothingSent DEF historyVars, VotingInv, VotingTypes

LEMMA LostQuiet ==
    ASSUME VotingInv, MessageLost \/ \E s \in Server : VoteRefused(s)
    PROVE  Quiet /\ UNCHANGED elected
<1>1. /\ UNCHANGED <<term, state, votedFor, electionVars, historyVars, co>>
      /\ net' \subseteq net
    BY DEF MessageLost, VoteRefused, serverVars, loopVars
<1> QED BY <1>1, QuietIfNothingSent DEF historyVars, VotingInv, VotingTypes

-----------------------------------------------------------------------------
(* The election                                                            *)

(* AddTerm begins an election; s had nothing on its way.                   *)
LEMMA AddTermBegins ==
    ASSUME VotingInv, NEW s \in Server, AddTerm(s)
    PROVE  /\ co' \in [Server -> Coroutines]
           /\ elTerm' \in [Server -> Terms]
           /\ votes' \in [Server -> SUBSET Server]
           /\ term[s] + 1 \in Terms
           /\ co[s] = "elect" /\ co'[s] = "canvass" /\ votes'[s] = {s}
           /\ \A p \in Server \ {s} : AsksOn(p)
<1>1. term[s] + 1 \in Terms
    BY RaftClusterAssumption DEF AddTerm, VotingInv, VotingTypes, Terms
<1>2. "canvass" \in Coroutines
    BY DEF Coroutines
<1>3. /\ co' \in [Server -> Coroutines]
      /\ elTerm' \in [Server -> Terms]
      /\ votes' \in [Server -> SUBSET Server]
    BY <1>1, <1>2 DEF AddTerm, VotingInv, VotingTypes
<1>4. co[s] = "elect" /\ co'[s] = "canvass" /\ votes'[s] = {s}
    BY DEF AddTerm, VotingInv, VotingTypes
<1>5. ASSUME NEW p \in Server \ {s}
      PROVE  AsksOn(p)
    BY DEF AddTerm, AsksOn, VotingInv, VotingTypes
<1> QED BY <1>1, <1>3, <1>4, <1>5

(* No vote is on its way to a server that is not collecting votes.         *)
LEMMA NoVoteComing ==
    ASSUME VotingInv, NoNewVotes, NEW s \in Server, co[s] # "election"
    PROVE  \A m \in net' : m.type = "granted" => m.to # s
BY DEF NoNewVotes, VotingInv, VotesBacked

LEMMA ElectionStartKeeps ==
    ASSUME VotingInv, NEW s \in Server, ElectionStart(s)
    PROVE  VotingInv' /\ UNCHANGED <<granted, elected>>
<1>1. /\ AddTerm(s) /\ term' = [term EXCEPT ![s] = @ + 1]
      /\ UNCHANGED <<state, votedFor, granted, elected, incarnation, net>>
    BY DEF ElectionStart, historyVars
<1>2. VotingTypes'
    BY <1>1, AddTermBegins DEF VotingInv, VotingTypes
<1>3. GrantsRemembered'
  <2>1. ASSUME NEW p \in Server, co'[p] # "down"
        PROVE  Remembers(p)
    <3>1. term[p] \in Int
        BY RaftClusterAssumption DEF VotingInv, VotingTypes, Terms
    <3>2. CASE p = s
        BY <1>1, <3>1, <3>2, AddTermBegins DEF Remembers, VotingInv, VotingTypes
    <3>3. CASE p # s
        BY <1>1, <2>1, <3>1, <3>3 DEF AddTerm, Remembers, VotingInv, VotingTypes
    <3> QED BY <3>2, <3>3
  <2> QED BY <1>1, <1>2, <2>1, MemoryKept DEF VotingTypes
<1>4. VotesBacked'
  <2>1. NoNewVotes
      BY <1>1 DEF NoNewVotes
  <2>2. AsksNothing(s)
      BY <1>1, <2>1, AddTermBegins, NoVoteComing DEF AsksNothing
  <2> QED BY <1>1, <2>1, <2>2, AddTermBegins, BackingKept
<1> QED BY <1>1, <1>2, <1>3, <1>4 DEF VotingInv

(* Steps in an election that leave every server's memory alone.            *)
LEMMA MemoryUntouched ==
    ASSUME VotingInv, NEW s \in Server, NEW to, co' = [co EXCEPT ![s] = to],
           co[s] # "down",
           UNCHANGED <<term, votedFor, granted, incarnation>>
    PROVE  GrantsRemembered'
<1>1. ASSUME NEW p \in Server, co'[p] # "down"
      PROVE  Remembers(p)
  <2>1. term[p] \in Int /\ co[p] # "down"
      BY <1>1, RaftClusterAssumption DEF VotingInv, VotingTypes, Terms
  <2> QED BY <2>1 DEF Remembers
<1> QED BY <1>1, MemoryKept DEF VotingInv, VotingTypes

LEMMA ElectionGivenUpKeeps ==
    ASSUME VotingInv, NEW s \in Server, ElectionGivenUp(s)
    PROVE  VotingInv' /\ UNCHANGED <<granted, elected>>
<1>1. /\ co[s] = "election"
      /\ co' = [co EXCEPT ![s] = "loop"]
      /\ elTerm' = [elTerm EXCEPT ![s] = 0]
      /\ votes' = [votes EXCEPT ![s] = {}]
      /\ net' \subseteq net
      /\ \A m \in net' : m.type = "granted" => m.to # s
      /\ UNCHANGED <<term, state, votedFor, granted, elected, incarnation>>
    BY DEF ElectionGivenUp, Leaves, WithoutVotesFor, serverVars, historyVars
<1>2. 0 \in Terms /\ "loop" \in Coroutines /\ "loop" \notin Asking
    BY RaftClusterAssumption DEF Terms, Coroutines, Asking
<1>3. VotingTypes'
    BY <1>1, <1>2 DEF VotingInv, VotingTypes
<1>4. GrantsRemembered'
    BY <1>1, MemoryUntouched
<1>5. VotesBacked'
  <2>1. NoNewVotes
      BY <1>1 DEF NoNewVotes
  <2>2. AsksNothing(s)
      BY <1>1, <1>2 DEF AsksNothing, VotingInv, VotingTypes
  <2>3. ASSUME NEW p \in Server \ {s}
        PROVE  AsksOn(p)
      BY <1>1 DEF AsksOn, VotingInv, VotingTypes
  <2> QED BY <1>1, <2>1, <2>2, <2>3, BackingKept
<1> QED BY <1>1, <1>3, <1>4, <1>5 DEF VotingInv

LEMMA BecomeLeaderKeeps ==
    ASSUME VotingInv, NEW s \in Server, BecomeLeader(s)
    PROVE  VotingInv'
<1>1. /\ co[s] = "won"
      /\ co' = [co EXCEPT ![s] = "loop"]
      /\ elTerm' = [elTerm EXCEPT ![s] = 0]
      /\ votes' = [votes EXCEPT ![s] = {}]
      /\ state' = [state EXCEPT ![s] = "master"]
      /\ UNCHANGED <<term, votedFor, granted, incarnation, net>>
    BY DEF BecomeLeader, Leaves
<1>2. 0 \in Terms /\ "loop" \in Coroutines /\ "loop" \notin Asking
    BY RaftClusterAssumption DEF Terms, Coroutines, Asking
<1>3. VotingTypes'
    BY <1>1, <1>2 DEF VotingInv, VotingTypes
<1>4. GrantsRemembered'
    BY <1>1, MemoryUntouched
<1>5. VotesBacked'
  <2>1. NoNewVotes
      BY <1>1 DEF NoNewVotes
  <2>2. AsksNothing(s)
      BY <1>1, <1>2, <2>1, NoVoteComing DEF AsksNothing, VotingInv, VotingTypes
  <2>3. ASSUME NEW p \in Server \ {s}
        PROVE  AsksOn(p)
      BY <1>1 DEF AsksOn, VotingInv, VotingTypes
  <2> QED BY <1>1, <2>1, <2>2, <2>3, BackingKept
<1> QED BY <1>3, <1>4, <1>5 DEF VotingInv

(* A vote that is counted was given.                                       *)
LEMMA CountVoteKeeps ==
    ASSUME VotingInv, NEW s \in Server, CountVote(s)
    PROVE  VotingInv' /\ UNCHANGED <<granted, elected>>
<1>1. PICK m \in net :
        /\ m.type = "granted" /\ m.to = s
        /\ co[s] = "election"
        /\ votes' = [votes EXCEPT ![s] = @ \cup {m.from}]
        /\ \/ /\ Cardinality(votes'[s]) >= ElectionQuorum
              /\ co' = [co EXCEPT ![s] = "won"]
              /\ net' = WithoutVotesFor(s, net)
           \/ /\ co' = co
              /\ net' = net \ {m}
    BY DEF CountVote, Leaves, loopVars
<1>2. UNCHANGED <<term, state, votedFor, elTerm, granted, elected, incarnation>>
    BY DEF CountVote, serverVars, historyVars
<1>3. net' \subseteq net
    BY <1>1 DEF WithoutVotesFor
<1>4. m.from \in Server /\ VoteGiven(m.from, elTerm[s], s)
    BY <1>1 DEF VotingInv, VotingTypes, VotesBacked
<1>5. VotingTypes'
  <2>1. "won" \in Coroutines
      BY DEF Coroutines
  <2> QED BY <1>1, <1>2, <1>3, <1>4, <2>1 DEF VotingInv, VotingTypes
<1>6. GrantsRemembered'
  <2>1. CASE co' = co
    <3>1. co' = [co EXCEPT ![s] = "election"]
        BY <1>1, <2>1 DEF VotingInv, VotingTypes
    <3> QED BY <1>1, <1>2, <3>1, MemoryUntouched
  <2>2. CASE co' = [co EXCEPT ![s] = "won"]
      BY <1>1, <1>2, <2>2, MemoryUntouched
  <2> QED BY <1>1, <2>1, <2>2
<1>7. VotesBacked'
  <2>1. ASSUME NEW p \in Server, co'[p] \in Asking, NEW v \in votes'[p] \ {p}
        PROVE  VoteGiven(v, elTerm[p], p)'
    <3>1. co[p] \in Asking
        BY <1>1, <2>1 DEF Asking, VotingInv, VotingTypes
    <3>2. v \in votes[p] \/ (p = s /\ v = m.from)
        BY <1>1, <2>1 DEF VotingInv, VotingTypes
    <3>3. VoteGiven(v, elTerm[p], p)
        BY <1>4, <2>1, <3>1, <3>2 DEF VotingInv, VotesBacked
    <3> QED BY <1>2, <3>3 DEF VoteGiven
  <2>2. ASSUME NEW p \in Server, co'[p] = "won"
        PROVE  Cardinality(votes'[p]) >= ElectionQuorum
    <3>1. CASE p = s
        BY <1>1, <2>2, <3>1 DEF VotingInv, VotingTypes
    <3>2. CASE p # s
        BY <1>1, <2>2, <3>2 DEF VotingInv, VotingTypes, VotesBacked
    <3> QED BY <3>1, <3>2
  <2>3. ASSUME NEW n \in net', n.type = "granted"
        PROVE  co'[n.to] = "election" /\ VoteGiven(n.from, elTerm[n.to], n.to)'
    <3>1. /\ co[n.to] = "election" /\ VoteGiven(n.from, elTerm[n.to], n.to)
          /\ n.to \in Server
        BY <1>3, <2>3 DEF VotingInv, VotingTypes, VotesBacked
    <3>2. co'[n.to] = "election"
        BY <1>1, <2>3, <3>1 DEF WithoutVotesFor, VotingInv, VotingTypes
    <3> QED BY <1>2, <3>1, <3>2 DEF VoteGiven
  <2> QED BY <2>1, <2>2, <2>3 DEF VotesBacked
<1> QED BY <1>2, <1>5, <1>6, <1>7 DEF VotingInv

-----------------------------------------------------------------------------
(* The handlers of replication                                             *)

(* An answer to a replication request is no vote and no request.           *)
LEMMA AnswersAreNoVotes ==
    ASSUME NEW m, NEW len, NEW ack, net' = Answered(m, len, ack)
    PROVE  NewRequestsOnly
<1>1. \A n \in net' : n \in net \/ n.type = "replicated"
    BY DEF Answered
<1> QED BY <1>1 DEF NewRequestsOnly

(* What StoreTerm leaves, whether or not the election adds to Term meanwhile. *)
LEMMA StoreTermEffect ==
    ASSUME VotingInv, NoNewVotes, NEW s \in Server, NEW t \in Terms,
           StoreTerm(s, t) \/ (UNCHANGED <<term, co, elTerm, votes>> /\ t = term[s])
    PROVE  /\ term' = [term EXCEPT ![s] = t]
           /\ co' \in [Server -> Coroutines]
           /\ elTerm' \in [Server -> Terms]
           /\ votes' \in [Server -> SUBSET Server]
           /\ \A p \in Server : co'[p] # "down" => co[p] # "down"
           /\ \A p \in Server : AsksOn(p) \/ AsksNothing(p)
<1>1. term' = [term EXCEPT ![s] = t]
    BY DEF StoreTerm, VotingInv, VotingTypes
<1>2. CASE AddTerm(s)
  <2>1. AsksNothing(s)
      BY <1>2, AddTermBegins, NoVoteComing DEF AsksNothing
  <2>2. \A p \in Server : co'[p] # "down" => co[p] # "down"
      BY <1>2 DEF AddTerm, VotingInv, VotingTypes
  <2> QED BY <1>1, <1>2, <2>1, <2>2, AddTermBegins
<1>3. CASE UNCHANGED <<co, elTerm, votes>>
    BY <1>1, <1>3 DEF AsksOn, VotingInv, VotingTypes
<1> QED BY <1>2, <1>3 DEF StoreTerm

(* A handler that stores a Term no lower keeps the invariant.              *)
LEMMA HandlerKeeps ==
    ASSUME VotingInv, NEW s \in Server, NEW t \in Terms,
           StoreTerm(s, t) \/ (UNCHANGED <<term, co, elTerm, votes>> /\ t = term[s]),
           term[s] <= t, NewRequestsOnly,
           state' \in [Server -> {"slave", "condidate", "master"}],
           UNCHANGED <<votedFor, granted, incarnation>>
    PROVE  VotingInv'
<1>1. NoNewVotes
    BY DEF NewRequestsOnly, NoNewVotes
<1>2. /\ term' = [term EXCEPT ![s] = t]
      /\ co' \in [Server -> Coroutines]
      /\ elTerm' \in [Server -> Terms]
      /\ votes' \in [Server -> SUBSET Server]
      /\ \A p \in Server : co'[p] # "down" => co[p] # "down"
      /\ \A p \in Server : AsksOn(p) \/ AsksNothing(p)
    BY <1>1, StoreTermEffect
<1>3. VotingTypes'
    BY <1>2 DEF VotingInv, VotingTypes, NewRequestsOnly
<1>4. GrantsRemembered'
  <2>1. ASSUME NEW p \in Server, co'[p] # "down"
        PROVE  Remembers(p)
    <3>1. term[p] \in Int
        BY RaftClusterAssumption DEF VotingInv, VotingTypes, Terms
    <3>2. term[p] <= term'[p]
        BY <1>2, <3>1 DEF VotingInv, VotingTypes
    <3> QED BY <1>2, <2>1, <3>2 DEF Remembers
  <2> QED BY <1>3, <2>1, MemoryKept DEF VotingTypes
<1>5. VotesBacked'
    BY <1>1, <1>2, BackingKept
<1> QED BY <1>3, <1>4, <1>5 DEF VotingInv

LEMMA ReplicateDemotesKeeps ==
    ASSUME VotingInv, NEW s \in Server, ReplicateDemotes(s)
    PROVE  VotingInv' /\ UNCHANGED <<granted, elected>>
<1>1. PICK m \in net :
        /\ m.type = "replicate"
        /\ term[s] < m.term \/ term[s] <= m.term
        /\ StoreTerm(s, m.term)
        /\ net' = Progress(m, log[s])
    BY DEF ReplicateDemotes
<1>2. /\ state' = [state EXCEPT ![s] = "slave"]
      /\ UNCHANGED <<votedFor, granted, elected, incarnation>>
    BY DEF ReplicateDemotes, historyVars
<1>3. m.term \in Terms
    BY <1>1 DEF VotingInv, VotingTypes
<1>4. NewRequestsOnly
    BY <1>1, AnswersAreNoVotes DEF Progress
<1>5. state' \in [Server -> {"slave", "condidate", "master"}]
    BY <1>2 DEF VotingInv, VotingTypes
<1>6. term[s] <= m.term
    BY <1>1, <1>3, RaftClusterAssumption DEF VotingInv, VotingTypes, Terms
<1> QED BY <1>1, <1>2, <1>3, <1>4, <1>5, <1>6, HandlerKeeps

LEMMA SlaveReplicatesKeeps ==
    ASSUME VotingInv, NEW s \in Server, SlaveReplicates(s)
    PROVE  VotingInv' /\ UNCHANGED <<granted, elected>>
<1>1. PICK m \in net :
        /\ m.type = "replicate"
        /\ term[s] <= m.term
        /\ IF term[s] < m.term THEN StoreTerm(s, m.term)
             ELSE UNCHANGED <<term, co, elTerm, votes>>
        /\ \E lg : net' = Progress(m, lg)
    BY DEF SlaveReplicates
<1>2. UNCHANGED <<state, votedFor, granted, elected, incarnation>>
    BY DEF SlaveReplicates, historyVars
<1>3. m.term \in Terms
    BY <1>1 DEF VotingInv, VotingTypes
<1>4. NewRequestsOnly
    BY <1>1, AnswersAreNoVotes DEF Progress
<1>5. state' \in [Server -> {"slave", "condidate", "master"}]
    BY <1>2 DEF VotingInv, VotingTypes
<1>6. StoreTerm(s, m.term) \/ (UNCHANGED <<term, co, elTerm, votes>> /\ m.term = term[s])
  <2>1. term[s] \in Int /\ m.term \in Int
      BY <1>3, RaftClusterAssumption DEF VotingInv, VotingTypes, Terms
  <2>2. term[s] < m.term \/ m.term = term[s]
      BY <1>1, <2>1
  <2> QED BY <1>1, <2>1, <2>2
<1> QED BY <1>1, <1>2, <1>3, <1>4, <1>5, <1>6, HandlerKeeps

(* A refusal changes nothing, or falls together with a new election.       *)
LEMMA ReplicateRefusedKeeps ==
    ASSUME VotingInv, NEW s \in Server, ReplicateRefused(s)
    PROVE  VotingInv' /\ UNCHANGED <<granted, elected>>
<1>1. PICK m \in net :
        /\ m.type = "replicate"
        /\ net' = Answered(m, 0, FALSE)
        /\ \/ UNCHANGED <<term, co, elTerm, votes>>
           \/ /\ term[s] < m.term
              /\ co[s] = "elect" /\ m.term <= MaxTerm
              /\ term' = [term EXCEPT ![s] = m.term + 1]
              /\ elTerm' = [elTerm EXCEPT ![s] = m.term + 1]
              /\ votes' = [votes EXCEPT ![s] = {s}]
              /\ co' = [co EXCEPT ![s] = "canvass"]
    BY DEF ReplicateRefused
<1>2. UNCHANGED <<state, votedFor, granted, elected, incarnation>>
    BY DEF ReplicateRefused, historyVars
<1>3. m.term \in Terms
    BY <1>1 DEF VotingInv, VotingTypes
<1>4. NewRequestsOnly
    BY <1>1, AnswersAreNoVotes
<1>5. CASE UNCHANGED <<term, co, elTerm, votes>>
  <2>1. Quiet
      BY <1>2, <1>4, <1>5 DEF Quiet, electionVars, historyVars, VotingInv, VotingTypes
  <2> QED BY <1>2, <2>1, QuietKeeps
<1>6. CASE /\ term[s] < m.term
           /\ co[s] = "elect" /\ m.term <= MaxTerm
           /\ term' = [term EXCEPT ![s] = m.term + 1]
           /\ elTerm' = [elTerm EXCEPT ![s] = m.term + 1]
           /\ votes' = [votes EXCEPT ![s] = {s}]
           /\ co' = [co EXCEPT ![s] = "canvass"]
  <2>1. m.term + 1 \in Terms /\ "canvass" \in Coroutines
      BY <1>3, <1>6, RaftClusterAssumption DEF Terms, Coroutines
  <2>2. VotingTypes'
      BY <1>2, <1>4, <1>6, <2>1 DEF VotingInv, VotingTypes, NewRequestsOnly
  <2>3. GrantsRemembered'
    <3>1. ASSUME NEW p \in Server, co'[p] # "down"
          PROVE  Remembers(p)
      <4>1. term[p] \in Int /\ term[s] \in Int /\ m.term \in Int
          BY <1>3, RaftClusterAssumption DEF VotingInv, VotingTypes, Terms
      <4>2. CASE p = s
          BY <1>6, <4>1, <4>2 DEF Remembers, VotingInv, VotingTypes
      <4>3. CASE p # s
          BY <1>2, <1>6, <3>1, <4>1, <4>3 DEF Remembers, VotingInv, VotingTypes
      <4> QED BY <4>2, <4>3
    <3> QED BY <1>2, <2>2, <3>1, MemoryKept DEF VotingTypes
  <2>4. VotesBacked'
    <3>1. NoNewVotes
        BY <1>4 DEF NoNewVotes, NewRequestsOnly
    <3>2. AsksNothing(s)
        BY <1>6, <3>1, NoVoteComing DEF AsksNothing, VotingInv, VotingTypes
    <3>3. ASSUME NEW p \in Server \ {s}
          PROVE  AsksOn(p)
        BY <1>6 DEF AsksOn, VotingInv, VotingTypes
    <3> QED BY <1>2, <3>1, <3>2, <3>3, BackingKept
  <2> QED BY <1>2, <2>2, <2>3, <2>4 DEF VotingInv
<1> QED BY <1>1, <1>5, <1>6

-----------------------------------------------------------------------------
(* Votes                                                                   *)

(* The step of a voter: what it stores, sends and remembers.               *)
LEMMA VoteGrantedStep ==
    ASSUME VotingInv, NEW s \in Server, VoteGranted(s)
    PROVE  \E m \in net :
               /\ m.from \in Server /\ m.elTerm \in Terms
               /\ co[s] # "down" /\ VoteTermOk(s, m)
               /\ StoreTerm(s, m.elTerm)
               /\ votedFor' = [votedFor EXCEPT ![s] = m.from]
               /\ state' = [state EXCEPT ![s] = "slave"]
               /\ \A n \in net' : n \in net \/
                    /\ n.type = "granted" /\ n.from = s /\ n.to = m.from
                    /\ co[m.from] = "election" /\ elTerm[m.from] = m.elTerm
               /\ granted' = granted \cup {[voter |-> s, inc |-> incarnation[s],
                                            term |-> m.elTerm, cand |-> m.from]}
               /\ UNCHANGED <<elected, incarnation>>
<1>1. PICK m \in net :
        /\ m.type = "vote"
        /\ Serving(s) /\ VoteTermOk(s, m)
        /\ StoreTerm(s, m.elTerm)
        /\ votedFor' = [votedFor EXCEPT ![s] = m.from]
        /\ state' = [state EXCEPT ![s] = "slave"]
        /\ net' = (net \ {m}) \cup
             IF co[m.from] = "election" /\ elTerm[m.from] = m.elTerm
               THEN {[type |-> "granted", from |-> s, to |-> m.from]} ELSE {}
        /\ granted' = granted \cup {[voter |-> s, inc |-> incarnation[s],
                                     term |-> m.elTerm, cand |-> m.from]}
        /\ UNCHANGED <<elected, incarnation>>
    BY DEF VoteGranted
<1>2. m.from \in Server /\ m.elTerm \in Terms
    BY <1>1 DEF VotingInv, VotingTypes
<1>3. co[s] # "down"
    BY <1>1 DEF Serving
<1>4. \A n \in net' : n \in net \/
        /\ n.type = "granted" /\ n.from = s /\ n.to = m.from
        /\ co[m.from] = "election" /\ elTerm[m.from] = m.elTerm
    BY <1>1
<1> QED BY <1>1, <1>2, <1>3, <1>4, Zenon

(* What a voter remembers rules out another vote in the same term.         *)
LEMMA OldVotesAgree ==
    ASSUME VotingInv, NEW s \in Server, co[s] # "down", NEW m,
           m.elTerm \in Terms, VoteTermOk(s, m),
           NEW g \in granted, g.voter = s, g.inc = incarnation[s]
    PROVE  /\ term[s] <= m.elTerm
           /\ g.term <= m.elTerm
           /\ g.term = m.elTerm => g.cand = m.from
<1>1. /\ g.term <= term[s]
      /\ g.term = term[s] => votedFor[s] = g.cand
    BY DEF VotingInv, GrantsRemembered
<1>2. term[s] \in Int /\ m.elTerm \in Int /\ g.term \in Int
    BY RaftClusterAssumption DEF VotingInv, VotingTypes, Terms
<1>3. CASE m.elTerm > term[s]
    BY <1>1, <1>2, <1>3
<1>4. CASE m.elTerm = term[s] /\ votedFor[s] = m.from
    BY <1>1, <1>2, <1>4
<1> QED BY <1>3, <1>4 DEF VoteTermOk

LEMMA VoteGrantedKeeps ==
    ASSUME VotingInv, NEW s \in Server, VoteGranted(s)
    PROVE  VotingInv'
<1>1. PICK m \in net :
        /\ m.from \in Server /\ m.elTerm \in Terms
        /\ co[s] # "down" /\ VoteTermOk(s, m)
        /\ StoreTerm(s, m.elTerm)
        /\ votedFor' = [votedFor EXCEPT ![s] = m.from]
        /\ state' = [state EXCEPT ![s] = "slave"]
        /\ \A n \in net' : n \in net \/
             /\ n.type = "granted" /\ n.from = s /\ n.to = m.from
             /\ co[m.from] = "election" /\ elTerm[m.from] = m.elTerm
        /\ granted' = granted \cup {[voter |-> s, inc |-> incarnation[s],
                                     term |-> m.elTerm, cand |-> m.from]}
        /\ UNCHANGED <<elected, incarnation>>
    BY VoteGrantedStep
<1> DEFINE vote == [voter |-> s, inc |-> incarnation[s],
                    term |-> m.elTerm, cand |-> m.from]
<1>2. /\ term' = [term EXCEPT ![s] = m.elTerm]
      /\ co' \in [Server -> Coroutines]
      /\ elTerm' \in [Server -> Terms]
      /\ votes' \in [Server -> SUBSET Server]
    BY <1>1, AddTermBegins DEF StoreTerm, VotingInv, VotingTypes
<1>3. ASSUME NEW p \in Server
      PROVE  /\ co'[p] # "down" => co[p] # "down"
             /\ \/ AsksOn(p) /\ co'[p] = co[p]
                \/ co[p] = "elect" /\ co'[p] = "canvass" /\ votes'[p] = {p}
  <2>1. CASE AddTerm(s)
      BY <2>1 DEF AddTerm, AsksOn, VotingInv, VotingTypes
  <2>2. CASE UNCHANGED <<co, elTerm, votes>>
      BY <2>2 DEF AsksOn
  <2> QED BY <1>1, <2>1, <2>2 DEF StoreTerm
<1>4. VotingTypes'
  <2>1. vote \in [voter : Server, inc : 0..MaxRestarts, term : Terms, cand : Server]
      BY <1>1 DEF VotingInv, VotingTypes
  <2>2. granted' \subseteq [voter : Server, inc : 0..MaxRestarts, term : Terms, cand : Server]
      BY <1>1, <2>1 DEF VotingInv, VotingTypes
  <2>3. /\ votedFor' \in [Server -> Server \cup {Nil}]
        /\ term' \in [Server -> Terms]
        /\ state' \in [Server -> {"slave", "condidate", "master"}]
        /\ incarnation' \in [Server -> 0..MaxRestarts]
      BY <1>1, <1>2 DEF VotingInv, VotingTypes
  <2>4. \A n \in net' :
          /\ n.type = "vote" => n.from \in Server /\ n.elTerm \in Terms
          /\ n.type = "replicate" => n.term \in Terms
          /\ n.type = "granted" => n.from \in Server /\ n.to \in Server
      BY <1>1 DEF VotingInv, VotingTypes
  <2> QED BY <1>2, <2>2, <2>3, <2>4 DEF VotingTypes
<1>5. GrantsRemembered'
  <2> SUFFICES ASSUME NEW g \in granted'
               PROVE  /\ g.inc <= incarnation[g.voter]
                      /\ g.inc = incarnation[g.voter] /\ co'[g.voter] # "down" =>
                             /\ g.term <= term'[g.voter]
                             /\ g.term = term'[g.voter] => votedFor'[g.voter] = g.cand
      BY <1>1 DEF GrantsRemembered
  <2>1. CASE g = vote
    <3>1. incarnation[s] \in Int /\ m.elTerm \in Int
        BY <1>1, RaftClusterAssumption DEF VotingInv, VotingTypes, Terms
    <3>2. term'[s] = m.elTerm /\ votedFor'[s] = m.from
        BY <1>1, <1>2 DEF VotingInv, VotingTypes
    <3>3. g.voter = s /\ g.inc = incarnation[s] /\ g.term = m.elTerm /\ g.cand = m.from
        BY <2>1
    <3> QED BY <3>1, <3>2, <3>3
  <2>2. CASE g \in granted
    <3>1. g.voter \in Server /\ g.inc <= incarnation[g.voter]
        BY <2>2 DEF VotingInv, VotingTypes, GrantsRemembered
    <3>2. ASSUME g.inc = incarnation[g.voter], co'[g.voter] # "down"
          PROVE  /\ g.term <= term'[g.voter]
                 /\ g.term = term'[g.voter] => votedFor'[g.voter] = g.cand
      <4>1. CASE g.voter = s
        <5>1. term'[s] = m.elTerm /\ votedFor'[s] = m.from
            BY <1>1, <1>2 DEF VotingInv, VotingTypes
        <5>2. g.term <= m.elTerm /\ (g.term = m.elTerm => g.cand = m.from)
            BY <1>1, <2>2, <3>2, <4>1, OldVotesAgree
        <5> QED BY <4>1, <5>1, <5>2
      <4>2. CASE g.voter # s
        <5>1. term'[g.voter] = term[g.voter] /\ votedFor'[g.voter] = votedFor[g.voter]
            BY <1>1, <1>2, <3>1, <4>2 DEF VotingInv, VotingTypes
        <5>2. co[g.voter] # "down"
            BY <1>3, <3>1, <3>2
        <5> QED BY <2>2, <3>2, <5>1, <5>2 DEF VotingInv, GrantsRemembered
      <4> QED BY <4>1, <4>2
    <3> QED BY <3>1, <3>2
  <2> QED BY <1>1, <2>1, <2>2
<1>6. VotesBacked'
  <2>1. ASSUME NEW v, NEW t, NEW c, VoteGiven(v, t, c)
        PROVE  VoteGiven(v, t, c)'
      BY <1>1, <2>1 DEF VoteGiven
  <2>2. VoteGiven(s, m.elTerm, m.from)'
    <3>1. vote \in granted' /\ vote.voter = s /\ vote.term = m.elTerm /\ vote.cand = m.from
        BY <1>1
    <3> QED BY <3>1 DEF VoteGiven
  <2>3. ASSUME NEW p \in Server, co'[p] \in Asking, NEW v \in votes'[p] \ {p}
        PROVE  VoteGiven(v, elTerm[p], p)'
    <3>1. co[p] \in Asking /\ v \in votes[p] \ {p} /\ elTerm'[p] = elTerm[p]
        BY <1>3, <2>3 DEF AsksOn
    <3>2. VoteGiven(v, elTerm[p], p)
        BY <2>3, <3>1 DEF VotingInv, VotesBacked
    <3> QED BY <2>1, <3>1, <3>2 DEF VoteGiven
  <2>4. ASSUME NEW p \in Server, co'[p] = "won"
        PROVE  Cardinality(votes'[p]) >= ElectionQuorum
    <3>1. co[p] = "won" /\ votes'[p] = votes[p]
        BY <1>3, <2>4 DEF AsksOn
    <3> QED BY <3>1 DEF VotingInv, VotesBacked
  <2>5. ASSUME NEW n \in net', n.type = "granted"
        PROVE  co'[n.to] = "election" /\ VoteGiven(n.from, elTerm[n.to], n.to)'
    <3>1. CASE n \in net
      <4>1. /\ n.to \in Server /\ co[n.to] = "election"
            /\ VoteGiven(n.from, elTerm[n.to], n.to)
          BY <2>5, <3>1 DEF VotingInv, VotingTypes, VotesBacked
      <4>2. co'[n.to] = "election" /\ elTerm'[n.to] = elTerm[n.to]
          BY <1>3, <4>1 DEF AsksOn
      <4> QED BY <2>1, <4>1, <4>2 DEF VoteGiven
    <3>2. CASE n \notin net
      <4>1. /\ n.from = s /\ n.to = m.from
            /\ co[m.from] = "election" /\ elTerm[m.from] = m.elTerm
          BY <1>1, <3>2
      <4>2. co'[m.from] = "election" /\ elTerm'[m.from] = m.elTerm
          BY <1>1, <1>3, <4>1 DEF AsksOn
      <4> QED BY <2>2, <4>1, <4>2 DEF VoteGiven
    <3> QED BY <3>1, <3>2
  <2> QED BY <2>3, <2>4, <2>5 DEF VotesBacked
<1> QED BY <1>4, <1>5, <1>6 DEF VotingInv

-----------------------------------------------------------------------------
(* Failures                                                                *)

(* A server that ends is no condidate, and nothing is known of its votes.  *)
LEMMA DiesKeeps ==
    ASSUME VotingInv, NEW s \in Server, NEW msgs \in SUBSET net, Dies(s, msgs),
           UNCHANGED <<granted, incarnation>>
    PROVE  VotingInv'
<1>1. /\ term' = [term EXCEPT ![s] = 0]
      /\ state' = [state EXCEPT ![s] = "slave"]
      /\ votedFor' = [votedFor EXCEPT ![s] = Nil]
      /\ co' = [co EXCEPT ![s] = "down"]
      /\ elTerm' = [elTerm EXCEPT ![s] = 0]
      /\ votes' = [votes EXCEPT ![s] = {}]
      /\ net' \subseteq net
      /\ \A m \in net' : m.type = "granted" => m.to # s
    BY DEF Dies
<1>2. 0 \in Terms /\ "down" \in Coroutines /\ "down" \notin Asking
    BY RaftClusterAssumption DEF Terms, Coroutines, Asking
<1>3. VotingTypes'
    BY <1>1, <1>2 DEF VotingInv, VotingTypes
<1>4. GrantsRemembered'
  <2>1. ASSUME NEW p \in Server, co'[p] # "down"
        PROVE  Remembers(p)
    <3>1. p # s
        BY <1>1, <2>1 DEF VotingInv, VotingTypes
    <3>2. term[p] \in Int
        BY RaftClusterAssumption DEF VotingInv, VotingTypes, Terms
    <3> QED BY <1>1, <2>1, <3>1, <3>2 DEF Remembers, VotingInv, VotingTypes
  <2> QED BY <1>3, <2>1, MemoryKept DEF VotingTypes
<1>5. VotesBacked'
  <2>1. NoNewVotes
      BY <1>1 DEF NoNewVotes
  <2>2. AsksNothing(s)
      BY <1>1, <1>2 DEF AsksNothing, VotingInv, VotingTypes
  <2>3. ASSUME NEW p \in Server \ {s}
        PROVE  AsksOn(p)
      BY <1>1 DEF AsksOn, VotingInv, VotingTypes
  <2> QED BY <2>1, <2>2, <2>3, BackingKept
<1> QED BY <1>3, <1>4, <1>5 DEF VotingInv

LEMMA FailureKeeps ==
    ASSUME VotingInv, NEW s \in Server, SlaveFatal(s) \/ Crash(s)
    PROVE  VotingInv' /\ UNCHANGED <<granted, elected>>
<1>1. CASE SlaveFatal(s)
  <2>1. PICK m \in net : Dies(s, net \ {m})
      BY <1>1 DEF SlaveFatal
  <2>2. UNCHANGED <<granted, elected, incarnation>>
      BY <1>1 DEF SlaveFatal, historyVars
  <2> QED BY <2>1, <2>2, DiesKeeps
<1>2. CASE Crash(s)
  <2>1. Dies(s, net) /\ UNCHANGED <<granted, elected, incarnation>>
      BY <1>2 DEF Crash, historyVars
  <2> QED BY <2>1, DiesKeeps
<1> QED BY <1>1, <1>2

(* A new life has given no votes yet.                                      *)
LEMMA RestartKeeps ==
    ASSUME VotingInv, NEW s \in Server, Restart(s)
    PROVE  VotingInv' /\ UNCHANGED <<granted, elected>>
<1>1. /\ co[s] = "down" /\ incarnation[s] < MaxRestarts
      /\ co' = [co EXCEPT ![s] = "loop"]
      /\ incarnation' = [incarnation EXCEPT ![s] = @ + 1]
      /\ UNCHANGED <<term, state, votedFor, elTerm, votes, net, granted, elected>>
    BY DEF Restart, serverVars, electionVars
<1>2. "loop" \in Coroutines /\ "loop" \notin Asking
    BY DEF Coroutines, Asking
<1>3. incarnation[s] + 1 \in 0..MaxRestarts
    BY <1>1, RaftClusterAssumption DEF VotingInv, VotingTypes
<1>4. VotingTypes'
    BY <1>1, <1>2, <1>3 DEF VotingInv, VotingTypes
<1>5. GrantsRemembered'
  <2> SUFFICES ASSUME NEW g \in granted
               PROVE  /\ g.inc <= incarnation'[g.voter]
                      /\ g.inc = incarnation'[g.voter] /\ co'[g.voter] # "down" =>
                             /\ g.term <= term[g.voter]
                             /\ g.term = term[g.voter] => votedFor[g.voter] = g.cand
      BY <1>1 DEF GrantsRemembered
  <2>1. g.voter \in Server /\ g.inc \in Int /\ incarnation[g.voter] \in Int
      BY RaftClusterAssumption DEF VotingInv, VotingTypes
  <2>2. g.inc <= incarnation[g.voter]
      BY DEF VotingInv, GrantsRemembered
  <2>3. CASE g.voter = s
    <3>1. incarnation'[s] = incarnation[s] + 1
        BY <1>1 DEF VotingInv, VotingTypes
    <3>2. g.inc < incarnation'[g.voter]
        BY <2>1, <2>2, <2>3, <3>1
    <3> QED BY <2>1, <2>3, <3>1, <3>2
  <2>4. CASE g.voter # s
    <3>1. incarnation'[g.voter] = incarnation[g.voter] /\ co'[g.voter] = co[g.voter]
        BY <1>1, <2>1, <2>4 DEF VotingInv, VotingTypes
    <3> QED BY <3>1 DEF VotingInv, GrantsRemembered
  <2> QED BY <2>3, <2>4
<1>6. VotesBacked'
  <2>1. NoNewVotes
      BY <1>1 DEF NoNewVotes
  <2>2. AsksNothing(s)
      BY <1>1, <1>2, <2>1, NoVoteComing DEF AsksNothing, VotingInv, VotingTypes
  <2>3. ASSUME NEW p \in Server \ {s}
        PROVE  AsksOn(p)
      BY <1>1 DEF AsksOn, VotingInv, VotingTypes
  <2> QED BY <1>1, <2>1, <2>2, <2>3, BackingKept
<1> QED BY <1>1, <1>4, <1>5, <1>6 DEF VotingInv

-----------------------------------------------------------------------------
(* The invariant, and the steps of Ballots.                                *)

LEMMA InitVotingInv == Init => VotingInv
<1> SUFFICES ASSUME Init
             PROVE  VotingInv
    OBVIOUS
<1>1. 0 \in Terms /\ 0 \in 0..MaxRestarts /\ "loop" \in Coroutines /\ "loop" \notin Asking
    BY RaftClusterAssumption DEF Terms, Coroutines, Asking
<1>2. VotingTypes
    BY <1>1 DEF Init, VotingTypes
<1>3. GrantsRemembered
    BY DEF Init, GrantsRemembered
<1>4. VotesBacked
    BY <1>1 DEF Init, VotesBacked, Asking
<1> QED BY <1>2, <1>3, <1>4 DEF VotingInv

(* The steps that vote or win.                                             *)
VotingStep == \E s \in Server : BecomeLeader(s) \/ VoteGranted(s)

(* Every step keeps the invariant, and only voting steps touch the votes   *)
(* given and the elections won.                                            *)
LEMMA NextVotingInv ==
    ASSUME VotingInv, [Next]_vars
    PROVE  /\ VotingInv'
           /\ VotingStep \/ UNCHANGED <<granted, elected>>
<1>1. CASE UNCHANGED vars
  <2>1. Quiet
      BY <1>1, QuietIfNothingSent
         DEF vars, serverVars, storeVars, peerVars, loopVars, electionVars, historyVars,
             VotingInv, VotingTypes
  <2>2. UNCHANGED <<granted, elected>>
      BY <1>1 DEF vars, historyVars
  <2> QED BY <2>1, <2>2, QuietKeeps
<1>2. ASSUME NEW c \in Client, HandleKvs(c)
      PROVE  VotingInv' /\ UNCHANGED <<granted, elected>>
    BY <1>2, ClientQuiet, QuietKeeps DEF Quiet, historyVars
<1>3. CASE MessageLost
    BY <1>3, LostQuiet, QuietKeeps DEF Quiet, historyVars
<1>4. ASSUME NEW s \in Server, Coroutine(s)
      PROVE  VotingInv' /\ (VotingStep \/ UNCHANGED <<granted, elected>>)
  <2>1. CASE \/ LoopIteration(s) \/ SpawnFlushed(s)
             \/ ConsumerExpire(s) \/ ConsumerCancelled(s)
             \/ ProducerTick(s) \/ ProducerCancelled(s)
      BY <2>1, LoopQuiet, QuietKeeps DEF Quiet, historyVars
  <2>2. CASE Canvass(s)
      BY <2>2, CanvassQuiet, QuietKeeps DEF Quiet, historyVars
  <2>3. ASSUME NEW i \in Slot,
               SessionStart(s, i) \/ SessionReceive(s, i) \/ SessionExpire(s, i)
        PROVE  VotingInv' /\ UNCHANGED <<granted, elected>>
      BY <2>3, SessionQuiet, QuietKeeps DEF Quiet, historyVars
  <2>4. CASE ElectionStart(s)
      BY <2>4, ElectionStartKeeps
  <2>5. CASE CountVote(s)
      BY <2>5, CountVoteKeeps
  <2>6. CASE ElectionGivenUp(s)
      BY <2>6, ElectionGivenUpKeeps
  <2>7. CASE BecomeLeader(s)
      BY <2>7, BecomeLeaderKeeps DEF VotingStep
  <2> QED BY <1>4, <2>1, <2>2, <2>3, <2>4, <2>5, <2>6, <2>7 DEF Coroutine
<1>5. ASSUME NEW s \in Server, Handler(s)
      PROVE  VotingInv' /\ (VotingStep \/ UNCHANGED <<granted, elected>>)
  <2>1. CASE ReplicateRefused(s)
      BY <2>1, ReplicateRefusedKeeps
  <2>2. CASE ReplicateDemotes(s)
      BY <2>2, ReplicateDemotesKeeps
  <2>3. CASE SlaveReplicates(s)
      BY <2>3, SlaveReplicatesKeeps
  <2>4. CASE SlaveFatal(s)
      BY <2>4, FailureKeeps
  <2>5. CASE VoteGranted(s)
      BY <2>5, VoteGrantedKeeps DEF VotingStep
  <2>6. CASE VoteRefused(s)
      BY <2>6, LostQuiet, QuietKeeps DEF Quiet, historyVars
  <2> QED BY <1>5, <2>1, <2>2, <2>3, <2>4, <2>5, <2>6 DEF Handler
<1>6. ASSUME NEW s \in Server, Crash(s) \/ Restart(s)
      PROVE  VotingInv' /\ UNCHANGED <<granted, elected>>
    BY <1>6, FailureKeeps, RestartKeeps
<1> QED BY <1>1, <1>2, <1>3, <1>4, <1>5, <1>6 DEF Next

(* A running voter's new vote is a vote of Ballots.                        *)
LEMMA VoteGrantedIsVote ==
    ASSUME VotingInv, NEW s \in Server, VoteGranted(s)
    PROVE  Voting!Next
<1>1. PICK m \in net :
        /\ m.from \in Server /\ m.elTerm \in Terms
        /\ co[s] # "down" /\ VoteTermOk(s, m)
        /\ granted' = granted \cup {[voter |-> s, inc |-> incarnation[s],
                                     term |-> m.elTerm, cand |-> m.from]}
        /\ UNCHANGED elected
    BY VoteGrantedStep
<1>2. \A g \in granted : g.voter = s /\ g.inc = incarnation[s] =>
          g.term <= m.elTerm /\ (g.term = m.elTerm => g.cand = m.from)
    BY <1>1, OldVotesAgree
<1>3. Voting!Vote(s, incarnation[s], m.elTerm, m.from)
    BY <1>1, <1>2 DEF Voting!Vote
<1>4. incarnation[s] \in 0..MaxRestarts
    BY DEF VotingInv, VotingTypes
<1> QED BY <1>1, <1>3, <1>4 DEF Voting!Next

(* A new master is a winner of Ballots.                                    *)
LEMMA BecomeLeaderIsWin ==
    ASSUME VotingInv, NEW s \in Server, BecomeLeader(s)
    PROVE  Voting!Next
<1>1. /\ co[s] = "won"
      /\ elected' = elected \cup {[cand |-> s, term |-> elTerm[s], votes |-> votes[s]]}
      /\ UNCHANGED granted
    BY DEF BecomeLeader
<1>2. votes[s] \in ElectionQuorums /\ elTerm[s] \in Terms
    BY <1>1 DEF ElectionQuorums, VotingInv, VotingTypes, VotesBacked
<1>3. \A v \in votes[s] \ {s} :
          \E g \in granted : g.voter = v /\ g.term = elTerm[s] /\ g.cand = s
    BY <1>1 DEF VotingInv, VotesBacked, VoteGiven, Asking
<1>4. Voting!Win(s, elTerm[s], votes[s])
    BY <1>1, <1>2, <1>3 DEF Voting!Win
<1> QED BY <1>2, <1>4 DEF Voting!Next

-----------------------------------------------------------------------------
LEMMA SpecVotingInv == Spec => []VotingInv
BY InitVotingInv, NextVotingInv, PTL DEF Spec

(* Voting in the cluster implements Ballots: whatever coroutines, handlers *)
(* and late messages do to Term, State and VotedFor (raftapi.go:315-338,   *)
(* middleware.go:229-268), for any number of servers, terms and restarts.  *)
THEOREM VotingRefinesBallots == Spec => ImplementsBallots
<1>1. Init => Voting!Init
    BY DEF Init, Voting!Init
<1>2. VotingInv /\ [Next]_vars => [Voting!Next]_(Voting!vars)
  <2> SUFFICES ASSUME VotingInv, [Next]_vars
               PROVE  [Voting!Next]_(Voting!vars)
      OBVIOUS
  <2>1. CASE VotingStep
      BY <2>1, VoteGrantedIsVote, BecomeLeaderIsWin DEF VotingStep
  <2>2. CASE UNCHANGED <<granted, elected>>
      BY <2>2 DEF Voting!vars
  <2> QED BY <2>1, <2>2, NextVotingInv
<1> QED BY <1>1, <1>2, SpecVotingInv, PTL DEF Spec, ImplementsBallots, Voting!Spec

-----------------------------------------------------------------------------
(* What the steps of Ballots keep, whatever the cluster does to take them:  *)
(* the votes of one process, and the votes a winner counted.                *)
BallotsInv == Voting!OneVotePerTerm /\ Voting!WinnersVoted

LEMMA InitBallotsInv == Voting!Init => BallotsInv
BY DEF Voting!Init, BallotsInv, Voting!OneVotePerTerm, Voting!WinnersVoted

LEMMA NextBallotsInv == BallotsInv /\ [Voting!Next]_(Voting!vars) => BallotsInv'
<1> SUFFICES ASSUME BallotsInv, [Voting!Next]_(Voting!vars)
             PROVE  BallotsInv'
    OBVIOUS
<1>1. ASSUME NEW v \in Server, NEW i \in 0..MaxRestarts, NEW t \in Terms, NEW c \in Server,
             Voting!Vote(v, i, t, c)
      PROVE  BallotsInv'
  <2> DEFINE new == [voter |-> v, inc |-> i, term |-> t, cand |-> c]
  <2>1. granted' = granted \cup {new} /\ elected' = elected
      BY <1>1 DEF Voting!Vote
  <2>2. Voting!OneVotePerTerm'
    <3> SUFFICES ASSUME NEW g \in granted', NEW h \in granted',
                        g.voter = h.voter, g.inc = h.inc, g.term = h.term
                 PROVE  g.cand = h.cand
        BY DEF Voting!OneVotePerTerm
    <3>1. ASSUME NEW o \in granted, o.voter = v, o.inc = i, o.term = t
          PROVE  o.cand = c
        BY <1>1, <3>1 DEF Voting!Vote
    <3>2. CASE g \in granted /\ h \in granted
        BY <3>2 DEF BallotsInv, Voting!OneVotePerTerm
    <3>3. CASE g = new /\ h \in granted
        BY <3>1, <3>3
    <3>4. CASE h = new /\ g \in granted
        BY <3>1, <3>4
    <3> QED BY <2>1, <3>2, <3>3, <3>4
  <2>3. Voting!WinnersVoted'
      BY <2>1 DEF BallotsInv, Voting!WinnersVoted
  <2> QED BY <2>2, <2>3 DEF BallotsInv
<1>2. ASSUME NEW c \in Server, NEW t \in Terms, NEW V \in ElectionQuorums, Voting!Win(c, t, V)
      PROVE  BallotsInv'
  <2>1. granted' = granted
      BY <1>2 DEF Voting!Win
  <2>2. Voting!WinnersVoted'
      BY <1>2 DEF BallotsInv, Voting!WinnersVoted, Voting!Win
  <2> QED BY <2>1, <2>2 DEF BallotsInv, Voting!OneVotePerTerm
<1>3. ASSUME UNCHANGED (Voting!vars)
      PROVE  BallotsInv'
    BY <1>3 DEF Voting!vars, BallotsInv, Voting!OneVotePerTerm, Voting!WinnersVoted
<1> QED BY <1>1, <1>2, <1>3 DEF Voting!Next

LEMMA SpecBallotsInv == Spec => []BallotsInv
BY InitBallotsInv, NextBallotsInv, VotingRefinesBallots, PTL
   DEF ImplementsBallots, Voting!Spec

(* A process gives one vote per term, whatever its handlers, coroutines and *)
(* late requests do to Term and VotedFor (raftapi.go:321-336).              *)
THEOREM VotesOnce == Spec => []Voting!OneVotePerTerm
<1>1. BallotsInv => Voting!OneVotePerTerm
    BY DEF BallotsInv
<1> QED BY SpecBallotsInv, <1>1, PTL

(* Two sets of voters that win an election share one, as the servers are   *)
(* odd in number.                                                          *)
LEMMA ElectionQuorumsMeet == \A V, W \in ElectionQuorums : V \cap W # {}
<1> SUFFICES ASSUME NEW V \in ElectionQuorums, NEW W \in ElectionQuorums
             PROVE  V \cap W # {}
    OBVIOUS
<1>1. V \subseteq Server /\ W \subseteq Server
    BY DEF ElectionQuorums
<1>2. IsFiniteSet(V) /\ IsFiniteSet(W) /\ IsFiniteSet(Server)
    BY <1>1, RaftClusterAssumption, FS_Subset
<1>3. Cardinality(V) \in Nat /\ Cardinality(W) \in Nat /\ Cardinality(Server) \in Nat
    BY <1>2, FS_CardinalityType
<1>4. Cardinality(V) >= ElectionQuorum /\ Cardinality(W) >= ElectionQuorum
    BY DEF ElectionQuorums
<1>5. Cardinality(V) + Cardinality(W) > Cardinality(Server)
    BY <1>3, <1>4, RaftClusterAssumption DEF ElectionQuorum
<1> QED BY <1>1, <1>2, <1>5, FS_MajoritiesIntersect

(* Two masters of one term mean that one voted for the other while it had  *)
(* counted its own vote, or that a voter forgot its vote in a restart      *)
(* (middleware.go:240-241, raftapi.go:321-336): nothing else in the        *)
(* cluster, and no number of servers, brings them about.                   *)
THEOREM RivalsOfCluster == Spec => []RivalWinners
<1>1. BallotsInv => RivalWinners
  <2> SUFFICES ASSUME BallotsInv, NEW e \in elected, NEW f \in elected,
                      e.term = f.term, e.cand # f.cand,
                      e.cand \notin f.votes, f.cand \notin e.votes
               PROVE  \E g, h \in granted :
                          /\ g.voter = h.voter /\ g.term = e.term /\ h.term = e.term
                          /\ g.inc # h.inc
      BY DEF RivalWinners, Voting!RivalWinners
  <2>1. e.votes \in ElectionQuorums /\ f.votes \in ElectionQuorums
      BY DEF BallotsInv, Voting!WinnersVoted
  <2>2. PICK v \in e.votes : v \in f.votes
      BY <2>1, ElectionQuorumsMeet
  <2>3. v # e.cand /\ v # f.cand
      BY <2>2
  <2>4. PICK g \in granted : g.voter = v /\ g.term = e.term /\ g.cand = e.cand
      BY <2>3 DEF BallotsInv, Voting!WinnersVoted
  <2>5. PICK h \in granted : h.voter = v /\ h.term = f.term /\ h.cand = f.cand
      BY <2>2, <2>3 DEF BallotsInv, Voting!WinnersVoted
  <2>6. g.inc # h.inc
      BY <2>4, <2>5 DEF BallotsInv, Voting!OneVotePerTerm
  <2> QED BY <2>4, <2>5, <2>6
<1> QED BY SpecBallotsInv, <1>1, PTL

-----------------------------------------------------------------------------
(* Replication *)

(* The entries of a term some server has been in.                          *)
TermEntry == {e \in Entry : e.term \in Terms}

(* What the log of a process always is: typed, numbered without gaps, its  *)
(* entries of terms some server has been in.                               *)
GoodLog(lg) ==
    /\ lg \in Log
    /\ WellNumbered(Content(lg))
    /\ \A i \in 1..Len(Content(lg)) : Content(lg)[i].term \in Terms

(* File g starts with the lines of f.                                      *)
FileExtends(f, g) ==
    \A i \in 1..Len(f) : i <= Len(g) /\ g[i] = f[i]

(* Every log is good, and the last_entry of a running process is the last  *)
(* line of its file.                                                       *)
LogsGood ==
    /\ log \in [Server -> Log]
    /\ \A s \in Server : GoodLog(log[s]) /\ (co[s] # "down" => LastIsCached(log[s]))

(* Sessions are typed, and a process that has ended has none.              *)
SessionsTyped ==
    /\ session \in [Server -> [Slot ->
           [st : {"free", "spawned", "open", "over"}, first : BOOLEAN, nr : Nat, upd : BOOLEAN]]]
    /\ \A s \in Server : co[s] = "down" => \A i \in Slot : session[s][i].st = "free"

(* Requests carry entries that belong in a log, answers lengths.           *)
MessagesGood ==
    \A m \in net :
        /\ m.type = "replicate" /\ m.mean # "heartbeat" => m.entry \in TermEntry
        /\ m.type = "replicated" => m.from \in Server /\ m.len \in Nat

(* SentLen and CommitLen are maps from peers to lengths.                   *)
PeersTyped ==
    /\ DOMAIN sentLen = Server /\ DOMAIN commitLen = Server
    /\ \A s \in Server : IsPeerLengths(sentLen[s]) /\ IsPeerLengths(commitLen[s])

(* The handler of the request runs.                                        *)
InHandler(r) == r.st \in {"admitted", "waiting", "woken"}

(* What a handler of a client request can be.                              *)
Handlers ==
    [st : {"idle", "admitted", "waiting", "woken", "acked", "rejected", "failed", "lost"},
     node : Server \cup {Nil}, need : Nat]

(* Server s has won an election.                                           *)
Winner(s) == \E e \in elected : e.cand = s

(* Only servers that have won an election have clients' requests to        *)
(* handle.                                                                 *)
ClientInv ==
    /\ client \in [Client -> Handlers]
    /\ \A c \in Client : InHandler(client[c]) => client[c].node \in Server /\ Winner(client[c].node)
    /\ \A s \in Server : state[s] = "master" => Winner(s)

(* What replication needs: logs, sessions, messages and peer lengths.      *)
LogInv == LogsGood /\ SessionsTyped /\ MessagesGood /\ PeersTyped

-----------------------------------------------------------------------------
(* What the methods of the logger do to a good log.                        *)

(* LogOp adds to what is pending.                                          *)
LEMMA GoodLogOp ==
    ASSUME NEW lg, GoodLog(lg), LastIsCached(lg), NEW e \in TermEntry
    PROVE  /\ GoodLog(LogOp(lg, e)) /\ LastIsCached(LogOp(lg, e))
           /\ LogOp(lg, e).file = lg.file
<1> DEFINE c == Content(lg)
           n == Numbered(lg, e)
<1>1. lg \in Log /\ e \in Entry /\ e.term \in Terms /\ WellNumbered(c)
    BY DEF GoodLog, TermEntry
<1>2. /\ LogOp(lg, e) \in Log
      /\ LastIsCached(LogOp(lg, e))
      /\ WellNumbered(Content(LogOp(lg, e)))
      /\ Content(LogOp(lg, e)) = Append(c, n)
      /\ LogOp(lg, e).file = lg.file
    BY <1>1, LogOpShape
<1>3. n.term = e.term
    BY DEF Numbered, Following, First, Renumbered
<1>4. c \in Seq(Entry) /\ \A i \in 1..Len(c) : c[i].term \in Terms
    BY <1>1, ContentIndices DEF GoodLog
<1> HIDE DEF c, n
<1>5. \A i \in 1..Len(Append(c, n)) : Append(c, n)[i].term \in Terms
  <2> TAKE i \in 1..Len(Append(c, n))
  <2>1. CASE i \in 1..Len(c)
      BY <1>4, <2>1
  <2>2. CASE i = Len(c) + 1
      BY <1>1, <1>3, <1>4, <2>2
  <2> QED BY <1>4, <2>1, <2>2
<1> QED BY <1>2, <1>5 DEF GoodLog

(* LogCommit adds to the file, or does nothing.                            *)
LEMMA GoodLogCommit ==
    ASSUME NEW lg, GoodLog(lg), LastIsCached(lg)
    PROVE  /\ GoodLog(LogCommit(lg)) /\ LastIsCached(LogCommit(lg))
           /\ FileExtends(lg.file, LogCommit(lg).file)
<1>1. lg \in Log /\ WellNumbered(Content(lg))
    BY DEF GoodLog
<1>2. /\ LogCommit(lg) \in Log
      /\ LastIsCached(LogCommit(lg))
      /\ Content(LogCommit(lg)) = Content(lg)
      /\ Len(lg.file) <= Len(LogCommit(lg).file)
    BY <1>1, LogCommitShape
<1>3. \A i \in 1..Len(lg.file) : Content(lg)[i] = lg.file[i]
    BY <1>1, FileIsPrefix
<1>4. \A i \in 1..Len(LogCommit(lg).file) : Content(lg)[i] = LogCommit(lg).file[i]
    BY <1>2, FileIsPrefix
<1>5. Len(lg.file) \in Nat /\ Len(LogCommit(lg).file) \in Nat
    BY <1>1, <1>2 DEF Log
<1>6. FileExtends(lg.file, LogCommit(lg).file)
    BY <1>2, <1>3, <1>4, <1>5 DEF FileExtends
<1> QED BY <1>2, <1>6 DEF GoodLog

(* A flush, and the end of a process, leave what is written.               *)
LEMMA GoodFlush ==
    ASSUME NEW lg, GoodLog(lg)
    PROVE  /\ GoodLog(FlushUncommited(lg))
           /\ LastIsCached(lg) => LastIsCached(FlushUncommited(lg))
           /\ FlushUncommited(lg).file = lg.file
           /\ GoodLog([EmptyLog EXCEPT !.file = lg.file])
<1>1. lg \in Log /\ WellNumbered(Content(lg)) /\ lg.file \in Seq(Entry)
    BY DEF GoodLog, Log
<1>2. /\ Content(lg) \in Seq(Entry)
      /\ Len(lg.file) <= Len(Content(lg))
      /\ \A i \in 1..Len(lg.file) : Content(lg)[i] = lg.file[i]
    BY <1>1, FileIsPrefix
<1>3. WellNumbered(lg.file)
    BY <1>1, <1>2, PrefixNumbered
<1>4. \A i \in 1..Len(lg.file) : lg.file[i].term \in Terms
  <2> TAKE i \in 1..Len(lg.file)
  <2>1. i \in 1..Len(Content(lg)) /\ Content(lg)[i] = lg.file[i]
      BY <1>1, <1>2
  <2> QED BY <2>1 DEF GoodLog
<1>5. ASSUME NEW x \in Log, x.file = lg.file, x.pend = <<>>
      PROVE  GoodLog(x)
  <2>1. Content(x) = lg.file
      BY <1>1, <1>5 DEF Content
  <2> QED BY <1>3, <1>4, <2>1 DEF GoodLog
<1>6. /\ FlushUncommited(lg) = [file |-> lg.file, last |-> lg.last, pend |-> <<>>]
      /\ [EmptyLog EXCEPT !.file = lg.file] = [file |-> lg.file, last |-> ZeroEntry, pend |-> <<>>]
    BY DEF FlushUncommited, EmptyLog
<1>7. /\ [file |-> lg.file, last |-> lg.last, pend |-> <<>>] \in Log
      /\ [file |-> lg.file, last |-> ZeroEntry, pend |-> <<>>] \in Log
    BY <1>1 DEF Log
<1>8. LastIsCached(lg) => LastIsCached(FlushUncommited(lg))
    BY <1>6 DEF LastIsCached
<1> QED BY <1>5, <1>6, <1>7, <1>8

(* A server starts with a good log.                                        *)
LEMMA EmptyIsGood == GoodLog(EmptyLog) /\ LastIsCached(EmptyLog)
<1>1. Content(EmptyLog) = <<>>
    BY DEF EmptyLog, Content
<1> QED BY <1>1, EmptyLogShape DEF GoodLog

-----------------------------------------------------------------------------
(* No line of a file is taken back in this step.                           *)
FilesGrow == \A s \in Server : FileExtends(log[s].file, log'[s].file)

(* Process p does not start again in this step.                            *)
StaysDown(p) == co'[p] # "down" => co[p] # "down"

(* A file that stays the same grows by nothing.                            *)
LEMMA ExtendsSelf == ASSUME NEW lg \in Log PROVE FileExtends(lg.file, lg.file)
BY DEF FileExtends, Log

(* One log gives way to a good one whose file starts with the old file.    *)
LEMMA LogReplaced ==
    ASSUME LogsGood, NEW s \in Server, NEW lg, log' = [log EXCEPT ![s] = lg],
           GoodLog(lg), co'[s] # "down" => LastIsCached(lg),
           \A p \in Server \ {s} : StaysDown(p),
           FileExtends(log[s].file, lg.file)
    PROVE  LogsGood' /\ FilesGrow
<1>1. lg \in Log
    BY DEF GoodLog
<1>2. log' \in [Server -> Log] /\ log'[s] = lg /\ \A p \in Server \ {s} : log'[p] = log[p]
    BY <1>1 DEF LogsGood
<1>3. LogsGood'
  <2> SUFFICES ASSUME NEW p \in Server
               PROVE  GoodLog(log'[p]) /\ (co'[p] # "down" => LastIsCached(log'[p]))
      BY <1>2 DEF LogsGood, GoodLog, LastIsCached
  <2>1. CASE p = s
      BY <1>2, <2>1
  <2>2. CASE p # s
      BY <1>2, <2>2 DEF LogsGood, StaysDown
  <2> QED BY <2>1, <2>2
<1>4. FilesGrow
  <2> SUFFICES ASSUME NEW p \in Server
               PROVE  FileExtends(log[p].file, log'[p].file)
      BY DEF FilesGrow
  <2>1. CASE p = s
      BY <1>2, <2>1
  <2>2. CASE p # s
      BY <1>2, <2>2, ExtendsSelf DEF LogsGood
  <2> QED BY <2>1, <2>2
<1> QED BY <1>3, <1>4

(* No log changes.                                                         *)
LEMMA LogUntouched ==
    ASSUME LogsGood, log' = log, \A p \in Server : StaysDown(p)
    PROVE  LogsGood' /\ FilesGrow
<1>1. LogsGood'
    BY DEF LogsGood, StaysDown, GoodLog, LastIsCached
<1>2. FilesGrow
    BY ExtendsSelf DEF FilesGrow, LogsGood
<1> QED BY <1>1, <1>2

(* No process ends or starts in this step.                                 *)
SameRunning == \A p \in Server : co'[p] = "down" <=> co[p] = "down"

(* No new message has an entry, and new answers have lengths.              *)
NoNewContents ==
    \A m \in net' :
        \/ m \in net
        \/ m.type \notin {"replicate", "replicated"}
        \/ m.type = "replicated" /\ m.from \in Server /\ m.len \in Nat

(* A step that leaves logs, lengths and sessions alone.                    *)
LEMMA LogAside ==
    ASSUME LogInv, UNCHANGED <<log, peerVars, session>>, SameRunning, NoNewContents
    PROVE  LogInv' /\ FilesGrow
<1>1. LogsGood' /\ FilesGrow
    BY LogUntouched DEF LogInv, SameRunning, StaysDown
<1>2. SessionsTyped' /\ PeersTyped'
    BY DEF LogInv, SessionsTyped, PeersTyped, peerVars, SameRunning
<1>3. MessagesGood'
    BY DEF LogInv, MessagesGood, NoNewContents
<1> QED BY <1>1, <1>2, <1>3 DEF LogInv

(* The main loop of a running process moves on.                            *)
LEMMA OneMoves ==
    ASSUME VotingInv, NEW s \in Server, co[s] # "down",
           NEW to, to # "down", co' = [co EXCEPT ![s] = to]
    PROVE  SameRunning
BY DEF SameRunning, VotingInv, VotingTypes

(* It may do so from within a handler (middleware.go:230).                 *)
LEMMA AddTermRuns ==
    ASSUME VotingInv, NEW s \in Server, AddTerm(s) \/ UNCHANGED co
    PROVE  SameRunning
BY OneMoves DEF AddTerm, SameRunning

(* The steps of the coroutines that only vote, wait or leave.              *)
LEMMA LoopAside ==
    ASSUME VotingInv, LogInv, NEW s \in Server,
           \/ LoopIteration(s) \/ ConsumerExpire(s) \/ ConsumerCancelled(s)
           \/ ElectionStart(s) \/ Canvass(s) \/ CountVote(s) \/ ElectionGivenUp(s)
           \/ BecomeLeader(s) \/ ProducerCancelled(s)
    PROVE  LogInv' /\ FilesGrow
<1>1. UNCHANGED <<log, peerVars, session>>
    BY DEF LoopIteration, ConsumerExpire, ConsumerCancelled, ElectionStart, Canvass,
           CountVote, ElectionGivenUp, BecomeLeader, ProducerCancelled, storeVars
<1>2. NoNewContents
    BY DEF NoNewContents, LoopIteration, ConsumerExpire, ConsumerCancelled, ElectionStart,
           Canvass, CountVote, ElectionGivenUp, BecomeLeader, ProducerCancelled, WithoutVotesFor
<1>3. SameRunning
  <2>1. CASE LoopIteration(s)
    <3>1. PICK to \in {"become_master", "become_condidate", "consumer"} :
              co' = [co EXCEPT ![s] = to]
        BY <2>1 DEF LoopIteration, VotingInv, VotingTypes
    <3> QED BY <2>1, <3>1, OneMoves DEF LoopIteration
  <2>2. CASE ConsumerExpire(s) \/ ConsumerCancelled(s)
      BY <2>2, OneMoves DEF ConsumerExpire, ConsumerCancelled, Leaves
  <2>3. CASE ElectionStart(s) \/ Canvass(s)
      BY <2>3, OneMoves DEF ElectionStart, Canvass, AddTerm
  <2>4. CASE CountVote(s)
      BY <2>4, OneMoves DEF CountVote, Leaves, SameRunning, loopVars
  <2>5. CASE ElectionGivenUp(s) \/ BecomeLeader(s)
      BY <2>5, OneMoves DEF ElectionGivenUp, BecomeLeader, Leaves
  <2>6. CASE ProducerCancelled(s)
      BY <2>6, OneMoves DEF ProducerCancelled, Leaves
  <2> QED BY <2>1, <2>2, <2>3, <2>4, <2>5, <2>6
<1> QED BY <1>1, <1>2, <1>3, LogAside

(* Vote requests and lost messages.                                        *)
LEMMA HandlerAside ==
    ASSUME VotingInv, LogInv, NEW s \in Server,
           VoteGranted(s) \/ VoteRefused(s) \/ MessageLost
    PROVE  LogInv' /\ FilesGrow
<1>1. UNCHANGED <<log, peerVars, session>>
    BY DEF VoteGranted, VoteRefused, MessageLost, storeVars
<1>2. NoNewContents
    BY DEF NoNewContents, VoteGranted, VoteRefused, MessageLost
<1>3. SameRunning
  <2>1. AddTerm(s) \/ UNCHANGED co
      BY DEF VoteGranted, VoteRefused, MessageLost, StoreTerm, loopVars
  <2> QED BY <2>1, AddTermRuns
<1> QED BY <1>1, <1>2, <1>3, LogAside

(* An answer is a new message with a length.                               *)
LEMMA AnsweredNew ==
    ASSUME NEW m \in net, m.to \in Server, NEW len \in Nat, NEW ack,
           net' = Answered(m, len, ack)
    PROVE  NoNewContents
BY DEF NoNewContents, Answered

(* The lengths the logger computes are lengths.                            *)
LEMMA LengthTyped ==
    ASSUME NEW lg \in Log
    PROVE  LenCommited(lg) \in Nat /\ LenUncommited(lg) \in Nat
<1>1. lg.last.ind \in Nat /\ Len(lg.pend) \in Nat
    BY DEF Log, Entry, ZeroEntry
<1>2. LenCommited(lg) \in Nat
    BY <1>1 DEF LenCommited
<1>3. LenUncommited(lg) = LenCommited(lg) + Len(lg.pend)
    BY DEF LenUncommited
<1> QED BY <1>1, <1>2, <1>3

(* Replication requests that do not reach the log (raftapi.go:107-158).    *)
LEMMA RefusalAside ==
    ASSUME VotingInv, LogInv, NEW s \in Server,
           ReplicateRefused(s) \/ ReplicateDemotes(s)
    PROVE  LogInv' /\ FilesGrow
<1>1. UNCHANGED <<log, peerVars, session>>
    BY DEF ReplicateRefused, ReplicateDemotes, storeVars
<1>2. LenUncommited(log[s]) \in Nat
    BY LengthTyped DEF LogInv, LogsGood
<1>3. NoNewContents
  <2>1. PICK m \in net, len \in Nat, ack \in BOOLEAN :
            m.to \in Server /\ net' = Answered(m, len, ack)
    <3>1. CASE ReplicateRefused(s)
        BY <3>1 DEF ReplicateRefused
    <3>2. CASE ReplicateDemotes(s)
        BY <1>2, <3>2 DEF ReplicateDemotes, Progress
    <3> QED BY <3>1, <3>2
  <2> QED BY <2>1, AnsweredNew
<1>4. SameRunning
  <2>1. CASE ReplicateRefused(s)
      BY <2>1, OneMoves DEF ReplicateRefused, SameRunning
  <2>2. CASE ReplicateDemotes(s)
      BY <2>2, AddTermRuns DEF ReplicateDemotes, StoreTerm
  <2> QED BY <2>1, <2>2
<1> QED BY <1>1, <1>3, <1>4, LogAside
-----------------------------------------------------------------------------
(* The sessions *)

(* One session of a running process changes.                               *)
LEMMA SessionMoves ==
    ASSUME VotingInv, LogInv, NEW s \in Server, NEW i \in Slot, co[s] # "down", SameRunning,
           NEW r \in [st : {"free", "spawned", "open", "over"}, first : BOOLEAN, nr : Nat,
                      upd : BOOLEAN],
           session' = [session EXCEPT ![s][i] = r]
    PROVE  SessionsTyped'
BY DEF LogInv, SessionsTyped, SameRunning

(* A session starts with no answers.                                       *)
LEMMA FreshIsTyped ==
    ASSUME NEW st \in {"free", "spawned", "open", "over"}, NEW b \in BOOLEAN
    PROVE  [FreshSession EXCEPT !.st = st, !.first = b]
             \in [st : {"free", "spawned", "open", "over"}, first : BOOLEAN, nr : Nat,
                  upd : BOOLEAN]
BY DEF FreshSession

(* A session ends, and what is on its way to it is dropped.                *)
LEMMA SessionOverTyped ==
    ASSUME VotingInv, LogInv, NEW s \in Server, NEW i \in Slot, NEW upd,
           co[s] # "down", SameRunning, SessionOver(s, i, upd)
    PROVE  SessionsTyped' /\ NoNewContents
<1> DEFINE r == [FreshSession EXCEPT !.st = IF SlotReuse THEN "free" ELSE "over"]
<1>1. session' = [session EXCEPT ![s][i] = r]
    BY DEF SessionOver
<1>2. r \in [st : {"free", "spawned", "open", "over"}, first : BOOLEAN, nr : Nat, upd : BOOLEAN]
    BY DEF FreshSession
<1> HIDE DEF r
<1>3. SessionsTyped'
    BY <1>1, <1>2, SessionMoves
<1>4. NoNewContents
    BY DEF SessionOver, NoNewContents
<1> QED BY <1>3, <1>4

(* The producer starts a session or leaves.                                *)
LEMMA ProducerTickKeeps ==
    ASSUME VotingInv, LogInv, NEW s \in Server, ProducerTick(s)
    PROVE  LogInv' /\ FilesGrow
<1>1. UNCHANGED <<log, peerVars, net>> /\ co[s] \in {"producer0", "producer"}
    BY DEF ProducerTick, storeVars
<1>2. PICK to \in {"loop", "producer"} : co' = [co EXCEPT ![s] = to]
    BY DEF ProducerTick, Leaves
<1>3. SameRunning
    BY <1>1, <1>2, OneMoves
<1>4. SessionsTyped'
  <2>1. CASE UNCHANGED session
      BY <1>3, <2>1 DEF LogInv, SessionsTyped, SameRunning
  <2>2. CASE /\ FreeSlots(s) # {}
             /\ session' = [session EXCEPT ![s][CHOOSE i \in FreeSlots(s) : TRUE] =
                   [FreshSession EXCEPT !.st = "spawned", !.first = (co[s] = "producer0")]]
    <3>1. PICK i \in Slot : session' = [session EXCEPT ![s][i] =
                   [FreshSession EXCEPT !.st = "spawned", !.first = (co[s] = "producer0")]]
      <4>1. (CHOOSE i \in FreeSlots(s) : TRUE) \in FreeSlots(s)
          BY <2>2
      <4> QED BY <2>2, <4>1 DEF FreeSlots
    <3>2. [FreshSession EXCEPT !.st = "spawned", !.first = (co[s] = "producer0")]
             \in [st : {"free", "spawned", "open", "over"}, first : BOOLEAN, nr : Nat,
                  upd : BOOLEAN]
        BY FreshIsTyped
    <3> QED BY <1>1, <1>3, <3>1, <3>2, SessionMoves
  <2> QED BY <2>1, <2>2 DEF ProducerTick
<1>5. LogsGood' /\ FilesGrow
    BY <1>1, <1>3, LogUntouched DEF LogInv, SameRunning, StaysDown
<1> QED BY <1>1, <1>4, <1>5 DEF LogInv, MessagesGood, PeersTyped, peerVars

(* An entry of the file or a pending one is an entry of the content, at     *)
(* the index that counts from 0 as the code does. *)
LEMMA EntriesInContent ==
    ASSUME NEW lg \in Log, LastIsCached(lg), WellNumbered(Content(lg)), NEW n \in Nat
    PROVE  /\ n < LenCommited(lg) =>
                  n + 1 \in 1..Len(Content(lg)) /\ Ops(lg)[n + 1] = Content(lg)[n + 1]
           /\ ~(n < LenCommited(lg)) /\ n < LenUncommited(lg) =>
                  /\ n + 1 \in 1..Len(Content(lg))
                  /\ UncommitedOps(lg)[n - LenCommited(lg) + 1] = Content(lg)[n + 1]
<1> DEFINE f == Len(lg.file)
           q == Len(lg.pend)
           c == Len(Content(lg))
<1>1. f \in Nat /\ q \in Nat
    BY DEF Log
<1>2. c = f + q
    BY ContentIndices
<1>3. LenCommited(lg) = f /\ LenUncommited(lg) = c
    BY ShapeGivesLengths
<1>4. /\ \A i \in 1..f : Content(lg)[i] = lg.file[i]
      /\ \A i \in 1..q : Content(lg)[f + i] = lg.pend[i]
    BY ContentIndices
<1> HIDE DEF f, q, c
<1>5. ASSUME n < f
      PROVE  n + 1 \in 1..c /\ Ops(lg)[n + 1] = Content(lg)[n + 1]
  <2>1. n + 1 \in 1..c /\ n + 1 \in 1..f
      BY <1>1, <1>2, <1>5
  <2> QED BY <1>4, <2>1 DEF Ops
<1>6. ASSUME ~(n < f), n < c
      PROVE  n + 1 \in 1..c /\ UncommitedOps(lg)[n - f + 1] = Content(lg)[n + 1]
  <2>1. /\ n + 1 \in 1..c /\ n - f + 1 \in 1..q
        /\ f + (n - f + 1) = n + 1
      BY <1>1, <1>2, <1>6
  <2> QED BY <1>4, <2>1 DEF UncommitedOps
<1> QED BY <1>3, <1>5, <1>6 DEF c

(* What a session ships is an entry of its log, the one behind a length it  *)
(* has recorded of the peer.                                               *)
LEMMA ShipsEntries ==
    ASSUME LogInv, NEW s \in Server, co[s] # "down", NEW p, NEW first \in BOOLEAN,
           Shipment(s, p, first).mean # "heartbeat"
    PROVE  \E n \in {At(sentLen[s], p), At(commitLen[s], p)} :
               /\ n \in Nat /\ n + 1 \in 1..Len(Content(log[s]))
               /\ Shipment(s, p, first).entry = Content(log[s])[n + 1]
               /\ Shipment(s, p, first).entry \in TermEntry
               /\ Shipment(s, p, first).mean = "logcommit" => n < LenCommited(log[s])
<1> DEFINE lg == log[s]
           sent == At(sentLen[s], p)
           applied == At(commitLen[s], p)
<1>1. GoodLog(lg) /\ lg \in Log /\ LastIsCached(lg) /\ WellNumbered(Content(lg))
    BY DEF LogInv, LogsGood, GoodLog
<1>2. sent \in Nat /\ applied \in Nat
    BY DEF At, LogInv, PeersTyped, IsPeerLengths
<1>3. \A n \in Nat :
          /\ n < LenCommited(lg) =>
                 n + 1 \in 1..Len(Content(lg)) /\ Ops(lg)[n + 1] = Content(lg)[n + 1]
          /\ ~(n < LenCommited(lg)) /\ n < LenUncommited(lg) =>
                 /\ n + 1 \in 1..Len(Content(lg))
                 /\ UncommitedOps(lg)[n - LenCommited(lg) + 1] = Content(lg)[n + 1]
    BY <1>1, EntriesInContent
<1>4. PICK n \in {sent, applied} :
          /\ n + 1 \in 1..Len(Content(lg))
          /\ Shipment(s, p, first).entry = Content(lg)[n + 1]
          /\ Shipment(s, p, first).mean = "logcommit" => n < LenCommited(lg)
  <2>1. CASE ~first /\ applied < LenCommited(lg)
    <3>1. Shipment(s, p, first).entry = Ops(lg)[applied + 1]
        BY <2>1 DEF Shipment
    <3> QED BY <1>2, <1>3, <2>1, <3>1
  <2>2. CASE ~(~first /\ applied < LenCommited(lg)) /\ ~first /\ sent < LenCommited(lg)
    <3>1. Shipment(s, p, first).entry = Ops(lg)[sent + 1]
        BY <2>2 DEF Shipment
    <3> QED BY <1>2, <1>3, <2>2, <3>1
  <2>3. CASE /\ ~(~first /\ applied < LenCommited(lg)) /\ ~(~first /\ sent < LenCommited(lg))
             /\ ~first /\ sent < LenUncommited(lg)
    <3>1. /\ Shipment(s, p, first).entry = UncommitedOps(lg)[sent - LenCommited(lg) + 1]
          /\ Shipment(s, p, first).mean = "logappend"
        BY <2>3 DEF Shipment
    <3> QED BY <1>2, <1>3, <2>3, <3>1
  <2>4. CASE /\ ~(~first /\ applied < LenCommited(lg)) /\ ~(~first /\ sent < LenCommited(lg))
             /\ ~(~first /\ sent < LenUncommited(lg))
      BY <2>4 DEF Shipment
  <2> QED BY <2>1, <2>2, <2>3, <2>4
<1>5. Content(lg)[n + 1] \in TermEntry
  <2>1. Content(lg) \in Seq(Entry)
      BY <1>1, ContentIndices
  <2>2. PICK c \in Seq(Entry) : c = Content(lg)
      BY <2>1
  <2>3. c[n + 1] \in Entry
      BY <1>4, <2>2
  <2> QED BY <1>1, <1>4, <2>2, <2>3 DEF GoodLog, TermEntry
<1> QED BY <1>2, <1>4, <1>5

(* A session sends entries of its server's log.                            *)
LEMMA SessionStartKeeps ==
    ASSUME VotingInv, LogInv, NEW s \in Server, NEW i \in Slot, SessionStart(s, i)
    PROVE  LogInv' /\ FilesGrow
<1>1. UNCHANGED <<log, peerVars, co>> /\ session[s][i].st = "spawned"
    BY DEF SessionStart, storeVars, loopVars
<1>2. SameRunning /\ co[s] # "down"
    BY <1>1 DEF SameRunning, LogInv, SessionsTyped
<1>3. LogsGood' /\ FilesGrow
    BY <1>1, <1>2, LogUntouched DEF LogInv, SameRunning, StaysDown
<1>4. SessionsTyped'
  <2>1. PICK r \in [st : {"free", "spawned", "open", "over"}, first : BOOLEAN, nr : Nat,
                    upd : BOOLEAN] :
            session' = [session EXCEPT ![s][i] = r]
    <3> DEFINE r == [session[s][i] EXCEPT !.st = "open", !.first = FALSE]
    <3>1. session[s][i] \in [st : {"free", "spawned", "open", "over"}, first : BOOLEAN, nr : Nat,
                    upd : BOOLEAN]
        BY DEF LogInv, SessionsTyped
    <3>2. r \in [st : {"free", "spawned", "open", "over"}, first : BOOLEAN, nr : Nat,
                    upd : BOOLEAN]
        BY <3>1
    <3>3. session' = [session EXCEPT ![s][i] = r]
        BY DEF SessionStart, LogInv, SessionsTyped
    <3> QED BY <3>2, <3>3
  <2> QED BY <1>2, <2>1, SessionMoves
<1>5. MessagesGood'
  <2> SUFFICES ASSUME NEW m \in net'
               PROVE  /\ m.type = "replicate" /\ m.mean # "heartbeat" => m.entry \in TermEntry
                      /\ m.type = "replicated" => m.from \in Server /\ m.len \in Nat
      BY DEF MessagesGood
  <2>1. CASE m \in net
      BY <2>1 DEF LogInv, MessagesGood
  <2>2. CASE m \notin net
    <3>1. PICK p \in Others(s) :
              /\ m.type = "replicate"
              /\ m.mean = Shipment(s, p, session[s][i].first).mean
              /\ m.entry = Shipment(s, p, session[s][i].first).entry
        BY <2>2 DEF SessionStart
    <3>2. session[s][i].first \in BOOLEAN
        BY DEF LogInv, SessionsTyped
    <3> QED BY <1>2, <3>1, <3>2, ShipsEntries
  <2> QED BY <2>1, <2>2
<1> QED BY <1>1, <1>3, <1>4, <1>5 DEF LogInv, PeersTyped, peerVars

(* A peer length that is raised is a peer length.                          *)
LEMMA RaisedTyped ==
    ASSUME NEW len, IsPeerLengths(len), NEW p \in Server, NEW n \in Nat
    PROVE  IsPeerLengths(Raised(len, p, n))
BY DEF IsPeerLengths, Raised, At

(* A session takes an answer and raises the lengths of the peer.           *)
LEMMA SessionReceiveKeeps ==
    ASSUME VotingInv, LogInv, NEW s \in Server, NEW i \in Slot, SessionReceive(s, i)
    PROVE  LogInv' /\ FilesGrow
<1>1. PICK m \in net, b \in BOOLEAN, d \in BOOLEAN, upd \in BOOLEAN :
          /\ m.type = "replicated"
          /\ session[s][i].st = "open"
          /\ sentLen' = IF b THEN [sentLen EXCEPT ![s] = Raised(@, m.from, m.len)] ELSE sentLen
          /\ commitLen' = IF d THEN [commitLen EXCEPT ![s] = Raised(@, m.from, m.len)] ELSE commitLen
          /\ \/ SessionOver(s, i, upd)
             \/ /\ session' = [session EXCEPT ![s][i].nr = session[s][i].nr + 1, ![s][i].upd = upd]
                /\ net' \subseteq net
    <2>1. session[s][i] \in [st : {"free", "spawned", "open", "over"}, first : BOOLEAN, nr : Nat,
                    upd : BOOLEAN]
        BY DEF LogInv, SessionsTyped
    <2> QED BY <2>1 DEF SessionReceive
<1>2. UNCHANGED <<log, co>>
    BY DEF SessionReceive, storeVars, loopVars
<1>3. SameRunning /\ co[s] # "down"
    BY <1>1, <1>2 DEF SameRunning, LogInv, SessionsTyped
<1>4. LogsGood' /\ FilesGrow
    BY <1>2, <1>3, LogUntouched DEF LogInv, SameRunning, StaysDown
<1>5. PeersTyped'
  <2>1. m.from \in Server /\ m.len \in Nat
      BY <1>1 DEF LogInv, MessagesGood
  <2>2. /\ IsPeerLengths(Raised(sentLen[s], m.from, m.len))
        /\ IsPeerLengths(Raised(commitLen[s], m.from, m.len))
      BY <2>1, RaisedTyped DEF LogInv, PeersTyped
  <2>3. PICK x : x = Raised(sentLen[s], m.from, m.len)
      OBVIOUS
  <2>4. PICK y : y = Raised(commitLen[s], m.from, m.len)
      OBVIOUS
  <2>5. /\ sentLen' = IF b THEN [sentLen EXCEPT ![s] = x] ELSE sentLen
        /\ commitLen' = IF d THEN [commitLen EXCEPT ![s] = y] ELSE commitLen
      BY <1>1, <2>3, <2>4
  <2>6. DOMAIN sentLen' = Server /\ DOMAIN commitLen' = Server
      BY <2>5 DEF LogInv, PeersTyped
  <2>7. \A p \in Server : sentLen'[p] = x \/ sentLen'[p] = sentLen[p]
      BY <2>5 DEF LogInv, PeersTyped
  <2>8. \A p \in Server : commitLen'[p] = y \/ commitLen'[p] = commitLen[p]
      BY <2>5 DEF LogInv, PeersTyped
  <2>9. ASSUME NEW p \in Server
        PROVE  IsPeerLengths(sentLen'[p]) /\ IsPeerLengths(commitLen'[p])
      BY <2>2, <2>3, <2>4, <2>7, <2>8 DEF LogInv, PeersTyped
  <2> QED BY <2>6, <2>9 DEF PeersTyped, IsPeerLengths
<1>6. SessionsTyped' /\ NoNewContents
  <2>1. CASE SessionOver(s, i, upd)
      BY <1>3, <2>1, SessionOverTyped
  <2>2. CASE /\ session' = [session EXCEPT ![s][i].nr = session[s][i].nr + 1, ![s][i].upd = upd]
             /\ net' \subseteq net
    <3>1. session[s][i] \in [st : {"free", "spawned", "open", "over"}, first : BOOLEAN, nr : Nat,
                    upd : BOOLEAN]
        BY DEF LogInv, SessionsTyped
    <3>2. PICK k \in Nat : k = session[s][i].nr + 1
        BY <3>1
    <3> DEFINE r == [session[s][i] EXCEPT !.nr = k, !.upd = upd]
    <3>3. r \in [st : {"free", "spawned", "open", "over"}, first : BOOLEAN, nr : Nat,
                    upd : BOOLEAN]
        BY <1>1, <3>1, <3>2
    <3>4. session' = [session EXCEPT ![s][i] = r]
        BY <2>2, <3>2 DEF LogInv, SessionsTyped
    <3> HIDE DEF r
    <3>5. SessionsTyped'
        BY <1>3, <3>3, <3>4, SessionMoves
    <3> QED BY <2>2, <3>5 DEF NoNewContents
  <2> QED BY <1>1, <2>1, <2>2
<1>7. MessagesGood'
    BY <1>6 DEF LogInv, MessagesGood, NoNewContents
<1> QED BY <1>4, <1>5, <1>6, <1>7 DEF LogInv

(* A session runs out of time.                                             *)
LEMMA SessionExpireKeeps ==
    ASSUME VotingInv, LogInv, NEW s \in Server, NEW i \in Slot, SessionExpire(s, i)
    PROVE  LogInv' /\ FilesGrow
<1>1. /\ UNCHANGED <<log, peerVars, co>> /\ session[s][i].st = "open"
      /\ \E upd : SessionOver(s, i, upd)
    BY DEF SessionExpire, storeVars, loopVars
<1>2. SameRunning /\ co[s] # "down"
    BY <1>1 DEF SameRunning, LogInv, SessionsTyped
<1>3. LogsGood' /\ FilesGrow
    BY <1>1, <1>2, LogUntouched DEF LogInv, SameRunning, StaysDown
<1>4. SessionsTyped' /\ NoNewContents
    BY <1>1, <1>2, SessionOverTyped
<1> QED BY <1>1, <1>3, <1>4 DEF LogInv, MessagesGood, NoNewContents, PeersTyped, peerVars

-----------------------------------------------------------------------------
(* The end of a process, and a new life *)

(* A process ends: its file stays, and nobody hears of its sessions.       *)
LEMMA DiesKeepsLogs ==
    ASSUME VotingInv, LogInv, NEW s \in Server, NEW msgs \in SUBSET net, Dies(s, msgs)
    PROVE  LogInv' /\ FilesGrow
<1>1. PICK lg : lg = [EmptyLog EXCEPT !.file = log[s].file]
    OBVIOUS
<1>2. /\ log' = [log EXCEPT ![s] = lg]
      /\ co' = [co EXCEPT ![s] = "down"]
      /\ session' = [session EXCEPT ![s] = [i \in Slot |-> FreshSession]]
      /\ sentLen' = [sentLen EXCEPT ![s] = EmptyMap]
      /\ commitLen' = [commitLen EXCEPT ![s] = EmptyMap]
      /\ net' \subseteq net
    BY <1>1 DEF Dies
<1>3. GoodLog(lg) /\ lg.file = log[s].file
    BY <1>1, GoodFlush DEF LogInv, LogsGood, EmptyLog
<1>4. /\ co'[s] = "down" /\ \A p \in Server \ {s} : co'[p] = co[p]
    BY <1>2 DEF VotingInv, VotingTypes
<1>5. LogsGood' /\ FilesGrow
  <2>1. FileExtends(log[s].file, lg.file)
      BY <1>3, ExtendsSelf DEF LogInv, LogsGood
  <2> QED BY <1>2, <1>3, <1>4, <2>1, LogReplaced DEF LogInv, StaysDown
<1>6. SessionsTyped'
    BY <1>2, <1>4 DEF LogInv, SessionsTyped, FreshSession
<1>7. PeersTyped'
  <2>1. IsPeerLengths(EmptyMap)
      BY DEF IsPeerLengths, EmptyMap
  <2>2. DOMAIN sentLen' = Server /\ DOMAIN commitLen' = Server
      BY <1>2 DEF LogInv, PeersTyped
  <2>3. ASSUME NEW p \in Server
        PROVE  IsPeerLengths(sentLen'[p]) /\ IsPeerLengths(commitLen'[p])
      BY <1>2, <2>1 DEF LogInv, PeersTyped
  <2> QED BY <2>2, <2>3 DEF PeersTyped, IsPeerLengths
<1>8. MessagesGood'
    BY <1>2 DEF LogInv, MessagesGood
<1> QED BY <1>5, <1>6, <1>7, <1>8 DEF LogInv

(* It ends by Fatalf or by a crash.                                        *)
LEMMA FailureKeepsLogs ==
    ASSUME VotingInv, LogInv, NEW s \in Server, SlaveFatal(s) \/ Crash(s)
    PROVE  LogInv' /\ FilesGrow
<1>1. CASE SlaveFatal(s)
  <2>1. PICK m \in net : Dies(s, net \ {m})
      BY <1>1 DEF SlaveFatal
  <2> QED BY <2>1, DiesKeepsLogs
<1>2. CASE Crash(s)
    BY <1>2, DiesKeepsLogs DEF Crash
<1> QED BY <1>1, <1>2

(* Only an empty file is restored, to an empty log.                        *)
LEMMA RestartKeepsLogs ==
    ASSUME VotingInv, LogInv, NEW s \in Server, Restart(s)
    PROVE  LogInv' /\ FilesGrow
<1>1. log[s].file = <<>>
    BY OnlyEmptyRestores DEF Restart
<1>2. /\ log' = [log EXCEPT ![s] = EmptyLog]
      /\ co' = [co EXCEPT ![s] = "loop"]
      /\ UNCHANGED <<session, net, peerVars>>
    BY <1>1 DEF Restart, InitOrRestore
<1>3. LogsGood' /\ FilesGrow
  <2>1. FileExtends(log[s].file, EmptyLog.file)
      BY <1>1 DEF FileExtends
  <2>2. \A p \in Server \ {s} : StaysDown(p)
      BY <1>2 DEF StaysDown, VotingInv, VotingTypes
  <2> QED BY <1>2, <2>1, <2>2, EmptyIsGood, LogReplaced DEF LogInv
<1> QED BY <1>2, <1>3
        DEF LogInv, SessionsTyped, PeersTyped, MessagesGood, peerVars, VotingInv, VotingTypes

-----------------------------------------------------------------------------
(* The steps that write logs *)

(* One log is written, and nothing else that replication needs changes.    *)
LEMMA OneLogWritten ==
    ASSUME LogInv, NEW s \in Server, NEW lg, log' = [log EXCEPT ![s] = lg],
           GoodLog(lg), LastIsCached(lg), FileExtends(log[s].file, lg.file),
           SameRunning, UNCHANGED <<peerVars, session>>, NoNewContents
    PROVE  LogInv' /\ FilesGrow
<1>1. LogsGood' /\ FilesGrow
    BY LogReplaced DEF LogInv, SameRunning, StaysDown
<1> QED BY <1>1
        DEF LogInv, SessionsTyped, PeersTyped, MessagesGood, peerVars, SameRunning, NoNewContents

(* What is pending is flushed before a coroutine is spawned.               *)
LEMMA SpawnFlushedKeeps ==
    ASSUME VotingInv, LogInv, NEW s \in Server, SpawnFlushed(s)
    PROVE  LogInv' /\ FilesGrow
<1>1. /\ co[s] # "down" /\ log' = [log EXCEPT ![s] = FlushUncommited(log[s])]
      /\ UNCHANGED <<peerVars, session, net>>
    BY DEF SpawnFlushed
<1>2. SameRunning
    BY OneMoves DEF SpawnFlushed
<1>3. /\ GoodLog(FlushUncommited(log[s])) /\ LastIsCached(FlushUncommited(log[s]))
      /\ FlushUncommited(log[s]).file = log[s].file
    BY <1>1, GoodFlush DEF LogInv, LogsGood
<1>4. FileExtends(log[s].file, FlushUncommited(log[s]).file)
    BY <1>3, ExtendsSelf DEF LogInv, LogsGood
<1> QED BY <1>1, <1>2, <1>3, <1>4, OneLogWritten DEF NoNewContents

(* What a slave has logged before LogCommit: its log, or its written       *)
(* entries and the one of the request.                                     *)
LEMMA LoggedGood ==
    ASSUME NEW lg, GoodLog(lg), LastIsCached(lg), NEW m,
           m.mean # "heartbeat" => m.entry \in TermEntry
    PROVE  /\ GoodLog(Logged(lg, m)) /\ LastIsCached(Logged(lg, m))
           /\ Logged(lg, m).file = lg.file
<1>1. CASE m.mean # "heartbeat" /\ Fits(lg, m.entry)
  <2>1. Logged(lg, m) = LogOp(FlushUncommited(lg), m.entry)
      BY <1>1 DEF Logged
  <2>2. /\ GoodLog(FlushUncommited(lg)) /\ LastIsCached(FlushUncommited(lg))
        /\ FlushUncommited(lg).file = lg.file
      BY GoodFlush
  <2> QED BY <1>1, <2>1, <2>2, GoodLogOp
<1>2. CASE ~(m.mean # "heartbeat" /\ Fits(lg, m.entry))
    BY <1>2 DEF Logged
<1> QED BY <1>1, <1>2

(* What a slave stores for request m.                                      *)
Stored(s, m) ==
    IF m.mean = "logcommit" THEN LogCommit(Logged(log[s], m)) ELSE Logged(log[s], m)

(* It is a good log, and its file starts with the old one.                 *)
LEMMA StoredGood ==
    ASSUME LogInv, NEW s \in Server, co[s] # "down", NEW m \in net, m.type = "replicate"
    PROVE  /\ GoodLog(Stored(s, m)) /\ LastIsCached(Stored(s, m))
           /\ FileExtends(log[s].file, Stored(s, m).file)
<1> DEFINE lg == Logged(log[s], m)
<1>1. GoodLog(lg) /\ LastIsCached(lg) /\ lg.file = log[s].file
    BY LoggedGood DEF LogInv, LogsGood, MessagesGood
<1>2. FileExtends(log[s].file, lg.file)
    BY <1>1, ExtendsSelf DEF LogInv, LogsGood
<1> HIDE DEF lg
<1>3. /\ GoodLog(LogCommit(lg)) /\ LastIsCached(LogCommit(lg))
      /\ FileExtends(lg.file, LogCommit(lg).file)
    BY <1>1, GoodLogCommit
<1> QED BY <1>1, <1>2, <1>3 DEF Stored, lg

(* A slave handles a replication request (raftapi.go:159-192).             *)
LEMMA SlaveReplicatesKeepsLogs ==
    ASSUME VotingInv, LogInv, NEW s \in Server, SlaveReplicates(s)
    PROVE  LogInv' /\ FilesGrow
<1>1. PICK m \in net :
          /\ m.type = "replicate" /\ m.to = s /\ co[s] # "down"
          /\ AddTerm(s) \/ UNCHANGED co
          /\ log' = [log EXCEPT ![s] = Stored(s, m)]
          /\ net' = Progress(m, Stored(s, m))
          /\ UNCHANGED <<peerVars, session>>
    BY DEF SlaveReplicates, StoreTerm, Serving, Stored
<1>2. PICK lg : lg = Stored(s, m)
    OBVIOUS
<1>3. GoodLog(lg) /\ LastIsCached(lg) /\ FileExtends(log[s].file, lg.file)
    BY <1>1, <1>2, StoredGood
<1>4. SameRunning
    BY <1>1, AddTermRuns
<1>5. NoNewContents
  <2>1. LenUncommited(lg) \in Nat
      BY <1>3, LengthTyped DEF GoodLog
  <2>2. net' = Answered(m, LenUncommited(lg), LenUncommited(lg) = LenCommited(lg))
      BY <1>1, <1>2 DEF Progress
  <2> QED BY <1>1, <2>1, <2>2, AnsweredNew
<1> QED BY <1>1, <1>2, <1>3, <1>4, <1>5, OneLogWritten

(* A client's request goes to the end of a running server's log.           *)
LEMMA SubmittedGood ==
    ASSUME VotingInv, LogInv, NEW s \in Server, co[s] # "down", NEW c \in Client
    PROVE  LET lg == LogOp(log[s], [ZeroEntry EXCEPT !.cmd = Request[c], !.term = term[s]])
           IN  /\ GoodLog(lg) /\ LastIsCached(lg) /\ lg.file = log[s].file
<1> DEFINE e == [ZeroEntry EXCEPT !.cmd = Request[c], !.term = term[s]]
<1>1. Request[c] \in Command /\ term[s] \in Terms /\ term[s] \in Nat
    BY RaftClusterAssumption DEF VotingInv, VotingTypes, Terms
<1>2. e \in TermEntry
    BY <1>1 DEF TermEntry, Entry, ZeroEntry
<1> HIDE DEF e
<1>3. GoodLog(log[s]) /\ LastIsCached(log[s])
    BY DEF LogInv, LogsGood
<1> QED BY <1>2, <1>3, GoodLogOp DEF e

(* Complete writes the log, or the log with one entry more in the file.    *)
LEMMA CompleteWrites ==
    ASSUME LogInv, NEW c \in Client, NEW s \in Server, NEW lg,
           GoodLog(lg), LastIsCached(lg), FileExtends(log[s].file, lg.file),
           lg.file = log[s].file, Complete(c, s, lg),
           SameRunning, UNCHANGED <<peerVars, session, net>>
    PROVE  LogInv' /\ FilesGrow
<1>1. /\ GoodLog(LogCommit(lg)) /\ LastIsCached(LogCommit(lg))
      /\ FileExtends(log[s].file, LogCommit(lg).file)
    BY GoodLogCommit
<1>2. NoNewContents
    BY DEF NoNewContents
<1>3. CASE log' = [log EXCEPT ![s] = lg]
    BY <1>2, <1>3, OneLogWritten
<1>4. CASE log' = [log EXCEPT ![s] = LogCommit(lg)]
    BY <1>1, <1>2, <1>4, OneLogWritten
<1> QED BY <1>3, <1>4 DEF Complete

(* Every step of a client's handler keeps the logs good.                   *)
LEMMA ClientKeepsLogs ==
    ASSUME VotingInv, LogInv, ClientInv, NEW c \in Client, HandleKvs(c)
    PROVE  LogInv' /\ FilesGrow
<1>1. SameRunning /\ NoNewContents /\ UNCHANGED <<peerVars, session, net>>
    BY DEF HandleKvs, ClientAdmitted, ClientRejected, ClientSubmits, ClientResumes,
           SameRunning, NoNewContents, loopVars
<1>2. CASE UNCHANGED log
    BY <1>1, <1>2, LogAside
<1>3. CASE ClientSubmits(c) /\ log' # log
  <2>1. PICK s \in Server : s = client[c].node
      BY <1>3 DEF ClientInv, InHandler, ClientSubmits
  <2>2. PICK lg : lg = LogOp(log[s], [ZeroEntry EXCEPT !.cmd = Request[c], !.term = term[s]])
      OBVIOUS
  <2>3. /\ co[s] # "down"
        /\ log' = [log EXCEPT ![s] = lg] \/ Complete(c, s, lg)
      BY <1>3, <2>1, <2>2 DEF ClientSubmits, Serving
  <2>4. GoodLog(lg) /\ LastIsCached(lg) /\ lg.file = log[s].file
      BY <2>2, <2>3, SubmittedGood
  <2>5. FileExtends(log[s].file, lg.file)
      BY <2>4, ExtendsSelf DEF LogInv, LogsGood
  <2>6. CASE log' = [log EXCEPT ![s] = lg]
      BY <1>1, <2>4, <2>5, <2>6, OneLogWritten
  <2>7. CASE Complete(c, s, lg)
      BY <1>1, <2>4, <2>5, <2>7, CompleteWrites
  <2> QED BY <2>3, <2>6, <2>7
<1>4. CASE ClientResumes(c) /\ log' # log
  <2>1. PICK s \in Server : s = client[c].node
      BY <1>4 DEF ClientInv, InHandler, ClientResumes
  <2>2. co[s] # "down" /\ Complete(c, s, log[s])
      BY <1>4, <2>1 DEF ClientResumes, Serving, storeVars
  <2>3. GoodLog(log[s]) /\ LastIsCached(log[s]) /\ FileExtends(log[s].file, log[s].file)
      BY <2>2, ExtendsSelf DEF LogInv, LogsGood
  <2> QED BY <1>1, <2>2, <2>3, CompleteWrites
<1> QED BY <1>2, <1>3, <1>4 DEF HandleKvs, ClientAdmitted, ClientRejected, storeVars

-----------------------------------------------------------------------------
(* The clients' handlers *)

(* In this step no handler begins and nobody wins.                         *)
HandlersEnd ==
    /\ client' \in [Client -> Handlers]
    /\ \A c \in Client : InHandler(client'[c]) =>
           InHandler(client[c]) /\ client'[c].node = client[c].node
    /\ \A s \in Server : state'[s] = "master" => state[s] = "master"
    /\ elected \subseteq elected'

(* Such a step leaves only winners with handlers.                          *)
LEMMA HandlersEndKeeps ==
    ASSUME ClientInv, HandlersEnd
    PROVE  ClientInv'
BY DEF ClientInv, HandlersEnd, Winner

(* So does one that leaves the handlers alone.                             *)
LEMMA ClientAside ==
    ASSUME ClientInv, UNCHANGED <<client, elected>>,
           \A s \in Server : state'[s] = "master" => state[s] = "master"
    PROVE  ClientInv'
BY DEF ClientInv, Winner

(* A broadcast wakes handlers that wait.                                   *)
LEMMA WokenKeeps ==
    ASSUME ClientInv, NEW s \in Server, client' = Woken(s) \/ client' = client,
           UNCHANGED elected, \A p \in Server : state'[p] = "master" => state[p] = "master"
    PROVE  ClientInv'
<1>1. CASE client' = Woken(s)
  <2>1. ASSUME NEW c \in Client
        PROVE  /\ client'[c] \in Handlers
               /\ InHandler(client'[c]) => InHandler(client[c]) /\ client'[c].node = client[c].node
    <3>1. client[c] \in Handlers
        BY DEF ClientInv
    <3>2. client'[c] = IF client[c].node = s /\ client[c].st = "waiting"
                         THEN [client[c] EXCEPT !.st = "woken"] ELSE client[c]
        BY <1>1 DEF Woken
    <3> QED BY <3>1, <3>2 DEF Handlers, InHandler
  <2>2. client' \in [Client -> Handlers]
    <3>1. client' = [c \in Client |-> client'[c]]
        BY <1>1 DEF Woken
    <3> QED BY <2>1, <3>1
  <2> QED BY <2>1, <2>2, HandlersEndKeeps DEF HandlersEnd
<1>2. CASE client' = client
    BY <1>2, ClientAside
<1> QED BY <1>1, <1>2

(* A handler answers its client and is gone.                               *)
LEMMA FinishedKeeps ==
    ASSUME ClientInv, NEW c \in Client, UNCHANGED <<elected, state>>,
           NEW st \in {"acked", "rejected", "failed", "lost"}, Finished(c, st)
    PROVE  ClientInv'
<1>1. [NoRequest EXCEPT !.st = st] \in Handlers /\ ~InHandler([NoRequest EXCEPT !.st = st])
    BY DEF NoRequest, Handlers, InHandler
<1> QED BY <1>1, HandlersEndKeeps DEF HandlersEnd, Finished, ClientInv

(* Every step of a handler: it begins at a master only.                    *)
LEMMA HandleKvsKeepsClients ==
    ASSUME VotingInv, LogInv, ClientInv, NEW c \in Client, HandleKvs(c)
    PROVE  ClientInv'
<1>1. UNCHANGED <<elected, state>>
    BY DEF HandleKvs, ClientAdmitted, ClientRejected, ClientSubmits, ClientResumes,
           serverVars, historyVars
<1>2. CASE \E st \in {"acked", "rejected", "failed", "lost"} : Finished(c, st)
    BY <1>1, <1>2, FinishedKeeps
<1>3. ASSUME NEW s \in Server, ClientAdmitted(c, s)
      PROVE  ClientInv'
  <2>1. [NoRequest EXCEPT !.st = "admitted", !.node = s] \in Handlers
      BY DEF NoRequest, Handlers
  <2>2. Winner(s)
      BY <1>3 DEF ClientAdmitted, ClientInv
  <2>3. client' = [client EXCEPT ![c] = [NoRequest EXCEPT !.st = "admitted", !.node = s]]
      BY <1>3 DEF ClientAdmitted
  <2>4. client'[c].node = s /\ \A d \in Client \ {c} : client'[d] = client[d]
      BY <2>3 DEF ClientInv, NoRequest
  <2>5. client' \in [Client -> Handlers]
      BY <2>1, <2>3 DEF ClientInv
  <2> QED BY <1>1, <2>2, <2>4, <2>5 DEF ClientInv, Winner, InHandler
<1>4. ASSUME NEW need \in Nat, InHandler(client[c]),
             client' = [client EXCEPT ![c].st = "waiting", ![c].need = need]
      PROVE  ClientInv'
  <2>1. [client[c] EXCEPT !.st = "waiting", !.need = need] \in Handlers
      BY <1>4 DEF ClientInv, Handlers
  <2>2. client' = [client EXCEPT ![c] = [client[c] EXCEPT !.st = "waiting", !.need = need]]
      BY <1>4 DEF ClientInv
  <2>3. client'[c].node = client[c].node /\ \A d \in Client \ {c} : client'[d] = client[d]
      BY <2>2 DEF ClientInv, Handlers
  <2> QED BY <1>1, <1>4, <2>1, <2>2, <2>3, HandlersEndKeeps DEF HandlersEnd, ClientInv
<1>5. ASSUME InHandler(client[c]), client' = [client EXCEPT ![c].st = "waiting"]
      PROVE  ClientInv'
  <2>1. client[c].need \in Nat /\ client[c] \in Handlers
      BY DEF ClientInv, Handlers
  <2>2. [client EXCEPT ![c].st = "waiting"]
           = [client EXCEPT ![c].st = "waiting", ![c].need = client[c].need]
      BY <2>1 DEF ClientInv, Handlers
  <2> QED BY <1>4, <1>5, <2>1, <2>2
<1>6. CASE ClientSubmits(c)
  <2>1. PICK s \in Server : s = client[c].node
      BY <1>6 DEF ClientInv, InHandler, ClientSubmits
  <2>2. PICK lg : lg = LogOp(log[s], [ZeroEntry EXCEPT !.cmd = Request[c], !.term = term[s]])
      OBVIOUS
  <2>3. LenUncommited(lg) \in Nat
      BY <1>6, <2>1, <2>2, SubmittedGood, LengthTyped DEF GoodLog, ClientSubmits, Serving
  <2>4. \/ \E st \in {"acked", "rejected", "failed", "lost"} : Finished(c, st)
        \/ client' = [client EXCEPT ![c].st = "waiting", ![c].need = LenUncommited(lg)]
      BY <1>6, <2>1, <2>2 DEF ClientSubmits, Complete
  <2>5. InHandler(client[c])
      BY <1>6 DEF ClientSubmits, InHandler
  <2> QED BY <1>2, <1>4, <2>3, <2>4, <2>5
<1>7. CASE ClientResumes(c)
  <2>1. \/ \E st \in {"acked", "rejected", "failed", "lost"} : Finished(c, st)
        \/ client' = [client EXCEPT ![c].st = "waiting"]
      BY <1>7 DEF ClientResumes, Complete
  <2>2. InHandler(client[c])
      BY <1>7 DEF ClientResumes, InHandler
  <2> QED BY <1>2, <1>5, <2>1, <2>2
<1>8. CASE ClientRejected(c)
    BY <1>2, <1>8 DEF ClientRejected
<1> QED BY <1>3, <1>6, <1>7, <1>8 DEF HandleKvs

(* A coroutine makes a server master only when it wins.                    *)
LEMMA CoroutineKeepsClients ==
    ASSUME VotingInv, ClientInv, NEW s \in Server, Coroutine(s)
    PROVE  ClientInv'
<1>1. CASE BecomeLeader(s)
  <2>1. /\ client' = client /\ state' = [state EXCEPT ![s] = "master"]
        /\ elected' = elected \cup {[cand |-> s, term |-> elTerm[s], votes |-> votes[s]]}
      BY <1>1 DEF BecomeLeader
  <2>2. Winner(s)'
    <3>1. PICK e : e = [cand |-> s, term |-> elTerm[s], votes |-> votes[s]]
        OBVIOUS
    <3>2. e \in elected' /\ e.cand = s
        BY <2>1, <3>1
    <3> QED BY <3>2 DEF Winner
  <2>3. \A p \in Server : Winner(p) => Winner(p)'
      BY <2>1 DEF Winner
  <2> QED BY <2>1, <2>2, <2>3 DEF ClientInv, VotingInv, VotingTypes
<1>2. CASE \/ LoopIteration(s) \/ SpawnFlushed(s) \/ ConsumerExpire(s) \/ ConsumerCancelled(s)
           \/ ElectionStart(s) \/ Canvass(s) \/ CountVote(s) \/ ElectionGivenUp(s)
           \/ ProducerTick(s) \/ ProducerCancelled(s)
           \/ \E i \in Slot : SessionStart(s, i)
  <2>1. UNCHANGED <<client, elected>>
      BY <1>2 DEF LoopIteration, SpawnFlushed, ConsumerExpire, ConsumerCancelled, ElectionStart,
           Canvass, CountVote, ElectionGivenUp, ProducerTick, ProducerCancelled, SessionStart,
           historyVars
  <2>2. state' = state \/ state' = [state EXCEPT ![s] = "condidate"]
      BY <1>2 DEF LoopIteration, SpawnFlushed, ConsumerExpire, ConsumerCancelled, ElectionStart,
           Canvass, CountVote, ElectionGivenUp, ProducerTick, ProducerCancelled, SessionStart,
           serverVars
  <2>3. \A p \in Server : state'[p] = "master" => state[p] = "master"
      BY <2>2 DEF VotingInv, VotingTypes
  <2> QED BY <2>1, <2>3, ClientAside
<1>3. ASSUME NEW i \in Slot, SessionReceive(s, i) \/ SessionExpire(s, i)
      PROVE  ClientInv'
  <2>1. /\ client' = Woken(s) \/ client' = client
        /\ UNCHANGED elected
      BY <1>3 DEF SessionReceive, SessionExpire, SessionOver, historyVars
  <2>2. \A p \in Server : state'[p] = "master" => state[p] = "master"
      BY <1>3 DEF SessionReceive, SessionExpire, serverVars, VotingInv, VotingTypes
  <2> QED BY <2>1, <2>2, WokenKeeps
<1> QED BY <1>1, <1>2, <1>3 DEF Coroutine

(* A handler of the cluster makes slaves only.                             *)
LEMMA HandlerKeepsClients ==
    ASSUME VotingInv, ClientInv, NEW s \in Server,
           \/ ReplicateRefused(s) \/ ReplicateDemotes(s) \/ SlaveReplicates(s)
           \/ VoteGranted(s) \/ VoteRefused(s) \/ Restart(s) \/ MessageLost
    PROVE  ClientInv'
<1>1. UNCHANGED <<client, elected>>
    BY DEF ReplicateRefused, ReplicateDemotes, SlaveReplicates, VoteGranted, VoteRefused,
           Restart, MessageLost, historyVars
<1>2. state' = state \/ state' = [state EXCEPT ![s] = "slave"]
    BY DEF ReplicateRefused, ReplicateDemotes, SlaveReplicates, VoteGranted, VoteRefused,
           Restart, MessageLost, serverVars
<1>3. \A p \in Server : state'[p] = "master" => state[p] = "master"
    BY <1>2 DEF VotingInv, VotingTypes
<1> QED BY <1>1, <1>3, ClientAside

(* Handlers end with their process.                                        *)
LEMMA DeathKeepsClients ==
    ASSUME VotingInv, ClientInv, NEW s \in Server, SlaveFatal(s) \/ Crash(s)
    PROVE  ClientInv'
<1>1. /\ client' = [c \in Client |-> IF client[c].node = s
                                       THEN [NoRequest EXCEPT !.st = "lost"] ELSE client[c]]
      /\ state' = [state EXCEPT ![s] = "slave"]
      /\ UNCHANGED elected
    BY DEF SlaveFatal, Crash, Dies, historyVars
<1>2. [NoRequest EXCEPT !.st = "lost"] \in Handlers /\ ~InHandler([NoRequest EXCEPT !.st = "lost"])
    BY DEF NoRequest, Handlers, InHandler
<1>3. client' \in [Client -> Handlers]
    BY <1>1, <1>2 DEF ClientInv
<1>4. \A c \in Client : InHandler(client'[c]) =>
          InHandler(client[c]) /\ client'[c].node = client[c].node
    BY <1>1, <1>2
<1>5. \A p \in Server : state'[p] = "master" => state[p] = "master"
    BY <1>1 DEF VotingInv, VotingTypes
<1> QED BY <1>1, <1>3, <1>4, <1>5, HandlersEndKeeps DEF HandlersEnd

-----------------------------------------------------------------------------
(* The inductive invariant of voting and replication.                      *)
ReplicaInv == VotingInv /\ LogInv /\ ClientInv

(* It holds at the start,                                                  *)
LEMMA InitReplicaInv == Init => ReplicaInv
<1> SUFFICES ASSUME Init
             PROVE  LogInv /\ ClientInv
    BY InitVotingInv DEF ReplicaInv
<1>1. LogsGood
    BY EmptyIsGood DEF Init, LogsGood, GoodLog
<1>2. SessionsTyped
    BY DEF Init, SessionsTyped, FreshSession
<1>3. PeersTyped
    BY DEF Init, PeersTyped, IsPeerLengths, EmptyMap
<1>4. ClientInv
    BY DEF Init, ClientInv, Handlers, InHandler, NoRequest
<1> QED BY <1>1, <1>2, <1>3, <1>4 DEF LogInv, MessagesGood, Init

(* every step keeps it and every file,                                     *)
LEMMA NextReplicaInv ==
    ASSUME ReplicaInv, [Next]_vars
    PROVE  ReplicaInv' /\ FilesGrow
<1>0. VotingInv /\ LogInv /\ ClientInv /\ VotingInv'
    BY NextVotingInv DEF ReplicaInv
<1>1. CASE UNCHANGED vars
  <2>1. UNCHANGED <<log, peerVars, session, co, net, client, elected, state>>
      BY <1>1 DEF vars, serverVars, storeVars, loopVars, historyVars
  <2>2. LogInv' /\ FilesGrow
      BY <1>0, <2>1, LogAside DEF SameRunning, NoNewContents
  <2> QED BY <1>0, <2>1, <2>2, ClientAside DEF ReplicaInv
<1>2. ASSUME NEW c \in Client, HandleKvs(c)
      PROVE  ReplicaInv' /\ FilesGrow
    BY <1>0, <1>2, ClientKeepsLogs, HandleKvsKeepsClients DEF ReplicaInv
<1>3. ASSUME NEW s \in Server, Coroutine(s)
      PROVE  ReplicaInv' /\ FilesGrow
  <2>1. LogInv' /\ FilesGrow
      BY <1>0, <1>3, LoopAside, SpawnFlushedKeeps, ProducerTickKeeps, SessionStartKeeps,
         SessionReceiveKeeps, SessionExpireKeeps DEF Coroutine
  <2> QED BY <1>0, <1>3, <2>1, CoroutineKeepsClients DEF ReplicaInv
<1>4. ASSUME NEW s \in Server, Handler(s)
      PROVE  ReplicaInv' /\ FilesGrow
  <2>1. LogInv' /\ FilesGrow
      BY <1>0, <1>4, RefusalAside, HandlerAside, SlaveReplicatesKeepsLogs, FailureKeepsLogs
      DEF Handler
  <2> QED BY <1>0, <1>4, <2>1, HandlerKeepsClients, DeathKeepsClients DEF Handler, ReplicaInv
<1>5. ASSUME NEW s \in Server, Crash(s) \/ Restart(s)
      PROVE  ReplicaInv' /\ FilesGrow
    BY <1>0, <1>5, FailureKeepsLogs, RestartKeepsLogs, DeathKeepsClients, HandlerKeepsClients
    DEF ReplicaInv
<1>6. CASE MessageLost
  <2>1. PICK s \in Server : TRUE
      BY FS_EmptySet, RaftClusterAssumption
  <2> QED BY <1>0, <1>6, <2>1, HandlerAside, HandlerKeepsClients DEF ReplicaInv
<1> QED BY <1>1, <1>2, <1>3, <1>4, <1>5, <1>6 DEF Next

(* so it holds throughout.                                                 *)
LEMMA SpecReplicaInv == Spec => []ReplicaInv
<1>1. ReplicaInv /\ [Next]_vars => ReplicaInv'
    BY NextReplicaInv
<1> QED BY InitReplicaInv, <1>1, PTL DEF Spec

(* The log of every running server is numbered without gaps and its cached *)
(* last entry and lengths are those of the file, whatever handlers,        *)
(* coroutines and clients log, commit and flush (middleware.go:139,        *)
(* raftapi.go:160-192): for any number of servers, sessions and messages.  *)
THEOREM ClusterLogsWellFormed == Spec => []LogsWellFormed
<1>1. ReplicaInv => LogsWellFormed
    BY ShapeGivesLengths DEF ReplicaInv, LogInv, LogsGood, GoodLog, LogsWellFormed
<1> QED BY SpecReplicaInv, <1>1, PTL

(* No step of any server takes back or rewrites a line of a raft.log: a    *)
(* slave flushes what is pending only, and a process that ends or starts   *)
(* again leaves the file as it is (logger.go:178-222).                     *)
THEOREM ClusterFilesOnlyGrow == Spec => FilesOnlyGrow
<1>1. ReplicaInv /\ [Next]_vars =>
        [\A s \in Server : \A i \in 1..Len(log[s].file) :
            i <= Len(log'[s].file) /\ log'[s].file[i] = log[s].file[i]]_vars
    BY NextReplicaInv DEF FilesGrow, FileExtends
<1> QED BY SpecReplicaInv, <1>1, PTL DEF Spec, FilesOnlyGrow

-----------------------------------------------------------------------------
(* The rest of the types *)

(* What a key-value store can hold.                                        *)
Stores == [Key -> Value \cup {NoValue}]

(* Timers, locks, contexts, stores and elections won.                      *)
FlagsTyped ==
    /\ timer \in [Server -> BOOLEAN]
    /\ poisoned \in [Server -> BOOLEAN]
    /\ cancelled \in [Server -> BOOLEAN]
    /\ kvs \in [Server -> Stores]
    /\ elected \subseteq [cand : Server, term : Terms, votes : SUBSET Server]

(* Messages have the fields their readers use.                             *)
MessagesTyped == net \subseteq Message

(* A command leaves a store a store.                                       *)
LEMMA AppliedTyped ==
    ASSUME NEW kv \in Stores, NEW cmd \in Command \cup {NoCommand}
    PROVE  Applied(kv, cmd) \in Stores
<1>1. CASE cmd = NoCommand
    BY <1>1 DEF Applied
<1>2. CASE cmd \in Command /\ cmd # NoCommand
  <2>1. cmd.key \in Key /\ cmd.val \in Value
      BY <1>2, RaftClusterAssumption
  <2>2. Applied(kv, cmd) = [kv EXCEPT ![cmd.key] = IF cmd.op = "delete" THEN NoValue ELSE cmd.val]
      BY <1>2 DEF Applied
  <2> QED BY <2>1, <2>2 DEF Stores
<1> QED BY <1>1, <1>2

(* At most the flag of s changes.                                          *)
FlagSet(old, new, s) ==
    new = old \/ \E b \in BOOLEAN : new = [old EXCEPT ![s] = b]

(* The store of s changes by the last entry of a good log or by a request, *)
(* if at all.                                                              *)
StoreSet(s) ==
    kvs' = kvs \/ \E cmd \in Command \cup {NoCommand} : kvs' = [kvs EXCEPT ![s] = Applied(@, cmd)]

(* A step that sets flags and stores of one server this way.               *)
LEMMA FlagsKept ==
    ASSUME FlagsTyped, NEW s \in Server,
           FlagSet(timer, timer', s), FlagSet(poisoned, poisoned', s),
           FlagSet(cancelled, cancelled', s), StoreSet(s),
           elected' \subseteq elected \cup [cand : Server, term : Terms, votes : SUBSET Server]
    PROVE  FlagsTyped'
<1>1. kvs' \in [Server -> Stores]
  <2>1. ASSUME NEW cmd \in Command \cup {NoCommand}, kvs' = [kvs EXCEPT ![s] = Applied(@, cmd)]
        PROVE  kvs' \in [Server -> Stores]
    <3>1. Applied(kvs[s], cmd) \in Stores
        BY AppliedTyped DEF FlagsTyped
    <3> QED BY <2>1, <3>1 DEF FlagsTyped
  <2> QED BY <2>1 DEF StoreSet, FlagsTyped
<1>2. /\ timer' \in [Server -> BOOLEAN]
      /\ poisoned' \in [Server -> BOOLEAN]
      /\ cancelled' \in [Server -> BOOLEAN]
    BY DEF FlagsTyped, FlagSet
<1>3. elected' \subseteq [cand : Server, term : Terms, votes : SUBSET Server]
    BY DEF FlagsTyped
<1>4. kvs' \in [Server -> Stores] => kvs' \in [Server -> [Key -> Value \cup {NoValue}]]
    BY DEF Stores
<1> QED BY <1>1, <1>2, <1>3, <1>4 DEF FlagsTyped, Stores

(* The coroutines do,                                                      *)
LEMMA CoroutineFlags ==
    ASSUME VotingInv, FlagsTyped, NEW s \in Server, Coroutine(s)
    PROVE  FlagsTyped'
<1>1. CASE \/ LoopIteration(s) \/ SpawnFlushed(s) \/ ElectionStart(s) \/ Canvass(s)
           \/ \E i \in Slot : SessionStart(s, i) \/ SessionReceive(s, i) \/ SessionExpire(s, i)
  <2>1. CASE LoopIteration(s) \/ SpawnFlushed(s)
      BY <2>1, FlagsKept DEF LoopIteration, SpawnFlushed, storeVars, loopVars, historyVars,
           FlagSet, StoreSet
  <2>2. CASE ElectionStart(s) \/ Canvass(s)
      BY <2>2, FlagsKept DEF ElectionStart, Canvass, storeVars, loopVars, historyVars,
           FlagSet, StoreSet
  <2>3. ASSUME NEW i \in Slot, SessionStart(s, i) \/ SessionReceive(s, i)
        PROVE  FlagsTyped'
      BY <2>3, FlagsKept DEF SessionStart, SessionReceive, storeVars, loopVars, historyVars,
           FlagSet, StoreSet
  <2>4. ASSUME NEW i \in Slot, SessionExpire(s, i)
        PROVE  FlagsTyped'
      BY <2>4, FlagsKept DEF SessionExpire, storeVars, loopVars, historyVars, FlagSet, StoreSet
  <2> QED BY <1>1, <2>1, <2>2, <2>3, <2>4
<1>2. CASE ConsumerExpire(s) \/ ConsumerCancelled(s) \/ ProducerTick(s) \/ ProducerCancelled(s)
    BY <1>2, FlagsKept DEF ConsumerExpire, ConsumerCancelled, ProducerTick, ProducerCancelled,
           Leaves, storeVars, historyVars, FlagSet, StoreSet
<1>3. CASE CountVote(s) \/ ElectionGivenUp(s)
    BY <1>3, FlagsKept DEF CountVote, ElectionGivenUp, Leaves, storeVars, loopVars, historyVars,
           FlagSet, StoreSet
<1>4. CASE BecomeLeader(s)
  <2>1. [cand |-> s, term |-> elTerm[s], votes |-> votes[s]]
            \in [cand : Server, term : Terms, votes : SUBSET Server]
      BY DEF VotingInv, VotingTypes
  <2> QED BY <1>4, <2>1, FlagsKept DEF BecomeLeader, Leaves, storeVars, FlagSet, StoreSet
<1> QED BY <1>1, <1>2, <1>3, <1>4 DEF Coroutine

(* the handlers of the cluster and its failures do,                        *)
LEMMA HandlerFlags ==
    ASSUME VotingInv, LogInv, FlagsTyped, NEW s \in Server,
           Handler(s) \/ Crash(s) \/ Restart(s) \/ MessageLost
    PROVE  FlagsTyped'
<1>1. CASE ReplicateRefused(s) \/ VoteRefused(s) \/ Restart(s) \/ MessageLost
    BY <1>1, FlagsKept DEF ReplicateRefused, VoteRefused, Restart, MessageLost, storeVars, loopVars,
           historyVars, FlagSet, StoreSet
<1>2. CASE ReplicateDemotes(s) \/ VoteGranted(s)
  <2>1. cancelled' = [cancelled EXCEPT ![s] = co[s] \notin {"loop", "won", "stuck"}]
      BY <1>2 DEF ReplicateDemotes, VoteGranted, Cancel
  <2>2. FlagSet(cancelled, cancelled', s)
      BY <2>1 DEF FlagSet
  <2>3. /\ timer' = [timer EXCEPT ![s] = TRUE] /\ UNCHANGED <<poisoned, kvs, elected>>
      BY <1>2 DEF ReplicateDemotes, VoteGranted, storeVars, historyVars
  <2> QED BY <2>2, <2>3, FlagsKept DEF FlagSet, StoreSet
<1>3. CASE SlaveFatal(s) \/ Crash(s)
    BY <1>3, FlagsKept DEF SlaveFatal, Crash, Dies, historyVars, FlagSet, StoreSet
<1>4. CASE SlaveReplicates(s)
  <2>1. PICK m \in net :
            /\ m.type = "replicate" /\ co[s] # "down"
            /\ timer' = [timer EXCEPT ![s] = TRUE]
            /\ UNCHANGED <<poisoned, cancelled, elected>>
            /\ kvs' = IF m.mean = "logcommit"
                        THEN [kvs EXCEPT ![s] = Applied(@, LastOp(Stored(s, m)).cmd)] ELSE kvs
      BY <1>4 DEF SlaveReplicates, Serving, Stored, historyVars
  <2>2. LastOp(Stored(s, m)).cmd \in Command \cup {NoCommand}
    <3>1. PICK lg : lg = Stored(s, m)
        OBVIOUS
    <3>2. lg \in Log
        BY <2>1, <3>1, StoredGood DEF GoodLog
    <3>3. lg.last.cmd \in Command \cup {NoCommand}
        BY <3>2 DEF Log, Entry, ZeroEntry
    <3> QED BY <3>1, <3>3 DEF LastOp
  <2> QED BY <2>1, <2>2, FlagsKept DEF FlagSet, StoreSet
<1> QED BY <1>1, <1>2, <1>3, <1>4 DEF Handler

(* and so do the handlers of clients.                                      *)
LEMMA ClientFlags ==
    ASSUME VotingInv, ClientInv, FlagsTyped, NEW c \in Client, HandleKvs(c)
    PROVE  FlagsTyped'
<1>1. UNCHANGED <<cancelled, elected>>
    BY DEF HandleKvs, ClientAdmitted, ClientRejected, ClientSubmits, ClientResumes, loopVars,
           historyVars
<1>2. PICK t \in Server : TRUE
    BY FS_EmptySet, RaftClusterAssumption
<1>3. CASE \/ ClientRejected(c) \/ \E s \in Server : ClientAdmitted(c, s)
    BY <1>1, <1>2, <1>3, FlagsKept DEF ClientAdmitted, ClientRejected, storeVars, FlagSet, StoreSet
<1>4. CASE ClientSubmits(c) \/ ClientResumes(c)
  <2>1. PICK s \in Server : s = client[c].node
      BY <1>4 DEF ClientInv, InHandler, ClientSubmits, ClientResumes
  <2>2. Request[c] \in Command
      BY RaftClusterAssumption
  <2>3. StoreSet(s)
      BY <1>4, <2>1, <2>2 DEF ClientSubmits, ClientResumes, Complete, StoreSet, storeVars
  <2>4. FlagSet(timer, timer', s) /\ FlagSet(poisoned, poisoned', s)
      BY <1>4, <2>1 DEF ClientSubmits, ClientResumes, FlagSet
  <2> QED BY <1>1, <2>3, <2>4, FlagsKept DEF FlagSet
<1> QED BY <1>3, <1>4 DEF HandleKvs

(* A request for replication that was sent is typed, and so is its answer.  *)
LEMMA RequestTyped ==
    ASSUME MessagesTyped, NEW m \in net, m.type = "replicate"
    PROVE  m.from \in Server /\ m.to \in Server /\ m.slot \in Slot
BY DEF MessagesTyped, Message

(* The answer goes to the session that asked.                              *)
LEMMA AnswerTyped ==
    ASSUME MessagesTyped, NEW m \in net, m.type = "replicate", NEW len \in Nat,
           NEW ack \in BOOLEAN, net' = Answered(m, len, ack)
    PROVE  MessagesTyped'
<1> DEFINE r == [type |-> "replicated", from |-> m.to, to |-> m.from, slot |-> m.slot,
                 len |-> len, ack |-> ack]
<1>1. r \in [type : {"replicated"}, from : Server, to : Server, slot : Slot, len : Nat,
             ack : BOOLEAN]
    BY RequestTyped
<1>2. r \in Message
    BY <1>1 DEF Message
<1>3. net' \subseteq net \cup {r}
    BY DEF Answered
<1> QED BY <1>2, <1>3 DEF MessagesTyped, Message

(* A condidate asks for votes with its term and its last entry.            *)
LEMMA CanvassTyped ==
    ASSUME VotingInv, LogInv, MessagesTyped, NEW s \in Server, Canvass(s)
    PROVE  MessagesTyped'
<1>1. log[s] \in Log /\ GoodLog(log[s]) /\ LastIsCached(log[s])
    BY DEF LogInv, LogsGood, Canvass
<1>2. LenCommited(log[s]) \in Nat
    BY <1>1, LengthTyped
<1>3. LastOp(log[s]).term \in Terms
  <2>1. CASE log[s].file = <<>>
    <3>1. log[s].last = ZeroEntry
        BY <1>1, <2>1 DEF LastIsCached
    <3> QED BY <3>1, RaftClusterAssumption DEF LastOp, ZeroEntry, Terms
  <2>2. CASE log[s].file # <<>>
    <3>1. /\ Len(log[s].file) \in 1..Len(Content(log[s]))
          /\ log[s].last = Content(log[s])[Len(log[s].file)]
      <4>1. PICK f \in Seq(Entry) : f = log[s].file
          BY <1>1 DEF Log
      <4>2. Len(f) \in 1..Len(f) /\ Len(f) \in Nat
          BY <2>2, <4>1
      <4>3. Len(f) <= Len(Content(log[s])) /\ Len(Content(log[s])) \in Nat
          BY <1>1, <4>1, FileIsPrefix
      <4>4. Content(log[s])[Len(f)] = f[Len(f)]
          BY <1>1, <4>1, <4>2, FileIsPrefix
      <4> QED BY <1>1, <2>2, <4>1, <4>2, <4>3, <4>4 DEF LastIsCached
    <3> QED BY <1>1, <3>1 DEF GoodLog, LastOp
  <2> QED BY <2>1, <2>2
<1>4. elTerm[s] \in Terms
    BY DEF VotingInv, VotingTypes
<1>5. ASSUME NEW m \in net' \ net
      PROVE  m \in Message
  <2>1. PICK p \in Others(s) :
            m = [type |-> "vote", from |-> s, to |-> p, elTerm |-> elTerm[s],
                 logLen |-> LenCommited(log[s]), logTerm |-> LastOp(log[s]).term]
      BY <1>5 DEF Canvass
  <2>2. p \in Server
      BY DEF Others
  <2>3. m \in [type : {"vote"}, from : Server, to : Server, elTerm : Terms, logLen : Nat,
               logTerm : Terms]
      BY <1>2, <1>3, <1>4, <2>1, <2>2
  <2> QED BY <2>3 DEF Message
<1> QED BY <1>5 DEF MessagesTyped, Message

(* A session sends an entry of the log, or a bare heartbeat.               *)
LEMMA SessionStartTyped ==
    ASSUME VotingInv, LogInv, MessagesTyped, NEW s \in Server, NEW i \in Slot, SessionStart(s, i)
    PROVE  MessagesTyped'
<1>1. co[s] # "down" /\ term[s] \in Terms /\ session[s][i].first \in BOOLEAN
    BY DEF SessionStart, LogInv, SessionsTyped, VotingInv, VotingTypes
<1>2. ASSUME NEW m \in net' \ net
      PROVE  m \in Message
  <2>1. PICK p \in Others(s) : \E ship :
            /\ ship = Shipment(s, p, session[s][i].first)
            /\ m = [type |-> "replicate", mean |-> ship.mean, entry |-> ship.entry,
                    from |-> s, to |-> p, slot |-> i, term |-> term[s]]
      BY <1>2 DEF SessionStart
  <2>2. PICK ship :
            /\ ship = Shipment(s, p, session[s][i].first)
            /\ m = [type |-> "replicate", mean |-> ship.mean, entry |-> ship.entry,
                    from |-> s, to |-> p, slot |-> i, term |-> term[s]]
      BY <2>1
  <2>3. p \in Server
      BY DEF Others
  <2>4. /\ ship.mean \in {"heartbeat", "logappend", "logcommit"}
        /\ ship.mean = "heartbeat" => ship.entry = ZeroEntry
      BY <2>2 DEF Shipment
  <2>5. ship.entry \in Entry \cup {ZeroEntry}
      BY <1>1, <2>2, <2>4, ShipsEntries DEF TermEntry
  <2>6. m \in [type : {"replicate"}, mean : {"heartbeat", "logappend", "logcommit"},
               entry : Entry \cup {ZeroEntry}, from : Server, to : Server, slot : Slot,
               term : Terms]
      BY <1>1, <2>2, <2>3, <2>4, <2>5
  <2> QED BY <2>6 DEF Message
<1> QED BY <1>2 DEF MessagesTyped, Message

(* Taking messages away leaves the others typed.                           *)
LEMMA FewerMessages ==
    ASSUME MessagesTyped, net' \subseteq net
    PROVE  MessagesTyped'
BY DEF MessagesTyped, Message

(* A handler takes a request and sends at most a typed answer.             *)
LEMMA HandlerTyped ==
    ASSUME VotingInv, LogInv, MessagesTyped, NEW s \in Server, Handler(s)
    PROVE  MessagesTyped'
<1>1. CASE VoteGranted(s)
  <2>1. PICK m \in net : /\ m.type = "vote"
                         /\ net' \subseteq net \cup {[type |-> "granted", from |-> s, to |-> m.from]}
      BY <1>1 DEF VoteGranted
  <2>2. m.from \in Server
      BY <2>1 DEF VotingInv, VotingTypes
  <2>3. [type |-> "granted", from |-> s, to |-> m.from]
            \in [type : {"granted"}, from : Server, to : Server]
      BY <2>2
  <2> QED BY <2>1, <2>3 DEF MessagesTyped, Message
<1>2. CASE VoteRefused(s)
    BY <1>2, FewerMessages DEF VoteRefused
<1>3. CASE SlaveFatal(s)
    BY <1>3, FewerMessages DEF SlaveFatal, Dies
<1>4. CASE ReplicateRefused(s)
    BY <1>4, AnswerTyped DEF ReplicateRefused
<1>5. CASE ReplicateDemotes(s)
  <2>1. LenUncommited(log[s]) \in Nat
      BY LengthTyped DEF LogInv, LogsGood
  <2> QED BY <1>5, <2>1, AnswerTyped DEF ReplicateDemotes, Progress
<1>6. CASE SlaveReplicates(s)
  <2>1. PICK m \in net : /\ m.type = "replicate" /\ co[s] # "down"
                         /\ net' = Progress(m, Stored(s, m))
      BY <1>6 DEF SlaveReplicates, Serving, Stored
  <2>2. PICK lg : lg = Stored(s, m)
      OBVIOUS
  <2>3. LenUncommited(lg) \in Nat
      BY <2>1, <2>2, StoredGood, LengthTyped DEF GoodLog
  <2> QED BY <2>1, <2>2, <2>3, AnswerTyped DEF Progress
<1> QED BY <1>1, <1>2, <1>3, <1>4, <1>5, <1>6 DEF Handler

(* The invariant with the rest of the types.                               *)
TypeInv == ReplicaInv /\ FlagsTyped /\ MessagesTyped

(* It holds at the start,                                                  *)
LEMMA InitTypeInv == Init => TypeInv
<1>1. Init => FlagsTyped
    BY DEF Init, FlagsTyped, Stores
<1>2. Init => MessagesTyped
    BY DEF Init, MessagesTyped
<1> QED BY <1>1, <1>2, InitReplicaInv DEF TypeInv

(* every step keeps it,                                                    *)
LEMMA NextTypeInv ==
    ASSUME TypeInv, [Next]_vars
    PROVE  TypeInv'
<1>0. VotingInv /\ LogInv /\ ClientInv /\ FlagsTyped /\ MessagesTyped /\ ReplicaInv'
    BY NextReplicaInv DEF TypeInv, ReplicaInv
<1>1. CASE UNCHANGED vars
    BY <1>0, <1>1 DEF TypeInv, FlagsTyped, MessagesTyped, Message, vars, storeVars, loopVars,
                      historyVars
<1>2. ASSUME NEW c \in Client, HandleKvs(c)
      PROVE  TypeInv'
  <2>1. net' = net
      BY <1>2 DEF HandleKvs, ClientAdmitted, ClientRejected, ClientSubmits, ClientResumes
  <2> QED BY <1>0, <1>2, <2>1, ClientFlags, FewerMessages DEF TypeInv
<1>3. ASSUME NEW s \in Server, Coroutine(s)
      PROVE  TypeInv'
  <2>1. ASSUME Canvass(s)
        PROVE  MessagesTyped'
      BY <1>0, <2>1, CanvassTyped
  <2>2. ASSUME NEW i \in Slot, SessionStart(s, i)
        PROVE  MessagesTyped'
      BY <1>0, <2>2, SessionStartTyped
  <2>3. ASSUME ~Canvass(s), ~\E i \in Slot : SessionStart(s, i)
        PROVE  MessagesTyped'
    <3>1. CASE \/ LoopIteration(s) \/ SpawnFlushed(s) \/ ConsumerExpire(s)
               \/ ConsumerCancelled(s) \/ ElectionStart(s)
      <4>1. net' = net
          BY <3>1 DEF LoopIteration, SpawnFlushed, ConsumerExpire, ConsumerCancelled, ElectionStart
      <4> QED BY <1>0, <4>1, FewerMessages
    <3>2. CASE BecomeLeader(s) \/ ProducerTick(s) \/ ProducerCancelled(s)
      <4>1. net' = net
          BY <3>2 DEF BecomeLeader, ProducerTick, ProducerCancelled
      <4> QED BY <1>0, <4>1, FewerMessages
    <3>3. CASE CountVote(s) \/ ElectionGivenUp(s)
      <4>1. net' \subseteq net
          BY <3>3 DEF CountVote, ElectionGivenUp, WithoutVotesFor
      <4> QED BY <1>0, <4>1, FewerMessages
    <3>4. ASSUME NEW i \in Slot, SessionReceive(s, i) \/ SessionExpire(s, i)
          PROVE  MessagesTyped'
      <4>1. net' \subseteq net
          BY <3>4 DEF SessionReceive, SessionExpire, SessionOver
      <4> QED BY <1>0, <4>1, FewerMessages
    <3> QED BY <1>3, <2>3, <3>1, <3>2, <3>3, <3>4 DEF Coroutine
  <2>4. MessagesTyped'
      BY <2>1, <2>2, <2>3
  <2> QED BY <1>0, <1>3, <2>4, CoroutineFlags DEF TypeInv
<1>4. ASSUME NEW s \in Server, Handler(s)
      PROVE  TypeInv'
    BY <1>0, <1>4, HandlerFlags, HandlerTyped DEF TypeInv
<1>5. ASSUME NEW s \in Server, Crash(s) \/ Restart(s)
      PROVE  TypeInv'
  <2>1. net' \subseteq net
      BY <1>5 DEF Crash, Dies, Restart
  <2> QED BY <1>0, <1>5, <2>1, HandlerFlags, FewerMessages DEF TypeInv
<1>6. CASE MessageLost
  <2>1. PICK s \in Server : TRUE
      BY FS_EmptySet, RaftClusterAssumption
  <2>2. net' \subseteq net
      BY <1>6 DEF MessageLost
  <2> QED BY <1>0, <1>6, <2>1, <2>2, HandlerFlags, FewerMessages DEF TypeInv
<1> QED BY <1>1, <1>2, <1>3, <1>4, <1>5, <1>6 DEF Next

(* so it holds throughout.                                                 *)
LEMMA SpecTypeInv == Spec => []TypeInv
BY InitTypeInv, NextTypeInv, PTL DEF Spec

(* Every variable holds what its Go counterpart can hold, through every    *)
(* interleaving, crash and lost message: lengths are lengths, messages     *)
(* have the fields their readers use, entries carry terms some server has  *)
(* been in, and Term passes MaxTerm by one at most, although a handler may *)
(* store it while Election_co adds to it (middleware.go:230,               *)
(* raftapi.go:131).                                                        *)
THEOREM ClusterTypeCorrect == Spec => []TypeOK
<1>1. TypeInv => TypeOK
    BY DEF TypeInv, ReplicaInv, VotingInv, VotingTypes, LogInv, LogsGood, SessionsTyped, PeersTyped,
           ClientInv, Handlers, FlagsTyped, Stores, MessagesTyped, TypeOK
<1> QED BY SpecTypeInv, <1>1, PTL

-----------------------------------------------------------------------------
(* What a log file adds up to *)

(* A set of positions has a last one.                                      *)
LEMMA HasLast ==
    ASSUME NEW n \in Nat, NEW S \in SUBSET (1..n), S # {}
    PROVE  \E x \in S : \A y \in S : y <= x
<1> DEFINE Less == {ss \in Nat \X Nat : ss[1] < ss[2]}
           Below == {n - x : x \in S}
<1>1. Below \subseteq Nat /\ Below # {}
  <2>1. \A x \in S : n - x \in Nat
      OBVIOUS
  <2>2. PICK x \in S : TRUE
      OBVIOUS
  <2>3. n - x \in Below
      OBVIOUS
  <2> QED BY <2>1, <2>3
<1>2. IsWellFoundedOn(Less, Nat)
    BY NatLessThanWellFounded DEF OpToRel
<1>3. PICK b \in Below : \A d \in Below : ~(<<d, b>> \in Less)
  <2> HIDE DEF Below, Less
  <2>1. PICK d : d \in Below
      BY <1>1
  <2> QED BY <1>1, <1>2, <2>1, WFMin
<1>4. \A d \in Below : b <= d
  <2> SUFFICES ASSUME NEW d \in Below, d < b
               PROVE  FALSE
      BY <1>1
  <2>1. d \in Nat /\ b \in Nat
      BY <1>1
  <2> HIDE DEF Below
  <2>2. <<d, b>> \in Less
      BY <2>1 DEF Less
  <2> QED BY <1>3, <2>2
<1>5. PICK x \in S : b = n - x
    OBVIOUS
<1>6. \A y \in S : y <= x
  <2> TAKE y \in S
  <2>1. n - x <= n - y
      BY <1>4, <1>5
  <2> QED BY <2>1
<1> QED BY <1>6

(* There is only one last entry about a key.                               *)
LEMMA LastTouchingIs ==
    ASSUME NEW file \in Seq(Entry), NEW k, NEW x \in Touching(file, k),
           \A j \in Touching(file, k) : j <= x
    PROVE  LastTouching(file, k) = x
<1>1. Touching(file, k) \subseteq Nat
    BY DEF Touching
<1>2. /\ LastTouching(file, k) \in Touching(file, k)
      /\ \A j \in Touching(file, k) : j <= LastTouching(file, k)
    BY DEF LastTouching
<1>3. LastTouching(file, k) <= x /\ x <= LastTouching(file, k)
    BY <1>2
<1> QED BY <1>1, <1>2, <1>3

(* An entry is about one key, and carrying it out sets that key's value.   *)
LEMMA EntryTouches ==
    ASSUME NEW e \in Entry
    PROVE  /\ e.cmd \in Command /\ e.cmd # NoCommand
           /\ e.cmd.key \in Key
           /\ \A kv : Applied(kv, e.cmd) = [kv EXCEPT ![e.cmd.key] = ValueOf(e)]
BY NoCommandAssumption, RaftClusterAssumption DEF Entry, Applied, ValueOf

(* One entry more in the file is one request more in the replayed store.   *)
LEMMA ReplayedAppend ==
    ASSUME NEW f \in Seq(Entry), NEW e \in Entry
    PROVE  Replayed(Append(f, e)) = Applied(Replayed(f), e.cmd)
<1> DEFINE n == Len(f)
<1>1. PICK g : g = Append(f, e)
    OBVIOUS
<1>2. /\ g \in Seq(Entry) /\ Len(g) = n + 1 /\ g[n + 1] = e /\ n \in Nat
      /\ \A i \in 1..n : g[i] = f[i]
    BY <1>1
<1>3. /\ e.cmd.key \in Key
      /\ Applied(Replayed(f), e.cmd) = [Replayed(f) EXCEPT ![e.cmd.key] = ValueOf(e)]
    BY EntryTouches
<1> HIDE DEF n
<1>4. ASSUME NEW k \in Key
      PROVE  Replayed(g)[k] = IF k = e.cmd.key THEN ValueOf(e) ELSE Replayed(f)[k]
  <2>1. CASE k = e.cmd.key
    <3>1. n + 1 \in Touching(g, k) /\ \A j \in Touching(g, k) : j <= n + 1
        BY <1>2, <2>1 DEF Touching
    <3>2. LastTouching(g, k) = n + 1
        BY <1>2, <3>1, LastTouchingIs
    <3> QED BY <1>2, <2>1, <3>1, <3>2 DEF Replayed, ReplayedValue
  <2>2. CASE k # e.cmd.key
    <3>1. Touching(g, k) = Touching(f, k)
        BY <1>2, <2>2 DEF Touching, n
    <3>2. CASE Touching(f, k) = {}
        BY <2>2, <3>1, <3>2 DEF Replayed, ReplayedValue
    <3>3. CASE Touching(f, k) # {}
      <4>1. PICK x \in Touching(f, k) : \A j \in Touching(f, k) : j <= x
        <5>1. Touching(f, k) \in SUBSET (1..n)
            BY DEF Touching, n
        <5> QED BY <1>2, <3>3, <5>1, HasLast
      <4>2. LastTouching(f, k) = x /\ LastTouching(g, k) = x
          BY <1>2, <3>1, <4>1, LastTouchingIs
      <4>3. g[x] = f[x]
          BY <1>2, <4>1 DEF Touching, n
      <4> QED BY <2>2, <3>1, <3>3, <4>2, <4>3 DEF Replayed, ReplayedValue
    <3> QED BY <3>2, <3>3
  <2> QED BY <2>1, <2>2
<1>5. Replayed(f) = [k \in Key |-> Replayed(f)[k]] /\ Replayed(g) = [k \in Key |-> Replayed(g)[k]]
    BY DEF Replayed
<1>6. Replayed(g) = [Replayed(f) EXCEPT ![e.cmd.key] = ValueOf(e)]
    BY <1>3, <1>4, <1>5
<1> QED BY <1>1, <1>3, <1>6

(* Carrying out the last entry of a file again changes nothing.            *)
LEMMA ReplayedAgain ==
    ASSUME NEW f \in Seq(Entry), f # <<>>
    PROVE  Applied(Replayed(f), f[Len(f)].cmd) = Replayed(f)
<1> DEFINE n == Len(f)
           e == f[n]
           k == e.cmd.key
<1>1. n \in Nat /\ n \in 1..n /\ e \in Entry
    OBVIOUS
<1>2. /\ k \in Key
      /\ Applied(Replayed(f), e.cmd) = [Replayed(f) EXCEPT ![k] = ValueOf(e)]
    BY <1>1, EntryTouches
<1>3. n \in Touching(f, k) /\ \A j \in Touching(f, k) : j <= n
    BY <1>1 DEF Touching
<1>4. LastTouching(f, k) = n
    BY <1>3, LastTouchingIs
<1>5. Replayed(f)[k] = ValueOf(e)
    BY <1>2, <1>3, <1>4 DEF Replayed, ReplayedValue
<1>6. Replayed(f) = [q \in Key |-> Replayed(f)[q]]
    BY DEF Replayed
<1> HIDE DEF n, e, k
<1>7. [Replayed(f) EXCEPT ![k] = ValueOf(e)] = Replayed(f)
    BY <1>2, <1>5, <1>6
<1> QED BY <1>2, <1>7 DEF e, n

-----------------------------------------------------------------------------
(* The store of a server that never won an election replays its file.      *)
Replays == \A s \in Server : Winner(s) \/ kvs[s] = Replayed(log[s].file)

(* A slave that logs an entry, or is told to commit, changes its store as  *)
(* much as its file: by the entry that was pending, by the last one once   *)
(* more when nothing was, by nothing when nothing was ever written.        *)
LEMMA CommitReplays ==
    ASSUME NEW lg \in Log, LastIsCached(lg)
    PROVE  Replayed(LogCommit(lg).file) = Applied(Replayed(lg.file), LastOp(LogCommit(lg)).cmd)
<1>0. lg.file \in Seq(Entry) /\ lg.pend \in Seq(Entry)
    BY DEF Log
<1>1. CASE lg.pend # <<>>
  <2>1. PICK h \in Entry : h = Head(lg.pend)
      BY <1>0, <1>1
  <2>2. LogCommit(lg) = [file |-> Append(lg.file, h), last |-> h, pend |-> Tail(lg.pend)]
      BY <1>1, <2>1 DEF LogCommit
  <2>3. LogCommit(lg).file = Append(lg.file, h) /\ LastOp(LogCommit(lg)) = h
      BY <2>2 DEF LastOp
  <2> QED BY <1>0, <2>3, ReplayedAppend
<1>2. CASE lg.pend = <<>>
  <2>1. LogCommit(lg) = lg /\ LastOp(lg) = lg.last
      BY <1>2 DEF LogCommit, LastOp
  <2>2. CASE lg.file = <<>>
    <3>1. lg.last.cmd = NoCommand
        BY <2>2 DEF LastIsCached, ZeroEntry
    <3> QED BY <2>1, <3>1 DEF Applied
  <2>3. CASE lg.file # <<>>
    <3>1. lg.last = lg.file[Len(lg.file)]
        BY <2>3 DEF LastIsCached
    <3>2. Applied(Replayed(lg.file), lg.last.cmd) = Replayed(lg.file)
        BY <1>0, <2>3, <3>1, ReplayedAgain
    <3> QED BY <2>1, <3>2
  <2> QED BY <2>2, <2>3
<1> QED BY <1>1, <1>2

(* A step that leaves the stores and the files alone.                      *)
LEMMA ReplaysAside ==
    ASSUME Replays, UNCHANGED kvs, elected \subseteq elected',
           \A s \in Server : log'[s].file = log[s].file
    PROVE  Replays'
BY DEF Replays, Winner

(* A slave changes its file and its store by the same entry                *)
(* (raftapi.go:176-192).                                                   *)
LEMMA SlaveReplays ==
    ASSUME TypeInv, Replays, NEW s \in Server, SlaveReplicates(s)
    PROVE  Replays'
<1>1. PICK m \in net :
          /\ m.type = "replicate" /\ co[s] # "down"
          /\ log' = [log EXCEPT ![s] = Stored(s, m)]
          /\ kvs' = IF m.mean = "logcommit"
                      THEN [kvs EXCEPT ![s] = Applied(@, LastOp(Stored(s, m)).cmd)] ELSE kvs
          /\ elected' = elected
    BY DEF SlaveReplicates, Serving, Stored, historyVars
<1>2. PICK lg : lg = Logged(log[s], m)
    OBVIOUS
<1>3. GoodLog(log[s]) /\ LastIsCached(log[s])
    BY <1>1 DEF TypeInv, ReplicaInv, LogInv, LogsGood
<1>4. m.mean # "heartbeat" => m.entry \in TermEntry
    BY <1>1 DEF TypeInv, ReplicaInv, LogInv, MessagesGood
<1>5. lg \in Log /\ LastIsCached(lg) /\ lg.file = log[s].file
    BY <1>2, <1>3, <1>4, LoggedGood DEF GoodLog
<1>6. /\ kvs \in [Server -> Stores] /\ DOMAIN log = Server
      /\ \A p \in Server : p # s => log'[p] = log[p] /\ kvs'[p] = kvs[p]
    BY <1>1 DEF TypeInv, FlagsTyped, ReplicaInv, LogInv, LogsGood
<1>7. Winner(s) \/ kvs'[s] = Replayed(log'[s].file)
  <2> SUFFICES ASSUME ~Winner(s)
               PROVE  kvs'[s] = Replayed(log'[s].file)
      OBVIOUS
  <2>1. kvs[s] = Replayed(lg.file)
      BY <1>5 DEF Replays
  <2>2. CASE m.mean = "logcommit"
    <3>1. Stored(s, m) = LogCommit(lg)
        BY <1>2, <2>2 DEF Stored
    <3>2. log'[s] = LogCommit(lg) /\ kvs'[s] = Applied(kvs[s], LastOp(LogCommit(lg)).cmd)
        BY <1>1, <1>6, <2>2, <3>1
    <3> QED BY <1>5, <2>1, <3>2, CommitReplays
  <2>3. CASE m.mean # "logcommit"
    <3>1. log'[s] = lg /\ kvs'[s] = kvs[s]
        BY <1>1, <1>2, <1>6, <2>3 DEF Stored
    <3> QED BY <2>1, <3>1
  <2> QED BY <2>2, <2>3
<1> QED BY <1>1, <1>6, <1>7 DEF Replays, Winner

(* A client's request is carried out at a server that has won.             *)
LEMMA ClientReplays ==
    ASSUME TypeInv, Replays, NEW c \in Client, HandleKvs(c)
    PROVE  Replays'
<1>0. /\ DOMAIN log = Server /\ kvs \in [Server -> Stores]
      /\ elected' = elected
  <2>1. elected' = elected
      BY DEF HandleKvs, ClientAdmitted, ClientRejected, ClientSubmits, ClientResumes, historyVars
  <2> QED BY <2>1 DEF TypeInv, FlagsTyped, ReplicaInv, LogInv, LogsGood
<1>1. CASE ClientSubmits(c) \/ ClientResumes(c)
  <2>1. PICK s : s = client[c].node
      OBVIOUS
  <2>2. s \in Server /\ Winner(s)
      BY <1>1, <2>1 DEF TypeInv, ReplicaInv, ClientInv, InHandler, ClientSubmits, ClientResumes
  <2>3. \A p \in Server : p # s => log'[p] = log[p] /\ kvs'[p] = kvs[p]
    <3>1. /\ log' = log \/ \E lg : log' = [log EXCEPT ![s] = lg]
          /\ kvs' = kvs \/ \E kv : kvs' = [kvs EXCEPT ![s] = kv]
        BY <1>1, <2>1 DEF ClientSubmits, ClientResumes, Complete, storeVars
    <3> QED BY <1>0, <3>1
  <2> QED BY <1>0, <2>2, <2>3 DEF Replays, Winner
<1>2. CASE ClientRejected(c) \/ \E s \in Server : ClientAdmitted(c, s)
    BY <1>0, <1>2, ReplaysAside DEF ClientRejected, ClientAdmitted, storeVars
<1> QED BY <1>1, <1>2 DEF HandleKvs

(* The coroutines write neither files nor stores: a flush only drops what  *)
(* is pending.                                                             *)
LEMMA CoroutineReplays ==
    ASSUME TypeInv, Replays, NEW s \in Server, Coroutine(s)
    PROVE  Replays'
<1>1. /\ kvs' = kvs /\ elected \subseteq elected'
      /\ log' = log \/ log' = [log EXCEPT ![s] = FlushUncommited(@)]
  <2>1. CASE \/ LoopIteration(s) \/ SpawnFlushed(s) \/ ConsumerExpire(s) \/ ConsumerCancelled(s)
             \/ ElectionStart(s) \/ Canvass(s)
      BY <2>1 DEF LoopIteration, SpawnFlushed, ConsumerExpire, ConsumerCancelled,
           ElectionStart, Canvass, storeVars, historyVars
  <2>2. CASE CountVote(s) \/ ElectionGivenUp(s) \/ BecomeLeader(s)
      BY <2>2 DEF CountVote, ElectionGivenUp, BecomeLeader, storeVars, historyVars
  <2>3. CASE ProducerTick(s) \/ ProducerCancelled(s)
      BY <2>3 DEF ProducerTick, ProducerCancelled, storeVars, historyVars
  <2>4. ASSUME NEW i \in Slot, SessionStart(s, i) \/ SessionReceive(s, i) \/ SessionExpire(s, i)
        PROVE  kvs' = kvs /\ elected' = elected /\ log' = log
      BY <2>4 DEF SessionStart, SessionReceive, SessionExpire, storeVars, historyVars
  <2> QED BY <2>1, <2>2, <2>3, <2>4 DEF Coroutine
<1>2. \A p \in Server : log'[p].file = log[p].file
    BY <1>1 DEF FlushUncommited, TypeInv, ReplicaInv, LogInv, LogsGood
<1> QED BY <1>1, <1>2, ReplaysAside

(* Nor do the other handlers; a process that ends keeps both, and one that *)
(* starts again had written nothing.                                       *)
LEMMA HandlerReplays ==
    ASSUME TypeInv, Replays, NEW s \in Server,
           \/ ReplicateRefused(s) \/ ReplicateDemotes(s) \/ SlaveFatal(s)
           \/ VoteGranted(s) \/ VoteRefused(s) \/ Crash(s) \/ Restart(s) \/ MessageLost
    PROVE  Replays'
<1>1. kvs' = kvs /\ elected' = elected
    BY DEF ReplicateRefused, ReplicateDemotes, SlaveFatal, VoteGranted, VoteRefused, Crash,
           Restart, MessageLost, storeVars, historyVars
<1>2. \/ log' = log
      \/ log' = [log EXCEPT ![s] = [EmptyLog EXCEPT !.file = log[s].file]]
      \/ log[s].file = <<>> /\ log' = [log EXCEPT ![s] = EmptyLog]
  <2>1. CASE Restart(s)
    <3>1. log[s].file = <<>>
        BY <2>1, OnlyEmptyRestores DEF Restart
    <3> QED BY <2>1, <3>1 DEF Restart, InitOrRestore
  <2>2. CASE ~Restart(s)
      BY <2>2 DEF ReplicateRefused, ReplicateDemotes, SlaveFatal, VoteGranted, VoteRefused, Crash,
           Dies, MessageLost, storeVars
  <2> QED BY <2>1, <2>2
<1>3. \A p \in Server : log'[p].file = log[p].file
    BY <1>2 DEF EmptyLog, TypeInv, ReplicaInv, LogInv, LogsGood
<1> QED BY <1>1, <1>3, ReplaysAside

(* No file and nothing stored at the start.                                *)
LEMMA InitReplays == Init => Replays
<1> SUFFICES ASSUME Init, NEW s \in Server
             PROVE  kvs[s] = Replayed(log[s].file)
    BY DEF Replays
<1>1. log[s].file = <<>> /\ kvs[s] = [k \in Key |-> NoValue]
    BY DEF Init, EmptyLog
<1>2. \A k \in Key : Touching(<<>>, k) = {}
    BY DEF Touching
<1>3. \A k \in Key : Replayed(<<>>)[k] = NoValue
    BY <1>2 DEF Replayed, ReplayedValue
<1>4. Replayed(<<>>) = [k \in Key |-> Replayed(<<>>)[k]]
    BY DEF Replayed
<1> QED BY <1>1, <1>3, <1>4

(* Every step keeps stores and files in step.                              *)
LEMMA NextReplays == TypeInv /\ Replays /\ [Next]_vars => Replays'
<1> SUFFICES ASSUME TypeInv, Replays, [Next]_vars
             PROVE  Replays'
    OBVIOUS
<1>1. CASE UNCHANGED vars
    BY <1>1, ReplaysAside DEF vars, storeVars, historyVars
<1>2. ASSUME NEW s \in Server, Coroutine(s) \/ Handler(s) \/ Crash(s) \/ Restart(s)
      PROVE  Replays'
    BY <1>2, CoroutineReplays, HandlerReplays, SlaveReplays DEF Handler
<1>3. ASSUME NEW c \in Client, HandleKvs(c)
      PROVE  Replays'
    BY <1>3, ClientReplays
<1>4. CASE MessageLost
  <2>1. PICK s \in Server : TRUE
      BY FS_EmptySet, RaftClusterAssumption
  <2> QED BY <1>4, <2>1, HandlerReplays
<1> QED BY <1>1, <1>2, <1>3, <1>4 DEF Next

(* The key-value store of a server that never won an election is what its  *)
(* raft.log adds up to, request by request: applyToKvs is given the entry  *)
(* LastOp() returns after LogCommit (raftapi.go:176-192), which is a new   *)
(* line of the file or, when nothing was pending, the last one once more.  *)
THEOREM SlaveStoresReplayLogs == Spec => []SlaveStoreReplaysLog
<1>1. Replays => SlaveStoreReplaysLog
    BY DEF Replays, Winner, SlaveStoreReplaysLog
<1> QED BY SpecTypeInv, InitReplays, NextReplays, <1>1, PTL DEF Spec

-----------------------------------------------------------------------------
(* Behaviours with one candidate *)

(* Server a alone has a slave timer that may expire, and what ends stays   *)
(* down.                                                                   *)
OneCandidate(a) == Electable = {a} /\ MaxRestarts = 0

(* The others never leave the slave state: they have no sessions, record   *)
(* no lengths, and keep one entry pending at most.                         *)
Follows(p) ==
    /\ state[p] = "slave"
    /\ co[p] \in {"loop", "consumer", "down"}
    /\ sentLen[p] = EmptyMap /\ commitLen[p] = EmptyMap
    /\ \A i \in Slot : session[p][i].st = "free"
    /\ Len(log[p].pend) <= 1

(* Requests go from a to the others, answers back.                         *)
ToAndFrom(a) ==
    \A m \in net : IF m.type \in {"vote", "replicate"} THEN m.from = a /\ m.to # a
                                                       ELSE m.to = a /\ m.from # a

(* Server a records no length of its own, is cancelled by nobody, and      *)
(* nobody else wins.                                                       *)
Leads(a) ==
    /\ a \notin DOMAIN sentLen[a] /\ a \notin DOMAIN commitLen[a]
    /\ ~cancelled[a]
    /\ \A e \in elected : e.cand = a

OneLeader(a) == (\A p \in Server \ {a} : Follows(p)) /\ ToAndFrom(a) /\ Leads(a)

(* What a follower's main loop may do: go round.                           *)
GoesRound(p) ==
    /\ \E to \in {"loop", "consumer"} : co' = [co EXCEPT ![p] = to]
    /\ co[p] # "down"
    /\ cancelled' = cancelled \/ cancelled' = [cancelled EXCEPT ![p] = FALSE]
    /\ UNCHANGED <<serverVars, storeVars, peerVars, timer, poisoned, electionVars, session,
                   client, net, historyVars>>

FollowerStep(p) ==
    \/ GoesRound(p) \/ ReplicateRefused(p) \/ SlaveReplicates(p) \/ SlaveFatal(p)
    \/ VoteGranted(p) \/ VoteRefused(p)

(* The candidate is one of the servers.                                    *)
LEMMA CandidateIsServer ==
    ASSUME NEW a, OneCandidate(a)
    PROVE  a \in Server
BY RaftClusterAssumption DEF OneCandidate

(* A follower's main loop goes round, and does nothing else.               *)
LEMMA FollowerLoops ==
    ASSUME NEW a, OneCandidate(a), NEW p \in Server \ {a}, Follows(p), Coroutine(p)
    PROVE  GoesRound(p)
<1>1. ~\E i \in Slot : SessionStart(p, i) \/ SessionReceive(p, i) \/ SessionExpire(p, i)
    BY DEF Follows, SessionStart, SessionReceive, SessionExpire
<1>2. ~ConsumerExpire(p)
    BY DEF OneCandidate, ConsumerExpire
<1>3. ~(\/ SpawnFlushed(p) \/ ElectionStart(p) \/ Canvass(p) \/ CountVote(p)
        \/ ElectionGivenUp(p) \/ BecomeLeader(p) \/ ProducerTick(p) \/ ProducerCancelled(p))
    BY DEF Follows, SpawnFlushed, ElectionStart, AddTerm, Canvass, CountVote, ElectionGivenUp,
           BecomeLeader, ProducerTick, ProducerCancelled
<1>4. CASE LoopIteration(p)
    BY <1>4 DEF LoopIteration, GoesRound, Follows
<1>5. CASE ConsumerCancelled(p)
    BY <1>5 DEF ConsumerCancelled, Leaves, GoesRound
<1> QED BY <1>1, <1>2, <1>3, <1>4, <1>5 DEF Coroutine

(* Nobody sends requests to a, and nobody starts again.                    *)
LEMMA StepsOfOneLeader ==
    ASSUME NEW a, OneCandidate(a), TypeInv, OneLeader(a), Next
    PROVE  \/ \E p \in Server \ {a} : FollowerStep(p)
           \/ Coroutine(a)
           \/ \E c \in Client : HandleKvs(c)
           \/ MessageLost
<1>1. \A s \in Server : ~Crash(s) /\ ~Restart(s)
    BY DEF Crash, Restart, TypeInv, ReplicaInv, VotingInv, VotingTypes, OneCandidate
<1>2. ~Handler(a)
    BY DEF Handler, ReplicateRefused, ReplicateDemotes, SlaveReplicates, SlaveFatal,
           VoteGranted, VoteRefused, OneLeader, ToAndFrom
<1>3. ASSUME NEW p \in Server \ {a}, Handler(p)
      PROVE  FollowerStep(p)
  <2>1. ~ReplicateDemotes(p)
      BY DEF ReplicateDemotes, OneLeader, Follows
  <2> QED BY <1>3, <2>1 DEF Handler, FollowerStep
<1>4. ASSUME NEW p \in Server \ {a}, Coroutine(p)
      PROVE  FollowerStep(p)
    BY <1>4, FollowerLoops DEF FollowerStep, OneLeader
<1> QED BY <1>1, <1>2, <1>3, <1>4 DEF Next

-----------------------------------------------------------------------------
(* A coroutine of a touches nothing of p's.                                *)
Untouched(p) ==
    /\ state'[p] = state[p] /\ co'[p] = co[p] /\ log'[p] = log[p]
    /\ sentLen'[p] = sentLen[p] /\ commitLen'[p] = commitLen[p]
    /\ session'[p] = session[p]

(* Who is not touched goes on following.                                   *)
LEMMA UntouchedFollows ==
    ASSUME NEW p, Follows(p), Untouched(p)
    PROVE  Follows(p)'
BY DEF Follows, Untouched

(* All that a's coroutines write is a's.                                   *)
LEMMA LeaderAlone ==
    ASSUME NEW a \in Server, TypeInv, Coroutine(a), NEW p \in Server \ {a}
    PROVE  Untouched(p)
<1> DEFINE One(f, g) == g = f \/ \E v : g = [f EXCEPT ![a] = v]
<1>0. /\ DOMAIN state = Server /\ DOMAIN co = Server /\ DOMAIN log = Server
      /\ DOMAIN sentLen = Server /\ DOMAIN commitLen = Server /\ DOMAIN session = Server
    BY DEF TypeInv, ReplicaInv, VotingInv, VotingTypes, LogInv, LogsGood, PeersTyped,
           SessionsTyped
<1>1. /\ One(state, state') /\ One(co, co') /\ One(log, log') /\ One(sentLen, sentLen')
      /\ One(commitLen, commitLen')
  <2>1. CASE LoopIteration(a) \/ SpawnFlushed(a) \/ ConsumerExpire(a) \/ ConsumerCancelled(a)
      BY <2>1 DEF LoopIteration, SpawnFlushed, ConsumerExpire, ConsumerCancelled, Leaves,
           serverVars, storeVars, peerVars
  <2>2. CASE ElectionStart(a) \/ Canvass(a) \/ CountVote(a)
      BY <2>2 DEF ElectionStart, AddTerm, Canvass, CountVote, Leaves, serverVars, storeVars,
           peerVars, loopVars
  <2>3. CASE ElectionGivenUp(a) \/ BecomeLeader(a) \/ ProducerTick(a) \/ ProducerCancelled(a)
      BY <2>3 DEF ElectionGivenUp, BecomeLeader, ProducerTick, ProducerCancelled, Leaves,
           serverVars, storeVars, peerVars
  <2>4. ASSUME NEW i \in Slot, SessionStart(a, i) \/ SessionReceive(a, i) \/ SessionExpire(a, i)
        PROVE  /\ One(state, state') /\ One(co, co') /\ One(log, log') /\ One(sentLen, sentLen')
               /\ One(commitLen, commitLen')
      BY <2>4 DEF SessionStart, SessionReceive, SessionExpire, serverVars, storeVars, peerVars,
           loopVars
  <2> QED BY <2>1, <2>2, <2>3, <2>4 DEF Coroutine
<1>2. session'[p] = session[p]
  <2>1. CASE \/ LoopIteration(a) \/ SpawnFlushed(a) \/ ConsumerExpire(a) \/ ConsumerCancelled(a)
             \/ ElectionStart(a) \/ Canvass(a) \/ CountVote(a)
             \/ ElectionGivenUp(a) \/ BecomeLeader(a) \/ ProducerCancelled(a)
      BY <2>1 DEF LoopIteration, SpawnFlushed, ConsumerExpire, ConsumerCancelled,
           ElectionStart, Canvass, CountVote, ElectionGivenUp, BecomeLeader, ProducerCancelled
  <2>2. CASE ProducerTick(a)
      BY <1>0, <2>2 DEF ProducerTick
  <2>3. ASSUME NEW i \in Slot, SessionStart(a, i) \/ SessionReceive(a, i) \/ SessionExpire(a, i)
        PROVE  session'[p] = session[p]
      BY <1>0, <2>3 DEF SessionStart, SessionReceive, SessionExpire, SessionOver
  <2> QED BY <2>1, <2>2, <2>3 DEF Coroutine
<1> QED BY <1>0, <1>1, <1>2 DEF Untouched

(* A slave keeps one entry pending at most (raftapi.go:178-182).           *)
LEMMA OnePending ==
    ASSUME NEW lg \in Log, Len(lg.pend) <= 1, NEW m, m.mean # "heartbeat" => m.entry \in Entry
    PROVE  /\ Len(Logged(lg, m).pend) <= 1
           /\ Logged(lg, m) \in Log => Len(LogCommit(Logged(lg, m)).pend) <= 1
<1>1. Len(Logged(lg, m).pend) <= 1
  <2>1. CASE m.mean # "heartbeat" /\ Fits(lg, m.entry)
    <3>1. Logged(lg, m).pend = Append(<<>>, Numbered(FlushUncommited(lg), m.entry))
        BY <2>1 DEF Logged, LogOp, FlushUncommited
    <3> HIDE DEF Numbered
    <3>2. Len(Append(<<>>, Numbered(FlushUncommited(lg), m.entry))) = 1
        OBVIOUS
    <3> QED BY <3>1, <3>2
  <2>2. CASE ~(m.mean # "heartbeat" /\ Fits(lg, m.entry))
      BY <2>2 DEF Logged
  <2> QED BY <2>1, <2>2
<1>2. ASSUME NEW x \in Log, Len(x.pend) <= 1
      PROVE  Len(LogCommit(x).pend) <= 1
  <2>1. CASE x.pend = <<>>
      BY <1>2, <2>1 DEF LogCommit
  <2>2. CASE x.pend # <<>>
    <3>1. LogCommit(x).pend = Tail(x.pend) /\ x.pend \in Seq(Entry)
        BY <2>2 DEF LogCommit, Log
    <3>2. Len(Tail(x.pend)) = Len(x.pend) - 1 /\ Len(x.pend) \in Nat
        BY <2>2, <3>1
    <3> QED BY <1>2, <3>1, <3>2
  <2> QED BY <2>1, <2>2
<1> QED BY <1>1, <1>2

(* A follower that does something of its own stays a follower.             *)
LEMMA FollowerStays ==
    ASSUME NEW a, OneCandidate(a), TypeInv, OneLeader(a), NEW p \in Server \ {a}, FollowerStep(p)
    PROVE  /\ Follows(p)'
           /\ \A q \in Server \ {p} : Untouched(q)
           /\ elected' = elected
           /\ cancelled'[a] = cancelled[a]
<1>0. /\ DOMAIN state = Server /\ co \in [Server -> Coroutines] /\ DOMAIN log = Server
      /\ DOMAIN sentLen = Server /\ DOMAIN commitLen = Server /\ DOMAIN session = Server
      /\ DOMAIN cancelled = Server /\ a \in Server /\ Follows(p)
    BY CandidateIsServer
       DEF TypeInv, ReplicaInv, VotingInv, VotingTypes, LogInv, LogsGood, PeersTyped,
           SessionsTyped, FlagsTyped, OneLeader
<1>1. CASE GoesRound(p)
  <2>1. PICK to \in {"loop", "consumer"} : co' = [co EXCEPT ![p] = to]
      BY <1>1 DEF GoesRound
  <2>2. /\ UNCHANGED <<state, log, sentLen, commitLen, session, elected>>
        /\ cancelled'[a] = cancelled[a]
      BY <1>0, <1>1 DEF GoesRound, serverVars, storeVars, peerVars, historyVars
  <2> QED BY <1>0, <2>1, <2>2 DEF Follows, Untouched
<1>2. CASE ReplicateRefused(p) \/ VoteRefused(p)
  <2>1. UNCHANGED <<state, co, log, sentLen, commitLen, session, elected, cancelled>>
      BY <1>0, <1>2 DEF ReplicateRefused, VoteRefused, Follows, serverVars, storeVars, peerVars,
           loopVars, historyVars
  <2> QED BY <1>0, <2>1 DEF Follows, Untouched
<1>3. CASE VoteGranted(p)
  <2>1. /\ UNCHANGED <<co, log, sentLen, commitLen, session, elected>>
        /\ state' = [state EXCEPT ![p] = "slave"] /\ Cancel(p)
      BY <1>0, <1>3 DEF VoteGranted, StoreTerm, AddTerm, Follows, storeVars, peerVars
  <2>2. cancelled'[a] = cancelled[a]
      BY <1>0, <2>1 DEF Cancel
  <2> QED BY <1>0, <2>1, <2>2 DEF Follows, Untouched
<1>4. CASE SlaveFatal(p)
  <2>1. /\ state' = [state EXCEPT ![p] = "slave"]
        /\ log' = [log EXCEPT ![p] = [EmptyLog EXCEPT !.file = log[p].file]]
        /\ sentLen' = [sentLen EXCEPT ![p] = EmptyMap]
        /\ commitLen' = [commitLen EXCEPT ![p] = EmptyMap]
        /\ co' = [co EXCEPT ![p] = "down"]
        /\ cancelled' = [cancelled EXCEPT ![p] = FALSE]
        /\ session' = [session EXCEPT ![p] = [i \in Slot |-> FreshSession]]
        /\ elected' = elected
      BY <1>4 DEF SlaveFatal, Dies, historyVars
  <2>2. log'[p].pend = <<>>
      BY <1>0, <2>1 DEF EmptyLog
  <2>3. Follows(p)'
      BY <1>0, <2>1, <2>2 DEF Follows, FreshSession
  <2>4. cancelled'[a] = cancelled[a] /\ \A q \in Server \ {p} : Untouched(q)
      BY <1>0, <2>1 DEF Untouched
  <2> QED BY <2>1, <2>3, <2>4
<1>5. CASE SlaveReplicates(p)
  <2>1. PICK m \in net :
            /\ m.type = "replicate" /\ co[p] # "down"
            /\ log' = [log EXCEPT ![p] = Stored(p, m)]
            /\ UNCHANGED <<state, co, sentLen, commitLen, session, elected, cancelled>>
      BY <1>0, <1>5 DEF SlaveReplicates, Serving, StoreTerm, AddTerm, Follows, Stored, peerVars,
           historyVars
  <2>2. m.mean # "heartbeat" => m.entry \in TermEntry
      BY <2>1 DEF TypeInv, ReplicaInv, LogInv, MessagesGood
  <2>3. log[p] \in Log /\ GoodLog(log[p]) /\ LastIsCached(log[p])
      BY <2>1 DEF TypeInv, ReplicaInv, LogInv, LogsGood
  <2>4. Logged(log[p], m) \in Log
      BY <2>2, <2>3, LoggedGood DEF GoodLog
  <2>5. Len(Stored(p, m).pend) <= 1
      BY <1>0, <2>2, <2>3, <2>4, OnePending DEF Stored, Follows, TermEntry
  <2>6. Follows(p)' /\ \A q \in Server \ {p} : Untouched(q)
    <3>1. log'[p] = Stored(p, m) /\ \A q \in Server \ {p} : log'[q] = log[q]
        BY <1>0, <2>1
    <3> QED BY <1>0, <2>1, <2>5, <3>1 DEF Follows, Untouched
  <2> QED BY <2>1, <2>6
<1> QED BY <1>1, <1>2, <1>3, <1>4, <1>5 DEF FollowerStep

(* The handlers of clients run on a.                                       *)
LEMMA HandlersAtLeader ==
    ASSUME NEW a, OneCandidate(a), TypeInv, OneLeader(a), NEW c \in Client, HandleKvs(c)
    PROVE  /\ \A p \in Server \ {a} : Untouched(p)
           /\ UNCHANGED <<net, elected, cancelled, sentLen, commitLen, state, co, session, term>>
           /\ \/ UNCHANGED <<log, kvs>>
              \/ InHandler(client[c]) /\ client[c].node = a
<1>1. UNCHANGED <<net, elected, cancelled, sentLen, commitLen, state, co, session, term>>
    BY DEF HandleKvs, ClientAdmitted, ClientRejected, ClientSubmits, ClientResumes,
           serverVars, peerVars, loopVars, historyVars
<1>2. \/ UNCHANGED <<log, kvs>>
      \/ InHandler(client[c]) /\ (ClientSubmits(c) \/ ClientResumes(c))
    BY DEF HandleKvs, ClientAdmitted, ClientRejected, ClientSubmits, ClientResumes, storeVars,
           InHandler
<1>3. InHandler(client[c]) => client[c].node = a
    BY DEF TypeInv, ReplicaInv, ClientInv, Winner, OneLeader, Leads
<1>4. \A p \in Server \ {a} : log'[p] = log[p]
  <2>1. CASE UNCHANGED log
      BY <2>1
  <2>2. CASE InHandler(client[c]) /\ (ClientSubmits(c) \/ ClientResumes(c))
    <3>1. log' = log \/ \E lg : log' = [log EXCEPT ![a] = lg]
        BY <1>3, <2>2 DEF ClientSubmits, ClientResumes, Complete, storeVars
    <3> QED BY <3>1 DEF TypeInv, ReplicaInv, LogInv, LogsGood
  <2> QED BY <1>2, <2>1, <2>2
<1> QED BY <1>1, <1>2, <1>3, <1>4 DEF Untouched

(* The answer to a request of a comes from who got it.                     *)
LEMMA AnswersComeBack ==
    ASSUME NEW a, TypeInv, OneLeader(a), NEW p \in Server \ {a}, FollowerStep(p)
    PROVE  \A m \in net' \ net :
               /\ m.type \in {"granted", "replicated"}
               /\ m.from = p /\ m.to = a
<1> SUFFICES ASSUME NEW m \in net' \ net
             PROVE  /\ m.type \in {"granted", "replicated"}
                    /\ m.from = p /\ m.to = a
    OBVIOUS
<1>1. CASE GoesRound(p) \/ VoteRefused(p) \/ SlaveFatal(p)
    BY <1>1 DEF GoesRound, VoteRefused, SlaveFatal, Dies
<1>2. CASE VoteGranted(p)
    BY <1>2 DEF VoteGranted, OneLeader, ToAndFrom
<1>3. CASE ReplicateRefused(p)
    BY <1>3 DEF ReplicateRefused, Answered, OneLeader, ToAndFrom
<1>4. CASE SlaveReplicates(p)
    BY <1>4 DEF SlaveReplicates, Progress, Answered, OneLeader, ToAndFrom
<1> QED BY <1>1, <1>2, <1>3, <1>4 DEF FollowerStep

(* What a sends goes to the others.                                        *)
LEMMA RequestsGoOut ==
    ASSUME NEW a \in Server, Coroutine(a)
    PROVE  \A m \in net' \ net :
               m.type \in {"vote", "replicate"} /\ m.from = a /\ m.to # a
<1> SUFFICES ASSUME NEW m \in net', m \notin net
             PROVE  m.type \in {"vote", "replicate"} /\ m.from = a /\ m.to # a
    OBVIOUS
<1>1. CASE \/ LoopIteration(a) \/ SpawnFlushed(a) \/ ConsumerExpire(a) \/ ConsumerCancelled(a)
           \/ ElectionStart(a) \/ BecomeLeader(a) \/ ProducerTick(a) \/ ProducerCancelled(a)
    BY <1>1 DEF LoopIteration, SpawnFlushed, ConsumerExpire, ConsumerCancelled, ElectionStart,
         BecomeLeader, ProducerTick, ProducerCancelled
<1>2. CASE CountVote(a) \/ ElectionGivenUp(a)
    BY <1>2 DEF CountVote, ElectionGivenUp, WithoutVotesFor
<1>3. CASE Canvass(a)
    BY <1>3 DEF Canvass, Others
<1>4. ASSUME NEW i \in Slot, SessionReceive(a, i) \/ SessionExpire(a, i)
      PROVE  m.type \in {"vote", "replicate"} /\ m.from = a /\ m.to # a
    BY <1>4 DEF SessionReceive, SessionExpire, SessionOver
<1>5. ASSUME NEW i \in Slot, SessionStart(a, i)
      PROVE  m.type \in {"vote", "replicate"} /\ m.from = a /\ m.to # a
  <2>1. PICK p \in Others(a) : m.type = "replicate" /\ m.from = a /\ m.to = p
      BY <1>5 DEF SessionStart
  <2> QED BY <2>1 DEF Others
<1> QED BY <1>1, <1>2, <1>3, <1>4, <1>5 DEF Coroutine

(* Only answers change what a server records of its peers.                 *)
LEMMA RecordsByAnswers ==
    ASSUME NEW a \in Server, Coroutine(a)
    PROVE  UNCHANGED <<sentLen, commitLen>> \/ \E i \in Slot : SessionReceive(a, i)
<1>1. CASE \/ LoopIteration(a) \/ SpawnFlushed(a) \/ ConsumerExpire(a) \/ ConsumerCancelled(a)
           \/ ElectionStart(a) \/ Canvass(a) \/ CountVote(a)
    BY <1>1 DEF LoopIteration, SpawnFlushed, ConsumerExpire, ConsumerCancelled,
         ElectionStart, Canvass, CountVote, peerVars
<1>2. CASE \/ ElectionGivenUp(a) \/ BecomeLeader(a) \/ ProducerTick(a) \/ ProducerCancelled(a)
           \/ \E i \in Slot : SessionStart(a, i) \/ SessionReceive(a, i) \/ SessionExpire(a, i)
    BY <1>2 DEF ElectionGivenUp, BecomeLeader, ProducerTick, ProducerCancelled,
         SessionStart, SessionExpire, peerVars
<1> QED BY <1>1, <1>2 DEF Coroutine

(* Nothing of a's own doing cancels it or records a length of its own.     *)
LEMMA LeadsOn ==
    ASSUME NEW a \in Server, TypeInv, OneLeader(a), Coroutine(a)
    PROVE  Leads(a)'
<1>0. /\ DOMAIN sentLen = Server /\ DOMAIN commitLen = Server /\ DOMAIN cancelled = Server
      /\ IsPeerLengths(sentLen[a]) /\ IsPeerLengths(commitLen[a]) /\ Leads(a)
    BY DEF TypeInv, ReplicaInv, LogInv, PeersTyped, FlagsTyped, OneLeader
<1>1. ~cancelled'[a]
  <2>1. cancelled' = cancelled \/ cancelled' = [cancelled EXCEPT ![a] = FALSE]
    <3>1. CASE \/ LoopIteration(a) \/ SpawnFlushed(a) \/ ConsumerExpire(a) \/ ConsumerCancelled(a)
               \/ ElectionStart(a) \/ Canvass(a) \/ CountVote(a)
        BY <3>1 DEF LoopIteration, SpawnFlushed, ConsumerExpire, ConsumerCancelled, Leaves,
             ElectionStart, Canvass, CountVote, loopVars
    <3>2. CASE \/ ElectionGivenUp(a) \/ BecomeLeader(a) \/ ProducerTick(a) \/ ProducerCancelled(a)
               \/ \E i \in Slot : SessionStart(a, i) \/ SessionReceive(a, i) \/ SessionExpire(a, i)
        BY <3>2 DEF ElectionGivenUp, BecomeLeader, ProducerTick, ProducerCancelled, Leaves,
             SessionStart, SessionReceive, SessionExpire, loopVars
    <3> QED BY <3>1, <3>2 DEF Coroutine
  <2> QED BY <1>0, <2>1 DEF Leads
<1>2. \A e \in elected' : e.cand = a
  <2>1. \/ elected' = elected
        \/ \E t, V : elected' = elected \cup {[cand |-> a, term |-> t, votes |-> V]}
    <3>1. CASE \/ LoopIteration(a) \/ SpawnFlushed(a) \/ ConsumerExpire(a) \/ ConsumerCancelled(a)
               \/ ElectionStart(a) \/ Canvass(a) \/ CountVote(a)
        BY <3>1 DEF LoopIteration, SpawnFlushed, ConsumerExpire, ConsumerCancelled,
             ElectionStart, Canvass, CountVote, historyVars
    <3>2. CASE \/ ElectionGivenUp(a) \/ BecomeLeader(a) \/ ProducerTick(a) \/ ProducerCancelled(a)
               \/ \E i \in Slot : SessionStart(a, i) \/ SessionReceive(a, i) \/ SessionExpire(a, i)
        BY <3>2 DEF ElectionGivenUp, BecomeLeader, ProducerTick, ProducerCancelled,
             SessionStart, SessionReceive, SessionExpire, historyVars
    <3> QED BY <3>1, <3>2 DEF Coroutine
  <2> QED BY <1>0, <2>1 DEF Leads
<1>3. a \notin DOMAIN sentLen'[a] /\ a \notin DOMAIN commitLen'[a]
  <2>1. CASE UNCHANGED <<sentLen, commitLen>>
      BY <1>0, <2>1 DEF Leads
  <2>2. ASSUME NEW i \in Slot, SessionReceive(a, i)
        PROVE  a \notin DOMAIN sentLen'[a] /\ a \notin DOMAIN commitLen'[a]
    <3>1. PICK m \in net, b \in BOOLEAN, d \in BOOLEAN :
              /\ m.type = "replicated"
              /\ sentLen' = IF b THEN [sentLen EXCEPT ![a] = Raised(@, m.from, m.len)] ELSE sentLen
              /\ commitLen' = IF d THEN [commitLen EXCEPT ![a] = Raised(@, m.from, m.len)]
                                 ELSE commitLen
        BY <2>2 DEF SessionReceive
    <3>2. m.from # a
        BY <3>1 DEF OneLeader, ToAndFrom
    <3>3. /\ a \notin DOMAIN Raised(sentLen[a], m.from, m.len)
          /\ a \notin DOMAIN Raised(commitLen[a], m.from, m.len)
        BY <1>0, <3>2 DEF Raised, Leads
    <3>4. PICK x, y : /\ x = Raised(sentLen[a], m.from, m.len)
                      /\ y = Raised(commitLen[a], m.from, m.len)
        OBVIOUS
    <3>5. /\ sentLen' = IF b THEN [sentLen EXCEPT ![a] = x] ELSE sentLen
          /\ commitLen' = IF d THEN [commitLen EXCEPT ![a] = y] ELSE commitLen
        BY <3>1, <3>4
    <3> QED BY <1>0, <3>3, <3>4, <3>5 DEF Leads
  <2>3. UNCHANGED <<sentLen, commitLen>> \/ \E i \in Slot : SessionReceive(a, i)
      BY RecordsByAnswers
  <2> QED BY <2>1, <2>2, <2>3
<1> QED BY <1>1, <1>2, <1>3 DEF Leads

(* All start as followers, a too.                                          *)
LEMMA InitOneLeader ==
    ASSUME NEW a, OneCandidate(a), Init
    PROVE  OneLeader(a)
<1>1. a \in Server
    BY CandidateIsServer
<1>2. \A p \in Server : Follows(p)
  <2>1. Len(EmptyLog.pend) = 0
      BY DEF EmptyLog
  <2> QED BY <2>1 DEF Init, Follows, FreshSession
<1>3. ToAndFrom(a) /\ Leads(a)
    BY <1>1 DEF Init, ToAndFrom, Leads, EmptyMap
<1> QED BY <1>2, <1>3 DEF OneLeader

(* One candidate alone leads, and the others follow.                       *)
LEMMA NextOneLeader ==
    ASSUME NEW a, OneCandidate(a), TypeInv, OneLeader(a), [Next]_vars
    PROVE  OneLeader(a)'
<1>0. a \in Server /\ (\A p \in Server \ {a} : Follows(p)) /\ ToAndFrom(a) /\ Leads(a)
    BY CandidateIsServer DEF OneLeader
<1>1. CASE UNCHANGED vars
  <2>1. UNCHANGED <<state, co, sentLen, commitLen, session, log, net, elected, cancelled>>
      BY <1>1 DEF vars, serverVars, peerVars, loopVars, storeVars, historyVars
  <2> QED BY <1>0, <2>1 DEF OneLeader, Follows, ToAndFrom, Leads
<1>2. ASSUME NEW p \in Server \ {a}, FollowerStep(p)
      PROVE  OneLeader(a)'
  <2>1. /\ Follows(p)' /\ \A q \in Server \ {p} : Untouched(q)
        /\ elected' = elected /\ cancelled'[a] = cancelled[a]
      BY <1>2, FollowerStays
  <2>2. \A q \in Server \ {a} : Follows(q)'
      BY <1>0, <2>1, UntouchedFollows
  <2>3. ToAndFrom(a)'
      BY <1>0, <1>2, AnswersComeBack DEF ToAndFrom
  <2>4. Leads(a)'
      BY <1>0, <2>1 DEF Leads, Untouched
  <2> QED BY <2>2, <2>3, <2>4 DEF OneLeader
<1>3. CASE Coroutine(a)
  <2>1. \A q \in Server \ {a} : Follows(q)'
      BY <1>0, <1>3, LeaderAlone, UntouchedFollows
  <2>2. ToAndFrom(a)'
      BY <1>0, <1>3, RequestsGoOut DEF ToAndFrom
  <2> QED BY <1>0, <1>3, <2>1, <2>2, LeadsOn DEF OneLeader
<1>4. ASSUME NEW c \in Client, HandleKvs(c)
      PROVE  OneLeader(a)'
  <2>1. /\ \A p \in Server \ {a} : Untouched(p)
        /\ UNCHANGED <<net, elected, cancelled, sentLen, commitLen>>
      BY <1>4, HandlersAtLeader
  <2> QED BY <1>0, <2>1, UntouchedFollows DEF OneLeader, ToAndFrom, Leads
<1>5. CASE MessageLost
  <2>1. /\ UNCHANGED <<state, co, sentLen, commitLen, session, log, elected, cancelled>>
        /\ net' \subseteq net
      BY <1>5 DEF MessageLost, serverVars, peerVars, loopVars, storeVars, historyVars
  <2> QED BY <1>0, <2>1 DEF OneLeader, Follows, ToAndFrom, Leads
<1> QED BY <1>1, <1>2, <1>3, <1>4, <1>5, StepsOfOneLeader

(* So it is throughout.                                                    *)
LEMMA SpecOneLeader ==
    ASSUME NEW a, OneCandidate(a)
    PROVE  Spec => [](TypeInv /\ OneLeader(a))
<1>1. Init => TypeInv /\ OneLeader(a)
    BY InitTypeInv, InitOneLeader
<1>2. TypeInv /\ OneLeader(a) /\ [Next]_vars => (TypeInv /\ OneLeader(a))'
    BY NextTypeInv, NextOneLeader
<1> QED BY <1>1, <1>2, PTL DEF Spec

-----------------------------------------------------------------------------
(* What a knows of a running peer is no more than the peer has, and so is  *)
(* what the answers on their way tell.                                     *)
LengthsReached(a, p) ==
    /\ At(sentLen[a], p) <= LenUncommited(log[p])
    /\ At(commitLen[a], p) <= LenCommited(log[p])

HonestAnswer(m) ==
    /\ m.len <= LenUncommited(log[m.from])
    /\ m.ack => m.len <= LenCommited(log[m.from])

Reached(a) ==
    /\ \A p \in Server \ {a} : co[p] # "down" => LengthsReached(a, p)
    /\ \A m \in net : m.type = "replicated" /\ co[m.from] # "down" => HonestAnswer(m)

(* The lengths of a log do not shrink.                                     *)
NoShorter(lg, new) ==
    /\ LenUncommited(lg) <= LenUncommited(new)
    /\ LenCommited(lg) <= LenCommited(new)

(* The entry that a slave logs takes the place of the one pending at most,  *)
(* so its log gets no shorter (raftapi.go:178-192).                        *)
LEMMA StoredNoShorter ==
    ASSUME LogInv, NEW s \in Server, co[s] # "down", Len(log[s].pend) <= 1,
           NEW m \in net, m.type = "replicate"
    PROVE  NoShorter(log[s], Stored(s, m))
<1> DEFINE lg == log[s]
           lo == Logged(lg, m)
<1>1. /\ lg \in Log /\ LastIsCached(lg) /\ WellNumbered(Content(lg)) /\ GoodLog(lg)
      /\ m.mean # "heartbeat" => m.entry \in TermEntry
    BY DEF LogInv, LogsGood, GoodLog, MessagesGood
<1>2. lo \in Log /\ LastIsCached(lo) /\ WellNumbered(Content(lo)) /\ lo.file = lg.file
    BY <1>1, LoggedGood DEF GoodLog
<1>3. /\ Len(Content(lg)) = Len(lg.file) + Len(lg.pend)
      /\ Len(lg.file) \in Nat /\ Len(lg.pend) \in Nat
      /\ Len(Content(lg)) \in Nat
  <2>1. Len(Content(lg)) = Len(lg.file) + Len(lg.pend)
      BY <1>1, ContentIndices
  <2>2. lg.file \in Seq(Entry) /\ lg.pend \in Seq(Entry) /\ Content(lg) \in Seq(Entry)
      BY <1>1, ContentIndices DEF Log
  <2>3. \A q \in Seq(Entry) : Len(q) \in Nat
      OBVIOUS
  <2> QED BY <2>1, <2>2, <2>3
<1>4. Len(Content(lg)) <= Len(Content(lo))
  <2>1. CASE m.mean # "heartbeat" /\ Fits(lg, m.entry)
    <3>1. lo = LogOp(FlushUncommited(lg), m.entry) /\ m.entry \in Entry
        BY <1>1, <2>1 DEF Logged, TermEntry
    <3>2. /\ FlushUncommited(lg) \in Log /\ LastIsCached(FlushUncommited(lg))
          /\ WellNumbered(Content(FlushUncommited(lg)))
          /\ Content(FlushUncommited(lg)) = lg.file
        BY <1>1, FlushShape
    <3>3. Content(lo) = Append(lg.file, Numbered(FlushUncommited(lg), m.entry))
        BY <3>1, <3>2, LogOpShape
    <3>4. Len(Content(lo)) = Len(lg.file) + 1
      <4>1. lg.file \in Seq(Entry)
          BY <1>1 DEF Log
      <4> HIDE DEF lg
      <4> QED BY <3>3, <4>1
    <3>5. Len(lg.pend) <= 1
        OBVIOUS
    <3> HIDE DEF lg, lo
    <3> QED BY <1>3, <3>4, <3>5
  <2>2. CASE ~(m.mean # "heartbeat" /\ Fits(lg, m.entry))
    <3>1. lo = lg
        BY <2>2 DEF Logged
    <3>2. PICK k \in Nat : k = Len(Content(lg))
        BY <1>3
    <3>3. Len(Content(lo)) = k
        BY <3>1, <3>2
    <3>4. k <= k
        OBVIOUS
    <3> QED BY <3>2, <3>3, <3>4
  <2> QED BY <2>1, <2>2
<1>5. /\ LenCommited(lg) = Len(lg.file) /\ LenUncommited(lg) = Len(Content(lg))
      /\ LenCommited(lo) = Len(lo.file) /\ LenUncommited(lo) = Len(Content(lo))
    BY <1>1, <1>2, ShapeGivesLengths
<1> HIDE DEF lo, lg
<1>6. NoShorter(lg, lo)
  <2>1. LenCommited(lg) = LenCommited(lo) /\ LenCommited(lg) \in Nat
      BY <1>2, <1>3, <1>5
  <2> QED BY <1>4, <1>5, <2>1 DEF NoShorter
<1>7. NoShorter(lg, LogCommit(lo))
  <2>1. /\ LogCommit(lo) \in Log /\ LastIsCached(LogCommit(lo))
        /\ Content(LogCommit(lo)) = Content(lo)
        /\ Len(lo.file) <= Len(LogCommit(lo).file)
      BY <1>2, LogCommitShape
  <2>2. /\ LenCommited(LogCommit(lo)) = Len(LogCommit(lo).file)
        /\ LenUncommited(LogCommit(lo)) = Len(Content(lo))
      BY <1>2, <2>1, ShapeGivesLengths
  <2> QED BY <1>2, <1>4, <1>5, <2>1, <2>2 DEF NoShorter
<1> QED BY <1>6, <1>7 DEF Stored, lo, lg

(* A log that stays is no shorter.                                         *)
LEMMA SameNoShorter ==
    ASSUME NEW lg \in Log
    PROVE  NoShorter(lg, lg)
BY LengthTyped DEF NoShorter

(* A follower that goes on running has no less than before, and answers    *)
(* with what it has.                                                       *)
LEMMA FollowerProgress ==
    ASSUME NEW a, TypeInv, OneLeader(a), NEW p \in Server \ {a}, FollowerStep(p),
           co'[p] # "down"
    PROVE  /\ co[p] # "down"
           /\ NoShorter(log[p], log'[p])
           /\ \A m \in net' \ net : m.type = "replicated" => HonestAnswer(m)'
<1>0. /\ co \in [Server -> Coroutines] /\ log \in [Server -> Log] /\ log[p] \in Log
      /\ DOMAIN log = Server /\ Follows(p)
    BY DEF TypeInv, ReplicaInv, VotingInv, VotingTypes, LogInv, LogsGood, OneLeader
<1>1. co[p] # "down"
  <2>1. CASE SlaveFatal(p)
      BY <1>0, <2>1 DEF SlaveFatal, Dies
  <2>2. CASE ~SlaveFatal(p)
      BY <2>2 DEF FollowerStep, GoesRound, ReplicateRefused, SlaveReplicates, VoteGranted,
           VoteRefused, Serving
  <2> QED BY <2>1, <2>2
<1>2. CASE GoesRound(p) \/ VoteGranted(p) \/ VoteRefused(p)
  <2>1. log' = log
      BY <1>2 DEF GoesRound, VoteGranted, VoteRefused, storeVars
  <2>2. \A m \in net' \ net : m.type # "replicated"
      BY <1>2 DEF GoesRound, VoteGranted, VoteRefused
  <2> QED BY <1>0, <1>1, <2>1, <2>2, SameNoShorter
<1>3. CASE ReplicateRefused(p)
  <2>1. log' = log
      BY <1>3 DEF ReplicateRefused, storeVars
  <2>2. PICK m \in net : m.to = p /\ net' = Answered(m, 0, FALSE)
      BY <1>3 DEF ReplicateRefused
  <2>3. \A w \in net' \ net : w.from = p /\ w.len = 0 /\ w.ack = FALSE
      BY <2>2 DEF Answered
  <2>4. LenUncommited(log'[p]) \in Nat
      BY <1>0, <2>1, LengthTyped
  <2>5. \A w \in net' \ net : w.len <= LenUncommited(log'[w.from]) /\ ~w.ack
      BY <2>3, <2>4
  <2> QED BY <1>0, <1>1, <2>1, <2>5, SameNoShorter DEF HonestAnswer
<1>4. CASE SlaveReplicates(p)
  <2>1. PICK m \in net :
            /\ m.type = "replicate" /\ m.to = p
            /\ log' = [log EXCEPT ![p] = Stored(p, m)]
            /\ net' = Progress(m, Stored(p, m))
      BY <1>4 DEF SlaveReplicates, Stored
  <2>2. NoShorter(log[p], Stored(p, m)) /\ Stored(p, m) \in Log
      BY <1>0, <1>1, <2>1, StoredNoShorter, StoredGood
         DEF Follows, TypeInv, ReplicaInv, GoodLog
  <2>3. PICK lg \in Log : lg = Stored(p, m)
      BY <2>2
  <2>4. log'[p] = lg
      BY <1>0, <2>1, <2>3
  <2>5. \A w \in net' \ net :
            /\ w.from = p /\ w.len = LenUncommited(lg)
            /\ w.ack => LenUncommited(lg) = LenCommited(lg)
    <3>1. net' = Answered(m, LenUncommited(lg), LenUncommited(lg) = LenCommited(lg))
        BY <2>1, <2>3 DEF Progress
    <3>2. PICK b \in BOOLEAN : b = (LenUncommited(lg) = LenCommited(lg))
        OBVIOUS
    <3>3. \A w \in net' \ net : w.from = p /\ w.len = LenUncommited(lg) /\ w.ack = b
        BY <2>1, <3>1, <3>2 DEF Answered
    <3> QED BY <3>2, <3>3
  <2>6. LenUncommited(lg) \in Nat /\ LenCommited(lg) \in Nat
      BY LengthTyped
  <2>7. ASSUME NEW w \in net' \ net
        PROVE  /\ w.len <= LenUncommited(log'[w.from])
               /\ w.ack => w.len <= LenCommited(log'[w.from])
    <3>1. /\ w.from = p /\ w.len = LenUncommited(lg)
          /\ w.ack => LenUncommited(lg) = LenCommited(lg)
        BY <2>5
    <3> QED BY <2>4, <2>6, <3>1
  <2> QED BY <1>1, <2>2, <2>3, <2>4, <2>7 DEF HonestAnswer
<1>5. CASE SlaveFatal(p)
    BY <1>0, <1>5 DEF SlaveFatal, Dies
<1> QED BY <1>2, <1>3, <1>4, <1>5 DEF FollowerStep

(* A length is raised by what an answer tells, and no further.             *)
LEMMA RaisedReads ==
    ASSUME NEW len, NEW p, NEW q, NEW n
    PROVE  At(Raised(len, p, n), q) = IF q = p /\ n > At(len, p) THEN n ELSE At(len, q)
BY DEF At, Raised

(* Sessions believe the answers they get.                                  *)
LEMMA ReceivedReached ==
    ASSUME NEW a \in Server, TypeInv, OneLeader(a), Reached(a), NEW i \in Slot,
           SessionReceive(a, i), NEW p \in Server \ {a}, co[p] # "down"
    PROVE  /\ At(sentLen'[a], p) <= LenUncommited(log[p])
           /\ At(commitLen'[a], p) <= LenCommited(log[p])
<1>0. DOMAIN sentLen = Server /\ DOMAIN commitLen = Server
    BY DEF TypeInv, ReplicaInv, LogInv, PeersTyped
<1>1. PICK m \in net, b \in BOOLEAN, d \in BOOLEAN :
          /\ m.type = "replicated"
          /\ d => m.ack
          /\ sentLen' = IF b THEN [sentLen EXCEPT ![a] = Raised(@, m.from, m.len)] ELSE sentLen
          /\ commitLen' = IF d THEN [commitLen EXCEPT ![a] = Raised(@, m.from, m.len)]
                             ELSE commitLen
  <2>1. PICK m \in net :
          LET sentOnly == ~m.ack /\ m.len <= LenUncommited(log[a])
              applied == m.ack /\ m.len <= LenCommited(log[a])
          IN  /\ m.type = "replicated"
              /\ sentLen' = IF sentOnly \/ applied
                        THEN [sentLen EXCEPT ![a] = Raised(@, m.from, m.len)] ELSE sentLen
              /\ commitLen' = IF applied
                        THEN [commitLen EXCEPT ![a] = Raised(@, m.from, m.len)] ELSE commitLen
      BY DEF SessionReceive
  <2>2. PICK b \in BOOLEAN, d \in BOOLEAN :
          /\ b <=> \/ ~m.ack /\ m.len <= LenUncommited(log[a])
                   \/ m.ack /\ m.len <= LenCommited(log[a])
          /\ d <=> m.ack /\ m.len <= LenCommited(log[a])
      OBVIOUS
  <2> QED BY <2>1, <2>2
<1>2. LengthsReached(a, p)
    BY DEF Reached
<1>3. PICK x, y : x = Raised(sentLen[a], m.from, m.len) /\ y = Raised(commitLen[a], m.from, m.len)
    OBVIOUS
<1>4. /\ sentLen'[a] = sentLen[a] \/ sentLen'[a] = x
      /\ commitLen'[a] = commitLen[a] \/ (m.ack /\ commitLen'[a] = y)
    BY <1>0, <1>1, <1>3
<1>5. m.from = p => /\ m.len <= LenUncommited(log[p])
                    /\ m.ack => m.len <= LenCommited(log[p])
    BY <1>1 DEF Reached, HonestAnswer
<1>6. /\ At(x, p) = IF p = m.from /\ m.len > At(sentLen[a], m.from)
                      THEN m.len ELSE At(sentLen[a], p)
      /\ At(y, p) = IF p = m.from /\ m.len > At(commitLen[a], m.from)
                      THEN m.len ELSE At(commitLen[a], p)
    BY <1>3, RaisedReads
<1> QED BY <1>2, <1>4, <1>5, <1>6 DEF LengthsReached

(* At the start nobody knows anything.                                     *)
LEMMA InitReached ==
    ASSUME NEW a, OneCandidate(a), Init
    PROVE  Reached(a)
<1>1. a \in Server /\ EmptyLog \in Log
    BY CandidateIsServer, EmptyLogShape
<1>2. LenUncommited(EmptyLog) \in Nat /\ LenCommited(EmptyLog) \in Nat
    BY <1>1, LengthTyped
<1>3. \A p \in Server : log[p] = EmptyLog /\ At(sentLen[a], p) = 0 /\ At(commitLen[a], p) = 0
    BY <1>1 DEF Init, At, EmptyMap
<1>4. ASSUME NEW p \in Server
      PROVE  LengthsReached(a, p)
    BY <1>2, <1>3 DEF LengthsReached
<1>5. net = {}
    BY DEF Init
<1> QED BY <1>4, <1>5 DEF Reached

(* The followers untouched, fewer answers and no new knowledge.            *)
LEMMA ReachedKept ==
    ASSUME NEW a \in Server, TypeInv, OneLeader(a), Reached(a),
           \A p \in Server \ {a} : co'[p] = co[p] /\ log'[p] = log[p],
           \A m \in net' \ net : m.type # "replicated",
           \A p \in Server \ {a} : co[p] # "down" =>
               /\ At(sentLen'[a], p) <= LenUncommited(log[p])
               /\ At(commitLen'[a], p) <= LenCommited(log[p])
    PROVE  Reached(a)'
<1>1. \A m \in net : m.type = "replicated" => m.from \in Server \ {a}
    BY DEF TypeInv, ReplicaInv, LogInv, MessagesGood, OneLeader, ToAndFrom
<1>2. ASSUME NEW m \in net', m.type = "replicated", co'[m.from] # "down"
      PROVE  HonestAnswer(m)'
  <2>1. m \in net /\ m.from \in Server \ {a} /\ co[m.from] # "down" /\ log'[m.from] = log[m.from]
      BY <1>1, <1>2
  <2> QED BY <1>2, <2>1 DEF Reached, HonestAnswer
<1>3. ASSUME NEW p \in Server \ {a}, co'[p] # "down"
      PROVE  LengthsReached(a, p)'
    BY <1>3 DEF LengthsReached
<1> QED BY <1>2, <1>3 DEF Reached

(* No step makes the master know too much.                                 *)
LEMMA NextReached ==
    ASSUME NEW a, OneCandidate(a), TypeInv, OneLeader(a), Reached(a), [Next]_vars
    PROVE  Reached(a)'
<1>0. a \in Server /\ (\A p \in Server \ {a} : Follows(p))
    BY CandidateIsServer DEF OneLeader
<1>1. \A p \in Server \ {a} : co[p] # "down" =>
          /\ At(sentLen[a], p) <= LenUncommited(log[p])
          /\ At(commitLen[a], p) <= LenCommited(log[p])
    BY DEF Reached, LengthsReached
<1>2. CASE UNCHANGED vars
  <2>1. UNCHANGED <<co, sentLen, commitLen, log, net>>
      BY <1>2 DEF vars, peerVars, loopVars, storeVars
  <2> QED BY <1>0, <1>1, <2>1, ReachedKept
<1>3. CASE MessageLost
  <2>1. UNCHANGED <<co, sentLen, commitLen, log>> /\ net' \subseteq net
      BY <1>3 DEF MessageLost, peerVars, loopVars, storeVars
  <2> QED BY <1>0, <1>1, <2>1, ReachedKept
<1>4. ASSUME NEW c \in Client, HandleKvs(c)
      PROVE  Reached(a)'
  <2>1. /\ \A p \in Server \ {a} : co'[p] = co[p] /\ log'[p] = log[p]
        /\ UNCHANGED <<net, sentLen, commitLen>>
      BY <1>4, HandlersAtLeader DEF Untouched
  <2> QED BY <1>0, <1>1, <2>1, ReachedKept
<1>5. CASE Coroutine(a)
  <2>1. \A p \in Server \ {a} : co'[p] = co[p] /\ log'[p] = log[p]
      BY <1>0, <1>5, LeaderAlone DEF Untouched
  <2>2. \A m \in net' \ net : m.type # "replicated"
      BY <1>0, <1>5, RequestsGoOut
  <2>3. UNCHANGED <<sentLen, commitLen>> \/ \E i \in Slot : SessionReceive(a, i)
      BY <1>0, <1>5, RecordsByAnswers
  <2>4. \A p \in Server \ {a} : co[p] # "down" =>
          /\ At(sentLen'[a], p) <= LenUncommited(log[p])
          /\ At(commitLen'[a], p) <= LenCommited(log[p])
    <3>1. CASE UNCHANGED <<sentLen, commitLen>>
        BY <1>1, <3>1
    <3>2. CASE \E i \in Slot : SessionReceive(a, i)
        BY <1>0, <3>2, ReceivedReached
    <3> QED BY <2>3, <3>1, <3>2
  <2> QED BY <1>0, <2>1, <2>2, <2>4, ReachedKept
<1>6. ASSUME NEW p \in Server \ {a}, FollowerStep(p)
      PROVE  Reached(a)'
  <2>1. /\ \A q \in Server \ {p} : co'[q] = co[q] /\ log'[q] = log[q]
        /\ sentLen'[a] = sentLen[a] /\ commitLen'[a] = commitLen[a]
      BY <1>0, <1>6, FollowerStays DEF Untouched
  <2>2. \A m \in net' \ net : m.type \in {"granted", "replicated"} /\ m.from = p /\ m.to = a
      BY <1>6, AnswersComeBack
  <2>3. co'[p] # "down" =>
            /\ co[p] # "down" /\ NoShorter(log[p], log'[p])
            /\ \A m \in net' \ net : m.type = "replicated" => HonestAnswer(m)'
      BY <1>6, FollowerProgress
  <2>4. \A q \in Server \ {a} : co'[q] # "down" =>
            co[q] # "down" /\ NoShorter(log[q], log'[q])
    <3>1. \A q \in Server : NoShorter(log[q], log[q])
        BY SameNoShorter DEF TypeInv, ReplicaInv, LogInv, LogsGood
    <3> QED BY <2>1, <2>3, <3>1
  <2>5. /\ \A q \in Server : log[q] \in Log
        /\ \A q \in Server \ {a} : log'[q] \in Log
    <3>1. TypeInv'
        BY NextTypeInv
    <3> QED BY <3>1 DEF TypeInv, ReplicaInv, LogInv, LogsGood
  <2>6. ASSUME NEW q \in Server \ {a}, co'[q] # "down"
        PROVE  LengthsReached(a, q)'
    <3>1. /\ LenUncommited(log[q]) \in Nat /\ LenCommited(log[q]) \in Nat
          /\ LenUncommited(log'[q]) \in Nat /\ LenCommited(log'[q]) \in Nat
        BY <2>5, LengthTyped
    <3>2. At(sentLen[a], q) \in Nat /\ At(commitLen[a], q) \in Nat
        BY <1>0 DEF At, TypeInv, ReplicaInv, LogInv, PeersTyped, IsPeerLengths
    <3> QED BY <1>1, <2>1, <2>4, <2>6, <3>1, <3>2 DEF LengthsReached, NoShorter
  <2>7. ASSUME NEW m \in net', m.type = "replicated", co'[m.from] # "down"
        PROVE  HonestAnswer(m)'
    <3>1. CASE m \in net
      <4>1. m.from \in Server \ {a} /\ m.len \in Nat
          BY <2>7, <3>1 DEF TypeInv, ReplicaInv, LogInv, MessagesGood, OneLeader, ToAndFrom
      <4>2. co[m.from] # "down" /\ NoShorter(log[m.from], log'[m.from])
          BY <2>4, <2>7, <4>1
      <4>3. HonestAnswer(m)
          BY <2>7, <3>1, <4>2 DEF Reached
      <4>4. /\ LenUncommited(log[m.from]) \in Nat /\ LenCommited(log[m.from]) \in Nat
            /\ LenUncommited(log'[m.from]) \in Nat /\ LenCommited(log'[m.from]) \in Nat
          BY <2>5, <4>1, LengthTyped
      <4> QED BY <4>1, <4>2, <4>3, <4>4 DEF HonestAnswer, NoShorter
    <3>2. CASE m \notin net
        BY <2>2, <2>3, <2>7, <3>2
    <3> QED BY <3>1, <3>2
  <2> QED BY <2>6, <2>7 DEF Reached
<1> QED BY <1>2, <1>3, <1>4, <1>5, <1>6, StepsOfOneLeader

(* With one candidate the master never thinks a running peer further than  *)
(* it is: SentLen and CommitLen come from answers that stay true, whatever *)
(* is lost, late or out of order, through any number of terms, because a   *)
(* slave's log gets no shorter by replacing its one pending entry          *)
(* (middleware.go:202-213, raftapi.go:178-192).                            *)
THEOREM OneCandidateReaches ==
    ASSUME NEW a, OneCandidate(a)
    PROVE  Spec => []PeerLengthsReached
<1> DEFINE ReachInv == TypeInv /\ OneLeader(a) /\ Reached(a)
<1>1. Init => ReachInv
    BY InitTypeInv, InitOneLeader, InitReached
<1>2. ReachInv /\ [Next]_vars => ReachInv'
    BY NextTypeInv, NextOneLeader, NextReached
<1>3. ReachInv => PeerLengthsReached
  <2> SUFFICES ASSUME TypeInv, OneLeader(a), Reached(a), NEW s \in Server, NEW p \in Server,
                      co[p] # "down"
               PROVE  /\ At(sentLen[s], p) <= LenUncommited(log[p])
                      /\ At(commitLen[s], p) <= LenCommited(log[p])
      BY DEF PeerLengthsReached
  <2>1. LenUncommited(log[p]) \in Nat /\ LenCommited(log[p]) \in Nat
      BY LengthTyped DEF TypeInv, ReplicaInv, LogInv, LogsGood
  <2>2. CASE s # a
    <3>1. At(sentLen[s], p) = 0 /\ At(commitLen[s], p) = 0
        BY <2>2 DEF OneLeader, Follows, At, EmptyMap
    <3> QED BY <2>1, <3>1
  <2>3. CASE s = a /\ p = a
    <3>1. At(sentLen[s], p) = 0 /\ At(commitLen[s], p) = 0
        BY <2>3 DEF OneLeader, Leads, At
    <3> QED BY <2>1, <3>1
  <2>4. CASE s = a /\ p # a
      BY <2>4 DEF Reached, LengthsReached
  <2> QED BY <2>2, <2>3, <2>4
<1> HIDE DEF ReachInv
<1> QED BY <1>1, <1>2, <1>3, PTL DEF Spec

(* Entry e stands in log lg where it says.                                 *)
EntryOf(lg, e) == e.ind < Len(Content(lg)) /\ e = Content(lg)[e.ind + 1]

(* What a slave with an empty file has pending is the master's first entry. *)
FirstPending(lg, fl) ==
    fl.file = <<>> /\ fl.pend # <<>> =>
        Len(Content(lg)) >= 1 /\ fl.pend[1] = Content(lg)[1]

(* What m asks a slave to log is in the master's log, and in its file if   *)
(* it is to be committed.                                                  *)
Asks(lg, m) ==
    m.mean # "heartbeat" =>
        /\ EntryOf(lg, m.entry)
        /\ m.mean = "logcommit" => m.entry.ind < Len(lg.file)

(* An entry says where it stands, and what stands before it.               *)
LEMMA EntryStands ==
    ASSUME NEW lg \in Log, WellNumbered(Content(lg)), NEW e \in Entry, EntryOf(lg, e)
    PROVE  /\ e.ind \in Nat /\ e.ind + 1 \in 1..Len(Content(lg))
           /\ e.ind = 0 => e.prevInd = 0 /\ e.prevTerm = 0
           /\ e.ind # 0 => e.prevInd = e.ind - 1 /\ e.prevTerm = Content(lg)[e.ind].term
<1> DEFINE c == Content(lg)
           i == e.ind + 1
<1>1. c \in Seq(Entry) /\ e.ind \in Nat
    BY ContentIndices DEF Entry
<1>2. i \in 1..Len(c) /\ e = c[i]
    BY <1>1 DEF EntryOf
<1>3. /\ c[i].prevInd = IF i = 1 THEN 0 ELSE i - 2
      /\ c[i].prevTerm = IF i = 1 THEN 0 ELSE c[i - 1].term
    BY <1>2 DEF WellNumbered
<1> HIDE DEF c
<1>4. i - 1 = e.ind /\ i - 2 = e.ind - 1 /\ (i = 1 <=> e.ind = 0)
    BY <1>1
<1> QED BY <1>1, <1>2, <1>3, <1>4 DEF c

(* Sequences of no entry and of one.                                       *)
LEMMA ShortSequences ==
    /\ \A q \in Seq(Entry) : Len(q) = 0 => q = <<>>
    /\ \A q \in Seq(Entry) : q # <<>> /\ Len(q) <= 1 => Len(q) = 1
<1>1. \A q \in Seq(Entry) : Len(q) = 0 => q = <<>>
    OBVIOUS
<1>2. ASSUME NEW q \in Seq(Entry), q # <<>>, Len(q) <= 1
      PROVE  Len(q) = 1
  <2>1. PICK n \in Nat : n = Len(q)
      OBVIOUS
  <2>2. n # 0
      BY <1>1, <1>2, <2>1
  <2>3. n <= 1
      BY <1>2, <2>1
  <2>4. n = 1
      BY <2>2, <2>3
  <2> QED BY <2>1, <2>4
<1> QED BY <1>1, <1>2

(* The entry behind a slave's last line gets the numbers it has already.   *)
LEMMA NumberedAsIs ==
    ASSUME NEW lg, GoodLog(lg), NEW fl, GoodLog(fl), LastIsCached(fl),
           FileExtends(fl.file, lg.file), NEW e \in Entry, EntryOf(lg, e),
           e.ind = Len(fl.file)
    PROVE  Numbered(FlushUncommited(fl), e) = e
<1>0. /\ lg \in Log /\ WellNumbered(Content(lg)) /\ fl \in Log /\ WellNumbered(Content(fl))
    BY DEF GoodLog
<1>1. /\ e.ind \in Nat
      /\ e.ind = 0 => e.prevInd = 0 /\ e.prevTerm = 0
      /\ e.ind # 0 => e.prevInd = e.ind - 1 /\ e.prevTerm = Content(lg)[e.ind].term
    BY <1>0, EntryStands
<1>2. Numbered(FlushUncommited(fl), e)
        = IF fl.last.cmd = NoCommand THEN First(e) ELSE Following(fl.last, e)
    BY DEF Numbered, FlushUncommited
<1>3. CASE e.ind = 0
  <2>1. fl.file = <<>>
      BY <1>0, <1>3, ShortSequences DEF Log
  <2>2. fl.last.cmd = NoCommand
      BY <2>1 DEF LastIsCached, ZeroEntry
  <2> QED BY <1>1, <1>2, <1>3, <2>2 DEF First, Renumbered, Entry
<1>4. CASE e.ind # 0
  <2>1. fl.file # <<>>
      BY <1>0, <1>4
  <2>2. fl.last \in Entry /\ fl.last.ind = e.ind - 1
      BY <1>0, <2>1, TailOfContent
  <2>3. fl.last = fl.file[e.ind]
      BY <2>1 DEF LastIsCached
  <2>4. e.ind \in 1..Len(fl.file)
      BY <1>1, <1>4
  <2>5. e.ind \in 1..Len(lg.file) /\ lg.file[e.ind] = fl.file[e.ind]
    <3>1. e.ind <= Len(lg.file) /\ lg.file[e.ind] = fl.file[e.ind]
        BY <2>4 DEF FileExtends
    <3> QED BY <2>4, <3>1
  <2>6. Content(lg)[e.ind] = lg.file[e.ind]
      BY <1>0, <2>5, FileIsPrefix
  <2>7. e.prevTerm = fl.last.term /\ e.prevInd = fl.last.ind
      BY <1>1, <1>4, <2>2, <2>3, <2>5, <2>6
  <2>8. fl.last.cmd # NoCommand
      BY <2>2, NoCommandAssumption DEF Entry
  <2>9. fl.last.ind + 1 = e.ind
      BY <1>1, <2>2
  <2> QED BY <1>2, <2>7, <2>8, <2>9 DEF Following, Renumbered, Entry
<1> QED BY <1>3, <1>4

(* One line more, and it is the next line of the longer file.              *)
LEMMA ExtendsByOne ==
    ASSUME NEW f \in Seq(Entry), NEW g \in Seq(Entry), FileExtends(f, g), Len(f) < Len(g)
    PROVE  FileExtends(Append(f, g[Len(f) + 1]), g)
<1> DEFINE n == Len(f)
           h == Append(f, g[n + 1])
<1>1. n \in Nat /\ n + 1 \in 1..Len(g) /\ g[n + 1] \in Entry
    OBVIOUS
<1>2. Len(h) = n + 1 /\ h[n + 1] = g[n + 1] /\ \A i \in 1..n : h[i] = f[i]
    BY <1>1
<1> SUFFICES ASSUME NEW i \in 1..Len(h)
             PROVE  i <= Len(g) /\ g[i] = h[i]
    BY DEF FileExtends
<1>3. CASE i \in 1..n
  <2>1. i <= Len(g) /\ g[i] = f[i]
      BY <1>3 DEF FileExtends
  <2> QED BY <1>2, <1>3, <2>1
<1>4. CASE i = n + 1
    BY <1>1, <1>2, <1>4
<1> HIDE DEF n, h
<1> QED BY <1>1, <1>2, <1>3, <1>4

(* A slave's file stays a prefix of the master's, whatever of the master's *)
(* entries it is sent, late or again (raftapi.go:159-192): one that takes  *)
(* the wrong number is replaced before it can be written.                  *)
LEMMA StoresPrefix ==
    ASSUME NEW lg, GoodLog(lg), NEW fl, GoodLog(fl), LastIsCached(fl), Len(fl.pend) <= 1,
           FileExtends(fl.file, lg.file), FirstPending(lg, fl),
           NEW m, m.mean # "heartbeat" => m.entry \in TermEntry, Asks(lg, m),
           Committable(Logged(fl, m), m)
    PROVE  LET st == IF m.mean = "logcommit" THEN LogCommit(Logged(fl, m)) ELSE Logged(fl, m)
           IN  FileExtends(st.file, lg.file) /\ FirstPending(lg, st)
<1> DEFINE lo == Logged(fl, m)
           st == IF m.mean = "logcommit" THEN LogCommit(lo) ELSE lo
           e == m.entry
<1> SUFFICES FileExtends(st.file, lg.file) /\ FirstPending(lg, st)
    OBVIOUS
<1>0. /\ lg \in Log /\ WellNumbered(Content(lg)) /\ fl \in Log /\ WellNumbered(Content(fl))
      /\ lg.file \in Seq(Entry) /\ fl.file \in Seq(Entry) /\ fl.pend \in Seq(Entry)
    BY DEF GoodLog, Log
<1>1. PICK n \in Nat : n = Len(fl.file) /\ LenCommited(fl) = n
    BY <1>0, ShapeGivesLengths
<1>2. ASSUME m.mean # "heartbeat"
      PROVE  /\ e \in Entry /\ EntryOf(lg, e)
             /\ e.ind \in Nat /\ e.prevInd \in Nat
             /\ e.ind = 0 => e.prevInd = 0
             /\ e.ind # 0 => e.prevInd = e.ind - 1
             /\ e = Content(lg)[e.ind + 1] /\ e.ind + 1 \in 1..Len(Content(lg))
  <2>1. e \in Entry /\ EntryOf(lg, e)
      BY <1>2 DEF Asks, TermEntry
  <2>2. e.prevInd \in Nat
      BY <2>1 DEF Entry
  <2> QED BY <1>0, <2>1, <2>2, EntryStands DEF EntryOf
<1>3. ASSUME m.mean = "logcommit"
      PROVE  /\ e.ind < Len(lg.file) /\ e = lg.file[e.ind + 1]
             /\ LenUncommited(lo) = e.ind + 1
  <2>1. e.ind < Len(lg.file) /\ e.ind \in Nat
      BY <1>2, <1>3 DEF Asks
  <2>2. e.ind + 1 \in 1..Len(lg.file)
      BY <1>0, <2>1
  <2>3. Content(lg)[e.ind + 1] = lg.file[e.ind + 1]
      BY <1>0, <2>2, FileIsPrefix
  <2> QED BY <1>2, <1>3, <2>1, <2>3 DEF Committable
<1>4. CASE ~(m.mean # "heartbeat" /\ Fits(fl, e))
  <2>1. lo = fl
      BY <1>4 DEF Logged
  <2>2. CASE m.mean # "logcommit" \/ fl.pend = <<>>
    <3>1. st = fl
        BY <2>1, <2>2 DEF LogCommit
    <3> QED BY <3>1
  <2>3. CASE m.mean = "logcommit" /\ fl.pend # <<>>
    <3>1. Len(fl.pend) = 1
        BY <1>0, <2>3, ShortSequences
    <3>2. LenUncommited(fl) = n + 1
        BY <1>1, <3>1 DEF LenUncommited
    <3>3. e.ind = n
        BY <1>1, <1>2, <1>3, <2>1, <2>3, <3>2
    <3>4. e.prevInd + 1 # n
        BY <1>1, <1>4, <2>3 DEF Fits
    <3>5. n = 0
        BY <1>2, <2>3, <3>3, <3>4
    <3>6. fl.file = <<>>
        BY <1>0, <1>1, <3>5, ShortSequences
    <3>7. fl.pend[1] = Content(lg)[1] /\ Head(fl.pend) = fl.pend[1]
        BY <1>0, <2>3, <3>6 DEF FirstPending
    <3>8. Head(fl.pend) = lg.file[Len(fl.file) + 1] /\ Len(fl.file) < Len(lg.file)
      <4>1. e = Content(lg)[1] /\ e = lg.file[1] /\ 0 < Len(lg.file)
          BY <1>2, <1>3, <2>3, <3>3, <3>5
      <4>2. Len(fl.file) = 0
          BY <1>1, <3>5
      <4> QED BY <3>7, <4>1, <4>2
    <3>9. st.file = Append(fl.file, Head(fl.pend))
        BY <2>1, <2>3 DEF LogCommit
    <3>10. FileExtends(st.file, lg.file)
        BY <1>0, <3>8, <3>9, ExtendsByOne
    <3>11. st.file # <<>>
      <4>1. Append(fl.file, Head(fl.pend)) # <<>>
          BY <1>0, <2>3
      <4> QED BY <3>9, <4>1
    <3> QED BY <3>10, <3>11 DEF FirstPending
  <2> QED BY <2>2, <2>3
<1>5. CASE m.mean # "heartbeat" /\ Fits(fl, e)
  <2> DEFINE nr == Numbered(FlushUncommited(fl), e)
  <2>1. /\ lo = LogOp(FlushUncommited(fl), e)
        /\ lo.file = fl.file /\ lo.last = fl.last /\ lo.pend = Append(<<>>, nr)
      BY <1>5 DEF Logged, LogOp, FlushUncommited
  <2> HIDE DEF lo, nr
  <2>2. /\ lo.pend # <<>> /\ Len(lo.pend) = 1 /\ lo.pend[1] = nr
        /\ Head(lo.pend) = nr /\ Tail(lo.pend) = <<>>
      BY <2>1
  <2>3. CASE m.mean # "logcommit"
    <3>1. st = lo
        BY <2>3
    <3>2. ASSUME fl.file = <<>>
          PROVE  nr = Content(lg)[1] /\ Len(Content(lg)) >= 1
      <4>1. n = 0
          BY <1>1, <3>2
      <4>2. e.ind = 0
          BY <1>1, <1>2, <1>5, <4>1 DEF Fits
      <4>3. nr = e
        <5>1. e.ind = Len(fl.file)
            BY <1>1, <4>1, <4>2
        <5> QED BY <1>2, <1>5, <5>1, NumberedAsIs DEF nr
      <4> QED BY <1>0, <1>2, <1>5, <4>2, <4>3
    <3> QED BY <2>1, <2>2, <3>1, <3>2 DEF FirstPending
  <2>4. CASE m.mean = "logcommit"
    <3>1. st = [file |-> Append(lo.file, nr), last |-> nr, pend |-> <<>>]
        BY <2>2, <2>4 DEF LogCommit
    <3>2. LenUncommited(lo) = n + 1
        BY <1>1, <2>1, <2>2 DEF LenUncommited, LenCommited
    <3>3. e.ind = n
        BY <1>1, <1>2, <1>3, <2>4, <3>2
    <3>4. nr = e
        BY <1>1, <1>2, <1>5, <3>3, NumberedAsIs DEF nr
    <3>5. st.file = Append(fl.file, lg.file[Len(fl.file) + 1]) /\ Len(fl.file) < Len(lg.file)
        BY <1>1, <1>3, <2>1, <2>4, <3>1, <3>3, <3>4
    <3>6. FileExtends(st.file, lg.file)
        BY <1>0, <3>5, ExtendsByOne
    <3> QED BY <3>1, <3>6 DEF FirstPending
  <2> QED BY <2>3, <2>4
<1> QED BY <1>4, <1>5

-----------------------------------------------------------------------------
(* One master: one candidate and one term, so one election is won at most. *)
OneMaster(a) == OneCandidate(a) /\ MaxTerm = 1

(* No heartbeat session has begun, and nobody has heard of the master.     *)
Unheard(a) ==
    /\ \A m \in net : m.type \notin {"replicate", "replicated"}
    /\ \A p \in Server \ {a} : log[p].file = <<>> /\ log[p].pend = <<>>
    /\ \A i \in Slot : session[a][i].st = "free"
    /\ sentLen[a] = EmptyMap

Beforehand(a) == elected = {} \/ (state[a] = "master" /\ co[a] # "producer")

(* The one term of a: it asks once, and once it has won it wins no more.   *)
Campaign(a) ==
    /\ co[a] \notin {"stuck", "down"}
    /\ co[a] \in Asking => term[a] = 1 /\ elected = {}
    /\ co[a] \in {"become_master", "producer0", "producer"} => elected # {}
    /\ elected # {} => term[a] = 1
    /\ state[a] = "master" =>
           elected # {} /\ co[a] \in {"loop", "become_master", "producer0", "producer"}
    /\ Beforehand(a) => Unheard(a)

(* To have stepped down is to have won and to be master no more.           *)
LEMMA SteppedDownMeans ==
    ASSUME NEW a, OneLeader(a)
    PROVE  SteppedDown <=> elected # {} /\ state[a] # "master"
BY DEF SteppedDown, OneLeader, Leads

(* Outside a's coroutines and the followers' handlers.                     *)
LEMMA CampaignAside ==
    ASSUME NEW a \in Server, Campaign(a), net' \subseteq net,
           \A p \in Server \ {a} : log'[p] = log[p],
           UNCHANGED <<co, term, elected, state, session, sentLen>>
    PROVE  Campaign(a)'
<1>1. Unheard(a) => Unheard(a)'
    BY DEF Unheard
<1>2. Beforehand(a)' => Beforehand(a)
    BY DEF Beforehand
<1> QED BY <1>1, <1>2 DEF Campaign

(* A follower's step changes nothing of a's.                               *)
LEMMA FollowerApart ==
    ASSUME NEW a, OneCandidate(a), TypeInv, OneLeader(a), NEW p \in Server \ {a}, FollowerStep(p)
    PROVE  /\ co'[a] = co[a] /\ term'[a] = term[a] /\ state'[a] = state[a]
           /\ session'[a] = session[a] /\ sentLen'[a] = sentLen[a] /\ log'[a] = log[a]
           /\ poisoned'[a] = poisoned[a]
           /\ elected' = elected
<1>0. a \in Server
    BY CandidateIsServer
<1>1. /\ co'[a] = co[a] /\ state'[a] = state[a] /\ session'[a] = session[a]
      /\ sentLen'[a] = sentLen[a] /\ log'[a] = log[a] /\ elected' = elected
    BY <1>0, FollowerStays DEF Untouched
<1>2. DOMAIN term = Server /\ DOMAIN poisoned = Server
    BY DEF TypeInv, ReplicaInv, VotingInv, VotingTypes, FlagsTyped
<1>3. term' = term \/ \E t : term' = [term EXCEPT ![p] = t]
    BY DEF FollowerStep, GoesRound, ReplicateRefused, SlaveReplicates, SlaveFatal, Dies,
         VoteGranted, VoteRefused, StoreTerm, serverVars
<1>4. poisoned' = poisoned \/ \E b : poisoned' = [poisoned EXCEPT ![p] = b]
    BY DEF FollowerStep, GoesRound, ReplicateRefused, SlaveReplicates, SlaveFatal, Dies,
         VoteGranted, VoteRefused
<1> QED BY <1>0, <1>1, <1>2, <1>3, <1>4

(* A follower that has not heard of a master hears of its candidacy.       *)
LEMMA CampaignByFollower ==
    ASSUME NEW a, OneCandidate(a), TypeInv, OneLeader(a), Campaign(a),
           NEW p \in Server \ {a}, FollowerStep(p)
    PROVE  Campaign(a)'
<1>1. /\ co'[a] = co[a] /\ term'[a] = term[a] /\ state'[a] = state[a]
      /\ session'[a] = session[a] /\ sentLen'[a] = sentLen[a]
      /\ elected' = elected
    BY FollowerApart
<1>2. ASSUME Unheard(a)
      PROVE  Unheard(a)'
  <2>1. GoesRound(p) \/ VoteGranted(p) \/ VoteRefused(p)
      BY <1>2 DEF Unheard, FollowerStep, ReplicateRefused, SlaveReplicates, SlaveFatal
  <2>2. log' = log /\ \A m \in net' \ net : m.type = "granted"
      BY <2>1 DEF GoesRound, VoteGranted, VoteRefused, storeVars
  <2> QED BY <1>1, <1>2, <2>2 DEF Unheard
<1>3. Beforehand(a)' => Beforehand(a)
    BY <1>1 DEF Beforehand
<1> QED BY <1>1, <1>2, <1>3 DEF Campaign

(* The coroutines of a, in the order of its one term.                      *)
LEMMA CampaignByCoroutine ==
    ASSUME NEW a, OneMaster(a), TypeInv, OneLeader(a), Campaign(a), Coroutine(a)
    PROVE  Campaign(a)'
<1>0. /\ a \in Server /\ co \in [Server -> Coroutines]
      /\ state \in [Server -> {"slave", "condidate", "master"}]
      /\ term \in [Server -> Terms] /\ ~cancelled[a]
      /\ DOMAIN session = Server /\ DOMAIN sentLen = Server /\ MaxTerm = 1
    BY CandidateIsServer
       DEF OneMaster, TypeInv, ReplicaInv, VotingInv, VotingTypes, LogInv, SessionsTyped,
           PeersTyped, OneLeader, Leads
<1>1. \A p \in Server \ {a} : log'[p] = log[p]
    BY <1>0, LeaderAlone DEF Untouched
<1>2. ASSUME UNCHANGED <<session, sentLen>>, Unheard(a),
             \A m \in net' \ net : m.type = "vote"
      PROVE  Unheard(a)'
    BY <1>1, <1>2 DEF Unheard
<1>3. CASE LoopIteration(a)
  <2>1. /\ UNCHANGED <<term, state, elected, session, sentLen, net>>
        /\ co[a] = "loop"
        /\ co'[a] \in {"become_master", "become_condidate", "consumer"}
        /\ co'[a] = "become_master" <=> state[a] = "master"
      BY <1>0, <1>3 DEF LoopIteration, serverVars, peerVars, historyVars
  <2> QED BY <1>2, <2>1 DEF Campaign, Beforehand, Asking
<1>4. CASE SpawnFlushed(a)
  <2>1. /\ UNCHANGED <<term, state, elected, session, sentLen, net>>
        /\ \/ co[a] = "become_master" /\ co'[a] = "producer0"
           \/ co[a] = "become_condidate" /\ co'[a] = "elect"
      BY <1>0, <1>4 DEF SpawnFlushed, serverVars, peerVars, historyVars
  <2> QED BY <1>2, <2>1 DEF Campaign, Beforehand, Asking
<1>5. CASE ConsumerExpire(a) \/ ConsumerCancelled(a)
  <2>1. /\ UNCHANGED <<term, elected, session, sentLen, net>>
        /\ state'[a] = "condidate" /\ co[a] = "consumer" /\ co'[a] = "loop"
      BY <1>0, <1>5 DEF ConsumerExpire, ConsumerCancelled, Leaves, peerVars, historyVars
  <2> QED BY <1>2, <2>1 DEF Campaign, Beforehand, Asking
<1>6. CASE ElectionStart(a)
  <2>1. /\ UNCHANGED <<state, elected, session, sentLen, net>>
        /\ co[a] = "elect" /\ co'[a] = "canvass" /\ term[a] < 1 /\ term'[a] = term[a] + 1
      BY <1>0, <1>6 DEF ElectionStart, AddTerm, peerVars, historyVars
  <2>2. term[a] \in Nat
      BY <1>0 DEF Terms
  <2>3. term'[a] = 1 /\ term[a] # 1
      BY <2>1, <2>2
  <2> QED BY <1>2, <2>1, <2>3 DEF Campaign, Beforehand, Asking
<1>7. CASE Canvass(a)
  <2>1. /\ UNCHANGED <<term, state, elected, session, sentLen>>
        /\ co[a] = "canvass" /\ co'[a] = "election"
        /\ \A m \in net' \ net : m.type = "vote"
      BY <1>0, <1>7 DEF Canvass, serverVars, peerVars, historyVars
  <2> QED BY <1>2, <2>1 DEF Campaign, Beforehand, Asking
<1>8. CASE CountVote(a) \/ ElectionGivenUp(a)
  <2>1. /\ UNCHANGED <<term, state, elected, session, sentLen>> /\ net' \subseteq net
        /\ co[a] = "election" /\ co'[a] \in {"election", "won", "loop"}
      BY <1>0, <1>8 DEF CountVote, ElectionGivenUp, Leaves, WithoutVotesFor, serverVars,
           peerVars, historyVars, loopVars
  <2> QED BY <1>2, <2>1 DEF Campaign, Beforehand, Asking
<1>9. CASE BecomeLeader(a)
  <2>1. /\ UNCHANGED <<term, session, sentLen, net>>
        /\ co[a] = "won" /\ co'[a] = "loop" /\ state'[a] = "master" /\ elected' # {}
      BY <1>0, <1>9 DEF BecomeLeader, Leaves, peerVars
  <2> QED BY <1>2, <2>1 DEF Campaign, Beforehand, Asking
<1>10. CASE ProducerTick(a)
  <2>1. /\ UNCHANGED <<term, state, elected>>
        /\ co[a] \in {"producer0", "producer"}
        /\ \/ state[a] # "master" /\ co'[a] = "loop"
           \/ state[a] = "master" /\ co'[a] = "producer"
      BY <1>0, <1>10 DEF ProducerTick, Leaves, serverVars, historyVars
  <2> QED BY <2>1 DEF Campaign, Beforehand, Asking
<1>11. CASE ProducerCancelled(a)
    BY <1>0, <1>11 DEF ProducerCancelled
<1>12. ASSUME NEW i \in Slot, SessionStart(a, i) \/ SessionReceive(a, i) \/ SessionExpire(a, i)
       PROVE  Campaign(a)'
  <2>1. /\ UNCHANGED <<term, co, elected>>
        /\ state'[a] = state[a] \/ state'[a] = "slave"
        /\ session[a][i].st # "free"
      BY <1>0, <1>12 DEF SessionStart, SessionReceive, SessionExpire, serverVars, loopVars,
           historyVars
  <2>2. ~Beforehand(a)
      BY <2>1 DEF Campaign, Unheard
  <2>3. ~Beforehand(a)'
      BY <2>1, <2>2 DEF Beforehand
  <2> QED BY <2>1, <2>3 DEF Campaign
<1> QED BY <1>3, <1>4, <1>5, <1>6, <1>7, <1>8, <1>9, <1>10, <1>11, <1>12 DEF Coroutine

(* At the start nobody has asked for anything.                             *)
LEMMA InitCampaign ==
    ASSUME NEW a, OneCandidate(a), Init
    PROVE  Campaign(a)
<1>1. a \in Server
    BY CandidateIsServer
<1>2. EmptyLog.file = <<>> /\ EmptyLog.pend = <<>>
    BY DEF EmptyLog
<1>3. Unheard(a)
    BY <1>1, <1>2 DEF Init, Unheard, FreshSession
<1> QED BY <1>1, <1>3 DEF Init, Campaign, Asking

(* The campaign goes its way whatever the others do.                       *)
LEMMA NextCampaign ==
    ASSUME NEW a, OneMaster(a), TypeInv, OneLeader(a), Campaign(a), [Next]_vars
    PROVE  Campaign(a)'
<1>0. a \in Server /\ OneCandidate(a)
    BY CandidateIsServer DEF OneMaster
<1>1. CASE UNCHANGED vars \/ MessageLost
  <2>1. UNCHANGED <<co, term, elected, state, session, sentLen, log>> /\ net' \subseteq net
      BY <1>1 DEF MessageLost, vars, serverVars, storeVars, peerVars, loopVars, historyVars
  <2> QED BY <1>0, <2>1, CampaignAside
<1>2. ASSUME NEW c \in Client, HandleKvs(c)
      PROVE  Campaign(a)'
  <2>1. /\ UNCHANGED <<co, term, elected, state, session, sentLen, net>>
        /\ \A p \in Server \ {a} : log'[p] = log[p]
      BY <1>0, <1>2, HandlersAtLeader DEF Untouched
  <2> QED BY <1>0, <2>1, CampaignAside
<1>3. CASE Coroutine(a)
    BY <1>3, CampaignByCoroutine
<1>4. ASSUME NEW p \in Server \ {a}, FollowerStep(p)
      PROVE  Campaign(a)'
    BY <1>0, <1>4, CampaignByFollower
<1> QED BY <1>0, <1>1, <1>2, <1>3, <1>4, StepsOfOneLeader

(* Who has stepped down does so for good.                                  *)
LEMMA StillReigns ==
    ASSUME NEW a, OneMaster(a), TypeInv, OneLeader(a), Campaign(a), [Next]_vars, SteppedDown
    PROVE  SteppedDown'
<1>0. /\ a \in Server /\ OneCandidate(a) /\ elected # {} /\ state[a] # "master"
      /\ state \in [Server -> {"slave", "condidate", "master"}]
    BY CandidateIsServer, SteppedDownMeans
       DEF OneMaster, TypeInv, ReplicaInv, VotingInv, VotingTypes
<1>1. OneLeader(a)'
    BY <1>0, NextOneLeader
<1>2. CASE UNCHANGED <<elected, state>>
    BY <1>2 DEF SteppedDown
<1>3. CASE Coroutine(a)
  <2>1. ~BecomeLeader(a)
      BY <1>0 DEF BecomeLeader, Campaign, Asking
  <2>2. /\ UNCHANGED elected
        /\ \/ state' = state
           \/ \E st \in {"slave", "condidate"} : state' = [state EXCEPT ![a] = st]
    <3>1. CASE \/ LoopIteration(a) \/ SpawnFlushed(a) \/ ConsumerExpire(a) \/ ConsumerCancelled(a)
               \/ ElectionStart(a) \/ Canvass(a) \/ CountVote(a)
        BY <3>1 DEF LoopIteration, SpawnFlushed, ConsumerExpire, ConsumerCancelled,
             ElectionStart, Canvass, CountVote, historyVars, serverVars
    <3>2. CASE \/ ElectionGivenUp(a) \/ ProducerTick(a) \/ ProducerCancelled(a)
               \/ \E i \in Slot : SessionStart(a, i) \/ SessionReceive(a, i) \/ SessionExpire(a, i)
        BY <3>2 DEF ElectionGivenUp, ProducerTick, ProducerCancelled,
             SessionStart, SessionReceive, SessionExpire, historyVars, serverVars
    <3> QED BY <1>3, <2>1, <3>1, <3>2 DEF Coroutine
  <2>3. elected' # {} /\ state'[a] # "master"
      BY <1>0, <2>2
  <2> QED BY <1>1, <2>3 DEF SteppedDown, OneLeader, Leads
<1>4. ASSUME NEW p \in Server \ {a}, FollowerStep(p)
      PROVE  SteppedDown'
  <2>1. elected' = elected /\ state'[a] = state[a]
      BY <1>0, <1>4, FollowerApart
  <2> QED BY <1>0, <1>1, <2>1 DEF SteppedDown, OneLeader, Leads
<1>5. ASSUME NEW c \in Client, HandleKvs(c)
      PROVE  SteppedDown'
  <2>1. UNCHANGED <<elected, state>>
      BY <1>0, <1>5, HandlersAtLeader
  <2> QED BY <1>2, <2>1
<1>6. CASE UNCHANGED vars \/ MessageLost
  <2>1. UNCHANGED <<elected, state>>
      BY <1>6 DEF MessageLost, vars, serverVars, historyVars
  <2> QED BY <1>2, <2>1
<1> QED BY <1>0, <1>3, <1>4, <1>5, <1>6, StepsOfOneLeader

-----------------------------------------------------------------------------
(* A log of which nothing is taken back, written or pending.               *)
LogExtends(lg, new) ==
    /\ FileExtends(lg.file, new.file)
    /\ FileExtends(Content(lg), Content(new))

(* The files of the others are prefixes of a's, and what is on its way to  *)
(* them is in a's log.                                                     *)
Reign(a) ==
    /\ \A p \in Server \ {a} :
           FileExtends(log[p].file, log[a].file) /\ FirstPending(log[a], log[p])
    /\ \A m \in net : m.type = "replicate" => Asks(log[a], m)

(* A log extends itself.                                                   *)
LEMMA LogExtendsSelf ==
    ASSUME NEW lg \in Log
    PROVE  LogExtends(lg, lg)
<1>1. lg.file \in Seq(Entry) /\ Content(lg) \in Seq(Entry)
    BY ContentIndices DEF Log
<1>2. \A f \in Seq(Entry) : FileExtends(f, f)
    BY DEF FileExtends
<1> QED BY <1>1, <1>2 DEF LogExtends

(* What extends an extension extends the first.                            *)
LEMMA ExtendsTransitive ==
    ASSUME NEW f \in Seq(Entry), NEW g \in Seq(Entry), NEW h \in Seq(Entry),
           FileExtends(f, g), FileExtends(g, h)
    PROVE  FileExtends(f, h)
<1> SUFFICES ASSUME NEW i \in 1..Len(f)
             PROVE  i <= Len(h) /\ h[i] = f[i]
    BY DEF FileExtends
<1>1. i <= Len(g) /\ g[i] = f[i]
    BY DEF FileExtends
<1>2. i \in 1..Len(g)
    BY <1>1
<1>3. i <= Len(h) /\ h[i] = g[i]
    BY <1>2 DEF FileExtends
<1> QED BY <1>1, <1>3

(* One more entry extends a sequence.                                      *)
LEMMA AppendExtends ==
    ASSUME NEW f \in Seq(Entry), NEW e \in Entry
    PROVE  FileExtends(f, Append(f, e))
BY DEF FileExtends

(* LogCommit (logger.go:178-195) extends the file.                         *)
LEMMA CommitExtends ==
    ASSUME NEW lg \in Log, LastIsCached(lg), WellNumbered(Content(lg))
    PROVE  FileExtends(lg.file, LogCommit(lg).file)
<1>1. CASE lg.pend = <<>>
    BY <1>1, ExtendsSelf DEF LogCommit
<1>2. CASE lg.pend # <<>>
  <2>1. lg.file \in Seq(Entry) /\ Head(lg.pend) \in Entry
      BY <1>2 DEF Log
  <2>2. LogCommit(lg).file = Append(lg.file, Head(lg.pend))
      BY <1>2 DEF LogCommit
  <2> QED BY <2>1, <2>2, AppendExtends
<1> QED BY <1>1, <1>2

(* What stands in a log stands in one that extends it.                     *)
LEMMA StandsOn ==
    ASSUME NEW lg \in Log, NEW new \in Log, LogExtends(lg, new)
    PROVE  /\ \A e \in Entry : EntryOf(lg, e) => EntryOf(new, e)
           /\ \A fl : FirstPending(lg, fl) => FirstPending(new, fl)
           /\ \A n \in Nat : n < Len(lg.file) => n < Len(new.file)
<1>0. /\ Content(lg) \in Seq(Entry) /\ Content(new) \in Seq(Entry)
      /\ lg.file \in Seq(Entry) /\ new.file \in Seq(Entry)
    BY ContentIndices DEF Log
<1>1. \A f, g \in Seq(Entry) : FileExtends(f, g) =>
          \A n \in Nat : n < Len(f) => n < Len(g) /\ g[n + 1] = f[n + 1]
  <2> SUFFICES ASSUME NEW f \in Seq(Entry), NEW g \in Seq(Entry), FileExtends(f, g),
                      NEW n \in Nat, n < Len(f)
               PROVE  n < Len(g) /\ g[n + 1] = f[n + 1]
      OBVIOUS
  <2>1. n + 1 \in 1..Len(f)
      OBVIOUS
  <2>2. n + 1 <= Len(g) /\ g[n + 1] = f[n + 1]
      BY <2>1 DEF FileExtends
  <2>3. Len(g) \in Nat
      OBVIOUS
  <2> QED BY <2>2, <2>3
<1>2. \A e \in Entry : EntryOf(lg, e) => EntryOf(new, e)
  <2> SUFFICES ASSUME NEW e \in Entry, EntryOf(lg, e)
               PROVE  EntryOf(new, e)
      OBVIOUS
  <2>1. e.ind \in Nat
      BY DEF Entry
  <2> QED BY <1>0, <1>1, <2>1 DEF EntryOf, LogExtends
<1>3. \A fl : FirstPending(lg, fl) => FirstPending(new, fl)
  <2> SUFFICES ASSUME NEW fl, FirstPending(lg, fl), fl.file = <<>>, fl.pend # <<>>
               PROVE  Len(Content(new)) >= 1 /\ fl.pend[1] = Content(new)[1]
      BY DEF FirstPending
  <2>1. Len(Content(lg)) >= 1 /\ fl.pend[1] = Content(lg)[1]
      BY DEF FirstPending
  <2>2. PICK c \in Seq(Entry), d \in Seq(Entry) : c = Content(lg) /\ d = Content(new)
      BY <1>0
  <2>3. 0 < Len(c) /\ FileExtends(c, d)
      BY <2>1, <2>2 DEF LogExtends
  <2>4. 0 < Len(d) /\ d[0 + 1] = c[0 + 1]
      BY <1>1, <2>3
  <2>5. Len(d) >= 1 /\ d[1] = c[1]
      BY <2>4
  <2> QED BY <2>1, <2>2, <2>5
<1>4. \A n \in Nat : n < Len(lg.file) => n < Len(new.file)
    BY <1>0, <1>1 DEF LogExtends
<1> QED BY <1>2, <1>3, <1>4

(* LogOp numbers an entry and leaves what it asks for.                     *)
LEMMA NumberedIsEntry ==
    ASSUME NEW lg \in Log, LastIsCached(lg), WellNumbered(Content(lg)), NEW e \in Entry
    PROVE  Numbered(lg, e) \in Entry /\ Numbered(lg, e).cmd = e.cmd
<1>1. Numbered(lg, e).cmd = e.cmd
    BY DEF Numbered, Following, First, Renumbered
<1>2. CASE lg.pend # <<>>
  <2>1. lg.pend[Len(lg.pend)] \in Entry
      BY <1>2, TailOfContent
  <2> QED BY <1>1, <1>2, <2>1, FollowingFits DEF Numbered
<1>3. CASE lg.pend = <<>> /\ lg.last.cmd = NoCommand
    BY <1>1, <1>3 DEF Numbered, First, Renumbered, Entry
<1>4. CASE lg.pend = <<>> /\ lg.last.cmd # NoCommand
  <2>1. lg.last \in Entry
      BY <1>4 DEF Log, ZeroEntry
  <2> QED BY <1>1, <1>4, <2>1, FollowingFits DEF Numbered
<1> QED BY <1>2, <1>3, <1>4

(* The handlers of clients only add to the master's log.                   *)
LEMMA HandlersExtend ==
    ASSUME NEW a, OneCandidate(a), TypeInv, OneLeader(a), NEW c \in Client, HandleKvs(c)
    PROVE  LogExtends(log[a], log'[a])
<1>0. /\ a \in Server /\ DOMAIN log = Server
      /\ log[a] \in Log /\ WellNumbered(Content(log[a]))
    BY CandidateIsServer DEF TypeInv, ReplicaInv, LogInv, LogsGood, GoodLog
<1>1. CASE UNCHANGED <<log, kvs>>
    BY <1>0, <1>1, LogExtendsSelf
<1>2. CASE InHandler(client[c]) /\ client[c].node = a
  <2> DEFINE e == [ZeroEntry EXCEPT !.cmd = Request[c], !.term = term[a]]
             lo == LogOp(log[a], e)
  <2>0. \/ UNCHANGED log
        \/ co[a] # "down" /\ (ClientSubmits(c) \/ ClientResumes(c))
      BY <1>2 DEF HandleKvs, ClientAdmitted, ClientRejected, ClientSubmits, ClientResumes,
           Serving, storeVars
  <2>1. CASE UNCHANGED log
      BY <1>0, <2>1, LogExtendsSelf
  <2>2. CASE log' # log /\ co[a] # "down" /\ (ClientSubmits(c) \/ ClientResumes(c))
    <3>1. \E lg \in {log[a], lo, LogCommit(lo), LogCommit(log[a])} : log' = [log EXCEPT ![a] = lg]
      <4>1. CASE ClientSubmits(c)
          BY <1>2, <4>1 DEF ClientSubmits, Complete
      <4>2. CASE ClientResumes(c)
        <5>1. Complete(c, a, log[a])
            BY <1>2, <2>2, <4>2 DEF ClientResumes, storeVars
        <5> QED BY <5>1 DEF Complete
      <4> QED BY <2>2, <4>1, <4>2
    <3>2. LastIsCached(log[a])
        BY <1>0, <2>2 DEF TypeInv, ReplicaInv, LogInv, LogsGood
    <3>3. e \in Entry
      <4>1. Request[c] \in Command /\ term[a] \in Nat
          BY <1>0, RaftClusterAssumption
             DEF TypeInv, ReplicaInv, VotingInv, VotingTypes, Terms
      <4> QED BY <4>1 DEF Entry, ZeroEntry
    <3> HIDE DEF e
    <3>4. /\ lo \in Log /\ LastIsCached(lo) /\ WellNumbered(Content(lo))
          /\ Content(lo) = Append(Content(log[a]), Numbered(log[a], e))
          /\ lo.file = log[a].file
        BY <1>0, <3>2, <3>3, LogOpShape
    <3>5. Content(log[a]) \in Seq(Entry) /\ Numbered(log[a], e) \in Entry
        BY <1>0, <3>2, <3>3, NumberedIsEntry, ContentIndices
    <3>6. /\ LogCommit(lo) \in Log /\ Content(LogCommit(lo)) = Content(lo)
          /\ Content(LogCommit(log[a])) = Content(log[a])
        BY <1>0, <3>2, <3>4, LogCommitShape
    <3>7. /\ FileExtends(log[a].file, LogCommit(log[a]).file)
          /\ FileExtends(lo.file, LogCommit(lo).file)
        BY <1>0, <3>2, <3>4, CommitExtends
    <3>8. LogExtends(log[a], log[a])
        BY <1>0, LogExtendsSelf
    <3>9. FileExtends(Content(log[a]), Content(lo))
        BY <3>4, <3>5, AppendExtends
    <3>10. \A lg \in {log[a], lo, LogCommit(lo), LogCommit(log[a])} : LogExtends(log[a], lg)
        BY <3>4, <3>6, <3>7, <3>8, <3>9 DEF LogExtends
    <3> QED BY <1>0, <3>1, <3>10
  <2> QED BY <2>0, <2>1, <2>2
<1> QED BY <1>1, <1>2, HandlersAtLeader

(* The master's log extends, and the followers' stay.                      *)
LEMMA ReignGrows ==
    ASSUME NEW a \in Server, TypeInv, TypeInv', Reign(a), LogExtends(log[a], log'[a]),
           \A p \in Server \ {a} : log'[p] = log[p],
           \A m \in net' \ net : m.type = "replicate" => Asks(log'[a], m)
    PROVE  Reign(a)'
<1>0. /\ log[a] \in Log /\ log'[a] \in Log
      /\ \A p \in Server : log[p].file \in Seq(Entry) /\ log'[p].file \in Seq(Entry)
    BY DEF TypeInv, ReplicaInv, LogInv, LogsGood, Log
<1>1. /\ \A e \in Entry : EntryOf(log[a], e) => EntryOf(log'[a], e)
      /\ \A fl : FirstPending(log[a], fl) => FirstPending(log'[a], fl)
      /\ \A n \in Nat : n < Len(log[a].file) => n < Len(log'[a].file)
    BY <1>0, StandsOn
<1>2. ASSUME NEW p \in Server \ {a}
      PROVE  FileExtends(log'[p].file, log'[a].file) /\ FirstPending(log'[a], log'[p])
    BY <1>0, <1>1, <1>2, ExtendsTransitive DEF Reign, LogExtends
<1>3. ASSUME NEW m \in net', m.type = "replicate"
      PROVE  Asks(log'[a], m)
  <2>1. CASE m \in net
    <3>1. Asks(log[a], m)
        BY <1>3, <2>1 DEF Reign
    <3>2. m.mean # "heartbeat" => m.entry \in Entry /\ m.entry.ind \in Nat
        BY <1>3, <2>1 DEF TypeInv, ReplicaInv, LogInv, MessagesGood, TermEntry, Entry
    <3> QED BY <1>1, <3>1, <3>2 DEF Asks
  <2>2. CASE m \notin net
      BY <1>3, <2>2
  <2> QED BY <2>1, <2>2
<1> QED BY <1>2, <1>3 DEF Reign

(* Nobody has heard of the master: it reigns over empty files.             *)
LEMMA UnheardReigns ==
    ASSUME NEW a, Unheard(a)
    PROVE  Reign(a)
BY DEF Unheard, Reign, FileExtends, FirstPending

(* What a session sends is in the log it is sent from.                     *)
LEMMA SessionAsks ==
    ASSUME NEW a \in Server, TypeInv, co[a] # "down", NEW i \in Slot, SessionStart(a, i)
    PROVE  \A m \in net' \ net : Asks(log[a], m)
<1> SUFFICES ASSUME NEW m \in net' \ net, m.mean # "heartbeat"
             PROVE  /\ EntryOf(log[a], m.entry)
                    /\ m.mean = "logcommit" => m.entry.ind < Len(log[a].file)
    BY DEF Asks
<1>0. /\ log[a] \in Log /\ WellNumbered(Content(log[a])) /\ LastIsCached(log[a])
      /\ session[a][i].first \in BOOLEAN /\ LogInv
    BY DEF TypeInv, ReplicaInv, LogInv, LogsGood, GoodLog, SessionsTyped
<1>1. PICK p \in Others(a) :
          /\ m.mean = Shipment(a, p, session[a][i].first).mean
          /\ m.entry = Shipment(a, p, session[a][i].first).entry
    BY DEF SessionStart
<1>2. PICK n \in {At(sentLen[a], p), At(commitLen[a], p)} :
          /\ n \in Nat /\ n + 1 \in 1..Len(Content(log[a]))
          /\ m.entry = Content(log[a])[n + 1]
          /\ m.mean = "logcommit" => n < LenCommited(log[a])
    BY <1>0, <1>1, ShipsEntries
<1>3. m.entry.ind = n
  <2>1. Content(log[a])[n + 1].ind = (n + 1) - 1
      BY <1>0, <1>2 DEF WellNumbered
  <2> QED BY <1>2, <2>1
<1>4. LenCommited(log[a]) = Len(log[a].file)
    BY <1>0, ShapeGivesLengths
<1>5. n < Len(Content(log[a]))
  <2>1. Content(log[a]) \in Seq(Entry)
      BY <1>0, ContentIndices
  <2>2. \A q \in Seq(Entry) : n + 1 \in 1..Len(q) => n < Len(q)
      BY <1>2
  <2> QED BY <1>2, <2>1, <2>2
<1> QED BY <1>2, <1>3, <1>4, <1>5 DEF EntryOf

(* A follower's file stays a prefix of the master's.                       *)
LEMMA FollowerObeys ==
    ASSUME NEW a, OneCandidate(a), TypeInv, OneLeader(a), Reign(a),
           NEW p \in Server \ {a}, FollowerStep(p)
    PROVE  Reign(a)'
<1>0. /\ log \in [Server -> Log] /\ a \in Server /\ Follows(p)
      /\ \A s \in Server : GoodLog(log[s]) /\ (co[s] # "down" => LastIsCached(log[s]))
    BY CandidateIsServer DEF TypeInv, ReplicaInv, LogInv, LogsGood, OneLeader
<1>1. /\ log'[a] = log[a]
      /\ \A q \in Server \ {p} : log'[q] = log[q]
    BY <1>0, FollowerStays DEF Untouched
<1>2. \A m \in net' : m.type = "replicate" => m \in net
    BY AnswersComeBack
<1>3. FileExtends(log'[p].file, log[a].file) /\ FirstPending(log[a], log'[p])
  <2>0. FileExtends(log[p].file, log[a].file) /\ FirstPending(log[a], log[p])
      BY DEF Reign
  <2>1. CASE log' = log
      BY <2>0, <2>1
  <2>2. CASE SlaveFatal(p)
    <3>1. log'[p] = [EmptyLog EXCEPT !.file = log[p].file]
        BY <1>0, <2>2 DEF SlaveFatal, Dies
    <3>2. log'[p].file = log[p].file /\ log'[p].pend = <<>>
        BY <3>1 DEF EmptyLog
    <3> QED BY <2>0, <3>2 DEF FirstPending
  <2>3. CASE SlaveReplicates(p)
    <3>1. PICK m \in net :
              /\ m.type = "replicate" /\ co[p] # "down"
              /\ Committable(Logged(log[p], m), m)
              /\ log' = [log EXCEPT ![p] = Stored(p, m)]
        BY <2>3 DEF SlaveReplicates, Stored, Serving
    <3>2. /\ m.mean # "heartbeat" => m.entry \in TermEntry
          /\ Asks(log[a], m)
        BY <3>1 DEF TypeInv, ReplicaInv, LogInv, MessagesGood, Reign
    <3>3. /\ GoodLog(log[a]) /\ GoodLog(log[p]) /\ LastIsCached(log[p]) /\ Len(log[p].pend) <= 1
        BY <1>0, <3>1 DEF Follows
    <3>4. FileExtends(Stored(p, m).file, log[a].file) /\ FirstPending(log[a], Stored(p, m))
        BY <2>0, <3>1, <3>2, <3>3, StoresPrefix DEF Stored
    <3>5. log'[p] = Stored(p, m)
        BY <1>0, <3>1
    <3> QED BY <3>4, <3>5
  <2>4. log' = log \/ SlaveFatal(p) \/ SlaveReplicates(p)
      BY DEF FollowerStep, GoesRound, ReplicateRefused, VoteGranted, VoteRefused, storeVars
  <2> QED BY <2>1, <2>2, <2>3, <2>4
<1> QED BY <1>1, <1>2, <1>3 DEF Reign

(* Until it steps down a's log leads.                                      *)
LEMMA NextReign ==
    ASSUME NEW a, OneMaster(a), TypeInv, OneLeader(a), Campaign(a), SteppedDown \/ Reign(a),
           [Next]_vars
    PROVE  (SteppedDown \/ Reign(a))'
<1>0. /\ a \in Server /\ OneCandidate(a) /\ co[a] # "down" /\ TypeInv'
      /\ log[a] \in Log
    BY CandidateIsServer, NextTypeInv
       DEF OneMaster, Campaign, TypeInv, ReplicaInv, LogInv, LogsGood
<1> SUFFICES ASSUME ~SteppedDown, ~SteppedDown'
             PROVE  Reign(a)'
    BY StillReigns
<1>1. Reign(a) /\ LogExtends(log[a], log[a])
    BY <1>0, LogExtendsSelf
<1>2. CASE UNCHANGED vars \/ MessageLost
  <2>1. log' = log /\ net' \subseteq net
      BY <1>2 DEF MessageLost, vars, storeVars
  <2> QED BY <1>0, <1>1, <2>1, ReignGrows
<1>3. ASSUME NEW c \in Client, HandleKvs(c)
      PROVE  Reign(a)'
  <2>1. net' = net /\ \A p \in Server \ {a} : log'[p] = log[p]
      BY <1>0, <1>3, HandlersAtLeader DEF Untouched
  <2>2. LogExtends(log[a], log'[a])
      BY <1>0, <1>3, HandlersExtend
  <2> QED BY <1>0, <1>1, <2>1, <2>2, ReignGrows
<1>4. ASSUME NEW p \in Server \ {a}, FollowerStep(p)
      PROVE  Reign(a)'
    BY <1>0, <1>1, <1>4, FollowerObeys
<1>5. CASE Coroutine(a)
  <2>1. \A p \in Server \ {a} : log'[p] = log[p]
      BY <1>0, <1>5, LeaderAlone DEF Untouched
  <2>2. CASE SpawnFlushed(a)
    <3>1. co[a] \in {"become_master", "become_condidate"}
        BY <2>2 DEF SpawnFlushed
    <3>2. elected = {} \/ state[a] = "master"
        BY SteppedDownMeans
    <3>3. Unheard(a)
        BY <3>1, <3>2 DEF Campaign, Beforehand
    <3>4. UNCHANGED <<session, net, sentLen>>
        BY <2>2 DEF SpawnFlushed, peerVars
    <3>5. Unheard(a)'
        BY <2>1, <3>3, <3>4 DEF Unheard
    <3> QED BY <3>5 DEF Unheard, Reign, FileExtends, FirstPending
  <2>3. CASE ~SpawnFlushed(a)
    <3>1. log' = log
      <4>1. CASE \/ LoopIteration(a) \/ ConsumerExpire(a) \/ ConsumerCancelled(a)
                 \/ ElectionStart(a) \/ Canvass(a) \/ CountVote(a) \/ ElectionGivenUp(a)
          BY <4>1 DEF LoopIteration, ConsumerExpire, ConsumerCancelled, ElectionStart, Canvass,
               CountVote, ElectionGivenUp, storeVars
      <4>2. CASE \/ BecomeLeader(a) \/ ProducerTick(a) \/ ProducerCancelled(a)
                 \/ \E i \in Slot : SessionStart(a, i) \/ SessionReceive(a, i) \/ SessionExpire(a, i)
          BY <4>2 DEF BecomeLeader, ProducerTick, ProducerCancelled, SessionStart,
               SessionReceive, SessionExpire, storeVars
      <4> QED BY <1>5, <2>3, <4>1, <4>2 DEF Coroutine
    <3>2. \A m \in net' \ net : m.type = "replicate" => Asks(log'[a], m)
      <4>1. ASSUME NEW i \in Slot, SessionStart(a, i)
            PROVE  \A m \in net' \ net : m.type = "replicate" => Asks(log'[a], m)
          BY <1>0, <3>1, <4>1, SessionAsks
      <4>2. ASSUME ~\E i \in Slot : SessionStart(a, i)
            PROVE  \A m \in net' \ net : m.type # "replicate"
        <5>1. CASE \/ LoopIteration(a) \/ ConsumerExpire(a) \/ ConsumerCancelled(a)
                   \/ ElectionStart(a) \/ Canvass(a) \/ CountVote(a) \/ ElectionGivenUp(a)
            BY <5>1 DEF LoopIteration, ConsumerExpire, ConsumerCancelled, ElectionStart, Canvass,
                 CountVote, ElectionGivenUp, WithoutVotesFor
        <5>2. CASE \/ BecomeLeader(a) \/ ProducerTick(a) \/ ProducerCancelled(a)
            BY <5>2 DEF BecomeLeader, ProducerTick, ProducerCancelled
        <5>3. ASSUME NEW i \in Slot, SessionReceive(a, i)
              PROVE  \A m \in net' \ net : m.type # "replicate"
            BY <5>3 DEF SessionReceive, SessionOver
        <5>4. ASSUME NEW i \in Slot, SessionExpire(a, i)
              PROVE  \A m \in net' \ net : m.type # "replicate"
            BY <5>4 DEF SessionExpire, SessionOver
        <5> QED BY <1>5, <2>3, <4>2, <5>1, <5>2, <5>3, <5>4 DEF Coroutine
      <4> QED BY <4>1, <4>2
    <3> QED BY <1>0, <1>1, <2>1, <3>1, <3>2, ReignGrows
  <2> QED BY <2>2, <2>3
<1> QED BY <1>0, <1>2, <1>3, <1>4, <1>5, StepsOfOneLeader

(* With one candidate and one term two servers agree on every line both    *)
(* have, until the master steps down: entries sent again, late or out of   *)
(* order, or lost, leave every slave's file a prefix of the master's,      *)
(* although a slave flushes what it has pending for an entry it gives      *)
(* another number (raftapi.go:159-192).                                    *)
THEOREM OneMasterFilesAgree ==
    ASSUME NEW a, OneMaster(a)
    PROVE  Spec => []FilesAgree
<1> DEFINE MasterInv == TypeInv /\ OneLeader(a) /\ Campaign(a) /\ (SteppedDown \/ Reign(a))
<1>0. OneCandidate(a)
    BY DEF OneMaster
<1>1. Init => MasterInv
  <2> SUFFICES ASSUME Init
               PROVE  MasterInv
      OBVIOUS
  <2>1. TypeInv /\ OneLeader(a) /\ Campaign(a)
      BY <1>0, InitTypeInv, InitOneLeader, InitCampaign
  <2>2. Reign(a)
      BY <2>1, UnheardReigns DEF Campaign, Beforehand, Init
  <2> QED BY <2>1, <2>2
<1>2. MasterInv /\ [Next]_vars => MasterInv'
    BY <1>0, NextTypeInv, NextOneLeader, NextCampaign, NextReign
<1>3. MasterInv => FilesAgree
  <2> SUFFICES ASSUME MasterInv, Reign(a), NEW s \in Server, NEW t \in Server,
                      NEW i \in 1..Len(log[s].file), i <= Len(log[t].file)
               PROVE  log[s].file[i] = log[t].file[i]
      BY DEF FilesAgree
  <2>1. \A p \in Server \ {a} : FileExtends(log[p].file, log[a].file)
      BY DEF Reign
  <2>2. i \in 1..Len(log[t].file)
    <3>1. log[t].file \in Seq(Entry)
        BY DEF TypeInv, ReplicaInv, LogInv, LogsGood, Log
    <3> QED BY <3>1
  <2>3. s # a => log[s].file[i] = log[a].file[i]
      BY <2>1 DEF FileExtends
  <2>4. t # a => log[t].file[i] = log[a].file[i]
      BY <2>1, <2>2 DEF FileExtends
  <2> QED BY <2>3, <2>4
<1> HIDE DEF MasterInv
<1> QED BY <1>1, <1>2, <1>3, PTL DEF Spec

-----------------------------------------------------------------------------
(* The requests that were logged, and whose handlers wait or have ended.   *)
Submitted == {c \in Client : client[c].st \in {"waiting", "woken", "acked", "failed"}}

(* Log lg has one entry for each request of sub, and no other; its file    *)
(* counts the requests of ack.                                             *)
Booked(lg, sub, ack) ==
    /\ IsFiniteSet(sub) /\ ack \subseteq sub
    /\ Len(Content(lg)) = Cardinality(sub)
    /\ Len(lg.file) = Cardinality(ack)
    /\ \A i \in 1..Len(Content(lg)) : \E c \in sub : Content(lg)[i].cmd = Request[c]
    /\ \A c \in sub : \E i \in 1..Len(Content(lg)) :
           \A j \in 1..Len(Content(lg)) : Content(lg)[j].cmd = Request[c] <=> j = i

(* Requests that can be told apart.                                        *)
DistinctRequests == \A c, d \in Client : Request[c] = Request[d] => c = d

(* While the master reigns and nothing breaks down, its log books what was *)
(* submitted and acknowledged; nothing is before it sends entries.         *)
Accounts(a) ==
    /\ co[a] # "producer" => Submitted = {}
    /\ Booked(log[a], Submitted, Acked)

(* A request is logged.                                                    *)
LEMMA BookedSubmit ==
    ASSUME DistinctRequests, NEW lg \in Log, LastIsCached(lg), WellNumbered(Content(lg)),
           NEW sub \in SUBSET Client, NEW ack, Booked(lg, sub, ack),
           NEW c \in Client \ sub, NEW e \in Entry, e.cmd = Request[c]
    PROVE  Booked(LogOp(lg, e), sub \cup {c}, ack)
<1> DEFINE s == Content(lg)
           nr == Numbered(lg, e)
           t == Content(LogOp(lg, e))
<1>1. /\ s \in Seq(Entry) /\ nr \in Entry /\ nr.cmd = Request[c]
      /\ t = Append(s, nr) /\ LogOp(lg, e).file = lg.file
    BY ContentIndices, NumberedIsEntry, LogOpShape
<1>2. /\ IsFiniteSet(sub) /\ ack \subseteq sub
      /\ Len(s) = Cardinality(sub)
      /\ Len(lg.file) = Cardinality(ack)
      /\ \A i \in 1..Len(s) : \E d \in sub : s[i].cmd = Request[d]
      /\ \A d \in sub : \E i \in 1..Len(s) :
             \A j \in 1..Len(s) : s[j].cmd = Request[d] <=> j = i
    BY DEF Booked
<1> HIDE DEF s, nr
<1>3. PICK n \in Nat : n = Len(s)
    BY <1>1
<1>4. Len(t) = n + 1 /\ t[n + 1] = nr /\ \A i \in 1..n : t[i] = s[i]
    BY <1>1, <1>3
<1>5. IsFiniteSet(sub \cup {c}) /\ Cardinality(sub \cup {c}) = n + 1
    BY <1>2, <1>3, FS_AddElement
<1> HIDE DEF t
<1>6. \A i \in 1..Len(t) : \E d \in sub \cup {c} : t[i].cmd = Request[d]
  <2> TAKE i \in 1..Len(t)
  <2>1. CASE i \in 1..n
      BY <1>2, <1>3, <1>4, <2>1
  <2>2. CASE i = n + 1
      BY <1>1, <1>4, <2>2
  <2> QED BY <1>3, <1>4, <2>1, <2>2
<1>7. \A d \in sub \cup {c} : \E i \in 1..Len(t) :
          \A j \in 1..Len(t) : t[j].cmd = Request[d] <=> j = i
  <2>1. ASSUME NEW d \in sub
        PROVE  \E i \in 1..Len(t) : \A j \in 1..Len(t) : t[j].cmd = Request[d] <=> j = i
    <3>1. PICK i \in 1..n : \A j \in 1..n : s[j].cmd = Request[d] <=> j = i
        BY <1>2, <1>3
    <3>2. Request[c] # Request[d]
        BY DEF DistinctRequests
    <3>3. ASSUME NEW j \in 1..Len(t)
          PROVE  t[j].cmd = Request[d] <=> j = i
      <4>1. CASE j \in 1..n
          BY <1>4, <3>1, <4>1
      <4>2. CASE j = n + 1
        <5>1. j # i
            BY <4>2, <1>3
        <5> QED BY <1>1, <1>4, <3>2, <4>2, <5>1
      <4> QED BY <1>3, <1>4, <4>1, <4>2
    <3>4. i \in 1..Len(t)
        BY <1>3, <1>4
    <3> QED BY <3>3, <3>4
  <2>2. \A j \in 1..Len(t) : t[j].cmd = Request[c] <=> j = n + 1
    <3> TAKE j \in 1..Len(t)
    <3>1. CASE j \in 1..n
      <4>1. PICK d \in sub : s[j].cmd = Request[d]
          BY <1>2, <1>3, <3>1
      <4>2. Request[c] # Request[d]
          BY DEF DistinctRequests
      <4>3. j # n + 1
          BY <1>3, <3>1
      <4> QED BY <1>4, <3>1, <4>1, <4>2, <4>3
    <3>2. CASE j = n + 1
        BY <1>1, <1>4, <3>2
    <3> QED BY <1>3, <1>4, <3>1, <3>2
  <2>3. n + 1 \in 1..Len(t)
      BY <1>3, <1>4
  <2> QED BY <2>1, <2>2, <2>3
<1>8. ack \subseteq sub \cup {c}
    BY <1>2
<1> QED BY <1>1, <1>2, <1>4, <1>5, <1>6, <1>7, <1>8 DEF Booked, t

(* The same entries book the same requests.                                *)
LEMMA BookedAs ==
    ASSUME NEW lg, NEW sub, NEW ack, Booked(lg, sub, ack),
           NEW new, NEW done, Content(new) = Content(lg),
           done \subseteq sub, Len(new.file) = Cardinality(done)
    PROVE  Booked(new, sub, done)
<1>1. PICK t : t = Content(lg)
    OBVIOUS
<1>2. /\ IsFiniteSet(sub) /\ Len(t) = Cardinality(sub)
      /\ \A i \in 1..Len(t) : \E c \in sub : t[i].cmd = Request[c]
      /\ \A c \in sub : \E i \in 1..Len(t) :
             \A j \in 1..Len(t) : t[j].cmd = Request[c] <=> j = i
    BY <1>1 DEF Booked
<1>3. Content(new) = t
    BY <1>1
<1> QED BY <1>2, <1>3 DEF Booked

(* An entry is written, of whichever request, and one more acknowledged:   *)
(* there is one to write, as more are logged than acknowledged.            *)
LEMMA BookedCommit ==
    ASSUME NEW lg \in Log, LastIsCached(lg), WellNumbered(Content(lg)),
           NEW sub, NEW ack, Booked(lg, sub, ack), NEW c \in sub \ ack
    PROVE  Booked(LogCommit(lg), sub, ack \cup {c})
<1>1. IsFiniteSet(ack) /\ ack \cup {c} \in SUBSET sub /\ IsFiniteSet(sub)
    BY FS_Subset DEF Booked
<1>2. /\ Cardinality(ack) \in Nat /\ Cardinality(sub) \in Nat
      /\ Cardinality(ack \cup {c}) = Cardinality(ack) + 1
      /\ Cardinality(ack \cup {c}) <= Cardinality(sub)
    BY <1>1, FS_Subset, FS_AddElement, FS_CardinalityType
<1>3. Len(Content(lg)) = Cardinality(sub) /\ Len(lg.file) = Cardinality(ack)
    BY DEF Booked
<1>4. lg.pend # <<>>
  <2>1. Len(Content(lg)) = Len(lg.file) + Len(lg.pend)
      BY ContentIndices
  <2>2. Len(lg.pend) # 0
      BY <1>2, <1>3, <2>1
  <2> QED BY <2>2
<1>5. Content(LogCommit(lg)) = Content(lg)
    BY LogCommitShape
<1>6. Len(LogCommit(lg).file) = Cardinality(ack) + 1
  <2>1. LogCommit(lg).file = Append(lg.file, Head(lg.pend))
      BY <1>4 DEF LogCommit
  <2>2. PICK f \in Seq(Entry), h \in Entry : f = lg.file /\ h = Head(lg.pend)
      BY <1>4 DEF Log
  <2>3. Len(Append(f, h)) = Len(f) + 1
      OBVIOUS
  <2> QED BY <1>3, <2>1, <2>2, <2>3
<1> QED BY <1>1, <1>2, <1>5, <1>6, BookedAs

(* The master goes on without a request logged or acknowledged.            *)
LEMMA AccountsAside ==
    ASSUME NEW a, Accounts(a), log'[a] = log[a], Submitted' = Submitted, Acked' = Acked,
           co'[a] # "producer" => co[a] # "producer"
    PROVE  Accounts(a)'
<1>1. (co[a] # "producer" => Submitted = {})'
    BY DEF Accounts
<1>2. PICK lg, sub, ack : lg = log[a] /\ sub = Submitted /\ ack = Acked
    OBVIOUS
<1>3. log'[a] = lg /\ Submitted' = sub /\ Acked' = ack
    BY <1>2
<1>4. PICK t, f : t = Content(lg) /\ f = Len(lg.file)
    OBVIOUS
<1>5. /\ IsFiniteSet(sub) /\ ack \subseteq sub
      /\ Len(t) = Cardinality(sub) /\ f = Cardinality(ack)
      /\ \A i \in 1..Len(t) : \E c \in sub : t[i].cmd = Request[c]
      /\ \A c \in sub : \E i \in 1..Len(t) :
             \A j \in 1..Len(t) : t[j].cmd = Request[c] <=> j = i
    BY <1>2, <1>4 DEF Accounts, Booked
<1>6. Booked(log[a], Submitted, Acked)'
    BY <1>3, <1>4, <1>5 DEF Booked
<1> QED BY <1>1, <1>6 DEF Accounts

(* Handlers that end or are woken.                                         *)
LEMMA WokenStands ==
    ASSUME ClientInv, NEW s, client' = Woken(s) \/ client' = client
    PROVE  Submitted' = Submitted /\ Acked' = Acked
<1> SUFFICES ASSUME client' = Woken(s)
             PROVE  \A c \in Client : \/ client'[c] = client[c]
                                      \/ client[c].st = "waiting" /\ client'[c].st = "woken"
    BY DEF Submitted, Acked
<1> TAKE c \in Client
<1>1. client[c] \in Handlers
    BY DEF ClientInv
<1> QED BY <1>1 DEF Woken, Handlers

(* What has broken down stays so: nothing starts again.                    *)
LEMMA StaysBroken ==
    ASSUME NEW a, OneCandidate(a), TypeInv, Broken, [Next]_vars
    PROVE  Broken'
<1>0. /\ co \in [Server -> Coroutines] /\ poisoned \in [Server -> BOOLEAN]
    BY DEF TypeInv, ReplicaInv, VotingInv, VotingTypes, FlagsTyped
<1>1. PICK s \in Server : poisoned[s] \/ co[s] = "down"
    BY DEF Broken
<1> SUFFICES poisoned'[s] \/ co'[s] = "down"
    BY DEF Broken
<1>2. CASE UNCHANGED <<co, poisoned>>
    BY <1>1, <1>2
<1>3. CASE UNCHANGED vars \/ MessageLost
    BY <1>2, <1>3 DEF MessageLost, vars, loopVars
<1>4. ASSUME NEW c \in Client, HandleKvs(c)
      PROVE  poisoned'[s] \/ co'[s] = "down"
  <2>1. /\ co' = co
        /\ poisoned' = poisoned \/ poisoned' = [poisoned EXCEPT ![client[c].node] = TRUE]
      BY <1>4 DEF HandleKvs, ClientAdmitted, ClientRejected, ClientSubmits, ClientResumes, loopVars
  <2> QED BY <1>0, <1>1, <2>1
<1>5. ASSUME NEW t \in Server, NEW to, co' = [co EXCEPT ![t] = to], co[t] # "down",
             poisoned' = poisoned
      PROVE  poisoned'[s] \/ co'[s] = "down"
    BY <1>0, <1>1, <1>5
<1>6. ASSUME NEW t \in Server, Crash(t) \/ Restart(t)
      PROVE  FALSE
    BY <1>6 DEF Crash, Restart, TypeInv, ReplicaInv, VotingInv, VotingTypes, OneCandidate
<1>7. ASSUME NEW t \in Server, Coroutine(t)
      PROVE  poisoned'[s] \/ co'[s] = "down"
  <2>1. poisoned' = poisoned /\ (co' = co \/ \E to : co' = [co EXCEPT ![t] = to] /\ co[t] # "down")
    <3>1. CASE LoopIteration(t) \/ SpawnFlushed(t) \/ ConsumerExpire(t) \/ ConsumerCancelled(t)
        BY <3>1 DEF LoopIteration, SpawnFlushed, ConsumerExpire, ConsumerCancelled, Leaves
    <3>2. CASE ElectionStart(t) \/ Canvass(t) \/ CountVote(t) \/ ElectionGivenUp(t)
        BY <3>2 DEF ElectionStart, AddTerm, Canvass, CountVote, ElectionGivenUp, Leaves, loopVars
    <3>3. CASE BecomeLeader(t) \/ ProducerTick(t) \/ ProducerCancelled(t)
        BY <3>3 DEF BecomeLeader, ProducerTick, ProducerCancelled, Leaves
    <3>4. ASSUME NEW i \in Slot, SessionStart(t, i) \/ SessionReceive(t, i) \/ SessionExpire(t, i)
          PROVE  poisoned' = poisoned /\ co' = co
        BY <3>4 DEF SessionStart, SessionReceive, SessionExpire, loopVars
    <3> QED BY <1>7, <3>1, <3>2, <3>3, <3>4 DEF Coroutine
  <2> QED BY <1>2, <1>5, <2>1
<1>8. ASSUME NEW t \in Server, Handler(t)
      PROVE  poisoned'[s] \/ co'[s] = "down"
  <2>1. CASE SlaveFatal(t)
    <3>1. /\ co' = [co EXCEPT ![t] = "down"] /\ poisoned' = [poisoned EXCEPT ![t] = FALSE]
        BY <2>1 DEF SlaveFatal, Dies
    <3> QED BY <1>0, <1>1, <3>1
  <2>2. CASE ~SlaveFatal(t)
    <3>1. /\ poisoned' = poisoned
          /\ co' = co \/ \E to : co' = [co EXCEPT ![t] = to] /\ co[t] # "down"
        BY <1>8, <2>2 DEF Handler, ReplicateRefused, ReplicateDemotes, SlaveReplicates,
             VoteGranted, VoteRefused, StoreTerm, AddTerm, loopVars
    <3> QED BY <1>2, <1>5, <3>1
  <2> QED BY <2>1, <2>2
<1> QED BY <1>3, <1>4, <1>6, <1>7, <1>8 DEF Next

(* The master's coroutines.                                                *)
LEMMA AccountsByCoroutine ==
    ASSUME NEW a, OneMaster(a), TypeInv, OneLeader(a), Campaign(a), Accounts(a),
           Coroutine(a), ~SteppedDown
    PROVE  Accounts(a)'
<1>0. /\ a \in Server /\ co \in [Server -> Coroutines] /\ log \in [Server -> Log] /\ ~cancelled[a]
      /\ ClientInv
    BY CandidateIsServer
       DEF OneMaster, TypeInv, ReplicaInv, VotingInv, VotingTypes, LogInv, LogsGood,
           OneLeader, Leads
<1>1. \E s \in Server : client' = Woken(s) \/ client' = client
  <2>1. CASE \/ LoopIteration(a) \/ SpawnFlushed(a) \/ ConsumerExpire(a) \/ ConsumerCancelled(a)
             \/ ElectionStart(a) \/ Canvass(a) \/ CountVote(a) \/ ElectionGivenUp(a)
      BY <1>0, <2>1 DEF LoopIteration, SpawnFlushed, ConsumerExpire, ConsumerCancelled,
           ElectionStart, Canvass, CountVote, ElectionGivenUp
  <2>2. CASE BecomeLeader(a) \/ ProducerTick(a) \/ ProducerCancelled(a)
      BY <1>0, <2>2 DEF BecomeLeader, ProducerTick, ProducerCancelled
  <2>3. ASSUME NEW i \in Slot, SessionStart(a, i) \/ SessionExpire(a, i)
        PROVE  client' = Woken(a) \/ client' = client
    <3>1. CASE SessionStart(a, i)
        BY <3>1 DEF SessionStart
    <3>2. CASE SessionExpire(a, i)
        BY <3>2 DEF SessionExpire, SessionOver
    <3> QED BY <2>3, <3>1, <3>2
  <2>4. ASSUME NEW i \in Slot, SessionReceive(a, i)
        PROVE  client' = Woken(a) \/ client' = client
      BY <2>4 DEF SessionReceive, SessionOver
  <2> QED BY <1>0, <2>1, <2>2, <2>3, <2>4 DEF Coroutine
<1>2. Submitted' = Submitted /\ Acked' = Acked
    BY <1>0, <1>1, WokenStands
<1>3. CASE SpawnFlushed(a)
  <2>1. /\ log'[a] = FlushUncommited(log[a])
        /\ co[a] # "producer"
      BY <1>0, <1>3 DEF SpawnFlushed
  <2>2. Submitted = {} /\ Acked = {} /\ Len(log[a].file) = 0
      BY <2>1, FS_EmptySet DEF Accounts, Booked
  <2>3. Content(FlushUncommited(log[a])) = <<>> /\ FlushUncommited(log[a]).file = <<>>
    <3>1. log[a].file = <<>>
        BY <1>0, <2>2, ShortSequences DEF Log
    <3> QED BY <3>1 DEF Content, FlushUncommited
  <2>4. Booked(FlushUncommited(log[a]), {}, {})
      BY <2>3, FS_EmptySet DEF Booked
  <2>5. Booked(log'[a], {}, {})
      BY <2>1, <2>4
  <2> QED BY <1>2, <2>2, <2>5 DEF Accounts, Booked
<1>4. CASE ~SpawnFlushed(a)
  <2>1. log' = log
    <3>1. CASE \/ LoopIteration(a) \/ ConsumerExpire(a) \/ ConsumerCancelled(a)
               \/ ElectionStart(a) \/ Canvass(a) \/ CountVote(a) \/ ElectionGivenUp(a)
        BY <3>1 DEF LoopIteration, ConsumerExpire, ConsumerCancelled, ElectionStart, Canvass,
             CountVote, ElectionGivenUp, storeVars
    <3>2. CASE \/ BecomeLeader(a) \/ ProducerTick(a) \/ ProducerCancelled(a)
               \/ \E i \in Slot : SessionStart(a, i) \/ SessionReceive(a, i) \/ SessionExpire(a, i)
        BY <3>2 DEF BecomeLeader, ProducerTick, ProducerCancelled, SessionStart,
             SessionReceive, SessionExpire, storeVars
    <3> QED BY <1>4, <3>1, <3>2 DEF Coroutine
  <2>2. co[a] = "producer" => co'[a] = "producer"
    <3> SUFFICES ASSUME co[a] = "producer"
                 PROVE  co'[a] = "producer"
        OBVIOUS
    <3>1. state[a] = "master"
        BY SteppedDownMeans DEF Campaign
    <3>2. CASE ProducerTick(a)
        BY <1>0, <3>1, <3>2 DEF ProducerTick
    <3>3. CASE \E i \in Slot : SessionStart(a, i) \/ SessionReceive(a, i) \/ SessionExpire(a, i)
        BY <3>3 DEF SessionStart, SessionReceive, SessionExpire, loopVars
    <3>4. \/ ProducerTick(a)
          \/ \E i \in Slot : SessionStart(a, i) \/ SessionReceive(a, i) \/ SessionExpire(a, i)
        BY <1>0 DEF Coroutine, LoopIteration, SpawnFlushed, ConsumerExpire, ConsumerCancelled,
             ElectionStart, AddTerm, Canvass, CountVote, ElectionGivenUp, BecomeLeader,
             ProducerCancelled
    <3> QED BY <3>2, <3>3, <3>4
  <2> QED BY <1>2, <2>1, <2>2, AccountsAside
<1> QED BY <1>3, <1>4

(* Two sets that agree but for one element.                                *)
LEMMA OneElement ==
    ASSUME NEW S, NEW A \in SUBSET S, NEW B \in SUBSET S, NEW c \in S,
           \A d \in S \ {c} : d \in B <=> d \in A
    PROVE  B = IF c \in B THEN A \cup {c} ELSE A \ {c}
<1>1. ASSUME c \in B PROVE B = A \cup {c}
    BY <1>1
<1>2. ASSUME c \notin B PROVE B = A \ {c}
    BY <1>2
<1> QED BY <1>1, <1>2

(* A client's handler.                                                     *)
LEMMA AccountsByClient ==
    ASSUME NEW a, OneMaster(a), DistinctRequests, TypeInv, OneLeader(a), Campaign(a), Accounts(a),
           ~SteppedDown, ~Broken', NEW c \in Client, HandleKvs(c)
    PROVE  Accounts(a)'
<1>0. /\ a \in Server /\ OneCandidate(a) /\ client \in [Client -> Handlers] /\ ClientInv
      /\ log \in [Server -> Log] /\ WellNumbered(Content(log[a])) /\ LastIsCached(log[a])
    BY CandidateIsServer
       DEF OneMaster, TypeInv, ReplicaInv, LogInv, LogsGood, GoodLog, ClientInv, Campaign
<1>1. UNCHANGED <<co, sentLen, elected, state>>
    BY <1>0, HandlersAtLeader
<1>2. ASSUME NEW r, client' = [client EXCEPT ![c] = r]
      PROVE  \A d \in Client : client'[d] = IF d = c THEN r ELSE client[d]
    BY <1>0, <1>2
<1>3. ASSUME NEW r, client' = [client EXCEPT ![c] = r]
      PROVE  /\ Submitted' = IF r.st \in {"waiting", "woken", "acked", "failed"}
                               THEN Submitted \cup {c} ELSE Submitted \ {c}
             /\ Acked' = IF r.st = "acked" THEN Acked \cup {c} ELSE Acked \ {c}
  <2>1. client'[c] = r /\ \A d \in Client \ {c} : client'[d] = client[d]
      BY <1>2, <1>3
  <2>2. Submitted \subseteq Client /\ Submitted' \subseteq Client /\ Acked \subseteq Client
        /\ Acked' \subseteq Client
      BY DEF Submitted, Acked
  <2>3. /\ c \in Submitted' <=> r.st \in {"waiting", "woken", "acked", "failed"}
        /\ c \in Acked' <=> r.st = "acked"
      BY <2>1 DEF Submitted, Acked
  <2>4. \A d \in Client \ {c} :
            /\ d \in Submitted' <=> d \in Submitted
            /\ d \in Acked' <=> d \in Acked
      BY <2>1 DEF Submitted, Acked
  <2>5. Submitted' = IF c \in Submitted' THEN Submitted \cup {c} ELSE Submitted \ {c}
    <3>1. /\ Submitted \in SUBSET Client /\ Submitted' \in SUBSET Client
          /\ \A d \in Client \ {c} : d \in Submitted' <=> d \in Submitted
        BY <2>2, <2>4
    <3> QED BY <3>1, OneElement
  <2>6. Acked' = IF c \in Acked' THEN Acked \cup {c} ELSE Acked \ {c}
    <3>1. /\ Acked \in SUBSET Client /\ Acked' \in SUBSET Client
          /\ \A d \in Client \ {c} : d \in Acked' <=> d \in Acked
        BY <2>2, <2>4
    <3> QED BY <3>1, OneElement
  <2> QED BY <2>3, <2>5, <2>6
<1>4. ASSUME NEW st, Finished(c, st)
      PROVE  /\ Submitted' = IF st \in {"waiting", "woken", "acked", "failed"}
                               THEN Submitted \cup {c} ELSE Submitted \ {c}
             /\ Acked' = IF st = "acked" THEN Acked \cup {c} ELSE Acked \ {c}
  <2>1. [NoRequest EXCEPT !.st = st].st = st
      BY DEF NoRequest
  <2> QED BY <1>3, <1>4, <2>1 DEF Finished
<1>5. ASSUME InHandler(client[c]), DOMAIN sentLen[a] # {}
      PROVE  co[a] = "producer"
  <2>1. elected # {}
      BY <1>0, <1>5 DEF ClientInv, Winner
  <2>2. state[a] = "master"
      BY <2>1, SteppedDownMeans
  <2>3. ~Unheard(a)
      BY <1>5 DEF Unheard, EmptyMap
  <2> QED BY <2>2, <2>3 DEF Campaign, Beforehand
<1>6. ASSUME InHandler(client[c])
      PROVE  client[c].node = a
    BY <1>0, <1>6 DEF ClientInv, Winner, OneLeader, Leads
<1>7. CASE \/ \E s \in Server : ClientAdmitted(c, s)
           \/ ClientRejected(c)
  <2>1. log' = log
      BY <1>7 DEF ClientAdmitted, ClientRejected, storeVars
  <2>2. Submitted' = Submitted /\ Acked' = Acked
    <3>1. c \notin Submitted /\ c \notin Acked
        BY <1>7 DEF ClientAdmitted, ClientRejected, Submitted, Acked
    <3>2. CASE ClientRejected(c)
      <4>1. Finished(c, "rejected")
          BY <3>2 DEF ClientRejected
      <4>2. Submitted' = Submitted \ {c} /\ Acked' = Acked \ {c}
          BY <1>4, <4>1
      <4> QED BY <3>1, <4>2
    <3>3. ASSUME NEW s \in Server, ClientAdmitted(c, s)
          PROVE  Submitted' = Submitted /\ Acked' = Acked
      <4>1. PICK r : r = [NoRequest EXCEPT !.st = "admitted", !.node = s]
          OBVIOUS
      <4>2. client' = [client EXCEPT ![c] = r] /\ r.st = "admitted"
          BY <3>3, <4>1 DEF ClientAdmitted, NoRequest
      <4>3. Submitted' = Submitted \ {c} /\ Acked' = Acked \ {c}
          BY <1>3, <4>2
      <4> QED BY <3>1, <4>3
    <3> QED BY <1>7, <3>2, <3>3
  <2> QED BY <1>1, <2>1, <2>2, AccountsAside
<1>8. ASSUME NEW lg \in Log, LastIsCached(lg), WellNumbered(Content(lg)),
             NEW sub, Booked(lg, sub, Acked), c \in sub \ Acked, sub = Submitted \cup {c},
             co[a] = "producer", Complete(c, a, lg)
      PROVE  Accounts(a)'
  <2>1. CASE log' = [log EXCEPT ![a] = lg] /\ Finished(c, "failed")
    <3>1. Submitted' = sub /\ Acked' = Acked
      <4>1. Submitted' = Submitted \cup {c} /\ Acked' = Acked \ {c}
          BY <1>4, <2>1
      <4> QED BY <1>8, <4>1
    <3>2. log'[a] = lg
        BY <1>0, <2>1
    <3> QED BY <1>1, <1>8, <3>1, <3>2 DEF Accounts
  <2>2. CASE log' = [log EXCEPT ![a] = LogCommit(lg)] /\ Finished(c, "acked")
    <3>1. Submitted' = sub /\ Acked' = Acked \cup {c}
        BY <1>4, <1>8, <2>2
    <3>2. log'[a] = LogCommit(lg)
        BY <1>0, <2>2
    <3>3. Booked(LogCommit(lg), sub, Acked \cup {c})
        BY <1>8, BookedCommit
    <3> QED BY <1>1, <1>8, <3>1, <3>2, <3>3 DEF Accounts
  <2> QED BY <1>8, <2>1, <2>2 DEF Complete
<1>9. CASE ClientSubmits(c)
  <2> DEFINE e == [ZeroEntry EXCEPT !.cmd = Request[c], !.term = term[a]]
             lo == LogOp(log[a], e)
  <2>1. InHandler(client[c]) /\ client[c].st = "admitted" /\ client[c].node = a
      BY <1>6, <1>9 DEF ClientSubmits, InHandler
  <2>2. DOMAIN sentLen[a] # {}
    <3>1. ASSUME poisoned' = [poisoned EXCEPT ![a] = TRUE]
          PROVE  FALSE
      <4>1. poisoned'[a]
          BY <1>0, <3>1 DEF TypeInv, FlagsTyped
      <4> QED BY <1>0, <4>1 DEF Broken
    <3> QED BY <1>9, <2>1, <3>1 DEF ClientSubmits
  <2>3. co[a] = "producer"
      BY <1>5, <2>1, <2>2
  <2>4. e \in Entry /\ e.cmd = Request[c]
    <3>1. Request[c] \in Command /\ term[a] \in Nat
        BY <1>0, RaftClusterAssumption DEF TypeInv, ReplicaInv, VotingInv, VotingTypes, Terms
    <3> QED BY <3>1 DEF Entry, ZeroEntry
  <2>5. \/ Complete(c, a, lo)
        \/ /\ log' = [log EXCEPT ![a] = lo]
           /\ \E need : client' = [client EXCEPT ![c].st = "waiting", ![c].need = need]
      BY <1>9, <2>1, <2>2 DEF ClientSubmits
  <2> HIDE DEF e
  <2>6. lo \in Log /\ LastIsCached(lo) /\ WellNumbered(Content(lo))
      BY <1>0, <2>4, LogOpShape
  <2>7. c \in Client \ Submitted /\ c \notin Acked /\ Submitted \in SUBSET Client
      BY <2>1 DEF Submitted, Acked
  <2>8. Booked(lo, Submitted \cup {c}, Acked)
    <3>1. Booked(log[a], Submitted, Acked)
        BY DEF Accounts
    <3>2. log[a] \in Log
        BY <1>0
    <3> QED BY <1>0, <2>4, <2>7, <3>1, <3>2, BookedSubmit
  <2> HIDE DEF lo
  <2>9. CASE Complete(c, a, lo)
      BY <1>8, <2>3, <2>6, <2>7, <2>8, <2>9
  <2>10. CASE /\ log' = [log EXCEPT ![a] = lo]
              /\ \E need : client' = [client EXCEPT ![c].st = "waiting", ![c].need = need]
    <3>1. PICK need : client' = [client EXCEPT ![c].st = "waiting", ![c].need = need]
        BY <2>10
    <3>2. PICK r : r = [client[c] EXCEPT !.st = "waiting", !.need = need]
        OBVIOUS
    <3>3. client' = [client EXCEPT ![c] = r] /\ r.st = "waiting"
        BY <1>0, <3>1, <3>2 DEF Handlers
    <3>4. Submitted' = Submitted \cup {c} /\ Acked' = Acked
      <4>1. /\ Submitted' = IF r.st \in {"waiting", "woken", "acked", "failed"}
                               THEN Submitted \cup {c} ELSE Submitted \ {c}
            /\ Acked' = IF r.st = "acked" THEN Acked \cup {c} ELSE Acked \ {c}
          BY <1>3, <3>3
      <4> QED BY <2>7, <3>3, <4>1
    <3>5. log'[a] = lo
        BY <1>0, <2>10
    <3> QED BY <1>1, <2>3, <2>8, <3>4, <3>5 DEF Accounts
  <2> QED BY <2>5, <2>9, <2>10
<1>10. CASE ClientResumes(c)
  <2>1. InHandler(client[c]) /\ client[c].st = "woken" /\ client[c].node = a
      BY <1>6, <1>10 DEF ClientResumes, InHandler
  <2>2. c \in Submitted /\ c \notin Acked
      BY <2>1 DEF Submitted, Acked
  <2>3. co[a] = "producer"
      BY <2>2 DEF Accounts
  <2>4. CASE Complete(c, a, log[a])
    <3>1. Booked(log[a], Submitted, Acked) /\ log[a] \in Log /\ Submitted = Submitted \cup {c}
        BY <1>0, <2>2 DEF Accounts
    <3> QED BY <1>0, <1>8, <2>2, <2>3, <2>4, <3>1
  <2>5. CASE log' = log /\ client' = [client EXCEPT ![c].st = "waiting"]
    <3>1. PICK r : r = [client[c] EXCEPT !.st = "waiting"]
        OBVIOUS
    <3>2. client' = [client EXCEPT ![c] = r] /\ r.st = "waiting"
        BY <1>0, <2>5, <3>1 DEF Handlers
    <3>3. Submitted' = Submitted /\ Acked' = Acked
      <4>1. /\ Submitted' = IF r.st \in {"waiting", "woken", "acked", "failed"}
                               THEN Submitted \cup {c} ELSE Submitted \ {c}
            /\ Acked' = IF r.st = "acked" THEN Acked \cup {c} ELSE Acked \ {c}
          BY <1>3, <3>2
      <4> QED BY <2>2, <3>2, <4>1
    <3> QED BY <1>1, <2>5, <3>3, AccountsAside
  <2> QED BY <1>10, <2>1, <2>4, <2>5 DEF ClientResumes, storeVars
<1> QED BY <1>7, <1>9, <1>10 DEF HandleKvs

(* Until something breaks down the accounts are right.                     *)
LEMMA NextAccounts ==
    ASSUME NEW a, OneMaster(a), DistinctRequests, TypeInv, OneLeader(a), Campaign(a),
           Broken \/ SteppedDown \/ Accounts(a), [Next]_vars
    PROVE  (Broken \/ SteppedDown \/ Accounts(a))'
<1>0. a \in Server /\ OneCandidate(a) /\ ClientInv
    BY CandidateIsServer DEF OneMaster, TypeInv, ReplicaInv
<1> SUFFICES ASSUME ~Broken', ~SteppedDown'
             PROVE  Accounts(a)'
    OBVIOUS
<1>1. Accounts(a) /\ ~SteppedDown
    BY <1>0, StaysBroken, StillReigns
<1>2. CASE UNCHANGED vars \/ MessageLost
  <2>1. UNCHANGED <<log, client, co>>
      BY <1>2 DEF MessageLost, vars, storeVars, loopVars
  <2>2. Submitted' = Submitted /\ Acked' = Acked
      BY <2>1 DEF Submitted, Acked
  <2> QED BY <1>1, <2>1, <2>2, AccountsAside
<1>3. ASSUME NEW c \in Client, HandleKvs(c)
      PROVE  Accounts(a)'
    BY <1>1, <1>3, AccountsByClient
<1>4. CASE Coroutine(a)
    BY <1>1, <1>4, AccountsByCoroutine
<1>5. ASSUME NEW p \in Server \ {a}, FollowerStep(p)
      PROVE  Accounts(a)'
  <2>1. log'[a] = log[a] /\ co'[a] = co[a]
      BY <1>0, <1>5, FollowerApart
  <2>2. ~SlaveFatal(p)
    <3>1. ASSUME SlaveFatal(p)
          PROVE  co'[p] = "down"
        BY <3>1 DEF SlaveFatal, Dies, TypeInv, ReplicaInv, VotingInv, VotingTypes
    <3> QED BY <3>1 DEF Broken
  <2>3. client' = client
      BY <1>5, <2>2 DEF FollowerStep, GoesRound, ReplicateRefused, SlaveReplicates, VoteGranted,
           VoteRefused
  <2>4. Submitted' = Submitted /\ Acked' = Acked
      BY <2>3 DEF Submitted, Acked
  <2> QED BY <1>1, <2>1, <2>4, AccountsAside
<1> QED BY <1>0, <1>2, <1>3, <1>4, <1>5, StepsOfOneLeader

(* With one candidate, one term and requests that can be told apart, every *)
(* acknowledged request stays in the master's log, once, and the file has  *)
(* as many lines as requests were acknowledged, until the master steps     *)
(* down or a server breaks down: a handler may write another request's     *)
(* entry than its own, but there is always one to write                    *)
(* (rest/api.go:121, 257, 329).                                            *)
THEOREM OneMasterKeepsAcked ==
    ASSUME NEW a, OneMaster(a), DistinctRequests
    PROVE  Spec => []AckedStaysLogged
<1> DEFINE MasterInv == /\ TypeInv /\ OneLeader(a) /\ Campaign(a)
                        /\ Broken \/ SteppedDown \/ Accounts(a)
<1>0. OneCandidate(a) /\ a \in Server
    BY CandidateIsServer DEF OneMaster
<1>1. Init => MasterInv
  <2> SUFFICES ASSUME Init
               PROVE  MasterInv
      OBVIOUS
  <2>1. TypeInv /\ OneLeader(a) /\ Campaign(a)
      BY <1>0, InitTypeInv, InitOneLeader, InitCampaign
  <2>2. Submitted = {} /\ Acked = {}
      BY DEF Init, Submitted, Acked, NoRequest
  <2>3. log[a] = EmptyLog /\ Content(EmptyLog) = <<>> /\ EmptyLog.file = <<>>
      BY <1>0 DEF Init, EmptyLog, Content
  <2>4. Accounts(a)
      BY <2>2, <2>3, FS_EmptySet DEF Accounts, Booked
  <2> QED BY <2>1, <2>4
<1>2. MasterInv /\ [Next]_vars => MasterInv'
    BY <1>0, NextTypeInv, NextOneLeader, NextCampaign, NextAccounts
<1>3. MasterInv => AckedStaysLogged
  <2> SUFFICES ASSUME MasterInv, Accounts(a), NEW c \in Acked
               PROVE  /\ Cardinality({i \in 1..Len(Content(log[a])) :
                                         Content(log[a])[i].cmd = Request[c]}) = 1
                      /\ Len(log[a].file) = Cardinality(Acked)
      BY <1>0 DEF AckedStaysLogged
  <2>1. c \in Submitted /\ Len(log[a].file) = Cardinality(Acked)
      BY DEF Accounts, Booked
  <2>2. PICK i \in 1..Len(Content(log[a])) :
            \A j \in 1..Len(Content(log[a])) : Content(log[a])[j].cmd = Request[c] <=> j = i
      BY <2>1 DEF Accounts, Booked
  <2>3. {j \in 1..Len(Content(log[a])) : Content(log[a])[j].cmd = Request[c]} = {i}
      BY <2>2
  <2> QED BY <2>1, <2>3, FS_Singleton
<1> HIDE DEF MasterInv
<1> QED BY <1>1, <1>2, <1>3, PTL DEF Spec
==============================================================================
