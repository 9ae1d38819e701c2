------------------------------- MODULE Ballots -------------------------------
(***************************************************************************)
(* What voting in DB/ promises, without messages, coroutines or timers: a  *)
(* server votes in terms that never go down and for one condidate per      *)
(* term, for as long as its process lives; a condidate wins a term with a  *)
(* quorum of votes, one of which is its own and is not recorded anywhere.  *)
(* RaftCluster implements this (property ImplementsBallots).               *)
(***************************************************************************)
EXTENDS Naturals, FiniteSets

CONSTANTS
    Server,
    Quorum,         \* the sets of voters that win an election
    Term,
    Incarnation     \* the lives of a process, one after each restart

VARIABLES
    granted,    \* the votes given: voter, its incarnation, term, condidate
    elected     \* the elections won: condidate, term, votes counted

vars == <<granted, elected>>

Init == granted = {} /\ elected = {}

Vote(v, i, t, c) ==
    /\ \A g \in granted : g.voter = v /\ g.inc = i =>
           g.term <= t /\ (g.term = t => g.cand = c)
    /\ granted' = granted \cup {[voter |-> v, inc |-> i, term |-> t, cand |-> c]}
    /\ UNCHANGED elected

Win(c, t, V) ==
    /\ V \in Quorum
    /\ \A v \in V \ {c} : \E g \in granted : g.voter = v /\ g.term = t /\ g.cand = c
    /\ elected' = elected \cup {[cand |-> c, term |-> t, votes |-> V]}
    /\ UNCHANGED granted

Next ==
    \/ \E v, c \in Server, i \in Incarnation, t \in Term : Vote(v, i, t, c)
    \/ \E c \in Server, t \in Term, V \in Quorum : Win(c, t, V)

Spec == Init /\ [][Next]_vars

-----------------------------------------------------------------------------
(* A server, while its process lives, votes for one condidate per term     *)
(* (HandleVoteRequest, raftapi.go:321-336).                                *)
OneVotePerTerm ==
    \A g, h \in granted :
        g.voter = h.voter /\ g.inc = h.inc /\ g.term = h.term => g.cand = h.cand

(* A winner has a quorum of votes given to it in the term it won           *)
(* (Election_co, middleware.go:240-268).                                   *)
WinnersVoted ==
    \A e \in elected :
        /\ e.votes \in Quorum
        /\ \A v \in e.votes \ {e.cand} :
               \E g \in granted : g.voter = v /\ g.term = e.term /\ g.cand = e.cand

(* Two servers win the same term only if one of them voted for the other,  *)
(* though as a condidate it had counted its own vote, or if some voter     *)
(* forgot its vote in a restart.                                           *)
RivalWinners ==
    \A e, f \in elected :
        e.term = f.term /\ e.cand # f.cand =>
            \/ e.cand \in f.votes \/ f.cand \in e.votes
            \/ \E g, h \in granted :
                   /\ g.voter = h.voter /\ g.term = e.term /\ h.term = e.term
                   /\ g.inc # h.inc
=============================================================================
