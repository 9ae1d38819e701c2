----------------------------- MODULE MCRaftLogger -----------------------------
(* TLC instance of RaftLogger: two commands, two terms, three entries.     *)
EXTENDS RaftLogger

MCTerm == 1..2
=============================================================================
