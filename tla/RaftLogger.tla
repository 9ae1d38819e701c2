------------------------------ MODULE RaftLogger ------------------------------
(***************************************************************************)
(* The logger of one server process (DB/internal/logger/logger.go) over    *)
(* the life of the process: the calls the handlers and the main loop make  *)
(* on it, in any order, crashes, and the restart through InitOrRestore as  *)
(* cmd/server/main.go does it.  RaftCluster uses the same operators with   *)
(* the real callers; here the callers are arbitrary.                       *)
(***************************************************************************)
EXTENDS RaftLog

CONSTANTS
    Term,       \* the terms an entry may carry
    MaxLen,     \* bound: entries a log may hold, written and pending
    MaxCrashes  \* bound: crashes of the process

ASSUME RaftLoggerAssumption ==
    /\ Term \subseteq Nat
    /\ MaxLen \in Nat
    /\ MaxCrashes \in Nat

VARIABLES
    log,        \* the Logger; only its file outlives the process
    running,    \* whether the process is up
    crashes     \* crashes so far (bound only)

vars == <<log, running, crashes>>

Init ==
    /\ log = EmptyLog
    /\ running = TRUE
    /\ crashes = 0

-----------------------------------------------------------------------------
(* A handler logs an operation: rest/api.go for a client, HandleReplicate  *)
(* for the master.  Whatever indices it passes are overwritten.            *)
CallLogOp(cmd, term, ind) ==
    /\ running
    /\ LenUncommited(log) < MaxLen
    /\ log' = LogOp(log, [cmd |-> cmd, term |-> term, ind |-> ind,
                            prevInd |-> 0, prevTerm |-> 0])
    /\ UNCHANGED <<running, crashes>>

CallLogCommit ==
    /\ running
    /\ log' = LogCommit(log)
    /\ UNCHANGED <<running, crashes>>

CallFlushUncommited ==
    /\ running
    /\ log' = FlushUncommited(log)
    /\ UNCHANGED <<running, crashes>>

(* The process dies; what it held in memory is gone.                       *)
Crash ==
    /\ running
    /\ crashes < MaxCrashes
    /\ running' = FALSE
    /\ log' = [EmptyLog EXCEPT !.file = log.file]
    /\ crashes' = crashes + 1

(* main(): InitOrRestore, or Fatalf when it returns an error.              *)
Restart ==
    /\ ~running
    /\ CanRestore(log.file)
    /\ log' = InitOrRestore(log.file)
    /\ running' = TRUE
    /\ UNCHANGED crashes

Next ==
    \/ \E cmd \in Command, term \in Term, ind \in {0, 1} : CallLogOp(cmd, term, ind)
    \/ CallLogCommit
    \/ CallFlushUncommited
    \/ Crash
    \/ Restart

Spec == Init /\ [][Next]_vars

-----------------------------------------------------------------------------
(* The Logger holds well-formed entries, whatever its callers passed.      *)
TypeOK ==
    /\ log \in Log
    /\ running \in BOOLEAN
    /\ crashes \in 0..MaxCrashes

(* Every entry, written or pending, carries its position and the index and *)
(* term of its predecessor, and last_entry is the last line of the file:   *)
(* logger.go lines 157-195 keep this without ever rereading the file.      *)
LogShape == running => LastIsCached(log) /\ WellNumbered(Content(log))

(* LenCommited and LenUncommited, computed from last_entry alone, count    *)
(* the lines of the file and the pending entries.  The assertion at        *)
(* middleware.go:139 and the index arithmetic of the replication sessions  *)
(* (middleware.go:142,156,167) rest on it.                                 *)
LengthsHonest ==
    running => /\ LenCommited(log) = Len(log.file)
               /\ LenUncommited(log) = Len(Content(log))

(* No call moves or rewrites an entry: a step extends the log, moves the   *)
(* oldest pending entry to the file, or drops a tail, and the file itself  *)
(* only grows.  A client handler remembers nothing but a length while it   *)
(* waits (rest/api.go:103), so a moved entry would be acknowledged as      *)
(* another one.                                                            *)
StablePrefix(s, t) ==
    \A i \in 1..Len(s) : i <= Len(t) => s[i] = t[i]

PositionsStable ==
    [][/\ StablePrefix(Content(log), Content(log'))
       /\ Len(log.file) <= Len(log'.file)]_vars
=============================================================================
