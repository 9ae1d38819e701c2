------------------------------- MODULE RaftLog -------------------------------
(***************************************************************************)
(* The data structure behind DB/internal/logger/logger.go: the log of one  *)
(* server, as the record of the three things the Go struct keeps.          *)
(*                                                                         *)
(*   file   the entries written to raft.log, one JSON line each            *)
(*   last   last_entry, a copy of the entry written last; every length the *)
(*          program computes comes from it, never from the file            *)
(*   pend   to_commit, the entries logged in memory and not yet written    *)
(*                                                                         *)
(* The methods hold the logger's own mutex from their first to their last  *)
(* line, so each is an operator from a log to a log.                       *)
(***************************************************************************)
EXTENDS Naturals, Sequences

CONSTANTS
    Command,    \* what an entry asks for: its Op, Operand and Value1
    NoCommand   \* an entry whose Op is the empty string

ASSUME NoCommandAssumption == NoCommand \notin Command

-----------------------------------------------------------------------------
(* RaftLogEntry; indices count from 0 as in the code.                      *)
Entry == [cmd : Command, term : Nat, ind : Nat, prevInd : Nat, prevTerm : Nat]

(* The zero value of a RaftLogEntry.                                       *)
ZeroEntry ==
    [cmd |-> NoCommand, term |-> 0, ind |-> 0, prevInd |-> 0, prevTerm |-> 0]

(* A Logger: a blank last_entry is the zero value.                         *)
Log == [file : Seq(Entry), last : Entry \cup {ZeroEntry}, pend : Seq(Entry)]

EmptyLog == [file |-> <<>>, last |-> ZeroEntry, pend |-> <<>>]

(* LastOp() *)
LastOp(log) == log.last

(* Mutant: a blank last_entry is counted.                                  *)
LenCommitedOfBlank(log) == log.last.ind + 1

(* LenCommited(): the index of last_entry, plus one unless it is blank.    *)
LenCommited(log) ==
    IF log.last.cmd = NoCommand THEN log.last.ind ELSE log.last.ind + 1

(* LenUncommited() *)
LenUncommited(log) == LenCommited(log) + Len(log.pend)

(* Ops(0): the whole file, read back line by line.                         *)
Ops(log) == log.file

(* UncommitedOps() *)
UncommitedOps(log) == log.pend

-----------------------------------------------------------------------------
(* Entry e renumbered to follow entry p; e keeps its own term.             *)
Renumbered(e, ind, prevInd, prevTerm) ==
    [cmd |-> e.cmd, term |-> e.term, ind |-> ind, prevInd |-> prevInd, prevTerm |-> prevTerm]

Following(p, e) == Renumbered(e, p.ind + 1, p.ind, p.term)

First(e) == Renumbered(e, 0, 0, 0)

(* Mutants: the entry is numbered without regard to to_commit, and without *)
(* regard to last_entry.                                                   *)
NumberedFromLast(log, e) ==
    IF log.last.cmd = NoCommand THEN First(e) ELSE Following(log.last, e)

(* LogOp: the caller's index fields are overwritten from the tail of       *)
(* to_commit, else from last_entry.                                        *)
Numbered(log, e) ==
    IF log.pend # <<>> THEN Following(log.pend[Len(log.pend)], e)
    ELSE IF log.last.cmd = NoCommand THEN First(e)
    ELSE Following(log.last, e)

LogOp(log, e) ==
    [file |-> log.file, last |-> log.last, pend |-> Append(log.pend, Numbered(log, e))]

(* Mutant: last_entry is not set.                                          *)
LogCommitKeepsLast(log) ==
    IF log.pend = <<>> THEN log
    ELSE [file |-> Append(log.file, Head(log.pend)), last |-> log.last, pend |-> Tail(log.pend)]

(* LogCommit: the oldest pending entry goes to the file, whichever entry   *)
(* the caller had in mind; with nothing pending the call does nothing.     *)
LogCommit(log) ==
    IF log.pend = <<>> THEN log
    ELSE [file |-> Append(log.file, Head(log.pend)),
          last |-> Head(log.pend),
          pend |-> Tail(log.pend)]

(* Mutant: the file is created anew.                                       *)
FlushAll(log) == EmptyLog

(* FlushUncommited *)
FlushUncommited(log) == [file |-> log.file, last |-> log.last, pend |-> <<>>]

-----------------------------------------------------------------------------
(* How zap's JSON encoder writes the four numeric fields of an entry.      *)
WrittenKind(field) == "number"

NumericFields == {"term", "index", "prev_term", "prev_index"}

(* InitOrRestore.  An absent or empty file gives an empty log.  Otherwise  *)
(* the first line alone is read, each numeric field must have been written *)
(* as a string, and Op is not read back.                                   *)
CanRestore(file) ==
    file # <<>> => \A field \in NumericFields : WrittenKind(field) = "string"

InitOrRestore(file) ==
    IF file = <<>> THEN EmptyLog
    ELSE [file |-> file,
          last |-> [Head(file) EXCEPT !.cmd = NoCommand],
          pend |-> <<>>]

-----------------------------------------------------------------------------
(* The logical content of a log: what is written, then what is pending.    *)
Content(log) == log.file \o log.pend

(* Positions and back-pointers of a sequence of entries agree with it.     *)
WellNumbered(s) ==
    \A i \in 1..Len(s) :
        /\ s[i].ind = i - 1
        /\ s[i].prevInd = IF i = 1 THEN 0 ELSE i - 2
        /\ s[i].prevTerm = IF i = 1 THEN 0 ELSE s[i - 1].term

(* last_entry caches the last line of the file.                            *)
LastIsCached(log) ==
    log.last = IF log.file = <<>> THEN ZeroEntry ELSE log.file[Len(log.file)]
=============================================================================
