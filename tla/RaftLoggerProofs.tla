--------------------------- MODULE RaftLoggerProofs ---------------------------
(***************************************************************************)
(* Proofs about RaftLogger, for every set of commands, set of terms and    *)
(* bound.  The inductive invariant is TypeOK /\ LogShape: the shape speaks *)
(* of what is written and what is pending together, because LogCommit      *)
(* moves an entry numbered when it was logged.                             *)
(***************************************************************************)
EXTENDS RaftLogger, RaftLogProofs, TLAPS

(* Dropping what is pending moves nothing.                                 *)
LEMMA FilePrefixStable ==
    ASSUME NEW lg \in Log
    PROVE  StablePrefix(Content(lg), lg.file)
<1> DEFINE c == Content(lg)
           f == lg.file
<1>1. /\ c \in Seq(Entry) /\ f \in Seq(Entry)
      /\ \A i \in 1..Len(f) : c[i] = f[i]
    BY FileIsPrefix
<1> HIDE DEF c, f
<1>2. StablePrefix(c, f)
    BY <1>1 DEF StablePrefix
<1> QED BY <1>2 DEF c, f

-----------------------------------------------------------------------------
IInv == TypeOK /\ LogShape

LEMMA InitIInv == Init => IInv
BY EmptyLogShape, RaftLoggerAssumption DEF Init, IInv, TypeOK, LogShape

(* Every call keeps the invariant, and no call moves an entry.             *)
LEMMA NextIInv ==
    ASSUME IInv, [Next]_vars
    PROVE  /\ IInv'
           /\ StablePrefix(Content(log), Content(log'))
           /\ Len(log.file) <= Len(log'.file)
<1> USE RaftLoggerAssumption
<1>0. log \in Log /\ running \in BOOLEAN /\ crashes \in 0..MaxCrashes
    BY DEF IInv, TypeOK
<1>1. ASSUME NEW cmd \in Command, NEW t \in Term, NEW ind \in {0, 1},
             CallLogOp(cmd, t, ind)
      PROVE  /\ IInv'
             /\ StablePrefix(Content(log), Content(log'))
             /\ Len(log.file) <= Len(log'.file)
  <2> DEFINE e == [cmd |-> cmd, term |-> t, ind |-> ind, prevInd |-> 0, prevTerm |-> 0]
  <2>1. e \in Entry
      BY DEF Entry
  <2>2. LastIsCached(log) /\ WellNumbered(Content(log)) /\ log' = LogOp(log, e)
      BY <1>1 DEF CallLogOp, IInv, LogShape
  <2>3. /\ log' \in Log /\ LastIsCached(log') /\ WellNumbered(Content(log'))
        /\ Content(log') = Append(Content(log), Numbered(log, e))
      BY <1>0, <2>1, <2>2, LogOpShape
  <2>4. StablePrefix(Content(log), Content(log'))
      BY <1>0, <2>3, ContentIndices DEF StablePrefix
  <2>5. log'.file = log.file
      BY <1>0, <2>2 DEF LogOp, Log
  <2> QED BY <1>0, <1>1, <2>3, <2>4, <2>5 DEF CallLogOp, IInv, TypeOK, LogShape, Log
<1>2. ASSUME CallLogCommit
      PROVE  /\ IInv'
             /\ StablePrefix(Content(log), Content(log'))
             /\ Len(log.file) <= Len(log'.file)
  <2>1. LastIsCached(log) /\ WellNumbered(Content(log)) /\ log' = LogCommit(log)
      BY <1>2 DEF CallLogCommit, IInv, LogShape
  <2>2. /\ log' \in Log /\ LastIsCached(log') /\ Content(log') = Content(log)
        /\ Len(log.file) <= Len(log'.file)
      BY <1>0, <2>1, LogCommitShape
  <2> QED BY <1>0, <1>2, <2>1, <2>2
          DEF CallLogCommit, IInv, TypeOK, LogShape, StablePrefix
<1>3. ASSUME CallFlushUncommited
      PROVE  /\ IInv'
             /\ StablePrefix(Content(log), Content(log'))
             /\ Len(log.file) <= Len(log'.file)
  <2>1. LastIsCached(log) /\ WellNumbered(Content(log)) /\ log' = FlushUncommited(log)
      BY <1>3 DEF CallFlushUncommited, IInv, LogShape
  <2>2. /\ log' \in Log /\ LastIsCached(log') /\ WellNumbered(Content(log'))
        /\ Content(log') = log.file
      BY <1>0, <2>1, FlushShape
  <2>3. StablePrefix(Content(log), Content(log'))
      BY <1>0, <2>2, FilePrefixStable
  <2>4. log'.file = log.file
      BY <1>0, <2>1, <2>2, FlushShape
  <2> QED BY <1>0, <1>3, <2>2, <2>3, <2>4
          DEF CallFlushUncommited, IInv, TypeOK, LogShape, Log
<1>4. ASSUME Crash
      PROVE  /\ IInv'
             /\ StablePrefix(Content(log), Content(log'))
             /\ Len(log.file) <= Len(log'.file)
  <2>1. log' = [file |-> log.file, last |-> ZeroEntry, pend |-> <<>>]
      BY <1>4 DEF Crash, EmptyLog
  <2>2. log' \in Log /\ log.file \in Seq(Entry)
      BY <1>0, <2>1 DEF Log
  <2>3. Content(log') = log.file
      BY <2>1, <2>2 DEF Content
  <2>4. StablePrefix(Content(log), Content(log'))
      BY <1>0, <2>3, FilePrefixStable
  <2>5. crashes' \in 0..MaxCrashes /\ running' = FALSE
      BY <1>0, <1>4 DEF Crash
  <2>6. Len(log.file) <= Len(log'.file)
    <3>1. log'.file = log.file
        BY <2>1
    <3>2. Len(log.file) \in Nat
        BY <2>2
    <3> QED BY <3>1, <3>2
  <2>7. IInv'
      BY <2>2, <2>5 DEF IInv, TypeOK, LogShape
  <2> QED BY <2>4, <2>6, <2>7
<1>5. ASSUME Restart
      PROVE  /\ IInv'
             /\ StablePrefix(Content(log), Content(log'))
             /\ Len(log.file) <= Len(log'.file)
  <2>1. log.file = <<>>
      BY <1>5, OnlyEmptyRestores DEF Restart
  <2>2. log' = EmptyLog /\ running' = TRUE /\ crashes' = crashes
      BY <1>5, <2>1 DEF Restart, InitOrRestore
  <2>3. Content(log') = <<>> /\ log'.file = <<>>
      BY <2>2 DEF EmptyLog, Content
  <2>4. StablePrefix(Content(log), Content(log'))
      BY <2>3 DEF StablePrefix
  <2> QED BY <1>0, <2>1, <2>2, <2>3, <2>4, EmptyLogShape DEF IInv, TypeOK, LogShape
<1>6. ASSUME UNCHANGED vars
      PROVE  /\ IInv'
             /\ StablePrefix(Content(log), Content(log'))
             /\ Len(log.file) <= Len(log'.file)
    BY <1>0, <1>6 DEF vars, IInv, TypeOK, LogShape, StablePrefix, Log
<1> QED BY <1>1, <1>2, <1>3, <1>4, <1>5, <1>6 DEF Next

(* The Logger of every reachable state is typed and well-formed.           *)
LEMMA SpecIInv == Spec => []IInv
<1>1. IInv /\ [Next]_vars => IInv'
    BY NextIInv
<1> QED BY InitIInv, <1>1, PTL DEF Spec

(* The state of logger.go is typed in every behaviour.                     *)
THEOREM TypeCorrect == Spec => []TypeOK
<1>1. IInv => TypeOK
    BY DEF IInv
<1> QED BY SpecIInv, <1>1, PTL

(* Positions, back-pointers and the cached last_entry agree with the file  *)
(* and the pending entries, whatever calls are made (logger.go:157-222).   *)
THEOREM ShapeKept == Spec => []LogShape
<1>1. IInv => LogShape
    BY DEF IInv
<1> QED BY SpecIInv, <1>1, PTL

(* LenCommited and LenUncommited, computed without the file, count it      *)
(* (logger.go:206-236).                                                    *)
THEOREM LengthsCorrect == Spec => []LengthsHonest
<1>1. IInv => LengthsHonest
    BY ShapeGivesLengths DEF IInv, TypeOK, LogShape, LengthsHonest
<1> QED BY SpecIInv, <1>1, PTL

(* No call, crash or restart moves an entry or takes back a written line.  *)
THEOREM PositionsKept == Spec => PositionsStable
<1>1. IInv /\ [Next]_vars =>
        [/\ StablePrefix(Content(log), Content(log'))
         /\ Len(log.file) <= Len(log'.file)]_vars
    BY NextIInv
<1> QED BY SpecIInv, <1>1, PTL DEF Spec, PositionsStable
=============================================================================
