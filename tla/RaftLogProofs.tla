----------------------------- MODULE RaftLogProofs -----------------------------
(***************************************************************************)
(* What the methods of logger.go do to a log of any length: lemmas about   *)
(* the operators of RaftLog, for the proofs about one process's log and    *)
(* about the cluster.                                                      *)
(***************************************************************************)
EXTENDS RaftLog, TLAPS

(* Content is what is written followed by what is pending.                 *)
LEMMA ContentIndices ==
    ASSUME NEW lg \in Log
    PROVE  /\ Content(lg) \in Seq(Entry)
           /\ Len(Content(lg)) = Len(lg.file) + Len(lg.pend)
           /\ \A i \in 1..Len(lg.file) : Content(lg)[i] = lg.file[i]
           /\ \A i \in 1..Len(lg.pend) : Content(lg)[Len(lg.file) + i] = lg.pend[i]
BY DEF Content, Log

(* The file is a prefix of the content.                                    *)
LEMMA FileIsPrefix ==
    ASSUME NEW lg \in Log
    PROVE  /\ Content(lg) \in Seq(Entry)
           /\ lg.file \in Seq(Entry)
           /\ Len(lg.file) <= Len(Content(lg))
           /\ \A i \in 1..Len(lg.file) : Content(lg)[i] = lg.file[i]
<1> DEFINE c == Content(lg)
           f == lg.file
           q == lg.pend
<1>1. f \in Seq(Entry) /\ q \in Seq(Entry)
    BY DEF Log
<1>2. /\ c \in Seq(Entry)
      /\ Len(c) = Len(f) + Len(q)
      /\ \A i \in 1..Len(f) : c[i] = f[i]
    BY ContentIndices
<1> HIDE DEF c, f, q
<1>3. Len(f) <= Len(c)
    BY <1>1, <1>2
<1> QED BY <1>1, <1>2, <1>3 DEF c, f

(* Pending one more is appending to the content.                           *)
LEMMA ConcatAppend ==
    ASSUME NEW s \in Seq(Entry), NEW t \in Seq(Entry), NEW e \in Entry
    PROVE  s \o Append(t, e) = Append(s \o t, e)
OBVIOUS

(* One more entry that points back at the last one keeps the numbering.    *)
LEMMA AppendNumbered ==
    ASSUME NEW s \in Seq(Entry), WellNumbered(s), NEW e \in Entry,
           e.ind = Len(s),
           s = <<>> => e.prevInd = 0 /\ e.prevTerm = 0,
           s # <<>> => e.prevInd = Len(s) - 1 /\ e.prevTerm = s[Len(s)].term
    PROVE  WellNumbered(Append(s, e))
<1> DEFINE t == Append(s, e)
<1> SUFFICES ASSUME NEW i \in 1..Len(t)
             PROVE  /\ t[i].ind = i - 1
                    /\ t[i].prevInd = IF i = 1 THEN 0 ELSE i - 2
                    /\ t[i].prevTerm = IF i = 1 THEN 0 ELSE t[i - 1].term
    BY DEF WellNumbered
<1>1. Len(t) = Len(s) + 1 /\ t[Len(s) + 1] = e /\ \A j \in 1..Len(s) : t[j] = s[j]
    OBVIOUS
<1>2. CASE i \in 1..Len(s)
    BY <1>1, <1>2 DEF WellNumbered
<1>3. CASE i = Len(s) + 1
    BY <1>1, <1>3
<1> QED BY <1>1, <1>2, <1>3

(* A shorter log keeps the numbering.                                      *)
LEMMA PrefixNumbered ==
    ASSUME NEW s \in Seq(Entry), WellNumbered(s), NEW t \in Seq(Entry),
           Len(t) <= Len(s), \A i \in 1..Len(t) : t[i] = s[i]
    PROVE  WellNumbered(t)
<1> SUFFICES ASSUME NEW i \in 1..Len(t)
             PROVE  /\ t[i].ind = i - 1
                    /\ t[i].prevInd = IF i = 1 THEN 0 ELSE i - 2
                    /\ t[i].prevTerm = IF i = 1 THEN 0 ELSE t[i - 1].term
    BY DEF WellNumbered
<1>1. i \in 1..Len(s) /\ t[i] = s[i]
    OBVIOUS
<1>2. i # 1 => t[i - 1] = s[i - 1]
    OBVIOUS
<1> QED BY <1>1, <1>2 DEF WellNumbered

(* The entry before the next one: the last of what is pending, else the    *)
(* last line of the file, which last_entry caches.                         *)
LEMMA TailOfContent ==
    ASSUME NEW lg \in Log, LastIsCached(lg), WellNumbered(Content(lg))
    PROVE  /\ lg.file # <<>> => /\ lg.last \in Entry
                               /\ lg.last.ind = Len(lg.file) - 1
                               /\ lg.last = Content(lg)[Len(lg.file)]
           /\ lg.file = <<>> => lg.last = ZeroEntry
           /\ lg.pend # <<>> =>
                  LET p == lg.pend[Len(lg.pend)]
                  IN  /\ p \in Entry
                      /\ p.ind = Len(Content(lg)) - 1
                      /\ p = Content(lg)[Len(Content(lg))]
<1> DEFINE c == Content(lg)
           f == lg.file
           q == lg.pend
<1>0. /\ f \in Seq(Entry) /\ q \in Seq(Entry)
      /\ lg.last = IF f = <<>> THEN ZeroEntry ELSE f[Len(f)]
    BY DEF Log, LastIsCached
<1>1. /\ c \in Seq(Entry)
      /\ Len(c) = Len(f) + Len(q)
      /\ \A i \in 1..Len(f) : c[i] = f[i]
      /\ \A i \in 1..Len(q) : c[Len(f) + i] = q[i]
    BY ContentIndices
<1>2. \A i \in 1..Len(c) : c[i].ind = i - 1
    BY DEF WellNumbered
<1> HIDE DEF c, f, q
<1>3. ASSUME f # <<>>
      PROVE  /\ f[Len(f)] \in Entry
             /\ f[Len(f)].ind = Len(f) - 1
             /\ f[Len(f)] = c[Len(f)]
  <2>1. Len(f) \in 1..Len(f) /\ Len(f) \in 1..Len(c)
      BY <1>0, <1>1, <1>3
  <2> QED BY <1>0, <1>1, <1>2, <2>1
<1>4. ASSUME q # <<>>
      PROVE  /\ q[Len(q)] \in Entry
             /\ q[Len(q)].ind = Len(c) - 1
             /\ q[Len(q)] = c[Len(c)]
  <2>1. Len(q) \in 1..Len(q) /\ Len(c) \in 1..Len(c)
      BY <1>0, <1>1, <1>4
  <2> QED BY <1>0, <1>1, <1>2, <2>1
<1> QED BY <1>0, <1>3, <1>4 DEF c, f, q

(* In a log of good shape both lengths the code computes are honest.       *)
LEMMA ShapeGivesLengths ==
    ASSUME NEW lg \in Log, LastIsCached(lg), WellNumbered(Content(lg))
    PROVE  /\ LenCommited(lg) = Len(lg.file)
           /\ LenUncommited(lg) = Len(Content(lg))
<1>1. LenCommited(lg) = Len(lg.file)
  <2>1. CASE lg.file = <<>>
      BY <2>1, TailOfContent DEF LenCommited, ZeroEntry
  <2>2. CASE lg.file # <<>>
    <3>1. lg.last \in Entry /\ lg.last.ind = Len(lg.file) - 1 /\ Len(lg.file) \in Nat
        BY <2>2, TailOfContent DEF Log
    <3>2. lg.last.cmd # NoCommand
        BY <3>1, NoCommandAssumption DEF Entry
    <3> QED BY <3>1, <3>2 DEF LenCommited
  <2> QED BY <2>1, <2>2
<1>2. Len(Content(lg)) = Len(lg.file) + Len(lg.pend)
    BY ContentIndices
<1> QED BY <1>1, <1>2 DEF LenUncommited

(* Following (logger.go:160-174) numbers an entry after its predecessor.   *)
LEMMA FollowingFits ==
    ASSUME NEW e \in Entry, NEW p \in Entry
    PROVE  /\ Following(p, e) \in Entry
           /\ Following(p, e).ind = p.ind + 1
           /\ Following(p, e).prevInd = p.ind
           /\ Following(p, e).prevTerm = p.term
BY DEF Following, Renumbered, Entry

(* LogOp (logger.go:157-176): the entry goes to the end, numbered.         *)
LEMMA LogOpShape ==
    ASSUME NEW lg \in Log, LastIsCached(lg), WellNumbered(Content(lg)), NEW e \in Entry
    PROVE  /\ LogOp(lg, e) \in Log
           /\ LastIsCached(LogOp(lg, e))
           /\ WellNumbered(Content(LogOp(lg, e)))
           /\ Content(LogOp(lg, e)) = Append(Content(lg), Numbered(lg, e))
           /\ LogOp(lg, e).file = lg.file
<1> DEFINE n == Numbered(lg, e)
           c == Content(lg)
           f == lg.file
           q == lg.pend
           l == lg.last
           p == q[Len(q)]
<1>1. /\ f \in Seq(Entry) /\ q \in Seq(Entry) /\ c \in Seq(Entry)
      /\ l \in Entry \cup {ZeroEntry}
      /\ Len(c) = Len(f) + Len(q)
      /\ c = f \o q
    BY ContentIndices DEF Log, Content
<1>2. LogOp(lg, e) = [file |-> f, last |-> l, pend |-> Append(q, n)]
    BY DEF LogOp
<1>3. /\ f # <<>> => l \in Entry /\ l.ind = Len(f) - 1 /\ l = c[Len(f)]
      /\ f = <<>> => l = ZeroEntry
      /\ q # <<>> => p \in Entry /\ p.ind = Len(c) - 1 /\ p = c[Len(c)]
    BY TailOfContent
<1>4. n = IF q # <<>> THEN Following(p, e)
          ELSE IF l.cmd = NoCommand THEN First(e) ELSE Following(l, e)
    BY DEF Numbered
<1>5. LastIsCached(LogOp(lg, e)) /\ LogOp(lg, e).file = f
    BY <1>2 DEF LastIsCached
<1>6. Content(LogOp(lg, e)) = f \o Append(q, n)
  <2>1. LogOp(lg, e).file = f /\ LogOp(lg, e).pend = Append(q, n)
      BY <1>2
  <2> QED BY <2>1 DEF Content
<1> HIDE DEF n, c, f, q, l, p
<1>7. /\ n \in Entry
      /\ n.ind = Len(c)
      /\ c = <<>> => n.prevInd = 0 /\ n.prevTerm = 0
      /\ c # <<>> => n.prevInd = Len(c) - 1 /\ n.prevTerm = c[Len(c)].term
  <2>1. CASE q # <<>>
    <3>1. c # <<>> /\ Len(c) \in Nat
        BY <1>1, <2>1
    <3>2. p \in Entry /\ p.ind = Len(c) - 1 /\ p = c[Len(c)] /\ n = Following(p, e)
        BY <1>3, <1>4, <2>1
    <3>3. n \in Entry /\ n.ind = p.ind + 1 /\ n.prevInd = p.ind /\ n.prevTerm = p.term
        BY <3>2, FollowingFits
    <3> QED BY <3>1, <3>2, <3>3
  <2>2. CASE q = <<>> /\ f = <<>>
    <3>1. c = <<>> /\ Len(c) = 0
        BY <1>1, <2>2
    <3>2. n = First(e)
        BY <1>3, <1>4, <2>2 DEF ZeroEntry
    <3> QED BY <3>1, <3>2 DEF First, Renumbered, Entry
  <2>3. CASE q = <<>> /\ f # <<>>
    <3>1. c # <<>> /\ Len(c) = Len(f) /\ Len(c) \in Nat
        BY <1>1, <2>3
    <3>2. l \in Entry /\ l.ind = Len(c) - 1 /\ l = c[Len(c)]
        BY <1>3, <2>3, <3>1
    <3>3. n = Following(l, e)
        BY <1>4, <2>3, <3>2, NoCommandAssumption DEF Entry
    <3>4. n \in Entry /\ n.ind = l.ind + 1 /\ n.prevInd = l.ind /\ n.prevTerm = l.term
        BY <3>2, <3>3, FollowingFits
    <3> QED BY <3>1, <3>2, <3>4
  <2> QED BY <2>1, <2>2, <2>3
<1>8. LogOp(lg, e) \in Log
    BY <1>1, <1>2, <1>7 DEF Log
<1>9. Content(LogOp(lg, e)) = Append(c, n)
    BY <1>1, <1>6, <1>7, ConcatAppend
<1>10. WellNumbered(Append(c, n))
    <2>1. WellNumbered(c)
        BY DEF c
    <2> QED BY <1>1, <1>7, <2>1, AppendNumbered
<1> QED BY <1>5, <1>8, <1>9, <1>10 DEF c, n, f

(* LogCommit (logger.go:178-195) moves the border between the two parts.   *)
LEMMA LogCommitShape ==
    ASSUME NEW lg \in Log, LastIsCached(lg), WellNumbered(Content(lg))
    PROVE  /\ LogCommit(lg) \in Log
           /\ LastIsCached(LogCommit(lg))
           /\ Content(LogCommit(lg)) = Content(lg)
           /\ Len(lg.file) <= Len(LogCommit(lg).file)
<1>1. CASE lg.pend = <<>>
  <2>1. LogCommit(lg) = lg
      BY <1>1 DEF LogCommit
  <2>2. Len(lg.file) \in Nat
      BY DEF Log
  <2> QED BY <2>1, <2>2
<1>2. CASE lg.pend # <<>>
  <2> DEFINE f == lg.file
             q == lg.pend
             h == Head(q)
  <2>1. LogCommit(lg) = [file |-> Append(f, h), last |-> h, pend |-> Tail(q)]
      BY <1>2 DEF LogCommit
  <2>2. f \in Seq(Entry) /\ q \in Seq(Entry) /\ q # <<>> /\ Content(lg) = f \o q
      BY <1>2 DEF Log, Content
  <2>3. /\ LogCommit(lg).file = Append(f, h)
        /\ LogCommit(lg).last = h
        /\ LogCommit(lg).pend = Tail(q)
      BY <2>1
  <2>4. Content(LogCommit(lg)) = Append(f, h) \o Tail(q)
      BY <2>3 DEF Content
  <2> HIDE DEF f, q
  <2>5. h \in Entry /\ Tail(q) \in Seq(Entry)
      BY <2>2
  <2>6. Append(f, h) \o Tail(q) = f \o q
      BY <2>2, <2>5
  <2>7. /\ Append(f, h) \in Seq(Entry) /\ Append(f, h) # <<>>
        /\ Len(Append(f, h)) = Len(f) + 1 /\ Append(f, h)[Len(f) + 1] = h
        /\ Len(f) \in Nat
      BY <2>2, <2>5
  <2>8. LogCommit(lg) \in Log
      BY <2>1, <2>5, <2>7 DEF Log
  <2>9. LastIsCached(LogCommit(lg))
      BY <2>3, <2>7 DEF LastIsCached
  <2>10. Content(LogCommit(lg)) = Content(lg)
      BY <2>2, <2>4, <2>6
  <2>11. Len(f) <= Len(LogCommit(lg).file)
      BY <2>3, <2>7
  <2>12. Len(lg.file) <= Len(LogCommit(lg).file)
      BY <2>11 DEF f
  <2> QED BY <2>8, <2>9, <2>10, <2>12
<1> QED BY <1>1, <1>2

(* FlushUncommited (logger.go:216-222) leaves what is written.             *)
LEMMA FlushShape ==
    ASSUME NEW lg \in Log, LastIsCached(lg), WellNumbered(Content(lg))
    PROVE  /\ FlushUncommited(lg) \in Log
           /\ LastIsCached(FlushUncommited(lg))
           /\ WellNumbered(Content(FlushUncommited(lg)))
           /\ Content(FlushUncommited(lg)) = lg.file
           /\ FlushUncommited(lg).file = lg.file
<1> DEFINE f == lg.file
           c == Content(lg)
<1>1. FlushUncommited(lg) = [file |-> f, last |-> lg.last, pend |-> <<>>]
    BY DEF FlushUncommited
<1>2. FlushUncommited(lg) \in Log /\ f \in Seq(Entry)
    BY <1>1 DEF Log
<1>3. Content(FlushUncommited(lg)) = f \o <<>> /\ FlushUncommited(lg).file = f
    BY <1>1 DEF Content
<1>4. LastIsCached(FlushUncommited(lg))
    BY <1>1 DEF LastIsCached
<1>5. /\ c \in Seq(Entry) /\ Len(f) <= Len(c)
      /\ \A i \in 1..Len(f) : c[i] = f[i]
    BY FileIsPrefix
<1>6. WellNumbered(c)
    OBVIOUS
<1> HIDE DEF f, c
<1>7. WellNumbered(f)
    BY <1>2, <1>5, <1>6, PrefixNumbered
<1>8. f \o <<>> = f
    BY <1>2
<1> QED BY <1>2, <1>3, <1>4, <1>7, <1>8 DEF f

(* What zap wrote is not what restore reads, so only an empty file can be  *)
(* restored (logger.go:184-193 against logger.go:83-121).                 *)
LEMMA OnlyEmptyRestores ==
    ASSUME NEW file, CanRestore(file)
    PROVE  file = <<>>
BY DEF CanRestore, NumericFields, WrittenKind

LEMMA EmptyLogShape ==
    /\ EmptyLog \in Log
    /\ LastIsCached(EmptyLog)
    /\ WellNumbered(Content(EmptyLog))
<1>1. EmptyLog \in Log
    BY DEF EmptyLog, Log, ZeroEntry
<1>2. Content(EmptyLog) = <<>>
    BY DEF EmptyLog, Content
<1> QED BY <1>1, <1>2 DEF EmptyLog, LastIsCached, WellNumbered
==============================================================================
