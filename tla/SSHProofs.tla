------------------------------ MODULE SSHProofs ------------------------------
(***************************************************************************)
(* Proofs about SSHSystem, for buffers and pipes of every size and for any *)
(* number of bytes typed and written.  The inductive invariant is the      *)
(* conjunction of StopInv, TypeInv, NotYet, InputInv and OutputInv, each   *)
(* with its own lemmas: Init, one per group of actions, and the step.      *)
(***************************************************************************)
EXTENDS SSHSystem, TLAPS

-----------------------------------------------------------------------------
(* A stop leaves nothing open.  Four parts hold together in every step:    *)
(* the order of the service's and the thread's ends; the handle, which is  *)
(* as valid as the socket behind it; whom the connection is waiting for;   *)
(* and the pipe ends, which the thread keeps as long as the session.       *)
StopOrder ==
    /\ svc \in {"off", "init"} => srv = "none"
    /\ svc = "report" => srv = "exited"
    /\ svc = "done" => srv \in {"none", "exited"}
    /\ status = "STOPPED" \/ hnd = "STOPPED" => svc = "done"

ListenHandle ==
    /\ g_listenSocket <=> sock \in {"open", "listening"}
    /\ srv \in {"none", "start", "exited"} => ~g_listenSocket

Served ==
    /\ conn \in {"none", "queued", "accepted"}
    /\ conn = "queued" => sock = "listening" \/ sfin
    /\ conn = "accepted" => sfin \/ srv \in Session \cup {"terminal", "box", "retry", "cleanup"}

PipeEnds ==
    \A e \in End : "server" \in holders[e] =>
        e \in {"inWr", "outRd"} /\ srv \in Session \cup {"retry", "cleanup"}

StopInv == StopOrder /\ ListenHandle /\ Served /\ PipeEnds

LEMMA StopInit == Init => StopInv
BY DEF Init, NetInit, ServerInit, ClientInit, StopInv, StopOrder, ListenHandle, Served,
       PipeEnds, End

LEMMA StopService ==
    ASSUME StopInv, ServiceSteps \/ StopRequested, UNCHANGED clientVars
    PROVE  StopInv'
<1> USE DEF StopInv, StopOrder, ListenHandle, Served, PipeEnds, Session, End,
            netVars, serverVars, serviceVars, threadVars, pipeVars, childVars
<1>1. CASE SvcMain
    BY <1>1 DEF SvcMain, Report
<1>2. CASE SvcInit
    BY <1>2 DEF SvcInit, Report
<1>3. CASE ReportRunning
    BY <1>3 DEF ReportRunning, Report
<1>4. CASE Joined
    BY <1>4 DEF Joined
<1>5. CASE ReportStopped
    BY <1>5 DEF ReportStopped, Report
<1>6. CASE StopRequested
    BY <1>6 DEF StopRequested, Report
<1> QED
    BY <1>1, <1>2, <1>3, <1>4, <1>5, <1>6 DEF ServiceSteps

LEMMA StopHandler ==
    ASSUME StopInv, HandlerSteps, UNCHANGED clientVars
    PROVE  StopInv'
<1> USE DEF StopInv, StopOrder, ListenHandle, Served, PipeEnds, Session, End,
            netVars, serverVars, serviceVars, threadVars, pipeVars, childVars
<1>1. CASE HandlerCloses
    BY <1>1 DEF HandlerCloses, CloseListen, CloseListening
<1>2. CASE HandlerRereads
    BY <1>2 DEF HandlerRereads
<1>3. CASE HandlerRereports
    BY <1>3 DEF HandlerRereports, Report
<1> QED
    BY <1>1, <1>2, <1>3 DEF HandlerSteps

LEMMA StopThread ==
    ASSUME StopInv, ThreadSteps, UNCHANGED clientVars
    PROVE  StopInv'
<1> USE DEF StopInv, StopOrder, ListenHandle, Served, PipeEnds, Session, End,
            netVars, serverVars, serviceVars, threadVars, pipeVars, childVars
<1>1. CASE OpenSocket
    BY <1>1 DEF OpenSocket
<1>2. CASE Listen
    BY <1>2 DEF Listen
<1>3. CASE ListenFails
    BY <1>3 DEF ListenFails, CloseListening
<1>4. CASE CheckStopBeforeAccept
    BY <1>4 DEF CheckStopBeforeAccept
<1>5. CASE SelectTimesOut
    BY <1>5 DEF SelectTimesOut
<1>6. CASE Accept
    BY <1>6 DEF Accept
<1>7. CASE AcceptFails
    BY <1>7 DEF AcceptFails
<1>8. CASE InitTerminal
    BY <1>8 DEF InitTerminal, ChildStarts, ChildFails, Inheritable
<1>9. CASE ErrorExit
    BY <1>9 DEF ErrorExit
<1>10. CASE CheckStop
    BY <1>10 DEF CheckStop
<1>11. CASE SelectClient
    BY <1>11 DEF SelectClient
<1>12. CASE NoOutput
    BY <1>12 DEF NoOutput, AfterOutput
<1>13. CASE ReadOutput
    BY <1>13 DEF ReadOutput
<1>14. CASE Send
    BY <1>14 DEF Send, AfterOutput
<1>15. CASE SendToNobody
    BY <1>15 DEF SendToNobody, AfterOutput
<1>16. CASE Receive
    BY <1>16 DEF Receive
<1>17. CASE ReceiveEnds
    BY <1>17 DEF ReceiveEnds
<1>18. CASE WriteInput
    BY <1>18 DEF WriteInput
<1>19. CASE WriteFails
    BY <1>19 DEF WriteFails
<1>20. CASE Cleanup
    BY <1>20 DEF Cleanup, CloseEnds
<1>21. CASE ThreadChecks
    BY <1>21 DEF ThreadChecks
<1>22. CASE ThreadCloses
    BY <1>22 DEF ThreadCloses, CloseListen, CloseListening
<1> QED
    BY <1>1, <1>2, <1>3, <1>4, <1>5, <1>6, <1>7, <1>8, <1>9, <1>10, <1>11, <1>12,
       <1>13, <1>14, <1>15, <1>16, <1>17, <1>18, <1>19, <1>20, <1>21, <1>22 DEF
       ThreadSteps

LEMMA StopChild ==
    ASSUME StopInv, ChildSteps \/ ChildExits, UNCHANGED clientVars
    PROVE  StopInv'
<1> USE DEF StopInv, StopOrder, ListenHandle, Served, PipeEnds, Session, End,
            netVars, serverVars, serviceVars, threadVars, pipeVars, childVars
<1>1. CASE ChildWrites
    BY <1>1 DEF ChildWrites
<1>2. CASE ChildReads
    BY <1>2 DEF ChildReads
<1>3. CASE ChildSeesEOF
    BY <1>3 DEF ChildSeesEOF, ChildEnds, CloseEnds
<1>4. CASE ChildExits
    BY <1>4 DEF ChildExits, ChildEnds, CloseEnds
<1> QED
    BY <1>1, <1>2, <1>3, <1>4 DEF ChildSteps

LEMMA StopClient ==
    ASSUME StopInv, ClientSteps, UNCHANGED serverVars
    PROVE  StopInv'
<1> USE DEF StopInv, StopOrder, ListenHandle, Served, PipeEnds, Session, End,
            netVars, serverVars, serviceVars, threadVars, pipeVars, childVars
<1>1. CASE Connect
    BY <1>1 DEF Connect
<1>2. CASE ConnectFails
    BY <1>2 DEF ConnectFails
<1>3. CASE ShowReceived
    BY <1>3 DEF ShowReceived
<1>4. CASE RecvEnds
    BY <1>4 DEF RecvEnds
<1>5. CASE Type
    BY <1>5 DEF Type
<1>6. CASE SendTyped
    BY <1>6 DEF SendTyped
<1>7. CASE EndOfInput
    BY <1>7 DEF EndOfInput, StdinDone
<1>8. CASE SendFails
    BY <1>8 DEF SendFails, StdinDone
<1>9. CASE Shutdown
    BY <1>9 DEF Shutdown
<1>10. CASE Exit
    BY <1>10 DEF Exit
<1> QED
    BY <1>1, <1>2, <1>3, <1>4, <1>5, <1>6, <1>7, <1>8, <1>9, <1>10 DEF ClientSteps

(* Every step keeps the four parts.                                        *)
LEMMA StopStep ==
    ASSUME StopInv, [Next]_sshVars
    PROVE  StopInv'
<1>1. CASE ServerStep
    BY <1>1, StopService, StopHandler, StopThread, StopChild DEF ServerStep
<1>2. CASE ClientStep
    BY <1>2, StopClient DEF ClientStep
<1>3. CASE UNCHANGED sshVars
    BY <1>3 DEF StopInv, StopOrder, ListenHandle, Served, PipeEnds, sshVars, netVars,
                serverVars, serviceVars, threadVars, pipeVars
<1> QED
    BY <1>1, <1>2, <1>3 DEF Next

(* When the service has reported that it stopped, its thread is gone and   *)
(* has closed the client, the listening socket and the pipes, although the *)
(* control handler may close that socket under it and report the stop a    *)
(* second time (main.cpp:596-606): StoppedMeansDone, in every state.       *)
THEOREM StopLeavesNothing == Spec => []StoppedMeansDone
<1>1. StopInv => StoppedMeansDone
    BY DEF StopInv, StopOrder, ListenHandle, Served, PipeEnds, Session, StoppedMeansDone
<1> QED
    BY <1>1, StopInit, StopStep, PTL DEF Spec

-----------------------------------------------------------------------------
(* Sequences of numbered bytes.  Follows: s holds the bytes behind the     *)
(* k-th; Marked: but for terminators in place of some; Spaced: which are   *)
(* at least a full buffer apart.                                           *)
Follows(s, k) == \A i \in 1 .. Len(s) : s[i] = k + i
Marked(s, k) == \A i \in 1 .. Len(s) : s[i] \in {k + i, Nul}
Spaced(s) == \A i, j \in 1 .. Len(s) : i < j /\ s[i] = Nul /\ s[j] = Nul => j - i >= RBuf

(* What is typed, and what the shell writes, may be in the buffer.         *)
LEMMA BytesAreOutput == Bytes \subseteq Output /\ Bytes \subseteq Seq(Nat) /\ Seq(Nat) \subseteq Output
BY ServerAssumption, TypedAssumption DEF Bytes, Output

(* A byte is taken from the front of one sequence and put behind another.  *)
LEMMA MoveInput ==
    ASSUME NEW s \in Bytes, s # <<>>, NEW t \in Bytes
    PROVE  /\ Append(t, Head(s)) \in Bytes /\ Len(Append(t, Head(s))) = Len(t) + 1
           /\ Tail(s) \in Bytes /\ Len(Tail(s)) = Len(s) - 1
           /\ Len(s) = 1 <=> Tail(s) = <<>>
<1> DEFINE A == 1 .. Typed
<1>1. s \in Seq(A) /\ t \in Seq(A)
    BY DEF Bytes
<1> HIDE DEF A
<1>2. Len(s) \in Nat /\ Len(s) # 0 /\ Len(t) \in Nat
    BY <1>1
<1>3. Head(s) \in A
    BY <1>1, <1>2
<1>4. Append(t, Head(s)) \in Seq(A) /\ Len(Append(t, Head(s))) = Len(t) + 1
    BY <1>1, <1>3
<1>5. Tail(s) \in Seq(A) /\ Len(Tail(s)) = Len(s) - 1
    BY <1>1, <1>2
<1>6. Len(s) = 1 <=> Tail(s) = <<>>
  <2> DEFINE u == Tail(s)
  <2> HIDE DEF u
  <2>1. u \in Seq(A) /\ Len(u) = Len(s) - 1
    BY <1>5 DEF u
  <2>2. Len(s) = 1 <=> u = <<>>
    BY <1>2, <2>1
  <2> QED
    BY <2>2 DEF u
<1> QED
    BY <1>4, <1>5, <1>6 DEF Bytes, A

LEMMA MoveOutput ==
    ASSUME NEW s \in Output, s # <<>>, NEW t \in Output
    PROVE  /\ Append(t, Head(s)) \in Output /\ Len(Append(t, Head(s))) = Len(t) + 1
           /\ Tail(s) \in Output /\ Len(Tail(s)) = Len(s) - 1
           /\ Len(s) = 1 <=> Tail(s) = <<>>
<1> DEFINE A == Nat \cup {Nul}
<1>1. s \in Seq(A) /\ t \in Seq(A)
    BY DEF Output
<1> HIDE DEF A
<1>2. Len(s) \in Nat /\ Len(s) # 0 /\ Len(t) \in Nat
    BY <1>1
<1>3. Head(s) \in A
    BY <1>1, <1>2
<1>4. Append(t, Head(s)) \in Seq(A) /\ Len(Append(t, Head(s))) = Len(t) + 1
    BY <1>1, <1>3
<1>5. Tail(s) \in Seq(A) /\ Len(Tail(s)) = Len(s) - 1
    BY <1>1, <1>2
<1>6. Len(s) = 1 <=> Tail(s) = <<>>
  <2> DEFINE u == Tail(s)
  <2> HIDE DEF u
  <2>1. u \in Seq(A) /\ Len(u) = Len(s) - 1
    BY <1>5 DEF u
  <2>2. Len(s) = 1 <=> u = <<>>
    BY <1>2, <2>1
  <2> QED
    BY <2>2 DEF u
<1> QED
    BY <1>4, <1>5, <1>6 DEF Output, A

(* As many as fit are taken from the front.                                *)
LEMMA SplitInput ==
    ASSUME NEW s \in Bytes, s # <<>>, NEW m \in Nat, m > 0
    PROVE  LET n == Least(m, Len(s))
           IN  /\ n \in 1 .. Len(s) /\ n <= m
               /\ SubSeq(s, 1, n) \in Bytes /\ Len(SubSeq(s, 1, n)) = n
               /\ SubSeq(s, 1, n) # <<>>
               /\ Drop(s, n) \in Bytes /\ Len(Drop(s, n)) = Len(s) - n
<1> DEFINE n == Least(m, Len(s))
           A == 1 .. Typed
<1>1. s \in Seq(A)
    BY DEF Bytes
<1> HIDE DEF A
<1>2. n \in 1 .. Len(s) /\ n <= m
    BY <1>1 DEF Least
<1> HIDE DEF n
<1>3. SubSeq(s, 1, n) \in Seq(A) /\ Len(SubSeq(s, 1, n)) = n
    BY <1>1, <1>2
<1>4. Drop(s, n) \in Seq(A) /\ Len(Drop(s, n)) = Len(s) - n
    BY <1>1, <1>2 DEF Drop
<1>5. SubSeq(s, 1, n) # <<>>
    BY <1>2, <1>3
<1> QED
    BY <1>2, <1>3, <1>4, <1>5 DEF Bytes, n, A

LEMMA SplitOutput ==
    ASSUME NEW s \in Seq(Nat), NEW n \in 1 .. Len(s)
    PROVE  Drop(s, n) \in Seq(Nat) /\ Len(Drop(s, n)) = Len(s) - n
BY DEF Drop

(* One more byte follows.                                                  *)
LEMMA FollowsAppend ==
    ASSUME NEW s \in Output, NEW k \in Nat, Follows(s, k), NEW e, e = k + Len(s) + 1
    PROVE  /\ Append(s, e) \in Output
           /\ Len(Append(s, e)) = Len(s) + 1
           /\ Follows(Append(s, e), k)
BY DEF Follows, Output

(* The first byte is the next one, and the rest follows it.                *)
LEMMA FollowsTail ==
    ASSUME NEW s \in Output, NEW k \in Nat, Follows(s, k), s # <<>>
    PROVE  /\ Head(s) = k + 1
           /\ Len(Tail(s)) = Len(s) - 1
           /\ Follows(Tail(s), k + 1)
BY DEF Follows, Output

(* A sequence that is cut in two.                                          *)
LEMMA FollowsParts ==
    ASSUME NEW s \in Output, NEW k \in Nat, Follows(s, k), NEW n \in 0 .. Len(s)
    PROVE  /\ Len(SubSeq(s, 1, n)) = n
           /\ Follows(SubSeq(s, 1, n), k)
           /\ Len(Drop(s, n)) = Len(s) - n
           /\ Follows(Drop(s, n), k + n)
BY DEF Follows, Output, Drop

(* The same with terminators.                                              *)
LEMMA MarkedAppend ==
    ASSUME NEW s \in Output, NEW k \in Nat, Marked(s, k),
           NEW e \in {k + Len(s) + 1, Nul}
    PROVE  /\ Append(s, e) \in Output
           /\ Len(Append(s, e)) = Len(s) + 1
           /\ Marked(Append(s, e), k)
BY DEF Marked, Output

LEMMA MarkedTail ==
    ASSUME NEW s \in Output, NEW k \in Nat, Marked(s, k), s # <<>>
    PROVE  /\ Head(s) \in {k + 1, Nul}
           /\ Tail(s) \in Output
           /\ Len(Tail(s)) = Len(s) - 1
           /\ Marked(Tail(s), k + 1)
BY DEF Marked, Output

(* Sequences one behind the other.                                         *)
LEMMA MarkedConcat ==
    ASSUME NEW s \in Output, NEW t \in Output, Marked(s, 0), Marked(t, Len(s))
    PROVE  /\ s \o t \in Output
           /\ Len(s \o t) = Len(s) + Len(t)
           /\ Marked(s \o t, 0)
BY DEF Marked, Output

LEMMA FollowsConcat ==
    ASSUME NEW s \in Output, NEW t \in Output, Follows(s, 0), Follows(t, Len(s))
    PROVE  /\ s \o t \in Output
           /\ Len(s \o t) = Len(s) + Len(t)
           /\ Follows(s \o t, 0)
BY DEF Follows, Output

LEMMA SpacedPrefix ==
    ASSUME NEW s \in Output, NEW t \in Output, Spaced(s \o t)
    PROVE  Spaced(s)
BY DEF Spaced, Output

LEMMA ConcatAssoc ==
    ASSUME NEW s \in Output, NEW t \in Output, NEW u \in Output
    PROVE  (s \o t) \o u = s \o (t \o u)
BY DEF Output

(* Moving the first byte does not change what is there in all.             *)
LEMMA MoveHead ==
    ASSUME NEW s \in Output, NEW t \in Output, t # <<>>
    PROVE  Append(s, Head(t)) \o Tail(t) = s \o t
BY DEF Output

(* What is read at once fits the buffer.                                   *)
LEMMA Cut ==
    ASSUME NEW o \in Seq(Nat), o # <<>>
    PROVE  LET n == Least(RBuf, Len(o))
               c == Terminated(SubSeq(o, 1, n))
           IN  /\ n \in 1 .. Len(o) /\ n <= RBuf
               /\ c \in Output /\ Len(c) = n /\ c # <<>>
               /\ \A i \in 1 .. n : c[i] = IF i = RBuf THEN Nul ELSE o[i]
<1> DEFINE n == Least(RBuf, Len(o))
           b == SubSeq(o, 1, n)
           c == Terminated(b)
<1>1. n \in 1 .. Len(o) /\ n <= RBuf
    BY ServerAssumption DEF Least
<1> HIDE DEF n
<1>2. b \in Seq(Nat) /\ Len(b) = n /\ \A i \in 1 .. n : b[i] = o[i]
    BY <1>1
<1> HIDE DEF b
<1>3. c \in Output /\ Len(c) = n /\ \A i \in 1 .. n : c[i] = IF i = RBuf THEN Nul ELSE b[i]
  <2>1. CASE n < RBuf
    <3>1. c = b
      BY <1>2, <2>1 DEF Terminated
    <3>2. b \in Output
      BY <1>2, BytesAreOutput
    <3>3. \A i \in 1 .. n : i # RBuf
      BY <1>1, <2>1, ServerAssumption
    <3> QED
      BY <1>2, <3>1, <3>2, <3>3
  <2>2. CASE n = RBuf
    <3>1. c = [b EXCEPT ![RBuf] = Nul]
      BY <1>2, <2>2 DEF Terminated
    <3>2. b \in Seq(Nat \cup {Nul})
      BY <1>2
    <3>3. RBuf \in 1 .. Len(b)
      BY <1>1, <1>2, <2>2
    <3>4. c \in Output /\ Len(c) = n
      BY <1>2, <3>1, <3>2, <3>3 DEF Output
    <3>5. \A i \in 1 .. n : c[i] = IF i = RBuf THEN Nul ELSE b[i]
      BY <1>1, <1>2, <2>2, <3>1, ServerAssumption
    <3> QED
      BY <3>4, <3>5
  <2> QED
    BY <1>1, <2>1, <2>2, ServerAssumption
<1> HIDE DEF c
<1>4. c # <<>>
    BY <1>1, <1>3
<1>5. \A i \in 1 .. n : c[i] = IF i = RBuf THEN Nul ELSE o[i]
    BY <1>2, <1>3
<1> QED
    BY <1>1, <1>3, <1>4, <1>5 DEF c, b, n

(* A chunk whose terminator is its last byte keeps the distance.           *)
LEMMA SpacedConcat ==
    ASSUME NEW s \in Output, Spaced(s), NEW c \in Output,
           \A i \in 1 .. Len(c) : c[i] = Nul => i = RBuf
    PROVE  Spaced(s \o c)
<1> DEFINE t == s \o c
<1>1. /\ Len(t) = Len(s) + Len(c)
      /\ \A i \in 1 .. Len(s) : t[i] = s[i]
      /\ \A i \in 1 .. Len(t) : i \notin 1 .. Len(s) => t[i] = c[i - Len(s)]
    BY DEF Output
<1>2. Len(s) \in Nat /\ Len(c) \in Nat
    BY DEF Output
<1> HIDE DEF t
<1>3. \A i \in 1 .. Len(t) : i \notin 1 .. Len(s) => i - Len(s) \in 1 .. Len(c)
    BY <1>1, <1>2
<1> SUFFICES ASSUME NEW i \in 1 .. Len(t), NEW j \in 1 .. Len(t),
                    i < j, t[i] = Nul, t[j] = Nul
             PROVE  j - i >= RBuf
    BY DEF Spaced, t
<1>4. ASSUME NEW m \in 1 .. Len(t), t[m] = Nul
      PROVE  m \in 1 .. Len(s) \/ m = Len(s) + RBuf
  <2> SUFFICES ASSUME m \notin 1 .. Len(s)
               PROVE  m = Len(s) + RBuf
    OBVIOUS
  <2>1. m - Len(s) \in 1 .. Len(c) /\ c[m - Len(s)] = Nul
    BY <1>1, <1>3, <1>4
  <2>2. m - Len(s) = RBuf
    BY <2>1
  <2> QED
    BY <1>2, <2>2, ServerAssumption
<1>5. CASE j \in 1 .. Len(s)
  <2>1. i \in 1 .. Len(s)
    BY <1>2, <1>5
  <2> QED
    BY <1>1, <1>5, <2>1 DEF Spaced
<1>6. CASE j = Len(s) + RBuf
  <2>1. i \in 1 .. Len(s)
    BY <1>2, <1>4, <1>6, ServerAssumption
  <2> QED
    BY <1>2, <1>6, <2>1, ServerAssumption
<1> QED
    BY <1>4, <1>5, <1>6
-----------------------------------------------------------------------------
(* Types *)

(* What the types leave out: the line that the client is about to send has *)
(* been typed, a buffer that is sent or written is not empty, and the      *)
(* pipes carry the bytes as they were written.                             *)
TypeMore ==
    /\ stdinT = "send" => typed > 0
    /\ srv \in {"send", "write"} => rbuf # <<>>
    /\ srv = "write" => rbuf \in Bytes
    /\ outPipe \in Seq(Nat)

TypeInv == TypeOK /\ TypeMore

LEMMA TypeService ==
    ASSUME TypeInv, ServiceSteps \/ StopRequested, UNCHANGED clientVars
    PROVE  TypeInv'
<1> USE DEF TypeInv, TypeMore, TypeOK, NetTypes, ServiceTypes, ThreadTypes,
            ShellTypes, ClientTypes, Session, States, End,
            netVars, serverVars, serviceVars, threadVars,
            pipeVars, childVars, clientVars
<1>1. CASE SvcMain
    BY <1>1 DEF SvcMain, Report
<1>2. CASE SvcInit
    BY <1>2 DEF SvcInit, Report
<1>3. CASE ReportRunning
    BY <1>3 DEF ReportRunning, Report
<1>4. CASE Joined
    BY <1>4 DEF Joined
<1>5. CASE ReportStopped
    BY <1>5 DEF ReportStopped, Report
<1>6. CASE StopRequested
    BY <1>6 DEF StopRequested, Report
<1> QED
    BY <1>1, <1>2, <1>3, <1>4, <1>5, <1>6 DEF ServiceSteps

LEMMA TypeHandler ==
    ASSUME TypeInv, HandlerSteps, UNCHANGED clientVars
    PROVE  TypeInv'
<1> USE DEF TypeInv, TypeMore, TypeOK, NetTypes, ServiceTypes, ThreadTypes,
            ShellTypes, ClientTypes, Session, States, End,
            netVars, serverVars, serviceVars, threadVars,
            pipeVars, childVars, clientVars
<1>1. CASE HandlerCloses
  <2>1. NetTypes'
    BY <1>1 DEF HandlerCloses, CloseListen, CloseListening
  <2>2. ServiceTypes'
    BY <1>1 DEF HandlerCloses, CloseListen, CloseListening
  <2>3. ThreadTypes'
    BY <1>1 DEF HandlerCloses, CloseListen, CloseListening
  <2>4. ShellTypes'
    BY <1>1 DEF HandlerCloses, CloseListen, CloseListening
  <2>5. ClientTypes'
    BY <1>1 DEF HandlerCloses, CloseListen, CloseListening
  <2>6. TypeMore'
    BY <1>1 DEF HandlerCloses, CloseListen, CloseListening
  <2> QED
    BY <2>1, <2>2, <2>3, <2>4, <2>5, <2>6
<1>2. CASE HandlerRereads
    BY <1>2 DEF HandlerRereads
<1>3. CASE HandlerRereports
    BY <1>3 DEF HandlerRereports, Report
<1> QED
    BY <1>1, <1>2, <1>3 DEF HandlerSteps

LEMMA TypeThread ==
    ASSUME TypeInv, ThreadSteps, UNCHANGED clientVars
    PROVE  TypeInv'
<1> USE DEF TypeInv, TypeMore, TypeOK, NetTypes, ServiceTypes, ThreadTypes,
            ShellTypes, ClientTypes, Session, States, End,
            netVars, serverVars, serviceVars, threadVars,
            pipeVars, childVars, clientVars
<1>1. CASE OpenSocket
  <2>1. NetTypes'
    BY <1>1 DEF OpenSocket
  <2>2. ServiceTypes'
    BY <1>1 DEF OpenSocket
  <2>3. ThreadTypes'
    BY <1>1 DEF OpenSocket
  <2>4. ShellTypes'
    BY <1>1 DEF OpenSocket
  <2>5. ClientTypes'
    BY <1>1 DEF OpenSocket
  <2>6. TypeMore'
    BY <1>1 DEF OpenSocket
  <2> QED
    BY <2>1, <2>2, <2>3, <2>4, <2>5, <2>6
<1>2. CASE Listen
    BY <1>2 DEF Listen
<1>3. CASE ListenFails
  <2>1. NetTypes'
    BY <1>3 DEF ListenFails, CloseListening
  <2>2. ServiceTypes'
    BY <1>3 DEF ListenFails, CloseListening
  <2>3. ThreadTypes'
    BY <1>3 DEF ListenFails, CloseListening
  <2>4. ShellTypes'
    BY <1>3 DEF ListenFails, CloseListening
  <2>5. ClientTypes'
    BY <1>3 DEF ListenFails, CloseListening
  <2>6. TypeMore'
    BY <1>3 DEF ListenFails, CloseListening
  <2> QED
    BY <2>1, <2>2, <2>3, <2>4, <2>5, <2>6
<1>4. CASE CheckStopBeforeAccept
    BY <1>4 DEF CheckStopBeforeAccept
<1>5. CASE SelectTimesOut
    BY <1>5 DEF SelectTimesOut
<1>6. CASE Accept
    BY <1>6 DEF Accept
<1>7. CASE AcceptFails
    BY <1>7 DEF AcceptFails
<1>8. CASE InitTerminal
  <2>1. NetTypes'
    BY <1>8 DEF InitTerminal, ChildStarts, ChildFails, Inheritable
  <2>2. ServiceTypes'
    BY <1>8 DEF InitTerminal, ChildStarts, ChildFails, Inheritable
  <2>3. ThreadTypes'
    BY <1>8 DEF InitTerminal, ChildStarts, ChildFails, Inheritable
  <2>4. ShellTypes'
    BY <1>8, ServerAssumption DEF InitTerminal, ChildStarts, ChildFails, Inheritable
  <2>5. ClientTypes'
    BY <1>8 DEF InitTerminal, ChildStarts, ChildFails, Inheritable
  <2>6. TypeMore'
    BY <1>8 DEF InitTerminal, ChildStarts, ChildFails, Inheritable
  <2> QED
    BY <2>1, <2>2, <2>3, <2>4, <2>5, <2>6
<1>9. CASE ErrorExit
    BY <1>9 DEF ErrorExit
<1>10. CASE CheckStop
    BY <1>10 DEF CheckStop
<1>11. CASE SelectClient
    BY <1>11 DEF SelectClient
<1>12. CASE NoOutput
    BY <1>12 DEF NoOutput, AfterOutput
<1>13. CASE ReadOutput
  <2>1. /\ rbuf' \in Output /\ Len(rbuf') <= RBuf /\ rbuf' # <<>>
        /\ outPipe' \in Seq(Nat) /\ Len(outPipe') <= Len(outPipe)
    <3> DEFINE n == Least(RBuf, Len(outPipe))
               c == Terminated(SubSeq(outPipe, 1, n))
    <3>1. outPipe \in Seq(Nat) /\ outPipe # <<>>
      BY <1>13 DEF ReadOutput
    <3>2. rbuf' = c /\ outPipe' = Drop(outPipe, n)
      BY <1>13 DEF ReadOutput
    <3>3. /\ n \in 1 .. Len(outPipe) /\ n <= RBuf
          /\ c \in Output /\ Len(c) = n /\ c # <<>>
      BY <3>1, Cut
    <3> HIDE DEF n, c
    <3>4. Drop(outPipe, n) \in Seq(Nat) /\ Len(Drop(outPipe, n)) = Len(outPipe) - n
      BY <3>1, <3>3, SplitOutput
    <3>5. Len(outPipe) - n <= Len(outPipe)
      BY <3>3
    <3> QED
      BY <3>2, <3>3, <3>4, <3>5
  <2>2. NetTypes'
    BY <1>13 DEF ReadOutput
  <2>3. ServiceTypes'
    BY <1>13 DEF ReadOutput
  <2>4. ThreadTypes'
    BY <1>13, <2>1 DEF ReadOutput
  <2>5. ShellTypes'
    BY <1>13, <2>1, BytesAreOutput, ServerAssumption DEF ReadOutput
  <2>6. ClientTypes'
    BY <1>13 DEF ReadOutput
  <2>7. TypeMore'
    BY <1>13, <2>1 DEF ReadOutput
  <2> QED
    BY <2>2, <2>3, <2>4, <2>5, <2>6, <2>7
<1>14. CASE Send
  <2>1. rbuf \in Output /\ rbuf # <<>> /\ down \in Output
    BY <1>14 DEF Send
  <2>2. NetTypes'
    BY <1>14, <2>1, MoveOutput, ConnectionAssumption DEF Send, AfterOutput
  <2>3. ServiceTypes'
    BY <1>14 DEF Send, AfterOutput
  <2>4. ThreadTypes'
    BY <1>14, <2>1, MoveOutput, ServerAssumption DEF Send, AfterOutput
  <2>5. ShellTypes'
    BY <1>14 DEF Send, AfterOutput
  <2>6. ClientTypes'
    BY <1>14 DEF Send, AfterOutput
  <2>7. TypeMore'
    BY <1>14, <2>1, MoveOutput, ServerAssumption DEF Send, AfterOutput
  <2> QED
    BY <2>2, <2>3, <2>4, <2>5, <2>6, <2>7
<1>15. CASE SendToNobody
  <2>1. NetTypes'
    BY <1>15 DEF SendToNobody, AfterOutput
  <2>2. ServiceTypes'
    BY <1>15 DEF SendToNobody, AfterOutput
  <2>3. ThreadTypes'
    BY <1>15, ServerAssumption DEF SendToNobody, AfterOutput, Output, Bytes
  <2>4. ShellTypes'
    BY <1>15 DEF SendToNobody, AfterOutput
  <2>5. ClientTypes'
    BY <1>15 DEF SendToNobody, AfterOutput
  <2>6. TypeMore'
    BY <1>15 DEF SendToNobody, AfterOutput
  <2> QED
    BY <2>1, <2>2, <2>3, <2>4, <2>5, <2>6
<1>16. CASE Receive
  <2>1. up \in Bytes /\ up # <<>> /\ RBuf - 1 \in Nat /\ RBuf - 1 > 0
    BY <1>16, ServerAssumption DEF Receive
  <2>2. /\ rbuf' \in Bytes /\ rbuf' # <<>> /\ Len(rbuf') <= RBuf - 1
        /\ up' \in Bytes /\ Len(up') <= Len(up)
    <3> DEFINE n == Least(RBuf - 1, Len(up))
    <3>1. /\ n \in 1 .. Len(up) /\ n <= RBuf - 1
          /\ SubSeq(up, 1, n) \in Bytes /\ Len(SubSeq(up, 1, n)) = n
          /\ SubSeq(up, 1, n) # <<>>
          /\ Drop(up, n) \in Bytes /\ Len(Drop(up, n)) = Len(up) - n
      BY <2>1, SplitInput
    <3>2. rbuf' = SubSeq(up, 1, n) /\ up' = Drop(up, n)
      BY <1>16 DEF Receive
    <3> HIDE DEF n
    <3>3. Len(up) - n <= Len(up)
      BY <3>1
    <3> QED
      BY <3>1, <3>2, <3>3
  <2>3. rbuf' \in Output /\ Len(rbuf') <= RBuf
    BY <2>2, BytesAreOutput, ServerAssumption
  <2>4. NetTypes'
    BY <1>16, <2>2, ConnectionAssumption DEF Receive
  <2>5. ServiceTypes'
    BY <1>16 DEF Receive
  <2>6. ThreadTypes'
    BY <1>16, <2>3 DEF Receive
  <2>7. ShellTypes'
    BY <1>16 DEF Receive
  <2>8. ClientTypes'
    BY <1>16 DEF Receive
  <2>9. TypeMore'
    BY <1>16, <2>2 DEF Receive
  <2> QED
    BY <2>4, <2>5, <2>6, <2>7, <2>8, <2>9
<1>17. CASE ReceiveEnds
    BY <1>17 DEF ReceiveEnds
<1>18. CASE WriteInput
  <2>1. rbuf \in Bytes /\ rbuf # <<>> /\ inPipe \in Bytes
    BY <1>18 DEF WriteInput
  <2>2. NetTypes'
    BY <1>18 DEF WriteInput
  <2>3. ServiceTypes'
    BY <1>18 DEF WriteInput
  <2>4. ThreadTypes'
    BY <1>18, <2>1, MoveInput, BytesAreOutput, ServerAssumption DEF WriteInput
  <2>5. ShellTypes'
    BY <1>18, <2>1, MoveInput, ServerAssumption DEF WriteInput
  <2>6. ClientTypes'
    BY <1>18 DEF WriteInput
  <2>7. TypeMore'
    BY <1>18, <2>1, MoveInput DEF WriteInput
  <2> QED
    BY <2>2, <2>3, <2>4, <2>5, <2>6, <2>7
<1>19. CASE WriteFails
  <2>1. NetTypes'
    BY <1>19 DEF WriteFails
  <2>2. ServiceTypes'
    BY <1>19 DEF WriteFails
  <2>3. ThreadTypes'
    BY <1>19, ServerAssumption DEF WriteFails, Output, Bytes
  <2>4. ShellTypes'
    BY <1>19 DEF WriteFails
  <2>5. ClientTypes'
    BY <1>19 DEF WriteFails
  <2>6. TypeMore'
    BY <1>19 DEF WriteFails
  <2> QED
    BY <2>1, <2>2, <2>3, <2>4, <2>5, <2>6
<1>20. CASE Cleanup
  <2>1. NetTypes'
    BY <1>20 DEF Cleanup, CloseEnds
  <2>2. ServiceTypes'
    BY <1>20 DEF Cleanup, CloseEnds
  <2>3. ThreadTypes'
    BY <1>20 DEF Cleanup, CloseEnds
  <2>4. ShellTypes'
    BY <1>20, ServerAssumption DEF Cleanup, CloseEnds, Output, Bytes
  <2>5. ClientTypes'
    BY <1>20 DEF Cleanup, CloseEnds
  <2>6. TypeMore'
    BY <1>20 DEF Cleanup, CloseEnds, Output, Bytes
  <2> QED
    BY <2>1, <2>2, <2>3, <2>4, <2>5, <2>6
<1>21. CASE ThreadChecks
    BY <1>21 DEF ThreadChecks
<1>22. CASE ThreadCloses
  <2>1. NetTypes'
    BY <1>22 DEF ThreadCloses, CloseListen, CloseListening
  <2>2. ServiceTypes'
    BY <1>22 DEF ThreadCloses, CloseListen, CloseListening
  <2>3. ThreadTypes'
    BY <1>22 DEF ThreadCloses, CloseListen, CloseListening
  <2>4. ShellTypes'
    BY <1>22 DEF ThreadCloses, CloseListen, CloseListening
  <2>5. ClientTypes'
    BY <1>22 DEF ThreadCloses, CloseListen, CloseListening
  <2>6. TypeMore'
    BY <1>22 DEF ThreadCloses, CloseListen, CloseListening
  <2> QED
    BY <2>1, <2>2, <2>3, <2>4, <2>5, <2>6
<1> QED
    BY <1>1, <1>2, <1>3, <1>4, <1>5, <1>6, <1>7, <1>8, <1>9, <1>10, <1>11, <1>12,
       <1>13, <1>14, <1>15, <1>16, <1>17, <1>18, <1>19, <1>20, <1>21, <1>22 DEF
       ThreadSteps

LEMMA TypeChild ==
    ASSUME TypeInv, ChildSteps \/ ChildExits, UNCHANGED clientVars
    PROVE  TypeInv'
<1> USE DEF TypeInv, TypeMore, TypeOK, NetTypes, ServiceTypes, ThreadTypes,
            ShellTypes, ClientTypes, Session, States, End,
            netVars, serverVars, serviceVars, threadVars,
            pipeVars, childVars, clientVars
<1>1. CASE ChildWrites
  <2>1. Append(outPipe, wrote + 1) \in Seq(Nat) /\ Len(Append(outPipe, wrote + 1)) = Len(outPipe) + 1
    OBVIOUS
  <2>2. /\ outPipe' \in Seq(Nat) /\ Len(outPipe') <= OutBuffer
        /\ wrote' \in Nat /\ owes' \in Nat
    <3>1. CASE holders["outRd"] = {}
      BY <1>1, <3>1 DEF ChildWrites
    <3>2. CASE holders["outRd"] # {}
      <4>1. outPipe' = Append(outPipe, wrote + 1) /\ Len(outPipe) < OutBuffer
        BY <1>1, <3>2 DEF ChildWrites
      <4>2. wrote' \in Nat /\ owes' \in Nat
        BY <1>1, <3>2 DEF ChildWrites
      <4>3. Len(outPipe) \in Nat /\ OutBuffer \in Nat
        BY ServerAssumption
      <4> QED
        BY <2>1, <4>1, <4>2, <4>3
    <3> QED
      BY <3>1, <3>2
  <2>3. NetTypes'
    BY <1>1 DEF ChildWrites
  <2>4. ServiceTypes'
    BY <1>1 DEF ChildWrites
  <2>5. ThreadTypes'
    BY <1>1 DEF ChildWrites
  <2>6. ShellTypes'
    BY <1>1, <2>2, BytesAreOutput DEF ChildWrites
  <2>7. ClientTypes'
    BY <1>1 DEF ChildWrites
  <2>8. TypeMore'
    BY <1>1, <2>2 DEF ChildWrites
  <2> QED
    BY <2>3, <2>4, <2>5, <2>6, <2>7, <2>8
<1>2. CASE ChildReads
  <2>1. inPipe \in Bytes /\ inPipe # <<>> /\ eaten \in Bytes
    BY <1>2 DEF ChildReads
  <2>2. NetTypes'
    BY <1>2 DEF ChildReads
  <2>3. ServiceTypes'
    BY <1>2 DEF ChildReads
  <2>4. ThreadTypes'
    BY <1>2 DEF ChildReads
  <2>5. ShellTypes'
    BY <1>2, <2>1, MoveInput, ServerAssumption DEF ChildReads
  <2>6. ClientTypes'
    BY <1>2 DEF ChildReads
  <2>7. TypeMore'
    BY <1>2 DEF ChildReads
  <2> QED
    BY <2>2, <2>3, <2>4, <2>5, <2>6, <2>7
<1>3. CASE ChildSeesEOF
    BY <1>3 DEF ChildSeesEOF, ChildEnds, CloseEnds
<1>4. CASE ChildExits
  <2>1. NetTypes'
    BY <1>4 DEF ChildExits, ChildEnds, CloseEnds
  <2>2. ServiceTypes'
    BY <1>4 DEF ChildExits, ChildEnds, CloseEnds
  <2>3. ThreadTypes'
    BY <1>4 DEF ChildExits, ChildEnds, CloseEnds
  <2>4. ShellTypes'
    BY <1>4, ServerAssumption DEF ChildExits, ChildEnds, CloseEnds, Output, Bytes
  <2>5. ClientTypes'
    BY <1>4 DEF ChildExits, ChildEnds, CloseEnds
  <2>6. TypeMore'
    BY <1>4 DEF ChildExits, ChildEnds, CloseEnds
  <2> QED
    BY <2>1, <2>2, <2>3, <2>4, <2>5, <2>6
<1> QED
    BY <1>1, <1>2, <1>3, <1>4 DEF ChildSteps

LEMMA TypeClient ==
    ASSUME TypeInv, ClientSteps, UNCHANGED serverVars
    PROVE  TypeInv'
<1> USE DEF TypeInv, TypeMore, TypeOK, NetTypes, ServiceTypes, ThreadTypes,
            ShellTypes, ClientTypes, Session, States, End,
            netVars, serverVars, serviceVars, threadVars,
            pipeVars, childVars, clientVars
<1>1. CASE Connect
    BY <1>1 DEF Connect
<1>2. CASE ConnectFails
    BY <1>2 DEF ConnectFails
<1>3. CASE ShowReceived
  <2>1. NetTypes'
    BY <1>3, ConnectionAssumption DEF ShowReceived, Output, Bytes
  <2>2. ServiceTypes'
    BY <1>3 DEF ShowReceived
  <2>3. ThreadTypes'
    BY <1>3 DEF ShowReceived
  <2>4. ShellTypes'
    BY <1>3 DEF ShowReceived
  <2>5. ClientTypes'
    BY <1>3 DEF ShowReceived, Output
  <2>6. TypeMore'
    BY <1>3 DEF ShowReceived
  <2> QED
    BY <2>1, <2>2, <2>3, <2>4, <2>5, <2>6
<1>4. CASE RecvEnds
    BY <1>4 DEF RecvEnds
<1>5. CASE Type
  <2>1. NetTypes'
    BY <1>5 DEF Type
  <2>2. ServiceTypes'
    BY <1>5 DEF Type
  <2>3. ThreadTypes'
    BY <1>5 DEF Type
  <2>4. ShellTypes'
    BY <1>5 DEF Type
  <2>5. ClientTypes'
    BY <1>5, TypedAssumption DEF Type
  <2>6. TypeMore'
    BY <1>5 DEF Type
  <2> QED
    BY <2>1, <2>2, <2>3, <2>4, <2>5, <2>6
<1>6. CASE SendTyped
  <2>1. /\ typed \in 1 .. Typed /\ up \in Bytes
    BY <1>6, TypedAssumption DEF SendTyped
  <2>2. Append(up, typed) \in Bytes /\ Len(Append(up, typed)) = Len(up) + 1
    BY <2>1 DEF Bytes
  <2>3. NetTypes'
    BY <1>6, <2>2, ConnectionAssumption DEF SendTyped
  <2>4. ServiceTypes'
    BY <1>6 DEF SendTyped
  <2>5. ThreadTypes'
    BY <1>6 DEF SendTyped
  <2>6. ShellTypes'
    BY <1>6 DEF SendTyped
  <2>7. ClientTypes'
    BY <1>6 DEF SendTyped
  <2>8. TypeMore'
    BY <1>6 DEF SendTyped
  <2> QED
    BY <2>3, <2>4, <2>5, <2>6, <2>7, <2>8
<1>7. CASE EndOfInput
    BY <1>7 DEF EndOfInput, StdinDone
<1>8. CASE SendFails
    BY <1>8 DEF SendFails, StdinDone
<1>9. CASE Shutdown
  <2>1. NetTypes'
    BY <1>9, ConnectionAssumption DEF Shutdown, Output, Bytes
  <2>2. ServiceTypes'
    BY <1>9 DEF Shutdown
  <2>3. ThreadTypes'
    BY <1>9 DEF Shutdown
  <2>4. ShellTypes'
    BY <1>9 DEF Shutdown
  <2>5. ClientTypes'
    BY <1>9 DEF Shutdown
  <2>6. TypeMore'
    BY <1>9 DEF Shutdown
  <2> QED
    BY <2>1, <2>2, <2>3, <2>4, <2>5, <2>6
<1>10. CASE Exit
    BY <1>10 DEF Exit
<1> QED
    BY <1>1, <1>2, <1>3, <1>4, <1>5, <1>6, <1>7, <1>8, <1>9, <1>10 DEF ClientSteps

LEMMA TypeInit == Init => TypeInv
<1> SUFFICES ASSUME Init
             PROVE  TypeInv
    OBVIOUS
<1> USE DEF Init, NetInit, ServerInit,
        ClientInit
<1>1. <<>> \in Bytes /\ <<>> \in Output /\ <<>> \in Seq(Nat) /\ Len(<<>>) = 0
    BY DEF Bytes, Output
<1>2. /\ 0 <= UpBuffer /\ 0 <= DownBuffer /\ 0 <= RBuf
      /\ 0 <= InBuffer /\ 0 <= OutBuffer /\ 0 \in 0 .. Typed
    BY ConnectionAssumption, ServerAssumption, TypedAssumption
<1>3. NetTypes
    BY <1>1, <1>2 DEF NetTypes
<1>4. ServiceTypes
    BY DEF ServiceTypes, States
<1>5. ThreadTypes
    BY <1>1, <1>2 DEF ThreadTypes, Session
<1>6. ShellTypes
    BY <1>1, <1>2 DEF ShellTypes, End
<1>7. ClientTypes
    BY <1>1, <1>2 DEF ClientTypes
<1>8. TypeMore
    BY <1>1 DEF TypeMore
<1> QED
    BY <1>3, <1>4, <1>5, <1>6, <1>7, <1>8 DEF TypeInv, TypeOK

LEMMA TypeStep ==
    ASSUME TypeInv, [Next]_sshVars
    PROVE  TypeInv'
<1>1. CASE ServerStep
    BY <1>1, TypeService, TypeHandler, TypeThread, TypeChild DEF ServerStep
<1>2. CASE ClientStep
    BY <1>2, TypeClient DEF ClientStep
<1>3. CASE UNCHANGED sshVars
    BY <1>3 DEF TypeInv, TypeMore, TypeOK, NetTypes, ServiceTypes,
                ThreadTypes, ShellTypes, ClientTypes, sshVars, netVars,
                serverVars, serviceVars, threadVars, pipeVars, childVars, clientVars
<1> QED
    BY <1>1, <1>2, <1>3 DEF Next

-----------------------------------------------------------------------------
(* Before the session: the shell has not been started, and nothing has     *)
(* passed.                                                                 *)
Before == {"none", "start", "bind", "accept", "select", "terminal"}

NotYet ==
    srv \in Before =>
        /\ child = "none" /\ eaten = <<>> /\ inPipe = <<>>
        /\ outPipe = <<>> /\ wrote = 0 /\ down = <<>> /\ shown = <<>>

LEMMA NotYetInit == Init => NotYet
BY DEF Init, NetInit, ServerInit, ClientInit, NotYet

LEMMA NotYetService ==
    ASSUME StopInv, NotYet, ServiceSteps \/ StopRequested, UNCHANGED clientVars
    PROVE  NotYet'
<1> USE DEF NotYet, Before, netVars, serverVars, serviceVars, threadVars,
            pipeVars, childVars, clientVars
<1>1. CASE SvcMain
    BY <1>1 DEF SvcMain, Report
<1>2. CASE SvcInit
    BY <1>2 DEF SvcInit, Report, StopInv, StopOrder
<1>3. CASE ReportRunning
    BY <1>3 DEF ReportRunning, Report
<1>4. CASE Joined
    BY <1>4 DEF Joined
<1>5. CASE ReportStopped
    BY <1>5 DEF ReportStopped, Report
<1>6. CASE StopRequested
    BY <1>6 DEF StopRequested, Report
<1> QED
    BY <1>1, <1>2, <1>3, <1>4, <1>5, <1>6 DEF ServiceSteps

LEMMA NotYetHandler ==
    ASSUME StopInv, NotYet, HandlerSteps, UNCHANGED clientVars
    PROVE  NotYet'
<1> USE DEF NotYet, Before, netVars, serverVars, serviceVars, threadVars,
            pipeVars, childVars, clientVars
<1>1. CASE HandlerCloses
    BY <1>1 DEF HandlerCloses, CloseListen, CloseListening
<1>2. CASE HandlerRereads
    BY <1>2 DEF HandlerRereads
<1>3. CASE HandlerRereports
    BY <1>3 DEF HandlerRereports, Report
<1> QED
    BY <1>1, <1>2, <1>3 DEF HandlerSteps

LEMMA NotYetThread ==
    ASSUME StopInv, NotYet, ThreadSteps, UNCHANGED clientVars
    PROVE  NotYet'
<1> USE DEF NotYet, Before, netVars, serverVars, serviceVars, threadVars,
            pipeVars, childVars, clientVars
<1>1. CASE OpenSocket
    BY <1>1 DEF OpenSocket
<1>2. CASE Listen
    BY <1>2 DEF Listen
<1>3. CASE ListenFails
    BY <1>3 DEF ListenFails, CloseListening
<1>4. CASE CheckStopBeforeAccept
    BY <1>4 DEF CheckStopBeforeAccept
<1>5. CASE SelectTimesOut
    BY <1>5 DEF SelectTimesOut
<1>6. CASE Accept
    BY <1>6 DEF Accept
<1>7. CASE AcceptFails
    BY <1>7 DEF AcceptFails
<1>8. CASE InitTerminal
    BY <1>8 DEF InitTerminal, ChildStarts, ChildFails, Inheritable
<1>9. CASE ErrorExit
    BY <1>9 DEF ErrorExit
<1>10. CASE CheckStop
    BY <1>10 DEF CheckStop
<1>11. CASE SelectClient
    BY <1>11 DEF SelectClient
<1>12. CASE NoOutput
    BY <1>12 DEF NoOutput, AfterOutput
<1>13. CASE ReadOutput
    BY <1>13 DEF ReadOutput
<1>14. CASE Send
    BY <1>14 DEF Send, AfterOutput
<1>15. CASE SendToNobody
    BY <1>15 DEF SendToNobody, AfterOutput
<1>16. CASE Receive
    BY <1>16 DEF Receive
<1>17. CASE ReceiveEnds
    BY <1>17 DEF ReceiveEnds
<1>18. CASE WriteInput
    BY <1>18 DEF WriteInput
<1>19. CASE WriteFails
    BY <1>19 DEF WriteFails
<1>20. CASE Cleanup
    BY <1>20 DEF Cleanup, CloseEnds
<1>21. CASE ThreadChecks
    BY <1>21 DEF ThreadChecks
<1>22. CASE ThreadCloses
    BY <1>22 DEF ThreadCloses, CloseListen, CloseListening
<1> QED
    BY <1>1, <1>2, <1>3, <1>4, <1>5, <1>6, <1>7, <1>8, <1>9, <1>10, <1>11, <1>12,
       <1>13, <1>14, <1>15, <1>16, <1>17, <1>18, <1>19, <1>20, <1>21, <1>22 DEF
       ThreadSteps

LEMMA NotYetChild ==
    ASSUME StopInv, NotYet, ChildSteps \/ ChildExits, UNCHANGED clientVars
    PROVE  NotYet'
<1> USE DEF NotYet, Before, netVars, serverVars, serviceVars, threadVars,
            pipeVars, childVars, clientVars
<1>1. CASE ChildWrites
    BY <1>1 DEF ChildWrites
<1>2. CASE ChildReads
    BY <1>2 DEF ChildReads
<1>3. CASE ChildSeesEOF
    BY <1>3 DEF ChildSeesEOF, ChildEnds, CloseEnds
<1>4. CASE ChildExits
    BY <1>4 DEF ChildExits, ChildEnds, CloseEnds
<1> QED
    BY <1>1, <1>2, <1>3, <1>4 DEF ChildSteps

LEMMA NotYetClient ==
    ASSUME StopInv, NotYet, ClientSteps, UNCHANGED serverVars
    PROVE  NotYet'
<1> USE DEF NotYet, Before, netVars, serverVars, serviceVars, threadVars,
            pipeVars, childVars, clientVars
<1>1. CASE Connect
    BY <1>1 DEF Connect
<1>2. CASE ConnectFails
    BY <1>2 DEF ConnectFails
<1>3. CASE ShowReceived
    BY <1>3 DEF ShowReceived
<1>4. CASE RecvEnds
    BY <1>4 DEF RecvEnds
<1>5. CASE Type
    BY <1>5 DEF Type
<1>6. CASE SendTyped
    BY <1>6 DEF SendTyped
<1>7. CASE EndOfInput
    BY <1>7 DEF EndOfInput, StdinDone
<1>8. CASE SendFails
    BY <1>8 DEF SendFails, StdinDone
<1>9. CASE Shutdown
    BY <1>9 DEF Shutdown
<1>10. CASE Exit
    BY <1>10 DEF Exit
<1> QED
    BY <1>1, <1>2, <1>3, <1>4, <1>5, <1>6, <1>7, <1>8, <1>9, <1>10 DEF ClientSteps

LEMMA NotYetStep ==
    ASSUME StopInv, NotYet, [Next]_sshVars
    PROVE  NotYet'
<1>1. CASE ServerStep
    BY <1>1, NotYetService, NotYetHandler, NotYetThread, NotYetChild DEF ServerStep
<1>2. CASE ClientStep
    BY <1>2, NotYetClient DEF ClientStep
<1>3. CASE UNCHANGED sshVars
    BY <1>3 DEF NotYet, sshVars, netVars,
                serverVars, serviceVars, threadVars, pipeVars, childVars, clientVars
<1> QED
    BY <1>1, <1>2, <1>3 DEF Next

-----------------------------------------------------------------------------
(* The input: each part of the way holds the bytes that follow those of    *)
(* the part before it, and while the session lasts the parts hold all that *)
(* was typed.                                                              *)
InputSent == Len(eaten) + Len(inPipe) + Len(InBuf("write")) + Len(up)

InputWay ==
    /\ Follows(InBuf("write"), Len(eaten) + Len(inPipe))
    /\ Follows(up, Len(eaten) + Len(inPipe) + Len(InBuf("write")))
    /\ stdinT \in {"off", "read"} => InputSent = typed
    /\ stdinT = "send" => InputSent + 1 = typed

InputInv ==
    /\ Follows(eaten, 0) /\ Follows(inPipe, Len(eaten))
    /\ holders["inRd"] \subseteq {"child"}
    /\ child # "running" => inPipe = <<>> /\ holders["inRd"] = {}
    /\ srv \in Before \/ (srv \in Session /\ child = "running") => InputWay
    /\ stdinT = "off" => typed = 0
    /\ cmain = "off" => stdinT = "off"

LEMMA InputInit == Init => InputInv
BY DEF Init, NetInit, ServerInit, ClientInit, InputInv, InputWay, InputSent, InBuf,
   Follows, End

LEMMA InputService ==
    ASSUME StopInv, TypeInv, NotYet, InputInv, ServiceSteps \/ StopRequested, UNCHANGED clientVars
    PROVE  InputInv'
<1> USE DEF InputInv, InputWay, InputSent, InBuf, Before, Session,
            netVars, serverVars, serviceVars, threadVars,
            pipeVars, childVars, clientVars
<1>1. CASE SvcMain
    BY <1>1 DEF SvcMain, Report
<1>2. CASE SvcInit
    BY <1>2 DEF SvcInit, Report, StopInv, StopOrder
<1>3. CASE ReportRunning
    BY <1>3 DEF ReportRunning, Report
<1>4. CASE Joined
    BY <1>4 DEF Joined
<1>5. CASE ReportStopped
    BY <1>5 DEF ReportStopped, Report
<1>6. CASE StopRequested
    BY <1>6 DEF StopRequested, Report
<1> QED
    BY <1>1, <1>2, <1>3, <1>4, <1>5, <1>6 DEF ServiceSteps

LEMMA InputHandler ==
    ASSUME StopInv, TypeInv, NotYet, InputInv, HandlerSteps, UNCHANGED clientVars
    PROVE  InputInv'
<1> USE DEF InputInv, InputWay, InputSent, InBuf, Before, Session,
            netVars, serverVars, serviceVars, threadVars,
            pipeVars, childVars, clientVars
<1>1. CASE HandlerCloses
    BY <1>1 DEF HandlerCloses, CloseListen, CloseListening
<1>2. CASE HandlerRereads
    BY <1>2 DEF HandlerRereads
<1>3. CASE HandlerRereports
    BY <1>3 DEF HandlerRereports, Report
<1> QED
    BY <1>1, <1>2, <1>3 DEF HandlerSteps

LEMMA InputThread ==
    ASSUME StopInv, TypeInv, NotYet, InputInv, ThreadSteps, UNCHANGED clientVars
    PROVE  InputInv'
<1> USE DEF InputInv, InputWay, InputSent, InBuf, Before, Session,
            netVars, serverVars, serviceVars, threadVars,
            pipeVars, childVars, clientVars
<1>1. CASE OpenSocket
    BY <1>1 DEF OpenSocket
<1>2. CASE Listen
    BY <1>2 DEF Listen
<1>3. CASE ListenFails
    BY <1>3 DEF ListenFails, CloseListening
<1>4. CASE CheckStopBeforeAccept
    BY <1>4 DEF CheckStopBeforeAccept
<1>5. CASE SelectTimesOut
    BY <1>5 DEF SelectTimesOut
<1>6. CASE Accept
    BY <1>6 DEF Accept
<1>7. CASE AcceptFails
    BY <1>7 DEF AcceptFails
<1>8. CASE InitTerminal
  <2>1. /\ child = "none"
        /\ child' = "running" \/ (child' = "none" /\ holders'["inRd"] = {})
        /\ holders'["inRd"] \subseteq {"child"}
    <3>1. child = "none"
      BY <1>8 DEF InitTerminal, NotYet, Before
    <3>2. CASE ChildStarts
      <4>1. "inRd" \in End /\ "inRd" \in Inheritable
        BY DEF End, Inheritable
      <4> QED
        BY <3>1, <3>2, <4>1 DEF ChildStarts
    <3>3. CASE ChildFails
      BY <3>1, <3>3 DEF ChildFails, End
    <3> QED
      BY <1>8, <3>1, <3>2, <3>3 DEF InitTerminal
  <2>2. inPipe = <<>>
    BY <1>8 DEF InitTerminal, NotYet
  <2> QED
    BY <1>8, <2>1, <2>2 DEF InitTerminal, InputInv, InputWay, InputSent, InBuf,
       Before, Session
<1>9. CASE ErrorExit
    BY <1>9 DEF ErrorExit
<1>10. CASE CheckStop
    BY <1>10 DEF CheckStop
<1>11. CASE SelectClient
    BY <1>11 DEF SelectClient
<1>12. CASE NoOutput
    BY <1>12 DEF NoOutput, AfterOutput
<1>13. CASE ReadOutput
    BY <1>13 DEF ReadOutput
<1>14. CASE Send
    BY <1>14 DEF Send, AfterOutput
<1>15. CASE SendToNobody
    BY <1>15 DEF SendToNobody, AfterOutput
<1>16. CASE Receive
  <2> HIDE DEF InputInv, InputWay, InputSent, InBuf, Before, Session
  <2> DEFINE k == Len(eaten) + Len(inPipe)
             n == Least(RBuf - 1, Len(up))
  <2>1. /\ up \in Bytes /\ eaten \in Bytes /\ inPipe \in Bytes
        /\ RBuf - 1 \in Nat /\ RBuf - 1 > 0
    BY ServerAssumption DEF TypeInv, TypeOK, TypeMore, NetTypes, ThreadTypes, ShellTypes
  <2>2. k \in Nat /\ Len(up) \in Nat
    BY <2>1 DEF Bytes
  <2>3. up # <<>> /\ rbuf' = SubSeq(up, 1, n) /\ up' = Drop(up, n)
    BY <1>16 DEF Receive
  <2>4. n \in 1 .. Len(up)
    BY <2>1, <2>3, SplitInput
  <2>5. UNCHANGED <<eaten, inPipe, child, stdinT, typed, holders, cmain>>
    BY <1>16 DEF Receive
  <2>6. srv = "recv" /\ srv' = "write"
    BY <1>16 DEF Receive
  <2>7. ASSUME child = "running"
        PROVE  InputWay'
    <3>1. Follows(up, k) /\ InBuf("write") = <<>>
      BY <2>6, <2>7, <2>2 DEF InputInv, InputWay, Session, InBuf
    <3> HIDE DEF n, k
    <3>2. /\ Len(rbuf') = n /\ Follows(rbuf', k)
          /\ Len(up') = Len(up) - n /\ Follows(up', k + n)
      <4>1. up \in Output /\ n \in 0 .. Len(up)
        BY <2>1, <2>4, BytesAreOutput
      <4> QED
        BY <2>2, <2>3, <3>1, <4>1, FollowsParts
    <3>3. InBuf("write")' = rbuf'
      BY <2>6 DEF InBuf
    <3>4. /\ stdinT \in {"off", "read"} => k + Len(up) = typed
          /\ stdinT = "send" => k + Len(up) + 1 = typed
      BY <2>2, <2>6, <2>7, <3>1 DEF InputInv, InputWay, InputSent, Session, k
    <3>5. InputSent' = k + Len(up)
      BY <2>2, <2>4, <2>5, <3>2, <3>3 DEF InputSent, k
    <3> QED
      BY <2>5, <3>2, <3>3, <3>4, <3>5 DEF InputWay, k
  <2> QED
    BY <2>5, <2>6, <2>7 DEF InputInv, Before
<1>17. CASE ReceiveEnds
    BY <1>17 DEF ReceiveEnds
<1>18. CASE WriteInput
  <2> HIDE DEF InputInv, InputWay, InputSent, InBuf, Before, Session
  <2> DEFINE k == Len(eaten) + Len(inPipe)
  <2>1. /\ rbuf \in Bytes /\ rbuf # <<>> /\ eaten \in Bytes /\ inPipe \in Bytes /\ up \in Bytes
    BY <1>18 DEF WriteInput, TypeInv, TypeOK, TypeMore, NetTypes, ThreadTypes, ShellTypes
  <2>2. Len(eaten) \in Nat /\ Len(inPipe) \in Nat /\ Len(rbuf) \in Nat /\ Len(up) \in Nat
    BY <2>1 DEF Bytes
  <2>3. /\ inPipe' = Append(inPipe, Head(rbuf)) /\ rbuf' = Tail(rbuf)
        /\ UNCHANGED <<eaten, child, stdinT, typed, holders, cmain, up>>
        /\ srv = "write"
        /\ srv' = IF Len(rbuf) = 1 THEN "loop" ELSE "write"
    BY <1>18 DEF WriteInput
  <2>4. child = "running"
    BY <1>18 DEF WriteInput, InputInv
  <2>5. InputWay /\ InBuf("write") = rbuf
    BY <2>3, <2>4 DEF InputInv, Session, InBuf
  <2>6. Follows(rbuf, k) /\ Follows(up, k + Len(rbuf))
    BY <2>5 DEF InputWay
  <2>7. /\ Head(rbuf) = k + 1 /\ Len(Tail(rbuf)) = Len(rbuf) - 1 /\ Follows(Tail(rbuf), k + 1)
    BY <2>1, <2>2, <2>6, FollowsTail, BytesAreOutput
  <2>8. Follows(inPipe', Len(eaten)) /\ Len(inPipe') = Len(inPipe) + 1
    BY <2>1, <2>2, <2>3, <2>7, FollowsAppend, BytesAreOutput DEF InputInv
  <2>9. InBuf("write")' = Tail(rbuf)
    BY <2>1, <2>3, MoveInput DEF InBuf
  <2>10. Len(eaten)' + Len(inPipe)' = k + 1 /\ k + 1 + (Len(rbuf) - 1) = k + Len(rbuf)
    BY <2>2, <2>3, <2>8
  <2>11. InputSent' = InputSent
    BY <2>2, <2>3, <2>5, <2>7, <2>9, <2>10 DEF InputSent
  <2>12. InputWay'
    BY <2>3, <2>5, <2>6, <2>7, <2>9, <2>10, <2>11 DEF InputWay
  <2> QED
    BY <2>3, <2>4, <2>8, <2>12 DEF InputInv
<1>19. CASE WriteFails
    BY <1>19 DEF WriteFails
<1>20. CASE Cleanup
  <2>1. holders'["inRd"] = holders["inRd"]
    BY <1>20 DEF Cleanup, CloseEnds, End
  <2> QED
    BY <1>20, <2>1 DEF Cleanup
<1>21. CASE ThreadChecks
    BY <1>21 DEF ThreadChecks
<1>22. CASE ThreadCloses
    BY <1>22 DEF ThreadCloses, CloseListen, CloseListening
<1> QED
    BY <1>1, <1>2, <1>3, <1>4, <1>5, <1>6, <1>7, <1>8, <1>9, <1>10, <1>11, <1>12,
       <1>13, <1>14, <1>15, <1>16, <1>17, <1>18, <1>19, <1>20, <1>21, <1>22 DEF
       ThreadSteps

LEMMA InputChild ==
    ASSUME StopInv, TypeInv, NotYet, InputInv, ChildSteps \/ ChildExits, UNCHANGED clientVars
    PROVE  InputInv'
<1> USE DEF InputInv, InputWay, InputSent, InBuf, Before, Session,
            netVars, serverVars, serviceVars, threadVars,
            pipeVars, childVars, clientVars
<1>1. CASE ChildWrites
    BY <1>1 DEF ChildWrites
<1>2. CASE ChildReads
  <2> HIDE DEF InputInv, InputWay, InputSent, InBuf, Before, Session
  <2>1. /\ eaten \in Bytes /\ inPipe \in Bytes /\ inPipe # <<>>
    BY <1>2 DEF ChildReads, TypeInv, TypeOK, TypeMore, NetTypes, ThreadTypes, ShellTypes
  <2>2. Len(eaten) \in Nat /\ Len(inPipe) \in Nat
    BY <2>1 DEF Bytes
  <2>3. /\ eaten' = Append(eaten, Head(inPipe)) /\ inPipe' = Tail(inPipe)
        /\ UNCHANGED <<srv, rbuf, up, child, stdinT, typed, holders, cmain>>
        /\ child = "running"
    BY <1>2 DEF ChildReads
  <2>4. Follows(eaten, 0) /\ Follows(inPipe, Len(eaten))
    BY DEF InputInv
  <2>5. /\ Head(inPipe) = Len(eaten) + 1 /\ Len(Tail(inPipe)) = Len(inPipe) - 1
        /\ Follows(Tail(inPipe), Len(eaten) + 1)
    BY <2>1, <2>2, <2>4, FollowsTail, BytesAreOutput
  <2>6. Follows(eaten', 0) /\ Len(eaten') = Len(eaten) + 1
    BY <2>1, <2>2, <2>3, <2>4, <2>5, FollowsAppend, BytesAreOutput
  <2>7. Len(eaten') + Len(inPipe') = Len(eaten) + Len(inPipe)
    <3>1. Len(inPipe') = Len(inPipe) - 1
      BY <2>3, <2>5
    <3> QED
      BY <2>2, <2>6, <3>1
  <2>8. InBuf("write")' = InBuf("write")
    BY <2>3 DEF InBuf
  <2>9. InputWay => InputWay'
    BY <2>3, <2>7, <2>8 DEF InputWay, InputSent
  <2> QED
    BY <2>3, <2>5, <2>6, <2>9 DEF InputInv
<1>3. CASE ChildSeesEOF
  <2>1. holders'["inRd"] = holders["inRd"] \ {"child"}
    BY <1>3 DEF ChildSeesEOF, ChildEnds, CloseEnds, End
  <2> QED
    BY <1>3, <2>1 DEF ChildSeesEOF, ChildEnds, NotYet, Follows
<1>4. CASE ChildExits
  <2>1. holders'["inRd"] = holders["inRd"] \ {"child"}
    BY <1>4 DEF ChildExits, ChildEnds, CloseEnds, End
  <2> QED
    BY <1>4, <2>1 DEF ChildExits, ChildEnds, NotYet, Follows
<1> QED
    BY <1>1, <1>2, <1>3, <1>4 DEF ChildSteps

LEMMA InputClient ==
    ASSUME StopInv, TypeInv, NotYet, InputInv, ClientSteps, UNCHANGED serverVars
    PROVE  InputInv'
<1> USE DEF InputInv, InputWay, InputSent, InBuf, Before, Session,
            netVars, serverVars, serviceVars, threadVars,
            pipeVars, childVars, clientVars
<1>1. CASE Connect
    BY <1>1 DEF Connect
<1>2. CASE ConnectFails
    BY <1>2 DEF ConnectFails
<1>3. CASE ShowReceived
    BY <1>3 DEF ShowReceived
<1>4. CASE RecvEnds
    BY <1>4 DEF RecvEnds
<1>5. CASE Type
    BY <1>5 DEF Type
<1>6. CASE SendTyped
  <2> HIDE DEF InputInv, InputWay, InputSent, InBuf, Before, Session
  <2> DEFINE k == Len(eaten) + Len(inPipe) + Len(InBuf("write"))
  <2>1. /\ up \in Bytes /\ eaten \in Bytes /\ inPipe \in Bytes /\ rbuf \in Output
    BY DEF TypeInv, TypeOK, TypeMore, NetTypes, ThreadTypes, ShellTypes
  <2>2. k \in Nat /\ Len(up) \in Nat
    <3>1. InBuf("write") \in Output
      BY <2>1 DEF InBuf, Output
    <3> QED
      BY <2>1, <3>1 DEF Bytes, Output
  <2>3. /\ up' = Append(up, typed)
        /\ UNCHANGED <<eaten, inPipe, srv, rbuf, child, typed, holders, cmain>>
        /\ stdinT = "send" /\ stdinT' \in {"read", "done"}
    BY <1>6 DEF SendTyped, serverVars, threadVars, childVars, pipeVars
  <2>4. InBuf("write")' = InBuf("write")
    BY <2>3 DEF InBuf
  <2>5. ASSUME InputWay
        PROVE  InputWay'
    <3>1. Follows(up, k) /\ typed = k + Len(up) + 1
      BY <2>3, <2>5 DEF InputWay, InputSent
    <3>2. k' = k
      BY <2>3, <2>4
    <3> HIDE DEF k
    <3>3. Follows(up', k) /\ Len(up') = Len(up) + 1
      BY <2>1, <2>2, <2>3, <3>1, FollowsAppend, BytesAreOutput
    <3>4. InputSent' = k + Len(up) + 1
      BY <2>2, <3>2, <3>3 DEF InputSent, k
    <3> QED
      BY <2>3, <2>4, <2>5, <3>1, <3>2, <3>3, <3>4 DEF InputWay, k
  <2> QED
    BY <2>3, <2>5 DEF InputInv
<1>7. CASE EndOfInput
    BY <1>7 DEF EndOfInput, StdinDone
<1>8. CASE SendFails
    BY <1>8 DEF SendFails, StdinDone
<1>9. CASE Shutdown
    BY <1>9 DEF Shutdown
<1>10. CASE Exit
    BY <1>10 DEF Exit
<1> QED
    BY <1>1, <1>2, <1>3, <1>4, <1>5, <1>6, <1>7, <1>8, <1>9, <1>10 DEF ClientSteps

LEMMA InputStep ==
    ASSUME StopInv, TypeInv, NotYet, InputInv, [Next]_sshVars
    PROVE  InputInv'
<1>1. CASE ServerStep
    BY <1>1, InputService, InputHandler, InputThread, InputChild DEF ServerStep
<1>2. CASE ClientStep
    BY <1>2, InputClient DEF ClientStep
<1>3. CASE UNCHANGED sshVars
    BY <1>3 DEF InputInv, InputWay, InputSent, InBuf, sshVars, netVars,
                serverVars, serviceVars, threadVars, pipeVars, childVars, clientVars
<1> QED
    BY <1>1, <1>2, <1>3 DEF Next

-----------------------------------------------------------------------------
(* The output: as long as the client's end is open, each part of the way   *)
(* holds the bytes that follow, or the terminator in place of one, and the *)
(* terminators are a full buffer apart over all parts together, since the  *)
(* buffer that brings one ends with it.                                    *)
OutSent == shown \o down \o InBuf("send")

OutputWay ==
    /\ Marked(InBuf("send"), Len(shown) + Len(down))
    /\ Follows(outPipe, Len(shown) + Len(down) + Len(InBuf("send")))
    /\ Len(shown) + Len(down) + Len(InBuf("send")) + Len(outPipe) = wrote

OutputInv ==
    /\ Marked(shown, 0) /\ Spaced(shown)
    /\ ~cfin => Marked(down, Len(shown)) /\ Spaced(OutSent)
    /\ ~cfin /\ srv \in Before \cup Session => OutputWay

LEMMA OutputTypes ==
    ASSUME TypeInv
    PROVE  /\ shown \in Output /\ down \in Output /\ rbuf \in Output
           /\ outPipe \in Seq(Nat) /\ outPipe \in Output
           /\ InBuf("send") \in Output /\ wrote \in Nat
<1>1. /\ shown \in Output /\ down \in Output /\ rbuf \in Output
      /\ outPipe \in Seq(Nat) /\ wrote \in Nat
    BY DEF TypeInv, TypeOK, TypeMore, NetTypes, ThreadTypes, ShellTypes, ClientTypes
<1>2. <<>> \in Output
    BY DEF Output
<1> QED
    BY <1>1, <1>2, BytesAreOutput DEF InBuf

LEMMA OutputInit == Init => OutputInv
<1> SUFFICES ASSUME Init
             PROVE  OutputInv
    OBVIOUS
<1>1. shown = <<>> /\ down = <<>> /\ outPipe = <<>> /\ InBuf("send") = <<>> /\ wrote = 0
    BY DEF Init, NetInit, ServerInit, ClientInit, InBuf
<1>2. OutSent = <<>>
    BY <1>1 DEF OutSent
<1> QED
    BY <1>1, <1>2 DEF OutputInv, OutputWay, Marked, Follows, Spaced

LEMMA OutputService ==
    ASSUME StopInv, TypeInv, NotYet, OutputInv, ServiceSteps \/ StopRequested, UNCHANGED clientVars
    PROVE  OutputInv'
<1> USE DEF OutputInv, OutputWay, OutSent, InBuf, Before, Session,
            netVars, serverVars, serviceVars, threadVars,
            pipeVars, childVars, clientVars
<1>1. CASE SvcMain
    BY <1>1 DEF SvcMain, Report
<1>2. CASE SvcInit
    BY <1>2 DEF SvcInit, Report, StopInv, StopOrder
<1>3. CASE ReportRunning
    BY <1>3 DEF ReportRunning, Report
<1>4. CASE Joined
    BY <1>4 DEF Joined
<1>5. CASE ReportStopped
    BY <1>5 DEF ReportStopped, Report
<1>6. CASE StopRequested
    BY <1>6 DEF StopRequested, Report
<1> QED
    BY <1>1, <1>2, <1>3, <1>4, <1>5, <1>6 DEF ServiceSteps

LEMMA OutputHandler ==
    ASSUME StopInv, TypeInv, NotYet, OutputInv, HandlerSteps, UNCHANGED clientVars
    PROVE  OutputInv'
<1> USE DEF OutputInv, OutputWay, OutSent, InBuf, Before, Session,
            netVars, serverVars, serviceVars, threadVars,
            pipeVars, childVars, clientVars
<1>1. CASE HandlerCloses
    BY <1>1 DEF HandlerCloses, CloseListen, CloseListening
<1>2. CASE HandlerRereads
    BY <1>2 DEF HandlerRereads
<1>3. CASE HandlerRereports
    BY <1>3 DEF HandlerRereports, Report
<1> QED
    BY <1>1, <1>2, <1>3 DEF HandlerSteps

LEMMA OutputThread ==
    ASSUME StopInv, TypeInv, NotYet, OutputInv, ThreadSteps, UNCHANGED clientVars
    PROVE  OutputInv'
<1> USE DEF OutputInv, OutputWay, OutSent, InBuf, Before, Session,
            netVars, serverVars, serviceVars, threadVars,
            pipeVars, childVars, clientVars
<1>1. CASE OpenSocket
    BY <1>1 DEF OpenSocket
<1>2. CASE Listen
    BY <1>2 DEF Listen
<1>3. CASE ListenFails
    BY <1>3 DEF ListenFails, CloseListening
<1>4. CASE CheckStopBeforeAccept
    BY <1>4 DEF CheckStopBeforeAccept
<1>5. CASE SelectTimesOut
    BY <1>5 DEF SelectTimesOut
<1>6. CASE Accept
    BY <1>6 DEF Accept
<1>7. CASE AcceptFails
    BY <1>7 DEF AcceptFails
<1>8. CASE InitTerminal
    BY <1>8 DEF InitTerminal, ChildStarts, ChildFails, Inheritable
<1>9. CASE ErrorExit
    BY <1>9 DEF ErrorExit
<1>10. CASE CheckStop
    BY <1>10 DEF CheckStop
<1>11. CASE SelectClient
    BY <1>11 DEF SelectClient
<1>12. CASE NoOutput
    BY <1>12 DEF NoOutput, AfterOutput
<1>13. CASE ReadOutput
  <2> HIDE DEF OutputInv, OutputWay, OutSent, InBuf, Before, Session
  <2> DEFINE k == Len(shown) + Len(down)
             n == Least(RBuf, Len(outPipe))
             c == Terminated(SubSeq(outPipe, 1, n))
             s == shown \o down
  <2>1. /\ shown \in Output /\ down \in Output
        /\ outPipe \in Seq(Nat) /\ outPipe \in Output
    BY OutputTypes
  <2>2. k \in Nat /\ Len(outPipe) \in Nat
    BY <2>1 DEF Output
  <2>3. s \in Output /\ s \o <<>> = s
    BY <2>1 DEF Output
  <2>4. /\ outPipe # <<>> /\ rbuf' = c /\ outPipe' = Drop(outPipe, n)
        /\ srv = "peek" /\ srv' = "send" /\ UNCHANGED <<shown, down, cfin, wrote>>
    BY <1>13 DEF ReadOutput
  <2>5. /\ n \in 1 .. Len(outPipe) /\ c \in Output /\ Len(c) = n
        /\ \A i \in 1 .. n : c[i] = IF i = RBuf THEN Nul ELSE outPipe[i]
    BY <2>1, <2>4, Cut
  <2>6. InBuf("send") = <<>> /\ InBuf("send")' = c
    BY <2>4 DEF InBuf
  <2> HIDE DEF n, c
  <2>7. ASSUME ~cfin
        PROVE  OutputWay' /\ Spaced(OutSent)'
    <3>1. Follows(outPipe, k) /\ k + Len(outPipe) = wrote
      BY <2>2, <2>4, <2>6, <2>7 DEF OutputInv, OutputWay, Session
    <3>2. Marked(c, k)
      <4>1. \A i \in 1 .. n : i \in 1 .. Len(outPipe)
        BY <2>2, <2>5
      <4>2. \A i \in 1 .. n : outPipe[i] = k + i
        BY <3>1, <4>1 DEF Follows
      <4> HIDE DEF k
      <4> QED
        BY <2>5, <4>2 DEF Marked
    <3>3. Follows(outPipe', k + n) /\ Len(outPipe') = Len(outPipe) - n
      <4> HIDE DEF k
      <4> QED
        BY <2>1, <2>2, <2>4, <2>5, <3>1, FollowsParts
    <3>4. Len(shown') + Len(down') + Len(InBuf("send")') = k + n
      BY <2>4, <2>5, <2>6
    <3>5. k + n + (Len(outPipe) - n) = k + Len(outPipe)
      BY <2>2, <2>5
    <3>6. OutputWay'
      BY <2>4, <2>6, <3>1, <3>2, <3>3, <3>4, <3>5 DEF OutputWay
    <3>7. Spaced(s)
      BY <2>3, <2>6, <2>7 DEF OutputInv, OutSent
    <3>8. \A i \in 1 .. Len(c) : c[i] = Nul => i = RBuf
      BY <2>1, <2>5, ServerAssumption
    <3>9. OutSent' = s \o c
      BY <2>4, <2>6 DEF OutSent
    <3> HIDE DEF s
    <3>10. Spaced(s \o c)
      BY <2>3, <2>5, <3>7, <3>8, SpacedConcat
    <3> QED
      BY <3>6, <3>9, <3>10
  <2> QED
    BY <2>4, <2>7 DEF OutputInv
<1>14. CASE Send
  <2> HIDE DEF OutputInv, OutputWay, OutSent, InBuf, Before, Session
  <2> DEFINE h == Head(rbuf)
             t == Tail(rbuf)
             k == Len(shown) + Len(down)
  <2>1. /\ shown \in Output /\ down \in Output /\ outPipe \in Output /\ rbuf \in Output
    BY OutputTypes
  <2>2. Len(shown) \in Nat /\ Len(down) \in Nat /\ Len(rbuf) \in Nat /\ Len(outPipe) \in Nat
    BY <2>1 DEF Output
  <2>3. /\ down' = Append(down, h) /\ rbuf' = t
        /\ ~cfin /\ UNCHANGED <<shown, cfin, outPipe, wrote>>
        /\ srv = "send"
        /\ srv' = IF Len(rbuf) = 1 THEN AfterOutput ELSE "send"
    BY <1>14 DEF Send
  <2>4. rbuf # <<>>
    BY <2>3 DEF TypeInv, TypeMore
  <2>5. InBuf("send") = rbuf /\ InBuf("send")' = t
    BY <2>1, <2>3, <2>4, MoveOutput DEF InBuf, AfterOutput
  <2>6. Marked(down, Len(shown)) /\ Marked(rbuf, k) /\ Follows(outPipe, k + Len(rbuf))
        /\ k + Len(rbuf) + Len(outPipe) = wrote /\ Spaced(OutSent)
    BY <2>3, <2>5 DEF OutputInv, OutputWay, Session
  <2>7. h \in {k + 1, Nul} /\ t \in Output /\ Len(t) = Len(rbuf) - 1 /\ Marked(t, k + 1)
    <3>1. k \in Nat
      BY <2>2
    <3> HIDE DEF k
    <3> QED
      BY <2>1, <2>4, <2>6, <3>1, MarkedTail
  <2>8. down' \in Output /\ Len(down') = Len(down) + 1 /\ Marked(down', Len(shown))
    BY <2>1, <2>2, <2>3, <2>6, <2>7, MarkedAppend
  <2>9. OutSent' = OutSent
    <3>1. OutSent = (shown \o down) \o rbuf /\ OutSent' = (shown \o Append(down, h)) \o t
      BY <2>3, <2>5 DEF OutSent
    <3>2. (shown \o down) \o rbuf = shown \o (down \o rbuf)
      BY <2>1, ConcatAssoc
    <3>3. Append(down, h) \o t = down \o rbuf
      BY <2>1, <2>4, MoveHead
    <3>4. (shown \o Append(down, h)) \o t = shown \o (Append(down, h) \o t)
      <4> DEFINE x == Append(down, h)
      <4>1. x \in Output /\ t \in Output
        BY <2>3, <2>7, <2>8
      <4> HIDE DEF x, t
      <4>2. (shown \o x) \o t = shown \o (x \o t)
        BY <2>1, <4>1 DEF Output
      <4> QED
        BY <4>2 DEF x
    <3> QED
      BY <3>1, <3>2, <3>3, <3>4
  <2>10. Len(shown') + Len(down') = k + 1 /\ k + 1 + (Len(rbuf) - 1) = k + Len(rbuf)
    BY <2>2, <2>3, <2>8
  <2>11. OutputWay'
    BY <2>3, <2>5, <2>6, <2>7, <2>10 DEF OutputWay
  <2> QED
    BY <2>3, <2>6, <2>8, <2>9, <2>11 DEF OutputInv
<1>15. CASE SendToNobody
    BY <1>15 DEF SendToNobody, AfterOutput
<1>16. CASE Receive
    BY <1>16 DEF Receive
<1>17. CASE ReceiveEnds
    BY <1>17 DEF ReceiveEnds
<1>18. CASE WriteInput
    BY <1>18 DEF WriteInput
<1>19. CASE WriteFails
    BY <1>19 DEF WriteFails
<1>20. CASE Cleanup
    BY <1>20 DEF Cleanup, CloseEnds
<1>21. CASE ThreadChecks
    BY <1>21 DEF ThreadChecks
<1>22. CASE ThreadCloses
    BY <1>22 DEF ThreadCloses, CloseListen, CloseListening
<1> QED
    BY <1>1, <1>2, <1>3, <1>4, <1>5, <1>6, <1>7, <1>8, <1>9, <1>10, <1>11, <1>12,
       <1>13, <1>14, <1>15, <1>16, <1>17, <1>18, <1>19, <1>20, <1>21, <1>22 DEF
       ThreadSteps

LEMMA OutputChild ==
    ASSUME StopInv, TypeInv, NotYet, OutputInv, ChildSteps \/ ChildExits, UNCHANGED clientVars
    PROVE  OutputInv'
<1> USE DEF OutputInv, OutputWay, OutSent, InBuf, Before, Session,
            netVars, serverVars, serviceVars, threadVars,
            pipeVars, childVars, clientVars
<1>1. CASE ChildWrites
  <2> HIDE DEF OutputInv, OutputWay, OutSent, InBuf, Before, Session
  <2> DEFINE k == Len(shown) + Len(down) + Len(InBuf("send"))
  <2>1. UNCHANGED <<shown, down, cfin, srv, rbuf>>
    BY <1>1 DEF ChildWrites
  <2>2. InBuf("send")' = InBuf("send")
    BY <2>1 DEF InBuf
  <2>3. OutSent' = OutSent
    BY <2>1, <2>2 DEF OutSent
  <2>4. ASSUME OutputWay
        PROVE  OutputWay'
    <3>1. CASE UNCHANGED <<outPipe, wrote>>
      BY <2>1, <2>2, <2>4, <3>1 DEF OutputWay
    <3>2. CASE outPipe' = Append(outPipe, wrote + 1) /\ wrote' = wrote + 1
      <4>1. /\ outPipe \in Output /\ shown \in Output /\ down \in Output
            /\ InBuf("send") \in Output
        BY OutputTypes
      <4>2. k \in Nat /\ Len(outPipe) \in Nat
        BY <4>1 DEF Output
      <4>3. Follows(outPipe, k) /\ k + Len(outPipe) = wrote
        BY <2>4 DEF OutputWay
      <4>4. k' = k
        BY <2>1, <2>2
      <4> HIDE DEF k
      <4>5. Follows(outPipe', k) /\ Len(outPipe') = Len(outPipe) + 1
        BY <3>2, <4>1, <4>2, <4>3, FollowsAppend
      <4>6. k + Len(outPipe') = wrote'
        BY <3>2, <4>2, <4>3, <4>5
      <4> QED
        BY <2>1, <2>2, <2>4, <4>4, <4>5, <4>6 DEF OutputWay, k
    <3> QED
      BY <1>1, <3>1, <3>2 DEF ChildWrites
  <2> QED
    BY <2>1, <2>3, <2>4 DEF OutputInv
<1>2. CASE ChildReads
    BY <1>2 DEF ChildReads
<1>3. CASE ChildSeesEOF
    BY <1>3 DEF ChildSeesEOF, ChildEnds, CloseEnds
<1>4. CASE ChildExits
    BY <1>4 DEF ChildExits, ChildEnds, CloseEnds
<1> QED
    BY <1>1, <1>2, <1>3, <1>4 DEF ChildSteps

LEMMA OutputClient ==
    ASSUME StopInv, TypeInv, NotYet, OutputInv, ClientSteps, UNCHANGED serverVars
    PROVE  OutputInv'
<1> USE DEF OutputInv, OutputWay, OutSent, InBuf, Before, Session,
            netVars, serverVars, serviceVars, threadVars,
            pipeVars, childVars, clientVars
<1>1. CASE Connect
    BY <1>1 DEF Connect
<1>2. CASE ConnectFails
    BY <1>2 DEF ConnectFails
<1>3. CASE ShowReceived
  <2> HIDE DEF OutputInv, OutputWay, OutSent, InBuf, Before, Session
  <2> DEFINE b == InBuf("send")
  <2>1. shown \in Output /\ down \in Output /\ b \in Output
    BY OutputTypes
  <2>2. /\ ~cfin /\ shown' = shown \o down /\ down' = <<>>
        /\ UNCHANGED <<cfin, srv, rbuf, outPipe, wrote>>
    BY <1>3 DEF ShowReceived
  <2>3. b' = b
    BY <2>2 DEF InBuf
  <2>4. Marked(shown, 0) /\ Marked(down, Len(shown)) /\ Spaced((shown \o down) \o b)
    BY <2>2 DEF OutputInv, OutSent
  <2>5. shown' \in Output /\ Len(shown') = Len(shown) + Len(down) /\ Marked(shown', 0)
    BY <2>1, <2>2, <2>4, MarkedConcat
  <2>6. Marked(down', Len(shown')) /\ Len(down') = 0
    BY <2>2 DEF Marked
  <2>7. OutSent' = OutSent
    <3>1. shown' \o <<>> = shown'
      BY <2>5 DEF Output
    <3> QED
      BY <2>2, <2>3, <3>1 DEF OutSent
  <2>8. Spaced(shown')
    BY <2>1, <2>2, <2>4, <2>5, SpacedPrefix
  <2>9. Len(shown') + Len(down') = Len(shown) + Len(down)
    BY <2>1, <2>5, <2>6 DEF Output
  <2>10. OutputWay => OutputWay'
    BY <2>2, <2>3, <2>9 DEF OutputWay
  <2> QED
    BY <2>2, <2>4, <2>5, <2>6, <2>7, <2>8, <2>10 DEF OutputInv, OutSent
<1>4. CASE RecvEnds
    BY <1>4 DEF RecvEnds
<1>5. CASE Type
    BY <1>5 DEF Type
<1>6. CASE SendTyped
    BY <1>6 DEF SendTyped
<1>7. CASE EndOfInput
    BY <1>7 DEF EndOfInput, StdinDone
<1>8. CASE SendFails
    BY <1>8 DEF SendFails, StdinDone
<1>9. CASE Shutdown
    BY <1>9 DEF Shutdown
<1>10. CASE Exit
    BY <1>10 DEF Exit
<1> QED
    BY <1>1, <1>2, <1>3, <1>4, <1>5, <1>6, <1>7, <1>8, <1>9, <1>10 DEF ClientSteps

LEMMA OutputStep ==
    ASSUME StopInv, TypeInv, NotYet, OutputInv, [Next]_sshVars
    PROVE  OutputInv'
<1>1. CASE ServerStep
    BY <1>1, OutputService, OutputHandler, OutputThread, OutputChild DEF ServerStep
<1>2. CASE ClientStep
    BY <1>2, OutputClient DEF ClientStep
<1>3. CASE UNCHANGED sshVars
    BY <1>3 DEF OutputInv, OutputWay, OutSent, InBuf, sshVars, netVars,
                serverVars, serviceVars, threadVars, pipeVars, childVars, clientVars
<1> QED
    BY <1>1, <1>2, <1>3 DEF Next

-----------------------------------------------------------------------------
(* What the two invariants say of the concatenations.                      *)
LEMMA InputFlows ==
    ASSUME TypeInv, InputInv
    PROVE  InputAccounted
<1> DEFINE w == InBuf("write")
           a == eaten \o inPipe
           b == a \o w
           way == b \o up
<1>1. eaten \in Output /\ inPipe \in Output /\ w \in Output /\ up \in Output
  <2>1. eaten \in Output /\ inPipe \in Output /\ up \in Output /\ rbuf \in Output
    BY BytesAreOutput DEF TypeInv, TypeOK, NetTypes, ThreadTypes, ShellTypes
  <2>2. <<>> \in Output
    BY DEF Output
  <2> QED
    BY <2>1, <2>2 DEF InBuf
<1>2. Follows(eaten, 0) /\ Follows(inPipe, Len(eaten))
    BY DEF InputInv
<1> HIDE DEF w
<1>3. a \in Output /\ Len(a) = Len(eaten) + Len(inPipe) /\ Follows(a, 0)
    BY <1>1, <1>2, FollowsConcat
<1>4. FirstBytes(a)
    BY <1>3 DEF Follows, FirstBytes, Output
<1>5. ASSUME srv \in Session, child = "running"
      PROVE  FirstBytes(way) /\ (stdinT = "read" => Len(way) = typed)
  <2>1. /\ Follows(w, Len(a)) /\ Follows(up, Len(a) + Len(w))
        /\ stdinT = "read" => Len(a) + Len(w) + Len(up) = typed
    BY <1>3, <1>5 DEF InputInv, InputWay, InputSent, w
  <2> HIDE DEF a
  <2>2. b \in Output /\ Len(b) = Len(a) + Len(w) /\ Follows(b, 0)
    BY <1>1, <1>3, <2>1, FollowsConcat
  <2> HIDE DEF b
  <2>3. way \in Output /\ Len(way) = Len(b) + Len(up) /\ Follows(way, 0)
    BY <1>1, <2>1, <2>2, FollowsConcat
  <2>4. FirstBytes(way)
    BY <2>3 DEF Follows, FirstBytes, Output
  <2> QED
    BY <2>1, <2>2, <2>3, <2>4
<1> QED
    BY <1>4, <1>5 DEF InputAccounted, w

LEMMA OutputFlows ==
    ASSUME TypeInv, OutputInv
    PROVE  OutputAccounted
<1> DEFINE w == InBuf("send")
           a == shown \o down
           b == a \o w
           way == b \o outPipe
<1>1. shown \in Output /\ down \in Output /\ w \in Output /\ outPipe \in Output
    BY OutputTypes
<1> HIDE DEF w
<1>2. OutputBytes(shown)
    BY <1>1 DEF OutputInv, Marked, OutputBytes, Output
<1>3. ASSUME srv \in Session, ~cfin
      PROVE  OutputBytes(way) /\ Len(way) = wrote
  <2>1. /\ Marked(shown, 0) /\ Marked(down, Len(shown))
        /\ Marked(w, Len(shown) + Len(down))
        /\ Follows(outPipe, Len(shown) + Len(down) + Len(w))
        /\ Len(shown) + Len(down) + Len(w) + Len(outPipe) = wrote
    BY <1>3 DEF OutputInv, OutputWay, w
  <2>2. Marked(outPipe, Len(shown) + Len(down) + Len(w))
    BY <2>1 DEF Marked, Follows
  <2>3. a \in Output /\ Len(a) = Len(shown) + Len(down) /\ Marked(a, 0)
    BY <1>1, <2>1, MarkedConcat
  <2> HIDE DEF a
  <2>4. b \in Output /\ Len(b) = Len(a) + Len(w) /\ Marked(b, 0)
    BY <1>1, <2>1, <2>3, MarkedConcat
  <2> HIDE DEF b
  <2>5. way \in Output /\ Len(way) = Len(b) + Len(outPipe) /\ Marked(way, 0)
    BY <1>1, <2>2, <2>3, <2>4, MarkedConcat
  <2>6. OutputBytes(way)
    BY <2>5 DEF Marked, OutputBytes, Output
  <2> QED
    BY <2>1, <2>3, <2>4, <2>5, <2>6
<1>4. \A i, j \in 1 .. Len(shown) :
        i < j /\ shown[i] = Nul /\ shown[j] = Nul => j - i >= RBuf
    BY DEF OutputInv, Spaced
<1> QED
    BY <1>2, <1>3, <1>4 DEF OutputAccounted, w

(* Neither stream loses, doubles or reorders a byte, with buffers and      *)
(* pipes of any size: what a partial send() or WriteFile() leaves in the   *)
(* buffer follows before the buffer is used again (main.cpp:202, 276), and *)
(* only the last byte of a full buffer is overwritten (main.cpp:198).      *)
THEOREM BytesPassOnce == Spec => []StreamsAccounted
<1>1. TypeInv /\ InputInv /\ OutputInv => StreamsAccounted
    BY InputFlows, OutputFlows DEF StreamsAccounted, TypeInv
<1> QED
    BY <1>1, StopInit, StopStep, TypeInit, TypeStep, NotYetInit, NotYetStep,
       InputInit, InputStep,
       OutputInit, OutputStep, PTL DEF Spec
=============================================================================
