------------------------------ MODULE SSHServer ------------------------------
(* The service, SSHServer/main.cpp and executer.cpp: the thread of SvcMain,   *)
(* the control handler, the server thread, the pipes to cmd.exe and cmd.exe   *)
(* itself, as far as the pipes can tell.                                      *)
EXTENDS SSHNet, FiniteSets

CONSTANTS RBuf,      \* sizeof(rbuf)
          InBuffer, OutBuffer,  \* the bytes the two pipes hold
          Banner,    \* the bytes cmd.exe writes unasked
          Nul        \* the byte '\0'

(* rbuf has 2048 bytes (main.cpp:153); Nul is none of the numbered bytes.     *)
ASSUME ServerAssumption ==
    /\ RBuf \in Nat /\ RBuf > 1
    /\ InBuffer \in Nat /\ OutBuffer \in Nat
    /\ Banner \in Nat /\ Nul \notin Nat

VARIABLES (* the service *)
          status,    \* the state the service control manager was last told
          svc,       \* the thread of SvcMain
          hnd,       \* the control handler; at last the state it reports again
          ghSvcStopEvent,
          g_listenSocket,  \* the global: TRUE for a handle, FALSE for INVALID_SOCKET
          (* the server thread *)
          srv,       \* where it is
          ready,     \* select() found the client readable
          rbuf,      \* what is in the buffer and still to send or write
          (* the terminal *)
          holders,   \* the processes that have each end of the two pipes open
          inPipe, outPipe,
          child,     \* "none", "running", "exited"
          owes,      \* the bytes the child is about to write
          wrote,     \* the bytes it has written
          eaten      \* the bytes it has read

serviceVars == <<status, svc, hnd, ghSvcStopEvent>>
threadVars == <<srv, ready, rbuf>>
pipeVars == <<holders, inPipe, outPipe>>
childVars == <<child, owes, wrote, eaten>>
serverVars == <<serviceVars, g_listenSocket, threadVars, pipeVars, childVars>>

End == {"inRd", "inWr", "outRd", "outWr"}

ServerInit ==
    /\ status = "none" /\ svc = "off" /\ hnd = "idle"
    /\ ghSvcStopEvent = FALSE
    /\ g_listenSocket = FALSE
    /\ srv = "none" /\ ready = FALSE /\ rbuf = <<>>
    /\ holders = [e \in End |-> {}]
    /\ inPipe = <<>> /\ outPipe = <<>>
    /\ child = "none" /\ owes = 0 /\ wrote = 0 /\ eaten = <<>>

-----------------------------------------------------------------------------
(* What two threads do, once each has found the handle valid: close it and    *)
(* forget it.  To close it again, or INVALID_SOCKET, does nothing.            *)
CloseListen ==
    /\ g_listenSocket' = FALSE
    /\ IF g_listenSocket THEN CloseListening ELSE UNCHANGED netVars

(* ReportSvcStatus() *)
Report(state) == status' = state

(* SvcMain(): with no handler registered it returns, and nothing is reported. *)
SvcMain ==
    /\ svc = "off"
    /\ \/ Report("START_PENDING") /\ svc' = "init"
       \/ svc' = "done" /\ UNCHANGED status
    /\ UNCHANGED <<hnd, ghSvcStopEvent, g_listenSocket, threadVars, pipeVars,
                   childVars, netVars>>

(* SvcInit(): the stop event and the thread, or nothing. *)
SvcInit ==
    /\ svc = "init"
    /\ \/ svc' = "started" /\ srv' = "start" /\ UNCHANGED status
       \/ svc' = "done" /\ Report("STOPPED") /\ UNCHANGED srv
    /\ UNCHANGED <<hnd, ghSvcStopEvent, g_listenSocket, ready, rbuf, pipeVars,
                   childVars, netVars>>

ReportRunning ==
    /\ svc = "started"
    /\ Report("RUNNING")
    /\ svc' = "wait"
    /\ UNCHANGED <<hnd, ghSvcStopEvent, g_listenSocket, threadVars, pipeVars,
                   childVars, netVars>>

(* Mutant: the service does not wait for its thread. *)
JoinedAtOnce ==
    /\ svc = "wait" /\ ghSvcStopEvent
    /\ svc' = "report"
    /\ UNCHANGED <<status, hnd, ghSvcStopEvent, g_listenSocket, threadVars, pipeVars,
                   childVars, netVars>>

(* The stop event, and then the end of the server thread.  The listening      *)
(* socket would be closed here if it were open; the thread has closed it on   *)
(* every way to its end, so that this is left out: see StoppedMeansDone.      *)
Joined ==
    /\ svc = "wait" /\ ghSvcStopEvent
    /\ srv = "exited"
    /\ svc' = "report"
    /\ UNCHANGED <<status, hnd, ghSvcStopEvent, g_listenSocket, threadVars, pipeVars,
                   childVars, netVars>>

ReportStopped ==
    /\ svc = "report"
    /\ Report("STOPPED")
    /\ svc' = "done"
    /\ UNCHANGED <<hnd, ghSvcStopEvent, g_listenSocket, threadVars, pipeVars,
                   childVars, netVars>>

-----------------------------------------------------------------------------
(* SvcCtrlHandler().  The control manager sends SERVICE_CONTROL_STOP to a     *)
(* service that runs.                                                         *)
StopRequested ==
    /\ hnd = "idle" /\ status = "RUNNING"
    /\ Report("STOP_PENDING")
    /\ ghSvcStopEvent' = TRUE
    /\ hnd' = IF g_listenSocket THEN "close" ELSE "closed"
    /\ UNCHANGED <<svc, g_listenSocket, threadVars, pipeVars, childVars, netVars>>

HandlerCloses ==
    /\ hnd = "close"
    /\ CloseListen
    /\ hnd' = "closed"
    /\ UNCHANGED <<status, svc, ghSvcStopEvent, threadVars, pipeVars, childVars>>

(* The state is read, and reported again when it may have changed: the        *)
(* control manager can be told of a pending stop after the stop.              *)
HandlerRereads ==
    /\ hnd = "closed"
    /\ hnd' = status
    /\ UNCHANGED <<status, svc, ghSvcStopEvent, g_listenSocket, threadVars, pipeVars,
                   childVars, netVars>>

HandlerRereports ==
    /\ hnd \in {"STOP_PENDING", "STOPPED"}
    /\ Report(hnd)
    /\ hnd' = "idle"
    /\ UNCHANGED <<svc, ghSvcStopEvent, g_listenSocket, threadVars, pipeVars, childVars,
                   netVars>>

-----------------------------------------------------------------------------
(* TcpServerThread() up to the session. *)
OpenSocket ==
    /\ srv = "start"
    /\ \/ sock' = "open" /\ g_listenSocket' = TRUE /\ srv' = "bind"
       \/ srv' = "exited" /\ UNCHANGED <<sock, g_listenSocket>>
    /\ UNCHANGED <<conn, up, down, cfin, sfin, serviceVars, ready, rbuf, pipeVars, childVars>>

(* bind() and listen() *)
Listen ==
    /\ srv = "bind"
    /\ sock = "open" /\ g_listenSocket
    /\ sock' = "listening"
    /\ srv' = "accept"
    /\ UNCHANGED <<conn, up, down, cfin, sfin, serviceVars, g_listenSocket, ready, rbuf,
                   pipeVars, childVars>>

(* The port is taken, or the handler has closed the socket. *)
ListenFails ==
    /\ srv = "bind"
    /\ CloseListening
    /\ g_listenSocket' = FALSE
    /\ srv' = "exited"
    /\ UNCHANGED <<serviceVars, ready, rbuf, pipeVars, childVars>>

(* The accept loop: the stop event, then select() for a second. *)
CheckStopBeforeAccept ==
    /\ srv = "accept"
    /\ srv' = IF ghSvcStopEvent THEN "check" ELSE "select"
    /\ UNCHANGED <<netVars, serviceVars, g_listenSocket, ready, rbuf, pipeVars, childVars>>

SelectTimesOut ==
    /\ srv = "select"
    /\ sock = "listening" /\ conn = "none"
    /\ srv' = "accept"
    /\ UNCHANGED <<netVars, serviceVars, g_listenSocket, ready, rbuf, pipeVars, childVars>>

Accept ==
    /\ srv = "select"
    /\ sock = "listening" /\ g_listenSocket /\ conn = "queued"
    /\ conn' = "accepted"
    /\ srv' = "terminal"
    /\ UNCHANGED <<sock, up, down, cfin, sfin, serviceVars, g_listenSocket, ready, rbuf,
                   pipeVars, childVars>>

(* select() or accept() fails on a socket that the handler has closed. *)
AcceptFails ==
    /\ srv = "select"
    /\ sock = "closed" \/ ~g_listenSocket
    /\ srv' = "check"
    /\ UNCHANGED <<netVars, serviceVars, g_listenSocket, ready, rbuf, pipeVars, childVars>>

-----------------------------------------------------------------------------
(* Mutant: the child inherits the server's end of its input, too. *)
InheritableInput == End \ {"outRd"}

(* InitTerminal().  CreatePipe() makes both ends inheritable and              *)
(* SetHandleInformation() takes that from the two the server keeps.           *)
Inheritable == End \ {"outRd", "inWr"}

(* CreateChild() *)
ChildStarts ==
    /\ holders' = [e \in End |-> IF e \in Inheritable THEN {"child"} ELSE {"server"}]
    /\ child' = "running"
    /\ owes' = Banner

(* CreateProcess() fails: the same handles are closed, the session goes on.   *)
ChildFails ==
    /\ holders' = [e \in End |-> IF e \in {"outRd", "inWr"} THEN {"server"} ELSE {}]
    /\ UNCHANGED <<child, owes>>

InitTerminal ==
    /\ srv = "terminal"
    /\ ChildStarts \/ ChildFails
    /\ srv' = "loop"
    /\ UNCHANGED <<netVars, serviceVars, g_listenSocket, ready, rbuf, inPipe, outPipe,
                   wrote, eaten>>

(* ErrorExit(): the thread waits at a message box that nobody sees. *)
ErrorExit ==
    /\ srv = "terminal"
    /\ srv' = "box"
    /\ UNCHANGED <<netVars, serviceVars, g_listenSocket, ready, rbuf, pipeVars, childVars>>

-----------------------------------------------------------------------------
(* Mutant: the session does not look at the stop event. *)
CheckStopNot ==
    /\ srv = "loop"
    /\ srv' = "wait"
    /\ UNCHANGED <<netVars, serviceVars, g_listenSocket, ready, rbuf, pipeVars, childVars>>

(* The session, round by round.  First the stop event. *)
CheckStop ==
    /\ srv = "loop"
    /\ srv' = IF ghSvcStopEvent THEN "cleanup" ELSE "wait"
    /\ UNCHANGED <<netVars, serviceVars, g_listenSocket, ready, rbuf, pipeVars, childVars>>

(* select() on the client, for a second. *)
SelectClient ==
    /\ srv = "wait"
    /\ ready' = (up # <<>> \/ cfin)
    /\ srv' = "peek"
    /\ UNCHANGED <<netVars, serviceVars, g_listenSocket, rbuf, pipeVars, childVars>>

AfterOutput == IF ready THEN "recv" ELSE "loop"

(* Mutant: the output is not looked at in a round without input. *)
NoOutputUnlessReady ==
    /\ srv = "peek"
    /\ outPipe = <<>> \/ ~ready
    /\ srv' = AfterOutput
    /\ UNCHANGED <<netVars, serviceVars, g_listenSocket, ready, rbuf, pipeVars, childVars>>

(* PeekNamedPipe() finds nothing, or fails on a pipe whose writer has gone. *)
NoOutput ==
    /\ srv = "peek"
    /\ outPipe = <<>>
    /\ srv' = AfterOutput
    /\ UNCHANGED <<netVars, serviceVars, g_listenSocket, ready, rbuf, pipeVars, childVars>>

(* What is logged is terminated in the buffer that is sent afterwards: the    *)
(* last byte of a full one becomes '\0'.                                      *)
Terminated(bytes) == IF Len(bytes) < RBuf THEN bytes ELSE [bytes EXCEPT ![RBuf] = Nul]

ReadOutput ==
    LET n == Least(RBuf, Len(outPipe)) IN
    /\ srv = "peek"
    /\ outPipe # <<>>
    /\ rbuf' = Terminated(SubSeq(outPipe, 1, n))
    /\ outPipe' = Drop(outPipe, n)
    /\ srv' = "send"
    /\ UNCHANGED <<netVars, serviceVars, g_listenSocket, ready, holders, inPipe, childVars>>

(* send() takes what the socket has room for, and the loop the rest. *)
Send ==
    /\ srv = "send"
    /\ ~cfin /\ Len(down) < DownBuffer
    /\ down' = Append(down, Head(rbuf))
    /\ rbuf' = Tail(rbuf)
    /\ srv' = IF Len(rbuf) = 1 THEN AfterOutput ELSE "send"
    /\ UNCHANGED <<sock, conn, up, cfin, sfin, serviceVars, g_listenSocket, ready,
                   pipeVars, childVars>>

(* The client's end is shut: the bytes are lost, or send() fails and the      *)
(* session ends, or it fails with an error the code does not know, like       *)
(* WSAECONNABORTED, and is tried again for ever.                              *)
SendToNobody ==
    /\ srv = "send"
    /\ cfin
    /\ rbuf' = <<>>
    /\ srv' \in {AfterOutput, "cleanup", "retry"}
    /\ UNCHANGED <<netVars, serviceVars, g_listenSocket, ready, pipeVars, childVars>>

(* recv() leaves room for a '\0' in the buffer.  (ready is a variable of the  *)
(* round: it is forgotten once it has been used.)                             *)
Receive ==
    LET n == Least(RBuf - 1, Len(up)) IN
    /\ srv = "recv" /\ up # <<>>
    /\ rbuf' = SubSeq(up, 1, n)
    /\ up' = Drop(up, n)
    /\ srv' = "write"
    /\ ready' = FALSE
    /\ UNCHANGED <<sock, conn, down, cfin, sfin, serviceVars, g_listenSocket,
                   pipeVars, childVars>>

(* recv() returns 0, or an error when the end of the client was a reset. *)
ReceiveEnds ==
    /\ srv = "recv" /\ cfin
    /\ srv' = "cleanup"
    /\ UNCHANGED <<netVars, serviceVars, g_listenSocket, ready, rbuf, pipeVars, childVars>>

(* Mutant: what a partial write has left over is forgotten. *)
WriteInputOnce ==
    /\ srv = "write"
    /\ holders["inRd"] # {} /\ Len(inPipe) < InBuffer
    /\ inPipe' = Append(inPipe, Head(rbuf))
    /\ rbuf' = <<>>
    /\ srv' = "loop"
    /\ UNCHANGED <<netVars, serviceVars, g_listenSocket, ready, holders, outPipe,
                   childVars>>

(* WriteFile() waits for room in the pipe, and the stop event is not looked   *)
(* at meanwhile.                                                              *)
WriteInput ==
    /\ srv = "write"
    /\ holders["inRd"] # {} /\ Len(inPipe) < InBuffer
    /\ inPipe' = Append(inPipe, Head(rbuf))
    /\ rbuf' = Tail(rbuf)
    /\ srv' = IF Len(rbuf) = 1 THEN "loop" ELSE "write"
    /\ UNCHANGED <<netVars, serviceVars, g_listenSocket, ready, holders, outPipe,
                   childVars>>

WriteFails ==
    /\ srv = "write"
    /\ holders["inRd"] = {}
    /\ rbuf' = <<>>
    /\ srv' = "cleanup"
    /\ UNCHANGED <<netVars, serviceVars, g_listenSocket, ready, pipeVars, childVars>>

(* cleanup: the two pipe handles, with what nobody can read any more, and the *)
(* client's socket; then the listening socket is looked at.                   *)
CloseEnds(p, ends) ==
    holders' = [e \in End |-> IF e \in ends THEN holders[e] \ {p} ELSE holders[e]]

Cleanup ==
    /\ srv = "cleanup"
    /\ CloseEnds("server", {"inWr", "outRd"})
    /\ outPipe' = <<>>
    /\ sfin' = TRUE
    /\ srv' = IF g_listenSocket THEN "close" ELSE "exited"
    /\ ready' = FALSE
    /\ UNCHANGED <<sock, conn, up, down, cfin, serviceVars, g_listenSocket, rbuf,
                   inPipe, childVars>>

(* The end of the thread without a session. *)
ThreadChecks ==
    /\ srv = "check"
    /\ srv' = IF g_listenSocket THEN "close" ELSE "exited"
    /\ UNCHANGED <<netVars, serviceVars, g_listenSocket, ready, rbuf, pipeVars, childVars>>

ThreadCloses ==
    /\ srv = "close"
    /\ CloseListen
    /\ srv' = "exited"
    /\ UNCHANGED <<serviceVars, ready, rbuf, pipeVars, childVars>>

-----------------------------------------------------------------------------
(* cmd.exe: it writes its banner and an answer to each byte it reads, or      *)
(* nowhere when nobody reads; it ends at the end of its input, or at `exit'.  *)
ChildWrites ==
    /\ child = "running" /\ owes > 0
    /\ holders["outRd"] = {} \/ Len(outPipe) < OutBuffer
    /\ owes' = owes - 1
    /\ IF holders["outRd"] = {}
       THEN UNCHANGED <<outPipe, wrote>>
       ELSE outPipe' = Append(outPipe, wrote + 1) /\ wrote' = wrote + 1
    /\ UNCHANGED <<netVars, serviceVars, g_listenSocket, threadVars, holders, inPipe,
                   child, eaten>>

ChildReads ==
    /\ child = "running" /\ owes = 0
    /\ inPipe # <<>>
    /\ eaten' = Append(eaten, Head(inPipe))
    /\ inPipe' = Tail(inPipe)
    /\ owes' = 1
    /\ UNCHANGED <<netVars, serviceVars, g_listenSocket, threadVars, holders, outPipe,
                   child, wrote>>

ChildEnds ==
    /\ child' = "exited"
    /\ CloseEnds("child", End)
    /\ inPipe' = <<>>
    /\ owes' = 0
    /\ UNCHANGED <<netVars, serviceVars, g_listenSocket, threadVars, outPipe, wrote, eaten>>

ChildSeesEOF ==
    /\ child = "running" /\ owes = 0
    /\ inPipe = <<>> /\ holders["inWr"] = {}
    /\ ChildEnds

ChildExits == child = "running" /\ ChildEnds

-----------------------------------------------------------------------------
ServiceSteps ==
    SvcMain \/ SvcInit \/ ReportRunning \/ Joined \/ ReportStopped
HandlerSteps ==
    HandlerCloses \/ HandlerRereads \/ HandlerRereports
ThreadSteps ==
    \/ OpenSocket \/ Listen \/ ListenFails \/ CheckStopBeforeAccept \/ SelectTimesOut
    \/ Accept \/ AcceptFails \/ InitTerminal \/ ErrorExit \/ CheckStop \/ SelectClient
    \/ NoOutput \/ ReadOutput \/ Send \/ SendToNobody \/ Receive \/ ReceiveEnds
    \/ WriteInput \/ WriteFails \/ Cleanup
    \/ ThreadChecks \/ ThreadCloses
ChildSteps == ChildWrites \/ ChildReads \/ ChildSeesEOF
=============================================================================
