------------------------------ MODULE SSHSystem ------------------------------
(* The service, its terminal and one client: src/WindowsSSHServer.  A service *)
(* serves one client in its life.                                             *)
EXTENDS SSHServer, SSHClient

sshVars == <<netVars, serverVars, clientVars>>

ServerStep ==
    /\ ServiceSteps \/ StopRequested \/ HandlerSteps \/ ThreadSteps \/ ChildSteps \/ ChildExits
    /\ UNCHANGED clientVars

ClientStep == ClientSteps /\ UNCHANGED serverVars

Init == NetInit /\ ServerInit /\ ClientInit
Next == ServerStep \/ ClientStep
Spec == Init /\ [][Next]_sshVars

(* Threads are scheduled; joins and select() time out.  Nobody has to stop    *)
(* the service, to connect, to type, to end the input or to leave the shell.  *)
FairSpec ==
    /\ Spec
    /\ WF_sshVars(ServiceSteps /\ UNCHANGED clientVars)
    /\ WF_sshVars(HandlerSteps /\ UNCHANGED clientVars)
    /\ WF_sshVars(ThreadSteps /\ UNCHANGED clientVars)
    /\ WF_sshVars(ChildSteps /\ UNCHANGED clientVars)
    /\ WF_sshVars((ShowReceived \/ RecvEnds) /\ UNCHANGED serverVars)
    /\ WF_sshVars((SendTyped \/ SendFails) /\ UNCHANGED serverVars)
    /\ WF_sshVars((Shutdown \/ Exit) /\ UNCHANGED serverVars)

-----------------------------------------------------------------------------
Session == {"loop", "wait", "peek", "send", "recv", "write"}

(* The server waits for room in the child's input, and the child for room in  *)
(* its output, which only the server could make: main.cpp:279.                *)
Jammed ==
    /\ srv = "write" /\ Len(inPipe) = InBuffer
    /\ child = "running" /\ owes > 0 /\ Len(outPipe) = OutBuffer

(* The places where the server thread may stay for ever. *)
Stuck == Jammed \/ srv \in {"box", "retry"}

InBuf(place) == IF srv = place THEN rbuf ELSE <<>>
FirstBytes(s) == \A i \in 1 .. Len(s) : s[i] = i
OutputBytes(s) == \A i \in 1 .. Len(s) : s[i] \in {i, Nul}

-----------------------------------------------------------------------------
(* Type invariant. *)
Bytes == Seq(1 .. Typed)
Output == Seq(Nat \cup {Nul})
States == {"none", "START_PENDING", "RUNNING", "STOP_PENDING", "STOPPED"}

NetTypes ==
    /\ sock \in {"none", "open", "listening", "closed"}
    /\ conn \in {"none", "queued", "accepted"}
    /\ up \in Bytes /\ Len(up) <= UpBuffer
    /\ down \in Output /\ Len(down) <= DownBuffer
    /\ cfin \in BOOLEAN /\ sfin \in BOOLEAN

ServiceTypes ==
    /\ status \in States
    /\ svc \in {"off", "init", "started", "wait", "report", "done"}
    /\ hnd \in States \cup {"idle", "close", "closed"}
    /\ ghSvcStopEvent \in BOOLEAN /\ g_listenSocket \in BOOLEAN

ThreadTypes ==
    /\ srv \in Session \cup {"none", "start", "bind", "accept", "select", "terminal", "box",
                             "retry", "cleanup", "check", "close", "exited"}
    /\ ready \in BOOLEAN
    /\ rbuf \in Output /\ Len(rbuf) <= RBuf

ShellTypes ==
    /\ holders \in [End -> SUBSET {"server", "child"}]
    /\ inPipe \in Bytes /\ Len(inPipe) <= InBuffer
    /\ outPipe \in Output /\ Len(outPipe) <= OutBuffer
    /\ child \in {"none", "running", "exited"}
    /\ owes \in Nat /\ wrote \in Nat /\ eaten \in Bytes

ClientTypes ==
    /\ g_running \in BOOLEAN /\ hStop \in BOOLEAN
    /\ cmain \in {"off", "wait", "join", "exit"}
    /\ recvT \in {"off", "recv", "done"} /\ stdinT \in {"off", "read", "send", "done"}
    /\ typed \in 0 .. Typed /\ shown \in Output

TypeOK == NetTypes /\ ServiceTypes /\ ThreadTypes /\ ShellTypes /\ ClientTypes

-----------------------------------------------------------------------------
(* What is typed reaches the shell once, in its order, through the two        *)
(* buffers, the socket and the pipe; while the session lasts nothing is       *)
(* missing on the way.                                                        *)
InputAccounted ==
    LET way == eaten \o inPipe \o InBuf("write") \o up IN
    /\ FirstBytes(eaten \o inPipe)
    /\ srv \in Session /\ child = "running" =>
         FirstBytes(way) /\ (stdinT = "read" => Len(way) = typed)

(* And the shell's output the user, but for a byte in each full buffer, which *)
(* is overwritten for the log before it is sent (main.cpp:198).               *)
OutputAccounted ==
    LET way == shown \o down \o InBuf("send") \o outPipe IN
    /\ OutputBytes(shown)
    /\ srv \in Session /\ ~cfin => OutputBytes(way) /\ Len(way) = wrote
    /\ \A i, j \in 1 .. Len(shown) :
         i < j /\ shown[i] = Nul /\ shown[j] = Nul => j - i >= RBuf

(* Neither stream loses, doubles or reorders a byte. *)
StreamsAccounted == TypeOK /\ InputAccounted /\ OutputAccounted

(* When the service has reported that it stopped, its thread is gone and has  *)
(* closed the client, the listening socket and the pipes.                     *)
StoppedMeansDone ==
    status = "STOPPED" =>
        /\ srv \in {"none", "exited"}
        /\ sock \notin {"open", "listening"} /\ ~g_listenSocket
        /\ conn # "none" => sfin
        /\ \A e \in End : "server" \notin holders[e]

(* A requested stop completes, whichever of the three parties closes the      *)
(* listening socket, unless the server thread is in one of the waits that do  *)
(* not look at the event.                                                     *)
StopCompletes == ghSvcStopEvent ~> (svc = "done" \/ Stuck)

(* A session that has lost its client, or is told to stop, ends, and its      *)
(* shell with it: with the pipe ends that neither process keeps too long the  *)
(* shell sees the end of its input.                                           *)
SessionEnds ==
    (srv \in Session /\ (cfin \/ ghSvcStopEvent))
        ~> ((srv = "exited" /\ child # "running") \/ Stuck)

(* The client's process ends when the server closes, even while its user      *)
(* types nothing and the thread that reads the input stays in its read.       *)
ClientLeaves == (sfin /\ cmain # "off") ~> cmain = "exit"

(* What the shell has written is shown, whatever the user types meanwhile,    *)
(* for as long as the session and the client last: the whole banner, and all. *)
OutputArrives ==
    \A n \in {Banner, Banner + Typed} :
        (wrote >= n /\ srv \in Session)
            ~> (Len(shown) >= n \/ cfin \/ srv \notin Session \/ Stuck)
=============================================================================
