------------------------------ MODULE SSHClient ------------------------------
(* The client, SSHClient/main.cpp: its main thread, the thread that shows     *)
(* what the server sends and the thread that sends what the user types.       *)
EXTENDS SSHNet

CONSTANTS Typed   \* the lines the user may type, a byte each

ASSUME TypedAssumption == Typed \in Nat

VARIABLES g_running,
          hStop,    \* the event
          cmain,    \* the main thread: "off", "wait", "join", "exit"
          recvT,    \* RecvThreadProc: "off", "recv", "done"
          stdinT,   \* StdinThreadProc: "off", "read", "send", "done"
          typed,    \* the lines typed
          shown     \* the bytes written to standard output

clientVars == <<g_running, hStop, cmain, recvT, stdinT, typed, shown>>

ClientInit ==
    /\ g_running = TRUE /\ hStop = FALSE
    /\ cmain = "off" /\ recvT = "off" /\ stdinT = "off"
    /\ typed = 0 /\ shown = <<>>

(* main() up to its wait: a connection and the two threads. *)
Connect ==
    /\ cmain = "off"
    /\ sock = "listening"
    /\ conn' = "queued"
    /\ cmain' = "wait" /\ recvT' = "recv" /\ stdinT' = "read"
    /\ UNCHANGED <<sock, up, down, cfin, sfin, g_running, hStop, typed, shown>>

(* Nobody listens. *)
ConnectFails ==
    /\ cmain = "off"
    /\ sock # "listening"
    /\ cmain' = "exit"
    /\ UNCHANGED <<netVars, g_running, hStop, recvT, stdinT, typed, shown>>

-----------------------------------------------------------------------------
(* recv() returns what has arrived; it is written out. *)
ShowReceived ==
    /\ recvT = "recv" /\ ~cfin
    /\ down # <<>>
    /\ shown' = shown \o down
    /\ down' = <<>>
    /\ recvT' = IF g_running THEN "recv" ELSE "done"
    /\ hStop' = (hStop \/ ~g_running)
    /\ UNCHANGED <<sock, conn, up, cfin, sfin, g_running, cmain, stdinT, typed>>

(* recv() returns 0 or an error: the server has closed, with bytes from here  *)
(* unread it has reset the connection, or the socket is shut down.            *)
RecvEnds ==
    /\ recvT = "recv"
    /\ \/ sfin /\ down = <<>>
       \/ sfin /\ up # <<>>
       \/ cfin
    /\ recvT' = "done"
    /\ hStop' = TRUE
    /\ UNCHANGED <<netVars, g_running, cmain, stdinT, typed, shown>>

-----------------------------------------------------------------------------
(* ReadConsoleA() or ReadFile() returns a line. *)
Type ==
    /\ stdinT = "read" /\ typed < Typed
    /\ typed' = typed + 1
    /\ stdinT' = "send"
    /\ UNCHANGED <<netVars, g_running, hStop, cmain, recvT, shown>>

(* send(), and the test of g_running at the head of the loop. *)
SendTyped ==
    /\ stdinT = "send" /\ ~cfin /\ ~sfin
    /\ Len(up) < UpBuffer
    /\ up' = Append(up, typed)
    /\ stdinT' = IF g_running THEN "read" ELSE "done"
    /\ hStop' = (hStop \/ ~g_running)
    /\ UNCHANGED <<sock, conn, down, cfin, sfin, g_running, cmain, recvT, typed, shown>>

StdinDone ==
    /\ stdinT' = "done"
    /\ hStop' = TRUE
    /\ UNCHANGED <<netVars, g_running, cmain, recvT, typed, shown>>

EndOfInput == stdinT = "read" /\ StdinDone
SendFails == stdinT = "send" /\ (cfin \/ sfin) /\ StdinDone

-----------------------------------------------------------------------------
(* The event, or the end of the receiving thread, ends the wait; shutdown()   *)
(* follows, and what arrives is not received any more.                        *)
Shutdown ==
    /\ cmain = "wait"
    /\ hStop \/ recvT = "done"
    /\ g_running' = FALSE
    /\ cfin' = TRUE
    /\ down' = <<>>
    /\ cmain' = "join"
    /\ UNCHANGED <<sock, conn, up, sfin, hStop, recvT, stdinT, typed, shown>>

(* Mutant: the thread that reads the input is waited for. *)
ExitAfterInput ==
    /\ cmain = "join" /\ stdinT = "done"
    /\ cmain' = "exit" /\ recvT' = "done"
    /\ UNCHANGED <<netVars, g_running, hStop, stdinT, typed, shown>>

(* Each join waits two seconds at most: a thread that is still in its read or *)
(* recv() ends with the process.                                              *)
Exit ==
    /\ cmain = "join"
    /\ cmain' = "exit" /\ recvT' = "done" /\ stdinT' = "done"
    /\ UNCHANGED <<netVars, g_running, hStop, typed, shown>>

ClientSteps ==
    Connect \/ ConnectFails \/ ShowReceived \/ RecvEnds \/ Type \/ SendTyped
    \/ EndOfInput \/ SendFails \/ Shutdown \/ Exit
=============================================================================
