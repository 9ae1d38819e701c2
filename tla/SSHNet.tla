------------------------------- MODULE SSHNet -------------------------------
(* What the client and the server of src/WindowsSSHServer share: one TCP      *)
(* connection to the server's listening socket.  Sockets are the system's,    *)
(* and modelled by what both programs see of them.                            *)
(*                                                                            *)
(* Bytes are numbered in the order in which they are typed, and those of the  *)
(* child's output in the order in which it writes them.                       *)
EXTENDS Naturals, Sequences, SequencesExt

CONSTANTS UpBuffer, DownBuffer  \* the bytes a connection holds in each direction

ASSUME ConnectionAssumption == UpBuffer \in Nat /\ DownBuffer \in Nat

VARIABLES sock,    \* the listening socket: "none", "open", "listening", "closed"
          conn,    \* the connection: "none", "queued", "accepted"
          up,      \* what the client has sent and the server not received
          down,    \* what the server has sent and the client not received
          cfin,    \* the client has shut down its end
          sfin     \* the server has closed its end

netVars == <<sock, conn, up, down, cfin, sfin>>

NetInit ==
    /\ sock = "none" /\ conn = "none"
    /\ up = <<>> /\ down = <<>>
    /\ cfin = FALSE /\ sfin = FALSE

(* closesocket() of the listening socket, or of one closed before: a client   *)
(* that is in the queue is turned away.                                       *)
CloseListening ==
    /\ sock' = "closed"
    /\ sfin' = (sfin \/ conn = "queued")
    /\ UNCHANGED <<conn, up, down, cfin>>

Drop(s, n) == SubSeq(s, n + 1, Len(s))
Least(m, n) == IF m < n THEN m ELSE n
=============================================================================
