------------------------------- MODULE TcpEcho -------------------------------
(***************************************************************************)
(* TCP connections between tcp_client_echo() and _handle_client()          *)
(* (sockets/tcp_udp.py).  A connection is a stream of bytes in each        *)
(* direction, and a byte is only counted: sent by the client, taken by the *)
(* handler, echoed by it, received by the client.  The kernels hold up to  *)
(* Window bytes per direction.                                             *)
(***************************************************************************)
EXTENDS EchoServer

CONSTANTS
  Clients,
  Payloads,     \* the lengths of the clients' payloads, by client
  BufSize,      \* BUFFER_SIZE
  Window        \* bytes in the kernels' buffers, per direction

ASSUME StreamAssumption ==
  /\ Payloads \subseteq [Clients -> Nat]
  /\ BufSize \in Nat \ {0} /\ Window \in Nat \ {0}

VARIABLES
  payload,                          \* the length of each client's payload
  client,                           \* where each client is
  conn,                             \* the server's end of each connection
  handler,                          \* where each handler thread is
  sent, taken, echoed, received     \* bytes, by client

clientVars == <<payload, client, received>>
tcpVars    == <<conn, handler, sent, taken, echoed>>

Over(c)    == client[c] \in {"returned", "raised"}
Handled(c) == handler[c] \in {"recv", "send"}
Lesser(a, b) == IF a <= b THEN a ELSE b

ClientInit ==
  /\ payload \in Payloads
  /\ client = [c \in Clients |-> "idle"] /\ received = [c \in Clients |-> 0]

TcpInit ==
  /\ conn = [c \in Clients |-> "none"] /\ handler = [c \in Clients |-> "none"]
  /\ sent = [c \in Clients |-> 0]
  /\ taken = [c \in Clients |-> 0] /\ echoed = [c \in Clients |-> 0]

ClientGoto(c, pc) == client' = [client EXCEPT ![c] = pc]

-----------------------------------------------------------------------------
\* Variants, as a careless change would leave them.

ClientFailsNoTimeout(c) ==
  /\ client[c] = "idle" /\ ClientGoto(c, "raised")
  /\ UNCHANGED <<serverVars, tcpVars, payload, received>>

HandlerPutOnce(c) ==
  /\ handler[c] = "send" /\ echoed[c] - received[c] < Window
  /\ echoed' = [echoed EXCEPT ![c] = @ + 1]
  /\ handler' = [handler EXCEPT ![c] = "recv"]
  /\ UNCHANGED <<serverVars, clientVars, conn, sent, taken>>

HandlerEndsByError(c) ==
  /\ handler[c] = "send" /\ Over(c)
  /\ handler' = [handler EXCEPT ![c] = "done"] /\ conn' = [conn EXCEPT ![c] = "fin"]
  /\ UNCHANGED <<serverVars, clientVars, sent, taken, echoed>>

HandlerEndsOnStop(c) ==
  /\ Handled(c) /\ (Over(c) \/ stop)
  /\ handler' = [handler EXCEPT ![c] = "done"] /\ conn' = [conn EXCEPT ![c] = "fin"]
  /\ UNCHANGED <<serverVars, clientVars, sent, taken, echoed>>

-----------------------------------------------------------------------------
\* The client.

\* The kernel accepts the connection, into the queue of the listening socket.
Connect(c) ==
  /\ client[c] = "idle" /\ sock # 0 /\ Bound(sock)
  /\ ClientGoto(c, "send") /\ conn' = [conn EXCEPT ![c] = "queued"]
  /\ UNCHANGED <<serverVars, payload, received, handler, sent, taken, echoed>>

\* sendall(): the kernel takes as many bytes as it has room for.
ClientSend(c) ==
  /\ client[c] = "send" /\ sent[c] < payload[c] /\ sent[c] - taken[c] < Window
  /\ sent' = [sent EXCEPT ![c] = @ + 1]
  /\ UNCHANGED <<serverVars, clientVars, conn, handler, taken, echoed>>

ClientSent(c) ==
  /\ client[c] = "send" /\ sent[c] = payload[c] /\ ClientGoto(c, "recv")
  /\ UNCHANGED <<serverVars, tcpVars, payload, received>>

ClientReceive(c) ==
  /\ client[c] = "recv" /\ received[c] < echoed[c]
  /\ received' = [received EXCEPT ![c] = @ + 1]
  /\ UNCHANGED <<serverVars, tcpVars, payload, client>>

\* All bytes came back, or the server has closed the connection.
ClientReturn(c) ==
  /\ client[c] = "recv"
  /\ received[c] = payload[c] \/ (received[c] = echoed[c] /\ conn[c] = "fin")
  /\ ClientGoto(c, "returned")
  /\ UNCHANGED <<serverVars, tcpVars, payload, received>>

\* The connection is refused or reset, or a call has taken five seconds.
ClientFails(c) ==
  /\ \/ client[c] = "idle"
     \/ client[c] = "send" /\ sent[c] < payload[c]
     \/ client[c] = "recv" /\ received[c] < payload[c]
  /\ ClientGoto(c, "raised")
  /\ UNCHANGED <<serverVars, tcpVars, payload, received>>

-----------------------------------------------------------------------------
\* The server.

Accept(t, c) ==
  /\ conn[c] = "queued" /\ ServeReads(t, "check")
  /\ conn' = [conn EXCEPT ![c] = "accepted"]
  /\ handler' = [handler EXCEPT ![c] = "recv"]
  /\ UNCHANGED <<clientVars, sent, taken, echoed>>

\* The handler's thread does not start: nobody catches the exception, and the
\* connection is closed with the last reference to it.
AcceptFails(t, c) ==
  /\ conn[c] = "queued" /\ ServeReads(t, "broken")
  /\ conn' = [conn EXCEPT ![c] = IF sent[c] = 0 THEN "fin" ELSE "reset"]
  /\ UNCHANGED <<clientVars, handler, sent, taken, echoed>>

HandlerTake(c) ==
  /\ handler[c] = "recv" /\ taken[c] < sent[c]
  /\ \E n \in 1..Lesser(BufSize, sent[c] - taken[c]) :
       taken' = [taken EXCEPT ![c] = @ + n]
  /\ handler' = [handler EXCEPT ![c] = "send"]
  /\ UNCHANGED <<serverVars, clientVars, conn, sent, echoed>>

\* sendall() returns with the last byte.
HandlerPut(c) ==
  /\ handler[c] = "send" /\ echoed[c] - received[c] < Window
  /\ echoed' = [echoed EXCEPT ![c] = @ + 1]
  /\ handler' = [handler EXCEPT ![c] = IF echoed'[c] = taken[c] THEN "recv" ELSE "send"]
  /\ UNCHANGED <<serverVars, clientVars, conn, sent, taken>>

\* recv() finds the end of the stream, or either call fails: only after the
\* client has closed its socket.  Nothing here depends on stop().
HandlerEnds(c) ==
  /\ Handled(c) /\ Over(c)
  /\ handler' = [handler EXCEPT ![c] = "done"] /\ conn' = [conn EXCEPT ![c] = "fin"]
  /\ UNCHANGED <<serverVars, clientVars, sent, taken, echoed>>

\* close() resets the connections that nobody has accepted.
TcpClose ==
  /\ Close
  /\ conn' = [c \in Clients |-> IF conn[c] = "queued" THEN "reset" ELSE conn[c]]
  /\ UNCHANGED <<clientVars, handler, sent, taken, echoed>>

\* The end of the process also closes the handlers' connections, and a close
\* with bytes unread is a reset.
TcpExit ==
  /\ Exit
  /\ handler' = [c \in Clients |-> IF Handled(c) THEN "done" ELSE handler[c]]
  /\ conn' = [c \in Clients |->
                IF conn[c] = "queued" \/ (Handled(c) /\ taken[c] < sent[c]) THEN "reset"
                ELSE IF Handled(c) THEN "fin" ELSE conn[c]]
  /\ UNCHANGED <<clientVars, sent, taken, echoed>>

TcpServe(t)  == \E c \in Clients : Accept(t, c) \/ AcceptFails(t, c)
TcpClient(c) == ClientSend(c) \/ ClientSent(c) \/ ClientReceive(c)
                  \/ ClientReturn(c)
Handler(c)   == HandlerTake(c) \/ HandlerPut(c) \/ HandlerEnds(c)

ClientTypeOK ==
  /\ payload \in [Clients -> Nat] /\ received \in [Clients -> Nat]
  /\ client \in [Clients -> {"idle", "send", "recv", "returned", "raised"}]

TcpTypeOK ==
  /\ conn \in [Clients -> {"none", "queued", "accepted", "fin", "reset"}]
  /\ handler \in [Clients -> {"none", "recv", "send", "done"}]
  /\ sent \in [Clients -> Nat] /\ taken \in [Clients -> Nat]
  /\ echoed \in [Clients -> Nat]
=============================================================================
