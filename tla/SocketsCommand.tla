--------------------------- MODULE SocketsCommand ---------------------------
(***************************************************************************)
(* The sockets command (main.py, cmd_sockets): a server of one of the two  *)
(* kinds, and clients of the same kind in processes of their own.          *)
(***************************************************************************)
EXTENDS UdpEcho

VARIABLE role       \* args.role: "tcp" or "udp"

vars == <<serverVars, clientVars, tcpVars, udpVars, role>>

Init ==
  /\ ServerInit /\ ClientInit /\ TcpInit /\ UdpInit
  /\ role \in {"tcp", "udp"}

-----------------------------------------------------------------------------
Owner ==
  /\ \/ OwnerStep /\ UNCHANGED <<clientVars, tcpVars>>
     \/ role = "tcp" /\ (TcpClose \/ TcpExit)
     \/ role = "udp" /\ (Close \/ Exit) /\ UNCHANGED <<clientVars, tcpVars>>
  /\ UNCHANGED <<udpVars, role>>

Serve(t) ==
  \/ ServeLoop(t) /\ UNCHANGED <<clientVars, tcpVars, udpVars, role>>
  \/ role = "tcp" /\ TcpServe(t) /\ UNCHANGED <<udpVars, role>>
  \/ role = "udp" /\ UdpServe(t) /\ UNCHANGED <<tcpVars, role>>

Handle(c) == role = "tcp" /\ Handler(c) /\ UNCHANGED <<udpVars, role>>

\* A client begins when it likes, or never.
Begin(c) ==
  \/ role = "tcp" /\ Connect(c) /\ UNCHANGED <<udpVars, role>>
  \/ role = "udp" /\ UdpSend(c) /\ UNCHANGED <<tcpVars, role>>

Client(c) ==
  \/ role = "tcp" /\ (TcpClient(c) \/ ClientFails(c)) /\ UNCHANGED <<udpVars, role>>
  \/ /\ role = "udp" /\ (UdpClientReceive(c) \/ UdpClientFails(c))
     /\ UNCHANGED <<tcpVars, role>>

Finished ==
  /\ owner = "exited" /\ \A c \in Clients : Over(c) /\ ~Handled(c)
  /\ UNCHANGED vars

Next ==
  \/ Owner \/ Finished
  \/ \E t \in Starts : Serve(t)
  \/ \E c \in Clients : Handle(c) \/ Begin(c) \/ Client(c)

Spec == Init /\ [][Next]_vars

\* A call that may never come back: one without a timeout, unless it is accept()
\* on a socket that does not listen, which fails at once.
Blocked(t) ==
  serve[t] = "block" /\ ~(role = "tcp" /\ socket[waitsOn[t]] = "new")

\* Every thread is scheduled, and every call with a timeout comes back.
\* Nobody is obliged to call start() or stop(), to connect, or to exit.
Fairness ==
  /\ \A t \in Starts : WF_vars(~Blocked(t) /\ Serve(t))
  /\ \A c \in Clients :
       /\ WF_vars(Handle(c))
       /\ WF_vars(client[c] # "idle" /\ Client(c))

FairSpec == Spec /\ Fairness

-----------------------------------------------------------------------------
TypeOK ==
  /\ ServerTypeOK /\ ClientTypeOK /\ TcpTypeOK /\ UdpTypeOK
  /\ role \in {"tcp", "udp"}

\* tcp_client_echo() returns with fewer bytes than it sent only if the server's
\* process ended or never gave the connection a thread: a stop() in the middle
\* of a transfer cuts nothing off, since handlers do not look at _stop
\* (tcp_udp.py:58-67, 125-129; the tests compare the two numbers).
EchoComplete ==
  \A c \in Clients :
    role = "tcp" /\ client[c] = "returned" /\ received[c] # payload[c] =>
      owner = "exited" \/ handler[c] = "none"

\* The client and its handler wait for each other, and neither can move.
Stalled(c) ==
  /\ Handled(c)
  /\ ~(handler[c] = "recv" /\ taken[c] < sent[c])
  /\ ~(handler[c] = "send" /\ echoed[c] - received[c] < Window)
  /\ \/ client[c] = "send" /\ sent[c] < payload[c] /\ sent[c] - taken[c] >= Window
     \/ client[c] = "recv" /\ received[c] < payload[c] /\ received[c] >= echoed[c]

\* The client sends all before it reads anything (tcp_udp.py:123-126).  Only if
\* the payload exceeds what the kernels hold in both directions, with a byte in
\* the handler's hands, can that end in a stall.
StallsOnlyWhenFull ==
  \A c \in Clients :
    role = "tcp" /\ Stalled(c) =>
      client[c] = "send" /\ payload[c] > 2 * Window + 1

\* udp_client_echo() returns with the echo of a datagram sent from its port, up
\* to the buffer size (tcp_udp.py:98-104, 146-147).  If its system gave the port
\* to an earlier client, the datagram may have been that one's.
EchoFromOwnPort ==
  \A c \in Clients :
    role = "udp" /\ client[c] = "returned" =>
      \E d \in Clients :
        /\ port[d] = port[c] /\ port[d] # 0
        /\ received[c] = Lesser(payload[d], BufSize)

\* After stop() every serve loop is left, one that was started later included
\* (tcp_udp.py:49, 96): no connection or datagram keeps it going.  The only
\* thread that may stay behind, for ever, is an old one that looked at the flag,
\* was overtaken by stop() and another start(), and then took the new socket
\* before it had a timeout (tcp_udp.py:39-43, 49-51, 88-90, 96-98).
ServeLoopsEnd ==
  stop ~> \A t \in Starts : Ended(t) \/ (Blocked(t) /\ t < waitsOn[t])

\* A client comes back, with statistics or an exception, whatever happens to
\* the server, even when both sides wait for each other (tcp_udp.py:119, 143).
ClientsEnd ==
  \A c \in Clients : client[c] \in {"send", "recv"} ~> Over(c)

\* A handler ends after its client has, although its own socket has no timeout
\* (tcp_udp.py:59-67).
HandlersEnd ==
  \A c \in Clients : Over(c) /\ Handled(c) ~> ~Handled(c)

\* The transfers of a TCP server's clients are as EchoContract has them: its
\* connections as the clients see them, without the kernels' buffers and the
\* bytes in the handlers' hands.  A UDP server has none.
Transfer ==
  [c \in Clients |-> IF role = "udp" \/ client[c] = "idle" THEN "none"
                     ELSE IF client[c] \in {"send", "recv"} THEN "open"
                     ELSE client[c]]
Back   == [c \in Clients |-> IF role = "udp" THEN 0 ELSE received[c]]
Served == [c \in Clients |-> handler[c] # "none"]
Cut    == [c \in Clients |-> conn[c] \in {"fin", "reset"}]

Contract ==
  INSTANCE EchoContract WITH
    transfer <- Transfer, size <- payload, forth <- sent, back <- Back,
    served <- Served, cut <- Cut, gone <- owner = "exited"

\* A client raises an exception only while bytes are missing, returns only after
\* it has sent all, and then has all of it back unless the connection was cut;
\* no connection in use is cut by a stop(), and none that was cut is taken up
\* again (tcp_udp.py:38-67, 119-130).
TransfersAsPromised == Contract!Spec

-----------------------------------------------------------------------------
\* What a log message says and the code does not do.

\* tcp_udp.py:46 and 93, "echo server listening": when start() has returned,
\* the serve loop is not left before stop() is called.
ListeningServes == listening => serve[thread] # "left"
=============================================================================
