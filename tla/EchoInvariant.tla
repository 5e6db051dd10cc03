---------------------------- MODULE EchoInvariant ----------------------------
(***************************************************************************)
(* The inductive invariant of SocketsCommand.                              *)
(***************************************************************************)
EXTENDS SocketsCommand

\* No byte of a connection is made up, none is taken before there is a handler,
\* and one that goes back to recv() has sent back all it took
\* (tcp_udp.py:58-67, 123-129).
StreamsAccounted ==
  \A c \in Clients :
    role = "tcp" =>
      /\ received[c] <= echoed[c] /\ echoed[c] <= taken[c]
      /\ taken[c] <= sent[c] /\ sent[c] <= payload[c]
      /\ handler[c] \in {"none", "recv"} => echoed[c] = taken[c]
      /\ handler[c] = "none" => taken[c] = 0
      /\ handler[c] = "send" => echoed[c] < taken[c]
      /\ client[c] = "idle" => conn[c] = "none"
      /\ conn[c] \in {"none", "queued"} => handler[c] = "none"
      /\ client[c] = "recv" => sent[c] = payload[c]
      /\ conn[c] = "fin" => Over(c) \/ owner = "exited" \/ handler[c] = "none"

\* The connection of a client that came back with too little is not accepted
\* any more.
CutShort ==
  \A c \in Clients :
    role = "tcp" /\ client[c] = "returned" /\ received[c] # payload[c] =>
      owner = "exited" \/ (handler[c] = "none" /\ conn[c] = "fin")

\* p is the port that client d sent its datagram from.
SentFrom(d, p) == p # 0 /\ port[d] = p

\* Every datagram stems from a client that had its port, and is as long as that
\* client's payload, an echo up to the buffer size (tcp_udp.py:98-104).
DatagramsAccounted ==
  /\ \A c \in Clients : client[c] = "idle" => port[c] = 0
  /\ \A m \in net : \E d \in Clients :
       /\ SentFrom(d, m.port)
       /\ m.size = IF m.kind = "query" THEN payload[d]
                                       ELSE Lesser(payload[d], BufSize)
  /\ \A t \in Starts : serve[t] = "echo" =>
       \E d \in Clients :
         SentFrom(d, data[t].port) /\ data[t].size = Lesser(payload[d], BufSize)

\* Neither a socket nor a thread outlives the process.
ClosedAtEnd ==
  owner = "exited" =>
    \A t \in Starts : socket[t] \in {"none", "closed"} /\ Ended(t)

\* What is under way is accounted for, in either kind of server: no byte or
\* datagram is made up, or kept for later when its handler goes on, no
\* connection that was given up comes back, and nothing is open after the end
\* (tcp_udp.py:58-67, 98-104, 123-129).
Accounted == StreamsAccounted /\ CutShort /\ DatagramsAccounted /\ ClosedAtEnd

IInv == TypeOK /\ Accounted /\ EchoFromOwnPort
=============================================================================
