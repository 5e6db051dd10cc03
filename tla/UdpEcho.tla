------------------------------- MODULE UdpEcho -------------------------------
(***************************************************************************)
(* Datagrams between udp_client_echo() and the UDP server's _serve()       *)
(* (sockets/tcp_udp.py).  `net` holds every datagram ever sent: one that   *)
(* is never read was lost, one that is read twice was duplicated, and they *)
(* are read in any order.  A client's system chooses a port that no other  *)
(* client has at the time, but may have had before.                        *)
(***************************************************************************)
EXTENDS TcpEcho

CONSTANT Ports      \* what the clients' sockets may be bound to

ASSUME PortsAssumption == Ports \subseteq Nat \ {0}

VARIABLES
  port,     \* the port of each client, 0 before it has one
  net,      \* the datagrams
  data      \* what each serve thread has read but not sent back

udpVars == <<port, net, data>>

Datagrams == [kind : {"query", "echo"}, port : Ports, size : Nat]
NoData    == [port |-> 0, size |-> 0]

\* recvfrom(BUFFER_SIZE) drops what does not fit.
Read(m) == Lesser(m.size, BufSize)

UdpInit ==
  /\ port = [c \in Clients |-> 0] /\ net = {}
  /\ data = [t \in Starts |-> NoData]

-----------------------------------------------------------------------------
\* Variants, as a careless change would leave them: a server that reads whole
\* datagrams, and a client for which any will do.

UdpServerReceiveAll(t) ==
  /\ ServeReads(t, "echo")
  /\ \E m \in net :
       /\ m.kind = "query"
       /\ data' = [data EXCEPT ![t] = [port |-> m.port, size |-> m.size]]
  /\ UNCHANGED <<clientVars, port, net>>

UdpClientReceiveAny(c) ==
  /\ client[c] = "recv" /\ ClientGoto(c, "returned")
  /\ \E m \in net : received' = [received EXCEPT ![c] = m.size]
  /\ UNCHANGED <<serverVars, udpVars, payload>>

-----------------------------------------------------------------------------
UdpSend(c) ==
  /\ client[c] = "idle" /\ ClientGoto(c, "recv")
  /\ \E p \in Ports :
       /\ \A d \in Clients : client[d] = "recv" => port[d] # p
       /\ port' = [port EXCEPT ![c] = p]
       /\ net' = net \cup {[kind |-> "query", port |-> p, size |-> payload[c]]}
  /\ UNCHANGED <<serverVars, payload, received, data>>

\* Only the port tells whose echo it is.
UdpClientReceive(c) ==
  /\ client[c] = "recv" /\ ClientGoto(c, "returned")
  /\ \E m \in net :
       /\ m.kind = "echo" /\ m.port = port[c]
       /\ received' = [received EXCEPT ![c] = Read(m)]
  /\ UNCHANGED <<serverVars, udpVars, payload>>

\* sendto() fails, or recvfrom() has waited for five seconds.
UdpClientFails(c) ==
  /\ client[c] \in {"idle", "recv"} /\ ClientGoto(c, "raised")
  /\ UNCHANGED <<serverVars, udpVars, payload, received>>

UdpServerReceive(t) ==
  /\ ServeReads(t, "echo")
  /\ \E m \in net :
       /\ m.kind = "query"
       /\ data' = [data EXCEPT ![t] = [port |-> m.port, size |-> Read(m)]]
  /\ UNCHANGED <<clientVars, port, net>>

UdpServerSend(t) ==
  /\ serve[t] = "echo" /\ socket[sock] # "closed" /\ ServeGoto(t, "check")
  /\ net' = net \cup {[kind |-> "echo", port |-> data[t].port, size |-> data[t].size]}
  /\ UNCHANGED <<owner, listening, sock, socket, thread, stop, waitsOn,
                 clientVars, port, data>>

\* The socket is closed, or this client cannot be reached: the loop ends.
UdpServerFails(t) ==
  /\ serve[t] = "echo" /\ ServeGoto(t, "broken")
  /\ UNCHANGED <<owner, listening, sock, socket, thread, stop, waitsOn,
                 clientVars, udpVars>>

UdpServe(t) == UdpServerReceive(t) \/ UdpServerSend(t) \/ UdpServerFails(t)

UdpTypeOK ==
  /\ port \in [Clients -> Ports \cup {0}] /\ net \subseteq Datagrams
  /\ data \in [Starts -> [port : Ports \cup {0}, size : Nat]]
=============================================================================
