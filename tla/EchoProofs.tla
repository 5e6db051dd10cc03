----------------------------- MODULE EchoProofs -----------------------------
(***************************************************************************)
(* Proofs about SocketsCommand, for every number of starts, every set of   *)
(* clients, payloads and ports, and every size of the buffers.             *)
(***************************************************************************)
EXTENDS EchoInvariant, TLAPS

USE DEF Starts

-----------------------------------------------------------------------------
\* Types.

LEMMA InitTypes == Init => TypeOK
<1> SUFFICES ASSUME Init PROVE TypeOK  OBVIOUS
<1>1. ServerTypeOK
  <2>1. owner = "ready" /\ listening = FALSE /\ stop = FALSE /\ sock = 0 /\ thread = 0
    BY DEF Init, ServerInit
  <2>2. sock \in 0..MaxStarts /\ thread \in 0..sock
    BY <2>1, StartsAssumption
  <2>3. /\ socket \in [Starts -> {"none", "new", "bound", "ready", "closed"}]
        /\ serve \in [Starts -> {"none", "check", "call", "wait", "block",
                                 "echo", "left", "broken"}]
        /\ waitsOn \in [Starts -> 0..MaxStarts]
    BY StartsAssumption DEF Init, ServerInit
  <2>4. listening \in BOOLEAN /\ stop \in BOOLEAN
    BY <2>1
  <2>5. QED BY <2>1, <2>2, <2>3, <2>4 DEF ServerTypeOK
<1>2. ClientTypeOK
  BY StreamAssumption DEF Init, ClientInit, ClientTypeOK
<1>3. TcpTypeOK
  BY DEF Init, TcpInit, TcpTypeOK
<1>4. UdpTypeOK
  BY DEF Init, UdpInit, UdpTypeOK, NoData
<1>5. QED BY <1>1, <1>2, <1>3, <1>4 DEF Init, TypeOK

\* Whatever the owner or a thread of the server does, its types are kept.
LEMMA ServerTypes ==
  ASSUME StartsAssumption, ServerTypeOK,
         \/ OwnerStep \/ Close \/ Exit
         \/ \E t \in Starts : \/ ServeLoop(t) \/ UdpServerSend(t) \/ UdpServerFails(t)
                              \/ \E pc \in {"check", "echo", "broken"} : ServeReads(t, pc)
         \/ UNCHANGED serverVars
  PROVE  ServerTypeOK'
<1>1. ASSUME OwnerStep \/ Close \/ Exit  PROVE ServerTypeOK'
  <2>1. CASE Start
    <3>1. sock' \in Starts /\ sock' \in 0..MaxStarts /\ thread' \in 0..sock'
      BY <2>1, StartsAssumption DEF Start, ServerTypeOK
    <3>2. socket' \in [Starts -> {"none", "new", "bound", "ready", "closed"}]
      BY <2>1, <3>1 DEF Start, ServerTypeOK
    <3>3. QED BY <2>1, <3>1, <3>2 DEF Start, ServerTypeOK
  <2>2. CASE Launch
    <3>1. sock' \in 0..MaxStarts /\ thread' \in 0..sock'
      BY <2>2, StartsAssumption DEF Launch, ServerTypeOK
    <3>2. /\ socket' \in [Starts -> {"none", "new", "bound", "ready", "closed"}]
          /\ serve' \in [Starts -> {"none", "check", "call", "wait", "block",
                                    "echo", "left", "broken"}]
      BY <2>2 DEF Launch, ServerTypeOK
    <3>3. QED BY <2>2, <3>1, <3>2 DEF Launch, ServerTypeOK
  <2>3. CASE Listen \/ StartFails \/ Join
    BY <2>3 DEF Listen, StartFails, Join, ServerTypeOK
  <2>4. CASE Stop
    BY <2>4 DEF Stop, ServerTypeOK
  <2>5. CASE Close
    BY <2>5 DEF Close, ServerTypeOK
  <2>6. CASE Exit
    BY <2>6 DEF Exit, Ended, ServerTypeOK
  <2>7. QED BY <1>1, <2>1, <2>2, <2>3, <2>4, <2>5, <2>6 DEF OwnerStep
<1>2. ASSUME NEW t \in Starts, NEW pc \in {"check", "echo", "broken"},
             ServeReads(t, pc)
      PROVE  ServerTypeOK'
  BY <1>2 DEF ServeReads, ServeGoto, ServerTypeOK
<1>3. ASSUME NEW t \in Starts, ServeLoop(t) \/ UdpServerSend(t) \/ UdpServerFails(t)
      PROVE  ServerTypeOK'
  BY <1>3, StartsAssumption
  DEF ServeLoop, ServeCheck, ServeCall, ServeTimesOut, ServeFails,
      UdpServerSend, UdpServerFails, ServeGoto, ServerTypeOK
<1>4. CASE UNCHANGED serverVars
  BY <1>4 DEF serverVars, ServerTypeOK
<1>5. QED BY <1>1, <1>2, <1>3, <1>4

LEMMA TcpTypes ==
  ASSUME StreamAssumption, ClientTypeOK, TcpTypeOK,
         \/ TcpClose \/ TcpExit \/ \E t \in Starts : TcpServe(t)
         \/ \E c \in Clients : Handler(c) \/ Connect(c) \/ TcpClient(c) \/ ClientFails(c)
         \/ UNCHANGED <<clientVars, tcpVars>>
  PROVE  ClientTypeOK' /\ TcpTypeOK'
<1>1. CASE TcpClose \/ TcpExit
  BY <1>1 DEF TcpClose, TcpExit, Handled, clientVars, ClientTypeOK, TcpTypeOK
<1>2. ASSUME NEW t \in Starts, TcpServe(t)
      PROVE  ClientTypeOK' /\ TcpTypeOK'
  BY <1>2 DEF TcpServe, Accept, AcceptFails, clientVars, ClientTypeOK, TcpTypeOK
<1>3. ASSUME NEW c \in Clients, HandlerTake(c)
      PROVE  ClientTypeOK' /\ TcpTypeOK'
  <2>1. PICK n \in 1..Lesser(BufSize, sent[c] - taken[c]) :
          taken' = [taken EXCEPT ![c] = @ + n]
    BY <1>3 DEF HandlerTake
  <2>2. n \in Nat
    BY <2>1, <1>3, StreamAssumption DEF Lesser, TcpTypeOK, HandlerTake
  <2>3. QED BY <2>1, <2>2, <1>3 DEF HandlerTake, clientVars, ClientTypeOK, TcpTypeOK
<1>4. ASSUME NEW c \in Clients, HandlerPut(c) \/ HandlerEnds(c)
      PROVE  ClientTypeOK' /\ TcpTypeOK'
  BY <1>4 DEF HandlerPut, HandlerEnds, clientVars, ClientTypeOK, TcpTypeOK
<1>5. ASSUME NEW c \in Clients, Connect(c) \/ TcpClient(c) \/ ClientFails(c)
      PROVE  ClientTypeOK' /\ TcpTypeOK'
  BY <1>5 DEF Connect, TcpClient, ClientSend, ClientSent, ClientReceive,
              ClientReturn, ClientFails, ClientGoto, clientVars, tcpVars,
              ClientTypeOK, TcpTypeOK
<1>6. CASE UNCHANGED <<clientVars, tcpVars>>
  BY <1>6 DEF clientVars, tcpVars, ClientTypeOK, TcpTypeOK
<1>7. QED BY <1>1, <1>2, <1>3, <1>4, <1>5, <1>6 DEF Handler

LEMMA ReadBounds ==
  ASSUME StreamAssumption, NEW m \in Datagrams
  PROVE  Read(m) \in Nat
  BY StreamAssumption DEF Read, Lesser, Datagrams

LEMMA UdpTypes ==
  ASSUME StreamAssumption, PortsAssumption, ClientTypeOK, UdpTypeOK,
         DatagramsAccounted,
         \/ \E t \in Starts : UdpServe(t)
         \/ \E c \in Clients : UdpSend(c) \/ UdpClientReceive(c) \/ UdpClientFails(c)
         \/ UNCHANGED <<clientVars, udpVars>>
  PROVE  ClientTypeOK' /\ UdpTypeOK'
<1>1. ASSUME NEW t \in Starts, UdpServerReceive(t)
      PROVE  ClientTypeOK' /\ UdpTypeOK'
  <2>1. PICK m \in net : data' = [data EXCEPT ![t] = [port |-> m.port, size |-> Read(m)]]
    BY <1>1 DEF UdpServerReceive
  <2>2. m \in Datagrams /\ m.port \in Ports /\ Read(m) \in Nat
    BY <2>1, ReadBounds DEF UdpTypeOK, Datagrams
  <2>3. QED BY <2>1, <2>2, <1>1
            DEF UdpServerReceive, clientVars, ClientTypeOK, UdpTypeOK
<1>2. ASSUME NEW t \in Starts, UdpServerSend(t)
      PROVE  ClientTypeOK' /\ UdpTypeOK'
  <2>1. data[t].port \in Ports /\ data[t].size \in Nat
    BY <1>2 DEF UdpServerSend, DatagramsAccounted, SentFrom, UdpTypeOK
  <2>2. QED BY <2>1, <1>2 DEF UdpServerSend, clientVars, Datagrams, ClientTypeOK, UdpTypeOK
<1>3. ASSUME NEW t \in Starts, UdpServerFails(t)
      PROVE  ClientTypeOK' /\ UdpTypeOK'
  BY <1>3 DEF UdpServerFails, clientVars, udpVars, ClientTypeOK, UdpTypeOK
<1>4. ASSUME NEW c \in Clients, UdpSend(c)
      PROVE  ClientTypeOK' /\ UdpTypeOK'
  BY <1>4 DEF UdpSend, ClientGoto, Datagrams, ClientTypeOK, UdpTypeOK
<1>5. ASSUME NEW c \in Clients, UdpClientReceive(c)
      PROVE  ClientTypeOK' /\ UdpTypeOK'
  <2>1. PICK m \in net : received' = [received EXCEPT ![c] = Read(m)]
    BY <1>5 DEF UdpClientReceive
  <2>2. Read(m) \in Nat
    BY <2>1, ReadBounds DEF UdpTypeOK
  <2>3. QED BY <2>1, <2>2, <1>5
            DEF UdpClientReceive, ClientGoto, udpVars, ClientTypeOK, UdpTypeOK
<1>6. ASSUME NEW c \in Clients, UdpClientFails(c)
      PROVE  ClientTypeOK' /\ UdpTypeOK'
  BY <1>6 DEF UdpClientFails, ClientGoto, udpVars, ClientTypeOK, UdpTypeOK
<1>7. CASE UNCHANGED <<clientVars, udpVars>>
  BY <1>7 DEF clientVars, udpVars, ClientTypeOK, UdpTypeOK
<1>8. QED BY <1>1, <1>2, <1>3, <1>4, <1>5, <1>6, <1>7 DEF UdpServe
\* The three kinds of variables, in a step of the whole.
LEMMA TypesStep ==
  ASSUME StartsAssumption, StreamAssumption, PortsAssumption,
         TypeOK, DatagramsAccounted, [Next]_vars
  PROVE  TypeOK'
<1>1. CASE Owner
  <2>1. ServerTypeOK'
    BY <1>1, ServerTypes DEF Owner, TcpClose, TcpExit, TypeOK
  <2>2. ClientTypeOK' /\ TcpTypeOK'
    BY <1>1, TcpTypes DEF Owner, TypeOK
  <2>3. UdpTypeOK'
    BY <1>1 DEF Owner, udpVars, TypeOK, UdpTypeOK
  <2>4. QED BY <1>1, <2>1, <2>2, <2>3 DEF Owner, TypeOK
<1>2. ASSUME NEW t \in Starts, Serve(t)
      PROVE  TypeOK'
  <2>1. CASE ServeLoop(t) /\ UNCHANGED <<clientVars, tcpVars, udpVars, role>>
    BY <2>1, ServerTypes, TcpTypes, UdpTypes DEF TypeOK
  <2>2. CASE TcpServe(t) /\ UNCHANGED <<udpVars, role>>
    <3>1. ServerTypeOK'
      BY <2>2, ServerTypes DEF TcpServe, Accept, AcceptFails, TypeOK
    <3>2. UdpTypeOK'
      BY <2>2 DEF udpVars, TypeOK, UdpTypeOK
    <3>3. QED BY <2>2, <3>1, <3>2, TcpTypes DEF TypeOK
  <2>3. CASE UdpServe(t) /\ UNCHANGED <<tcpVars, role>>
    <3>1. ServerTypeOK'
      BY <2>3, ServerTypes DEF UdpServe, UdpServerReceive, TypeOK
    <3>2. TcpTypeOK'
      BY <2>3 DEF tcpVars, TypeOK, TcpTypeOK
    <3>3. QED BY <2>3, <3>1, <3>2, UdpTypes DEF TypeOK
  <2>4. QED BY <1>2, <2>1, <2>2, <2>3 DEF Serve
<1>3. ASSUME NEW c \in Clients, Handle(c) \/ Begin(c) \/ Client(c)
      PROVE  TypeOK'
  <2>1. UNCHANGED serverVars /\ role' = role
    BY <1>3
    DEF Handle, Begin, Client, Handler, HandlerTake, HandlerPut, HandlerEnds,
        Connect, UdpSend, TcpClient, ClientSend, ClientSent, ClientReceive,
        ClientReturn, ClientFails, UdpClientReceive, UdpClientFails
  <2>2. ServerTypeOK'
    BY <2>1, ServerTypes DEF TypeOK
  <2>3. CASE (Handler(c) \/ Connect(c) \/ TcpClient(c) \/ ClientFails(c)) /\ UNCHANGED udpVars
    <3>1. UdpTypeOK'
      BY <2>3 DEF udpVars, TypeOK, UdpTypeOK
    <3>2. QED BY <2>1, <2>2, <2>3, <3>1, TcpTypes DEF TypeOK
  <2>4. CASE (UdpSend(c) \/ UdpClientReceive(c) \/ UdpClientFails(c)) /\ UNCHANGED tcpVars
    <3>1. TcpTypeOK'
      BY <2>4 DEF tcpVars, TypeOK, TcpTypeOK
    <3>2. QED BY <2>1, <2>2, <2>4, <3>1, UdpTypes DEF TypeOK
  <2>5. QED BY <1>3, <2>3, <2>4 DEF Handle, Begin, Client
<1>4. CASE UNCHANGED vars
  BY <1>4, ServerTypes, TcpTypes, UdpTypes DEF vars, TypeOK
<1>5. QED BY <1>1, <1>2, <1>3, <1>4 DEF Next, Finished

-----------------------------------------------------------------------------
\* The streams.

\* What is known of one connection.
StreamOf(c) ==
  /\ received[c] <= echoed[c] /\ echoed[c] <= taken[c]
  /\ taken[c] <= sent[c] /\ sent[c] <= payload[c]
  /\ handler[c] \in {"none", "recv"} => echoed[c] = taken[c]
  /\ handler[c] = "none" => taken[c] = 0
  /\ handler[c] = "send" => echoed[c] < taken[c]
  /\ client[c] = "idle" => conn[c] = "none"
  /\ conn[c] \in {"none", "queued"} => handler[c] = "none"
  /\ client[c] = "recv" => sent[c] = payload[c]
  /\ conn[c] = "fin" => Over(c) \/ owner = "exited" \/ handler[c] = "none"
  /\ client[c] = "returned" /\ received[c] # payload[c] =>
       owner = "exited" \/ (handler[c] = "none" /\ conn[c] = "fin")

LEMMA StreamsAre ==
  StreamsAccounted /\ CutShort <=> (role = "tcp" => \A c \in Clients : StreamOf(c))
  BY Zenon DEF StreamsAccounted, CutShort, StreamOf

\* A step that leaves a connection alone leaves what is known of it.
LEMMA StreamUntouched ==
  ASSUME NEW c \in Clients, StreamOf(c), owner = "exited" => owner' = "exited",
         received'[c] = received[c], echoed'[c] = echoed[c], taken'[c] = taken[c],
         sent'[c] = sent[c], payload'[c] = payload[c], handler'[c] = handler[c],
         client'[c] = client[c], conn'[c] = conn[c]
  PROVE  StreamOf(c)'
  BY DEF StreamOf, Over

LEMMA StreamsInit == Init => \A c \in Clients : StreamOf(c)
  BY StreamAssumption DEF Init, ClientInit, TcpInit, StreamOf

\* Only the end of the process touches a connection that is handled, and only
\* a close one that is not.
LEMMA StreamsOwner ==
  ASSUME TypeOK, role = "tcp", \A c \in Clients : StreamOf(c), Owner
  PROVE  \A c \in Clients : StreamOf(c)'
<1> SUFFICES ASSUME NEW c \in Clients PROVE StreamOf(c)'  OBVIOUS
<1>1. CASE OwnerStep /\ UNCHANGED <<clientVars, tcpVars>>
  BY <1>1, StreamUntouched
  DEF OwnerStep, Start, Listen, Launch, StartFails, Stop, Join, clientVars, tcpVars
<1>2. CASE TcpClose
  BY <1>2 DEF TcpClose, Close, clientVars, StreamOf, Over, TypeOK, TcpTypeOK
<1>3. CASE TcpExit
  BY <1>3 DEF TcpExit, Exit, clientVars, StreamOf, Over, Handled, TypeOK, TcpTypeOK
<1>4. QED BY <1>1, <1>2, <1>3 DEF Owner

LEMMA StreamsServe ==
  ASSUME TypeOK, role = "tcp", \A c \in Clients : StreamOf(c),
         NEW t \in Starts, Serve(t)
  PROVE  \A c \in Clients : StreamOf(c)'
<1>1. CASE ServeLoop(t) /\ UNCHANGED <<clientVars, tcpVars>>
  BY <1>1, StreamUntouched
  DEF ServeLoop, ServeCheck, ServeCall, ServeTimesOut, ServeFails, clientVars, tcpVars
<1>2. ASSUME NEW d \in Clients, Accept(t, d) \/ AcceptFails(t, d)
      PROVE  \A c \in Clients : StreamOf(c)'
  <2>1. owner' = owner
    BY <1>2 DEF Accept, AcceptFails, ServeReads
  <2>2. StreamOf(d)'
    BY <1>2, <2>1 DEF Accept, AcceptFails, clientVars, StreamOf, Over, TypeOK, TcpTypeOK
  <2>3. ASSUME NEW c \in Clients, c # d PROVE StreamOf(c)'
    BY <1>2, <2>1, <2>3, StreamUntouched
    DEF Accept, AcceptFails, clientVars, TypeOK, TcpTypeOK
  <2>4. QED BY <2>2, <2>3
<1>3. QED BY <1>1, <1>2 DEF Serve, TcpServe

LEMMA StreamsHandle ==
  ASSUME StreamAssumption, TypeOK, role = "tcp", \A c \in Clients : StreamOf(c),
         NEW d \in Clients, Handle(d)
  PROVE  \A c \in Clients : StreamOf(c)'
<1>1. owner' = owner /\ UNCHANGED clientVars
  BY DEF Handle, Handler, HandlerTake, HandlerPut, HandlerEnds, serverVars
<1>2. StreamOf(d)'
  <2>1. CASE HandlerTake(d)
    <3>1. PICK n \in 1..Lesser(BufSize, sent[d] - taken[d]) :
            taken' = [taken EXCEPT ![d] = @ + n]
      BY <2>1 DEF HandlerTake
    <3>2. n \in Nat /\ 1 <= n /\ n <= sent[d] - taken[d]
      BY <2>1, <3>1, StreamAssumption DEF Lesser, TypeOK, TcpTypeOK, HandlerTake
    <3>3. taken'[d] = taken[d] + n /\ handler'[d] = "send"
      BY <2>1, <3>1 DEF HandlerTake, TypeOK, TcpTypeOK
    <3>4. QED BY <1>1, <2>1, <3>2, <3>3
              DEF HandlerTake, clientVars, StreamOf, Over, TypeOK, TcpTypeOK,
                  ClientTypeOK
  <2>2. CASE HandlerPut(d)
    <3>1. echoed'[d] = echoed[d] + 1
          /\ handler'[d] = IF echoed'[d] = taken[d] THEN "recv" ELSE "send"
      BY <2>2 DEF HandlerPut, TypeOK, TcpTypeOK
    <3>2. QED BY <1>1, <2>2, <3>1
              DEF HandlerPut, clientVars, StreamOf, Over, TypeOK, TcpTypeOK,
                  ClientTypeOK
  <2>3. CASE HandlerEnds(d)
    BY <1>1, <2>3
    DEF HandlerEnds, Handled, clientVars, StreamOf, Over, TypeOK, TcpTypeOK
  <2>4. QED BY <2>1, <2>2, <2>3 DEF Handle, Handler
<1>3. ASSUME NEW c \in Clients, c # d PROVE StreamOf(c)'
  <2>1. /\ echoed'[c] = echoed[c] /\ taken'[c] = taken[c] /\ sent'[c] = sent[c]
        /\ handler'[c] = handler[c] /\ conn'[c] = conn[c]
    BY <1>3 DEF Handle, Handler, HandlerTake, HandlerPut, HandlerEnds, TypeOK, TcpTypeOK
  <2>2. QED BY <1>1, <2>1, StreamUntouched DEF clientVars
<1>4. QED BY <1>2, <1>3

LEMMA StreamsClient ==
  ASSUME TypeOK, role = "tcp", \A c \in Clients : StreamOf(c),
         NEW d \in Clients, Begin(d) \/ Client(d)
  PROVE  \A c \in Clients : StreamOf(c)'
<1>1. owner' = owner /\ UNCHANGED <<payload, handler, taken, echoed>>
  BY DEF Begin, Client, Connect, TcpClient, ClientSend, ClientSent, ClientReceive,
         ClientReturn, ClientFails, serverVars, tcpVars, clientVars
<1>2. StreamOf(d)'
  <2>1. CASE Connect(d)
    BY <1>1, <2>1 DEF Connect, ClientGoto, StreamOf, Over, TypeOK, ClientTypeOK, TcpTypeOK
  <2>2. CASE ClientSend(d)
    BY <1>1, <2>2 DEF ClientSend, clientVars, StreamOf, Over, TypeOK, ClientTypeOK, TcpTypeOK
  <2>3. CASE ClientSent(d)
    BY <1>1, <2>3
    DEF ClientSent, ClientGoto, tcpVars, StreamOf, Over, TypeOK, ClientTypeOK, TcpTypeOK
  <2>4. CASE ClientReceive(d)
    BY <1>1, <2>4
    DEF ClientReceive, tcpVars, StreamOf, Over, TypeOK, ClientTypeOK, TcpTypeOK
  <2>5. CASE ClientReturn(d)
    BY <1>1, <2>5
    DEF ClientReturn, ClientGoto, tcpVars, StreamOf, Over, TypeOK, ClientTypeOK, TcpTypeOK
  <2>6. CASE ClientFails(d)
    BY <1>1, <2>6
    DEF ClientFails, ClientGoto, tcpVars, StreamOf, Over, TypeOK, ClientTypeOK, TcpTypeOK
  <2>7. QED BY <2>1, <2>2, <2>3, <2>4, <2>5, <2>6 DEF Begin, Client, TcpClient
<1>3. ASSUME NEW c \in Clients, c # d PROVE StreamOf(c)'
  <2>1. /\ received'[c] = received[c] /\ sent'[c] = sent[c]
        /\ client'[c] = client[c] /\ conn'[c] = conn[c]
    BY <1>3
    DEF Begin, Client, Connect, TcpClient, ClientSend, ClientSent, ClientReceive,
        ClientReturn, ClientFails, ClientGoto, tcpVars, clientVars, TypeOK, ClientTypeOK, TcpTypeOK
  <2>2. QED BY <1>1, <2>1, StreamUntouched
<1>4. QED BY <1>2, <1>3

-----------------------------------------------------------------------------
\* The datagrams.

\* Client d had this port, and its payload came to this size at most.
Origin(p, size) == \E d \in Clients : SentFrom(d, p) /\ size = Lesser(payload[d], BufSize)

\* A read of a datagram, or of an echo, cuts it to the buffer size.
LEMMA ReadsOrigin ==
  ASSUME StreamAssumption, TypeOK, DatagramsAccounted, NEW m \in net
  PROVE  Origin(m.port, Read(m))
<1>1. PICK d \in Clients :
        /\ SentFrom(d, m.port)
        /\ m.size = IF m.kind = "query" THEN payload[d] ELSE Lesser(payload[d], BufSize)
  BY DEF DatagramsAccounted
<1>2. Read(m) = Lesser(payload[d], BufSize)
  BY <1>1, StreamAssumption DEF Read, Lesser, TypeOK, ClientTypeOK
<1>3. QED BY <1>1, <1>2 DEF Origin

\* A client keeps the port it has.
LEMMA PortsKept ==
  ASSUME TypeOK, DatagramsAccounted, [Next]_vars, NEW d \in Clients, port[d] # 0
  PROVE  port'[d] = port[d]
<1>1. ASSUME NEW c \in Clients, UdpSend(c) PROVE port'[d] = port[d]
  BY <1>1 DEF UdpSend, DatagramsAccounted, TypeOK, UdpTypeOK
<1>2. QED BY <1>1
  DEF Next, Owner, Serve, Handle, Begin, Client, Finished, UdpServe,
      UdpServerReceive, UdpServerSend, UdpServerFails, UdpClientReceive,
      UdpClientFails, udpVars, vars

\* Nobody's payload changes.
LEMMA PayloadsKept == [Next]_vars => payload' = payload
  BY DEF Next, Owner, OwnerStep, TcpClose, TcpExit, Serve, TcpServe, Accept, AcceptFails,
      UdpServe, UdpServerReceive, UdpServerSend, UdpServerFails,
      Handle, Handler, HandlerTake, HandlerPut, HandlerEnds,
      Begin, Connect, UdpSend, Client, TcpClient, ClientSend, ClientSent,
      ClientReceive, ClientReturn, ClientFails, UdpClientReceive, UdpClientFails,
      Finished, clientVars, vars

LEMMA OriginKept ==
  ASSUME TypeOK, DatagramsAccounted, [Next]_vars, NEW p, NEW size, Origin(p, size)
  PROVE  Origin(p, size)'
  BY PortsKept, PayloadsKept DEF Origin, SentFrom

\* Only three actions touch what this is about.
LEMMA DatagramActions ==
  ASSUME role \in {"tcp", "udp"}, [Next]_vars
  PROVE  \/ \E c \in Clients : UdpSend(c)
         \/ \E t \in Starts : UdpServerReceive(t)
         \/ \E t \in Starts : UdpServerSend(t)
         \/ UNCHANGED udpVars
  BY DEF Next, Owner, Serve, Handle, Begin, Client, Finished, UdpServe,
         UdpServerFails, UdpClientReceive, UdpClientFails, udpVars, vars

\* No client goes back to "idle", and no other action makes a thread echo.
LEMMA IdleBefore ==
  ASSUME TypeOK, [Next]_vars, NEW c \in Clients, client'[c] = "idle"
  PROVE  client[c] = "idle"
  BY DEF Next, Owner, OwnerStep, TcpClose, TcpExit, Serve, TcpServe, Accept, AcceptFails,
      UdpServe, UdpServerReceive, UdpServerSend, UdpServerFails,
      Handle, Handler, HandlerTake, HandlerPut, HandlerEnds,
      Begin, Connect, UdpSend, Client, TcpClient, ClientSend, ClientSent,
      ClientReceive, ClientReturn, ClientFails, UdpClientReceive, UdpClientFails,
      ClientGoto, Finished, clientVars, vars, TypeOK, ClientTypeOK

LEMMA EchoingBefore ==
  ASSUME TypeOK, [Next]_vars, NEW t \in Starts, serve'[t] = "echo",
         ~\E s \in Starts : UdpServerReceive(s)
  PROVE  serve[t] = "echo"
<1>1. CASE Owner
  BY <1>1 DEF Owner, OwnerStep, TcpClose, TcpExit, Start, Listen, Launch, StartFails, Stop,
              Close, Join, Exit, Ended, TypeOK, ServerTypeOK
<1>2. ASSUME NEW s \in Starts, Serve(s) PROVE serve[t] = "echo"
  BY <1>2 DEF Serve, ServeLoop, ServeCheck, ServeCall, ServeTimesOut, ServeFails,
              TcpServe, Accept, AcceptFails, ServeReads, UdpServe, UdpServerSend,
              UdpServerFails, ServeGoto, TypeOK, ServerTypeOK
<1>3. ASSUME NEW c \in Clients, Handle(c) \/ Begin(c) \/ Client(c)
      PROVE  serve[t] = "echo"
  BY <1>3 DEF Handle, Handler, HandlerTake, HandlerPut, HandlerEnds,
      Begin, Connect, UdpSend, Client, TcpClient, ClientSend, ClientSent,
      ClientReceive, ClientReturn, ClientFails, UdpClientReceive, UdpClientFails, serverVars
<1>4. CASE UNCHANGED vars
  BY <1>4 DEF vars, serverVars
<1>5. QED BY <1>1, <1>2, <1>3, <1>4 DEF Next, Finished

\* A datagram in the network, or read, as DatagramsAccounted says it is.
Genuine(m) ==
  \E d \in Clients :
    /\ SentFrom(d, m.port)
    /\ m.size = IF m.kind = "query" THEN payload[d] ELSE Lesser(payload[d], BufSize)

LEMMA GenuineKept ==
  ASSUME TypeOK, DatagramsAccounted, [Next]_vars, NEW m \in net
  PROVE  Genuine(m)'
<1>1. PICK d \in Clients :
        /\ SentFrom(d, m.port)
        /\ m.size = IF m.kind = "query" THEN payload[d] ELSE Lesser(payload[d], BufSize)
  BY DEF DatagramsAccounted
<1>2. port'[d] = m.port /\ payload' = payload
  BY <1>1, PortsKept, PayloadsKept DEF SentFrom
<1>3. QED BY <1>1, <1>2 DEF Genuine, SentFrom

LEMMA DatagramsStep ==
  ASSUME StreamAssumption, PortsAssumption, TypeOK, DatagramsAccounted, [Next]_vars
  PROVE  DatagramsAccounted'
<1>1. ASSUME NEW c \in Clients, client'[c] = "idle" PROVE port'[c] = 0
  <2>1. client[c] = "idle" /\ port[c] = 0
    BY <1>1, IdleBefore DEF DatagramsAccounted
  <2>2. ASSUME NEW d \in Clients, UdpSend(d) PROVE port'[c] = 0
    BY <1>1, <2>1, <2>2 DEF UdpSend, ClientGoto, TypeOK, ClientTypeOK, UdpTypeOK
  <2>3. QED BY <2>1, <2>2, DatagramActions
            DEF UdpServerReceive, UdpServerSend, udpVars, TypeOK
<1>2. ASSUME NEW m \in net' PROVE Genuine(m)'
  <2>1. CASE m \in net
    BY <2>1, GenuineKept
  <2>2. ASSUME NEW d \in Clients, UdpSend(d), m \notin net PROVE Genuine(m)'
    <3>1. PICK p \in Ports :
            /\ port' = [port EXCEPT ![d] = p]
            /\ net' = net \cup {[kind |-> "query", port |-> p, size |-> payload[d]]}
      BY <2>2 DEF UdpSend
    <3>2. m.kind = "query" /\ m.port = p /\ m.size = payload[d]
      BY <1>2, <2>2, <3>1
    <3>3. p # 0 /\ port'[d] = p /\ payload' = payload
      BY <3>1, PortsAssumption, PayloadsKept DEF TypeOK, UdpTypeOK
    <3>4. QED BY <3>2, <3>3 DEF Genuine, SentFrom
  <2>3. ASSUME NEW t \in Starts, UdpServerSend(t), m \notin net PROVE Genuine(m)'
    <3>1. m = [kind |-> "echo", port |-> data[t].port, size |-> data[t].size]
          /\ serve[t] = "echo"
      BY <1>2, <2>3 DEF UdpServerSend
    <3>2. Origin(m.port, m.size) /\ m.kind = "echo"
      BY <3>1 DEF DatagramsAccounted, Origin
    <3>3. Origin(m.port, m.size)'
      BY <3>2, OriginKept
    <3>4. QED BY <3>2, <3>3 DEF Genuine, Origin
  <2>4. QED BY <1>2, <2>1, <2>2, <2>3, DatagramActions
            DEF UdpServerReceive, udpVars, TypeOK
<1>3. ASSUME NEW t \in Starts, serve'[t] = "echo"
      PROVE  Origin(data[t].port, data[t].size)'
  <2>1. ASSUME NEW s \in Starts, UdpServerReceive(s)
        PROVE  Origin(data[t].port, data[t].size)'
    <3>1. PICK m \in net : data' = [data EXCEPT ![s] = [port |-> m.port, size |-> Read(m)]]
      BY <2>1 DEF UdpServerReceive
    <3>2. UNCHANGED <<port, payload>>
      BY <2>1 DEF UdpServerReceive, clientVars
    <3>3. CASE t = s
      <4>1. Origin(m.port, Read(m))
        BY ReadsOrigin
      <4>2. data'[t].port = m.port /\ data'[t].size = Read(m)
        BY <3>1, <3>3 DEF TypeOK, UdpTypeOK
      <4>3. QED BY <3>2, <4>1, <4>2 DEF Origin, SentFrom
    <3>4. CASE t # s
      <4>1. serve[t] = "echo" /\ data'[t] = data[t]
        BY <1>3, <2>1, <3>1, <3>4
        DEF UdpServerReceive, ServeReads, ServeGoto, TypeOK, ServerTypeOK, UdpTypeOK
      <4>2. QED BY <3>2, <4>1 DEF DatagramsAccounted, Origin, SentFrom
    <3>5. QED BY <3>3, <3>4
  <2>2. CASE ~\E s \in Starts : UdpServerReceive(s)
    <3>1. serve[t] = "echo"
      BY <1>3, <2>2, EchoingBefore
    <3>2. Origin(data[t].port, data[t].size) /\ data' = data
      BY <2>2, <3>1, DatagramActions
      DEF DatagramsAccounted, Origin, UdpSend, UdpServerSend, udpVars, TypeOK
    <3>3. QED BY <3>2, OriginKept
  <2>3. QED BY <2>1, <2>2
<1>4. QED BY <1>1, <1>2, <1>3 DEF DatagramsAccounted, Genuine, Origin

LEMMA OwnPortStep ==
  ASSUME StreamAssumption, TypeOK, DatagramsAccounted, EchoFromOwnPort, [Next]_vars
  PROVE  EchoFromOwnPort'
<1> SUFFICES ASSUME NEW c \in Clients, role' = "udp", client'[c] = "returned"
             PROVE  Origin(port[c], received[c])'
  BY DEF EchoFromOwnPort, Origin, SentFrom
<1>1. role = "udp"
  BY DEF Next, Owner, Serve, Handle, Begin, Client, Finished, vars
<1>2. ASSUME NEW m \in net, UdpClientReceive(c), m.port = port[c],
             received' = [received EXCEPT ![c] = Read(m)]
      PROVE  Origin(port[c], received[c])'
  <2>1. Origin(m.port, Read(m))
    BY ReadsOrigin
  <2>2. UNCHANGED <<port, payload>> /\ received'[c] = Read(m)
    BY <1>2 DEF UdpClientReceive, udpVars, TypeOK, ClientTypeOK
  <2>3. QED BY <1>2, <2>1, <2>2 DEF Origin, SentFrom
<1>3. ASSUME client[c] = "returned", received'[c] = received[c]
      PROVE  Origin(port[c], received[c])'
  <2>1. PICK d \in Clients :
          SentFrom(d, port[c]) /\ received[c] = Lesser(payload[d], BufSize)
    BY <1>1, <1>3 DEF EchoFromOwnPort, SentFrom
  <2>2. port'[d] = port[c] /\ port'[c] = port[c] /\ port[c] # 0 /\ payload' = payload
    BY <2>1, PortsKept, PayloadsKept DEF SentFrom
  <2>3. QED BY <1>3, <2>1, <2>2 DEF Origin, SentFrom
<1>4. ASSUME NEW d \in Clients, UdpSend(d) \/ UdpClientReceive(d) \/ UdpClientFails(d)
      PROVE  \/ client[c] = "returned" /\ received'[c] = received[c]
             \/ UdpClientReceive(c)
  BY <1>4 DEF UdpSend, UdpClientReceive, UdpClientFails, ClientGoto, TypeOK, ClientTypeOK
<1>5. \/ client[c] = "returned" /\ received'[c] = received[c]
      \/ UdpClientReceive(c)
  BY <1>1, <1>4
  DEF Next, Owner, Serve, ServeLoop, UdpServe, UdpServerReceive, UdpServerSend,
      UdpServerFails, Handle, Begin, Client, Finished, clientVars, vars
<1>6. QED BY <1>2, <1>3, <1>5 DEF UdpClientReceive

\* The owner is the only one to open sockets, and does nothing after its end.
LEMMA ClosedStep ==
  ASSUME TypeOK, ClosedAtEnd, [Next]_vars
  PROVE  ClosedAtEnd'
<1>1. CASE Owner
  BY <1>1 DEF Owner, OwnerStep, TcpClose, TcpExit, Start, Listen, Launch, StartFails, Stop,
              Close, Join, Exit, Ended, ClosedAtEnd, TypeOK, ServerTypeOK
<1>2. ASSUME NEW t \in Starts, Serve(t) PROVE ClosedAtEnd'
  <2>1. ~Ended(t) /\ UNCHANGED <<owner, socket>>
    BY <1>2 DEF Serve, ServeLoop, ServeCheck, ServeCall, ServeTimesOut, ServeFails,
                TcpServe, Accept, AcceptFails, ServeReads, UdpServe, UdpServerReceive,
                UdpServerSend, UdpServerFails, Ended, Waits
  <2>2. QED BY <2>1 DEF ClosedAtEnd
<1>3. ASSUME NEW c \in Clients, Handle(c) \/ Begin(c) \/ Client(c)
      PROVE  ClosedAtEnd'
  BY <1>3 DEF Handle, Handler, HandlerTake, HandlerPut, HandlerEnds, Begin, Connect,
      UdpSend, Client, TcpClient, ClientSend, ClientSent, ClientReceive, ClientReturn,
      ClientFails, UdpClientReceive, UdpClientFails, serverVars, Ended, ClosedAtEnd
<1>4. CASE UNCHANGED vars
  BY <1>4 DEF vars, serverVars, Ended, ClosedAtEnd
<1>5. QED BY <1>1, <1>2, <1>3, <1>4 DEF Next, Finished

-----------------------------------------------------------------------------
\* All of it.

LEMMA InitInv == Init => IInv
<1> SUFFICES ASSUME Init PROVE IInv  OBVIOUS
<1>1. TypeOK
  BY InitTypes
<1>2. StreamsAccounted /\ CutShort
  BY StreamsInit, StreamsAre
<1>3. DatagramsAccounted /\ EchoFromOwnPort /\ ClosedAtEnd
  BY DEF Init, ServerInit, ClientInit, UdpInit, DatagramsAccounted, EchoFromOwnPort,
         ClosedAtEnd, Ended
<1>4. QED BY <1>1, <1>2, <1>3 DEF IInv, Accounted

LEMMA StepInv == IInv /\ [Next]_vars => IInv'
<1> SUFFICES ASSUME IInv, [Next]_vars PROVE IInv'  OBVIOUS
<1>1. /\ TypeOK /\ DatagramsAccounted /\ EchoFromOwnPort
      /\ StreamsAccounted /\ CutShort /\ ClosedAtEnd
  BY DEF IInv, Accounted
<1>2. TypeOK'
  BY <1>1, TypesStep, StartsAssumption, StreamAssumption, PortsAssumption
<1>3. DatagramsAccounted' /\ EchoFromOwnPort'
  BY <1>1, DatagramsStep, OwnPortStep, StreamAssumption, PortsAssumption
<1>4. ASSUME role' = "tcp" PROVE \A c \in Clients : StreamOf(c)'
  <2>1. role = "tcp"
    BY <1>4 DEF Next, Owner, Serve, Handle, Begin, Client, Finished, vars
  <2>2. \A c \in Clients : StreamOf(c)
    BY <1>1, <2>1, StreamsAre
  <2>3. CASE UNCHANGED vars
    BY <2>2, <2>3, StreamUntouched DEF vars, serverVars, clientVars, tcpVars
  <2>4. QED BY <1>1, <2>1, <2>2, <2>3, StreamsOwner, StreamsServe, StreamsHandle,
               StreamsClient, StreamAssumption DEF Next, Finished
<1>5. StreamsAccounted' /\ CutShort'
  BY <1>4, Zenon DEF StreamsAccounted, CutShort, StreamOf
<1>6. ClosedAtEnd'
  BY <1>1, ClosedStep
<1>7. QED BY <1>2, <1>3, <1>5, <1>6 DEF IInv, Accounted

LEMMA Invariance == Spec => []IInv
  BY InitInv, StepInv, PTL DEF Spec

\* The server, the clients, the connections and the datagrams keep to their
\* types (tcp_udp.py:28-157).
THEOREM EchoTypes == Spec => []TypeOK
<1>1. IInv => TypeOK
  BY DEF IInv
<1>2. QED BY Invariance, <1>1, PTL

\* What is under way is accounted for, whatever is stopped, closed or ended in
\* the meantime (tcp_udp.py:58-67, 98-104, 123-129).
THEOREM NothingMadeUp == Spec => []Accounted
<1>1. IInv => Accounted
  BY DEF IInv
<1>2. QED BY Invariance, <1>1, PTL

\* No transfer is cut short while the server's process lives and its threads
\* start (tcp_udp.py:58-67, 125-129).
THEOREM TransfersComplete == Spec => []EchoComplete
<1>1. IInv => EchoComplete
  BY DEF IInv, Accounted, CutShort, EchoComplete
<1>2. QED BY Invariance, <1>1, PTL

\* A client and its handler wait for each other only over a payload that is
\* longer than both directions hold (tcp_udp.py:67, 123-126).
THEOREM SmallPayloadsFlow == Spec => []StallsOnlyWhenFull
<1>1. ASSUME IInv, NEW c \in Clients, role = "tcp", Stalled(c)
      PROVE  client[c] = "send" /\ payload[c] > 2 * Window + 1
  <2>1. StreamOf(c) /\ ClientTypeOK /\ TcpTypeOK
    BY <1>1, StreamsAre DEF IInv, Accounted, TypeOK
  <2>2. /\ received[c] \in Nat /\ echoed[c] \in Nat /\ taken[c] \in Nat
        /\ sent[c] \in Nat /\ payload[c] \in Nat /\ Window \in Nat \ {0}
    BY <2>1, StreamAssumption DEF ClientTypeOK, TcpTypeOK
  <2>3. CASE client[c] = "send"
    <3>1. sent[c] < payload[c] /\ sent[c] - taken[c] >= Window
      BY <1>1, <2>3 DEF Stalled
    <3>2. handler[c] = "send" /\ echoed[c] - received[c] >= Window
      BY <1>1, <2>2, <3>1 DEF Stalled, Handled
    <3>3. echoed[c] < taken[c]
      BY <2>1, <3>2 DEF StreamOf
    <3>4. QED BY <2>2, <2>3, <3>1, <3>2, <3>3
  <2>4. CASE client[c] # "send"
    <3>1. client[c] = "recv" /\ received[c] < payload[c] /\ received[c] >= echoed[c]
      BY <1>1, <2>4 DEF Stalled
    <3>2. sent[c] = payload[c] /\ received[c] = echoed[c]
      BY <2>1, <2>2, <3>1 DEF StreamOf
    <3>3. handler[c] # "send"
      BY <1>1, <2>2, <3>2 DEF Stalled
    <3>4. handler[c] = "recv" /\ taken[c] >= sent[c] /\ echoed[c] = taken[c]
      BY <1>1, <2>1, <2>2, <3>3 DEF Stalled, Handled, StreamOf
    <3>5. QED BY <2>2, <3>1, <3>2, <3>4
  <2>5. QED BY <2>3, <2>4
<1>2. IInv => StallsOnlyWhenFull
  BY <1>1 DEF StallsOnlyWhenFull
<1>3. QED BY Invariance, <1>2, PTL

\* A UDP client that returns has the echo of a datagram that was sent from its
\* port (tcp_udp.py:98-104, 146-147).
THEOREM EchoesComeHome == Spec => []EchoFromOwnPort
<1>1. IInv => EchoFromOwnPort
  BY DEF IInv
<1>2. QED BY Invariance, <1>1, PTL

-----------------------------------------------------------------------------
\* The contract with the clients.

\* What of the server's state the contract shows.
Shown == <<Transfer, payload, sent, Back, Served, Cut, owner = "exited">>

LEMMA ContractInit == Init => Contract!Init
<1> SUFFICES ASSUME Init PROVE Contract!Init  OBVIOUS
<1>1. /\ client = [c \in Clients |-> "idle"] /\ received = [c \in Clients |-> 0]
      /\ handler = [c \in Clients |-> "none"] /\ conn = [c \in Clients |-> "none"]
  BY DEF Init, ClientInit, TcpInit
<1>2. Transfer = [c \in Clients |-> "none"]
  BY <1>1 DEF Transfer
<1>3. Back = [c \in Clients |-> 0]
  BY <1>1 DEF Back
<1>4. Served = [c \in Clients |-> FALSE]
  BY <1>1 DEF Served
<1>5. Cut = [c \in Clients |-> FALSE]
  <2>1. \A c \in Clients : (conn[c] \in {"fin", "reset"}) = FALSE
    BY <1>1
  <2>2. QED BY <2>1, Zenon DEF Cut
<1>6. payload \in [Clients -> Nat] /\ sent = [c \in Clients |-> 0] /\ ~(owner = "exited")
  BY StreamAssumption DEF Init, ServerInit, ClientInit, TcpInit
<1>7. QED BY <1>2, <1>3, <1>4, <1>5, <1>6 DEF Contract!Init, Contract!All

\* A step of one client shows in its transfer only, or in its bytes.
LEMMA ContractClient ==
  ASSUME TypeOK, ClosedAtEnd, role = "tcp", \A c \in Clients : StreamOf(c),
         NEW d \in Clients, Begin(d) \/ Client(d)
  PROVE  \/ Contract!Open(d) \/ Contract!Forth(d) \/ Contract!Back(d)
         \/ Contract!Return(d) \/ Contract!GiveUp(d)
         \/ UNCHANGED Shown
<1> DEFINE Goes(pc) == Transfer' = [Transfer EXCEPT ![d] = pc]
<1>1. UNCHANGED <<owner, handler, payload, role>>
  BY DEF Begin, Client, Connect, TcpClient, ClientSend, ClientSent, ClientReceive,
         ClientReturn, ClientFails, serverVars, tcpVars, clientVars
<1>2. UNCHANGED <<Served, payload, owner = "exited">>
  BY <1>1 DEF Served
<1>3. StreamOf(d)
  OBVIOUS
<1>4. ASSUME UNCHANGED <<sent, received, conn>> PROVE UNCHANGED <<sent, Back, Cut>>
  BY <1>1, <1>4 DEF Back, Cut
<1>5. CASE Connect(d)
  <2>1. Transfer[d] = "none" /\ Goes("open")
    BY <1>1, <1>5 DEF Connect, ClientGoto, Transfer, TypeOK, ClientTypeOK
  <2>2. UNCHANGED <<sent, Back, Cut>>
    BY <1>1, <1>5 DEF Connect, Back, Cut, TypeOK, TcpTypeOK, StreamOf
  <2>3. ~(owner = "exited")
    BY <1>5 DEF Connect, Bound, ClosedAtEnd, TypeOK, ServerTypeOK
  <2>4. QED BY <1>2, <2>1, <2>2, <2>3 DEF Contract!Open
<1>6. CASE ClientSend(d)
  <2>1. Transfer[d] = "open" /\ UNCHANGED <<Transfer, Back, Cut>>
    BY <1>1, <1>6 DEF ClientSend, clientVars, Transfer, Back, Cut
  <2>2. QED BY <1>2, <1>6, <2>1 DEF ClientSend, Contract!Forth
<1>7. CASE ClientSent(d)
  <2>1. UNCHANGED Transfer
    BY <1>1, <1>7 DEF ClientSent, ClientGoto, Transfer, TypeOK, ClientTypeOK
  <2>2. QED BY <1>2, <1>4, <1>7, <2>1 DEF ClientSent, tcpVars, Shown
<1>8. CASE ClientReceive(d)
  <2>1. Transfer[d] = "open" /\ UNCHANGED <<Transfer, Cut, sent>>
    BY <1>1, <1>8 DEF ClientReceive, tcpVars, Transfer, Cut
  <2>2. Back' = [Back EXCEPT ![d] = @ + 1] /\ Back[d] < sent[d]
    BY <1>1, <1>3, <1>8
    DEF ClientReceive, Back, StreamOf, TypeOK, ClientTypeOK, TcpTypeOK
  <2>3. taken[d] # 0
    BY <1>3, <1>8 DEF ClientReceive, StreamOf, TypeOK, ClientTypeOK, TcpTypeOK
  <2>4. Served[d]
    BY <1>3, <2>3 DEF Served, StreamOf
  <2>5. QED BY <1>2, <2>1, <2>2, <2>4 DEF Contract!Back
<1>9. CASE ClientReturn(d)
  <2>1. Transfer[d] = "open" /\ Goes("returned")
    BY <1>1, <1>9 DEF ClientReturn, ClientGoto, Transfer, TypeOK, ClientTypeOK
  <2>2. sent[d] = payload[d] /\ (Back[d] = payload[d] \/ Cut[d])
    BY <1>3, <1>9 DEF ClientReturn, Back, Cut, StreamOf
  <2>3. QED BY <1>2, <1>4, <1>9, <2>1, <2>2 DEF ClientReturn, tcpVars, Contract!Return
<1>10. CASE ClientFails(d)
  <2>1. Goes("raised")
    BY <1>1, <1>10 DEF ClientFails, ClientGoto, Transfer, TypeOK, ClientTypeOK
  <2>2. \/ Transfer[d] = "none"
        \/ Transfer[d] = "open" /\ Back[d] < payload[d]
    BY <1>3, <1>10
    DEF ClientFails, Transfer, Back, StreamOf, TypeOK, ClientTypeOK, TcpTypeOK
  <2>3. QED BY <1>2, <1>4, <1>10, <2>1, <2>2 DEF ClientFails, tcpVars, Contract!GiveUp
<1>11. QED BY <1>5, <1>6, <1>7, <1>8, <1>9, <1>10 DEF Begin, Client, TcpClient

\* A handler shows when it ends, and not before its client has.
LEMMA ContractHandle ==
  ASSUME TypeOK, role = "tcp", NEW d \in Clients, Handle(d)
  PROVE  Contract!Cut \/ UNCHANGED Shown
<1>1. /\ UNCHANGED <<owner, sent, payload, Transfer, Back>>
      /\ handler[d] # "none" /\ handler'[d] # "none"
      /\ \A c \in Clients : c # d => handler'[c] = handler[c]
  BY DEF Handle, Handler, HandlerTake, HandlerPut, HandlerEnds, Handled, serverVars,
         clientVars, Transfer, Back, TypeOK, TcpTypeOK
<1>2. UNCHANGED Served
  BY <1>1 DEF Served
<1>3. CASE HandlerTake(d) \/ HandlerPut(d)
  <2>1. UNCHANGED Cut
    BY <1>3 DEF HandlerTake, HandlerPut, Cut
  <2>2. QED BY <1>1, <1>2, <2>1 DEF Shown
<1>4. CASE HandlerEnds(d)
  <2>1. Cut' \in [Clients -> BOOLEAN]
    BY DEF Cut
  <2>2. \A c \in Clients : (Cut[c] => Cut'[c]) /\ (Cut'[c] => Cut[c] \/ c = d)
    BY <1>4 DEF HandlerEnds, Cut, TypeOK, TcpTypeOK
  <2>3. Transfer[d] \in {"returned", "raised"}
    BY <1>4 DEF HandlerEnds, Over, Transfer
  <2>4. QED BY <1>1, <1>2, <2>1, <2>2, <2>3
            DEF Contract!Cut, Contract!CutAmong, Contract!Opened, Contract!Over
<1>5. QED BY <1>3, <1>4 DEF Handle, Handler

\* The serve loop takes a connection up, or drops it.
LEMMA ContractServe ==
  ASSUME TypeOK, ClosedAtEnd, role = "tcp", \A c \in Clients : StreamOf(c),
         NEW t \in Starts, Serve(t)
  PROVE  (\E c \in Clients : Contract!Serve(c)) \/ Contract!Cut \/ UNCHANGED Shown
<1>1. CASE ServeLoop(t) /\ UNCHANGED <<clientVars, tcpVars, role>>
  BY <1>1 DEF ServeLoop, ServeCheck, ServeCall, ServeTimesOut, ServeFails, clientVars,
              tcpVars, Shown, Transfer, Back, Served, Cut
<1>2. ASSUME NEW d \in Clients, Accept(t, d) \/ AcceptFails(t, d), role' = role
      PROVE  Contract!Serve(d) \/ Contract!Cut
  <2>1. UNCHANGED <<owner, sent, payload, Transfer, Back>>
    BY <1>2 DEF Accept, AcceptFails, ServeReads, clientVars, Transfer, Back
  <2>2. ~(owner = "exited")
    BY <1>2 DEF Accept, AcceptFails, ServeReads, ClosedAtEnd, Ended, Waits
  <2>3. conn[d] = "queued" /\ handler[d] = "none" /\ Transfer[d] # "none"
    BY <1>2 DEF Accept, AcceptFails, StreamOf, Transfer, TypeOK, ClientTypeOK
  <2>4. CASE Accept(t, d)
    <3>1. Served' = [Served EXCEPT ![d] = TRUE]
      BY <2>4 DEF Accept, Served, TypeOK, TcpTypeOK
    <3>2. UNCHANGED Cut
      BY <2>3, <2>4 DEF Accept, Cut, TypeOK, TcpTypeOK
    <3>3. ~Served[d] /\ ~Cut[d]
      BY <2>3 DEF Served, Cut
    <3>4. QED BY <2>1, <2>2, <2>3, <3>1, <3>2, <3>3 DEF Contract!Serve
  <2>5. CASE AcceptFails(t, d)
    <3>1. Cut' \in [Clients -> BOOLEAN]
      BY DEF Cut
    <3>2. UNCHANGED Served
      BY <2>5 DEF AcceptFails, Served
    <3>3. ~Served[d]
      BY <2>3 DEF Served
    <3>4. \A c \in Clients : (Cut[c] => Cut'[c]) /\ (Cut'[c] => Cut[c] \/ c = d)
      BY <2>3, <2>5 DEF AcceptFails, Cut, TypeOK, TcpTypeOK
    <3>5. QED BY <2>1, <2>3, <3>1, <3>2, <3>3, <3>4
              DEF Contract!Cut, Contract!CutAmong, Contract!Opened, Contract!Over
  <2>6. QED BY <1>2, <2>4, <2>5
<1>3. QED BY <1>1, <1>2 DEF Serve, TcpServe

\* The owner cuts the connections nobody serves, the end of the process all.
LEMMA ContractOwner ==
  ASSUME TypeOK, role = "tcp", \A c \in Clients : StreamOf(c), Owner
  PROVE  Contract!Cut \/ Contract!Go \/ UNCHANGED Shown
<1>1. CASE OwnerStep /\ UNCHANGED <<clientVars, tcpVars, role>>
  BY <1>1 DEF OwnerStep, Start, Listen, Launch, StartFails, Stop, Join, clientVars,
              tcpVars, Shown, Transfer, Back, Served, Cut
<1>2. CASE TcpClose /\ role' = role
  <2>1. UNCHANGED <<sent, payload, Transfer, Back, Served, owner = "exited">>
    BY <1>2 DEF TcpClose, Close, clientVars, Transfer, Back, Served
  <2>2. Cut' \in [Clients -> BOOLEAN]
    BY DEF Cut
  <2>3. ASSUME NEW c \in Clients
        PROVE  (Cut[c] => Cut'[c]) /\ (Cut'[c] => Cut[c] \/ conn[c] = "queued")
    BY <1>2 DEF TcpClose, Cut
  <2>4. ASSUME NEW c \in Clients, conn[c] = "queued"
        PROVE  ~Served[c] /\ Transfer[c] # "none"
    BY <2>4 DEF StreamOf, Served, Transfer, TypeOK, ClientTypeOK
  <2>5. QED BY <2>1, <2>2, <2>3, <2>4
            DEF Contract!Cut, Contract!CutAmong, Contract!Opened, Contract!Over
<1>3. CASE TcpExit /\ role' = role
  <2>1. /\ UNCHANGED <<sent, payload, Transfer, Back>>
        /\ ~(owner = "exited") /\ owner' = "exited"
    BY <1>3 DEF TcpExit, Exit, clientVars, Transfer, Back
  <2>2. UNCHANGED Served
    BY <1>3 DEF TcpExit, Handled, Served
  <2>3. Cut' \in [Clients -> BOOLEAN]
    BY DEF Cut
  <2>4. ASSUME NEW c \in Clients
        PROVE  (Cut[c] => Cut'[c]) /\ (Cut'[c] => Cut[c] \/ conn[c] = "queued" \/ Handled(c))
    BY <1>3 DEF TcpExit, Cut
  <2>5. ASSUME NEW c \in Clients, conn[c] = "queued" \/ Handled(c)
        PROVE  Transfer[c] # "none"
    BY <2>5 DEF StreamOf, Handled, Transfer, TypeOK, ClientTypeOK
  <2>6. QED BY <2>1, <2>2, <2>3, <2>4, <2>5
            DEF Contract!Go, Contract!CutAmong, Contract!Opened
<1>4. QED BY <1>1, <1>2, <1>3 DEF Owner

\* A UDP server shows nothing but its end.
LEMMA ContractUdp ==
  ASSUME role = "udp", [Next]_vars
  PROVE  Contract!Go \/ UNCHANGED Shown
<1>1. role' = role /\ payload' = payload /\ tcpVars' = tcpVars
  BY PayloadsKept
  DEF Next, Owner, OwnerStep, Serve, ServeLoop, Handle, Begin, Client, Finished, vars
<1>2. UNCHANGED <<Transfer, payload, sent, Back, Served, Cut>>
  BY <1>1 DEF tcpVars, Transfer, Back, Served, Cut
<1>3. \/ owner' = owner
      \/ owner # "exited" /\ owner' = "exited"
      \/ owner # "exited" /\ owner' # "exited"
  BY DEF Next, Owner, OwnerStep, Start, Listen, Launch, StartFails, Stop, Join, Close, Exit,
      Serve, ServeLoop, ServeCheck, ServeCall, ServeTimesOut, ServeFails, UdpServe,
      UdpServerReceive, UdpServerSend, UdpServerFails, ServeReads, Handle, Begin,
      UdpSend, Client, UdpClientReceive, UdpClientFails, Finished, serverVars, vars
<1>4. CASE owner # "exited" /\ owner' = "exited"
  <2>1. Cut' \in [Clients -> BOOLEAN]
    BY DEF Cut
  <2>2. QED BY <1>2, <1>4, <2>1 DEF Contract!Go, Contract!CutAmong
<1>5. QED BY <1>2, <1>3, <1>4 DEF Shown

\* The server and its clients keep the contract: a transfer ends with less than
\* was sent only by an exception, or over a connection that nobody served or
\* that the end of the process cut (tcp_udp.py:38-67, 119-130).
THEOREM TransfersAreAsPromised == Spec => TransfersAsPromised
<1>1. ASSUME IInv, [Next]_vars PROVE [Contract!Next]_(Contract!vars)
  <2>1. UNCHANGED Shown => UNCHANGED Contract!vars
    BY DEF Shown, Contract!vars
  <2>2. CASE role = "udp"
    BY <1>1, <2>1, <2>2, ContractUdp DEF Contract!Next
  <2>3. CASE role = "tcp"
    <3>1. TypeOK /\ ClosedAtEnd /\ \A c \in Clients : StreamOf(c)
      BY <1>1, <2>3, StreamsAre DEF IInv, Accounted
    <3>2. CASE Owner
      BY <2>1, <2>3, <3>1, <3>2, ContractOwner DEF Contract!Next
    <3>3. ASSUME NEW t \in Starts, Serve(t) PROVE [Contract!Next]_(Contract!vars)
      BY <2>1, <2>3, <3>1, <3>3, ContractServe DEF Contract!Next
    <3>4. ASSUME NEW c \in Clients, Handle(c) PROVE [Contract!Next]_(Contract!vars)
      BY <2>1, <2>3, <3>1, <3>4, ContractHandle DEF Contract!Next
    <3>5. ASSUME NEW c \in Clients, Begin(c) \/ Client(c)
          PROVE  [Contract!Next]_(Contract!vars)
      BY <2>1, <2>3, <3>1, <3>5, ContractClient DEF Contract!Next
    <3>6. CASE UNCHANGED vars
      BY <2>1, <3>6 DEF vars, serverVars, clientVars, tcpVars, Shown,
                        Transfer, Back, Served, Cut
    <3>7. QED BY <1>1, <3>2, <3>3, <3>4, <3>5, <3>6 DEF Next, Finished
  <2>4. QED BY <1>1, <2>2, <2>3 DEF IInv, TypeOK
<1>2. QED BY ContractInit, <1>1, Invariance, PTL
          DEF Spec, TransfersAsPromised, Contract!Spec
=============================================================================
