---------------------------- MODULE CaptureProofs ----------------------------
(***************************************************************************)
(* What the trackers record is what the packets imply: proofs, for every   *)
(* traffic and captures of every length.                                   *)
(***************************************************************************)
EXTENDS CaptureInvariant, FiniteSetTheorems, TLAPS

-----------------------------------------------------------------------------
(* Classification: the parser's order and the reference agree.             *)

\* The order in which parse() tries the parsers.
Order == <<"DNS", "HTTP", "TCP", "UDP", "ICMP">>

\* FirstLayer finds the layer before which no other of the order is present.
LEMMA FirstLayerFound ==
  ASSUME NEW p, NEW i \in 1..5, Order[i] \in p.layers,
         \A j \in 1..(i-1) : Order[j] \notin p.layers
  PROVE  FirstLayer(Order, p) = Order[i]
<1> DEFINE found == {n \in DOMAIN Order : Order[n] \in p.layers}
           m == CHOOSE n \in found : \A k \in found : n <= k
<1>1. DOMAIN Order = 1..5
  BY DEF Order
<1>2. i \in found /\ \A k \in found : i <= k
  BY <1>1
<1>3. m \in found /\ \A k \in found : m <= k
  BY <1>2
<1>4. m = i
  BY <1>1, <1>2, <1>3
<1> HIDE DEF m
<1>5. FirstLayer(Order, p) = Order[m]
  BY <1>2 DEF FirstLayer, m
<1> QED
  BY <1>4, <1>5

\* Without any layer of the order, there is none to find.
LEMMA FirstLayerMissing ==
  ASSUME NEW p, \A i \in 1..5 : Order[i] \notin p.layers
  PROVE  FirstLayer(Order, p) = "OTHER"
<1>1. {n \in DOMAIN Order : Order[n] \in p.layers} = {}
  BY DEF Order
<1> QED
  BY <1>1 DEF FirstLayer

\* parse() files a packet under DNS, HTTP or TCP exactly if the reference does.
LEMMA Classified ==
  ASSUME NEW p
  PROVE  /\ Protocol(p) \in Protocols
         /\ Protocol(p) = "DNS" <=> IsDns(p)
         /\ Protocol(p) = "HTTP" <=> IsHttp(p) /\ ~IsDns(p)
         /\ Protocol(p) = "TCP" <=> IsTcp(p)
<1>0. Order[1] = "DNS" /\ Order[2] = "HTTP" /\ Order[3] = "TCP"
        /\ Order[4] = "UDP" /\ Order[5] = "ICMP"
  BY DEF Order
<1>1. CASE "IP" \notin p.layers
  <2>1. Protocol(p) \in {"ARP", "OTHER"}
    BY <1>1 DEF Protocol
  <2> QED
    BY <1>1, <2>1 DEF IsDns, IsHttp, IsTcp, Protocols
<1>2. CASE "IP" \in p.layers
  <2>1. Protocol(p) = FirstLayer(Order, p)
    BY <1>2 DEF Protocol, Order
  <2>2. CASE "DNS" \in p.layers
    <3>1. Protocol(p) = "DNS"
      BY <1>0, <2>1, <2>2, FirstLayerFound
    <3> QED
      BY <1>2, <2>2, <3>1 DEF IsDns, IsHttp, IsTcp, Protocols
  <2>3. CASE "DNS" \notin p.layers /\ "HTTP" \in p.layers
    <3>1. Protocol(p) = "HTTP"
      <4>1. \A j \in 1..(2-1) : Order[j] \notin p.layers
        BY <1>0, <2>3
      <4> QED
        BY <1>0, <2>1, <2>3, <4>1, FirstLayerFound
    <3> QED
      BY <1>2, <2>3, <3>1 DEF IsDns, IsHttp, IsTcp, Protocols
  <2>4. CASE "DNS" \notin p.layers /\ "HTTP" \notin p.layers /\ "TCP" \in p.layers
    <3>1. Protocol(p) = "TCP"
      <4>1. \A j \in 1..(3-1) : Order[j] \notin p.layers
        BY <1>0, <2>4
      <4> QED
        BY <1>0, <2>1, <2>4, <4>1, FirstLayerFound
    <3> QED
      BY <1>2, <2>4, <3>1 DEF IsDns, IsHttp, IsTcp, Protocols
  <2>5. CASE /\ "DNS" \notin p.layers /\ "HTTP" \notin p.layers
             /\ "TCP" \notin p.layers
    <3>1. Protocol(p) \in {"UDP", "ICMP", "OTHER"}
      <4>1. CASE "UDP" \in p.layers
        <5>1. \A j \in 1..(4-1) : Order[j] \notin p.layers
          BY <1>0, <2>5
        <5> QED
          BY <1>0, <2>1, <4>1, <5>1, FirstLayerFound
      <4>2. CASE "UDP" \notin p.layers /\ "ICMP" \in p.layers
        <5>1. \A j \in 1..(5-1) : Order[j] \notin p.layers
          BY <1>0, <2>5, <4>2
        <5> QED
          BY <1>0, <2>1, <4>2, <5>1, FirstLayerFound
      <4>3. CASE "UDP" \notin p.layers /\ "ICMP" \notin p.layers
        <5>1. \A j \in 1..5 : Order[j] \notin p.layers
          BY <1>0, <2>5, <4>3
        <5> QED
          BY <2>1, <5>1, FirstLayerMissing
      <4> QED
        BY <4>1, <4>2, <4>3
    <3> QED
      BY <1>2, <2>5, <3>1 DEF IsDns, IsHttp, IsTcp, Protocols
  <2> QED
    BY <2>2, <2>3, <2>4, <2>5
<1> QED
  BY <1>1, <1>2

-----------------------------------------------------------------------------
(* Facts about packets, dialogues and captures.                            *)

\* What the layers of a packet tell of its fields.
LEMMA PacketKinds ==
  ASSUME NEW p \in Packets
  PROVE  /\ IsDns(p) => p \in DnsPackets /\ ~IsHttp(p)
         /\ IsHttp(p) => p \in HttpPackets
         /\ IsTcp(p) => p \in TcpSegments
<1>1. CASE p \in DnsPackets
  BY <1>1 DEF IsDns, IsHttp, IsTcp, DnsPackets
<1>2. CASE p \in HttpPackets
  BY <1>2 DEF IsDns, IsHttp, IsTcp, HttpPackets
<1>3. CASE p \in TcpSegments
  BY <1>3 DEF IsDns, IsHttp, IsTcp, TcpSegments
<1>4. CASE p \in OtherPackets
  BY <1>4 DEF IsDns, IsHttp, IsTcp, OtherPackets
<1> QED
  BY <1>1, <1>2, <1>3, <1>4 DEF Packets

\* A flow turned around twice is the flow.
LEMMA TurnAround ==
  ASSUME NEW f \in Flows
  PROVE  /\ <<f[2], f[1]>> \in Flows
         /\ <<f[1], f[2]>> = f
  BY DEF Flows

\* Messages of a message's dialogue are the messages of that dialogue.
LEMMA DialogueTransitive ==
  ASSUME NEW p \in Packets, NEW q \in Packets, NEW r \in Packets,
         SameDialogue(q, p)
  PROVE  SameDialogue(r, p) <=> SameDialogue(r, q)
<1>1. CASE IsDns(p)
  <2>1. IsDns(q) /\ ~IsHttp(p) /\ ~IsHttp(q) /\ p.id = q.id
    BY <1>1, PacketKinds DEF SameDialogue
  <2> QED
    BY <1>1, <2>1 DEF SameDialogue
<1>2. CASE ~IsDns(p)
  <2>1. IsHttp(p) /\ IsHttp(q) /\ ~IsDns(q) /\ SameConnection(q, p)
    BY <1>2, PacketKinds DEF SameDialogue
  <2>2. SUFFICES ASSUME IsHttp(r)
                 PROVE  SameConnection(r, p) <=> SameConnection(r, q)
    BY <1>2, <2>1, <2>2 DEF SameDialogue
  <2>3. /\ p.flow \in Flows /\ q.flow \in Flows /\ r.flow \in Flows
        /\ p.response \in BOOLEAN /\ q.response \in BOOLEAN /\ r.response \in BOOLEAN
    BY <2>1, <2>2, PacketKinds DEF HttpPackets
  <2>4. /\ <<p.flow[1], p.flow[2]>> = p.flow
        /\ <<q.flow[1], q.flow[2]>> = q.flow
    BY <2>3, TurnAround
  <2>5. CASE q.response = p.response
    BY <2>1, <2>5 DEF SameConnection
  <2>6. CASE q.response # p.response
    <3>1. q.flow = <<p.flow[2], p.flow[1]>>
      BY <2>1, <2>6 DEF SameConnection
    <3>2. p.flow = <<q.flow[2], q.flow[1]>>
      BY <3>1, <2>4
    <3>3. r.response = q.response <=> r.response # p.response
      BY <2>3, <2>6
    <3> QED
      BY <3>1, <3>2, <3>3 DEF SameConnection
  <2> QED
    BY <2>5, <2>6
<1> QED
  BY <1>1, <1>2

LEMMA DialogueSymmetric ==
  ASSUME NEW p \in Packets, NEW q \in Packets, SameDialogue(q, p)
  PROVE  SameDialogue(p, q)
<1>1. CASE IsDns(p)
  BY <1>1, PacketKinds DEF SameDialogue
<1>2. CASE ~IsDns(p)
  <2>1. SameDialogue(p, p)
    BY <1>2 DEF SameDialogue, SameConnection
  <2> QED
    BY <2>1, DialogueTransitive
<1> QED
  BY <1>1, <1>2

\* A capture with one more packet.
LEMMA OneMore ==
  ASSUME NEW ps \in Seq(Packets), NEW p \in Packets
  PROVE  /\ Append(ps, p) \in Seq(Packets)
         /\ Len(ps) \in Nat /\ Len(Append(ps, p)) = Len(ps) + 1
         /\ DOMAIN ps = 1..Len(ps) /\ DOMAIN Append(ps, p) = 1..(Len(ps) + 1)
         /\ \A i \in 1..Len(ps) : ps[i] \in Packets /\ Append(ps, p)[i] = ps[i]
         /\ Append(ps, p)[Len(ps) + 1] = p
  OBVIOUS

\* What a packet answers or repeats does not depend on those that follow.
LEMMA PastIsSettled ==
  ASSUME NEW ps \in Seq(Packets), NEW p \in Packets, NEW r \in 1..Len(ps)
  PROVE  /\ RequestOf(Append(ps, p), r) = RequestOf(ps, r)
         /\ Repeats(Append(ps, p), r) = Repeats(ps, r)
<1> DEFINE ns == Append(ps, p)
<1>1. /\ Len(ps) \in Nat
      /\ \A i \in 1..Len(ps) : ns[i] = ps[i]
  BY OneMore
<1> HIDE DEF ns
<1>2. RequestOf(ns, r) = RequestOf(ps, r)
  BY <1>1 DEF RequestOf
<1>3. Repeats(ns, r) = Repeats(ps, r)
  <2>1. ns[r] = ps[r] /\ \A j \in 1..(r-1) : ns[j] = ps[j]
    BY <1>1
  <2>2. Repeats(ns, r) <=> Repeats(ps, r)
    BY <2>1 DEF Repeats
  <2> QED
    BY <2>2 DEF Repeats
<1> QED
  BY <1>2, <1>3 DEF ns

\* A new message answers what is open in its dialogue.
LEMMA AnswersOpen ==
  ASSUME NEW ps \in Seq(Packets), NEW p \in Packets
  PROVE  RequestOf(Append(ps, p), Len(ps) + 1) =
           {q \in 1..Len(ps) : SameDialogue(ps[q], p) /\ Open(ps, q)}
<1> DEFINE ns == Append(ps, p)
           n == Len(ps)
<1>1. /\ n \in Nat /\ ns[n + 1] = p
      /\ \A i \in 1..n : ns[i] = ps[i] /\ ps[i] \in Packets
  BY OneMore
<1> HIDE DEF ns
<1>2. RequestOf(ns, n + 1) =
        {q \in 1..n : /\ SameDialogue(ps[q], p) /\ ~ps[q].response
                      /\ \A j \in (q+1)..n : ~SameDialogue(ps[j], p)}
  BY <1>1 DEF RequestOf
<1>3. ASSUME NEW q \in 1..n, SameDialogue(ps[q], p)
      PROVE  (\A j \in (q+1)..n : ~SameDialogue(ps[j], p)) <=>
               (\A j \in (q+1)..n : ~SameDialogue(ps[j], ps[q]))
  <2>1. ASSUME NEW j \in (q+1)..n
        PROVE  SameDialogue(ps[j], p) <=> SameDialogue(ps[j], ps[q])
    <3>1. j \in 1..n
      BY <1>1
    <3> QED
      BY <1>1, <1>3, <3>1, DialogueTransitive
  <2> QED
    BY <2>1
<1> QED
  BY <1>2, <1>3 DEF Open, ns

\* A new packet closes what was open in its dialogue, and is open if it is a
\* request.
LEMMA OpenNext ==
  ASSUME NEW ps \in Seq(Packets), NEW p \in Packets
  PROVE  /\ \A q \in 1..Len(ps) :
              Open(Append(ps, p), q) <=> Open(ps, q) /\ ~SameDialogue(p, ps[q])
         /\ Open(Append(ps, p), Len(ps) + 1) <=> ~p.response
<1> DEFINE ns == Append(ps, p)
           n == Len(ps)
<1>1. /\ n \in Nat /\ ns[n + 1] = p /\ Len(ns) = n + 1
      /\ \A i \in 1..n : ns[i] = ps[i]
  BY OneMore
<1> HIDE DEF ns
<1>2. ASSUME NEW q \in 1..n
      PROVE  Open(ns, q) <=> Open(ps, q) /\ ~SameDialogue(p, ps[q])
  <2>1. (q+1)..(n+1) = ((q+1)..n) \cup {n + 1}
    BY <1>1
  <2>2. \A j \in (q+1)..n : ns[j] = ps[j]
    BY <1>1
  <2>3. ns[q] = ps[q]
    BY <1>1
  <2> QED
    BY <1>1, <2>1, <2>2, <2>3 DEF Open
<1>3. Open(ns, n + 1) <=> ~p.response
  BY <1>1 DEF Open
<1> QED
  BY <1>2, <1>3 DEF ns

-----------------------------------------------------------------------------
(* Types.                                                                  *)

LEMMA InitTypes == Init => TypeOK
<1> SUFFICES ASSUME Init PROVE TypeOK
  OBVIOUS
<1>1. 0 \in Times
  BY TrafficAssumption DEF Times
<1>2. DnsTypeOK
  BY <1>1 DEF Init, DnsInit, DnsTypeOK
<1>3. HttpTypeOK
  BY <1>1 DEF Init, HttpInit, HttpTypeOK
<1>4. TcpTypeOK
  BY DEF Init, TcpInit, TcpTypeOK
<1>5. DetectorTypeOK
  BY DEF Init, DetectorInit, DetectorTypeOK
<1> QED
  BY <1>1, <1>2, <1>3, <1>4, <1>5 DEF Init, TypeOK

\* What every packet that is parsed changes.
LEMMA ParseAppends ==
  ASSUME TypeOK, NEW p \in Traffic, Parse(p)
  PROVE  /\ p \in Packets /\ packets \in Seq(Packets)
         /\ packets' = Append(packets, p) /\ packets' \in Seq(Traffic)
         /\ Len(packets) + 1 \in Nat
         /\ protocolCounts' \in [Protocols -> Nat]
         /\ DetectorTypeOK' /\ phase' = phase /\ now' = now
<1>1. Protocol(p) \in Protocols
  BY Classified
<1>2. protocolCounts' \in [Protocols -> Nat]
  BY <1>1 DEF Parse, TypeOK
<1> QED
  BY <1>2, TrafficAssumption DEF Parse, TypeOK, DetectorTypeOK

LEMMA TimesDiffer ==
  0 \in Times /\ \A s, t \in Times : s - t \in Int
  BY TrafficAssumption DEF Times

LEMMA DnsTypes ==
  ASSUME DnsTypeOK, NEW p \in DnsPackets, NEW i \in Nat, DnsObserve(i, p)
  PROVE  DnsTypeOK'
<1>1. p.id \in TxIds /\ p.time \in Times
  BY DEF DnsPackets
<1>2. CASE DnsObserveQuery(i, p)
  BY <1>1, <1>2 DEF DnsObserveQuery, DnsTypeOK
<1>3. CASE DnsObserveResponse(i, p)
  <2>1. DnsEntry(i, p) \in [response : Nat, query : Nat, time : Int]
    <3>1. dnsPending[p.id] \in [query : Nat, time : Times]
      BY <1>1 DEF DnsTypeOK
    <3>2. p.time - dnsPending[p.id].time \in Int
      BY <1>1, <3>1, TimesDiffer
    <3>3. DnsEntry(i, p).time \in Int
      BY <3>2 DEF DnsEntry
    <3>4. DnsEntry(i, p) = [response |-> i, query |-> dnsPending[p.id].query,
                            time |-> DnsEntry(i, p).time]
      BY DEF DnsEntry
    <3> QED
      BY <3>1, <3>3, <3>4
  <2>2. [query |-> 0, time |-> 0] \in [query : Nat, time : Times]
    BY TimesDiffer
  <2> QED
    BY <1>3, <2>1, <2>2 DEF DnsObserveResponse, DnsTypeOK
<1> QED
  BY <1>2, <1>3 DEF DnsObserve

LEMMA ConnectionIsFlow ==
  ASSUME NEW p \in HttpPackets
  PROVE  p.flow \in Flows /\ Connection(p) \in Flows
<1>1. p.flow \in Flows
  BY DEF HttpPackets
<1> QED
  BY <1>1, TurnAround DEF Connection

LEMMA HttpTypes ==
  ASSUME HttpTypeOK, NEW p \in HttpPackets, NEW i \in Nat, now \in Times,
         HttpObserve(i, p, now)
  PROVE  HttpTypeOK'
<1>1. Connection(p) \in Flows
  BY ConnectionIsFlow
<1>2. CASE HttpObserveRequest(i, p, now)
  BY <1>1, <1>2 DEF HttpObserveRequest, HttpTypeOK
<1>3. CASE HttpObserveResponse(i, p, now)
  <2>1. Exchange(i, p, now) \in
          [response : Nat, request : Nat, time : Int, slow : BOOLEAN]
    <3>1. httpPending[Connection(p)] \in [request : Nat, at : Times]
      BY <1>1 DEF HttpTypeOK
    <3>2. now - httpPending[Connection(p)].at \in Int
      BY <3>1, TimesDiffer
    <3>3. Exchange(i, p, now).time \in Int /\ Exchange(i, p, now).slow \in BOOLEAN
      BY <3>2 DEF Exchange
    <3>4. Exchange(i, p, now) =
            [response |-> i, request |-> httpPending[Connection(p)].request,
             time |-> Exchange(i, p, now).time, slow |-> Exchange(i, p, now).slow]
      BY DEF Exchange
    <3> QED
      BY <3>1, <3>3, <3>4
  <2>2. [request |-> 0, at |-> 0] \in [request : Nat, at : Times]
    BY TimesDiffer
  <2> QED
    BY <1>3, <2>1, <2>2 DEF HttpObserveResponse, HttpTypeOK
<1> QED
  BY <1>2, <1>3 DEF HttpObserve

LEMMA TcpTypes ==
  ASSUME TcpTypeOK, NEW p \in TcpSegments, NEW i \in Nat, TcpObserve(i, p)
  PROVE  TcpTypeOK'
<1>1. p.flow \in Flows /\ p.seq \in SeqNos
  BY DEF TcpSegments
<1>2. seenSeqs' \in [Flows -> SUBSET SeqNos]
  BY <1>1 DEF TcpObserve, TcpTypeOK
<1>3. [packet |-> i,
       retransmission |-> p.seq \in seenSeqs[p.flow] /\ p.flags \notin Handshake]
        \in [packet : Nat, retransmission : BOOLEAN]
  OBVIOUS
<1>4. tcpRecords' \subseteq [packet : Nat, retransmission : BOOLEAN]
  BY <1>3 DEF TcpObserve, TcpTypeOK
<1> QED
  BY <1>2, <1>4 DEF TcpTypeOK

LEMMA DetectorTypes ==
  ASSUME DetectorTypeOK, AnalyzeCapture(tcpRecords, dnsCompleted)
  PROVE  DetectorTypeOK'
<1> DEFINE F == [category : {"packet_loss", "dns"},
                 severity : {"warning", "critical"}]
<1>1. /\ Finding("packet_loss", "warning") \in F
      /\ Finding("packet_loss", "critical") \in F
      /\ Finding("dns", "warning") \in F
  BY DEF Finding
<1> HIDE DEF F
<1>2. TcpFindings(tcpRecords) \in Seq(F)
  BY <1>1 DEF TcpFindings
<1>3. DnsFindings(dnsCompleted) \in Seq(F)
  BY <1>1 DEF DnsFindings
<1>4. findings \in Seq(F)
  BY DEF DetectorTypeOK, F
<1>5. findings' \in Seq(F)
  BY <1>2, <1>3, <1>4 DEF AnalyzeCapture
<1> QED
  BY <1>5 DEF DetectorTypeOK, F

\* The parts of the type invariant whose variables a step leaves alone.
LEMMA UntouchedTypes ==
  /\ DnsTypeOK /\ UNCHANGED dnsVars => DnsTypeOK'
  /\ HttpTypeOK /\ UNCHANGED httpVars => HttpTypeOK'
  /\ TcpTypeOK /\ UNCHANGED tcpVars => TcpTypeOK'
  /\ DetectorTypeOK /\ UNCHANGED findings => DetectorTypeOK'
  BY DEF DnsTypeOK, dnsVars, HttpTypeOK, httpVars, TcpTypeOK, tcpVars,
         DetectorTypeOK

LEMMA TypesKept == TypeOK /\ [Next]_vars => TypeOK'
<1> SUFFICES ASSUME TypeOK, [Next]_vars PROVE TypeOK'
  OBVIOUS
<1>1. CASE Captured \/ Fails
  BY <1>1, UntouchedTypes DEF Captured, Fails, TypeOK
<1>2. CASE Analyze
  BY <1>2, UntouchedTypes, DetectorTypes DEF Analyze, TypeOK
<1>3. CASE Tick
  <2>1. now' \in Times
    BY <1>3, TrafficAssumption DEF Tick, TypeOK, Times
  <2> QED
    BY <1>3, <2>1, UntouchedTypes DEF Tick, TypeOK
<1>4. ASSUME NEW p \in Traffic, ParseDns(p)
      PROVE  TypeOK'
  <2>1. IsDns(p)
    BY <1>4, Classified DEF ParseDns
  <2>2. p \in DnsPackets
    BY <2>1, PacketKinds, TrafficAssumption
  <2>3. DnsTypeOK'
    BY <1>4, <2>2, ParseAppends, DnsTypes DEF ParseDns, TypeOK
  <2> QED
    BY <1>4, <2>3, ParseAppends, UntouchedTypes DEF ParseDns, TypeOK
<1>5. ASSUME NEW p \in Traffic, ParseHttp(p)
      PROVE  TypeOK'
  <2>1. IsHttp(p)
    BY <1>5, Classified DEF ParseHttp
  <2>2. p \in HttpPackets
    BY <2>1, PacketKinds, TrafficAssumption
  <2>3. HttpTypeOK'
    BY <1>5, <2>2, ParseAppends, HttpTypes DEF ParseHttp, TypeOK
  <2> QED
    BY <1>5, <2>3, ParseAppends, UntouchedTypes DEF ParseHttp, TypeOK
<1>6. ASSUME NEW p \in Traffic, ParseTcp(p)
      PROVE  TypeOK'
  <2>1. IsTcp(p)
    BY <1>6, Classified DEF ParseTcp
  <2>2. p \in TcpSegments
    BY <2>1, PacketKinds, TrafficAssumption
  <2>3. TcpTypeOK'
    BY <1>6, <2>2, ParseAppends, TcpTypes DEF ParseTcp, TypeOK
  <2> QED
    BY <1>6, <2>3, ParseAppends, UntouchedTypes DEF ParseTcp, TypeOK
<1>7. ASSUME NEW p \in Traffic, ParseOther(p)
      PROVE  TypeOK'
  BY <1>7, ParseAppends, UntouchedTypes DEF ParseOther, TypeOK
<1>8. CASE UNCHANGED vars
  BY <1>8, UntouchedTypes DEF vars, TypeOK
<1> QED
  BY <1>1, <1>2, <1>3, <1>4, <1>5, <1>6, <1>7, <1>8 DEF Next, Finished

-----------------------------------------------------------------------------
(* What the trackers hold.                                                 *)

LEMMA InitSummary == Init => TrackersSummarise
<1> SUFFICES ASSUME Init PROVE TrackersSummarise
  OBVIOUS
<1>1. DOMAIN packets = {}
  BY DEF Init
<1>2. DnsPendingInv
  BY <1>1 DEF Init, DnsInit, DnsPendingInv
<1>3. HttpPendingInv
  BY <1>1 DEF Init, HttpInit, HttpPendingInv
<1>4. SeenInv
  BY <1>1 DEF Init, TcpInit, SeenInv
<1> QED
  BY <1>2, <1>3, <1>4 DEF TrackersSummarise

\* Facts about a step that parses p, for the lemmas below.
LEMMA ParseFacts ==
  ASSUME TypeOK, NEW p \in Traffic, Parse(p)
  PROVE  /\ Len(packets) \in Nat
         /\ DOMAIN packets = 1..Len(packets)
         /\ DOMAIN packets' = 1..(Len(packets) + 1)
         /\ packets'[Len(packets) + 1] = p /\ p \in Packets
         /\ \A i \in 1..Len(packets) :
              packets[i] \in Packets /\ packets'[i] = packets[i]
         /\ \A q \in 1..Len(packets) :
              Open(packets', q) <=>
                Open(packets, q) /\ ~SameDialogue(p, packets[q])
         /\ Open(packets', Len(packets) + 1) <=> ~p.response
<1>1. p \in Packets /\ packets \in Seq(Packets) /\ packets' = Append(packets, p)
  BY ParseAppends
<1> QED
  BY <1>1, OneMore, OpenNext

\* A packet that is not DNS leaves the open queries open.
LEMMA DnsPendingKept ==
  ASSUME TypeOK, DnsPendingInv, NEW p \in Traffic, Parse(p), ~IsDns(p),
         UNCHANGED dnsPending
  PROVE  DnsPendingInv'
<1> DEFINE n == Len(packets)
<1>1. \A q \in 1..n : IsDns(packets[q]) => ~SameDialogue(p, packets[q])
  BY ParseFacts, PacketKinds DEF SameDialogue
<1> SUFFICES ASSUME NEW id \in TxIds
             PROVE  LET start == dnsPending[id]
                    IN /\ start.query # 0 =>
                            /\ start.query \in DOMAIN packets'
                            /\ IsDns(packets'[start.query])
                            /\ packets'[start.query].id = id
                            /\ start.time = packets'[start.query].time
                       /\ \A q \in DOMAIN packets' :
                            IsDns(packets'[q]) /\ packets'[q].id = id
                                /\ Open(packets', q)
                              <=> q = start.query
  BY DEF DnsPendingInv
<1>2. dnsPending[id].query # 0 => dnsPending[id].query \in 1..n
  BY ParseFacts DEF DnsPendingInv
<1>3. dnsPending[id].query # n + 1
  BY <1>2, ParseFacts
<1>4. ASSUME NEW q \in 1..(n + 1)
      PROVE  IsDns(packets'[q]) /\ packets'[q].id = id /\ Open(packets', q)
               <=> q = dnsPending[id].query
  <2>1. CASE q \in 1..n
    BY <1>1, <2>1, ParseFacts DEF DnsPendingInv
  <2>2. CASE q = n + 1
    BY <1>3, <2>2, ParseFacts
  <2> QED
    BY <1>4, <2>1, <2>2, ParseFacts
<1> QED
  BY <1>2, <1>4, ParseFacts DEF DnsPendingInv

\* A DNS packet opens or closes the query of its id and of no other.
LEMMA DnsPendingNext ==
  ASSUME TypeOK, DnsPendingInv, NEW p \in Traffic, ParseDns(p)
  PROVE  DnsPendingInv'
<1> DEFINE n == Len(packets)
<1>1. Parse(p) /\ IsDns(p) /\ DnsObserve(n + 1, p)
  BY Classified DEF ParseDns
<1>2. p \in DnsPackets /\ ~IsHttp(p)
  BY <1>1, PacketKinds, ParseFacts
<1>3. /\ p.id \in TxIds /\ p.response \in BOOLEAN
      /\ dnsPending \in [TxIds -> [query : Nat, time : Times]]
  BY <1>2 DEF DnsPackets, TypeOK, DnsTypeOK
<1>4. \A q \in 1..n :
        IsDns(packets[q]) =>
          (SameDialogue(p, packets[q]) <=> packets[q].id = p.id)
  BY <1>1, <1>2 DEF SameDialogue
<1> SUFFICES ASSUME NEW id \in TxIds
             PROVE  LET start == dnsPending'[id]
                    IN /\ start.query # 0 =>
                            /\ start.query \in DOMAIN packets'
                            /\ IsDns(packets'[start.query])
                            /\ packets'[start.query].id = id
                            /\ start.time = packets'[start.query].time
                       /\ \A q \in DOMAIN packets' :
                            IsDns(packets'[q]) /\ packets'[q].id = id
                                /\ Open(packets', q)
                              <=> q = start.query
  BY DEF DnsPendingInv
<1>5. dnsPending[id].query # 0 => dnsPending[id].query \in 1..n
  BY <1>1, ParseFacts DEF DnsPendingInv
<1>6. CASE id # p.id
  <2>1. dnsPending'[id] = dnsPending[id]
    BY <1>1, <1>3, <1>6 DEF DnsObserve, DnsObserveQuery, DnsObserveResponse
  <2>2. dnsPending[id].query # n + 1
    BY <1>1, <1>5, ParseFacts
  <2>3. ASSUME NEW q \in 1..(n + 1)
        PROVE  IsDns(packets'[q]) /\ packets'[q].id = id /\ Open(packets', q)
                 <=> q = dnsPending[id].query
    <3>1. CASE q \in 1..n
      BY <1>1, <1>4, <1>6, <3>1, ParseFacts DEF DnsPendingInv
    <3>2. CASE q = n + 1
      BY <1>1, <1>6, <2>2, <3>2, ParseFacts
    <3> QED
      BY <1>1, <2>3, <3>1, <3>2, ParseFacts
  <2> QED
    BY <1>1, <1>5, <2>1, <2>3, ParseFacts DEF DnsPendingInv
<1>7. CASE id = p.id
  <2>1. \A q \in 1..n :
          ~(IsDns(packets'[q]) /\ packets'[q].id = id /\ Open(packets', q))
    BY <1>1, <1>4, <1>7, ParseFacts
  <2>2. CASE p.response
    <3>1. dnsPending'[id].query = 0
      BY <1>1, <1>3, <1>7, <2>2 DEF DnsObserve, DnsObserveQuery, DnsObserveResponse
    <3> QED
      BY <1>1, <2>1, <2>2, <3>1, ParseFacts
  <2>3. CASE ~p.response
    <3>1. dnsPending'[id] = [query |-> n + 1, time |-> p.time]
      BY <1>1, <1>3, <1>7, <2>3 DEF DnsObserve, DnsObserveQuery, DnsObserveResponse
    <3> QED
      BY <1>1, <1>7, <2>1, <2>3, <3>1, ParseFacts
  <2> QED
    BY <1>3, <2>2, <2>3
<1> QED
  BY <1>6, <1>7

\* A packet that is no HTTP message leaves the open requests open.
LEMMA HttpPendingKept ==
  ASSUME TypeOK, HttpPendingInv, NEW p \in Traffic, Parse(p), ~IsHttp(p),
         UNCHANGED httpPending
  PROVE  HttpPendingInv'
<1> DEFINE n == Len(packets)
<1>1. \A q \in 1..n : IsHttp(packets[q]) => ~SameDialogue(p, packets[q])
  BY ParseFacts, PacketKinds DEF SameDialogue
<1> SUFFICES ASSUME NEW c \in Flows
             PROVE  LET start == httpPending[c]
                    IN /\ start.request # 0 => start.request \in DOMAIN packets'
                       /\ \A q \in DOMAIN packets' :
                            IsHttp(packets'[q]) /\ packets'[q].flow = c
                                /\ Open(packets', q)
                              <=> q = start.request
  BY DEF HttpPendingInv
<1>2. httpPending[c].request # 0 => httpPending[c].request \in 1..n
  BY ParseFacts DEF HttpPendingInv
<1>3. httpPending[c].request # n + 1
  BY <1>2, ParseFacts
<1>4. ASSUME NEW q \in 1..(n + 1)
      PROVE  IsHttp(packets'[q]) /\ packets'[q].flow = c /\ Open(packets', q)
               <=> q = httpPending[c].request
  <2>1. CASE q \in 1..n
    BY <1>1, <2>1, ParseFacts DEF HttpPendingInv
  <2>2. CASE q = n + 1
    BY <1>3, <2>2, ParseFacts
  <2> QED
    BY <1>4, <2>1, <2>2, ParseFacts
<1> QED
  BY <1>2, <1>4, ParseFacts DEF HttpPendingInv

\* A message is of the dialogue of an earlier request exactly if that went out
\* on its connection.
LEMMA SameFlowDialogue ==
  ASSUME NEW p \in HttpPackets, IsHttp(p), NEW q \in Packets, IsHttp(q),
         ~q.response
  PROVE  /\ SameDialogue(p, q) <=> q.flow = Connection(p)
         /\ SameDialogue(q, p) <=> q.flow = Connection(p)
<1>1. q \in HttpPackets /\ ~IsDns(q)
  BY PacketKinds
<1>2. p \in Packets /\ ~IsDns(p)
  BY PacketKinds DEF Packets
<1>3. /\ p.flow \in Flows /\ q.flow \in Flows
      /\ p.response \in BOOLEAN /\ q.response = FALSE
  BY <1>1 DEF HttpPackets
<1>4. <<p.flow[1], p.flow[2]>> = p.flow /\ <<q.flow[1], q.flow[2]>> = q.flow
  BY <1>3, TurnAround
<1>5. SameConnection(q, p) <=> q.flow = Connection(p)
  BY <1>3 DEF SameConnection, Connection
<1>6. SameDialogue(q, p) <=> q.flow = Connection(p)
  BY <1>1, <1>5 DEF SameDialogue
<1> QED
  BY <1>2, <1>6, DialogueSymmetric

\* An HTTP message opens or closes the request of its connection and of no
\* other.
LEMMA HttpPendingNext ==
  ASSUME TypeOK, HttpPendingInv, NEW p \in Traffic, ParseHttp(p)
  PROVE  HttpPendingInv'
<1> DEFINE n == Len(packets)
<1>1. Parse(p) /\ IsHttp(p) /\ HttpObserve(n + 1, p, now)
  BY Classified DEF ParseHttp
<1>2. p \in HttpPackets
  BY <1>1, PacketKinds, ParseFacts
<1>3. /\ Connection(p) \in Flows /\ p.response \in BOOLEAN
      /\ httpPending \in [Flows -> [request : Nat, at : Times]]
  BY <1>2, ConnectionIsFlow DEF HttpPackets, TypeOK, HttpTypeOK
<1>4. \A q \in 1..n :
        IsHttp(packets[q]) /\ Open(packets, q) =>
          (SameDialogue(p, packets[q]) <=> packets[q].flow = Connection(p))
  BY <1>1, <1>2, ParseFacts, SameFlowDialogue DEF Open
<1> SUFFICES ASSUME NEW c \in Flows
             PROVE  LET start == httpPending'[c]
                    IN /\ start.request # 0 => start.request \in DOMAIN packets'
                       /\ \A q \in DOMAIN packets' :
                            IsHttp(packets'[q]) /\ packets'[q].flow = c
                                /\ Open(packets', q)
                              <=> q = start.request
  BY DEF HttpPendingInv
<1>5. httpPending[c].request # 0 => httpPending[c].request \in 1..n
  BY <1>1, ParseFacts DEF HttpPendingInv
<1>6. CASE c # Connection(p)
  <2>1. httpPending'[c] = httpPending[c]
    BY <1>1, <1>3, <1>6 DEF HttpObserve, HttpObserveRequest, HttpObserveResponse
  <2>2. httpPending[c].request # n + 1
    BY <1>1, <1>5, ParseFacts
  <2>3. ~p.response => p.flow = Connection(p)
    BY DEF Connection
  <2>4. ASSUME NEW q \in 1..(n + 1)
        PROVE  IsHttp(packets'[q]) /\ packets'[q].flow = c /\ Open(packets', q)
                 <=> q = httpPending[c].request
    <3>1. CASE q \in 1..n
      BY <1>1, <1>4, <1>6, <3>1, ParseFacts DEF HttpPendingInv
    <3>2. CASE q = n + 1
      BY <1>1, <1>6, <2>2, <2>3, <3>2, ParseFacts
    <3> QED
      BY <1>1, <2>4, <3>1, <3>2, ParseFacts
  <2> QED
    BY <1>1, <1>5, <2>1, <2>4, ParseFacts DEF HttpPendingInv
<1>7. CASE c = Connection(p)
  <2>1. \A q \in 1..n :
          ~(IsHttp(packets'[q]) /\ packets'[q].flow = c /\ Open(packets', q))
    BY <1>1, <1>4, <1>7, ParseFacts
  <2>2. CASE p.response
    <3>1. httpPending'[c].request = 0
      BY <1>1, <1>3, <1>7, <2>2
         DEF HttpObserve, HttpObserveRequest, HttpObserveResponse
    <3> QED
      BY <1>1, <2>1, <2>2, <3>1, ParseFacts
  <2>3. CASE ~p.response
    <3>1. httpPending'[c] = [request |-> n + 1, at |-> now]
      BY <1>1, <1>3, <1>7, <2>3
         DEF HttpObserve, HttpObserveRequest, HttpObserveResponse
    <3>2. p.flow = c
      BY <1>7, <2>3 DEF Connection
    <3> QED
      BY <1>1, <2>1, <2>3, <3>1, <3>2, ParseFacts
  <2> QED
    BY <1>3, <2>2, <2>3
<1> QED
  BY <1>6, <1>7

\* A packet that is no segment adds no number.
LEMMA SeenKept ==
  ASSUME TypeOK, SeenInv, NEW p \in Traffic, Parse(p), ~IsTcp(p),
         UNCHANGED seenSeqs
  PROVE  SeenInv'
<1> DEFINE n == Len(packets)
<1> SUFFICES ASSUME NEW f \in Flows, NEW s \in SeqNos
             PROVE  s \in seenSeqs[f] <=>
                      \E j \in DOMAIN packets' :
                        IsTcp(packets'[j]) /\ packets'[j].flow = f
                          /\ packets'[j].seq = s
  BY DEF SeenInv
<1>1. \A j \in 1..(n + 1) : IsTcp(packets'[j]) => j \in 1..n
  BY ParseFacts
<1>2. 1..n \subseteq 1..(n + 1)
  BY ParseFacts
<1> QED
  BY <1>1, <1>2, ParseFacts DEF SeenInv

LEMMA SeenNext ==
  ASSUME TypeOK, SeenInv, NEW p \in Traffic, ParseTcp(p)
  PROVE  SeenInv'
<1> DEFINE n == Len(packets)
<1>1. Parse(p) /\ IsTcp(p) /\ TcpObserve(n + 1, p)
  BY Classified DEF ParseTcp
<1>2. p.flow \in Flows /\ seenSeqs \in [Flows -> SUBSET SeqNos]
  BY <1>1, PacketKinds, ParseFacts DEF TcpSegments, TypeOK, TcpTypeOK
<1> SUFFICES ASSUME NEW f \in Flows, NEW s \in SeqNos
             PROVE  s \in seenSeqs'[f] <=>
                      \E j \in DOMAIN packets' :
                        IsTcp(packets'[j]) /\ packets'[j].flow = f
                          /\ packets'[j].seq = s
  BY DEF SeenInv
<1>3. s \in seenSeqs'[f] <=> s \in seenSeqs[f] \/ (f = p.flow /\ s = p.seq)
  BY <1>1, <1>2 DEF TcpObserve
<1>4. \A j \in 1..(n + 1) : j \in 1..n \/ j = n + 1
  BY <1>1, ParseFacts
<1>5. 1..n \subseteq 1..(n + 1) /\ n + 1 \in 1..(n + 1)
  BY <1>1, ParseFacts
<1> QED
  BY <1>1, <1>3, <1>4, <1>5, ParseFacts DEF SeenInv

-----------------------------------------------------------------------------
(* What the trackers have recorded.                                        *)

\* What an earlier message answers or repeats stays what it was.
LEMMA RecordedIsSettled ==
  ASSUME TypeOK, NEW p \in Traffic, Parse(p), NEW r \in 1..Len(packets)
  PROVE  /\ \A q : Matches(packets', r, q) <=> Matches(packets, r, q)
         /\ Repeats(packets', r) = Repeats(packets, r)
BY ParseAppends, PastIsSettled DEF Matches

\* The pending query is what a DNS response answers.
LEMMA DnsAnswer ==
  ASSUME TypeOK, DnsPendingInv, NEW p \in Traffic, Parse(p), IsDns(p)
  PROVE  Matches(packets', Len(packets) + 1, dnsPending[p.id].query)
<1> DEFINE n == Len(packets)
           pending == dnsPending[p.id].query
<1>1. p \in DnsPackets /\ ~IsHttp(p) /\ p.id \in TxIds
  BY PacketKinds, ParseFacts DEF DnsPackets
<1>2. RequestOf(packets', n + 1) =
        {q \in 1..n : SameDialogue(packets[q], p) /\ Open(packets, q)}
  BY ParseAppends, AnswersOpen
<1>3. \A q \in 1..n : SameDialogue(packets[q], p) <=>
                        IsDns(packets[q]) /\ packets[q].id = p.id
  BY <1>1 DEF SameDialogue
<1>4. \A q \in 1..n : q \in RequestOf(packets', n + 1) <=> q = pending
  BY <1>1, <1>2, <1>3, ParseFacts DEF DnsPendingInv
<1>5. pending # 0 => pending \in 1..n
  BY <1>1, ParseFacts DEF DnsPendingInv
<1>6. RequestOf(packets', n + 1) \subseteq 1..n
  BY <1>2
<1>7. CASE pending = 0
  <2>1. RequestOf(packets', n + 1) = {}
    BY <1>4, <1>6, <1>7, ParseFacts
  <2> QED
    BY <1>7, <2>1 DEF Matches
<1>8. CASE pending # 0
  BY <1>4, <1>5, <1>8 DEF Matches
<1> QED
  BY <1>7, <1>8

LEMMA DnsPairedKept ==
  ASSUME TypeOK, DnsPaired, NEW p \in Traffic, Parse(p), ~IsDns(p) \/ ~p.response,
         UNCHANGED dnsCompleted
  PROVE  DnsPaired'
<1> DEFINE n == Len(packets)
<1>1. {r \in DOMAIN packets' : IsDns(packets'[r]) /\ packets'[r].response} =
        {r \in DOMAIN packets : IsDns(packets[r]) /\ packets[r].response}
  <2>1. \A r \in 1..(n + 1) : r \in 1..n \/ r = n + 1
    BY ParseFacts
  <2>2. 1..n \subseteq 1..(n + 1)
    BY ParseFacts
  <2> QED
    BY <2>1, <2>2, ParseFacts
<1>2. ASSUME NEW e \in dnsCompleted
      PROVE  /\ Matches(packets', e.response, e.query)
             /\ e.query # 0 =>
                  e.time = packets'[e.response].time - packets'[e.query].time
  <2>1. e.response \in 1..n
    BY ParseFacts DEF DnsPaired
  <2>2. Matches(packets, e.response, e.query)
    BY DEF DnsPaired
  <2>3. e.query # 0 => e.query \in 1..n
    BY <2>1, <2>2, ParseFacts DEF Matches, RequestOf
  <2>4. e.query # 0 =>
          e.time = packets'[e.response].time - packets'[e.query].time
    BY <2>1, <2>3, ParseFacts DEF DnsPaired
  <2> QED
    BY <2>1, <2>2, <2>4, RecordedIsSettled
<1> QED
  BY <1>1, <1>2 DEF DnsPaired

LEMMA DnsPairedNext ==
  ASSUME TypeOK, DnsPendingInv, DnsPaired, NEW p \in Traffic, ParseDns(p)
  PROVE  DnsPaired'
<1> DEFINE n == Len(packets)
           entry == DnsEntry(n + 1, p)
<1>1. Parse(p) /\ IsDns(p) /\ DnsObserve(n + 1, p)
  BY Classified DEF ParseDns
<1>2. CASE DnsObserveQuery(n + 1, p)
  BY <1>1, <1>2, DnsPairedKept DEF DnsObserveQuery
<1>3. CASE DnsObserveResponse(n + 1, p)
  <2>1. p.response /\ dnsCompleted' = dnsCompleted \cup {entry}
    BY <1>3 DEF DnsObserveResponse
  <2>2. entry.response = n + 1 /\ entry.query = dnsPending[p.id].query
    BY DEF DnsEntry
  <2>3. \A e \in dnsCompleted : e.response \in 1..n
    BY <1>1, ParseFacts DEF DnsPaired
  <2> HIDE DEF entry
  <2>4. {e.response : e \in dnsCompleted'} =
          {r \in DOMAIN packets' : IsDns(packets'[r]) /\ packets'[r].response}
    <3>1. {e.response : e \in dnsCompleted'} =
            {e.response : e \in dnsCompleted} \cup {n + 1}
      BY <2>1, <2>2
    <3>2. 1..(n + 1) = (1..n) \cup {n + 1}
      BY <1>1, ParseFacts
    <3>3. {r \in DOMAIN packets' : IsDns(packets'[r]) /\ packets'[r].response} =
            {r \in DOMAIN packets : IsDns(packets[r]) /\ packets[r].response}
              \cup {n + 1}
      BY <1>1, <2>1, <3>2, ParseFacts
    <3> QED
      BY <3>1, <3>3 DEF DnsPaired
  <2>5. \A e, f \in dnsCompleted' : e.response = f.response => e = f
    <3>1. n + 1 \notin 1..n
      BY <1>1, ParseFacts
    <3> QED
      BY <2>1, <2>2, <2>3, <3>1 DEF DnsPaired
  <2>6. ASSUME NEW e \in dnsCompleted'
        PROVE  /\ Matches(packets', e.response, e.query)
               /\ e.query # 0 =>
                    e.time = packets'[e.response].time - packets'[e.query].time
    <3>1. CASE e \in dnsCompleted
      <4>1. e.response \in 1..n
        BY <2>3, <3>1
      <4>2. Matches(packets, e.response, e.query)
        BY <3>1 DEF DnsPaired
      <4>3. e.query # 0 => e.query \in 1..n
        BY <1>1, <4>1, <4>2, ParseFacts DEF Matches, RequestOf
      <4>4. e.query # 0 =>
              e.time = packets'[e.response].time - packets'[e.query].time
        BY <1>1, <3>1, <4>1, <4>3, ParseFacts DEF DnsPaired
      <4> QED
        BY <1>1, <4>1, <4>2, <4>4, RecordedIsSettled
    <3>2. CASE e = entry
      <4>1. Matches(packets', e.response, e.query)
        BY <1>1, <2>2, <3>2, DnsAnswer
      <4>2. p.id \in TxIds
        BY <1>1, PacketKinds, ParseFacts DEF DnsPackets
      <4>3. entry.query # 0 =>
              /\ entry.query \in 1..n
              /\ dnsPending[p.id].time = packets[entry.query].time
        BY <1>1, <2>2, <4>2, ParseFacts DEF DnsPendingInv
      <4>4. entry.query # 0 => entry.time = p.time - dnsPending[p.id].time
        BY DEF entry, DnsEntry
      <4> QED
        BY <1>1, <2>2, <3>2, <4>1, <4>3, <4>4, ParseFacts
    <3> QED
      BY <2>1, <3>1, <3>2
  <2> QED
    BY <2>4, <2>5, <2>6 DEF DnsPaired
<1> QED
  BY <1>1, <1>2, <1>3 DEF DnsObserve

\* The pending request is what an HTTP response answers.
LEMMA HttpAnswer ==
  ASSUME TypeOK, HttpPendingInv, NEW p \in Traffic, Parse(p), IsHttp(p)
  PROVE  Matches(packets', Len(packets) + 1, httpPending[Connection(p)].request)
<1> DEFINE n == Len(packets)
           pending == httpPending[Connection(p)].request
<1>1. p \in HttpPackets /\ ~IsDns(p) /\ Connection(p) \in Flows
  BY PacketKinds, ParseFacts, ConnectionIsFlow
<1>2. RequestOf(packets', n + 1) =
        {q \in 1..n : SameDialogue(packets[q], p) /\ Open(packets, q)}
  BY ParseAppends, AnswersOpen
<1>3. \A q \in 1..n :
        Open(packets, q) =>
          (SameDialogue(packets[q], p) <=>
             IsHttp(packets[q]) /\ packets[q].flow = Connection(p))
  <2>1. SUFFICES ASSUME NEW q \in 1..n, Open(packets, q)
                 PROVE  SameDialogue(packets[q], p) <=>
                          IsHttp(packets[q]) /\ packets[q].flow = Connection(p)
    OBVIOUS
  <2>2. packets[q] \in Packets /\ ~packets[q].response
    BY <2>1, ParseFacts DEF Open
  <2>3. CASE IsHttp(packets[q])
    BY <1>1, <2>2, <2>3, SameFlowDialogue
  <2>4. CASE ~IsHttp(packets[q])
    BY <1>1, <2>4 DEF SameDialogue
  <2> QED
    BY <2>3, <2>4
<1>4. \A q \in 1..n : q \in RequestOf(packets', n + 1) <=> q = pending
  BY <1>1, <1>2, <1>3, ParseFacts DEF HttpPendingInv
<1>5. pending # 0 => pending \in 1..n
  BY <1>1, ParseFacts DEF HttpPendingInv
<1>6. RequestOf(packets', n + 1) \subseteq 1..n
  BY <1>2
<1>7. CASE pending = 0
  <2>1. RequestOf(packets', n + 1) = {}
    BY <1>4, <1>6, <1>7, ParseFacts
  <2> QED
    BY <1>7, <2>1 DEF Matches
<1>8. CASE pending # 0
  BY <1>4, <1>5, <1>8 DEF Matches
<1> QED
  BY <1>7, <1>8

LEMMA HttpPairedKept ==
  ASSUME TypeOK, HttpPaired, NEW p \in Traffic, Parse(p),
         ~IsHttp(p) \/ ~p.response, UNCHANGED httpExchanges
  PROVE  HttpPaired'
<1> DEFINE n == Len(packets)
<1>1. {r \in DOMAIN packets' : IsHttp(packets'[r]) /\ packets'[r].response} =
        {r \in DOMAIN packets : IsHttp(packets[r]) /\ packets[r].response}
  <2>1. \A r \in 1..(n + 1) : r \in 1..n \/ r = n + 1
    BY ParseFacts
  <2>2. 1..n \subseteq 1..(n + 1)
    BY ParseFacts
  <2> QED
    BY <2>1, <2>2, ParseFacts
<1>2. ASSUME NEW e \in httpExchanges
      PROVE  Matches(packets', e.response, e.request)
  <2>1. e.response \in 1..n
    BY ParseFacts DEF HttpPaired
  <2> QED
    BY <2>1, RecordedIsSettled DEF HttpPaired
<1> QED
  BY <1>1, <1>2 DEF HttpPaired

LEMMA HttpPairedNext ==
  ASSUME TypeOK, HttpPendingInv, HttpPaired, NEW p \in Traffic, ParseHttp(p)
  PROVE  HttpPaired'
<1> DEFINE n == Len(packets)
           entry == Exchange(n + 1, p, now)
<1>1. Parse(p) /\ IsHttp(p) /\ HttpObserve(n + 1, p, now)
  BY Classified DEF ParseHttp
<1>2. CASE HttpObserveRequest(n + 1, p, now)
  BY <1>1, <1>2, HttpPairedKept DEF HttpObserveRequest
<1>3. CASE HttpObserveResponse(n + 1, p, now)
  <2>1. p.response /\ httpExchanges' = httpExchanges \cup {entry}
    BY <1>3 DEF HttpObserveResponse
  <2>2. /\ entry.response = n + 1
        /\ entry.request = httpPending[Connection(p)].request
    BY DEF Exchange
  <2>3. \A e \in httpExchanges : e.response \in 1..n
    BY <1>1, ParseFacts DEF HttpPaired
  <2> HIDE DEF entry
  <2>4. {e.response : e \in httpExchanges'} =
          {r \in DOMAIN packets' : IsHttp(packets'[r]) /\ packets'[r].response}
    <3>1. {e.response : e \in httpExchanges'} =
            {e.response : e \in httpExchanges} \cup {n + 1}
      BY <2>1, <2>2
    <3>2. 1..(n + 1) = (1..n) \cup {n + 1}
      BY <1>1, ParseFacts
    <3>3. {r \in DOMAIN packets' : IsHttp(packets'[r]) /\ packets'[r].response} =
            {r \in DOMAIN packets : IsHttp(packets[r]) /\ packets[r].response}
              \cup {n + 1}
      BY <1>1, <2>1, <3>2, ParseFacts
    <3> QED
      BY <3>1, <3>3 DEF HttpPaired
  <2>5. \A e, f \in httpExchanges' : e.response = f.response => e = f
    <3>1. n + 1 \notin 1..n
      BY <1>1, ParseFacts
    <3> QED
      BY <2>1, <2>2, <2>3, <3>1 DEF HttpPaired
  <2>6. \A e \in httpExchanges' : Matches(packets', e.response, e.request)
    <3>1. \A e \in httpExchanges : Matches(packets', e.response, e.request)
      BY <1>1, <2>3, RecordedIsSettled DEF HttpPaired
    <3>2. Matches(packets', entry.response, entry.request)
      BY <1>1, <2>2, HttpAnswer
    <3> QED
      BY <2>1, <3>1, <3>2
  <2> QED
    BY <2>4, <2>5, <2>6 DEF HttpPaired
<1> QED
  BY <1>1, <1>2, <1>3 DEF HttpObserve

LEMMA MarkedKept ==
  ASSUME TypeOK, RetransmissionsMarked, NEW p \in Traffic, Parse(p), ~IsTcp(p),
         UNCHANGED tcpRecords
  PROVE  RetransmissionsMarked'
<1> DEFINE n == Len(packets)
<1>1. {j \in DOMAIN packets' : IsTcp(packets'[j])} =
        {j \in DOMAIN packets : IsTcp(packets[j])}
  <2>1. \A j \in 1..(n + 1) : j \in 1..n \/ j = n + 1
    BY ParseFacts
  <2>2. 1..n \subseteq 1..(n + 1)
    BY ParseFacts
  <2> QED
    BY <2>1, <2>2, ParseFacts
<1>2. \A j \in 1..n : Repeats(packets', j) = Repeats(packets, j)
  BY RecordedIsSettled
<1> QED
  BY <1>1, <1>2, ParseFacts DEF RetransmissionsMarked

LEMMA MarkedNext ==
  ASSUME TypeOK, SeenInv, RetransmissionsMarked, NEW p \in Traffic, ParseTcp(p)
  PROVE  RetransmissionsMarked'
<1> DEFINE n == Len(packets)
           Mark(ps, i) == [packet |-> i, retransmission |-> Repeats(ps, i)]
           Segments == {j \in DOMAIN packets : IsTcp(packets[j])}
<1>1. Parse(p) /\ IsTcp(p) /\ TcpObserve(n + 1, p)
  BY Classified DEF ParseTcp
<1>2. p.flow \in Flows /\ p.seq \in SeqNos
  BY <1>1, PacketKinds, ParseFacts DEF TcpSegments
<1>3. {j \in DOMAIN packets' : IsTcp(packets'[j])} = Segments \cup {n + 1}
  <2>1. 1..(n + 1) = (1..n) \cup {n + 1}
    BY <1>1, ParseFacts
  <2> QED
    BY <1>1, <2>1, ParseFacts
<1>4. \A j \in Segments : Mark(packets', j) = Mark(packets, j)
  BY <1>1, ParseFacts, RecordedIsSettled
<1>5. (p.seq \in seenSeqs[p.flow] /\ p.flags \notin Handshake) =
        Repeats(packets', n + 1)
  <2>1. p.seq \in seenSeqs[p.flow] <=>
          \E j \in 1..n : IsTcp(packets[j]) /\ packets[j].flow = p.flow
                            /\ packets[j].seq = p.seq
    BY <1>1, <1>2, ParseFacts DEF SeenInv
  <2>2. (n + 1) - 1 = n
    BY <1>1, ParseFacts
  <2>3. Repeats(packets', n + 1) <=>
          p.flags \notin {"SYN", "SYN,ACK"} /\ p.seq \in seenSeqs[p.flow]
    BY <1>1, <2>1, <2>2, ParseFacts DEF Repeats
  <2> QED
    BY <2>3 DEF Handshake, Repeats
<1>6. tcpRecords' = tcpRecords \cup {Mark(packets', n + 1)}
  BY <1>1, <1>5 DEF TcpObserve
<1>7. tcpRecords = {Mark(packets, i) : i \in Segments}
  BY DEF RetransmissionsMarked
<1>8. {Mark(packets', i) : i \in Segments \cup {n + 1}} =
        {Mark(packets, i) : i \in Segments} \cup {Mark(packets', n + 1)}
  BY <1>4
<1> QED
  BY <1>3, <1>6, <1>7, <1>8 DEF RetransmissionsMarked

-----------------------------------------------------------------------------
(* The inductive invariant.                                                *)

LEMMA InitInvariant == Init => IInv
<1> SUFFICES ASSUME Init PROVE IInv
  OBVIOUS
<1>1. TypeOK /\ TrackersSummarise
  BY InitTypes, InitSummary
<1>2. packets = <<>> /\ DOMAIN packets = {}
  BY DEF Init
<1>3. DnsPaired
  BY <1>2 DEF Init, DnsInit, DnsPaired
<1>4. HttpPaired
  BY <1>2 DEF Init, HttpInit, HttpPaired
<1>5. RetransmissionsMarked
  BY <1>2 DEF Init, TcpInit, RetransmissionsMarked
<1>6. Analyzed
  BY DEF Init, DetectorInit, Analyzed
<1> QED
  BY <1>1, <1>3, <1>4, <1>5, <1>6 DEF IInv

\* A step that parses nothing disturbs nothing the trackers hold.
LEMMA TrackersUntouched ==
  ASSUME TrackersSummarise, DnsPaired, HttpPaired, RetransmissionsMarked,
         UNCHANGED <<dnsVars, httpVars, tcpVars, packets>>
  PROVE  TrackersSummarise' /\ DnsPaired' /\ HttpPaired' /\ RetransmissionsMarked'
<1>1. DnsPendingInv'
  BY DEF TrackersSummarise, DnsPendingInv, dnsVars
<1>2. HttpPendingInv'
  BY DEF TrackersSummarise, HttpPendingInv, httpVars
<1>3. SeenInv'
  BY DEF TrackersSummarise, SeenInv, tcpVars
<1>4. DnsPaired' /\ HttpPaired' /\ RetransmissionsMarked'
  BY DEF DnsPaired, HttpPaired, RetransmissionsMarked, dnsVars, httpVars, tcpVars
<1> QED
  BY <1>1, <1>2, <1>3, <1>4 DEF TrackersSummarise

\* A packet that is parsed leaves the trackers of other protocols alone.
LEMMA OtherDialogues ==
  ASSUME NEW p \in Traffic
  PROVE  /\ Protocol(p) = "DNS" => ~IsHttp(p) /\ ~IsTcp(p)
         /\ Protocol(p) = "HTTP" => ~IsDns(p) /\ ~IsTcp(p)
         /\ Protocol(p) = "TCP" => ~IsDns(p) /\ ~IsHttp(p)
         /\ Protocol(p) \notin {"DNS", "HTTP", "TCP"} =>
              ~IsDns(p) /\ ~IsHttp(p) /\ ~IsTcp(p)
  BY Classified, PacketKinds, TrafficAssumption DEF IsTcp

LEMMA InvariantKept == IInv /\ [Next]_vars => IInv'
<1> SUFFICES ASSUME IInv, [Next]_vars PROVE IInv'
  OBVIOUS
<1> USE DEF IInv
<1>0. TypeOK'
  BY TypesKept
<1>1. CASE Captured \/ Fails
  BY <1>0, <1>1, TrackersUntouched DEF Captured, Fails, Analyzed
<1>2. CASE Analyze
  <2>1. TrackersSummarise' /\ DnsPaired' /\ HttpPaired' /\ RetransmissionsMarked'
    BY <1>2, TrackersUntouched DEF Analyze
  <2>2. findings = <<>>
    BY <1>2 DEF Analyze, Analyzed
  <2>3. tcpRecords' = tcpRecords /\ dnsCompleted' = dnsCompleted
    BY <1>2 DEF Analyze, dnsVars, tcpVars
  <2>4. findings' = TcpFindings(tcpRecords) \o DnsFindings(dnsCompleted)
    BY <1>2, <2>2 DEF Analyze, AnalyzeCapture, TcpFindings, DnsFindings
  <2>5. Analyzed'
    BY <1>2, <2>3, <2>4 DEF Analyze, Analyzed
  <2> QED
    BY <1>0, <2>1, <2>5
<1>3. CASE Tick
  BY <1>0, <1>3, TrackersUntouched DEF Tick, Analyzed, dnsVars, tcpVars
<1>4. ASSUME NEW p \in Traffic, Parse(p)
      PROVE  Analyzed'
  BY <1>4 DEF Parse, Analyzed
<1>5. ASSUME NEW p \in Traffic, ParseDns(p)
      PROVE  IInv'
  <2>1. Parse(p) /\ ~IsHttp(p) /\ ~IsTcp(p)
    BY <1>5, OtherDialogues DEF ParseDns
  <2>2. DnsPendingInv' /\ DnsPaired'
    BY <1>5, DnsPendingNext, DnsPairedNext DEF TrackersSummarise
  <2>3. HttpPendingInv' /\ HttpPaired'
    BY <1>5, <2>1, HttpPendingKept, HttpPairedKept
       DEF TrackersSummarise, ParseDns, httpVars
  <2>4. SeenInv' /\ RetransmissionsMarked'
    BY <1>5, <2>1, SeenKept, MarkedKept DEF TrackersSummarise, ParseDns, tcpVars
  <2> QED
    BY <1>0, <1>4, <2>1, <2>2, <2>3, <2>4 DEF TrackersSummarise
<1>6. ASSUME NEW p \in Traffic, ParseHttp(p)
      PROVE  IInv'
  <2>1. Parse(p) /\ ~IsDns(p) /\ ~IsTcp(p)
    BY <1>6, OtherDialogues DEF ParseHttp
  <2>2. DnsPendingInv' /\ DnsPaired'
    BY <1>6, <2>1, DnsPendingKept, DnsPairedKept
       DEF TrackersSummarise, ParseHttp, dnsVars
  <2>3. HttpPendingInv' /\ HttpPaired'
    BY <1>6, HttpPendingNext, HttpPairedNext DEF TrackersSummarise
  <2>4. SeenInv' /\ RetransmissionsMarked'
    BY <1>6, <2>1, SeenKept, MarkedKept DEF TrackersSummarise, ParseHttp, tcpVars
  <2> QED
    BY <1>0, <1>4, <2>1, <2>2, <2>3, <2>4 DEF TrackersSummarise
<1>7. ASSUME NEW p \in Traffic, ParseTcp(p)
      PROVE  IInv'
  <2>1. Parse(p) /\ ~IsDns(p) /\ ~IsHttp(p)
    BY <1>7, OtherDialogues DEF ParseTcp
  <2>2. DnsPendingInv' /\ DnsPaired'
    BY <1>7, <2>1, DnsPendingKept, DnsPairedKept
       DEF TrackersSummarise, ParseTcp, dnsVars
  <2>3. HttpPendingInv' /\ HttpPaired'
    BY <1>7, <2>1, HttpPendingKept, HttpPairedKept
       DEF TrackersSummarise, ParseTcp, httpVars
  <2>4. SeenInv' /\ RetransmissionsMarked'
    BY <1>7, SeenNext, MarkedNext DEF TrackersSummarise
  <2> QED
    BY <1>0, <1>4, <2>1, <2>2, <2>3, <2>4 DEF TrackersSummarise
<1>8. ASSUME NEW p \in Traffic, ParseOther(p)
      PROVE  IInv'
  <2>1. Parse(p) /\ ~IsDns(p) /\ ~IsHttp(p) /\ ~IsTcp(p)
    BY <1>8, OtherDialogues DEF ParseOther
  <2>2. DnsPendingInv' /\ DnsPaired'
    BY <1>8, <2>1, DnsPendingKept, DnsPairedKept
       DEF TrackersSummarise, ParseOther, dnsVars
  <2>3. HttpPendingInv' /\ HttpPaired'
    BY <1>8, <2>1, HttpPendingKept, HttpPairedKept
       DEF TrackersSummarise, ParseOther, httpVars
  <2>4. SeenInv' /\ RetransmissionsMarked'
    BY <1>8, <2>1, SeenKept, MarkedKept DEF TrackersSummarise, ParseOther, tcpVars
  <2> QED
    BY <1>0, <1>4, <2>1, <2>2, <2>3, <2>4 DEF TrackersSummarise
<1>9. CASE UNCHANGED vars
  BY <1>0, <1>9, TrackersUntouched DEF vars, Analyzed, dnsVars, tcpVars
<1> QED
  BY <1>1, <1>2, <1>3, <1>5, <1>6, <1>7, <1>8, <1>9 DEF Next, Finished

LEMMA Invariant == Spec => []IInv
<1>1. Init => IInv
  BY InitInvariant
<1>2. IInv /\ [Next]_vars => IInv'
  BY InvariantKept
<1> QED
  BY <1>1, <1>2, PTL DEF Spec

-----------------------------------------------------------------------------
(* The findings.                                                           *)

\* There are as many records, and as many marked ones, as segments.
LEMMA RecordsCounted ==
  ASSUME TypeOK, RetransmissionsMarked
  PROVE  LET segments == {i \in DOMAIN packets : IsTcp(packets[i])}
             repeated == {i \in segments : Repeats(packets, i)}
         IN /\ Cardinality(tcpRecords) = Cardinality(segments)
            /\ Cardinality({r \in tcpRecords : r.retransmission}) =
                 Cardinality(repeated)
            /\ Cardinality(segments) \in Nat /\ Cardinality(repeated) \in Nat
            /\ Cardinality(segments) = 0 <=> segments = {}
<1> DEFINE segments == {i \in DOMAIN packets : IsTcp(packets[i])}
           repeated == {i \in segments : Repeats(packets, i)}
           marked == {r \in tcpRecords : r.retransmission}
           Mark(i) == [packet |-> i, retransmission |-> Repeats(packets, i)]
           f == [i \in segments |-> Mark(i)]
           g == [i \in repeated |-> Mark(i)]
<1>1. IsFiniteSet(segments) /\ IsFiniteSet(repeated)
  <2>1. Len(packets) \in Nat /\ DOMAIN packets = 1..Len(packets)
    BY DEF TypeOK
  <2>2. IsFiniteSet(1..Len(packets))
    BY <2>1, FS_Interval
  <2>3. segments \in SUBSET (1..Len(packets)) /\ repeated \in SUBSET (1..Len(packets))
    BY <2>1
  <2> QED
    BY <2>2, <2>3, FS_Subset
<1>2. tcpRecords = {Mark(i) : i \in segments}
  BY DEF RetransmissionsMarked
<1>3. marked = {Mark(i) : i \in repeated}
  BY <1>2
<1>4. \A i, j : Mark(i) = Mark(j) => i = j
  <2> SUFFICES ASSUME NEW i, NEW j, Mark(i) = Mark(j) PROVE i = j
    OBVIOUS
  <2>1. Mark(i).packet = i /\ Mark(j).packet = j
    OBVIOUS
  <2> QED
    BY <2>1
<1> HIDE DEF segments, repeated, marked, Mark
<1>5. f \in Bijection(segments, tcpRecords)
  BY <1>2, <1>4 DEF Bijection, Injection, Surjection, IsInjective
<1>6. g \in Bijection(repeated, marked)
  BY <1>3, <1>4 DEF Bijection, Injection, Surjection, IsInjective
<1>7. Cardinality(tcpRecords) = Cardinality(segments)
  BY <1>1, <1>5, FS_Bijection DEF ExistsBijection
<1>8. Cardinality(marked) = Cardinality(repeated)
  BY <1>1, <1>6, FS_Bijection DEF ExistsBijection
<1>9. /\ Cardinality(segments) \in Nat /\ Cardinality(repeated) \in Nat
      /\ Cardinality(segments) = 0 <=> segments = {}
  BY <1>1, FS_CardinalityType, FS_EmptySet
<1> QED
  BY <1>7, <1>8, <1>9 DEF segments, repeated, marked

\* A completed entry is slow exactly if the packets say so.
LEMMA SlowAgrees ==
  ASSUME TypeOK, DnsPaired
  PROVE  (\E e \in dnsCompleted : e.query # 0 /\ e.time > DnsSlow) <=>
           \E r \in DOMAIN packets :
             /\ IsDns(packets[r]) /\ packets[r].response
             /\ \E q \in RequestOf(packets, r) :
                  packets[r].time - packets[q].time > DnsSlow
<1>0. Len(packets) \in Nat /\ DOMAIN packets = 1..Len(packets)
  BY DEF TypeOK
<1>1. ASSUME NEW e \in dnsCompleted, e.query # 0, e.time > DnsSlow
      PROVE  \E r \in DOMAIN packets :
               /\ IsDns(packets[r]) /\ packets[r].response
               /\ \E q \in RequestOf(packets, r) :
                    packets[r].time - packets[q].time > DnsSlow
  <2>1. /\ e.response \in DOMAIN packets
        /\ IsDns(packets[e.response]) /\ packets[e.response].response
    BY DEF DnsPaired
  <2>2. e.query \in RequestOf(packets, e.response)
    BY <1>1 DEF DnsPaired, Matches
  <2>3. e.time = packets[e.response].time - packets[e.query].time
    BY <1>1 DEF DnsPaired
  <2> QED
    BY <1>1, <2>1, <2>2, <2>3
<1>2. ASSUME NEW r \in DOMAIN packets, IsDns(packets[r]), packets[r].response,
             NEW q \in RequestOf(packets, r),
             packets[r].time - packets[q].time > DnsSlow
      PROVE  \E e \in dnsCompleted : e.query # 0 /\ e.time > DnsSlow
  <2>1. PICK e \in dnsCompleted : e.response = r
    BY <1>2 DEF DnsPaired
  <2>2. e.query \in RequestOf(packets, r)
    BY <1>2, <2>1 DEF DnsPaired, Matches
  <2>3. q \in 1..(r-1) /\ e.query \in 1..(r-1)
    BY <2>2 DEF RequestOf
  <2>4. e.query = q
    <3>1. /\ SameDialogue(packets[q], packets[r])
          /\ SameDialogue(packets[e.query], packets[r])
          /\ \A j \in (q+1)..(r-1) : ~SameDialogue(packets[j], packets[r])
          /\ \A j \in (e.query+1)..(r-1) : ~SameDialogue(packets[j], packets[r])
      BY <2>2 DEF RequestOf
    <3> QED
      BY <1>0, <2>3, <3>1
  <2>5. e.time = packets[r].time - packets[q].time
    BY <1>0, <2>1, <2>3, <2>4 DEF DnsPaired
  <2> QED
    BY <1>0, <1>2, <2>1, <2>3, <2>4, <2>5
<1> QED
  BY <1>1, <1>2

LEMMA FindingsFollow == IInv => FindingsJustified
<1> SUFFICES ASSUME IInv, phase = "done" PROVE FindingsJustified
  BY DEF FindingsJustified
<1> DEFINE segments == {i \in DOMAIN packets : IsTcp(packets[i])}
           repeated == {i \in segments : Repeats(packets, i)}
           s == Cardinality(segments)
           t == Cardinality(repeated)
           tcp == TcpFindings(tcpRecords)
           dns == DnsFindings(dnsCompleted)
           reported(c, v) == \E n \in DOMAIN findings : findings[n] = Finding(c, v)
           slow == \E r \in DOMAIN packets :
                     /\ IsDns(packets[r]) /\ packets[r].response
                     /\ \E q \in RequestOf(packets, r) :
                          packets[r].time - packets[q].time > DnsSlow
<1>1. findings = tcp \o dns
  BY DEF IInv, Analyzed
<1>2. dns = IF slow THEN <<Finding("dns", "warning")>> ELSE <<>>
  BY SlowAgrees DEF IInv, DnsFindings
<1>3. s \in Nat /\ t \in Nat /\ (s = 0 <=> segments = {})
  BY RecordsCounted DEF IInv
<1>4. tcp = IF segments = {} \/ ~(100 * t >= LossWarning * s) THEN <<>>
            ELSE IF ~(100 * t >= LossCritical * s)
                 THEN <<Finding("packet_loss", "warning")>>
                 ELSE <<Finding("packet_loss", "critical")>>
  <2>1. /\ Cardinality(tcpRecords) = s
        /\ Cardinality({r \in tcpRecords : r.retransmission}) = t
    BY RecordsCounted DEF IInv
  <2> HIDE DEF s, t
  <2>2. /\ 100 * t < LossWarning * s <=> ~(100 * t >= LossWarning * s)
        /\ 100 * t < LossCritical * s <=> ~(100 * t >= LossCritical * s)
    <3>1. /\ 100 * t \in Int /\ LossWarning * s \in Int /\ LossCritical * s \in Int
      BY <1>3, DetectorAssumption
    <3> QED
      BY <3>1
  <2> QED
    BY <1>3, <2>1, <2>2 DEF TcpFindings
<1> HIDE DEF segments, repeated, s, t, tcp, dns, slow
<1>5. \A c, v : reported(c, v) <=>
        \/ \E n \in DOMAIN tcp : tcp[n] = Finding(c, v)
        \/ \E n \in DOMAIN dns : dns[n] = Finding(c, v)
  <2>1. tcp \in {<<>>, <<Finding("packet_loss", "warning")>>,
                 <<Finding("packet_loss", "critical")>>}
    BY <1>4
  <2>2. dns \in {<<>>, <<Finding("dns", "warning")>>}
    BY <1>2
  <2> QED
    BY <1>1, <2>1, <2>2
<1>6. reported("dns", "warning") <=> slow
  BY <1>2, <1>4, <1>5 DEF Finding
<1>7. reported("packet_loss", "critical") <=>
        segments # {} /\ 100 * t >= LossWarning * s /\ 100 * t >= LossCritical * s
  BY <1>2, <1>4, <1>5 DEF Finding
<1>8. reported("packet_loss", "warning") <=>
        segments # {} /\ 100 * t >= LossWarning * s /\ ~(100 * t >= LossCritical * s)
  BY <1>2, <1>4, <1>5 DEF Finding
<1> QED
  BY <1>6, <1>7, <1>8 DEF FindingsJustified, segments, repeated, s, t, slow

-----------------------------------------------------------------------------
(* What being paired implies.                                              *)

\* Of two answered requests of a dialogue neither comes between the other one
\* and its response, nor does a response.
LEMMA AnsweredApart ==
  ASSUME NEW ps \in Seq(Packets), NEW r1 \in DOMAIN ps, NEW r2 \in DOMAIN ps,
         r1 # r2, ps[r1].response, ps[r2].response,
         NEW q1 \in RequestOf(ps, r1), NEW q2 \in RequestOf(ps, r2)
  PROVE  Apart(ps, q1, r1, q2, r2)
<1> SUFFICES ASSUME SameDialogue(ps[q1], ps[q2]) PROVE r1 < q2 \/ r2 < q1
  BY DEF Apart
<1>1. r1 \in 1..Len(ps) /\ r2 \in 1..Len(ps) /\ Len(ps) \in Nat
  OBVIOUS
<1>2. /\ q1 \in 1..(r1-1) /\ q2 \in 1..(r2-1)
      /\ ~ps[q1].response /\ ~ps[q2].response
      /\ SameDialogue(ps[q1], ps[r1]) /\ SameDialogue(ps[q2], ps[r2])
  BY DEF RequestOf
<1>3. q1 \in 1..Len(ps) /\ q2 \in 1..Len(ps)
  BY <1>1, <1>2
<1>4. ps[q1] \in Packets /\ ps[q2] \in Packets /\ ps[r1] \in Packets /\ ps[r2] \in Packets
  BY <1>1, <1>3
<1>5. /\ SameDialogue(ps[q2], ps[q1])
      /\ SameDialogue(ps[r1], ps[q1]) /\ SameDialogue(ps[r2], ps[q2])
  BY <1>2, <1>4, DialogueSymmetric
<1>6. SameDialogue(ps[q2], ps[r1]) /\ SameDialogue(ps[r2], ps[r1])
  BY <1>2, <1>4, <1>5, DialogueTransitive
<1>7. SameDialogue(ps[q1], ps[r2]) /\ SameDialogue(ps[r1], ps[r2])
  BY <1>4, <1>5, <1>6, <1>2, DialogueSymmetric, DialogueTransitive
<1>8. \A j \in (q1+1)..(r1-1) : ~SameDialogue(ps[j], ps[r1])
  BY DEF RequestOf
<1>9. \A j \in (q2+1)..(r2-1) : ~SameDialogue(ps[j], ps[r2])
  BY DEF RequestOf
<1>10. q2 \notin (q1+1)..(r1-1) /\ r2 \notin (q1+1)..(r1-1)
  BY <1>6, <1>8
<1>11. q1 \notin (q2+1)..(r2-1) /\ r1 \notin (q2+1)..(r2-1)
  BY <1>7, <1>9
<1>12. q1 # r2 /\ q2 # r1
  BY <1>2
<1> QED
  BY <1>1, <1>2, <1>10, <1>11, <1>12

LEMMA PairedApart ==
  ASSUME TypeOK, DnsPaired, HttpPaired
  PROVE  ExchangesApart
<1>1. packets \in Seq(Packets)
  BY TrafficAssumption DEF TypeOK
<1>2. ASSUME NEW e \in dnsCompleted, NEW f \in dnsCompleted,
             e # f, e.query # 0, f.query # 0
      PROVE  Apart(packets, e.query, e.response, f.query, f.response)
  <2>1. /\ e.response \in DOMAIN packets /\ packets[e.response].response
        /\ f.response \in DOMAIN packets /\ packets[f.response].response
    BY DEF DnsPaired
  <2>2. e.response # f.response
    BY <1>2 DEF DnsPaired
  <2>3. e.query \in RequestOf(packets, e.response)
    BY <1>2 DEF DnsPaired, Matches
  <2>4. f.query \in RequestOf(packets, f.response)
    BY <1>2 DEF DnsPaired, Matches
  <2> QED
    BY <1>1, <2>1, <2>2, <2>3, <2>4, AnsweredApart
<1>3. ASSUME NEW e \in httpExchanges, NEW f \in httpExchanges,
             e # f, e.request # 0, f.request # 0
      PROVE  Apart(packets, e.request, e.response, f.request, f.response)
  <2>1. /\ e.response \in DOMAIN packets /\ packets[e.response].response
        /\ f.response \in DOMAIN packets /\ packets[f.response].response
    BY DEF HttpPaired
  <2>2. e.response # f.response
    BY <1>3 DEF HttpPaired
  <2>3. e.request \in RequestOf(packets, e.response)
    BY <1>3 DEF HttpPaired, Matches
  <2>4. f.request \in RequestOf(packets, f.response)
    BY <1>3 DEF HttpPaired, Matches
  <2> QED
    BY <1>1, <2>1, <2>2, <2>3, <2>4, AnsweredApart
<1> QED
  BY <1>2, <1>3 DEF ExchangesApart

-----------------------------------------------------------------------------
(* The theorems.                                                           *)

\* The capture command keeps to its types, whatever the traffic.
THEOREM CaptureTypes == Spec => []TypeOK
BY Invariant, PTL DEF IInv

\* What the trackers hold between two packets is a summary of the capture so
\* far (dns_parser.py:61, http_parser.py:86, tcp_parser.py:53).
THEOREM NothingForgotten == Spec => []TrackersSummarise
BY Invariant, PTL DEF IInv

\* In captures of every length a DNS response is recorded once, with the last
\* open query of its id, and timed by the packets (dns_parser.py:64-75).
THEOREM QueriesPaired == Spec => []DnsPaired
BY Invariant, PTL DEF IInv

\* In captures of every length an HTTP response is recorded once, with the
\* last open request of its connection (http_parser.py:90-116).
THEOREM RequestsPaired == Spec => []HttpPaired
BY Invariant, PTL DEF IInv

\* In captures of every length no two exchanges of a dialogue overlap, and no
\* request is answered twice (dns_parser.py:67-71, http_parser.py:99-105).
THEOREM AnswersApart == Spec => []ExchangesApart
<1>1. IInv => ExchangesApart
  BY PairedApart DEF IInv
<1> QED
  BY Invariant, <1>1, PTL

\* In captures of every length the segments marked are those whose flow has
\* used their number before (tcp_parser.py:58-68).
THEOREM RepeatsMarked == Spec => []RetransmissionsMarked
BY Invariant, PTL DEF IInv

\* The findings of a capture of any length follow from its packets, for all
\* thresholds (bottleneck_detector.py:124-159).
THEOREM FindingsSound == Spec => []FindingsJustified
BY Invariant, FindingsFollow, PTL
=============================================================================
