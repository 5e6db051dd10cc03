--------------------------- MODULE CaptureCommand ---------------------------
(***************************************************************************)
(* The capture command (main.py, cmd_capture): packets are captured or     *)
(* read from a file, parsed one by one, handed to the tracker of their     *)
(* protocol, and analyzed when all were parsed.                            *)
(*                                                                         *)
(* Nothing looks at a packet before its turn comes, so a packet is chosen  *)
(* when it is parsed: `packets` is the part of the capture parsed so far.  *)
(* The timestamps of a file need not be in order, and the parser's clock   *)
(* has nothing to do with them.                                            *)
(***************************************************************************)
EXTENDS DnsLatencyTracker, HttpExchangeTracker, TcpStreamTracker,
        BottleneckDetector

CONSTANT MaxPackets     \* bound: packets in a capture

ASSUME CaptureAssumption == MaxPackets \in Nat

VARIABLES
  phase,              \* "capture", "parse", "done", or "failed"
  packets,            \* the packets parsed so far
  now,                \* time.time()
  protocolCounts      \* protocol_counts

vars == <<dnsVars, httpVars, tcpVars, findings, phase, packets, now,
          protocolCounts>>

Init ==
  /\ DnsInit /\ HttpInit /\ TcpInit /\ DetectorInit
  /\ phase = "capture" /\ packets = <<>> /\ now = 0
  /\ protocolCounts = [protocol \in Protocols |-> 0]

-----------------------------------------------------------------------------
\* sniff() or rdpcap() comes back with all its packets.
Captured ==
  /\ phase = "capture" /\ phase' = "parse"
  /\ UNCHANGED <<dnsVars, httpVars, tcpVars, findings, packets, now,
                 protocolCounts>>

\* The capture fails and the command exits, or the packets cannot be saved
\* and the exception ends it: either way before the analysis.
Fails ==
  /\ phase \in {"capture", "parse"} /\ phase' = "failed"
  /\ UNCHANGED <<dnsVars, httpVars, tcpVars, findings, packets, now,
                 protocolCounts>>

\* What handle_record(parser.parse(pkt)) does with every packet.
Parse(p) ==
  /\ phase = "parse" /\ Len(packets) < MaxPackets
  /\ packets' = Append(packets, p)
  /\ protocolCounts' = [protocolCounts EXCEPT ![Protocol(p)] = @ + 1]
  /\ UNCHANGED <<findings, phase, now>>

ParseDns(p) ==
  /\ Protocol(p) = "DNS"
  /\ Parse(p)
  /\ DnsObserve(Len(packets) + 1, p)
  /\ UNCHANGED <<httpVars, tcpVars>>

ParseHttp(p) ==
  /\ Protocol(p) = "HTTP"
  /\ Parse(p)
  /\ HttpObserve(Len(packets) + 1, p, now)
  /\ UNCHANGED <<dnsVars, tcpVars>>

ParseTcp(p) ==
  /\ Protocol(p) = "TCP"
  /\ Parse(p)
  /\ TcpObserve(Len(packets) + 1, p)
  /\ UNCHANGED <<dnsVars, httpVars>>

ParseOther(p) ==
  /\ Protocol(p) \notin {"DNS", "HTTP", "TCP"}
  /\ Parse(p)
  /\ UNCHANGED <<dnsVars, httpVars, tcpVars>>

Analyze ==
  /\ phase = "parse" /\ phase' = "done"
  /\ AnalyzeCapture(tcpRecords, dnsCompleted)
  /\ UNCHANGED <<dnsVars, httpVars, tcpVars, packets, now, protocolCounts>>

Tick ==
  /\ phase = "parse" /\ now < MaxTime
  /\ now' = now + 1
  /\ UNCHANGED <<dnsVars, httpVars, tcpVars, findings, phase, packets,
                 protocolCounts>>

Finished == phase \in {"done", "failed"} /\ UNCHANGED vars

Next ==
  \/ Captured \/ Fails \/ Analyze \/ Tick \/ Finished
  \/ \E p \in Traffic :
       ParseDns(p) \/ ParseHttp(p) \/ ParseTcp(p) \/ ParseOther(p)

Spec == Init /\ [][Next]_vars

-----------------------------------------------------------------------------
TypeOK ==
  /\ DnsTypeOK /\ HttpTypeOK /\ TcpTypeOK /\ DetectorTypeOK
  /\ phase \in {"capture", "parse", "done", "failed"}
  /\ packets \in Seq(Traffic) /\ now \in Times
  /\ protocolCounts \in [Protocols -> Nat]

-----------------------------------------------------------------------------
\* The reference: what the trackers should know of a capture ps, from its
\* packets alone, without classifying them in any order.

IsDns(p)  == {"IP", "DNS"} \subseteq p.layers
IsHttp(p) == {"IP", "HTTP"} \subseteq p.layers
IsTcp(p)  == {"IP", "TCP"} \subseteq p.layers /\ ~IsDns(p) /\ ~IsHttp(p)

\* Two HTTP messages of one connection: in the same direction if both are
\* requests or both responses, otherwise in opposite ones.
SameConnection(p, q) ==
  p.flow = IF p.response = q.response THEN q.flow
           ELSE <<q.flow[2], q.flow[1]>>

SameDialogue(p, q) ==
  \/ IsDns(p) /\ IsDns(q) /\ p.id = q.id
  \/ IsHttp(p) /\ IsHttp(q) /\ SameConnection(p, q)

\* The request (or query) that the message at position r answers: the last
\* message of the dialogue before it, if that is a request.
RequestOf(ps, r) ==
  {q \in 1..(r-1) :
     /\ SameDialogue(ps[q], ps[r]) /\ ~ps[q].response
     /\ \A j \in (q+1)..(r-1) : ~SameDialogue(ps[j], ps[r])}

\* Is the segment at position i one whose number its flow has used before?
Repeats(ps, i) ==
  /\ ps[i].flags \notin {"SYN", "SYN,ACK"}
  /\ \E j \in 1..(i-1) :
       IsTcp(ps[j]) /\ ps[j].flow = ps[i].flow /\ ps[j].seq = ps[i].seq

-----------------------------------------------------------------------------
\* q is the position of the request that r answers, 0 if there is none.
Matches(ps, r, q) ==
  IF RequestOf(ps, r) = {} THEN q = 0 ELSE q \in RequestOf(ps, r)

\* Every DNS response over IPv4 is recorded once, with the last query of its
\* id that no earlier response has used up, and timed by the two packets'
\* timestamps (dns_parser.py:64-75): repeated, lost, unasked and interleaved
\* messages, and ids that are used again, included.
DnsPaired ==
  /\ {e.response : e \in dnsCompleted} =
       {r \in DOMAIN packets : IsDns(packets[r]) /\ packets[r].response}
  /\ \A e, f \in dnsCompleted : e.response = f.response => e = f
  /\ \A e \in dnsCompleted :
       /\ Matches(packets, e.response, e.query)
       /\ e.query # 0 =>
            e.time = packets[e.response].time - packets[e.query].time

\* Every HTTP response is recorded once, with the last request of its
\* connection, seen from the client's side, that no earlier response has used
\* up (http_parser.py:90-116).
HttpPaired ==
  /\ {e.response : e \in httpExchanges} =
       {r \in DOMAIN packets : IsHttp(packets[r]) /\ packets[r].response}
  /\ \A e, f \in httpExchanges : e.response = f.response => e = f
  /\ \A e \in httpExchanges : Matches(packets, e.response, e.request)

\* One of two requests of a dialogue, q1 with its response r1 and q2 with its
\* response r2, is sent after the other was answered.
Apart(ps, q1, r1, q2, r2) ==
  SameDialogue(ps[q1], ps[q2]) => r1 < q2 \/ r2 < q1

\* The exchanges of one dialogue follow one another: no request is filed with
\* two responses, and no two exchanges overlap or cross, so that no part of a
\* capture enters two response times of a dialogue (dns_parser.py:67-71,
\* http_parser.py:99-105).
ExchangesApart ==
  /\ \A e, f \in dnsCompleted :
       e # f /\ e.query # 0 /\ f.query # 0 =>
         Apart(packets, e.query, e.response, f.query, f.response)
  /\ \A e, f \in httpExchanges :
       e # f /\ e.request # 0 /\ f.request # 0 =>
         Apart(packets, e.request, e.response, f.request, f.response)

\* The tracker has one record of every TCP segment that is neither DNS nor a
\* readable HTTP message, marked exactly if it is no part of a handshake and
\* its flow has carried its number before (tcp_parser.py:58-68,
\* packet_parser.py:53-77).
RetransmissionsMarked ==
  tcpRecords =
    {[packet |-> i, retransmission |-> Repeats(packets, i)] :
       i \in {j \in DOMAIN packets : IsTcp(packets[j])}}

\* The findings of a capture follow from its packets: a slow lookup is reported
\* exactly if a response came later than the threshold after its query, and a
\* loss with the severity of the share of repeated segments
\* (bottleneck_detector.py:124-159).
FindingsJustified ==
  phase = "done" =>
    LET segments == {i \in DOMAIN packets : IsTcp(packets[i])}
        repeated == {i \in segments : Repeats(packets, i)}
        rate(percent) == 100 * Cardinality(repeated) >=
                           percent * Cardinality(segments)
        reported(c, s) == \E n \in DOMAIN findings :
                            findings[n] = Finding(c, s)
        slow == \E r \in DOMAIN packets :
                  /\ IsDns(packets[r]) /\ packets[r].response
                  /\ \E q \in RequestOf(packets, r) :
                       packets[r].time - packets[q].time > DnsSlow
    IN /\ reported("dns", "warning") <=> slow
       /\ reported("packet_loss", "critical") <=>
            segments # {} /\ rate(LossWarning) /\ rate(LossCritical)
       /\ reported("packet_loss", "warning") <=>
            segments # {} /\ rate(LossWarning) /\ ~rate(LossCritical)

-----------------------------------------------------------------------------
\* What docstrings and names say and the code does not do.

\* http_parser.py:82, the tracker is there "to compute response times, error
\* rates, and slow-request lists": an exchange is slow if its response was
\* captured later than the threshold after its request.
SlowExchangesListed ==
  \A e \in httpExchanges :
    e.request # 0 =>
      (e.slow <=>
         packets[e.response].time - packets[e.request].time > HttpSlow)

\* tcp_parser.py:50, "flag likely retransmissions", and main.py:78 reports them
\* as a loss rate: a segment that is marked repeats one that used up the
\* number, as an acknowledgement without data does not.
OnlyLossMarked ==
  \A r \in tcpRecords :
    r.retransmission =>
      \E j \in 1..(r.packet - 1) :
        /\ IsTcp(packets[j]) /\ packets[j].flow = packets[r.packet].flow
        /\ packets[j].seq = packets[r.packet].seq
        /\ packets[j].flags # "ACK"
=============================================================================
