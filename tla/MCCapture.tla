------------------------------ MODULE MCCapture ------------------------------
(***************************************************************************)
(* CaptureCommand on small captures.                                       *)
(***************************************************************************)
EXTENDS CaptureInvariant, TLC

CONSTANTS id1, id2, h1, h2, s1, s2

MCTxIds  == {id1, id2}
MCHosts  == {h1, h2}
MCSeqNos == {s1, s2}

\* A SYN stands for a SYN,ACK; data is what parse_http() raises on; a DNS
\* packet over TCP or IPv6 is a response; an HTTP message bears no time.
MCTraffic ==
  {p \in DnsPackets  : p.layers = {"IP", "UDP", "DNS"} \/ (p.response /\ p.time = 0)}
  \cup {p \in HttpPackets : "IP" \in p.layers /\ p.time = 0}
  \cup {p \in TcpSegments : \/ p.layers = {"IP", "TCP"} /\ p.flags \in {"SYN", "ACK"}
                            \/ p.layers = {"IP", "TCP", "BADHTTP"} /\ p.flags = "PSH,ACK"}
  \cup {p \in OtherPackets : p.layers \in {{"ARP"}, {"IP", "UDP"}}}

\* For the two runs about a single tracker.
MCWebTraffic == {p \in HttpPackets : "IP" \in p.layers}
MCTcpTraffic == {p \in TcpSegments : p.layers = {"IP", "TCP"}}

Symmetry ==
  Permutations(MCTxIds) \cup Permutations(MCHosts) \cup Permutations(MCSeqNos)
=============================================================================
