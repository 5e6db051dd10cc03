---------------------------- MODULE PacketParser ----------------------------
(***************************************************************************)
(* Packets as the analyzer sees them, and the protocol that                *)
(* PacketParser.parse() files each under (capture/packet_parser.py).       *)
(*                                                                         *)
(* A packet carries the layers Scapy found in it and the fields the        *)
(* trackers read.  Two layers stand for what parse_http() finds in a TCP   *)
(* payload: HTTP for a message it accepts, BADHTTP for one on which it     *)
(* raises (a Content-Length that is no number).  A segment with flags ACK  *)
(* stands for a bare acknowledgement, one with PSH,ACK for data.  An       *)
(* endpoint is an address with a port.                                     *)
(***************************************************************************)
EXTENDS Integers, Sequences

CONSTANTS
  TxIds,      \* DNS transaction ids
  Hosts,      \* endpoints
  SeqNos,     \* TCP sequence numbers
  MaxTime,    \* bound: packets are stamped, and parsed, at times 0..MaxTime
  Traffic     \* the packets the network may carry

Times == 0..MaxTime
Flows == {f \in Hosts \X Hosts : f[1] # f[2]}

DnsPackets ==
  [layers : {{"IP", "UDP", "DNS"}, {"IP", "TCP", "DNS"}, {"IPv6", "UDP", "DNS"}},
   id : TxIds, response : BOOLEAN, time : Times]
HttpPackets ==
  [layers : {{"IP", "TCP", "HTTP"}, {"IPv6", "TCP", "HTTP"}},
   flow : Flows, response : BOOLEAN, time : Times]
TcpSegments ==
  [layers : {{"IP", "TCP"}, {"IP", "TCP", "BADHTTP"}, {"IPv6", "TCP"}},
   flow : Flows, seq : SeqNos,
   flags : {"SYN", "SYN,ACK", "ACK", "PSH,ACK"}]
OtherPackets ==
  [layers : {{"ARP"}, {"IP"}, {"IP", "UDP"}, {"IP", "ICMP"}, {"IPv6", "UDP"}}]

Packets == DnsPackets \cup HttpPackets \cup TcpSegments \cup OtherPackets

ASSUME TrafficAssumption == MaxTime \in Nat /\ Traffic \subseteq Packets

-----------------------------------------------------------------------------
Protocols == {"ARP", "DNS", "HTTP", "TCP", "UDP", "ICMP", "OTHER"}

\* The first layer of an order that a packet has.
FirstLayer(order, p) ==
  LET found == {i \in DOMAIN order : order[i] \in p.layers}
  IN IF found = {} THEN "OTHER"
     ELSE order[CHOOSE i \in found : \A j \in found : i <= j]

\* A packet without an IP layer is not looked into; the parsers of the others
\* are tried in order, and one that finds nothing or raises leaves the packet
\* to the next.
Protocol(p) ==
  IF "IP" \in p.layers
  THEN FirstLayer(<<"DNS", "HTTP", "TCP", "UDP", "ICMP">>, p)
  ELSE IF "ARP" \in p.layers THEN "ARP" ELSE "OTHER"
=============================================================================
