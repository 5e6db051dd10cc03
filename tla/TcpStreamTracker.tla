-------------------------- MODULE TcpStreamTracker --------------------------
(***************************************************************************)
(* Likely retransmissions, by the sequence numbers seen on each flow       *)
(* (capture/tcp_parser.py), and the records cmd_capture keeps of them      *)
(* (main.py): a list that is only counted, kept as a set of entries.       *)
(***************************************************************************)
EXTENDS PacketParser

VARIABLES seenSeqs, tcpRecords

tcpVars == <<seenSeqs, tcpRecords>>

Handshake == {"SYN", "SYN,ACK"}

TcpInit ==
  /\ seenSeqs = [f \in Flows |-> {}]
  /\ tcpRecords = {}

-----------------------------------------------------------------------------
\* Variants of observe(), as a careless change would leave it.

\* The number is added before it is looked up.
TcpObserveAddingFirst(i, p) ==
  /\ seenSeqs' = [seenSeqs EXCEPT ![p.flow] = @ \cup {p.seq}]
  /\ tcpRecords' = tcpRecords \cup
       {[packet |-> i, retransmission |-> p.flags \notin Handshake]}

\* What is remembered of a segment is the wrong field.
TcpObserveFlags(i, p) ==
  /\ seenSeqs' = [seenSeqs EXCEPT ![p.flow] = @ \cup {p.flags}]
  /\ tcpRecords' = tcpRecords \cup
       {[packet |-> i,
         retransmission |-> p.seq \in seenSeqs[p.flow] /\ p.flags \notin Handshake]}

-----------------------------------------------------------------------------
TcpObserve(i, p) ==
  /\ seenSeqs' = [seenSeqs EXCEPT ![p.flow] = @ \cup {p.seq}]
  /\ tcpRecords' = tcpRecords \cup
       {[packet |-> i,
         retransmission |-> p.seq \in seenSeqs[p.flow] /\ p.flags \notin Handshake]}

TcpTypeOK ==
  /\ seenSeqs \in [Flows -> SUBSET SeqNos]
  /\ tcpRecords \subseteq [packet : Nat, retransmission : BOOLEAN]
=============================================================================
