-------------------------- MODULE CaptureInvariant --------------------------
(***************************************************************************)
(* The inductive invariant of CaptureCommand: what the trackers hold while *)
(* they wait is a summary of the packets parsed so far.                    *)
(***************************************************************************)
EXTENDS CaptureCommand

\* The message at position q is a request, and no message of its dialogue has
\* followed.
Open(ps, q) ==
  /\ ~ps[q].response
  /\ \A j \in (q+1)..Len(ps) : ~SameDialogue(ps[j], ps[q])

\* dnsPending names, for every id, the open query of that id.
DnsPendingInv ==
  \A id \in TxIds :
    LET start == dnsPending[id]
    IN /\ start.query # 0 =>
            /\ start.query \in DOMAIN packets
            /\ IsDns(packets[start.query]) /\ packets[start.query].id = id
            /\ start.time = packets[start.query].time
       /\ \A q \in DOMAIN packets :
            IsDns(packets[q]) /\ packets[q].id = id /\ Open(packets, q)
              <=> q = start.query

\* httpPending names, for every connection, its open request.
HttpPendingInv ==
  \A c \in Flows :
    LET start == httpPending[c]
    IN /\ start.request # 0 => start.request \in DOMAIN packets
       /\ \A q \in DOMAIN packets :
            IsHttp(packets[q]) /\ packets[q].flow = c /\ Open(packets, q)
              <=> q = start.request

\* seenSeqs holds the numbers of the segments of each flow.
SeenInv ==
  \A f \in Flows, s \in SeqNos :
    s \in seenSeqs[f] <=>
      \E j \in DOMAIN packets :
        IsTcp(packets[j]) /\ packets[j].flow = f /\ packets[j].seq = s

\* What the trackers hold is what the packets imply, so far (dns_parser.py:61,
\* http_parser.py:86, tcp_parser.py:53): an answered query or request is not
\* kept, an overwritten one neither, and no sequence number is forgotten.
TrackersSummarise == DnsPendingInv /\ HttpPendingInv /\ SeenInv

\* The findings are those of the analysis, once it has run.
Analyzed ==
  findings = IF phase = "done"
             THEN TcpFindings(tcpRecords) \o DnsFindings(dnsCompleted)
             ELSE <<>>

IInv ==
  /\ TypeOK /\ TrackersSummarise
  /\ DnsPaired /\ HttpPaired /\ RetransmissionsMarked
  /\ Analyzed
=============================================================================
