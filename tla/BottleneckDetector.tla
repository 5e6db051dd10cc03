------------------------- MODULE BottleneckDetector -------------------------
(***************************************************************************)
(* What the detector makes of a capture (analysis/bottleneck_detector.py): *)
(* analyze_tcp_retransmissions() and analyze_dns().  A finding is its      *)
(* category and severity; its wording is left out.  Rates are percentages, *)
(* compared without dividing.                                              *)
(***************************************************************************)
EXTENDS Integers, Sequences, FiniteSets

CONSTANTS
  LossWarning,      \* retransmission_rate_warning, in percent
  LossCritical,     \* the rate from which a loss is critical, in percent
  DnsSlow           \* dns_slow_seconds, in units of time

ASSUME DetectorAssumption ==
  LossWarning \in Nat /\ LossCritical \in Nat /\ DnsSlow \in Nat

VARIABLE findings

DetectorInit == findings = <<>>

Finding(category, severity) == [category |-> category, severity |-> severity]

-----------------------------------------------------------------------------
\* Variant: `rate > threshold`.
TcpFindingsAbove(records) ==
  LET retrans == Cardinality({r \in records : r.retransmission})
      total   == Cardinality(records)
  IN IF total = 0 \/ 100 * retrans <= LossWarning * total THEN <<>>
     ELSE IF 100 * retrans < LossCritical * total
          THEN <<Finding("packet_loss", "warning")>>
          ELSE <<Finding("packet_loss", "critical")>>

-----------------------------------------------------------------------------
TcpFindings(records) ==
  LET retrans == Cardinality({r \in records : r.retransmission})
      total   == Cardinality(records)
  IN IF total = 0 \/ 100 * retrans < LossWarning * total THEN <<>>
     ELSE IF 100 * retrans < LossCritical * total
          THEN <<Finding("packet_loss", "warning")>>
          ELSE <<Finding("packet_loss", "critical")>>

DnsFindings(entries) ==
  IF \E e \in entries : e.query # 0 /\ e.time > DnsSlow
  THEN <<Finding("dns", "warning")>>
  ELSE <<>>

AnalyzeCapture(records, entries) ==
  findings' = findings \o TcpFindings(records) \o DnsFindings(entries)

DetectorTypeOK ==
  findings \in Seq([category : {"packet_loss", "dns"},
                    severity : {"warning", "critical"}])
=============================================================================
