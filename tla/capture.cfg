SPECIFICATION Spec
CONSTANTS
  id1 = id1
  id2 = id2
  h1 = h1
  h2 = h2
  s1 = s1
  s2 = s2
  TxIds <- MCTxIds
  Hosts <- MCHosts
  SeqNos <- MCSeqNos
  Traffic <- MCTraffic
  MaxTime = 1
  HttpSlow = 0
  DnsSlow = 0
  LossWarning = 50
  LossCritical = 60
  MaxPackets = 4
SYMMETRY Symmetry
INVARIANTS
  TypeOK
  DnsPaired
  HttpPaired
  RetransmissionsMarked
  FindingsJustified
  TrackersSummarise
  ExchangesApart
