SPECIFICATION FairSpec
CONSTANTS
  c1 = c1
  c2 = c2
  Clients <- MCClients
  Payloads <- MCPayloads
  Ports = {7, 8}
  MaxStarts = 2
  BufSize = 2
  Window = 2
INVARIANTS
  TypeOK
  StallsOnlyWhenFull
  EchoFromOwnPort
  Accounted
PROPERTIES
  ServeLoopsEnd
  ClientsEnd
  HandlersEnd
  TransfersAsPromised
