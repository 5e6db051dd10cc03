SPECIFICATION Spec
CONSTANTS
  c1 = c1
  c2 = c2
  Clients <- MCClients
  Payloads <- MCPayloads
  Ports = {7}
  MaxStarts = 2
  BufSize = 2
  Window = 1
INVARIANT ListeningServes
