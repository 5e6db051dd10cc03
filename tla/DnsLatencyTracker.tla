-------------------------- MODULE DnsLatencyTracker --------------------------
(***************************************************************************)
(* DNS queries paired with their responses (capture/dns_parser.py).        *)
(*                                                                         *)
(* A packet is named by its position in the capture.  dnsPending holds the *)
(* position of the pending query of each id, 0 for none; the code holds    *)
(* its timestamp.  dnsCompleted is a list that is only counted, filtered   *)
(* and sorted by time: it is kept as a set, and an entry's response tells  *)
(* it from the others.  An entry without a query has no response time.     *)
(***************************************************************************)
EXTENDS PacketParser

VARIABLES dnsPending, dnsCompleted

dnsVars == <<dnsPending, dnsCompleted>>

DnsInit ==
  /\ dnsPending = [id \in TxIds |-> [query |-> 0, time |-> 0]]
  /\ dnsCompleted = {}

DnsEntry(i, p) ==
  LET start == dnsPending[p.id]
  IN [response |-> i, query |-> start.query,
      time |-> IF start.query = 0 THEN 0 ELSE p.time - start.time]

-----------------------------------------------------------------------------
\* Variants of observe(), as a careless change would leave it.

\* `self._pending.get(txid)`: an answered query stays pending.
DnsObserveResponseKeeping(i, p) ==
  /\ p.response
  /\ dnsCompleted' = dnsCompleted \cup {DnsEntry(i, p)}
  /\ UNCHANGED dnsPending

\* `self._pending.setdefault(txid, timestamp)`: a retry does not count.
DnsObserveFirstQuery(i, p) ==
  /\ ~p.response
  /\ dnsPending' = [dnsPending EXCEPT ![p.id] =
       IF @.query = 0 THEN [query |-> i, time |-> p.time] ELSE @]
  /\ UNCHANGED dnsCompleted

-----------------------------------------------------------------------------
DnsObserveQuery(i, p) ==
  /\ ~p.response
  /\ dnsPending' = [dnsPending EXCEPT ![p.id] = [query |-> i, time |-> p.time]]
  /\ UNCHANGED dnsCompleted

DnsObserveResponse(i, p) ==
  /\ p.response
  /\ dnsCompleted' = dnsCompleted \cup {DnsEntry(i, p)}
  /\ dnsPending' = [dnsPending EXCEPT ![p.id] = [query |-> 0, time |-> 0]]

DnsObserve(i, p) == DnsObserveQuery(i, p) \/ DnsObserveResponse(i, p)

DnsTypeOK ==
  /\ dnsPending \in [TxIds -> [query : Nat, time : Times]]
  /\ dnsCompleted \subseteq [response : Nat, query : Nat, time : Int]
=============================================================================
