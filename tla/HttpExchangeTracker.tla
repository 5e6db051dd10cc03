------------------------- MODULE HttpExchangeTracker -------------------------
(***************************************************************************)
(* HTTP requests correlated with responses (capture/http_parser.py).       *)
(*                                                                         *)
(* One request may be pending per connection, a connection being the flow  *)
(* of its requests.  A message is timed by the clock of the parser, not by *)
(* its own timestamp.  httpExchanges is a list that is only counted and    *)
(* averaged: it is kept as a set, as dnsCompleted is.  The status code and *)
(* the error rate, which concern a response alone, are left out.           *)
(***************************************************************************)
EXTENDS PacketParser

CONSTANT HttpSlow     \* slow_threshold_seconds, in units of time

ASSUME HttpAssumption == HttpSlow \in Nat

VARIABLES httpPending, httpExchanges

httpVars == <<httpPending, httpExchanges>>

HttpInit ==
  /\ httpPending = [c \in Flows |-> [request |-> 0, at |-> 0]]
  /\ httpExchanges = {}

\* Variant: a response is filed under its own flow.
ConnectionAsSent(p) == p.flow

\* A response comes back on the same endpoints, the other way around.
Connection(p) == IF p.response THEN <<p.flow[2], p.flow[1]>> ELSE p.flow

Exchange(i, p, now) ==
  LET start == httpPending[Connection(p)]
      time  == IF start.request = 0 THEN 0 ELSE now - start.at
  IN [response |-> i, request |-> start.request, time |-> time,
      slow |-> time > HttpSlow]

-----------------------------------------------------------------------------
HttpObserveRequest(i, p, now) ==
  /\ ~p.response
  /\ httpPending' =
       [httpPending EXCEPT ![Connection(p)] = [request |-> i, at |-> now]]
  /\ UNCHANGED httpExchanges

HttpObserveResponse(i, p, now) ==
  /\ p.response
  /\ httpExchanges' = httpExchanges \cup {Exchange(i, p, now)}
  /\ httpPending' =
       [httpPending EXCEPT ![Connection(p)] = [request |-> 0, at |-> 0]]

HttpObserve(i, p, now) ==
  HttpObserveRequest(i, p, now) \/ HttpObserveResponse(i, p, now)

HttpTypeOK ==
  /\ httpPending \in [Flows -> [request : Nat, at : Times]]
  /\ httpExchanges \subseteq
       [response : Nat, request : Nat, time : Int, slow : BOOLEAN]
=============================================================================
