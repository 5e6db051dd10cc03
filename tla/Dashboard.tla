----------------------------- MODULE Dashboard -----------------------------
(***************************************************************************)
(* The dashboard (dashboard/app.py, templates/dashboard.html): a server    *)
(* thread beside the load test, and a page that polls it.                  *)
(*                                                                         *)
(* A poll fetches the metrics, and when it has put them on the page, the   *)
(* timeline.  The page begins one every second, whether the last one is    *)
(* through or not; the server handles each request in a thread of its own. *)
(* So replies may be put on the page in another order than they were made. *)
(***************************************************************************)
EXTENDS LoadTestRun

CONSTANT Polls            \* bound: polls under way at a time

NoCards == -1             \* the cards before the first metrics: a dash

VARIABLES
  registered,   \* is _scheduler set?
  server,       \* the thread in run_dashboard(): "off", "starting" or "up"
  pollAt,       \* where each poll is
  pollCards,    \* the reply to its request of the metrics,
  pollChart,    \* and of the timeline
  cards,        \* the page's cards: how many results they cover
  chart,        \* the page's charts: the timeline they are drawn from
  pollBase      \* history: cards and charts on the page when a poll began

pageVars == <<pollAt, pollCards, pollChart, cards, chart, pollBase>>
dashVars == <<registered, server, pageVars>>

PollAt == {"idle", "metrics", "metricsReply", "timeline", "timelineReply"}

NothingShown == [cards |-> NoCards, chart |-> <<>>]

DashInit ==
  /\ registered = FALSE /\ server = "off"
  /\ pollAt = [p \in Polls |-> "idle"]
  /\ pollCards = [p \in Polls |-> NoCards]
  /\ pollChart = [p \in Polls |-> <<>>]
  /\ cards = NoCards /\ chart = <<>>
  /\ pollBase = [p \in Polls |-> NothingShown]

\* register_scheduler(), and the start of the server's thread.
Register  == registered' = TRUE
StartServer == server' = "starting"

\* The server listens; if its port is taken, it never does.
ServerUp ==
  /\ server = "starting" /\ phase \notin Ended
  /\ server' = "up"
  /\ UNCHANGED <<registered, pageVars>>

Serving == server = "up" /\ phase \notin Ended

-----------------------------------------------------------------------------
\* Variant: the results since the last reply, which the page would have to add.
ServeNewResults(p) ==
  /\ pollAt[p] = "metrics" /\ Serving
  /\ pollCards' = [pollCards EXCEPT ![p] =
       IF ~registered THEN NoCards
       ELSE IF cards = NoCards THEN Len(results) ELSE Len(results) - cards]
  /\ pollAt' = [pollAt EXCEPT ![p] = "metricsReply"]
  /\ UNCHANGED <<registered, server, pollChart, cards, chart, pollBase>>

-----------------------------------------------------------------------------
PollBegins(p) ==
  /\ pollAt[p] = "idle" /\ Serving
  /\ pollAt' = [pollAt EXCEPT ![p] = "metrics"]
  /\ pollBase' = [pollBase EXCEPT ![p] = [cards |-> cards, chart |-> chart]]
  /\ UNCHANGED <<registered, server, pollCards, pollChart, cards, chart>>

\* api_metrics(): a snapshot, or 404 if no scheduler was registered.
ServeMetrics(p) ==
  /\ pollAt[p] = "metrics" /\ Serving
  /\ pollCards' = [pollCards EXCEPT ![p] =
       IF registered THEN Len(results) ELSE NoCards]
  /\ pollAt' = [pollAt EXCEPT ![p] = "metricsReply"]
  /\ UNCHANGED <<registered, server, pollChart, cards, chart, pollBase>>

\* The page takes the reply over `if (res.ok)` and asks for the timeline.
ShowMetrics(p) ==
  /\ pollAt[p] = "metricsReply"
  /\ cards' = IF pollCards[p] = NoCards THEN cards ELSE pollCards[p]
  /\ pollCards' = [pollCards EXCEPT ![p] = NoCards]
  /\ pollAt' = [pollAt EXCEPT ![p] = "timeline"]
  /\ UNCHANGED <<registered, server, pollChart, chart, pollBase>>

\* api_timeline(): a copy of the timeline, or an empty list.
ServeTimeline(p) ==
  /\ pollAt[p] = "timeline" /\ Serving
  /\ pollChart' = [pollChart EXCEPT ![p] =
       IF registered THEN timeline ELSE <<>>]
  /\ pollAt' = [pollAt EXCEPT ![p] = "timelineReply"]
  /\ UNCHANGED <<registered, server, pollCards, cards, chart, pollBase>>

PollOver(p) ==
  /\ pollAt' = [pollAt EXCEPT ![p] = "idle"]
  /\ pollCards' = [pollCards EXCEPT ![p] = NoCards]
  /\ pollChart' = [pollChart EXCEPT ![p] = <<>>]
  /\ pollBase' = [pollBase EXCEPT ![p] = NothingShown]

ShowTimeline(p) ==
  /\ pollAt[p] = "timelineReply"
  /\ chart' = pollChart[p]
  /\ PollOver(p)
  /\ UNCHANGED <<registered, server, cards>>

\* fetch() throws, always when the process has ended: the poll is given up.
PollFails(p) ==
  /\ pollAt[p] # "idle"
  /\ PollOver(p)
  /\ UNCHANGED <<registered, server, cards, chart>>

PageStep(p) ==
  \/ PollBegins(p) \/ PollFails(p)
  \/ ServeMetrics(p) \/ ShowMetrics(p)
  \/ ServeTimeline(p) \/ ShowTimeline(p)
=============================================================================
