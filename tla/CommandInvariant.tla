-------------------------- MODULE CommandInvariant --------------------------
(***************************************************************************)
(* The inductive invariant of LoadTestCommand, in parts: what each phase   *)
(* of a command leaves untouched, what the summary and the reports were    *)
(* made of, what is on disk, and what is on its way to the page.           *)
(***************************************************************************)
EXTENDS LoadTestCommand

\* Before run() there is no result, and so nothing is counted anywhere.
BeforeAnalysis == BeforeRun \cup {"serve", "running", "returned"}
Reporting      == {"json", "html", "csv"}

Progress ==
  /\ phase \in BeforeRun => results = <<>> /\ timeline = <<>>
  /\ phase \in {"attached", "running", "exited"} \cup AfterRun
       => args.command = "loadtest"
  /\ \A i \in DOMAIN timeline : timeline[i] <= Len(results)
  /\ \A i \in DOMAIN points : points[i] <= Len(results)

\* The summary is of the results, the findings are the summary's, and from the
\* reading of the raw results on, these are the same.
Analyzed ==
  /\ phase \in BeforeAnalysis => findings = <<>>
  /\ Summarised => snapshot = SnapshotOf(results) /\ findings = HttpFindings(snapshot)
  /\ phase \in {"read"} \cup Reporting => raw = results

\* What has become of a report whose turn is over.
Settled(f) ==
  files[f] = IF f \in Wanted(args.formats) THEN "complete" ELSE "absent"

\* Reports are there in their order: those before the one whose turn it is,
\* and a part of that one at most.
Written ==
  /\ phase \in BeforeAnalysis \cup {"analyzed", "read"} =>
       \A f \in Formats : files[f] = "absent"
  /\ \A f \in Formats : phase = f =>
       /\ files[f] = "absent" \/ (files[f] = "partial" /\ f \in Wanted(args.formats))
       /\ \A g \in Later[f] : files[g] = "absent"
       /\ \A g \in Formats : f \in Later[g] => Settled(g)
  /\ phase = "exited" => \A f \in Formats : Settled(f)

\* A reply is not older than what the page showed when its poll began.
RepliesRecent ==
  \A p \in Polls :
    /\ pollAt[p] = "metricsReply" =>
         pollCards[p] = NoCards \/ pollBase[p].cards <= pollCards[p]
    /\ pollAt[p] = "timelineReply" =>
         Len(pollBase[p].chart) <= Len(pollChart[p])

\* A poll with no other beside it finds the page as it was when it began.
PollAlone ==
  (\A p, q \in Polls : p = q) =>
    \A p \in Polls :
      /\ pollAt[p] \in {"metrics", "metricsReply"} => pollBase[p].cards = cards
      /\ pollAt[p] # "idle" => pollBase[p].chart = chart

IInv ==
  /\ TypeOK /\ Progress /\ Analyzed
  /\ Written /\ FilesTellOutcome
  /\ PageShowsTest /\ RepliesRecent /\ PollAlone
=============================================================================
