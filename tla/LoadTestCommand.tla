-------------------------- MODULE LoadTestCommand --------------------------
(***************************************************************************)
(* The commands around a load test (main.py): cmd_loadtest starts the      *)
(* dashboard if it is asked to, runs the test, summarises and analyzes it  *)
(* and writes the reports; cmd_dashboard starts the dashboard alone.       *)
(***************************************************************************)
EXTENDS Dashboard, ReportFiles

CONSTANT Invocations      \* what the commands are called with

\* The arguments, what the target of the test may answer with, and a bound: how
\* many results there are at most.
ASSUME InvocationsAssumption ==
  Invocations \subseteq [command : {"loadtest", "dashboard"},
                         dashboard : BOOLEAN, formats : SUBSET Formats,
                         answers : SUBSET Result, maxResults : Nat]

VARIABLE args

vars == <<args, phase, runVars, dashVars, reportVars, findings>>

Init ==
  /\ args \in Invocations /\ phase = "start"
  /\ RunInit /\ DashInit /\ ReportInit /\ DetectorInit

Goto(from, to) == phase = from /\ phase' = to

-----------------------------------------------------------------------------
\* cmd_dashboard: no scheduler is registered, and nothing else happens.
ServeAlone ==
  /\ args.command = "dashboard" /\ Goto("start", "serve")
  /\ StartServer
  /\ UNCHANGED <<args, runVars, registered, pageVars, reportVars, findings>>

AttachDashboard ==
  /\ args.command = "loadtest" /\ args.dashboard
  /\ Goto("start", "attached")
  /\ Register /\ StartServer
  /\ UNCHANGED <<args, runVars, pageVars, reportVars, findings>>

\* scheduler.run(), whether or not the server is up by now.
RunBegins ==
  /\ \/ Goto("attached", "running")
     \/ /\ args.command = "loadtest" /\ ~args.dashboard
        /\ Goto("start", "running")
  /\ Reset
  /\ UNCHANGED <<args, dashVars, reportVars, findings>>

RecordResult(r) ==
  /\ Len(results) < args.maxResults
  /\ Gather(r)
  /\ UNCHANGED <<args, phase, dashVars, reportVars, findings>>

RecordPoint ==
  /\ \E covered \in 0..Len(results) : SamplePoint(covered)
  /\ UNCHANGED <<args, phase, dashVars, reportVars, findings>>

RunReturns ==
  /\ Goto("running", "returned")
  /\ UNCHANGED <<args, runVars, dashVars, reportVars, findings>>

-----------------------------------------------------------------------------
\* Variant: the file is left to be flushed later.
FinishFileUnfilled(f) ==
  /\ Goto(f, NextFormat[f]) /\ files[f] = "partial"
  /\ UNCHANGED <<args, runVars, dashVars, reportVars, findings>>

-----------------------------------------------------------------------------
Analyze ==
  /\ Goto("returned", "analyzed")
  /\ snapshot' = SnapshotOf(results)
  /\ AnalyzeHttp(SnapshotOf(results))
  /\ UNCHANGED <<args, runVars, dashVars, raw, points, files>>

\* The arguments of _write_reports(), one after the other.
ReadResults ==
  /\ Goto("analyzed", "read")
  /\ raw' = results
  /\ UNCHANGED <<args, runVars, dashVars, snapshot, points, files, findings>>

ReadTimeline ==
  /\ Goto("read", "json")
  /\ points' = timeline
  /\ UNCHANGED <<args, runVars, dashVars, snapshot, raw, files, findings>>

\* phase names the format whose turn it is.
BeginFile(f) ==
  /\ phase = f /\ f \in Wanted(args.formats)
  /\ CreateFile(f)
  /\ UNCHANGED <<args, phase, runVars, dashVars, findings>>

FinishFile(f) ==
  /\ Goto(f, NextFormat[f])
  /\ FillFile(f)
  /\ UNCHANGED <<args, runVars, dashVars, findings>>

SkipFile(f) ==
  /\ Goto(f, NextFormat[f]) /\ f \notin Wanted(args.formats)
  /\ UNCHANGED <<args, runVars, dashVars, reportVars, findings>>

\* An exception or Ctrl-C that nothing handles: run() raises, a directory or
\* file cannot be made or filled, a chart cannot be drawn.  The process ends,
\* and its daemon threads with it.
Fails ==
  /\ phase \notin Ended /\ phase' = "failed"
  /\ UNCHANGED <<args, runVars, dashVars, reportVars, findings>>

ServerStep ==
  /\ ServerUp
  /\ UNCHANGED <<args, phase, runVars, reportVars, findings>>

PollStep(p) ==
  /\ PageStep(p)
  /\ UNCHANGED <<args, phase, runVars, reportVars, findings>>

Finished ==
  /\ phase \in Ended /\ \A p \in Polls : pollAt[p] = "idle"
  /\ UNCHANGED vars

Next ==
  \/ ServeAlone \/ AttachDashboard \/ RunBegins \/ RunReturns
  \/ \E r \in args.answers : RecordResult(r)
  \/ RecordPoint
  \/ Analyze \/ ReadResults \/ ReadTimeline
  \/ \E f \in Formats : BeginFile(f) \/ FinishFile(f) \/ SkipFile(f)
  \/ Fails \/ ServerStep \/ Finished
  \/ \E p \in Polls : PollStep(p)

Spec == Init /\ [][Next]_vars
-----------------------------------------------------------------------------
TypeOK ==
  /\ args \in Invocations /\ phase \in Phase
  /\ results \in Seq(args.answers) /\ timeline \in Seq(Nat)
  /\ registered \in BOOLEAN /\ server \in {"off", "starting", "up"}
  /\ pollAt \in [Polls -> PollAt] /\ pollCards \in [Polls -> Nat \cup {NoCards}]
  /\ pollChart \in [Polls -> Seq(Nat)]
  /\ cards \in Nat \cup {NoCards} /\ chart \in Seq(Nat)
  /\ pollBase \in [Polls -> [cards : Nat \cup {NoCards}, chart : Seq(Nat)]]
  /\ snapshot \in SnapshotType
  /\ raw \in Seq(args.answers) /\ points \in Seq(Nat)
  /\ files \in [Formats -> FileState]
  /\ findings \in Seq([category : Categories, severity : Severities])

-----------------------------------------------------------------------------
\* The snapshot was taken and analyzed.
Summarised ==
  phase \in {"analyzed", "read", "json", "html", "csv"}
    \/ (phase = "exited" /\ args.command = "loadtest")

\* The percentiles of a snapshot are what their names say of the response
\* times of all requests, failed ones included: they are in order between the
\* extremes, the 50th is the median, and the share of the other requests that
\* are faster (slower) than the q-th is less than q (100 - q) percent and one
\* request (metrics.py:70-89, helpers.py:10-39).
PercentilesRanked ==
  Summarised /\ results # <<>> =>
    LET s == snapshot
        n == Len(results)
        faster(x) == Cardinality({i \in 1..n : 100 * results[i].time < x})
        slower(x) == Cardinality({i \in 1..n : 100 * results[i].time > x})
    IN /\ 100 * s.latency_min <= s.p50 /\ s.p50 <= s.p90 /\ s.p90 <= s.p95
       /\ s.p95 <= s.p99 /\ s.p99 <= 100 * s.latency_max
       /\ s.p50 = s.latency_median
       /\ n * s.latency_min <= s.latency_sum
       /\ s.latency_sum <= n * s.latency_max
       /\ \A q \in {<<50, s.p50>>, <<90, s.p90>>, <<95, s.p95>>, <<99, s.p99>>} :
            /\ 100 * faster(q[2]) < q[1] * (n - 1) + 100
            /\ 100 * slower(q[2]) < (100 - q[1]) * (n - 1) + 100

\* The findings of a load test follow from its results: none from a test
\* without any; errors and timeouts by their share, at the threshold included,
\* and never with two severities; connections and DNS by a single failure, of
\* which one may count for both; slow answers if more than the share that the
\* percentile leaves out was slow, and not if it was less
\* (bottleneck_detector.py:44-122).
FindingsDescribeRun ==
  Summarised =>
    LET n == Len(results)
        reported(c, s) == \E k \in DOMAIN findings : findings[k] = Finding(c, s)
        share(S, percent) == n > 0 /\ 100 * Cardinality(S) >= percent * n
        slow(time) == {i \in 1..n : results[i].time > time}
        failed == {i \in 1..n : results[i].kind # "ok"}
        failedBy(kind) == {i \in failed : results[i].kind = kind}
        late(c, s, time, percent) ==
          /\ reported(c, s) => 100 * (n - Cardinality(slow(time)))
                                 < percent * (n - 1) + 100
          /\ 100 * Cardinality(slow(time)) >= (100 - percent) * (n - 1) + 100
               => reported(c, s)
    IN /\ n = 0 => findings = <<>>
       /\ reported("errors", "critical") <=> share(failed, ErrorCritical)
       /\ reported("errors", "warning") <=>
            share(failed, ErrorWarning) /\ ~share(failed, ErrorCritical)
       /\ reported("timeouts", "warning") <=>
            share(failedBy("timeout"), TimeoutWarning)
       /\ reported("connections", "warning") <=> failedBy("connection_error") # {}
       /\ reported("dns", "warning") <=> \E i \in failed : results[i].dns
       /\ late("latency", "warning", SlowP95, 95)
       /\ late("latency", "critical", SlowP99, 99)
       /\ \A j, k \in DOMAIN findings : findings[j] = findings[k] => j = k

\* What the reports say of one test fits together, though they are made of
\* three reads of the engine and the recorder (main.py:119, 138) and each
\* report counts for itself: totals, rows, slices and bars are equally many,
\* the extremes of the histogram are those of the table, no point of the
\* throughput covers more than there was.  The template colours the success
\* rate by numbers of its own and the detector finds errors by thresholds that
\* may be overridden (html_report.py:68, bottleneck_detector.py:23-33, 69): the
\* two contradict each other on no report but one whose share of failed rows
\* lies between the template's number and the detector's.
ReportsAgree ==
  phase \in {"json", "html", "csv"} =>
    LET json == JsonReport
        html == HtmlReport
        csv  == CsvReport
        bars == DOMAIN html.histogram
        ofErrors(s) == \E k \in DOMAIN findings : findings[k] = Finding("errors", s)
        colour == html.cards.success_rate
        failed == Cardinality({i \in DOMAIN csv : csv[i].kind # "ok"})
        over(percent)  == csv # <<>> /\ 100 * failed >= percent * Len(csv)
        between(a, b)  == over(a) # over(b)
    IN /\ json.raw_result_count = json.metrics.total_requests
       /\ Len(csv) = json.metrics.total_requests
       /\ \A i \in DOMAIN json.raw_results_sample :
            json.raw_results_sample[i] = csv[i]
       /\ html.pie = <<>> <=> csv = <<>>
       /\ csv # <<>> =>
            /\ html.pie[1] = Cardinality({i \in DOMAIN csv : csv[i].kind = "ok"})
            /\ html.pie[1] + html.pie[2] = Len(csv)
            /\ html.latency.min \in bars
            /\ html.latency.max \in bars
            /\ \A b \in bars : html.latency.min <= b /\ b <= html.latency.max
       /\ SumOver(html.histogram, bars) = Len(csv)
       /\ \A i \in DOMAIN html.throughput : html.throughput[i][2] <= Len(csv)
       /\ \/ colour # "ok" <=> ofErrors("warning") \/ ofErrors("critical")
          \/ between(BadgeWarning, ErrorWarning)
       /\ \/ colour = "bad" <=> ofErrors("critical")
          \/ between(BadgeCritical, ErrorCritical)
       /\ html.bottlenecks.rows = json.bottlenecks.findings
       /\ LET bySeverity == json.bottlenecks.by_severity
          IN json.bottlenecks.total_findings =
               bySeverity["critical"] + bySeverity["warning"] + bySeverity["info"]

\* The files tell how far the command came: when it exits, the reports that
\* were asked for are whole and there is no other; when it fails at one, that
\* one is cut short at most, those before it are whole and there are none after
\* it (main.py:147-160).
FilesTellOutcome ==
  /\ phase = "exited" /\ args.command = "loadtest" =>
       \A f \in Formats :
         files[f] = IF f \in Wanted(args.formats) THEN "complete" ELSE "absent"
  /\ \A f \in Formats : files[f] # "absent" =>
       /\ f \in Wanted(args.formats)
       /\ \A g \in Wanted(args.formats) :
            f \in Later[g] => files[g] = "complete"
  /\ \A f \in Formats : files[f] = "partial" => phase \in {f, "failed"}

\* What the page shows, and every reply on its way to it, is something the
\* test went through: no more results than there are, and the timeline up to
\* some point.  A page without a scheduler shows nothing (app.py:49-72).
ShowsTest(c, ch) ==
  /\ c <= Len(results)
  /\ Len(ch) <= Len(timeline) /\ \A i \in DOMAIN ch : ch[i] = timeline[i]
  /\ ~registered => c = NoCards /\ ch = <<>>

PageShowsTest ==
  /\ ShowsTest(cards, chart)
  /\ \A p \in Polls : /\ ShowsTest(pollCards[p], pollChart[p])
                      /\ ShowsTest(pollBase[p].cards, pollBase[p].chart)

-----------------------------------------------------------------------------
\* The page goes back to fewer results or an earlier timeline only if polls
\* overlap: the reply that takes it back is that of a poll that began before
\* what the page shows was put there (dashboard.html:65-95).
PageGoesForward ==
  [][/\ cards' < cards =>
          \E p \in Polls : pollAt[p] = "metricsReply" /\ pollBase[p].cards # cards
     /\ Len(chart') < Len(chart) =>
          \E p \in Polls : pollAt[p] = "timelineReply" /\ pollBase[p].chart # chart
    ]_vars

\* This module uses the run as its contract allows, which LoadTestScheduler
\* keeps: results come during run(), and only it drops any; a point of the
\* timeline covers no fewer results than the one before, and only results that
\* are there (scheduler.py:44-88, statistics.py:44-48).  A command runs its
\* scheduler once, so that no recorder is started beside another.
Contract == INSTANCE LoadTestContract
              WITH Workers <- {"all"}, running <- phase = "running", loose <- {},
                   gathered <- [w \in {"all"} |-> Len(results)],
                   sampled <- [w \in {"all"} |-> Sampled], orderly <- TRUE
RunAsPromised == Contract!Spec
=============================================================================
