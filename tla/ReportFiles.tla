---------------------------- MODULE ReportFiles ----------------------------
(***************************************************************************)
(* The reports of a load test: the contents that reports/*.py put together *)
(* from the arguments of _write_reports() (main.py), and the three files   *)
(* it writes one after the other.                                          *)
(*                                                                         *)
(* write_text() and open("w") create an empty file and fill it afterwards, *)
(* so a file that is being written, or was when the command failed, is     *)
(* "partial".                                                              *)
(***************************************************************************)
EXTENDS HttpAnalysis

CONSTANTS
  SampleSize,       \* results in a JSON report at most
  BadgeWarning,     \* the template's first literal for error_rate, in percent
  BadgeCritical     \* the second

ASSUME ReportAssumption ==
  /\ SampleSize \in Nat
  /\ BadgeWarning \in Nat \ {0} /\ BadgeCritical \in Nat
  /\ BadgeWarning <= BadgeCritical

VARIABLES
  snapshot,     \* the snapshot of the summary and of the reports
  raw,          \* raw_results
  points,       \* timeline: how many results each point covers
  files         \* what is on disk

reportVars == <<snapshot, raw, points, files>>

Formats == {"json", "html", "csv"}

\* The order in which they are written, and what follows.
NextFormat == [json |-> "html", html |-> "csv", csv |-> "exited"]
Later      == [json |-> {"html", "csv"}, html |-> {"csv"}, csv |-> {}]

\* `args.formats or ["json", "html", "csv"]`: none named means all.
Wanted(formats) == IF formats = {} THEN Formats ELSE formats

FileState == {"absent", "partial", "complete"}

ReportInit ==
  /\ snapshot = SnapshotOf(<<>>) /\ raw = <<>> /\ points = <<>>
  /\ files = [f \in Formats |-> "absent"]

-----------------------------------------------------------------------------
\* build_json_report()
JsonReport ==
  [metrics            |-> snapshot,
   timeline           |-> points,
   bottlenecks        |-> Summary(findings),
   raw_result_count   |-> Len(raw),
   raw_results_sample |-> SubSeq(raw, 1, IF Len(raw) < SampleSize
                                         THEN Len(raw) ELSE SampleSize)]

\* Variant: the middle colour for the critical threshold, too.
BadgeOffByOne(s) ==
  LET below(percent) == ~AtLeast(percent, s.failed_requests, s.total_requests)
      over(percent)  == 100 * s.failed_requests > percent * s.total_requests
  IN IF below(BadgeWarning) THEN "ok"
     ELSE IF over(BadgeCritical) THEN "bad" ELSE "warn"

\* The colour of the success rate, by the literals of the template.
Badge(s) ==
  LET below(percent) == ~AtLeast(percent, s.failed_requests, s.total_requests)
  IN IF below(BadgeWarning) THEN "ok"
     ELSE IF below(BadgeCritical) THEN "warn" ELSE "bad"

Cards(s) ==
  [total_requests |-> s.total_requests, success_rate |-> Badge(s),
   p95 |-> s.p95, p99 |-> s.p99, errors |-> s.failed_requests]

LatencyRow(s) ==
  [min |-> s.latency_min, sum |-> s.latency_sum, median |-> s.latency_median,
   max |-> s.latency_max, p50 |-> s.p50, p90 |-> s.p90, p95 |-> s.p95,
   p99 |-> s.p99]

FindingsTable(summary) ==
  [heading |-> summary.total_findings, rows |-> summary.findings]

-----------------------------------------------------------------------------
\* What is drawn.  A bar per response time stands for the bins.
Histogram(latencies) ==
  [time \in {latencies[i] : i \in DOMAIN latencies} |->
     Cardinality({i \in DOMAIN latencies : latencies[i] = time})]

\* The first point is the origin of the axis.
ThroughputLine(timeline) ==
  [i \in DOMAIN timeline |-> <<i - 1, timeline[i]>>]

PercentileBars(s) == <<s.p50, s.p90, s.p95, s.p99>>

\* No pie without a result.
Pie(successful, failed) ==
  IF successful + failed > 0 THEN <<successful, failed>> ELSE <<>>

HtmlReport ==
  [cards       |-> Cards(snapshot),
   latency     |-> LatencyRow(snapshot),
   bottlenecks |-> FindingsTable(Summary(findings)),
   histogram   |-> Histogram(Latencies(raw)),
   percentiles |-> PercentileBars(snapshot),
   throughput  |-> ThroughputLine(points),
   pie         |-> Pie(snapshot.successful_requests, snapshot.failed_requests)]

\* The rows write_csv_report() writes.
CsvReport == raw

-----------------------------------------------------------------------------
CreateFile(f) ==
  /\ files[f] = "absent"
  /\ files' = [files EXCEPT ![f] = "partial"]
  /\ UNCHANGED <<snapshot, raw, points>>

FillFile(f) ==
  /\ files[f] = "partial"
  /\ files' = [files EXCEPT ![f] = "complete"]
  /\ UNCHANGED <<snapshot, raw, points>>
=============================================================================
