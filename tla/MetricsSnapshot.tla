-------------------------- MODULE MetricsSnapshot --------------------------
(***************************************************************************)
(* What MetricsEngine.snapshot() (load_testing/metrics.py) makes of the    *)
(* results it copied, with the helpers it calls (utils/helpers.py).        *)
(*                                                                         *)
(* A result is what HttpClient.execute() returns, as far as snapshot()     *)
(* looks at it: the prefix of its error, whether the text of the error     *)
(* mentions DNS, and its response time, which a failure has as well.       *)
(* Percentiles are hundredths of a unit of time, so that interpolation is  *)
(* exact; the mean is kept as the sum it is computed from.  The two rates  *)
(* per second, which depend on nothing else but the clock, are left out.   *)
(***************************************************************************)
EXTENDS Integers, Sequences, Sums

CONSTANT Times            \* response times

ASSUME TimesAssumption == Times \subseteq Nat

\* A response with a status below 400 or not; Timeout, ConnectionError and any
\* other RequestException.  The text of an exception names the URL, so it may
\* mention DNS whatever went wrong.
Responses == [kind : {"ok", "status"}, dns : {FALSE}, time : Times]
Errors    == [kind : {"timeout", "connection_error", "request_error"},
              dns : BOOLEAN, time : Times]
Result    == Responses \cup Errors

-----------------------------------------------------------------------------
\* sorted(): the i-th smallest of the values, each as often as it occurs.
Sorted(values) ==
  [i \in DOMAIN values |->
     CHOOSE v \in {values[j] : j \in DOMAIN values} :
       /\ Cardinality({j \in DOMAIN values : values[j] < v}) < i
       /\ Cardinality({j \in DOMAIN values : values[j] <= v}) >= i]

\* Variant: the rank n * pct, without the - 1.
PercentileOfRankN(values, pct) ==
  LET data == Sorted(values)
      n    == Len(values)
      rank == (n * pct) \div 100
  IN IF n = 0 THEN 0
     ELSE 100 * data[IF rank < 1 THEN 1 ELSE IF rank > n THEN n ELSE rank]

\* Linear interpolation between the two closest ranks.
Percentile(values, pct) ==
  LET data == Sorted(values)
      n    == Len(values)
      k    == (n - 1) * pct
      f    == k \div 100
      part == k % 100
  IN IF n = 0 THEN 0
     ELSE IF pct <= 0 THEN 100 * data[1]
     ELSE IF pct >= 100 THEN 100 * data[n]
     ELSE IF part = 0 THEN 100 * data[f + 1]
     ELSE (100 - part) * data[f + 1] + part * data[f + 2]

Median(values) ==
  LET data == Sorted(values)
      n    == Len(values)
  IN IF n = 0 THEN 0
     ELSE IF n % 2 = 1 THEN 100 * data[(n + 1) \div 2]
     ELSE 50 * (data[n \div 2] + data[n \div 2 + 1])

-----------------------------------------------------------------------------
SnapshotType ==
  [total_requests : Nat, successful_requests : Nat, failed_requests : Nat,
   latency_min : Nat, latency_max : Nat, latency_sum : Nat,
   latency_median : Nat, p50 : Nat, p90 : Nat, p95 : Nat, p99 : Nat,
   timeout_count : Nat, connection_failures : Nat, dns_failures : Nat]

\* Positions of results.
Failures(rs)    == {i \in DOMAIN rs : rs[i].kind # "ok"}
OfKind(rs, k)   == {i \in Failures(rs) : rs[i].kind = k}
MentionDns(rs)  == {i \in Failures(rs) : rs[i].dns}

\* execute() times every request, so no result is without a response_time.
Latencies(rs) == [i \in DOMAIN rs |-> rs[i].time]

SnapshotOf(rs) ==
  LET latencies == Latencies(rs)
      range     == {latencies[i] : i \in DOMAIN rs}
  IN [total_requests      |-> Len(rs),
      successful_requests |-> Cardinality(DOMAIN rs \ Failures(rs)),
      failed_requests     |-> Cardinality(Failures(rs)),
      latency_min         |-> IF rs = <<>> THEN 0 ELSE Min(range),
      latency_max         |-> IF rs = <<>> THEN 0 ELSE Max(range),
      latency_sum         |-> SumOver(latencies, DOMAIN rs),
      latency_median      |-> Median(latencies),
      p50                 |-> Percentile(latencies, 50),
      p90                 |-> Percentile(latencies, 90),
      p95                 |-> Percentile(latencies, 95),
      p99                 |-> Percentile(latencies, 99),
      timeout_count       |-> Cardinality(OfKind(rs, "timeout")),
      connection_failures |-> Cardinality(OfKind(rs, "connection_error")),
      dns_failures        |-> Cardinality(MentionDns(rs))]
=============================================================================
