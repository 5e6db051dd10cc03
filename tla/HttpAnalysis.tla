---------------------------- MODULE HttpAnalysis ----------------------------
(***************************************************************************)
(* The rest of the detector (analysis/bottleneck_detector.py): what        *)
(* analyze_http_metrics() finds in a snapshot, and summary().  Findings    *)
(* are appended to the list the capture's analyses append to.              *)
(***************************************************************************)
EXTENDS MetricsSnapshot, BottleneckDetector

CONSTANTS
  SlowP95,          \* high_latency_p95_seconds, in units of time
  SlowP99,          \* high_latency_p99_seconds, in units of time
  ErrorWarning,     \* error_rate_warning, in percent
  ErrorCritical,    \* error_rate_critical, in percent
  TimeoutWarning    \* timeout_rate_warning, in percent

\* As the values in THRESHOLDS are.
ASSUME HttpAnalysisAssumption ==
  /\ SlowP95 \in Nat /\ SlowP99 \in Nat
  /\ ErrorWarning \in Nat \ {0} /\ ErrorCritical \in Nat
  /\ ErrorWarning <= ErrorCritical
  /\ TimeoutWarning \in Nat \ {0}

Categories == {"latency", "errors", "timeouts", "connections", "dns"}
Severities == {"critical", "warning", "info"}

\* part / whole >= percent / 100, where safe_div() makes the quotient 0 if
\* whole is.
AtLeast(percent, part, whole) ==
  IF whole = 0 THEN percent <= 0 ELSE 100 * part >= percent * whole

When(condition, category, severity) ==
  IF condition THEN <<Finding(category, severity)>> ELSE <<>>

-----------------------------------------------------------------------------
\* Variant: `rate > threshold`, for both severities.
ErrorFindingsAbove(s) ==
  LET above(percent) == 100 * s.failed_requests > percent * s.total_requests
  IN IF above(ErrorCritical) THEN <<Finding("errors", "critical")>>
     ELSE When(above(ErrorWarning), "errors", "warning")

\* Variant: a severity by the name that the report has for its colour.
CauseFindingsByColour(s) ==
  IF s.total_requests = 0 THEN <<>>
  ELSE When(AtLeast(TimeoutWarning, s.timeout_count, s.total_requests),
            "timeouts", "warn")
         \o When(s.connection_failures > 0, "connections", "warn")
         \o When(s.dns_failures > 0, "dns", "warn")

-----------------------------------------------------------------------------
LatencyFindings(s) ==
  When(s.p95 > 100 * SlowP95, "latency", "warning")
    \o When(s.p99 > 100 * SlowP99, "latency", "critical")

ErrorFindings(s) ==
  IF AtLeast(ErrorCritical, s.failed_requests, s.total_requests)
  THEN <<Finding("errors", "critical")>>
  ELSE When(AtLeast(ErrorWarning, s.failed_requests, s.total_requests),
            "errors", "warning")

CauseFindings(s) ==
  IF s.total_requests = 0 THEN <<>>
  ELSE When(AtLeast(TimeoutWarning, s.timeout_count, s.total_requests),
            "timeouts", "warning")
         \o When(s.connection_failures > 0, "connections", "warning")
         \o When(s.dns_failures > 0, "dns", "warning")

HttpFindings(s) == LatencyFindings(s) \o ErrorFindings(s) \o CauseFindings(s)

AnalyzeHttp(s) == findings' = findings \o HttpFindings(s)

Summary(fs) ==
  [total_findings |-> Len(fs),
   by_severity    |-> [severity \in Severities |->
                         Cardinality({n \in DOMAIN fs :
                                        fs[n].severity = severity})],
   findings       |-> fs]
=============================================================================
