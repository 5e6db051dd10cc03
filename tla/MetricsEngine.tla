--------------------------- MODULE MetricsEngine ---------------------------
(***************************************************************************)
(* The shared accumulator of a load test (load_testing/metrics.py).        *)
(*                                                                         *)
(* Every method of the engine holds _lock while it touches _results and    *)
(* does its arithmetic on a private copy afterwards, so each is one step.  *)
(* _results is kept as the number of results each worker has appended      *)
(* since the last reset: the list's order is never read.  What snapshot()  *)
(* computes from its copy is a function of that copy.                      *)
(***************************************************************************)
EXTENDS Naturals

CONSTANTS
  MaxRuns,      \* bound: calls of LoadTestScheduler.run() on one scheduler
  MaxUsers      \* the largest cfg.users a run is configured with

ASSUME EngineAssumption == MaxRuns \in Nat /\ MaxUsers \in Nat

Runs    == 1..MaxRuns
Workers == Runs \X (1..MaxUsers)     \* <<r, i>>: user i of the r-th run
RunOf(w) == w[1]

VARIABLES
  results,      \* _results, counted per worker
  epoch         \* history: how often reset() ran, i.e. the run results is of

engineVars == <<results, epoch>>

Counts    == [Workers -> Nat]
NoResults == [w \in Workers |-> 0]

\* p is no later than q: an earlier run, or the same run with no more results.
Precedes(p, q) ==
  \/ p.epoch < q.epoch
  \/ p.epoch = q.epoch /\ \A w \in Workers : p.counts[w] <= q.counts[w]

EngineInit == results = NoResults /\ epoch = 0

Record(w) ==
  /\ results' = [results EXCEPT ![w] = @ + 1]
  /\ UNCHANGED epoch

Reset ==
  /\ results' = NoResults
  /\ epoch' = epoch + 1

Snapshot == [epoch |-> epoch, counts |-> results]
Points   == [epoch : Runs \cup {0}, counts : Counts]

EngineTypeOK == results \in Counts /\ epoch \in 0..MaxRuns
=============================================================================
