---------------------------- MODULE LoadTestRun ----------------------------
(***************************************************************************)
(* A load test as the command that runs it and the dashboard see it: the   *)
(* results the engine holds and the timeline, which grow while run()       *)
(* executes.  How run() brings this about is the subject of                *)
(* LoadTestScheduler, which is proved to keep LoadTestContract; here the   *)
(* contract is all there is of it.                                         *)
(*                                                                         *)
(* A point of the timeline is a snapshot, and as results are only appended *)
(* during the one run of a command, it is known by the number of results   *)
(* it covers.                                                              *)
(***************************************************************************)
EXTENDS MetricsSnapshot

CONSTANT MaxPoints        \* bound: points of the timeline

ASSUME RunAssumption == MaxPoints \in Nat

VARIABLES
  phase,            \* where the main thread of the command is
  results,          \* MetricsEngine._results
  timeline          \* StatisticsRecorder._timeline

runVars == <<results, timeline>>

RunInit == results = <<>> /\ timeline = <<>>

\* Before run(): the engine is there, and empty.  After it: the recorder may
\* still be there, if its thread outlived the join.
BeforeRun == {"start", "attached"}
AfterRun  == {"returned", "analyzed", "read", "json", "html", "csv"}
Ended     == {"exited", "failed"}            \* the process is gone
Phase     == BeforeRun \cup {"running"} \cup AfterRun \cup Ended \cup {"serve"}

\* How many results the last point covers.
Sampled == IF timeline = <<>> THEN 0 ELSE timeline[Len(timeline)]

-----------------------------------------------------------------------------
\* Variants of the actions below, as a careless change would leave them.

\* A pool that is shut down without waiting for its workers.
GatherAfterReturn(r) ==
  /\ phase \in {"running", "returned", "analyzed"}
  /\ results' = Append(results, r)
  /\ UNCHANGED timeline

SamplePointInFront(covered) ==
  /\ phase \in {"running"} \cup AfterRun /\ Len(timeline) < MaxPoints
  /\ covered = Len(results)
  /\ timeline' = <<covered>> \o timeline
  /\ UNCHANGED results

-----------------------------------------------------------------------------
Reset == results' = <<>> /\ UNCHANGED timeline

\* A worker records what execute() returned.
Gather(r) ==
  /\ phase = "running"
  /\ results' = Append(results, r)
  /\ UNCHANGED timeline

\* The recorder appends a point that it sampled after the one before.
SamplePoint(covered) ==
  /\ phase \in {"running"} \cup AfterRun /\ Len(timeline) < MaxPoints
  /\ covered \in Sampled..Len(results)
  /\ timeline' = Append(timeline, covered)
  /\ UNCHANGED results
=============================================================================
