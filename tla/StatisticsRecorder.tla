------------------------ MODULE StatisticsRecorder -------------------------
(***************************************************************************)
(* The background sampler (load_testing/statistics.py).  start() makes a   *)
(* new thread each time, so there is one recorder per run, named by the    *)
(* run that started it; all share _stop_event and _timeline.               *)
(*                                                                         *)
(* A point is sampled from the engine and appended to the timeline in two  *)
(* steps, under two different locks.  The wait between points, which the   *)
(* stop event cuts short, is the time a recorder spends at "check".        *)
(***************************************************************************)
EXTENDS MetricsEngine, Sequences

CONSTANT MaxPoints        \* bound: no periodic point on a timeline this long

ASSUME RecorderAssumption == MaxPoints \in Nat

VARIABLES
  recStop,      \* StatisticsRecorder._stop_event
  recPc,        \* where each recorder thread is
  recPoint,     \* the point each has sampled but not appended
  timeline,     \* _timeline
  takenBy       \* history: which recorder took each point of it

recVars == <<recStop, recPc, recPoint, timeline, takenBy>>

RecPc  == {"none", "check", "sample", "append",
           "lastSample", "lastAppend", "done"}
NoPoint == [epoch |-> 0, counts |-> NoResults]
Alive(r) == recPc[r] \notin {"none", "done"}

RecInit ==
  /\ recStop = FALSE
  /\ recPc = [r \in Runs |-> "none"]
  /\ recPoint = [r \in Runs |-> NoPoint]
  /\ timeline = <<>> /\ takenBy = <<>>

-----------------------------------------------------------------------------
\* Variants of the actions below, as a careless change would leave them.

\* A stop() that takes the final point itself, beside a living recorder.
StatsSignalWithPoint ==
  /\ recStop' = TRUE
  /\ timeline' = Append(timeline, Snapshot)
  /\ takenBy' = Append(takenBy, epoch)
  /\ UNCHANGED <<recPc, recPoint>>

RecCheckNoFinalPoint(r) ==
  /\ recPc[r] = "check"
  /\ \/ ~recStop /\ Len(timeline) < MaxPoints
        /\ recPc' = [recPc EXCEPT ![r] = "sample"]
     \/ recStop /\ recPc' = [recPc EXCEPT ![r] = "done"]
  /\ UNCHANGED <<recStop, recPoint, timeline, takenBy>>

RecCheckNoStop(r) ==
  /\ recPc[r] = "check" /\ Len(timeline) < MaxPoints
  /\ recPc' = [recPc EXCEPT ![r] = "sample"]
  /\ UNCHANGED <<recStop, recPoint, timeline, takenBy>>

RecAppendInFront(r) ==
  /\ recPc[r] \in {"append", "lastAppend"}
  /\ timeline' = <<recPoint[r]>> \o timeline
  /\ takenBy' = <<r>> \o takenBy
  /\ recPoint' = [recPoint EXCEPT ![r] = NoPoint]
  /\ recPc' = [recPc EXCEPT ![r] = IF @ = "append" THEN "check" ELSE "done"]
  /\ UNCHANGED recStop

-----------------------------------------------------------------------------
StatsStart(r) ==
  /\ recStop' = FALSE
  /\ recPc' = [recPc EXCEPT ![r] = "check"]
  /\ UNCHANGED <<recPoint, timeline, takenBy>>

\* stop() up to its join.
StatsSignal ==
  /\ recStop' = TRUE
  /\ UNCHANGED <<recPc, recPoint, timeline, takenBy>>

RecCheck(r) ==
  /\ recPc[r] = "check"
  /\ \/ ~recStop /\ Len(timeline) < MaxPoints
        /\ recPc' = [recPc EXCEPT ![r] = "sample"]
     \/ recStop /\ recPc' = [recPc EXCEPT ![r] = "lastSample"]
  /\ UNCHANGED <<recStop, recPoint, timeline, takenBy>>

RecSample(r) ==
  /\ recPc[r] \in {"sample", "lastSample"}
  /\ recPoint' = [recPoint EXCEPT ![r] = Snapshot]
  /\ recPc' = [recPc EXCEPT ![r] = IF @ = "sample" THEN "append"
                                                  ELSE "lastAppend"]
  /\ UNCHANGED <<recStop, timeline, takenBy>>

RecAppend(r) ==
  /\ recPc[r] \in {"append", "lastAppend"}
  /\ timeline' = Append(timeline, recPoint[r])
  /\ takenBy' = Append(takenBy, r)
  /\ recPoint' = [recPoint EXCEPT ![r] = NoPoint]
  /\ recPc' = [recPc EXCEPT ![r] = IF @ = "append" THEN "check" ELSE "done"]
  /\ UNCHANGED recStop

RecStep(r) ==
  /\ RecCheck(r) \/ RecSample(r) \/ RecAppend(r)
  /\ UNCHANGED engineVars

RecTypeOK ==
  /\ recStop \in BOOLEAN /\ recPc \in [Runs -> RecPc]
  /\ recPoint \in [Runs -> Points] /\ timeline \in Seq(Points)
  /\ takenBy \in Seq(Runs)
=============================================================================
