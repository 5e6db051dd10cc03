-------------------------- MODULE LoadTestInvariant --------------------------
(***************************************************************************)
(* The inductive invariant behind the safety properties of                 *)
(* LoadTestScheduler, in layers: each is inductive together with the ones  *)
(* before it.                                                              *)
(***************************************************************************)
EXTENDS LoadTestScheduler

\* A run was begun, and counted, before the calling thread is anywhere in it.
Numbered == mainPc # "idle" => epoch \in Runs

TypeInv == TypeOK /\ Numbered

\* Not constructed yet: the users of later runs, and those the ramp-up of this
\* one has not come to.
Unborn(w) == RunOf(w) > epoch \/ (RunOf(w) = epoch /\ w[2] > spawned)

\* The life of a worker: it has sent nothing before it is constructed, and the
\* pool of a run that is over has drained for good, unless the run was left by
\* a Ctrl-C while it was waiting for that.
Lifecycle ==
  /\ mainPc \in BeforeTry => spawned = 0
  /\ \A w \in Workers : Unborn(w) => pc[w] = "absent" /\ sent[w] = 0
  /\ \A r \in Runs :
       r \in escaped => r < epoch \/ (r = epoch /\ mainPc = "raised")
  /\ \A r \in Runs : r < epoch \/ (r = epoch /\ mainPc \in Over) =>
       Drained(r) \/ r \in escaped

\* A request that was begun before the stop event is the last one: its result
\* is counted against the mark while it is under way.
UnderWay(w) == IF pc[w] = "request" THEN 1 ELSE 0

GracefulInv ==
  stopEvent => \A w \in Workers : results[w] + UnderWay(w) <= stopMark[w] + 1

\* What was read for the report is what the engine holds.
ReportInv ==
  escaped = {} =>
    /\ mainPc \in {"snapshotted", "reported"} => report.metrics = results
    /\ mainPc = "reported" => report.raw = results

\* The calling thread has a future for each worker of the run,
HasFutures ==
  \A i \in 1..spawned : \E j \in 1..Len(futures) : futures[j] = <<epoch, i>>

\* those it has waited for were of workers that returned,
PassedReturned ==
  \A j \in 1..Len(futures) : j < awaiting => pc[futures[j]] = "done"

\* and so no worker of the run failed if it leaves the wait with nothing to
\* raise and no interrupt cut the wait short.
NoneFailed == \A w \in Current : pc[w] \in {"absent", "done"}

Awaited ==
  /\ mainPc \in InTry => HasFutures
  /\ mainPc = "await" => PassedReturned
  /\ mainPc = "except" => interrupted
  /\ mainPc \in Returned => ~raising
  /\ mainPc \in InFinally \cup Returned /\ ~raising /\ ~interrupted
       => NoneFailed

\* At most one worker of a run is stranded, and then only once the run is on
\* its way out; a future is of a worker that a thread has taken up.
Stranding ==
  /\ \A v, w \in Workers : RunOf(v) = RunOf(w) /\ pc[v] = "stranded"
       /\ pc[w] = "stranded" => v = w
  /\ mainPc \in BeforeTry \cup InTry \cup {"except"} =>
       \A w \in Current : pc[w] # "stranded"
  /\ \A j \in 1..Len(futures) : pc[futures[j]] \in Active \cup Ended

\* A run that is not interrupted raises for a worker that failed, or for one
\* that has no future.
FailureAtHand ==
  \/ \E j \in 1..Len(futures) : pc[futures[j]] = "failed"
  \/ spawned > 0 /\ \A j \in 1..Len(futures) : futures[j] # <<epoch, spawned>>

Raising ==
  /\ mainPc \in BeforeTry \cup InTry => ~raising
  /\ mainPc = "raised" /\ ~interrupted /\ users > 0 => raising
  /\ raising /\ ~interrupted => FailureAtHand

\* The whole invariant: no tally, mark, report or verdict of a run is upset by
\* a thread, a future or an event left over from an earlier one.
IInv ==
  TypeInv /\ Lifecycle /\ SentMatchesRecorded /\ GracefulInv /\ ReportInv
    /\ Awaited /\ OwnResults /\ Stranding /\ Raising

-----------------------------------------------------------------------------
\* The recorders: as long as none was started beside a living one, there is at
\* most one, and from its start in a run to the next call it is that run's.
Started == MainPc \ {"idle", "clear", "start_stats", "raised"}

OneRecorder ==
  /\ \A r, s \in Runs : Alive(r) /\ Alive(s) => r = s
  /\ mainPc \in Started => \A r \in Runs : Alive(r) => r = epoch

Pending(r) == recPc[r] \in {"append", "lastAppend"}

\* What a recorder put on the timeline, it sampled no later than what it is
\* about to append, however many recorders live beside it;
OwnPointsInOrder ==
  /\ Len(takenBy) = Len(timeline)
  /\ \A i, j \in 1..Len(timeline) :
       i <= j /\ takenBy[i] = takenBy[j] => Precedes(timeline[i], timeline[j])
  /\ \A r \in Runs : Pending(r) =>
       \A i \in 1..Len(timeline) :
         takenBy[i] = r => Precedes(timeline[i], recPoint[r])

\* and the same of all points on the timeline.
PointsInOrder ==
  /\ \A i, j \in 1..Len(timeline) : i <= j => Precedes(timeline[i], timeline[j])
  /\ \A r \in Runs : Pending(r) =>
       \A i \in 1..Len(timeline) : Precedes(timeline[i], recPoint[r])

\* In a run that nothing disturbs, no worker of an earlier run included, the
\* recorder learns of the stop when the workers have ended, so that its last
\* sample is of all results.
Undisturbed == ~interrupted /\ ~raising /\ escaped = {}

FinalPoint ==
  /\ mainPc \in {"executor", "stop_stats"} \cup InTry /\ Undisturbed =>
       ~recStop /\ recPc[epoch] \in {"check", "sample", "append"}
  /\ mainPc \in {"join", "shutdown"} \cup Returned /\ Undisturbed =>
       /\ recPc[epoch] # "none"
       /\ recPc[epoch] = "lastAppend" => recPoint[epoch] = Snapshot
       /\ recPc[epoch] = "done" => /\ timeline # <<>>
                                  /\ timeline[Len(timeline)] = Snapshot

TimelineInv == ~overlap => OneRecorder /\ PointsInOrder /\ FinalPoint

\* However many recorders there are, what was sampled was there.
PointsPast ==
  /\ \A i \in 1..Len(timeline) : Precedes(timeline[i], Snapshot)
  /\ \A r \in Runs : Pending(r) => Precedes(recPoint[r], Snapshot)

\* A recorder beside a living one is that of a later run: with one run on a
\* scheduler, as the command makes it, there is none.
Recorders ==
  /\ \A r \in Runs : recPc[r] # "none" =>
       r < epoch \/ (r = epoch /\ mainPc \notin {"clear", "start_stats"})
  /\ overlap => epoch > 1

WholeInv ==
  IInv /\ PointsPast /\ Recorders /\ OwnPointsInOrder /\ TimelineInv
=============================================================================
