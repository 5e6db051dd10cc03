------------------------- MODULE LoadTestScheduler -------------------------
(***************************************************************************)
(* A load test: the thread that calls LoadTestScheduler.run()              *)
(* (load_testing/scheduler.py) and afterwards writes the reports (main.py, *)
(* cmd_loadtest), its workers, its recorder, anyone calling stop(), and    *)
(* Ctrl-C, which Python delivers to the calling thread.                    *)
(*                                                                         *)
(* A scheduler may be run again: run() itself resets the engine and clears *)
(* the stop event.  A call without a URL raises before it changes anything *)
(* and is a stuttering step here.                                          *)
(***************************************************************************)
EXTENDS Worker, StatisticsRecorder, Sums

CONSTANT MaxInterrupts    \* bound: deliveries of KeyboardInterrupt to run()

ASSUME SchedulerAssumption == MaxInterrupts \in Nat

VARIABLES
  mainPc,       \* where the calling thread is
  users,        \* cfg.users of the current run
  spawned,      \* workers the current run has constructed
  futures,      \* _futures: the workers whose submit() returned
  awaiting,     \* the position of `for future in self._futures`
  raising,      \* is an exception on its way out of run()?
  interrupts,   \* KeyboardInterrupts so far
  interrupted,  \* history: was one of them delivered to the current run?
  report,       \* what cmd_loadtest read: the snapshot and the raw results
  overlap,      \* history: was a recorder started beside a living one?
  escaped,      \* history: the runs a Ctrl-C left out of their finally
  stopMark,     \* history: results when the stop event was last set
  requested     \* history: was stop() called between lines 52 and 53 of run()?

mainVars == <<mainPc, users, spawned, futures, awaiting, raising,
              interrupts, interrupted, report>>
stopVars == <<stopEvent, stopMark, requested>>
vars == <<engineVars, workerVars, recVars, mainVars, stopVars, timeUp,
          overlap, escaped>>

BeforeTry == {"clear", "start_stats", "executor"}
InTry     == {"spawn", "await"}
InFinally == {"stop_stats", "join", "shutdown"}
InRun     == BeforeTry \cup InTry \cup {"except"} \cup InFinally
Returned  == {"returned", "snapshotted", "reported"}
Over      == {"idle", "raised"} \cup Returned     \* run() is not executing
MainPc    == InRun \cup Over

Current == {w \in Workers : RunOf(w) = epoch}

Init ==
  /\ EngineInit /\ WorkerInit /\ RecInit
  /\ mainPc = "idle" /\ users = 0 /\ spawned = 0
  /\ futures = <<>> /\ awaiting = 1
  /\ raising = FALSE /\ interrupts = 0 /\ interrupted = FALSE
  /\ report = [metrics |-> NoResults, raw |-> NoResults]
  /\ overlap = FALSE /\ escaped = {} /\ stopMark = NoResults /\ requested = FALSE

\* The steps of the calling thread that touch nothing but its own variables.
Goto(from, to) == mainPc = from /\ mainPc' = to

-----------------------------------------------------------------------------
\* run(), lines 48-57: everything before the try.

RunCall ==
  /\ mainPc \in {"idle", "returned", "raised"} /\ epoch < MaxRuns
  /\ mainPc' = "clear"
  /\ users' \in 0..MaxUsers
  /\ spawned' = 0 /\ awaiting' = 1 /\ raising' = FALSE
  /\ interrupted' = FALSE /\ requested' = FALSE
  /\ Reset
  /\ UNCHANGED <<workerVars, recVars, futures, interrupts, report, stopEvent,
                 stopMark, timeUp, overlap, escaped>>

ClearStop ==
  /\ Goto("clear", "start_stats")
  /\ stopEvent' = FALSE /\ stopMark' = NoResults
  /\ requested' = FALSE
  /\ UNCHANGED <<engineVars, workerVars, recVars, users, spawned, futures,
                 awaiting, raising, interrupts, interrupted, report,
                 timeUp, overlap, escaped>>

StartStats ==
  /\ Goto("start_stats", "executor")
  /\ StatsStart(epoch)
  /\ overlap' = (overlap \/ \E r \in Runs : Alive(r))
  /\ UNCHANGED <<engineVars, workerVars, users, spawned, futures, awaiting,
                 raising, interrupts, interrupted, report, stopVars, timeUp,
                 escaped>>

\* ThreadPoolExecutor(max_workers=0) raises ValueError, outside the try.
CreateExecutor ==
  /\ mainPc = "executor"
  /\ \/ users = 0 /\ mainPc' = "raised"
     \/ users > 0 /\ mainPc' = "spawn"
  /\ UNCHANGED <<engineVars, workerVars, recVars, users, spawned, futures,
                 awaiting, raising, interrupts, interrupted, report, stopVars,
                 timeUp, overlap, escaped>>

-----------------------------------------------------------------------------
\* Variants of the actions below, as a careless change would leave them.

SpawnOneTooMany ==
  /\ mainPc = "spawn" /\ spawned <= users
  /\ spawned' = spawned + 1
  /\ pc' = [pc EXCEPT ![<<epoch, spawned + 1>>] = "check"]
  /\ futures' = Append(futures, <<epoch, spawned + 1>>)
  /\ UNCHANGED <<engineVars, sent, recVars, mainPc, users, awaiting, raising,
                 interrupts, interrupted, report, stopVars, timeUp, overlap,
                 escaped>>

\* concurrent.futures.wait() instead of result(): failures go unnoticed.
AwaitIgnoringFailure ==
  /\ mainPc = "await" /\ awaiting <= Len(futures)
  /\ pc[futures[awaiting]] \in Ended
  /\ awaiting' = awaiting + 1
  /\ UNCHANGED <<engineVars, workerVars, recVars, mainPc, users, spawned,
                 futures, raising, interrupts, interrupted, report, stopVars,
                 timeUp, overlap, escaped>>

\* submit() whose future is kept before its thread is started.
SpawnFailsLeavingFuture ==
  /\ mainPc = "spawn" /\ mainPc' = "stop_stats" /\ spawned < users
  /\ spawned' = spawned + 1
  /\ pc' = [pc EXCEPT ![<<epoch, spawned + 1>>] = "stranded"]
  /\ futures' = Append(futures, <<epoch, spawned + 1>>)
  /\ raising' = TRUE
  /\ UNCHANGED <<engineVars, sent, recVars, users, awaiting, interrupts,
                 interrupted, report, stopVars, timeUp, overlap, escaped>>

\* future.result(timeout=...), which raises for a worker that is still busy.
AwaitTimesOut ==
  /\ mainPc = "await" /\ mainPc' = "stop_stats" /\ awaiting <= Len(futures)
  /\ pc[futures[awaiting]] # "done"
  /\ raising' = TRUE
  /\ UNCHANGED <<engineVars, workerVars, recVars, users, spawned, futures,
                 awaiting, interrupts, interrupted, report, stopVars, timeUp,
                 overlap, escaped>>

\* executor.shutdown(wait=False)
ShutdownNoWait ==
  /\ mainPc = "shutdown"
  /\ mainPc' = IF raising THEN "raised" ELSE "returned"
  /\ UNCHANGED <<engineVars, workerVars, recVars, users, spawned, futures,
                 awaiting, raising, interrupts, interrupted, report, stopVars,
                 timeUp, overlap, escaped>>

-----------------------------------------------------------------------------
\* run(), lines 65-81: the ramp-up and the wait.  The sleep between two
\* workers is the time the caller spends at "spawn".

SpawnWorker ==
  /\ mainPc = "spawn" /\ spawned < users
  /\ spawned' = spawned + 1
  /\ pc' = [pc EXCEPT ![<<epoch, spawned + 1>>] = "check"]
  /\ futures' = Append(futures, <<epoch, spawned + 1>>)
  /\ UNCHANGED <<engineVars, sent, recVars, mainPc, users, awaiting, raising,
                 interrupts, interrupted, report, stopVars, timeUp, overlap,
                 escaped>>

\* submit() raises RuntimeError: no thread can be started.  The work item is
\* in the pool's queue by then, for any thread that becomes free.
SpawnFails ==
  /\ Goto("spawn", "stop_stats") /\ spawned < users
  /\ spawned' = spawned + 1
  /\ pc' = [pc EXCEPT ![<<epoch, spawned + 1>>] = "stranded"]
  /\ raising' = TRUE
  /\ UNCHANGED <<engineVars, sent, recVars, users, futures, awaiting,
                 interrupts, interrupted, report, stopVars, timeUp, overlap,
                 escaped>>

SpawnDone ==
  /\ Goto("spawn", "await") /\ spawned = users
  /\ awaiting' = 1
  /\ UNCHANGED <<engineVars, workerVars, recVars, users, spawned, futures,
                 raising, interrupts, interrupted, report, stopVars, timeUp,
                 overlap, escaped>>

\* future.result() of a worker that returned.
AwaitFuture ==
  /\ mainPc = "await" /\ awaiting <= Len(futures)
  /\ pc[futures[awaiting]] = "done"
  /\ awaiting' = awaiting + 1
  /\ UNCHANGED <<engineVars, workerVars, recVars, mainPc, users, spawned,
                 futures, raising, interrupts, interrupted, report, stopVars,
                 timeUp, overlap, escaped>>

\* future.result() of a worker that raised.
AwaitFailure ==
  /\ Goto("await", "stop_stats") /\ awaiting <= Len(futures)
  /\ pc[futures[awaiting]] = "failed"
  /\ raising' = TRUE
  /\ UNCHANGED <<engineVars, workerVars, recVars, users, spawned, futures,
                 awaiting, interrupts, interrupted, report, stopVars, timeUp,
                 overlap, escaped>>

AwaitDone ==
  /\ Goto("await", "stop_stats") /\ awaiting > Len(futures)
  /\ UNCHANGED <<engineVars, workerVars, recVars, users, spawned, futures,
                 awaiting, raising, interrupts, interrupted, report, stopVars,
                 timeUp, overlap, escaped>>

\* Event.set(); the mark is that of the call which changed the event.
SetStop ==
  /\ stopEvent' = TRUE
  /\ stopMark' = IF stopEvent THEN stopMark ELSE results

\* The except branch: the stop event, set for every worker at once.
HandleInterrupt ==
  /\ Goto("except", "stop_stats")
  /\ SetStop
  /\ UNCHANGED <<engineVars, workerVars, recVars, users, spawned, futures,
                 awaiting, raising, interrupts, interrupted, report,
                 requested, timeUp, overlap, escaped>>

-----------------------------------------------------------------------------
\* run(), lines 82-88: the finally branch and the return.

StopStats ==
  /\ Goto("stop_stats", "join")
  /\ StatsSignal
  /\ UNCHANGED <<engineVars, workerVars, users, spawned, futures, awaiting,
                 raising, interrupts, interrupted, report, stopVars, timeUp,
                 overlap, escaped>>

\* join(timeout=...) comes back when the thread has ended, or anyway.
JoinStats ==
  /\ Goto("join", "shutdown") /\ recPc[epoch] = "done"
  /\ UNCHANGED <<engineVars, workerVars, recVars, users, spawned, futures,
                 awaiting, raising, interrupts, interrupted, report, stopVars,
                 timeUp, overlap, escaped>>

JoinTimesOut ==
  /\ Goto("join", "shutdown") /\ recPc[epoch] # "done"
  /\ UNCHANGED <<engineVars, workerVars, recVars, users, spawned, futures,
                 awaiting, raising, interrupts, interrupted, report, stopVars,
                 timeUp, overlap, escaped>>

\* The pool of run r has no running worker and, unless it has no thread at
\* all, an empty queue.
Drained(r) ==
  \A w \in Workers : RunOf(w) = r =>
    \/ pc[w] \in {"absent", "done", "failed"}
    \/ /\ pc[w] = "stranded"
       /\ \A v \in Workers : RunOf(v) = r /\ v # w => pc[v] = "absent"

\* What run() logs before it returns; a worker not constructed has sent nothing.
TotalSent == SumOver(sent, Workers)

\* executor.shutdown(wait=True)
Shutdown ==
  /\ mainPc = "shutdown" /\ Drained(epoch)
  /\ mainPc' = IF raising THEN "raised" ELSE "returned"
  /\ UNCHANGED <<engineVars, workerVars, recVars, users, spawned, futures,
                 awaiting, raising, interrupts, interrupted, report, stopVars,
                 timeUp, overlap, escaped>>

\* cmd_loadtest reads the engine twice: a snapshot for the summary and the
\* detector, and later the raw results for the reports.
TakeSnapshot ==
  /\ Goto("returned", "snapshotted")
  /\ report' = [report EXCEPT !.metrics = results]
  /\ UNCHANGED <<engineVars, workerVars, recVars, users, spawned, futures,
                 awaiting, raising, interrupts, interrupted, stopVars, timeUp,
                 overlap, escaped>>

WriteReports ==
  /\ Goto("snapshotted", "reported")
  /\ report' = [report EXCEPT !.raw = results]
  /\ UNCHANGED <<engineVars, workerVars, recVars, users, spawned, futures,
                 awaiting, raising, interrupts, interrupted, stopVars, timeUp,
                 overlap, escaped>>

-----------------------------------------------------------------------------
\* KeyboardInterrupt.  In the try it is handled; in its handler it leaves
\* through the finally branch; before the try or in the finally branch it
\* leaves run() at once, like any exception, to a caller who may run it again:
\* with a recorder nobody stopped, or with workers nobody waited for.

InterruptLandsIn ==
  \/ mainPc \in InTry /\ mainPc' = "except" /\ UNCHANGED <<raising, escaped>>
  \/ Goto("except", "stop_stats") /\ raising' = TRUE /\ UNCHANGED escaped
  \/ /\ mainPc \in BeforeTry /\ mainPc' = "raised"
     /\ UNCHANGED <<raising, escaped>>
  \/ /\ mainPc \in InFinally /\ mainPc' = "raised"
     /\ escaped' = escaped \cup {epoch}
     /\ UNCHANGED raising

Interrupt ==
  /\ interrupts < MaxInterrupts
  /\ interrupts' = interrupts + 1 /\ interrupted' = TRUE
  /\ InterruptLandsIn
  /\ UNCHANGED <<engineVars, workerVars, recVars, users, spawned, futures,
                 awaiting, report, stopVars, timeUp, overlap>>

\* stop(), from any thread and at any time.
StopCall ==
  /\ SetStop
  /\ requested' = (requested \/ mainPc = "clear")
  /\ UNCHANGED <<engineVars, workerVars, recVars, mainVars, timeUp, overlap,
                 escaped>>

TimeUp ==
  /\ timeUp < epoch
  /\ timeUp + 1 = epoch => mainPc \notin BeforeTry   \* its end_time is not set
  /\ timeUp' = timeUp + 1
  /\ UNCHANGED <<engineVars, workerVars, recVars, mainVars, stopVars, overlap,
                 escaped>>

WorkerMoves(w) ==
  /\ WorkerStep(w)
  /\ UNCHANGED <<recVars, mainVars, stopVars, timeUp, overlap, escaped>>

RecorderMoves(r) ==
  /\ RecStep(r)
  /\ UNCHANGED <<workerVars, mainVars, stopVars, timeUp, overlap, escaped>>

\* Nothing is left to do: run() is over and every worker has ended.  Any other
\* state without a step would be a deadlock.
Finished ==
  /\ mainPc \in Over
  /\ \A w \in Workers : pc[w] \notin Active
  /\ UNCHANGED vars

\* A step of run() or of the command that called it, once it was called.
MainStep ==
  \/ ClearStop \/ StartStats \/ CreateExecutor
  \/ SpawnWorker \/ SpawnFails \/ SpawnDone
  \/ AwaitFuture \/ AwaitFailure \/ AwaitDone \/ HandleInterrupt
  \/ StopStats \/ JoinStats \/ JoinTimesOut \/ Shutdown
  \/ TakeSnapshot \/ WriteReports

Next ==
  \/ RunCall
  \/ MainStep
  \/ Interrupt \/ StopCall \/ TimeUp
  \/ \E w \in Workers : WorkerMoves(w)
  \/ \E r \in Runs : RecorderMoves(r)
  \/ Finished

Spec == Init /\ [][Next]_vars

\* The operating system schedules every thread, and every request ends.  No
\* fairness for the clock, stop(), Ctrl-C or a call of run(): none need happen.
Fairness ==
  /\ WF_vars(MainStep)
  /\ \A w \in Workers : WF_vars(WorkerMoves(w))
  /\ \A r \in Runs : WF_vars(RecorderMoves(r))

FairSpec == Spec /\ Fairness

-----------------------------------------------------------------------------
\* The calling thread's and the history variables.
MainTypeOK ==
  /\ mainPc \in MainPc /\ users \in 0..MaxUsers /\ spawned \in 0..users
  /\ futures \in Seq(Workers) /\ awaiting \in Nat \ {0}
  /\ raising \in BOOLEAN
  /\ interrupts \in 0..MaxInterrupts /\ interrupted \in BOOLEAN
  /\ report \in [metrics : Counts, raw : Counts]

HistoryTypeOK ==
  /\ overlap \in BOOLEAN /\ escaped \in SUBSET Runs
  /\ stopMark \in Counts /\ requested \in BOOLEAN

\* Types: every future is one of a worker, every entry of the timeline one of
\* the engine's points, and no run constructs more workers than cfg.users
\* (scheduler.py:66-73).
TypeOK ==
  EngineTypeOK /\ WorkerTypeOK /\ RecTypeOK /\ MainTypeOK /\ HistoryTypeOK

\* The two tallies of a run agree: the engine holds one result for every
\* request a worker of the run has counted, and one more for a worker between
\* record() and `requests_sent += 1` (worker.py:56-57), whatever failed, was
\* interrupted or stopped.  run() logs one tally and reports the other.
SentMatchesRecorded ==
  \A w \in Current :
    results[w] = IF pc[w] = "count" THEN sent[w] + 1 ELSE sent[w]

\* "Load test complete: %d total requests sent" (scheduler.py:86-87): what
\* run() logs before it returns is the number of results it returns.
LoggedTotalAgrees ==
  mainPc \in Returned => TotalSent = SumOver(results, Workers)

\* Once run() has come back, by return or by exception, no worker of any run
\* is sending requests or will start to (scheduler.py:84, shutdown(wait=True)):
\* not one queued when submit() failed, not one of an interrupted ramp-up.  The
\* one way to leave workers behind is a Ctrl-C out of the finally branch, of
\* this run or of an earlier one (scheduler.py:82-84).
QuiescentAfterRun ==
  mainPc \in Over =>
    \A w \in Workers :
      \/ /\ pc[w] \notin Active
         /\ ~(pc[w] = "stranded" /\ ThreadFree(RunOf(w)))
      \/ RunOf(w) \in escaped

\* The summary and the raw results of a report are of the same results,
\* although main.py reads the engine once for each (main.py:119 and 138), as
\* long as no Ctrl-C ever left workers behind to record in between.
ReportConsistent ==
  mainPc = "reported" /\ escaped = {} => report.raw = report.metrics

\* The graceful shutdown is prompt: however it came about (stop() or Ctrl-C),
\* a worker records at most one more result once the stop event is set, the
\* one of the request it had begun (worker.py:54).
GracefulStop ==
  stopEvent => \A w \in Workers : results[w] <= stopMark[w] + 1

\* A worker of an earlier run records into the engine of a later one, which
\* run() has reset in place and all of them share, only if a Ctrl-C took the
\* earlier run out of its finally branch (scheduler.py:52, 82-84).
OwnResults ==
  \A w \in Workers \ Current : results[w] # 0 => RunOf(w) \in escaped

\* The calling thread never waits for what cannot happen: the future it waits
\* for is that of a worker that has ended or can end, and a pool that is not
\* drained has a worker to run or a queued one and a thread to run it, even
\* after a submit() that found no thread (scheduler.py:41, 77, 84).
AwaitsTheLiving ==
  /\ mainPc = "await" /\ awaiting <= Len(futures) =>
       pc[futures[awaiting]] \in Active \cup Ended
  /\ mainPc = "shutdown" /\ ~Drained(epoch) =>
       \E w \in Current :
         pc[w] \in Active \/ (pc[w] = "stranded" /\ ThreadFree(epoch))

\* Every worker of the run was submitted, and so has a future.
Submitted ==
  \A i \in 1..users : \E j \in DOMAIN futures : futures[j] = <<epoch, i>>

\* A run that raises although all of its workers were submitted and nothing
\* interrupted it passes on the exception of a worker that did fail, in this
\* run or, as _futures is never cleared, in an earlier one (scheduler.py:77-78).
RaisesAFailure ==
  mainPc = "raised" /\ ~interrupted /\ users > 0 /\ Submitted =>
    \E j \in DOMAIN futures : pc[futures[j]] = "failed"

\* A run that returns and was not interrupted had no worker that died of an
\* exception: future.result() passes each on to the caller (scheduler.py:78).
FailureReported ==
  mainPc \in Returned /\ ~interrupted =>
    \A w \in Current : pc[w] # "failed"

\* On the timeline charts are drawn from, the points of one recorder are in
\* order, runs and counts, whatever other recorders live beside it; and as long
\* as none was started beside a living one, all points are (statistics.py:28-31,
\* 44-48: start() clears an event its predecessor may not have seen, and a
\* point is sampled and appended under two different locks).
TimelineInOrder ==
  \A i \in 1..Len(timeline) : \A j \in i..Len(timeline) :
    takenBy[i] = takenBy[j] \/ ~overlap => Precedes(timeline[i], timeline[j])

\* The last point of the timeline of a run that was not interrupted and whose
\* recorder has ended holds every result of the run (statistics.py:42), if no
\* earlier run left workers or a living recorder behind.
FinalPointFaithful ==
  mainPc \in Returned /\ ~interrupted /\ recPc[epoch] = "done"
      /\ ~overlap /\ escaped = {}
    => /\ timeline # <<>>
       /\ timeline[Len(timeline)] = Snapshot

\* The results the newest point of the current run covers.
Sampled ==
  LET n == Len(timeline)
  IN IF n > 0 /\ timeline[n].epoch = epoch THEN timeline[n].counts ELSE NoResults

\* run() keeps its promise: results are gathered while it executes, and between
\* runs by none but the workers of a run that a Ctrl-C abandoned; only a new run
\* drops them; no point of the timeline covers a result before it is there, nor,
\* while recorders keep apart, fewer than the point before it.
Contract == INSTANCE LoadTestContract
              WITH running <- mainPc \notin Over, gathered <- results,
                   loose <- {w \in Workers : RunOf(w) \in escaped},
                   sampled <- Sampled, orderly <- ~overlap
ContractKept == Contract!Spec

\* Once the stop event is set or the time is up, run() comes to an end: no
\* worker keeps the wait or the pool's shutdown going (scheduler.py:75-84).
EndsOnceSignalled ==
  mainPc \in InTry \cup {"except"} \cup InFinally
      /\ (stopEvent \/ timeUp = epoch)
    ~> mainPc \in Over

\* An exception took run() out before its try, so that it did not stop its
\* recorder, or a Ctrl-C took it out of its finally branch.
CutShort == mainPc = "raised" /\ (~raising \/ epoch \in escaped)

\* The recorder of a run that is over ends, even one that outlived the timeout
\* of its join (statistics.py:36), however the run was left once it had entered
\* its try (scheduler.py:64-83), unless a new run clears its event.
RecorderStops ==
  \A r \in Runs :
    mainPc \in {"returned", "raised"} /\ ~CutShort /\ epoch = r
      ~> recPc[r] = "done" \/ epoch # r

-----------------------------------------------------------------------------
\* What comments and docstrings say and the code does not do.

\* statistics.py:42 calls the point appended after the stop event the "final
\* point", and statistics.py:16 the timeline a series of the run's throughput.
FinalPointIsFinal ==
  mainPc \in Returned /\ ~overlap /\ recPc[epoch] = "done" =>
    timeline # <<>> /\ timeline[Len(timeline)] = Snapshot

\* scheduler.py:75-76, "Wait until all workers finish naturally (they
\* self-terminate at end_time) or the whole run is cancelled": with every
\* worker of the run submitted and none of them failed or interrupted, run()
\* does not raise.
RaisesOnlyOwnFailure ==
  mainPc = "raised" /\ ~interrupted /\ users > 0 /\ Submitted =>
    \E w \in Current : pc[w] = "failed"

\* scheduler.py:91, stop() is to "Signal all workers to stop early": a call
\* made while run() executes stays in force, for every worker to see.
StopHonoured == [][requested => stopEvent']_vars
=============================================================================
