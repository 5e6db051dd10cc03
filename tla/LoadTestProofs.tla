--------------------------- MODULE LoadTestProofs ---------------------------
(***************************************************************************)
(* Proofs of the safety properties of LoadTestScheduler, for every number  *)
(* of runs, users, requests, points and interrupts.  They follow the       *)
(* layers of LoadTestInvariant: the life of a worker, then the invariant   *)
(* of each property, each with the help of the layers before it.           *)
(***************************************************************************)
EXTENDS LoadTestTypes

LEMMA EpochNat == TypeInv => epoch \in Nat /\ spawned \in Nat /\ MaxRuns \in Nat
  BY EngineAssumption DEF TypeInv, TypeOK, EngineTypeOK, MainTypeOK

\* No worker of a drained run can take a step,
LEMMA DrainedIsStill ==
  ASSUME NEW w \in Workers, Drained(RunOf(w))
  PROVE  ~WorkerMoves(w)
  BY DEF Drained, ThreadFree, WorkerMoves, WorkerStep, BeginRequest,
         LeaveLoop, RecordResult, CrashRequest, CountRequest, StartStranded,
         Ended

\* and while run() is not executing none but those it was made to abandon.
LEMMA OverIsStill ==
  ASSUME TypeInv, Lifecycle, mainPc \in Over,
         NEW w \in Workers, RunOf(w) \notin escaped
  PROVE  ~WorkerMoves(w)
<1>1. RunOf(w) \in Runs
  BY DEF RunOf, Workers
<1>2. CASE RunOf(w) <= epoch
  BY <1>1, <1>2, EpochNat, DrainedIsStill DEF Lifecycle, Runs
<1>3. CASE RunOf(w) > epoch
  BY <1>3 DEF Lifecycle, Unborn, WorkerMoves, WorkerStep, BeginRequest,
              LeaveLoop, RecordResult, CrashRequest, CountRequest,
              StartStranded
<1> QED
  BY <1>1, <1>2, <1>3, EpochNat DEF Runs

\* Which run a worker step is of, and what it leaves alone.
LEMMA MovingWorker ==
  ASSUME TypeInv, Lifecycle, NEW w \in Workers, WorkerMoves(w)
  PROVE  /\ (RunOf(w) = epoch /\ mainPc \notin Over) \/ RunOf(w) \in escaped
         /\ ~Unborn(w) /\ escaped' = escaped
         /\ epoch' = epoch /\ mainPc' = mainPc /\ spawned' = spawned
         /\ \A v \in Workers : v # w =>
              pc'[v] = pc[v] /\ sent'[v] = sent[v] /\ results'[v] = results[v]
<1>1. RunOf(w) \in Runs
  BY DEF RunOf, Workers
<1>2. RunOf(w) \notin escaped => ~(RunOf(w) < epoch) /\ mainPc \notin Over
  BY <1>1, DrainedIsStill, OverIsStill DEF Lifecycle
<1>3. ~Unborn(w)
  BY DEF Lifecycle, WorkerMoves, WorkerStep, BeginRequest, LeaveLoop,
         RecordResult, CrashRequest, CountRequest, StartStranded
<1>4. (RunOf(w) = epoch /\ mainPc \notin Over) \/ RunOf(w) \in escaped
  BY <1>1, <1>2, <1>3, EpochNat DEF Unborn, Runs
<1>5. /\ epoch' = epoch /\ mainPc' = mainPc /\ spawned' = spawned
      /\ escaped' = escaped
  BY DEF WorkerMoves, WorkerStep, BeginRequest, LeaveLoop, RecordResult,
         Record, CrashRequest, CountRequest, StartStranded, mainVars,
         engineVars
<1>6. \A v \in Workers : v # w =>
        pc'[v] = pc[v] /\ sent'[v] = sent[v] /\ results'[v] = results[v]
  BY DEF WorkerMoves, WorkerStep, BeginRequest, LeaveLoop, RecordResult,
         Record, CrashRequest, CountRequest, StartStranded, engineVars,
         TypeInv, TypeOK, EngineTypeOK, WorkerTypeOK, Counts
<1> QED
  BY <1>3, <1>4, <1>5, <1>6

-----------------------------------------------------------------------------
\* Construction of a worker, whether or not a thread was found for it.
Spawns == SpawnWorker \/ SpawnFails

\* Steps that leave the workers alone.
Bystander ==
  \/ ClearStop \/ StartStats \/ SpawnDone \/ AwaitFuture \/ AwaitFailure
  \/ AwaitDone \/ HandleInterrupt \/ StopStats \/ JoinStats \/ JoinTimesOut
  \/ TakeSnapshot \/ WriteReports \/ StopCall \/ TimeUp
  \/ \E r \in Runs : RecorderMoves(r)
  \/ UNCHANGED vars

LEMMA StepKinds ==
  ASSUME [Next]_vars
  PROVE  \/ RunCall \/ Spawns \/ CreateExecutor \/ Shutdown \/ Interrupt
         \/ Bystander \/ \E w \in Workers : WorkerMoves(w)
  BY DEF Next, MainStep, Spawns, Bystander, Finished

LEMMA BystanderFrame ==
  ASSUME Bystander
  PROVE  /\ UNCHANGED <<pc, sent, results, epoch, spawned, escaped>>
         /\ mainPc' \in Over => mainPc \in Over
         /\ mainPc = "raised" => mainPc' = "raised"
         /\ mainPc' \in BeforeTry => mainPc \in BeforeTry
<1> USE DEF engineVars, workerVars, mainVars, stopVars, Goto, Over, Returned,
            BeforeTry, InFinally
<1>1. CASE ClearStop \/ StartStats
  BY <1>1 DEF ClearStop, StartStats
<1>2. CASE SpawnDone \/ AwaitFuture \/ AwaitFailure \/ AwaitDone
  BY <1>2 DEF SpawnDone, AwaitFuture, AwaitFailure, AwaitDone
<1>3. CASE HandleInterrupt \/ StopStats \/ JoinStats \/ JoinTimesOut
  BY <1>3 DEF HandleInterrupt, StopStats, JoinStats, JoinTimesOut
<1>4. CASE TakeSnapshot \/ WriteReports
  BY <1>4 DEF TakeSnapshot, WriteReports
<1>5. CASE StopCall \/ TimeUp
  BY <1>5 DEF StopCall, TimeUp
<1>6. CASE \E r \in Runs : RecorderMoves(r)
  BY <1>6 DEF RecorderMoves, RecStep
<1>7. CASE UNCHANGED vars
  BY <1>7 DEF vars
<1> QED
  BY <1>1, <1>2, <1>3, <1>4, <1>5, <1>6, <1>7 DEF Bystander

\* A Ctrl-C moves the calling thread only, and abandons the workers if it hits
\* the finally branch.
LEMMA InterruptFrame ==
  ASSUME Interrupt
  PROVE  /\ UNCHANGED <<pc, sent, results, epoch, spawned, futures, report,
                        stopVars, recVars, overlap>>
         /\ mainPc \notin Over /\ mainPc' \in {"except", "stop_stats", "raised"}
         /\ mainPc' = "except" => mainPc \in InTry
         /\ \/ escaped' = escaped /\ (mainPc' = "raised" => mainPc \in BeforeTry)
            \/ escaped' = escaped \cup {epoch} /\ mainPc' = "raised"
         /\ interrupted'
  BY DEF Interrupt, InterruptLandsIn, Goto, BeforeTry, InTry, InFinally, Over,
         Returned, engineVars, workerVars

LEMMA SpawnFrame ==
  ASSUME TypeInv, Lifecycle, Spawns
  PROVE  /\ <<epoch, spawned + 1>> \in Workers
         /\ Unborn(<<epoch, spawned + 1>>)
         /\ mainPc = "spawn" /\ mainPc' \in {"spawn", "stop_stats"}
         /\ spawned' = spawned + 1
         /\ UNCHANGED <<sent, results, epoch, escaped>>
         /\ pc'[<<epoch, spawned + 1>>] \in {"check", "stranded"}
         /\ \A v \in Workers : v # <<epoch, spawned + 1>> => pc'[v] = pc[v]
<1>1. <<epoch, spawned + 1>> \in Workers
  BY EngineAssumption
  DEF Spawns, SpawnWorker, SpawnFails, Goto, TypeInv, TypeOK, Numbered,
      MainTypeOK, Workers
<1>2. Unborn(<<epoch, spawned + 1>>)
  BY EpochNat DEF Unborn, RunOf
<1>3. /\ mainPc = "spawn" /\ mainPc' \in {"spawn", "stop_stats"}
      /\ spawned' = spawned + 1
      /\ UNCHANGED <<sent, results, epoch, escaped>>
  BY DEF Spawns, SpawnWorker, SpawnFails, Goto, engineVars
<1>4. pc \in [Workers -> WorkerPc]
  BY DEF TypeInv, TypeOK, WorkerTypeOK
<1>5. /\ pc'[<<epoch, spawned + 1>>] \in {"check", "stranded"}
      /\ \A v \in Workers : v # <<epoch, spawned + 1>> => pc'[v] = pc[v]
  BY <1>1, <1>4 DEF Spawns, SpawnWorker, SpawnFails
<1> QED
  BY <1>1, <1>2, <1>3, <1>5

-----------------------------------------------------------------------------
\* The life of a worker.

LEMMA InitLifecycle == Init => Lifecycle
  BY DEF Init, EngineInit, WorkerInit, Lifecycle, Unborn, Drained, BeforeTry

LEMMA NextLifecycle ==
  ASSUME TypeInv, Lifecycle, [Next]_vars
  PROVE  Lifecycle'
<1>1. CASE RunCall
  <2>1. /\ mainPc \in Over /\ mainPc' \notin Over
        /\ epoch' = epoch + 1 /\ spawned' = 0
        /\ UNCHANGED <<pc, sent, escaped>>
    BY <1>1 DEF RunCall, Reset, workerVars, Over, Returned
  <2>2. \A w \in Workers : Unborn(w)' => Unborn(w)
    BY <2>1, EpochNat DEF Unborn, RunOf, Workers, Runs
  <2>3. \A r \in Runs :
          /\ r < epoch' => r < epoch \/ r = epoch
          /\ r < epoch \/ r = epoch => r < epoch'
    BY <2>1, EpochNat DEF Runs
  <2>4. \A r \in Runs : Drained(r) => Drained(r)'
    BY <2>1 DEF Drained
  <2> QED
    BY <2>1, <2>2, <2>3, <2>4 DEF Lifecycle
<1>2. CASE Spawns
  <2> DEFINE new == <<epoch, spawned + 1>>
  <2>1. mainPc' \notin Over /\ mainPc' \notin BeforeTry /\ mainPc # "raised"
    BY <1>2, SpawnFrame DEF Over, Returned, BeforeTry
  <2>2. \A w \in Workers : Unborn(w)' => Unborn(w) /\ w # new
    BY <1>2, SpawnFrame, EpochNat DEF Unborn, RunOf, Workers
  <2>3. \A r \in Runs : r < epoch /\ Drained(r) => Drained(r)'
    <3>1. \A w \in Workers : RunOf(w) < epoch => pc'[w] = pc[w]
      BY <1>2, SpawnFrame, EpochNat DEF RunOf
    <3> QED
      BY <3>1 DEF Drained
  <2> QED
    BY <1>2, <2>1, <2>2, <2>3, SpawnFrame DEF Lifecycle
<1>3. CASE CreateExecutor
  <2>1. mainPc = "executor" /\ spawned = 0 /\ mainPc' \notin BeforeTry
    BY <1>3 DEF CreateExecutor, Lifecycle, BeforeTry
  <2>2. UNCHANGED <<pc, sent, epoch, spawned, escaped>>
    BY <1>3 DEF CreateExecutor, engineVars, workerVars
  <2>3. Drained(epoch)
    BY <2>1 DEF Lifecycle, Unborn, Drained, RunOf, Workers
  <2>4. \A r \in Runs : Drained(r) => Drained(r)'
    BY <2>2 DEF Drained
  <2> QED
    BY <2>1, <2>2, <2>3, <2>4 DEF Lifecycle, Unborn
<1>4. CASE Shutdown
  <2>1. /\ Drained(epoch) /\ mainPc' \notin BeforeTry
        /\ mainPc # "raised" /\ UNCHANGED <<pc, sent, epoch, spawned, escaped>>
    BY <1>4 DEF Shutdown, BeforeTry, engineVars, workerVars
  <2>2. \A r \in Runs : Drained(r) => Drained(r)'
    BY <2>1 DEF Drained
  <2> QED
    BY <2>1, <2>2 DEF Lifecycle, Unborn
<1>5. CASE Bystander
  BY <1>5, BystanderFrame DEF Lifecycle, Unborn, Drained
<1>6. CASE Interrupt
  <2>1. /\ UNCHANGED <<pc, sent, epoch, spawned>>
        /\ mainPc # "raised" /\ mainPc' \notin BeforeTry
    BY <1>6, InterruptFrame DEF Over, BeforeTry
  <2>2. mainPc \in BeforeTry => Drained(epoch)
    BY DEF Lifecycle, Unborn, Drained, RunOf, Workers
  <2>3. \A r \in Runs : Drained(r) => Drained(r)'
    BY <2>1 DEF Drained
  <2>4. \/ escaped' = escaped /\ (mainPc' \in Over => mainPc \in BeforeTry)
        \/ escaped' = escaped \cup {epoch} /\ mainPc' = "raised"
    BY <1>6, InterruptFrame DEF Over, Returned
  <2> QED
    BY <2>1, <2>2, <2>3, <2>4 DEF Lifecycle, Unborn
<1>7. ASSUME NEW w \in Workers, WorkerMoves(w)
      PROVE  Lifecycle'
  <2>1. \A v \in Workers : Unborn(v)' => Unborn(v) /\ v # w
    BY <1>7, MovingWorker DEF Unborn
  <2>2. \A r \in Runs : r \notin escaped /\ Drained(r) => Drained(r)'
    BY <1>7, MovingWorker, DrainedIsStill DEF Drained
  <2> QED
    BY <1>7, <2>1, <2>2, MovingWorker DEF Lifecycle
<1> QED
  BY <1>1, <1>2, <1>3, <1>4, <1>5, <1>6, <1>7, StepKinds

-----------------------------------------------------------------------------
\* The two tallies.

LEMMA InitTally == Init => SentMatchesRecorded
  BY DEF Init, EngineInit, WorkerInit, SentMatchesRecorded, Current, NoResults

LEMMA NextTally ==
  ASSUME TypeInv, Lifecycle, SentMatchesRecorded, [Next]_vars
  PROVE  SentMatchesRecorded'
<1> USE DEF SentMatchesRecorded, Current
<1>1. CASE RunCall
  <2>1. /\ epoch' = epoch + 1 /\ results' = NoResults
        /\ UNCHANGED <<pc, sent>>
    BY <1>1 DEF RunCall, Reset, workerVars
  <2>2. \A w \in Workers : RunOf(w) = epoch' => Unborn(w)
    BY <2>1, EpochNat DEF Unborn
  <2> QED
    BY <2>1, <2>2 DEF Lifecycle, NoResults
<1>2. CASE Spawns
  <2>1. /\ pc[<<epoch, spawned + 1>>] = "absent"
        /\ pc'[<<epoch, spawned + 1>>] # "count"
    BY <1>2, SpawnFrame DEF Lifecycle
  <2>2. \A w \in Workers : w # <<epoch, spawned + 1>> => pc'[w] = pc[w]
    BY <1>2, SpawnFrame
  <2> QED
    BY <1>2, <2>1, <2>2, SpawnFrame
<1>3. CASE CreateExecutor \/ Shutdown
  BY <1>3 DEF CreateExecutor, Shutdown, engineVars, workerVars
<1>4. CASE Bystander \/ Interrupt
  BY <1>4, BystanderFrame, InterruptFrame
<1>5. ASSUME NEW w \in Workers, WorkerMoves(w)
      PROVE  SentMatchesRecorded'
  <2>1. /\ sent \in [Workers -> Nat] /\ results \in [Workers -> Nat]
        /\ pc \in [Workers -> WorkerPc]
    BY DEF TypeInv, TypeOK, EngineTypeOK, WorkerTypeOK, Counts
  <2>2. RunOf(w) = epoch =>
          results'[w] = IF pc'[w] = "count" THEN sent'[w] + 1 ELSE sent'[w]
    BY <1>5, <2>1
    DEF WorkerMoves, WorkerStep, BeginRequest, LeaveLoop, RecordResult,
        Record, CrashRequest, CountRequest, StartStranded, engineVars
  <2> QED
    BY <1>5, <2>2, MovingWorker
<1> QED
  BY <1>1, <1>2, <1>3, <1>4, <1>5, StepKinds

-----------------------------------------------------------------------------
\* The graceful shutdown.

LEMMA InitGraceful == Init => GracefulInv
  BY DEF Init, WorkerInit, GracefulInv

LEMMA NextGraceful ==
  ASSUME TypeInv, Lifecycle, GracefulInv, [Next]_vars
  PROVE  GracefulInv'
<1> USE DEF GracefulInv, UnderWay
<1>1. \A w \in Workers : results[w] \in Nat /\ stopMark[w] \in Nat
  BY DEF TypeInv, TypeOK, EngineTypeOK, HistoryTypeOK, Counts
<1>2. CASE RunCall
  BY <1>1, <1>2 DEF RunCall, Reset, NoResults
<1>3. CASE Spawns
  <2>1. stopEvent' = stopEvent /\ stopMark' = stopMark
    BY <1>3 DEF Spawns, SpawnWorker, SpawnFails, stopVars
  <2>2. \A w \in Workers : pc'[w] = "request" => pc[w] = "request"
    BY <1>3, SpawnFrame
  <2> QED
    BY <1>1, <1>3, <2>1, <2>2, SpawnFrame
<1>4. CASE CreateExecutor \/ Shutdown
  BY <1>4 DEF CreateExecutor, Shutdown, engineVars, workerVars, stopVars
<1>5. CASE HandleInterrupt \/ StopCall
  <2>1. SetStop /\ UNCHANGED <<pc, results>>
    BY <1>5 DEF HandleInterrupt, StopCall, engineVars, workerVars
  <2> QED
    BY <1>1, <2>1 DEF SetStop
<1>6. CASE ClearStop
  BY <1>6 DEF ClearStop
<1>7. CASE Bystander /\ ~(HandleInterrupt \/ StopCall \/ ClearStop)
  <2>1. UNCHANGED stopVars
    BY <1>7
    DEF Bystander, StartStats, SpawnDone, AwaitFuture, AwaitFailure,
        AwaitDone, StopStats, JoinStats, JoinTimesOut, TakeSnapshot,
        WriteReports, TimeUp, RecorderMoves, vars
  <2> QED
    BY <1>7, <2>1, BystanderFrame DEF stopVars
<1>8. CASE Interrupt
  BY <1>8, InterruptFrame DEF stopVars
<1>9. ASSUME NEW w \in Workers, WorkerMoves(w)
      PROVE  GracefulInv'
  <2>1. stopEvent' = stopEvent /\ stopMark' = stopMark
    BY <1>9 DEF WorkerMoves, stopVars
  <2>2. stopEvent => results'[w] + UnderWay(w)' <= stopMark[w] + 1
    <3>1. pc \in [Workers -> WorkerPc] /\ results \in [Workers -> Nat]
      BY DEF TypeInv, TypeOK, EngineTypeOK, WorkerTypeOK, Counts
    <3> QED
      BY <1>1, <1>9, <3>1
      DEF WorkerMoves, WorkerStep, BeginRequest, LeaveLoop, RecordResult,
          Record, CrashRequest, CountRequest, StartStranded, engineVars
  <2> QED
    BY <1>9, <2>1, <2>2, MovingWorker
<1> QED
  BY <1>2, <1>3, <1>4, <1>5, <1>6, <1>7, <1>8, <1>9, StepKinds

-----------------------------------------------------------------------------
\* The report.

LEMMA InitReport == Init => ReportInv
  BY DEF Init, ReportInv

LEMMA NextReport ==
  ASSUME TypeInv, Lifecycle, ReportInv, [Next]_vars
  PROVE  ReportInv'
<1> USE DEF ReportInv
<1>1. CASE TakeSnapshot \/ WriteReports
  <2>1. report \in [metrics : Counts, raw : Counts]
    BY DEF TypeInv, TypeOK, MainTypeOK
  <2> QED
    BY <1>1, <2>1 DEF TakeSnapshot, WriteReports, Goto, engineVars
<1>2. CASE RunCall \/ Spawns \/ CreateExecutor \/ Shutdown
  BY <1>2, SpawnFrame DEF RunCall, CreateExecutor, Shutdown
<1>3. CASE Bystander /\ ~(TakeSnapshot \/ WriteReports)
  <2>1. mainPc' \in {"snapshotted", "reported"} => mainPc' = mainPc
    BY <1>3
    DEF Bystander, ClearStop, StartStats, SpawnDone, AwaitFuture,
        AwaitFailure, AwaitDone, HandleInterrupt, StopStats, JoinStats,
        JoinTimesOut, StopCall, TimeUp, RecorderMoves, Goto, mainVars, vars
  <2>2. report' = report
    BY <1>3
    DEF Bystander, ClearStop, StartStats, SpawnDone, AwaitFuture,
        AwaitFailure, AwaitDone, HandleInterrupt, StopStats, JoinStats,
        JoinTimesOut, StopCall, TimeUp, RecorderMoves, mainVars, vars
  <2> QED
    BY <1>3, <2>1, <2>2, BystanderFrame
<1>4. ASSUME NEW w \in Workers, WorkerMoves(w)
      PROVE  ReportInv'
  BY <1>4, MovingWorker DEF Over, Returned
<1>5. CASE Interrupt
  BY <1>5, InterruptFrame
<1> QED
  BY <1>1, <1>2, <1>3, <1>4, <1>5, StepKinds

-----------------------------------------------------------------------------
\* The wait for the workers.

LEMMA InitAwaited == Init => Awaited
  BY DEF Init, Awaited, InTry, InFinally, Returned

LEMMA NextAwaited ==
  ASSUME TypeInv, Lifecycle, Awaited, [Next]_vars
  PROVE  Awaited'
<1> USE DEF Awaited, InTry, InFinally, Returned
<1>1. /\ futures \in Seq(Workers) /\ awaiting \in Nat
      /\ pc \in [Workers -> WorkerPc] /\ spawned \in Nat
  BY EpochNat DEF TypeInv, TypeOK, MainTypeOK, WorkerTypeOK
<1>2. CASE RunCall \/ ClearStop \/ StartStats
  BY <1>2 DEF RunCall, ClearStop, StartStats, Goto
<1>3. CASE CreateExecutor
  <2>1. spawned' = 0 /\ mainPc' \in {"raised", "spawn"}
    BY <1>3 DEF CreateExecutor, Lifecycle, BeforeTry
  <2> QED
    BY <2>1 DEF HasFutures
<1>4. CASE SpawnWorker
  <2>1. /\ mainPc' = "spawn" /\ mainPc = "spawn" /\ epoch' = epoch
        /\ spawned' = spawned + 1
        /\ futures' = Append(futures, <<epoch, spawned + 1>>)
    BY <1>4 DEF SpawnWorker, engineVars
  <2>2. <<epoch, spawned + 1>> \in Workers
    BY <1>4, SpawnFrame DEF Spawns
  <2>3. /\ Len(futures') = Len(futures) + 1 /\ Len(futures) \in Nat
        /\ futures'[Len(futures) + 1] = <<epoch, spawned + 1>>
        /\ \A j \in 1..Len(futures) : futures'[j] = futures[j]
    <3>1. futures \in Seq(Workers)
      BY <1>1
    <3> QED
      BY <2>1, <2>2, <3>1
  <2>4. ASSUME NEW i \in 1..spawned'
        PROVE  \E j \in 1..Len(futures') : futures'[j] = <<epoch, i>>
    <3>1. CASE i = spawned + 1
      BY <2>3, <3>1
    <3>2. CASE i \in 1..spawned
      <4>1. PICK j \in 1..Len(futures) : futures[j] = <<epoch, i>>
        BY <2>1, <3>2 DEF HasFutures
      <4>2. j \in 1..Len(futures') /\ futures'[j] = <<epoch, i>>
        BY <2>3, <4>1
      <4> QED
        BY <4>2
    <3>3. i = spawned + 1 \/ i \in 1..spawned
      BY <1>1, <2>1
    <3> QED
      BY <3>1, <3>2, <3>3
  <2> QED
    BY <2>1, <2>4 DEF HasFutures
<1>5. CASE SpawnFails
  BY <1>5 DEF SpawnFails, Goto
<1>6. CASE SpawnDone
  <2>1. /\ mainPc = "spawn" /\ mainPc' = "await" /\ awaiting' = 1
        /\ UNCHANGED <<futures, spawned, epoch>>
    BY <1>6 DEF SpawnDone, Goto, engineVars
  <2>2. HasFutures'
    BY <2>1 DEF HasFutures
  <2>3. PassedReturned'
    BY <2>1 DEF PassedReturned
  <2> QED
    BY <2>1, <2>2, <2>3
<1>7. CASE AwaitFuture
  <2>1. /\ mainPc = "await" /\ mainPc' = "await" /\ awaiting' = awaiting + 1
        /\ pc[futures[awaiting]] = "done"
        /\ UNCHANGED <<futures, spawned, epoch, pc>>
    BY <1>7 DEF AwaitFuture, engineVars, workerVars
  <2>2. HasFutures'
    BY <2>1 DEF HasFutures
  <2>3. PassedReturned'
    <3>1. \A j \in 1..Len(futures) : j < awaiting + 1 => j < awaiting \/ j = awaiting
      BY <1>1
    <3> QED
      BY <2>1, <3>1 DEF PassedReturned
  <2> QED
    BY <2>1, <2>2, <2>3
<1>8. CASE AwaitFailure
  BY <1>8 DEF AwaitFailure, Goto
<1>9. CASE AwaitDone
  <2>1. \A w \in Current : pc[w] \in {"absent", "done"}
    <3> SUFFICES ASSUME NEW w \in Current PROVE pc[w] \in {"absent", "done"}
      OBVIOUS
    <3>1. w \in Workers /\ w = <<epoch, w[2]>> /\ w[2] \in Nat \ {0}
      BY EngineAssumption DEF Current, RunOf, Workers
    <3>2. CASE w[2] \in 1..spawned
      <4>1. PICK j \in 1..Len(futures) : futures[j] = <<epoch, w[2]>>
        BY <1>9, <3>2 DEF AwaitDone, Goto, HasFutures
      <4> QED
        BY <1>1, <1>9, <3>1, <4>1 DEF AwaitDone, Goto, PassedReturned
    <3>3. CASE w[2] > spawned
      BY <3>1, <3>3 DEF Lifecycle, Unborn, Current
    <3> QED
      BY <1>1, <3>1, <3>2, <3>3
  <2>2. mainPc' = "stop_stats" /\ UNCHANGED <<pc, epoch>>
    BY <1>9 DEF AwaitDone, Goto, workerVars, engineVars
  <2> QED
    BY <2>1, <2>2 DEF NoneFailed, Current
<1>10. CASE HandleInterrupt
  BY <1>1, <1>10 DEF HandleInterrupt, Goto
<1>11. CASE StopStats \/ JoinStats \/ JoinTimesOut
  BY <1>11
  DEF StopStats, JoinStats, JoinTimesOut, Goto, workerVars, engineVars,
      NoneFailed, Current
<1>12. CASE Shutdown
  BY <1>12 DEF Shutdown, workerVars, engineVars, NoneFailed, Current
<1>13. CASE TakeSnapshot \/ WriteReports
  BY <1>13 DEF TakeSnapshot, WriteReports, Goto, workerVars, engineVars,
               NoneFailed, Current
<1>14. CASE Interrupt
  BY <1>14, InterruptFrame
<1>15. CASE StopCall \/ TimeUp \/ (\E r \in Runs : RecorderMoves(r))
              \/ UNCHANGED vars
  <2>1. UNCHANGED <<pc, epoch>> /\ UNCHANGED mainVars
    BY <1>15
    DEF StopCall, TimeUp, RecorderMoves, RecStep, workerVars, engineVars, vars
  <2>2. /\ HasFutures => HasFutures'
        /\ PassedReturned => PassedReturned'
        /\ NoneFailed => NoneFailed'
    BY <2>1 DEF HasFutures, PassedReturned, NoneFailed, Current, mainVars
  <2> QED
    BY <2>1, <2>2 DEF mainVars
<1>16. ASSUME NEW w \in Workers, WorkerMoves(w)
       PROVE  Awaited'
  <2>1. /\ UNCHANGED mainVars /\ epoch' = epoch
        /\ pc[w] \notin {"absent", "done"}
        /\ \A v \in Workers : v # w => pc'[v] = pc[v]
    BY <1>16, MovingWorker
    DEF WorkerMoves, WorkerStep, BeginRequest, LeaveLoop, RecordResult,
        CrashRequest, CountRequest, StartStranded
  <2>2. \A j \in 1..Len(futures) : futures[j] \in Workers
    BY <1>1
  <2>3. HasFutures => HasFutures'
    BY <2>1 DEF HasFutures, mainVars
  <2>4. PassedReturned => PassedReturned'
    BY <2>1, <2>2 DEF PassedReturned, mainVars
  <2>5. NoneFailed => NoneFailed'
    BY <2>1 DEF NoneFailed, Current
  <2> QED
    BY <2>1, <2>3, <2>4, <2>5 DEF mainVars
<1> QED
  BY <1>2, <1>3, <1>4, <1>5, <1>6, <1>7, <1>8, <1>9, <1>10, <1>11, <1>12,
     <1>13, <1>14, <1>15, <1>16
  DEF Next, MainStep, Finished

-----------------------------------------------------------------------------
\* The engine is that of the current run.

LEMMA InitOwn == Init => OwnResults
  BY DEF Init, EngineInit, NoResults, OwnResults

LEMMA NextOwn ==
  ASSUME TypeInv, Lifecycle, OwnResults, [Next]_vars
  PROVE  OwnResults'
<1> USE DEF OwnResults, Current
<1>1. CASE RunCall
  BY <1>1 DEF RunCall, Reset, NoResults
<1>2. CASE Spawns \/ Bystander \/ Interrupt
  BY <1>2, SpawnFrame, BystanderFrame, InterruptFrame
<1>3. CASE CreateExecutor \/ Shutdown
  BY <1>3 DEF CreateExecutor, Shutdown, engineVars
<1>4. ASSUME NEW w \in Workers, WorkerMoves(w)
      PROVE  OwnResults'
  BY <1>4, MovingWorker
<1> QED
  BY <1>1, <1>2, <1>3, <1>4, StepKinds

-----------------------------------------------------------------------------
\* Workers without a thread, and exceptions on their way out.

LEMMA FuturesInWorkers ==
  ASSUME TypeInv
  PROVE  /\ futures \in Seq(Workers) /\ Len(futures) \in Nat
         /\ \A j \in 1..Len(futures) : futures[j] \in Workers
<1>1. futures \in Seq(Workers)
  BY DEF TypeInv, TypeOK, MainTypeOK
<1> QED
  BY <1>1

\* What the calling thread's own steps leave alone, and where they come from.
LEMMA BystanderFutures ==
  ASSUME Bystander
  PROVE  /\ futures' = futures
         /\ mainPc' \in BeforeTry \cup InTry => mainPc \in BeforeTry \cup InTry
         /\ mainPc' = "except" => mainPc \in InTry \cup {"except"}
         /\ mainPc' = "raised" => mainPc = "raised" /\ UNCHANGED <<users, raising>>
         /\ interrupted' = interrupted
         /\ AwaitFailure \/ UNCHANGED raising
<1> USE DEF mainVars, Goto, BeforeTry, InTry, InFinally
<1>1. CASE ClearStop \/ StartStats
  BY <1>1 DEF ClearStop, StartStats
<1>2. CASE SpawnDone \/ AwaitFuture \/ AwaitFailure \/ AwaitDone
  BY <1>2 DEF SpawnDone, AwaitFuture, AwaitFailure, AwaitDone
<1>3. CASE HandleInterrupt \/ StopStats \/ JoinStats \/ JoinTimesOut
  BY <1>3 DEF HandleInterrupt, StopStats, JoinStats, JoinTimesOut
<1>4. CASE TakeSnapshot \/ WriteReports
  BY <1>4 DEF TakeSnapshot, WriteReports
<1>5. CASE StopCall \/ TimeUp
  BY <1>5 DEF StopCall, TimeUp
<1>6. CASE \E r \in Runs : RecorderMoves(r)
  BY <1>6 DEF RecorderMoves
<1>7. CASE UNCHANGED vars
  BY <1>7 DEF vars
<1> QED
  BY <1>1, <1>2, <1>3, <1>4, <1>5, <1>6, <1>7 DEF Bystander

\* A worker that a thread has taken up stays so, and none loses its thread;
\* one that failed has failed for good.
LEMMA WorkerThread ==
  ASSUME TypeInv, NEW w \in Workers, WorkerMoves(w)
  PROVE  /\ pc'[w] \in Active \cup Ended /\ pc[w] # "failed"
         /\ UNCHANGED <<mainVars, epoch>>
<1>1. pc \in [Workers -> WorkerPc]
  BY DEF TypeInv, TypeOK, WorkerTypeOK
<1> QED
  BY <1>1
  DEF WorkerMoves, WorkerStep, BeginRequest, LeaveLoop, RecordResult, Record,
      CrashRequest, CountRequest, StartStranded, Active, Ended, engineVars

LEMMA InitStranding == Init => Stranding
<1> SUFFICES ASSUME Init PROVE Stranding
  OBVIOUS
<1>1. /\ \A w \in Workers : pc[w] = "absent"
      /\ mainPc = "idle" /\ Len(futures) = 0
  BY DEF Init, WorkerInit
<1> QED
  BY <1>1 DEF Stranding, BeforeTry, InTry, Current

LEMMA NextStranding ==
  ASSUME TypeInv, Lifecycle, Stranding, [Next]_vars
  PROVE  Stranding'
<1> USE DEF Stranding, Current
<1>1. CASE RunCall
  <2>1. /\ epoch' = epoch + 1 /\ UNCHANGED <<pc, futures>>
    BY <1>1 DEF RunCall, Reset, workerVars
  <2>2. \A w \in Workers : RunOf(w) = epoch' => pc[w] = "absent"
    BY <2>1, EpochNat DEF Lifecycle, Unborn
  <2> QED
    BY <2>1, <2>2
<1>2. CASE Spawns
  <2> DEFINE new == <<epoch, spawned + 1>>
  <2>1. /\ new \in Workers /\ pc[new] = "absent" /\ RunOf(new) = epoch
        /\ pc \in [Workers -> WorkerPc] /\ epoch' = epoch
        /\ \A v \in Workers : v # new => pc'[v] = pc[v]
    BY <1>2, SpawnFrame
    DEF Lifecycle, TypeInv, TypeOK, WorkerTypeOK, RunOf
  <2>2. \A w \in Workers : RunOf(w) = epoch => pc[w] # "stranded"
    BY <1>2, SpawnFrame DEF InTry
  <2>3. \A j \in 1..Len(futures) :
          futures[j] \in Workers /\ futures[j] # new /\ pc'[futures[j]] = pc[futures[j]]
    BY <2>1, FuturesInWorkers DEF Active, Ended
  <2>4. \A v, w \in Workers : RunOf(v) = RunOf(w) /\ pc'[v] = "stranded"
           /\ pc'[w] = "stranded" => v = w
    BY <2>1, <2>2
  <2>5. CASE SpawnWorker
    <3>1. pc'[new] = "check" /\ futures' = Append(futures, new)
      BY <2>1, <2>5 DEF SpawnWorker
    <3>2. \A j \in 1..Len(futures') :
            \/ j \in 1..Len(futures) /\ futures'[j] = futures[j]
            \/ futures'[j] = new
      BY <2>1, <3>1, FuturesInWorkers
    <3>3. \A j \in 1..Len(futures') : pc'[futures'[j]] \in Active \cup Ended
      BY <2>3, <3>1, <3>2 DEF Active
    <3>4. \A w \in Workers : RunOf(w) = epoch => pc'[w] # "stranded"
      BY <2>1, <2>2, <3>1
    <3> QED
      BY <2>1, <2>4, <3>3, <3>4
  <2>6. CASE SpawnFails
    BY <2>3, <2>4, <2>6 DEF SpawnFails, Goto, BeforeTry, InTry
  <2> QED
    BY <1>2, <2>5, <2>6 DEF Spawns
<1>3. CASE CreateExecutor \/ Shutdown
  BY <1>3
  DEF CreateExecutor, Shutdown, engineVars, workerVars, BeforeTry, InTry
<1>4. CASE Bystander \/ Interrupt
  BY <1>4, BystanderFrame, BystanderFutures, InterruptFrame
  DEF BeforeTry, InTry
<1>5. ASSUME NEW w \in Workers, WorkerMoves(w)
      PROVE  Stranding'
  <2>1. /\ pc'[w] \in Active \cup Ended
        /\ UNCHANGED <<futures, mainPc, epoch>>
        /\ \A v \in Workers : v # w => pc'[v] = pc[v]
    BY <1>5, MovingWorker, WorkerThread DEF mainVars
  <2> QED
    BY <2>1, FuturesInWorkers DEF Active, Ended
<1> QED
  BY <1>1, <1>2, <1>3, <1>4, <1>5, StepKinds

LEMMA InitRaising == Init => Raising
  BY DEF Init, Raising

LEMMA NextRaising ==
  ASSUME TypeInv, Lifecycle, Stranding, Raising, [Next]_vars
  PROVE  Raising'
<1> USE DEF Raising
<1>1. awaiting \in Nat \ {0} /\ spawned \in Nat
  BY EpochNat DEF TypeInv, TypeOK, MainTypeOK
<1>2. ASSUME UNCHANGED <<futures, spawned, epoch, raising, interrupted>>,
             \A w \in Workers : pc[w] = "failed" => pc'[w] = "failed"
      PROVE  raising' /\ ~interrupted' => FailureAtHand'
  BY <1>2, FuturesInWorkers DEF FailureAtHand
<1>3. CASE RunCall
  BY <1>3 DEF RunCall
<1>4. CASE SpawnWorker
  BY <1>4 DEF SpawnWorker, InTry
<1>5. CASE SpawnFails
  <2>1. \A j \in 1..Len(futures) : futures[j] # <<epoch, spawned + 1>>
    BY <1>5, SpawnFrame DEF Spawns, Lifecycle, Stranding, Active, Ended
  <2>2. /\ UNCHANGED <<futures, epoch>> /\ spawned' = spawned + 1
        /\ mainPc' = "stop_stats"
    BY <1>5 DEF SpawnFails, Goto, engineVars
  <2> QED
    BY <1>1, <2>1, <2>2 DEF FailureAtHand, BeforeTry, InTry
<1>6. CASE CreateExecutor \/ Shutdown
  <2>1. /\ UNCHANGED <<futures, spawned, epoch, raising, interrupted, pc>>
        /\ UNCHANGED users
        /\ mainPc' \in BeforeTry \cup InTry => mainPc \in BeforeTry
        /\ mainPc' = "raised" /\ users > 0 => raising
    BY <1>6
    DEF CreateExecutor, Shutdown, engineVars, workerVars, BeforeTry, InTry
  <2> QED
    BY <1>2, <2>1
<1>7. CASE AwaitFailure
  <2>1. /\ awaiting \in 1..Len(futures) /\ pc[futures[awaiting]] = "failed"
        /\ UNCHANGED <<futures, pc>> /\ mainPc' = "stop_stats"
    BY <1>1, <1>7, FuturesInWorkers DEF AwaitFailure, Goto, workerVars
  <2> QED
    BY <2>1 DEF FailureAtHand, BeforeTry, InTry
<1>8. CASE Interrupt
  BY <1>8, InterruptFrame DEF BeforeTry, InTry
<1>9. CASE Bystander /\ ~AwaitFailure
  BY <1>2, <1>9, BystanderFrame, BystanderFutures
<1>10. ASSUME NEW w \in Workers, WorkerMoves(w)
       PROVE  Raising'
  <2>1. /\ UNCHANGED mainVars /\ epoch' = epoch
        /\ \A v \in Workers : pc[v] = "failed" => pc'[v] = "failed"
    BY <1>10, MovingWorker, WorkerThread
  <2> QED
    BY <1>2, <2>1 DEF mainVars
<1> QED
  BY <1>3, <1>4, <1>5, <1>6, <1>7, <1>8, <1>9, <1>10, StepKinds DEF Spawns

-----------------------------------------------------------------------------
\* The theorems.

LEMMA InvariantHolds == Spec => []IInv
<1>1. Init => IInv
  BY InitTypes, InitLifecycle, InitTally, InitGraceful, InitReport,
     InitAwaited, InitOwn, InitStranding, InitRaising
  DEF IInv
<1>2. IInv /\ [Next]_vars => IInv'
  <2> SUFFICES ASSUME IInv, [Next]_vars PROVE IInv'
    OBVIOUS
  <2>1. TypeInv'
    BY NextTypes DEF IInv
  <2> QED
    BY <2>1, NextLifecycle, NextTally, NextGraceful, NextReport, NextAwaited,
       NextOwn, NextStranding, NextRaising
    DEF IInv
<1> QED
  BY <1>1, <1>2, PTL DEF Spec

\* The log line's requests_sent and the engine's results never drift apart by
\* more than the result a worker is about to count (worker.py:56-57).
THEOREM TalliesAgree == Spec => []SentMatchesRecorded
<1>1. IInv => SentMatchesRecorded
  BY DEF IInv
<1> QED
  BY InvariantHolds, <1>1, PTL

\* However run() comes back, and however often, no worker of any run is at work
\* then, but for those of the runs that a Ctrl-C took out of their finally branch
\* (scheduler.py:82-84).
THEOREM NoWorkerOutlivesRun == Spec => []QuiescentAfterRun
<1>1. IInv => QuiescentAfterRun
  <2> SUFFICES ASSUME IInv, mainPc \in Over,
                      NEW w \in Workers, RunOf(w) \notin escaped
               PROVE  /\ pc[w] \notin Active
                      /\ ~(pc[w] = "stranded" /\ ThreadFree(RunOf(w)))
    BY DEF QuiescentAfterRun
  <2>1. RunOf(w) \in Runs
    BY DEF RunOf, Workers
  <2>2. RunOf(w) > epoch \/ Drained(RunOf(w))
    BY <2>1, EpochNat DEF IInv, Lifecycle, Runs
  <2>3. CASE RunOf(w) > epoch
    BY <2>3 DEF IInv, Lifecycle, Unborn, Active
  <2>4. CASE Drained(RunOf(w))
    BY <2>4 DEF Drained, ThreadFree, Active, Ended
  <2> QED
    BY <2>2, <2>3, <2>4
<1> QED
  BY InvariantHolds, <1>1, PTL

\* A worker records at most one result after the stop event was set.
THEOREM StopIsPrompt == Spec => []GracefulStop
<1>1. IInv => GracefulStop
  <2> SUFFICES ASSUME IInv, stopEvent, NEW w \in Workers
               PROVE  results[w] <= stopMark[w] + 1
    BY DEF GracefulStop
  <2>1. results[w] \in Nat /\ stopMark[w] \in Nat
    BY DEF IInv, TypeInv, TypeOK, EngineTypeOK, HistoryTypeOK, Counts
  <2> QED
    BY <2>1 DEF IInv, GracefulInv, UnderWay
<1> QED
  BY InvariantHolds, <1>1, PTL

\* The two reads of the engine in cmd_loadtest see the same results, unless a
\* Ctrl-C left workers behind.
THEOREM ReportsAgree == Spec => []ReportConsistent
<1>1. IInv => ReportConsistent
  BY DEF IInv, ReportInv, ReportConsistent
<1> QED
  BY InvariantHolds, <1>1, PTL

\* No worker's exception is lost by a run that returns undisturbed.
THEOREM FailuresSurface == Spec => []FailureReported
<1>1. IInv => FailureReported
  BY DEF IInv, Awaited, NoneFailed, FailureReported
<1> QED
  BY InvariantHolds, <1>1, PTL

\* The engine of a run holds no result but those of its own workers and of the
\* ones abandoned by a Ctrl-C in the finally branch (scheduler.py:52, 82-84).
THEOREM ResultsAreOwn == Spec => []OwnResults
<1>1. IInv => OwnResults
  BY DEF IInv
<1> QED
  BY InvariantHolds, <1>1, PTL

\* The calling thread waits only for workers that have ended or can end
\* (scheduler.py:77, 84).
THEOREM WaitsEnd == Spec => []AwaitsTheLiving
<1>1. IInv => AwaitsTheLiving
  <2>1. ASSUME IInv, mainPc = "await", awaiting <= Len(futures)
        PROVE  pc[futures[awaiting]] \in Active \cup Ended
    <3>1. awaiting \in 1..Len(futures)
      BY <2>1, FuturesInWorkers DEF IInv, TypeInv, TypeOK, MainTypeOK
    <3> QED
      BY <2>1, <3>1 DEF IInv, Stranding
  <2>2. ASSUME IInv, mainPc = "shutdown", ~Drained(epoch)
        PROVE  \E w \in Current : pc[w] \in Active \/ (pc[w] = "stranded" /\ ThreadFree(epoch))
    <3>1. PICK w \in Current :
            /\ pc[w] \notin {"absent", "done", "failed"}
            /\ ~(/\ pc[w] = "stranded"
                 /\ \A v \in Workers : RunOf(v) = RunOf(w) /\ v # w => pc[v] = "absent")
      BY <2>2 DEF Drained, Current
    <3>2. w \in Workers /\ RunOf(w) = epoch /\ pc \in [Workers -> WorkerPc]
      BY <2>2, <3>1 DEF Current, IInv, TypeInv, TypeOK, WorkerTypeOK
    <3>3. CASE pc[w] = "stranded"
      <4>1. PICK v \in Workers : RunOf(v) = epoch /\ v # w /\ pc[v] # "absent"
        BY <3>1, <3>2, <3>3
      <4>2. pc[v] # "stranded"
        BY <2>2, <3>2, <3>3, <4>1 DEF IInv, Stranding
      <4>3. pc[v] \in Active \/ ThreadFree(epoch)
        BY <3>2, <4>1, <4>2 DEF WorkerPc, ThreadFree
      <4> QED
        BY <3>1, <3>3, <4>1, <4>3 DEF Current
    <3>4. CASE pc[w] # "stranded"
      BY <3>1, <3>2, <3>4 DEF WorkerPc, Ended
    <3> QED
      BY <3>3, <3>4
  <2> QED
    BY <2>1, <2>2 DEF AwaitsTheLiving
<1> QED
  BY InvariantHolds, <1>1, PTL

\* An undisturbed run whose workers were all submitted raises only for a worker
\* that failed (scheduler.py:77-78).
THEOREM RaisesForCause == Spec => []RaisesAFailure
<1>1. IInv => RaisesAFailure
  <2> SUFFICES ASSUME IInv, mainPc = "raised", ~interrupted, users > 0, Submitted
               PROVE  \E j \in DOMAIN futures : pc[futures[j]] = "failed"
    BY DEF RaisesAFailure
  <2>1. DOMAIN futures = 1..Len(futures)
    BY FuturesInWorkers DEF IInv
  <2>2. FailureAtHand
    BY DEF IInv, Raising
  <2>3. spawned \in Nat /\ users \in Nat /\ spawned <= users
    BY EngineAssumption DEF IInv, TypeInv, TypeOK, MainTypeOK
  <2>4. CASE spawned > 0
    <3>1. spawned \in 1..users
      BY <2>3, <2>4
    <3>2. \E j \in 1..Len(futures) : futures[j] = <<epoch, spawned>>
      BY <2>1, <3>1 DEF Submitted
    <3> QED
      BY <2>1, <2>2, <3>2 DEF FailureAtHand
  <2> QED
    BY <2>1, <2>2, <2>4 DEF FailureAtHand
<1> QED
  BY InvariantHolds, <1>1, PTL
=============================================================================
