----------------------- MODULE LoadTestTimelineProofs -----------------------
(***************************************************************************)
(* Proofs of what LoadTestScheduler promises of its timeline, and of the   *)
(* total it logs, for every number of runs, users, requests, points and    *)
(* interrupts.                                                             *)
(***************************************************************************)
EXTENDS LoadTestProofs, SumsProofs

LEMMA PrecedesIsOrder ==
  \A p, q, r \in Points :
    Precedes(p, p) /\ (Precedes(p, q) /\ Precedes(q, r) => Precedes(p, r))
<1>1. SUFFICES ASSUME NEW p \in Points, NEW q \in Points, NEW r \in Points
               PROVE  /\ Precedes(p, p)
                      /\ Precedes(p, q) /\ Precedes(q, r) => Precedes(p, r)
  OBVIOUS
<1>2. \A x \in Points : x.epoch \in Nat /\ \A w \in Workers : x.counts[w] \in Nat
  BY EngineAssumption DEF Points, Counts, Runs
<1>3. \A x, y, z \in Nat : x <= x /\ (x <= y /\ y <= z => x <= z)
  OBVIOUS
<1>. QED
  BY <1>2, <1>3 DEF Precedes

\* What the engine holds only grows, or begins anew in a later run.
LEMMA SnapshotGrows ==
  ASSUME IInv, [Next]_vars
  PROVE  /\ Snapshot \in Points /\ Snapshot' \in Points
         /\ Precedes(Snapshot, Snapshot')
<1>1. TypeInv /\ TypeInv' /\ Lifecycle
  BY NextTypes DEF IInv
<1>2. Snapshot \in Points /\ Snapshot' \in Points
  BY <1>1, EngineAssumption
  DEF TypeInv, TypeOK, EngineTypeOK, Snapshot, Points, Runs
<1>3. /\ epoch \in Nat /\ epoch' \in Nat
      /\ \A w \in Workers : results[w] \in Nat /\ results'[w] \in Nat
  BY <1>1, EngineAssumption DEF TypeInv, TypeOK, EngineTypeOK, Counts
<1>4. CASE UNCHANGED <<results, epoch>>
  <2>1. Snapshot' = Snapshot
    BY <1>4 DEF Snapshot
  <2>. QED
    BY <1>2, <2>1, PrecedesIsOrder
<1>5. CASE RunCall
  <2>1. epoch' = epoch + 1
    BY <1>5 DEF RunCall, Reset
  <2>. QED
    BY <1>2, <1>3, <2>1 DEF Precedes, Snapshot
<1>6. ASSUME NEW w \in Workers, WorkerMoves(w)
      PROVE  Precedes(Snapshot, Snapshot')
  <2>1. /\ epoch' = epoch
        /\ \A v \in Workers : v # w => results'[v] = results[v]
    BY <1>1, <1>6, MovingWorker
  <2>2. results'[w] = results[w] \/ results'[w] = results[w] + 1
    BY <1>1, <1>6
    DEF WorkerMoves, WorkerStep, BeginRequest, LeaveLoop, RecordResult,
        Record, CrashRequest, CountRequest, StartStranded, engineVars,
        TypeInv, TypeOK, EngineTypeOK, Counts
  <2>3. \A v \in Workers : results[v] <= results'[v]
    BY <1>3, <2>1, <2>2
  <2>. QED
    BY <2>1, <2>3 DEF Precedes, Snapshot
<1>7. CASE Spawns \/ Bystander \/ Interrupt
  BY <1>1, <1>4, <1>7, SpawnFrame, BystanderFrame, InterruptFrame
<1>8. CASE CreateExecutor \/ Shutdown
  BY <1>4, <1>8 DEF CreateExecutor, Shutdown, engineVars
<1>. QED
  BY <1>2, <1>5, <1>6, <1>7, <1>8, StepKinds

\* The steps that touch a recorder.
LEMMA RecorderFrame ==
  ASSUME [Next]_vars
  PROVE  \/ StartStats \/ StopStats \/ \E r \in Runs : RecorderMoves(r)
         \/ UNCHANGED <<recVars, overlap>>
<1> USE DEF engineVars, workerVars, mainVars, stopVars
<1>1. CASE RunCall \/ ClearStop \/ CreateExecutor
  BY <1>1 DEF RunCall, ClearStop, CreateExecutor
<1>2. CASE SpawnWorker \/ SpawnFails \/ SpawnDone
  BY <1>2 DEF SpawnWorker, SpawnFails, SpawnDone
<1>3. CASE AwaitFuture \/ AwaitFailure \/ AwaitDone \/ HandleInterrupt
  BY <1>3 DEF AwaitFuture, AwaitFailure, AwaitDone, HandleInterrupt
<1>4. CASE JoinStats \/ JoinTimesOut \/ Shutdown
  BY <1>4 DEF JoinStats, JoinTimesOut, Shutdown
<1>5. CASE TakeSnapshot \/ WriteReports
  BY <1>5 DEF TakeSnapshot, WriteReports
<1>6. CASE Interrupt \/ StopCall \/ TimeUp
  BY <1>6 DEF Interrupt, StopCall, TimeUp
<1>7. CASE \E w \in Workers : WorkerMoves(w)
  BY <1>7 DEF WorkerMoves
<1>8. CASE UNCHANGED vars
  BY <1>8 DEF vars, recVars
<1>. QED
  BY <1>1, <1>2, <1>3, <1>4, <1>5, <1>6, <1>7, <1>8
  DEF Next, MainStep, Finished

\* A recorder steps while it lives, and changes nobody's part but its own.
LEMMA MovingRecorder ==
  ASSUME TypeInv, NEW r \in Runs, RecorderMoves(r)
  PROVE  /\ Alive(r) /\ recPc[r] \in RecPc
         /\ UNCHANGED <<epoch, results, mainPc, interrupted, raising, overlap,
                        escaped, recStop>>
         /\ \A s \in Runs : s # r => recPc'[s] = recPc[s] /\ recPoint'[s] = recPoint[s]
<1> USE DEF RecorderMoves, RecStep, engineVars, mainVars, TypeInv, TypeOK, RecTypeOK
<1>1. CASE RecCheck(r)
  BY <1>1 DEF RecCheck, Alive
<1>2. CASE RecSample(r)
  BY <1>2 DEF RecSample, Alive
<1>3. CASE RecAppend(r)
  BY <1>3 DEF RecAppend, Alive
<1>. QED
  BY <1>1, <1>2, <1>3

\* Once run() has started its recorder, it is on the way to its end until it
\* is called again.
LEMMA StaysStarted ==
  ASSUME [Next]_vars, ~StartStats, mainPc' \in Started
  PROVE  mainPc \in Started /\ epoch' = epoch
<1> USE DEF engineVars, mainVars, stopVars, Goto, Started, MainPc, InRun, Over,
            BeforeTry, InTry, InFinally, Returned
<1>1. CASE RunCall \/ ClearStop \/ CreateExecutor
  BY <1>1 DEF RunCall, ClearStop, CreateExecutor
<1>2. CASE SpawnWorker \/ SpawnFails \/ SpawnDone
  BY <1>2 DEF SpawnWorker, SpawnFails, SpawnDone
<1>3. CASE AwaitFuture \/ AwaitFailure \/ AwaitDone \/ HandleInterrupt
  BY <1>3 DEF AwaitFuture, AwaitFailure, AwaitDone, HandleInterrupt
<1>4. CASE StopStats \/ JoinStats \/ JoinTimesOut \/ Shutdown
  BY <1>4 DEF StopStats, JoinStats, JoinTimesOut, Shutdown
<1>5. CASE TakeSnapshot \/ WriteReports
  BY <1>5 DEF TakeSnapshot, WriteReports
<1>6. CASE Interrupt
  BY <1>6 DEF Interrupt, InterruptLandsIn
<1>7. CASE StopCall \/ TimeUp
  BY <1>7 DEF StopCall, TimeUp
<1>8. CASE \E w \in Workers : WorkerMoves(w)
  BY <1>8
  DEF WorkerMoves, WorkerStep, BeginRequest, LeaveLoop, RecordResult, Record,
      CrashRequest, CountRequest, StartStranded
<1>9. CASE \E r \in Runs : RecorderMoves(r)
  BY <1>9 DEF RecorderMoves, RecStep
<1>10. CASE UNCHANGED vars
  BY <1>10 DEF vars
<1>. QED
  BY <1>1, <1>2, <1>3, <1>4, <1>5, <1>6, <1>7, <1>8, <1>9, <1>10
  DEF Next, MainStep, Finished

-----------------------------------------------------------------------------
LEMMA NextOneRecorder ==
  ASSUME TypeInv, OneRecorder, [Next]_vars, ~overlap'
  PROVE  OneRecorder'
<1>1. CASE StartStats
  <2>1. \A r \in Runs : ~Alive(r)
    BY <1>1 DEF StartStats
  <2>2. epoch' = epoch /\ recPc' = [recPc EXCEPT ![epoch] = "check"]
    BY <1>1 DEF StartStats, StatsStart, engineVars
  <2>3. \A r \in Runs : Alive(r)' => r = epoch
    BY <2>1, <2>2 DEF Alive, TypeInv, TypeOK, RecTypeOK
  <2>. QED
    BY <2>2, <2>3 DEF OneRecorder
<1>2. ASSUME ~StartStats, \A r \in Runs : Alive(r)' => Alive(r)
      PROVE  OneRecorder'
  BY <1>2, StaysStarted DEF OneRecorder
<1>3. CASE StopStats
  BY <1>2, <1>3 DEF StopStats, StatsSignal, Alive, StartStats, Goto
<1>4. ASSUME NEW r \in Runs, RecorderMoves(r)
      PROVE  OneRecorder'
  <2>1. \A s \in Runs : Alive(s)' => Alive(s)
    BY <1>4, MovingRecorder DEF Alive
  <2>2. CASE StartStats
    BY <2>2, <1>1
  <2>. QED
    BY <1>2, <2>1, <2>2
<1>5. CASE UNCHANGED <<recVars, overlap>>
  BY <1>1, <1>2, <1>5 DEF recVars, Alive
<1>. QED
  BY <1>1, <1>3, <1>4, <1>5, RecorderFrame

\* Recorders are those of the runs so far.
LEMMA NextRecorders ==
  ASSUME TypeInv, Lifecycle, Recorders, [Next]_vars
  PROVE  Recorders'
<1> USE DEF Recorders
<1>1. TypeInv' /\ epoch \in Nat /\ epoch' \in Nat /\ recPc \in [Runs -> RecPc]
  BY NextTypes, EngineAssumption
  DEF TypeInv, TypeOK, EngineTypeOK, RecTypeOK
<1>2. \A r \in Runs : r \in Nat /\ r > 0
  BY EngineAssumption DEF Runs
<1>3. CASE StartStats
  <2>1. /\ UNCHANGED epoch /\ mainPc = "start_stats" /\ mainPc' = "executor"
        /\ epoch \in Runs
        /\ \A r \in Runs : r # epoch => recPc'[r] = recPc[r]
    BY <1>1, <1>3
    DEF StartStats, StatsStart, Goto, engineVars, TypeInv, Numbered
  <2>2. \A r \in Runs : Alive(r) => r < epoch
    BY <2>1 DEF Alive
  <2>3. overlap' => epoch > 1
    <3>1. CASE \E r \in Runs : Alive(r)
      BY <1>1, <1>2, <2>2, <3>1
    <3>2. CASE ~\E r \in Runs : Alive(r)
      <4>1. overlap' => overlap
        BY <1>3, <3>2, Zenon DEF StartStats
      <4>. QED
        BY <4>1
    <3>. QED
      BY <3>1, <3>2
  <2>. QED
    BY <2>1, <2>3
<1>4. CASE StopStats
  BY <1>4 DEF StopStats, StatsSignal, Goto, engineVars
<1>5. ASSUME NEW r \in Runs, RecorderMoves(r)
      PROVE  Recorders'
  BY <1>1, <1>5, MovingRecorder DEF Alive
<1>6. CASE UNCHANGED <<recVars, overlap>>
  <2>1. CASE RunCall
    <3>1. epoch' = epoch + 1 /\ UNCHANGED <<recPc, overlap>>
      BY <1>6, <2>1 DEF RunCall, Reset, recVars
    <3>. QED
      BY <1>1, <1>2, <3>1
  <2>2. CASE ~RunCall
    <3>1. UNCHANGED epoch
      BY <2>2, SpawnFrame, BystanderFrame, InterruptFrame, MovingWorker, StepKinds
      DEF CreateExecutor, Shutdown, engineVars
    <3>2. mainPc' \in {"clear", "start_stats"} => mainPc \in {"clear", "start_stats"}
      <4>1. CASE Spawns \/ CreateExecutor \/ Shutdown
        BY <4>1, SpawnFrame DEF CreateExecutor, Shutdown
      <4>2. CASE ClearStop
        BY <4>2 DEF ClearStop, Goto
      <4>3. CASE Bystander /\ ~ClearStop
        BY <4>3
        DEF Bystander, StartStats, SpawnDone, AwaitFuture, AwaitFailure,
            AwaitDone, HandleInterrupt, StopStats, JoinStats, JoinTimesOut,
            TakeSnapshot, WriteReports, StopCall, TimeUp, RecorderMoves, Goto,
            mainVars, vars
      <4>4. CASE \E w \in Workers : WorkerMoves(w)
        BY <4>4 DEF WorkerMoves, mainVars
      <4>5. CASE Interrupt
        BY <4>5, InterruptFrame
      <4>. QED
        BY <2>2, <4>1, <4>2, <4>3, <4>4, <4>5, StepKinds
    <3>. QED
      BY <1>6, <3>1, <3>2 DEF recVars
  <2>. QED
    BY <2>1, <2>2
<1>. QED
  BY <1>3, <1>4, <1>5, <1>6, RecorderFrame

\* What was sampled was there, and what is there only grows.
LEMMA NextPointsPast ==
  ASSUME IInv, PointsPast, [Next]_vars
  PROVE  PointsPast'
<1>1. /\ Snapshot \in Points /\ Snapshot' \in Points
      /\ Precedes(Snapshot, Snapshot')
  BY SnapshotGrows
<1>2. /\ TypeInv /\ timeline \in Seq(Points)
      /\ recPoint \in [Runs -> Points] /\ recPc \in [Runs -> RecPc]
  BY DEF IInv, TypeInv, TypeOK, RecTypeOK
<1>3. \A i \in 1..Len(timeline) : Precedes(timeline[i], Snapshot')
  BY <1>1, <1>2, PrecedesIsOrder DEF PointsPast
<1>4. \A r \in Runs : Pending(r) => Precedes(recPoint[r], Snapshot')
  BY <1>1, <1>2, PrecedesIsOrder DEF PointsPast
<1>5. CASE StartStats \/ StopStats \/ UNCHANGED <<recVars, overlap>>
  <2>1. /\ UNCHANGED <<timeline, recPoint>>
        /\ \A r \in Runs : Pending(r)' => Pending(r)
    BY <1>2, <1>5
    DEF StartStats, StopStats, StatsStart, StatsSignal, recVars, Pending
  <2>. QED
    BY <1>3, <1>4, <2>1 DEF PointsPast
<1>6. ASSUME NEW r \in Runs, RecorderMoves(r)
      PROVE  PointsPast'
  <2>1. /\ Snapshot' = Snapshot
        /\ \A s \in Runs : s # r => recPoint'[s] = recPoint[s] /\ (Pending(s)' => Pending(s))
    BY <1>2, <1>6, MovingRecorder DEF Snapshot, Pending
  <2>2. CASE RecCheck(r) \/ RecSample(r)
    <3>1. /\ timeline' = timeline
          /\ Pending(r)' => recPoint'[r] = Snapshot
      BY <1>2, <2>2 DEF RecCheck, RecSample, Pending
    <3>. QED
      BY <1>1, <1>3, <1>4, <2>1, <3>1 DEF PointsPast
  <2>3. CASE RecAppend(r)
    <3>1. Pending(r) /\ timeline' = Append(timeline, recPoint[r]) /\ ~Pending(r)'
      BY <1>2, <2>3 DEF RecAppend, Pending
    <3>2. \A i \in 1..Len(timeline') :
            \/ i \in 1..Len(timeline) /\ timeline'[i] = timeline[i]
            \/ timeline'[i] = recPoint[r]
      BY <1>2, <3>1
    <3>. QED
      BY <1>3, <1>4, <2>1, <3>1, <3>2 DEF PointsPast
  <2>. QED
    BY <1>6, <2>2, <2>3 DEF RecorderMoves, RecStep
<1>. QED
  BY <1>5, <1>6, RecorderFrame

LEMMA NextPointsInOrder ==
  ASSUME IInv, PointsPast, OneRecorder, PointsInOrder, [Next]_vars
  PROVE  PointsInOrder'
<1>1. TypeInv /\ PointsPast'
  BY NextPointsPast DEF IInv
<1>2. /\ timeline \in Seq(Points)
      /\ recPoint \in [Runs -> Points] /\ recPc \in [Runs -> RecPc]
  BY <1>1 DEF TypeInv, TypeOK, RecTypeOK
<1>3. ASSUME UNCHANGED <<timeline, recPoint>>, \A r \in Runs : Pending(r)' => Pending(r)
      PROVE  PointsInOrder'
  BY <1>3 DEF PointsInOrder
<1>4. CASE StartStats \/ StopStats \/ UNCHANGED <<recVars, overlap>>
  <2>1. UNCHANGED <<timeline, recPoint>>
    BY <1>4 DEF StartStats, StopStats, StatsStart, StatsSignal, recVars
  <2>2. \A r \in Runs : Pending(r)' => Pending(r)
    BY <1>2, <1>4
    DEF StartStats, StopStats, StatsStart, StatsSignal, recVars, Pending
  <2>. QED
    BY <1>3, <2>1, <2>2
<1>5. ASSUME NEW r \in Runs, RecorderMoves(r)
      PROVE  PointsInOrder'
  <2>1. CASE RecCheck(r)
    <3>1. \A s \in Runs : Pending(s)' => Pending(s)
      BY <1>2, <2>1 DEF RecCheck, Pending
    <3>. QED
      BY <1>3, <2>1, <3>1 DEF RecCheck
  <2>2. CASE RecSample(r)
    <3>1. timeline' = timeline /\ recPoint'[r] = Snapshot
      BY <1>2, <2>2 DEF RecSample
    <3>2. \A s \in Runs : s # r => recPoint'[s] = recPoint[s] /\ (Pending(s)' => Pending(s))
      BY <1>1, <1>2, <1>5, MovingRecorder DEF Pending
    <3>. QED
      BY <3>1, <3>2 DEF PointsInOrder, PointsPast
  <2>3. CASE RecAppend(r)
    <3> DEFINE p == recPoint[r]
               n == Len(timeline)
    <3>1. Pending(r) /\ Alive(r)
      BY <2>3 DEF RecAppend, Pending, Alive
    <3>2. p \in Points /\ \A i \in 1..n : Precedes(timeline[i], p)
      BY <1>2, <3>1 DEF PointsInOrder
    <3>3. /\ n \in Nat /\ Len(timeline') = n + 1 /\ timeline'[n + 1] = p
          /\ \A i \in 1..n : timeline'[i] = timeline[i]
      BY <1>2, <2>3, <3>2 DEF RecAppend
    <3>4. \A s \in Runs : ~Pending(s)'
      <4>1. ~Pending(r)'
        BY <1>2, <2>3 DEF RecAppend, Pending
      <4>2. \A s \in Runs : s # r => ~Pending(s) /\ recPc'[s] = recPc[s]
        BY <1>1, <1>5, <3>1, MovingRecorder DEF OneRecorder, Pending, Alive
      <4>. QED
        BY <4>1, <4>2 DEF Pending
    <3> HIDE DEF p, n
    <3>5. Precedes(p, p)
      BY <3>2, PrecedesIsOrder
    <3>6. ASSUME NEW i \in 1..(n + 1), NEW j \in 1..(n + 1), i <= j
          PROVE  Precedes(timeline'[i], timeline'[j])
      <4>1. CASE j = n + 1 /\ i = n + 1
        BY <3>3, <3>5, <4>1
      <4>2. CASE j = n + 1 /\ i # n + 1
        <5>1. i \in 1..n
          BY <3>3, <4>2
        <5>. QED
          BY <3>2, <3>3, <4>2, <5>1
      <4>3. CASE j # n + 1
        <5>1. i \in 1..n /\ j \in 1..n
          BY <3>3, <3>6, <4>3
        <5>. QED
          BY <3>3, <3>6, <5>1 DEF PointsInOrder, n
      <4>. QED
        BY <4>1, <4>2, <4>3
    <3>. QED
      BY <3>3, <3>4, <3>6 DEF PointsInOrder
  <2>. QED
    BY <1>5, <2>1, <2>2, <2>3 DEF RecorderMoves, RecStep
<1>. QED
  BY <1>4, <1>5, RecorderFrame

\* Each recorder appends what it sampled last, whatever the others do.
LEMMA NextOwnPointsInOrder ==
  ASSUME IInv, PointsPast, OwnPointsInOrder, [Next]_vars
  PROVE  OwnPointsInOrder'
<1>1. /\ TypeInv /\ timeline \in Seq(Points) /\ takenBy \in Seq(Runs)
      /\ recPoint \in [Runs -> Points] /\ recPc \in [Runs -> RecPc]
  BY DEF IInv, TypeInv, TypeOK, RecTypeOK
<1>2. ASSUME UNCHANGED <<timeline, takenBy, recPoint>>,
             \A r \in Runs : Pending(r)' => Pending(r)
      PROVE  OwnPointsInOrder'
  BY <1>2 DEF OwnPointsInOrder
<1>3. CASE StartStats \/ StopStats \/ UNCHANGED <<recVars, overlap>>
  <2>1. UNCHANGED <<timeline, takenBy, recPoint>>
    BY <1>3 DEF StartStats, StopStats, StatsStart, StatsSignal, recVars
  <2>2. \A r \in Runs : Pending(r)' => Pending(r)
    BY <1>1, <1>3
    DEF StartStats, StopStats, StatsStart, StatsSignal, recVars, Pending
  <2>. QED
    BY <1>2, <2>1, <2>2
<1>4. ASSUME NEW r \in Runs, RecorderMoves(r)
      PROVE  OwnPointsInOrder'
  <2>1. \A s \in Runs : s # r => recPoint'[s] = recPoint[s] /\ (Pending(s)' => Pending(s))
    BY <1>1, <1>4, MovingRecorder DEF Pending
  <2>2. CASE RecCheck(r)
    <3>1. \A s \in Runs : Pending(s)' => Pending(s)
      BY <1>1, <2>2 DEF RecCheck, Pending
    <3>. QED
      BY <1>2, <2>2, <3>1 DEF RecCheck
  <2>3. CASE RecSample(r)
    <3>1. UNCHANGED <<timeline, takenBy>> /\ recPoint'[r] = Snapshot
      BY <1>1, <2>3 DEF RecSample
    <3>. QED
      BY <2>1, <3>1 DEF OwnPointsInOrder, PointsPast
  <2>4. CASE RecAppend(r)
    <3> DEFINE p == recPoint[r]
               n == Len(timeline)
    <3>1. Pending(r) /\ ~Pending(r)'
      BY <1>1, <2>4 DEF RecAppend, Pending
    <3>2. /\ n \in Nat /\ Len(timeline') = n + 1 /\ Len(takenBy') = n + 1
          /\ timeline'[n + 1] = p /\ takenBy'[n + 1] = r
          /\ \A i \in 1..n : timeline'[i] = timeline[i] /\ takenBy'[i] = takenBy[i]
      BY <1>1, <2>4 DEF RecAppend, OwnPointsInOrder
    <3>3. /\ p \in Points
          /\ \A i \in 1..n : takenBy[i] = r => Precedes(timeline[i], p)
      BY <1>1, <3>1 DEF OwnPointsInOrder
    <3>4. \A i, j \in 1..n :
            i <= j /\ takenBy[i] = takenBy[j] => Precedes(timeline[i], timeline[j])
      BY DEF OwnPointsInOrder
    <3>5. \A s \in Runs : s # r /\ Pending(s) =>
            \A i \in 1..n : takenBy[i] = s => Precedes(timeline[i], recPoint[s])
      BY DEF OwnPointsInOrder
    <3> HIDE DEF p, n
    <3>6. Precedes(p, p)
      BY <3>3, PrecedesIsOrder
    <3>7. \A i \in 1..(n + 1) : i = n + 1 \/ i \in 1..n
      BY <3>2
    <3>8. ASSUME NEW i \in 1..(n + 1), NEW j \in 1..(n + 1), i <= j,
                 takenBy'[i] = takenBy'[j]
          PROVE  Precedes(timeline'[i], timeline'[j])
      <4>1. CASE i = n + 1
        <5>1. j = n + 1
          BY <3>2, <3>8, <4>1
        <5>. QED
          BY <3>2, <3>6, <4>1, <5>1
      <4>2. CASE i \in 1..n /\ j = n + 1
        BY <3>2, <3>3, <3>8, <4>2
      <4>3. CASE i \in 1..n /\ j \in 1..n
        BY <3>2, <3>4, <3>8, <4>3
      <4>. QED
        BY <3>7, <4>1, <4>2, <4>3
    <3>9. ASSUME NEW s \in Runs, Pending(s)', NEW i \in 1..(n + 1),
                 takenBy'[i] = s
          PROVE  Precedes(timeline'[i], recPoint'[s])
      <4>1. s # r /\ Pending(s) /\ recPoint'[s] = recPoint[s]
        BY <2>1, <3>1, <3>9
      <4>2. i \in 1..n
        BY <3>2, <3>7, <3>9, <4>1
      <4>. QED
        BY <3>2, <3>5, <3>9, <4>1, <4>2
    <3>. QED
      BY <3>2, <3>8, <3>9 DEF OwnPointsInOrder
  <2>. QED
    BY <1>4, <2>2, <2>3, <2>4 DEF RecorderMoves, RecStep
<1>. QED
  BY <1>3, <1>4, RecorderFrame

-----------------------------------------------------------------------------
\* With every worker of the run ended or never begun, and none abandoned, none
\* steps.
LEMMA EndedIsStill ==
  ASSUME TypeInv, Lifecycle, NoneFailed, escaped = {}, NEW w \in Workers
  PROVE  ~WorkerMoves(w)
<1>1. SUFFICES ASSUME WorkerMoves(w) PROVE FALSE
  OBVIOUS
<1>2. RunOf(w) = epoch
  BY <1>1, MovingWorker
<1>3. pc[w] \in {"absent", "done"}
  BY <1>2 DEF NoneFailed, Current
<1>. QED
  BY <1>1, <1>3
  DEF WorkerMoves, WorkerStep, BeginRequest, LeaveLoop, RecordResult,
      CrashRequest, CountRequest, StartStranded

\* The part of run() after the stop of the recorder, undisturbed.
Closing == mainPc \in {"join", "shutdown"} \cup Returned /\ Undisturbed
Opening == mainPc \in {"executor", "stop_stats"} \cup InTry /\ Undisturbed

\* How run() gets there.
LEMMA Opens ==
  ASSUME IInv, [Next]_vars, Opening'
  PROVE  StartStats \/ (Opening /\ ~StopStats)
<1> USE DEF engineVars, mainVars, stopVars, Goto, Opening, Undisturbed, InTry,
            Returned, InFinally
<1>1. CASE RunCall \/ ClearStop \/ CreateExecutor
  BY <1>1 DEF RunCall, ClearStop, CreateExecutor, StopStats
<1>2. CASE SpawnWorker \/ SpawnFails \/ SpawnDone
  BY <1>2 DEF SpawnWorker, SpawnFails, SpawnDone, StopStats
<1>3. CASE AwaitFuture \/ AwaitFailure \/ AwaitDone
  BY <1>3 DEF AwaitFuture, AwaitFailure, AwaitDone, StopStats
<1>4. CASE HandleInterrupt
  BY <1>4 DEF HandleInterrupt, IInv, Awaited
<1>5. CASE StopStats \/ JoinStats \/ JoinTimesOut \/ Shutdown
  BY <1>5 DEF StopStats, JoinStats, JoinTimesOut, Shutdown
<1>6. CASE TakeSnapshot \/ WriteReports
  BY <1>6 DEF TakeSnapshot, WriteReports
<1>7. CASE Interrupt
  BY <1>7, InterruptFrame
<1>8. CASE StopCall \/ TimeUp
  BY <1>8 DEF StopCall, TimeUp, StopStats
<1>9. CASE \E w \in Workers : WorkerMoves(w)
  BY <1>9 DEF WorkerMoves, StopStats
<1>10. CASE \E r \in Runs : RecorderMoves(r)
  BY <1>10 DEF RecorderMoves, StopStats
<1>11. CASE UNCHANGED vars
  BY <1>11 DEF vars, StopStats
<1>. QED
  BY <1>1, <1>2, <1>3, <1>4, <1>5, <1>6, <1>7, <1>8, <1>9, <1>10, <1>11
  DEF Next, MainStep, Finished

LEMMA Closes ==
  ASSUME IInv, [Next]_vars, Closing'
  PROVE  \/ StopStats /\ Opening
         \/ Closing /\ ~StartStats /\ ~StopStats
<1> USE DEF engineVars, mainVars, stopVars, Goto, Opening, Closing, Undisturbed,
            InTry, Returned, InFinally
<1>1. CASE RunCall \/ ClearStop \/ CreateExecutor
  BY <1>1 DEF RunCall, ClearStop, CreateExecutor
<1>2. CASE SpawnWorker \/ SpawnFails \/ SpawnDone
  BY <1>2 DEF SpawnWorker, SpawnFails, SpawnDone
<1>3. CASE AwaitFuture \/ AwaitFailure \/ AwaitDone \/ HandleInterrupt
  BY <1>3 DEF AwaitFuture, AwaitFailure, AwaitDone, HandleInterrupt
<1>4. CASE StopStats \/ JoinStats \/ JoinTimesOut \/ Shutdown \/ StartStats
  BY <1>4 DEF StopStats, JoinStats, JoinTimesOut, Shutdown, StartStats
<1>5. CASE TakeSnapshot \/ WriteReports
  BY <1>5 DEF TakeSnapshot, WriteReports, StartStats, StopStats
<1>6. CASE Interrupt
  BY <1>6, InterruptFrame
<1>7. CASE StopCall \/ TimeUp
  BY <1>7 DEF StopCall, TimeUp, StartStats, StopStats
<1>8. CASE \E w \in Workers : WorkerMoves(w)
  BY <1>8 DEF WorkerMoves, StartStats, StopStats
<1>9. CASE \E r \in Runs : RecorderMoves(r)
  BY <1>9 DEF RecorderMoves, StartStats, StopStats
<1>10. CASE UNCHANGED vars
  BY <1>10 DEF vars, StartStats, StopStats
<1>. QED
  BY <1>1, <1>2, <1>3, <1>4, <1>5, <1>6, <1>7, <1>8, <1>9, <1>10
  DEF Next, MainStep, Finished

\* Nothing is recorded any more while run() closes.
LEMMA ClosingIsStill ==
  ASSUME IInv, [Next]_vars, Closing, Closing'
  PROVE  Snapshot' = Snapshot /\ epoch' = epoch
<1>1. TypeInv /\ Lifecycle /\ NoneFailed /\ escaped = {}
  BY DEF IInv, Awaited, Closing, Undisturbed, InFinally, Returned
<1>2. \A w \in Workers : ~WorkerMoves(w)
  BY <1>1, EndedIsStill
<1>3. ~RunCall
  BY DEF RunCall, Closing, Returned
<1>4. UNCHANGED <<results, epoch>>
  <2>1. CASE Spawns \/ Bystander
    BY <1>1, <2>1, SpawnFrame, BystanderFrame
  <2>2. CASE CreateExecutor \/ Shutdown
    BY <2>2 DEF CreateExecutor, Shutdown, engineVars
  <2>3. ~Interrupt
    BY InterruptFrame DEF Closing, Undisturbed
  <2>. QED
    BY <1>2, <1>3, <2>1, <2>2, <2>3, StepKinds
<1>. QED
  BY <1>4 DEF Snapshot

LEMMA NextFinalPoint ==
  ASSUME IInv, OneRecorder, FinalPoint, [Next]_vars
  PROVE  FinalPoint'
<1>1. /\ TypeInv /\ timeline \in Seq(Points)
      /\ recPoint \in [Runs -> Points] /\ recPc \in [Runs -> RecPc]
  BY DEF IInv, TypeInv, TypeOK, RecTypeOK
<1>2. mainPc \in Started => epoch \in Runs
  BY <1>1 DEF TypeInv, Numbered, Started
<1>3. ASSUME Opening'
      PROVE  ~recStop' /\ recPc'[epoch'] \in {"check", "sample", "append"}
  <2>1. CASE StartStats
    <3>1. epoch \in Runs
      BY <1>1, <2>1 DEF StartStats, Goto, TypeInv, Numbered
    <3>. QED
      BY <1>1, <2>1, <3>1 DEF StartStats, StatsStart, engineVars
  <2>2. ASSUME ~StartStats, Opening, ~StopStats
        PROVE  ~recStop' /\ recPc'[epoch'] \in {"check", "sample", "append"}
    <3>1. mainPc \in Started /\ mainPc' \in Started
      BY <1>3, <2>2
      DEF Opening, Started, MainPc, InRun, BeforeTry, InTry, InFinally
    <3>2. epoch' = epoch /\ epoch \in Runs
      BY <1>2, <2>2, <3>1, StaysStarted
    <3>3. ~recStop /\ recPc[epoch] \in {"check", "sample", "append"}
      BY <2>2 DEF FinalPoint, Opening
    <3>4. ASSUME NEW r \in Runs, RecorderMoves(r)
          PROVE  ~recStop' /\ recPc'[epoch] \in {"check", "sample", "append"}
      <4>1. r = epoch /\ recStop' = recStop
        BY <1>1, <3>1, <3>4, MovingRecorder DEF OneRecorder
      <4>. QED
        BY <1>1, <3>3, <3>4, <4>1
        DEF RecorderMoves, RecStep, RecCheck, RecSample, RecAppend
    <3>. QED
      BY <2>2, <3>2, <3>3, <3>4, RecorderFrame DEF recVars
  <2>. QED
    BY <1>3, <2>1, <2>2, Opens
<1>4. ASSUME Closing'
      PROVE  /\ recPc'[epoch'] # "none"
             /\ recPc'[epoch'] = "lastAppend" => recPoint'[epoch'] = Snapshot'
             /\ recPc'[epoch'] = "done" =>
                  /\ timeline' # <<>>
                  /\ timeline'[Len(timeline')] = Snapshot'
  <2>1. CASE StopStats /\ Opening
    <3>1. recPc[epoch] \in {"check", "sample", "append"}
      BY <2>1 DEF FinalPoint, Opening
    <3>2. recPc' = recPc /\ epoch' = epoch
      BY <2>1 DEF StopStats, StatsSignal, engineVars
    <3>. QED
      BY <3>1, <3>2
  <2>2. ASSUME Closing, ~StartStats, ~StopStats
        PROVE  /\ recPc'[epoch'] # "none"
               /\ recPc'[epoch'] = "lastAppend" => recPoint'[epoch'] = Snapshot'
               /\ recPc'[epoch'] = "done" =>
                    /\ timeline' # <<>>
                    /\ timeline'[Len(timeline')] = Snapshot'
    <3>1. mainPc \in Started /\ epoch \in Runs
      BY <1>2, <2>2
      DEF Closing, Started, MainPc, InRun, InFinally, Over, Returned
    <3>2. Snapshot' = Snapshot /\ epoch' = epoch
      BY <1>4, <2>2, ClosingIsStill
    <3>3. /\ recPc[epoch] # "none"
          /\ recPc[epoch] = "lastAppend" => recPoint[epoch] = Snapshot
          /\ recPc[epoch] = "done" => /\ timeline # <<>>
                                     /\ timeline[Len(timeline)] = Snapshot
      BY <2>2 DEF FinalPoint, Closing
    <3>4. CASE UNCHANGED <<recVars, overlap>>
      BY <3>2, <3>3, <3>4 DEF recVars
    <3>5. ASSUME NEW r \in Runs, RecorderMoves(r)
          PROVE  /\ recPc'[epoch] # "none"
                 /\ recPc'[epoch] = "lastAppend" => recPoint'[epoch] = Snapshot
                 /\ recPc'[epoch] = "done" =>
                      /\ timeline' # <<>>
                      /\ timeline'[Len(timeline')] = Snapshot
      <4>1. r = epoch
        BY <1>1, <3>1, <3>5, MovingRecorder DEF OneRecorder
      <4>2. CASE RecCheck(r)
        BY <1>1, <4>1, <4>2 DEF RecCheck
      <4>3. CASE RecSample(r)
        BY <1>1, <4>1, <4>3 DEF RecSample
      <4>4. CASE RecAppend(r)
        <5>1. recPc'[epoch] = IF recPc[epoch] = "append" THEN "check" ELSE "done"
          BY <1>1, <4>1, <4>4 DEF RecAppend
        <5>2. CASE recPc[epoch] = "append"
          BY <5>1, <5>2
        <5>3. CASE recPc[epoch] = "lastAppend"
          <6>1. Snapshot \in Points
            BY SnapshotGrows
          <6>2. timeline' = Append(timeline, Snapshot)
            BY <3>3, <4>1, <4>4, <5>3 DEF RecAppend
          <6>3. timeline' # <<>> /\ timeline'[Len(timeline')] = Snapshot
            BY <1>1, <6>1, <6>2
          <6>. QED
            BY <5>1, <5>3, <6>3
        <5>. QED
          BY <4>1, <4>4, <5>2, <5>3 DEF RecAppend
      <4>. QED
        BY <3>5, <4>2, <4>3, <4>4 DEF RecorderMoves, RecStep
    <3>. QED
      BY <2>2, <3>2, <3>4, <3>5, RecorderFrame
  <2>. QED
    BY <1>4, <2>1, <2>2, Closes
<1>. QED
  BY <1>3, <1>4 DEF FinalPoint, Opening, Closing, Undisturbed, InTry, Returned

-----------------------------------------------------------------------------
LEMMA TimelineInvariantHolds == Spec => []WholeInv
<1>1. Init => PointsPast /\ Recorders /\ OwnPointsInOrder /\ TimelineInv
  <2> SUFFICES ASSUME Init
               PROVE  PointsPast /\ Recorders /\ OwnPointsInOrder /\ TimelineInv
    OBVIOUS
  <2>1. \A r \in Runs : recPc[r] = "none"
    BY DEF Init, RecInit
  <2>2. /\ mainPc = "idle" /\ timeline = <<>> /\ Len(timeline) = 0
        /\ Len(takenBy) = 0
    BY DEF Init, RecInit
  <2>3. OneRecorder
    BY <2>1, <2>2 DEF OneRecorder, Alive, Started
  <2>4. PointsInOrder
    BY <2>1, <2>2 DEF PointsInOrder, Pending
  <2>5. PointsPast
    BY <2>1, <2>2 DEF PointsPast, Pending
  <2>6. FinalPoint
    BY <2>2 DEF FinalPoint, InTry, Returned
  <2>7. Recorders
    BY <2>1 DEF Init, Recorders
  <2>8. OwnPointsInOrder
    BY <2>1, <2>2 DEF OwnPointsInOrder, Pending
  <2>. QED
    BY <2>3, <2>4, <2>5, <2>6, <2>7, <2>8 DEF TimelineInv
<1>2. /\ IInv /\ PointsPast /\ [Next]_vars => PointsPast'
      /\ IInv /\ Recorders /\ [Next]_vars => Recorders'
      /\ IInv /\ PointsPast /\ OwnPointsInOrder /\ [Next]_vars => OwnPointsInOrder'
  BY NextPointsPast, NextRecorders, NextOwnPointsInOrder DEF IInv
<1>3. IInv /\ PointsPast /\ TimelineInv /\ [Next]_vars => TimelineInv'
  <2> SUFFICES ASSUME IInv, PointsPast, TimelineInv, [Next]_vars, ~overlap'
               PROVE  OneRecorder' /\ PointsInOrder' /\ FinalPoint'
    BY DEF TimelineInv
  <2>1. ~overlap
    BY RecorderFrame, MovingRecorder
    DEF StartStats, StopStats, RecorderMoves
  <2>. QED
    BY <2>1, NextOneRecorder, NextPointsInOrder, NextFinalPoint
    DEF TimelineInv, IInv
<1>. QED
  BY InvariantHolds, <1>1, <1>2, <1>3, PTL DEF Spec, WholeInv

\* The points of one recorder are in order however many recorders live beside
\* it; all points of the timeline are, as long as none was ever started beside a
\* living one (statistics.py:28-31, 44-48).
THEOREM TimelineOrdered == Spec => []TimelineInOrder
<1>1. WholeInv => TimelineInOrder
  <2> SUFFICES ASSUME WholeInv, NEW i \in 1..Len(timeline),
                      NEW j \in i..Len(timeline),
                      takenBy[i] = takenBy[j] \/ ~overlap
               PROVE  Precedes(timeline[i], timeline[j])
    BY DEF TimelineInOrder
  <2>1. Len(timeline) \in Nat
    BY DEF WholeInv, IInv, TypeInv, TypeOK, RecTypeOK
  <2>2. j \in 1..Len(timeline) /\ i <= j
    BY <2>1
  <2>3. CASE takenBy[i] = takenBy[j]
    BY <2>2, <2>3 DEF WholeInv, OwnPointsInOrder
  <2>4. CASE ~overlap
    BY <2>2, <2>4 DEF WholeInv, TimelineInv, PointsInOrder
  <2>. QED
    BY <2>3, <2>4
<1>. QED
  BY TimelineInvariantHolds, <1>1, PTL

\* On a scheduler that is run once, as cmd_loadtest does, no recorder is ever
\* started beside another: its timeline is in order without a condition.
THEOREM FirstRunOrderly ==
  Spec => [](epoch <= 1 =>
               /\ ~overlap
               /\ \A i \in 1..Len(timeline) : \A j \in i..Len(timeline) :
                    Precedes(timeline[i], timeline[j]))
<1>1. TypeOK /\ Recorders /\ epoch <= 1 => ~overlap
  BY EngineAssumption DEF Recorders, TypeOK, EngineTypeOK
<1>2. WholeInv /\ TimelineInOrder =>
        (epoch <= 1 =>
           /\ ~overlap
           /\ \A i \in 1..Len(timeline) : \A j \in i..Len(timeline) :
                Precedes(timeline[i], timeline[j]))
  BY <1>1 DEF WholeInv, IInv, TypeInv, TimelineInOrder
<1>. QED
  BY TimelineInvariantHolds, TimelineOrdered, <1>2, PTL

\* The last point of an undisturbed run covers all of its results
\* (statistics.py:42).
THEOREM LastPointComplete == Spec => []FinalPointFaithful
<1>1. WholeInv => FinalPointFaithful
  BY DEF WholeInv, IInv, Awaited, TimelineInv, FinalPoint, Undisturbed,
         FinalPointFaithful
<1>. QED
  BY TimelineInvariantHolds, <1>1, PTL

\* What the workers of a run that returned have sent is what they recorded,
\* and unless a Ctrl-C left workers behind nobody recorded anything else.
LEMMA SentAndRecorded ==
  ASSUME IInv, mainPc \in Returned
  PROVE  /\ IsFiniteSet(Workers) /\ \A w \in Workers : sent[w] \in Nat
         /\ Current \in SUBSET Workers /\ epoch \in Runs
         /\ escaped = {} =>
              TotalSent = SumOver(results, Workers) + SumOver(sent, Workers \ Current)
<1>1. IsFiniteSet(Workers)
  <2>1. IsFiniteSet(1..MaxRuns) /\ IsFiniteSet(1..MaxUsers)
    BY EngineAssumption, FS_Interval
  <2>. QED
    BY <2>1, FS_Product DEF Workers, Runs
<1>2. /\ Current \in SUBSET Workers /\ IsFiniteSet(Current)
      /\ IsFiniteSet(Workers \ Current)
  BY <1>1, FS_Subset DEF Current
<1>3. \A w \in Workers : sent[w] \in Nat /\ results[w] \in Nat
  BY DEF IInv, TypeInv, TypeOK, WorkerTypeOK, EngineTypeOK, Counts
<1>4. epoch \in Runs
  BY DEF Returned, IInv, TypeInv, Numbered
<1>5. ASSUME escaped = {}
      PROVE  TotalSent = SumOver(results, Workers) + SumOver(sent, Workers \ Current)
  <2>1. \A w \in Current : results[w] = sent[w]
    <3>1. Drained(epoch)
      BY <1>4, <1>5 DEF IInv, Lifecycle, Over
    <3>2. \A w \in Current : pc[w] # "count"
      BY <3>1 DEF Drained, Current
    <3>. QED
      BY <3>2 DEF IInv, SentMatchesRecorded
  <2>2. SumOver(sent, Current) = SumOver(results, Current)
    BY <1>2, <1>3, <2>1, SumEqual
  <2>3. /\ SumOver(sent, Workers)
             = SumOver(sent, Current) + SumOver(sent, Workers \ Current)
        /\ SumOver(results, Workers)
             = SumOver(results, Current) + SumOver(results, Workers \ Current)
    BY <1>1, <1>2, <1>3, SumSplit
  <2>4. SumOver(results, Workers \ Current) = 0
    <3>1. \A w \in Workers \ Current : results[w] = 0
      BY <1>5 DEF IInv, OwnResults
    <3>. QED
      BY <1>2, <3>1, SumOfZeros
  <2>5. /\ SumOver(results, Current) \in Nat
        /\ SumOver(sent, Workers \ Current) \in Nat
    BY <1>2, <1>3, SumRecursion
  <2>. QED
    BY <2>2, <2>3, <2>4, <2>5 DEF TotalSent
<1>. QED
  BY <1>1, <1>2, <1>3, <1>4, <1>5

\* The total the first run of a scheduler logs is that of its results; a later
\* one adds all that its predecessors sent (scheduler.py:86-87), which is more
\* unless they sent nothing.
THEOREM LoggedTotal ==
  Spec => [](/\ epoch = 1 => LoggedTotalAgrees
             /\ mainPc \in Returned /\ escaped = {} =>
                  TotalSent = SumOver(results, Workers)
                                + SumOver(sent, Workers \ Current))
<1>1. IInv /\ epoch = 1 => LoggedTotalAgrees
  <2> SUFFICES ASSUME IInv, epoch = 1, mainPc \in Returned
               PROVE  TotalSent = SumOver(results, Workers)
    BY DEF LoggedTotalAgrees
  <2>1. escaped = {}
    <3>1. \A r \in Runs : r \notin escaped
      BY DEF IInv, Lifecycle, Returned, Runs
    <3>. QED
      BY <3>1 DEF IInv, TypeInv, TypeOK, HistoryTypeOK
  <2>2. \A w \in Workers \ Current : sent[w] = 0
    <3>1. \A w \in Workers \ Current : RunOf(w) > epoch
      BY DEF Current, Workers, Runs, RunOf
    <3>. QED
      BY <3>1 DEF IInv, Lifecycle, Unborn
  <2>3. IsFiniteSet(Workers \ Current)
    BY SentAndRecorded, FS_Subset
  <2>4. SumOver(sent, Workers \ Current) = 0
    BY <2>2, <2>3, SumOfZeros
  <2>5. SumOver(results, Workers) \in Nat
    <3>1. \A w \in Workers : results[w] \in Nat
      BY DEF IInv, TypeInv, TypeOK, EngineTypeOK, Counts
    <3>. QED
      BY <3>1, SentAndRecorded, SumRecursion
  <2>. QED
    BY <2>1, <2>4, <2>5, SentAndRecorded
<1>2. IInv => (mainPc \in Returned /\ escaped = {} =>
                 TotalSent = SumOver(results, Workers)
                               + SumOver(sent, Workers \ Current))
  BY SentAndRecorded
<1>. QED
  BY InvariantHolds, <1>1, <1>2, PTL

-----------------------------------------------------------------------------
\* The contract of run().

LEMMA SampledSoFar ==
  ASSUME IInv, PointsPast
  PROVE  /\ Sampled \in Counts
         /\ \A w \in Workers : Sampled[w] <= results[w]
<1>1. /\ timeline \in Seq(Points) /\ epoch \in Nat
      /\ \A w \in Workers : results[w] \in Nat
  BY EpochNat DEF IInv, TypeInv, TypeOK, RecTypeOK, EngineTypeOK, Counts
<1>2. CASE Len(timeline) > 0 /\ timeline[Len(timeline)].epoch = epoch
  <2> DEFINE p == timeline[Len(timeline)]
  <2>1. p \in Points /\ Precedes(p, Snapshot) /\ Sampled = p.counts
    BY <1>1, <1>2 DEF PointsPast, Sampled
  <2>. QED
    BY <1>1, <1>2, <2>1 DEF Points, Precedes, Snapshot
<1>3. CASE ~(Len(timeline) > 0 /\ timeline[Len(timeline)].epoch = epoch)
  <2>1. Sampled = NoResults
    BY <1>3 DEF Sampled
  <2>. QED
    BY <1>1, <2>1, NothingYet DEF NoResults
<1>. QED
  BY <1>2, <1>3

\* A point that is appended covers no more than there is, and as long as the
\* recorders kept apart no less than the one before it.
LEMMA AppendSamples ==
  ASSUME WholeInv, NEW r \in Runs, RecAppend(r), UNCHANGED <<engineVars, overlap>>
  PROVE  /\ Sampled' \in Counts
         /\ \A w \in Workers : /\ Sampled'[w] <= results[w]
                               /\ ~overlap => Sampled[w] <= Sampled'[w]
<1> DEFINE n == Len(timeline)
           p == recPoint[r]
<1>1. /\ timeline \in Seq(Points) /\ epoch \in Nat /\ n \in Nat /\ p \in Points
      /\ results \in Counts /\ UNCHANGED <<results, epoch>>
  BY EpochNat
  DEF WholeInv, IInv, TypeInv, TypeOK, RecTypeOK, EngineTypeOK, engineVars
<1>2. Pending(r) /\ Precedes(p, Snapshot)
  BY DEF RecAppend, Pending, WholeInv, PointsPast
<1>3. Len(timeline') = n + 1 /\ timeline'[n + 1] = p
  BY <1>1 DEF RecAppend
<1>4. Sampled' = IF p.epoch = epoch THEN p.counts ELSE NoResults
  BY <1>1, <1>3 DEF Sampled
<1>5. p.epoch \in Nat /\ p.counts \in Counts
  BY <1>1, EngineAssumption DEF Points, Runs
<1>6. Sampled' \in Counts /\ \A w \in Workers : Sampled'[w] <= results[w]
  BY <1>1, <1>2, <1>4, <1>5, NothingYet DEF Precedes, Snapshot, NoResults, Counts
<1>7. ASSUME ~overlap, NEW w \in Workers
      PROVE  Sampled[w] <= Sampled'[w]
  <2>1. CASE n > 0 /\ timeline[n].epoch = epoch
    <3>1. /\ Precedes(timeline[n], p) /\ Sampled = timeline[n].counts
          /\ n \in 1..n /\ timeline[n] \in Points
      BY <1>1, <1>2, <1>7, <2>1 DEF WholeInv, TimelineInv, PointsInOrder, Sampled
    <3>2. p.epoch = epoch
      BY <1>1, <1>2, <1>5, <2>1, <3>1 DEF Precedes, Snapshot
    <3>. QED
      BY <1>1, <1>4, <2>1, <3>1, <3>2 DEF Precedes
  <2>2. CASE ~(n > 0 /\ timeline[n].epoch = epoch)
    BY <1>6, <2>2 DEF Sampled, NoResults, Counts
  <2>. QED
    BY <2>1, <2>2
<1>. QED
  BY <1>6, <1>7

\* run(), with all its threads, implements the contract of its callers.
THEOREM RunKeepsContract == Spec => ContractKept
<1>1. Init => Contract!Init
  <2>1. Init => Sampled = NoResults
    BY DEF Init, RecInit, Sampled
  <2>. QED
    BY <2>1 DEF Init, EngineInit, NoResults, Over, Contract!Init, Contract!Nothing
<1>2. WholeInv /\ [Next]_vars => [Contract!Next]_(Contract!vars)
  <2> SUFFICES ASSUME WholeInv, [Next]_vars
               PROVE  [Contract!Next]_(Contract!vars)
    OBVIOUS
  <2> USE DEF Contract!Next, Contract!vars
  <2>1. IInv /\ TypeInv /\ Lifecycle /\ epoch \in Nat
    BY EpochNat DEF WholeInv, IInv
  <2>2. UNCHANGED <<recVars, overlap, epoch>> => UNCHANGED <<Sampled, overlap>>
    BY DEF Sampled, recVars
  <2>3. CASE RunCall
    <3>1. /\ mainPc \in Over /\ mainPc' \notin Over /\ results' = NoResults
          /\ epoch' = epoch + 1 /\ UNCHANGED <<timeline, overlap>>
      BY <2>3 DEF RunCall, Reset, Over, Returned, recVars
    <3>2. Sampled' = NoResults
      <4>1. /\ timeline \in Seq(Points)
            /\ \A i \in 1..Len(timeline) : Precedes(timeline[i], Snapshot)
        BY DEF WholeInv, PointsPast, IInv, TypeInv, TypeOK, RecTypeOK
      <4>2. Len(timeline) > 0 => timeline[Len(timeline)].epoch # epoch + 1
        <5>1. CASE Len(timeline) > 0
          <6>1. /\ timeline[Len(timeline)] \in Points
                /\ Precedes(timeline[Len(timeline)], Snapshot)
            BY <4>1, <5>1
          <6>2. \A p \in Points : p.epoch \in Nat
            BY EngineAssumption DEF Points, Runs
          <6>. QED
            BY <2>1, <6>1, <6>2 DEF Precedes, Snapshot
        <5>. QED
          BY <5>1
      <4>. QED
        BY <3>1, <4>2 DEF Sampled
    <3>. QED
      BY <2>3, <3>1, <3>2
      DEF RunCall, Contract!Begin, Contract!Nothing, NoResults
  <2>4. CASE Spawns
    <3>1. UNCHANGED <<recVars, overlap>>
      BY <2>4 DEF Spawns, SpawnWorker, SpawnFails
    <3>2. /\ mainPc \notin Over /\ mainPc' \notin Over
          /\ UNCHANGED <<results, epoch, escaped>>
      BY <2>1, <2>4, SpawnFrame DEF Over, Returned
    <3>. QED
      BY <2>2, <3>1, <3>2
  <2>5. CASE CreateExecutor \/ Shutdown
    <3>1. /\ mainPc \notin Over
          /\ UNCHANGED <<results, epoch, escaped, recVars, overlap>>
      BY <2>5 DEF CreateExecutor, Shutdown, engineVars, Over, Returned
    <3>. QED
      BY <2>2, <3>1 DEF Contract!End
  <2>6. CASE Bystander
    <3>1. /\ UNCHANGED <<results, epoch, escaped>>
          /\ mainPc' \in Over => mainPc \in Over
      BY <2>6, BystanderFrame
    <3>2. mainPc \in Over => mainPc' \in Over
      BY <2>6
      DEF Bystander, ClearStop, StartStats, SpawnDone, AwaitFuture,
          AwaitFailure, AwaitDone, HandleInterrupt, StopStats, JoinStats,
          JoinTimesOut, TakeSnapshot, WriteReports, StopCall, TimeUp,
          RecorderMoves, Goto, mainVars, vars, Over, Returned
    <3>3. CASE UNCHANGED <<recVars, overlap>>
      BY <2>2, <3>1, <3>2, <3>3
    <3>4. CASE StartStats \/ StopStats
      <4>1. UNCHANGED timeline /\ (overlap => overlap')
        <5>1. CASE StartStats
          BY <5>1, Zenon DEF StartStats, StatsStart
        <5>2. CASE StopStats
          BY <5>2 DEF StopStats, StatsSignal
        <5>. QED
          BY <3>4, <5>1, <5>2
      <4>2. UNCHANGED Sampled
        BY <3>1, <4>1 DEF Sampled
      <4>3. overlap \in BOOLEAN /\ overlap' \in BOOLEAN
        BY <2>1, NextTypes DEF TypeInv, TypeOK, HistoryTypeOK
      <4>. QED
        BY <3>1, <3>2, <4>1, <4>2, <4>3 DEF Contract!Disturb
    <3>5. ASSUME NEW r \in Runs, RecorderMoves(r)
          PROVE  [Contract!Next]_(Contract!vars)
      <4>1. UNCHANGED <<engineVars, overlap>>
        BY <3>5 DEF RecorderMoves, RecStep
      <4>2. CASE RecAppend(r)
        BY <3>1, <3>2, <4>1, <4>2, AppendSamples DEF Contract!Sample, Counts
      <4>3. CASE ~RecAppend(r)
        <5>1. UNCHANGED timeline
          BY <3>5, <4>3 DEF RecorderMoves, RecStep, RecCheck, RecSample
        <5>2. UNCHANGED Sampled
          BY <3>1, <5>1 DEF Sampled
        <5>. QED
          BY <3>1, <3>2, <4>1, <5>2
      <4>. QED
        BY <4>2, <4>3
    <3>. QED
      BY <3>3, <3>4, <3>5, RecorderFrame
  <2>7. ASSUME NEW w \in Workers, WorkerMoves(w)
        PROVE  [Contract!Next]_(Contract!vars)
    <3>1. /\ mainPc \notin Over \/ RunOf(w) \in escaped
          /\ mainPc' = mainPc /\ UNCHANGED <<Sampled, overlap, escaped>>
      BY <2>1, <2>2, <2>7, MovingWorker DEF WorkerMoves
    <3>2. CASE RecordResult(w)
      BY <3>1, <3>2 DEF RecordResult, Record, Contract!Gather
    <3>3. CASE ~RecordResult(w)
      BY <2>7, <3>1, <3>3
      DEF WorkerMoves, WorkerStep, BeginRequest, LeaveLoop, CrashRequest,
          CountRequest, StartStranded, engineVars
    <3>. QED
      BY <3>2, <3>3
  <2>8. CASE Interrupt
    <3>1. /\ UNCHANGED <<results, epoch, Sampled, overlap>> /\ mainPc \notin Over
          /\ \/ escaped' = escaped
             \/ escaped' = escaped \cup {epoch} /\ mainPc' = "raised"
      BY <2>2, <2>8, InterruptFrame
    <3>2. {w \in Workers : RunOf(w) \in escaped}
            \subseteq {w \in Workers : RunOf(w) \in escaped'}
      BY <3>1
    <3>3. CASE mainPc' \in Over
      BY <3>1, <3>2, <3>3 DEF Contract!Abandon
    <3>4. CASE mainPc' \notin Over
      BY <3>1, <3>4 DEF Over
    <3>. QED
      BY <3>3, <3>4
  <2>. QED
    BY <2>3, <2>4, <2>5, <2>6, <2>7, <2>8, StepKinds
<1>. QED
  BY TimelineInvariantHolds, <1>1, <1>2, PTL DEF Spec, ContractKept, Contract!Spec
=============================================================================
