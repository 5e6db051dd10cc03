--------------------------- MODULE LoadTestTypes ----------------------------
(***************************************************************************)
(* Proof that LoadTestScheduler keeps to its types, for every number of    *)
(* runs, users, requests, points and interrupts.                           *)
(***************************************************************************)
EXTENDS LoadTestInvariant, TLAPS

LEMMA NothingYet == NoResults \in Counts /\ NoPoint \in Points
  BY DEF NoResults, Counts, NoPoint, Points

LEMMA InitTypes == Init => TypeInv
<1> SUFFICES ASSUME Init PROVE TypeInv
  OBVIOUS
<1>1. EngineTypeOK
  BY EngineAssumption, NothingYet DEF Init, EngineInit, EngineTypeOK
<1>2. WorkerTypeOK
  <2>1. 0 \in 0..MaxRuns
    BY EngineAssumption
  <2> QED
    BY <2>1 DEF Init, WorkerInit, WorkerTypeOK, WorkerPc, Counts
<1>3. RecTypeOK
  <2>1. recStop \in BOOLEAN /\ recPc \in [Runs -> RecPc]
    BY DEF Init, RecInit, RecPc
  <2>2. /\ recPoint \in [Runs -> Points] /\ timeline \in Seq(Points)
        /\ takenBy \in Seq(Runs)
    BY NothingYet DEF Init, RecInit
  <2> QED
    BY <2>1, <2>2 DEF RecTypeOK
<1>4. MainTypeOK
  <2>1. report \in [metrics : Counts, raw : Counts]
    BY NothingYet DEF Init
  <2>2. mainPc \in MainPc /\ raising \in BOOLEAN /\ interrupted \in BOOLEAN
    BY DEF Init, MainPc, Over
  <2>3. /\ awaiting \in Nat \ {0}
        /\ users \in 0..MaxUsers /\ spawned \in 0..users
        /\ interrupts \in 0..MaxInterrupts
    BY EngineAssumption, SchedulerAssumption DEF Init
  <2>4. futures \in Seq(Workers)
    BY DEF Init
  <2> QED
    BY <2>1, <2>2, <2>3, <2>4 DEF MainTypeOK
<1>5. HistoryTypeOK /\ Numbered
  BY NothingYet DEF Init, HistoryTypeOK, Numbered
<1> QED
  BY <1>1, <1>2, <1>3, <1>4, <1>5 DEF TypeInv, TypeOK

\* The parts of the type invariant whose variables a step leaves alone.
LEMMA Untouched ==
  /\ EngineTypeOK /\ UNCHANGED engineVars => EngineTypeOK'
  /\ WorkerTypeOK /\ UNCHANGED <<workerVars, stopEvent, timeUp>>
       => WorkerTypeOK'
  /\ RecTypeOK /\ UNCHANGED recVars => RecTypeOK'
  /\ MainTypeOK /\ UNCHANGED mainVars => MainTypeOK'
  /\ HistoryTypeOK /\ UNCHANGED <<overlap, escaped, stopMark, requested>>
       => HistoryTypeOK'
  /\ Numbered /\ UNCHANGED <<mainPc, epoch>> => Numbered'
  BY DEF EngineTypeOK, engineVars, WorkerTypeOK, workerVars, RecTypeOK,
         recVars, MainTypeOK, mainVars, HistoryTypeOK, Numbered

LEMMA MainTypes ==
  ASSUME TypeInv, RunCall \/ MainStep
  PROVE  TypeInv'
<1> USE DEF TypeInv, TypeOK
<1>1. CASE RunCall
  <2>1. EngineTypeOK' /\ Numbered'
    BY <1>1, NothingYet, EngineAssumption
    DEF RunCall, Reset, Runs, EngineTypeOK, Numbered
  <2>2. MainTypeOK'
    <3>1. /\ mainPc' \in MainPc /\ raising' \in BOOLEAN
          /\ interrupted' \in BOOLEAN
          /\ UNCHANGED <<futures, interrupts, report>>
      BY <1>1 DEF RunCall, MainPc, InRun, BeforeTry
    <3>2. /\ users' \in 0..MaxUsers /\ spawned' \in 0..users'
          /\ awaiting' \in Nat \ {0}
      BY <1>1, EngineAssumption DEF RunCall
    <3> QED
      BY <3>1, <3>2 DEF MainTypeOK
  <2>3. WorkerTypeOK' /\ RecTypeOK' /\ HistoryTypeOK'
    BY <1>1, Untouched
    DEF RunCall, WorkerTypeOK, workerVars, HistoryTypeOK
  <2> QED
    BY <2>1, <2>2, <2>3
<1>2. CASE ClearStop
  BY <1>2, NothingYet, Untouched
  DEF ClearStop, Goto, WorkerTypeOK, workerVars, MainTypeOK, HistoryTypeOK,
      MainPc, InRun, BeforeTry, Numbered, engineVars
<1>3. CASE StartStats
  <2>1. RecTypeOK'
    BY <1>3 DEF StartStats, StatsStart, RecTypeOK, RecPc
  <2> QED
    BY <1>3, <2>1, Untouched
    DEF StartStats, Goto, WorkerTypeOK, workerVars, stopVars, MainTypeOK,
        HistoryTypeOK, MainPc, InRun, BeforeTry, Numbered, engineVars
<1>4. CASE CreateExecutor
  BY <1>4, Untouched
  DEF CreateExecutor, WorkerTypeOK, workerVars, stopVars, MainTypeOK,
      HistoryTypeOK, MainPc, InRun, InTry, Over, Numbered, engineVars
<1>5. CASE SpawnWorker
  <2>1. <<epoch, spawned + 1>> \in Workers /\ spawned + 1 \in 0..users
    BY <1>5, EngineAssumption DEF SpawnWorker, Workers, Numbered, MainTypeOK
  <2>2. WorkerTypeOK'
    BY <1>5 DEF SpawnWorker, WorkerTypeOK, WorkerPc, Active, stopVars
  <2>3. MainTypeOK'
    BY <1>5, <2>1 DEF SpawnWorker, MainTypeOK
  <2> QED
    BY <1>5, <2>2, <2>3, Untouched
    DEF SpawnWorker, stopVars, Numbered, engineVars
<1>6. CASE SpawnFails
  <2>1. spawned + 1 \in 0..users
    BY <1>6, EngineAssumption DEF SpawnFails, MainTypeOK
  <2>2. WorkerTypeOK'
    BY <1>6 DEF SpawnFails, WorkerTypeOK, WorkerPc, stopVars
  <2>3. MainTypeOK'
    BY <1>6, <2>1
    DEF SpawnFails, Goto, MainTypeOK, MainPc, InRun, InFinally
  <2> QED
    BY <1>6, <2>2, <2>3, Untouched
    DEF SpawnFails, Goto, stopVars, Numbered, engineVars
<1>7. CASE SpawnDone \/ AwaitFuture \/ AwaitFailure \/ AwaitDone
  <2>1. mainPc' \in MainPc /\ mainPc # "idle"
    BY <1>7 DEF SpawnDone, AwaitFuture, AwaitFailure, AwaitDone, Goto,
                MainTypeOK, MainPc, InRun, InTry, InFinally
  <2>2. awaiting' \in Nat \ {0}
    BY <1>7 DEF SpawnDone, AwaitFuture, AwaitFailure, AwaitDone, MainTypeOK
  <2>3. raising' \in BOOLEAN
    BY <1>7 DEF SpawnDone, AwaitFuture, AwaitFailure, AwaitDone, MainTypeOK
  <2>4. UNCHANGED <<engineVars, workerVars, recVars, users, spawned, futures,
                    interrupts, interrupted, report, stopVars, timeUp,
                    overlap, escaped>>
    BY <1>7 DEF SpawnDone, AwaitFuture, AwaitFailure, AwaitDone
  <2> QED
    BY <2>1, <2>2, <2>3, <2>4, Untouched
    DEF MainTypeOK, stopVars, Numbered, engineVars
<1>8. CASE HandleInterrupt
  BY <1>8, Untouched
  DEF HandleInterrupt, SetStop, Goto, EngineTypeOK, WorkerTypeOK, workerVars,
      MainTypeOK, HistoryTypeOK, MainPc, InRun, InFinally, Numbered,
      engineVars
<1>9. CASE StopStats
  BY <1>9, Untouched
  DEF StopStats, StatsSignal, Goto, RecTypeOK, MainTypeOK, MainPc, InRun,
      InFinally, Numbered, engineVars, stopVars
<1>10. CASE JoinStats \/ JoinTimesOut \/ Shutdown
  BY <1>10, Untouched
  DEF JoinStats, JoinTimesOut, Shutdown, Goto, MainTypeOK, MainPc, InRun,
      InFinally, Over, Returned, Numbered, engineVars, stopVars
<1>11. CASE TakeSnapshot \/ WriteReports
  BY <1>11, Untouched
  DEF TakeSnapshot, WriteReports, Goto, EngineTypeOK, MainTypeOK, MainPc,
      Over, Returned, Numbered, engineVars, stopVars
<1> QED
  BY <1>1, <1>2, <1>3, <1>4, <1>5, <1>6, <1>7, <1>8, <1>9, <1>10, <1>11
  DEF MainStep

LEMMA OtherTypes ==
  ASSUME TypeInv, Interrupt \/ StopCall \/ TimeUp
  PROVE  TypeInv'
<1> USE DEF TypeInv, TypeOK
<1>1. CASE Interrupt
  <2>1. interrupts' \in 0..MaxInterrupts
    BY <1>1, SchedulerAssumption DEF Interrupt, MainTypeOK
  <2>2. /\ mainPc' \in MainPc /\ mainPc # "idle"
        /\ raising' \in BOOLEAN /\ interrupted' \in BOOLEAN
    BY <1>1 DEF Interrupt, InterruptLandsIn, Goto, MainTypeOK, MainPc, InRun,
                BeforeTry, InTry, InFinally, Over
  <2>3. HistoryTypeOK'
    BY <1>1, <2>2
    DEF Interrupt, InterruptLandsIn, Goto, HistoryTypeOK, Numbered, stopVars
  <2> QED
    BY <1>1, <2>1, <2>2, <2>3, Untouched
    DEF Interrupt, MainTypeOK, Numbered, engineVars, stopVars
<1>2. CASE StopCall
  BY <1>2, Untouched
  DEF StopCall, SetStop, EngineTypeOK, WorkerTypeOK, workerVars,
      HistoryTypeOK, Numbered, engineVars, mainVars
<1>3. CASE TimeUp
  BY <1>3, EngineAssumption, Untouched
  DEF TimeUp, EngineTypeOK, WorkerTypeOK, workerVars, stopVars, mainVars, engineVars
<1> QED
  BY <1>1, <1>2, <1>3

LEMMA WorkerTypes ==
  ASSUME TypeInv, NEW w \in Workers, WorkerMoves(w)
  PROVE  TypeInv'
<1> USE DEF TypeInv, TypeOK
<1>1. UNCHANGED <<recVars, mainVars, stopVars, timeUp, overlap, escaped>>
  BY DEF WorkerMoves
<1>2. EngineTypeOK' /\ epoch' = epoch
  BY DEF WorkerMoves, WorkerStep, BeginRequest, LeaveLoop, RecordResult,
         Record, CrashRequest, CountRequest, StartStranded, engineVars,
         EngineTypeOK, Counts
<1>3. pc' \in [Workers -> WorkerPc]
  BY DEF WorkerMoves, WorkerStep, BeginRequest, LeaveLoop, RecordResult,
         CrashRequest, CountRequest, StartStranded, WorkerTypeOK, WorkerPc,
         Active, Ended
<1>4. sent' \in Counts
  BY DEF WorkerMoves, WorkerStep, BeginRequest, LeaveLoop, RecordResult,
         CrashRequest, CountRequest, StartStranded, WorkerTypeOK, Counts
<1> QED
  BY <1>1, <1>2, <1>3, <1>4, Untouched DEF WorkerTypeOK, stopVars, mainVars

LEMMA RecorderTypes ==
  ASSUME TypeInv, NEW r \in Runs, RecorderMoves(r)
  PROVE  TypeInv'
<1> USE DEF TypeInv, TypeOK
<1>1. CASE RecCheck(r)
  BY <1>1, Untouched
  DEF RecorderMoves, RecStep, RecCheck, RecTypeOK, RecPc, mainVars, stopVars,
      engineVars
<1>2. CASE RecSample(r)
  <2>1. Snapshot \in Points
    BY EngineAssumption DEF Snapshot, Points, Runs, EngineTypeOK
  <2>2. RecTypeOK'
    BY <1>2, <2>1 DEF RecSample, RecTypeOK, RecPc
  <2> QED
    BY <2>2, Untouched
    DEF RecorderMoves, RecStep, mainVars, stopVars, engineVars
<1>3. CASE RecAppend(r)
  <2>1. RecTypeOK'
    BY <1>3, NothingYet DEF RecAppend, RecTypeOK, RecPc
  <2> QED
    BY <2>1, Untouched
    DEF RecorderMoves, RecStep, mainVars, stopVars, engineVars
<1> QED
  BY <1>1, <1>2, <1>3 DEF RecorderMoves, RecStep

LEMMA NextTypes ==
  ASSUME TypeInv, [Next]_vars
  PROVE  TypeInv'
<1>1. CASE UNCHANGED vars
  BY <1>1, Untouched
  DEF vars, TypeInv, TypeOK, engineVars, mainVars, stopVars
<1> QED
  BY <1>1, MainTypes, OtherTypes, WorkerTypes, RecorderTypes
  DEF Next, Finished

\* Every variable keeps to its type, in every run of any number of users: in
\* particular no run constructs more workers than it has users.
THEOREM TypeCorrect == Spec => []TypeOK
<1>1. TypeInv => TypeOK
  BY DEF TypeInv
<1> QED
  BY InitTypes, NextTypes, <1>1, PTL DEF Spec
=============================================================================
