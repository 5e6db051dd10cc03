------------------------------- MODULE Worker -------------------------------
(***************************************************************************)
(* The virtual users (load_testing/worker.py), each a thread of the        *)
(* scheduler's pool.  Every worker of a run was given the same end_time,   *)
(* and a later run a later one; time is the number timeUp of runs whose    *)
(* end_time time.time() has reached.                                       *)
(*                                                                         *)
(* HttpClient.execute() turns every requests exception into a result, so a *)
(* request ends in a result of some kind or, for any other exception (a    *)
(* ValueError for a timeout of 0, a body that cannot be encoded), in the   *)
(* death of the worker.                                                    *)
(***************************************************************************)
EXTENDS MetricsEngine

CONSTANT MaxRequests      \* bound: requests of one worker

ASSUME WorkerAssumption == MaxRequests \in Nat

VARIABLES
  pc,           \* where each worker is
  sent,         \* Worker.requests_sent
  stopEvent,    \* the scheduler's _stop_event, shared with every worker
  timeUp        \* the end_times of this many runs are over

workerVars == <<pc, sent>>

Active == {"check", "request", "count"}
Ended  == {"done", "failed"}          \* run() returned, run() raised

\* A worker is "absent" until constructed; "stranded" is one whose work item
\* is in the pool's queue while no thread was created for it.
WorkerPc == {"absent", "stranded"} \cup Active \cup Ended

WorkerInit ==
  /\ pc = [w \in Workers |-> "absent"]
  /\ sent = [w \in Workers |-> 0]
  /\ stopEvent = FALSE
  /\ timeUp = 0

\* time.time() >= self.end_time
Expired(w) == RunOf(w) <= timeUp

-----------------------------------------------------------------------------
\* Variants of the actions below, as a careless change would leave them.

BeginRequestIgnoringStop(w) ==
  /\ pc[w] = "check" /\ ~Expired(w) /\ sent[w] < MaxRequests
  /\ pc' = [pc EXCEPT ![w] = "request"]
  /\ UNCHANGED <<sent, engineVars>>

RecordNothing(w) ==
  /\ pc[w] = "request"
  /\ UNCHANGED engineVars
  /\ pc' = [pc EXCEPT ![w] = "count"]
  /\ UNCHANGED sent

LeaveLoopOnlyOnStop(w) ==
  /\ pc[w] = "check" /\ stopEvent
  /\ pc' = [pc EXCEPT ![w] = "done"]
  /\ UNCHANGED <<sent, engineVars>>

-----------------------------------------------------------------------------
BeginRequest(w) ==
  /\ pc[w] = "check" /\ ~stopEvent /\ ~Expired(w)
  /\ sent[w] < MaxRequests
  /\ pc' = [pc EXCEPT ![w] = "request"]
  /\ UNCHANGED <<sent, engineVars>>

LeaveLoop(w) ==
  /\ pc[w] = "check" /\ (stopEvent \/ Expired(w))
  /\ pc' = [pc EXCEPT ![w] = "done"]
  /\ UNCHANGED <<sent, engineVars>>

\* execute() returns and the worker hands its result to the engine.
RecordResult(w) ==
  /\ pc[w] = "request"
  /\ Record(w)
  /\ pc' = [pc EXCEPT ![w] = "count"]
  /\ UNCHANGED sent

\* execute() raises something that is no RequestException.
CrashRequest(w) ==
  /\ pc[w] = "request"
  /\ pc' = [pc EXCEPT ![w] = "failed"]
  /\ UNCHANGED <<sent, engineVars>>

\* requests_sent += 1, and the think-time sleep.
CountRequest(w) ==
  /\ pc[w] = "count"
  /\ sent' = [sent EXCEPT ![w] = @ + 1]
  /\ pc' = [pc EXCEPT ![w] = "check"]
  /\ UNCHANGED engineVars

\* Has the pool of run r a thread that finished its work item?
ThreadFree(r) == \E v \in Workers : RunOf(v) = r /\ pc[v] \in Ended

\* The pool gives such a thread an item from its queue.
StartStranded(w) ==
  /\ pc[w] = "stranded" /\ ThreadFree(RunOf(w))
  /\ pc' = [pc EXCEPT ![w] = "check"]
  /\ UNCHANGED <<sent, engineVars>>

WorkerStep(w) ==
  \/ BeginRequest(w)
  \/ LeaveLoop(w)
  \/ RecordResult(w)
  \/ CrashRequest(w)
  \/ CountRequest(w)
  \/ StartStranded(w)

WorkerTypeOK ==
  /\ pc \in [Workers -> WorkerPc] /\ sent \in Counts
  /\ stopEvent \in BOOLEAN /\ timeUp \in 0..MaxRuns
=============================================================================
