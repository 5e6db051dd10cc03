-------------------------- MODULE LoadTestContract --------------------------
(***************************************************************************)
(* What LoadTestScheduler.run() promises whoever calls it: results are     *)
(* gathered during a run and never outside one, so that the engine it      *)
(* returns, "holding all recorded results", no longer changes and can be   *)
(* read twice with the same outcome.  A caller who abandons a run, by a    *)
(* Ctrl-C while it cleans up, forgoes that: the workers left behind may    *)
(* gather at any time, even into a later run.  The timeline may gain a     *)
(* point at any time, by a recorder that outlived its run; but no point    *)
(* claims more than was gathered, and as long as no two recorders ever     *)
(* lived side by side, the points of a run never go back.                  *)
(***************************************************************************)
EXTENDS Naturals

CONSTANT Workers

VARIABLES
  running,      \* is a run in progress?
  loose,        \* the workers of runs that were abandoned
  gathered,     \* the results of the current or the last run, per worker
  sampled,      \* those the newest point of that run covers
  orderly       \* had every recorder ended when the next was started?

Nothing == [w \in Workers |-> 0]

Init ==
  /\ running = FALSE /\ loose = {} /\ orderly = TRUE
  /\ gathered = Nothing /\ sampled = Nothing

Begin ==
  /\ ~running
  /\ running' = TRUE
  /\ gathered' = Nothing /\ sampled' = Nothing
  /\ UNCHANGED <<loose, orderly>>

Gather(w) ==
  /\ running \/ w \in loose
  /\ gathered' = [gathered EXCEPT ![w] = @ + 1]
  /\ UNCHANGED <<running, loose, sampled, orderly>>

Sample ==
  /\ sampled' \in [Workers -> Nat]
  /\ \A w \in Workers : /\ sampled'[w] <= gathered[w]
                        /\ orderly => sampled[w] <= sampled'[w]
  /\ UNCHANGED <<running, loose, gathered, orderly>>

Disturb ==
  /\ orderly' = FALSE
  /\ UNCHANGED <<running, loose, gathered, sampled>>

End ==
  /\ running
  /\ running' = FALSE
  /\ UNCHANGED <<loose, gathered, sampled, orderly>>

Abandon ==
  /\ running
  /\ running' = FALSE
  /\ loose' \in SUBSET Workers /\ loose \subseteq loose'
  /\ UNCHANGED <<gathered, sampled, orderly>>

Next ==
  \/ Begin
  \/ \E w \in Workers : Gather(w)
  \/ Sample \/ Disturb
  \/ End \/ Abandon

vars == <<running, loose, gathered, sampled, orderly>>
Spec == Init /\ [][Next]_vars
=============================================================================
