----------------------------- MODULE MCCommand -----------------------------
(***************************************************************************)
(* LoadTestCommand on small instances: a test that may answer in many ways *)
(* and writes one report, one that fails or not and writes any reports,    *)
(* one that is watched, and the dashboard alone.                           *)
(***************************************************************************)
EXTENDS CommandInvariant, TLC

Answer(kind, dns, time) == [kind |-> kind, dns |-> dns, time |-> time]

Quick     == Answer("ok", FALSE, 0)
Refused   == Answer("connection_error", FALSE, 0)
FewKinds  == {Quick, Answer("ok", FALSE, 3), Answer("timeout", FALSE, 1)}
AllKinds  == {Quick, Answer("ok", FALSE, 1), Answer("ok", FALSE, 3),
              Answer("status", FALSE, 1), Refused,
              Answer("timeout", FALSE, 3), Answer("timeout", TRUE, 3),
              Answer("connection_error", TRUE, 0),
              Answer("request_error", FALSE, 1)}

LoadTest(dashboard, formats, answers, maxResults) ==
  [command |-> "loadtest", dashboard |-> dashboard, formats |-> formats,
   answers |-> answers, maxResults |-> maxResults]

MCInvocations ==
  {LoadTest(FALSE, {"json"}, AllKinds, 3), LoadTest(FALSE, {"json"}, FewKinds, 5),
   LoadTest(TRUE, {"csv"}, {Quick}, 2)}
    \cup {LoadTest(FALSE, formats, {Quick, Refused}, 2) : formats \in SUBSET Formats}
    \cup {[command |-> "dashboard", dashboard |-> FALSE, formats |-> {},
           answers |-> {}, maxResults |-> 0]}

\* One poll is like another.
PollSymmetry == Permutations(Polls)
=============================================================================
