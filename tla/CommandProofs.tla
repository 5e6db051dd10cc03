---------------------------- MODULE CommandProofs ----------------------------
(***************************************************************************)
(* Proofs about LoadTestCommand, for every set of invocations, of response *)
(* times and of polls, and all thresholds.                                 *)
(***************************************************************************)
EXTENDS CommandInvariant, ReportProofs

LEMMA AnswersTyped ==
  ASSUME args \in Invocations
  PROVE  /\ args.answers \in SUBSET Result
         /\ Seq(args.answers) \subseteq Seq(Result)
         /\ args.command \in {"loadtest", "dashboard"}
<1>1. args.answers \in SUBSET Result /\ args.command \in {"loadtest", "dashboard"}
  BY InvocationsAssumption
<1>. QED
  BY <1>1

LEMMA InitTypes == Init => TypeOK
<1>1. SnapshotOf(<<>>) \in SnapshotType
  <2>1. <<>> \in Seq(Result)
    OBVIOUS
  <2>. QED
    BY <2>1, SnapshotTyped
<1>2. SUFFICES ASSUME Init PROVE TypeOK
  OBVIOUS
<1>3. /\ args \in Invocations /\ phase \in Phase
      /\ results \in Seq(args.answers) /\ timeline \in Seq(Nat)
  BY <1>2 DEF Init, RunInit, Phase, BeforeRun
<1>4. NothingShown \in [cards : Nat \cup {NoCards}, chart : Seq(Nat)]
  BY DEF NothingShown
<1>5. /\ registered \in BOOLEAN /\ server \in {"off", "starting", "up"}
      /\ pollAt \in [Polls -> PollAt]
      /\ pollCards \in [Polls -> Nat \cup {NoCards}]
      /\ pollChart \in [Polls -> Seq(Nat)]
      /\ cards \in Nat \cup {NoCards} /\ chart \in Seq(Nat)
      /\ pollBase \in [Polls -> [cards : Nat \cup {NoCards}, chart : Seq(Nat)]]
  <2>1. pollBase \in [Polls -> [cards : Nat \cup {NoCards}, chart : Seq(Nat)]]
    <3> DEFINE T == [cards : Nat \cup {NoCards}, chart : Seq(Nat)]
    <3> HIDE DEF T
    <3>1. pollBase \in [Polls -> T]
      BY <1>2, <1>4 DEF Init, DashInit, T
    <3>. QED
      BY <3>1 DEF T
  <2>2. pollCards \in [Polls -> Nat \cup {NoCards}] /\ cards \in Nat \cup {NoCards}
    BY <1>2 DEF Init, DashInit
  <2>3. pollChart \in [Polls -> Seq(Nat)] /\ chart \in Seq(Nat)
    BY <1>2 DEF Init, DashInit
  <2>. QED
    BY <1>2, <2>1, <2>2, <2>3 DEF Init, DashInit, PollAt
<1>6. /\ snapshot \in SnapshotType
      /\ raw \in Seq(args.answers) /\ points \in Seq(Nat)
      /\ files \in [Formats -> FileState]
      /\ findings \in Seq([category : Categories, severity : Severities])
  BY <1>1, <1>2 DEF Init, ReportInit, DetectorInit, FileState
<1>. QED
  BY <1>3, <1>5, <1>6 DEF TypeOK

\* The findings of a load test are findings.
LEMMA FindingsTyped ==
  ASSUME TypeOK
  PROVE  /\ SnapshotOf(results) \in SnapshotType
         /\ HttpFindings(SnapshotOf(results)) \in Seq(Findings)
<1>1. results \in Seq(Result)
  BY AnswersTyped DEF TypeOK
<1>. QED
  BY <1>1, SnapshotTyped, HttpFindingsReport

LEMMA NextTypes == TypeOK /\ [Next]_vars => TypeOK'
<1>. SUFFICES ASSUME TypeOK, [Next]_vars PROVE TypeOK'
  OBVIOUS
<1>. USE DEF TypeOK
<1>1. CASE UNCHANGED vars
  BY <1>1 DEF vars, runVars, dashVars, pageVars, reportVars
<1>2. CASE ServeAlone \/ AttachDashboard
  <2>1. CASE ServeAlone
    BY <2>1 DEF ServeAlone, Goto, StartServer, runVars, pageVars, reportVars, Phase
  <2>2. CASE AttachDashboard
    BY <2>2 DEF AttachDashboard, Goto, StartServer, Register, runVars, pageVars,
       reportVars, Phase, BeforeRun
  <2>. QED
    BY <1>2, <2>1, <2>2
<1>3. CASE RunBegins \/ RunReturns
  <2>1. CASE RunBegins
    <3>1. results' \in Seq(args'.answers) /\ timeline' = timeline /\ phase' \in Phase
      BY <2>1 DEF RunBegins, Goto, Reset, Phase
    <3>. QED
      BY <2>1, <3>1 DEF RunBegins, dashVars, pageVars, reportVars
  <2>2. CASE RunReturns
    BY <2>2 DEF RunReturns, Goto, runVars, dashVars, pageVars, reportVars, Phase,
       AfterRun
  <2>. QED
    BY <1>3, <2>1, <2>2
<1>4. ASSUME NEW r \in args.answers, RecordResult(r) PROVE TypeOK'
  BY <1>4 DEF RecordResult, Gather, dashVars, pageVars, reportVars
<1>5. CASE RecordPoint
  BY <1>5 DEF RecordPoint, SamplePoint, dashVars, pageVars, reportVars
<1>6. CASE Analyze
  <2>1. findings' \in Seq(Findings)
    BY <1>6, FindingsTyped DEF Analyze, AnalyzeHttp, Findings
  <2>. QED
    BY <1>6, <2>1, FindingsTyped DEF Analyze, Goto, Phase, AfterRun, runVars,
       dashVars, pageVars, Findings
<1>7. CASE ReadResults \/ ReadTimeline
  BY <1>7 DEF ReadResults, ReadTimeline, Goto, Phase, AfterRun, runVars,
     dashVars, pageVars
<1>8. ASSUME NEW f \in Formats, BeginFile(f) \/ FinishFile(f) \/ SkipFile(f)
      PROVE  TypeOK'
  <2>1. NextFormat[f] \in Phase
    BY DEF NextFormat, Formats, Phase, AfterRun, Ended
  <2>2. files' \in [Formats -> FileState]
    BY <1>8 DEF BeginFile, FinishFile, SkipFile, CreateFile, FillFile, FileState,
       reportVars
  <2>. QED
    BY <1>8, <2>1, <2>2 DEF BeginFile, FinishFile, SkipFile, CreateFile, FillFile,
       Goto, runVars, dashVars, pageVars, reportVars
<1>9. CASE Fails \/ ServerStep \/ Finished
  BY <1>9 DEF Fails, ServerStep, ServerUp, Finished, vars, Phase, Ended, runVars,
     dashVars, pageVars, reportVars
<1>10. ASSUME NEW p \in Polls, PollStep(p) PROVE TypeOK'
  <2>. USE DEF PollStep, runVars, reportVars, PollAt
  <2>1. CASE PollBegins(p)
    BY <1>10, <2>1 DEF PollBegins
  <2>2. CASE PollFails(p)
    BY <1>10, <2>2 DEF PollFails, PollOver, NothingShown, NoCards
  <2>3. CASE ServeMetrics(p)
    BY <1>10, <2>3 DEF ServeMetrics
  <2>4. CASE ShowMetrics(p)
    BY <1>10, <2>4 DEF ShowMetrics
  <2>5. CASE ServeTimeline(p)
    BY <1>10, <2>5 DEF ServeTimeline
  <2>6. CASE ShowTimeline(p)
    BY <1>10, <2>6 DEF ShowTimeline, PollOver, NothingShown, NoCards
  <2>. QED
    BY <1>10, <2>1, <2>2, <2>3, <2>4, <2>5, <2>6 DEF PageStep
<1>. QED
  BY <1>1, <1>2, <1>3, <1>4, <1>5, <1>6, <1>7, <1>8, <1>9, <1>10 DEF Next

\* The command, the trackers of its test and the page keep to their types.
THEOREM CommandTypes == Spec => []TypeOK
BY InitTypes, NextTypes, PTL DEF Spec

-----------------------------------------------------------------------------
(***************************************************************************)
(* The steps of the command, and of everything else: server and page leave *)
(* the command's variables alone.                                          *)
(***************************************************************************)
commandVars == <<args, phase, runVars, reportVars, findings>>

LEMMA ServerAndPage ==
  ASSUME \/ ServerStep \/ Finished \/ UNCHANGED vars
         \/ \E p \in Polls : PollStep(p)
  PROVE  UNCHANGED commandVars
BY DEF ServerStep, Finished, PollStep, vars, commandVars

\* A new result leaves the ones there were.
LEMMA Appended ==
  ASSUME NEW S, NEW s \in Seq(S), NEW x \in S
  PROVE  /\ Append(s, x) \in Seq(S) /\ Len(Append(s, x)) = Len(s) + 1
         /\ DOMAIN Append(s, x) = 1..(Len(s) + 1) /\ DOMAIN s = 1..Len(s)
         /\ Len(s) \in Nat
         /\ \A i \in DOMAIN s : Append(s, x)[i] = s[i]
         /\ Append(s, x)[Len(s) + 1] = x
OBVIOUS

LEMMA NextProgress == TypeOK /\ Progress /\ [Next]_vars => Progress'
<1>. SUFFICES ASSUME TypeOK, Progress, [Next]_vars PROVE Progress'
  OBVIOUS
<1>1. /\ results \in Seq(args.answers) /\ timeline \in Seq(Nat) /\ points \in Seq(Nat)
      /\ args.command \in {"loadtest", "dashboard"}
  BY AnswersTyped DEF TypeOK
<1>2. CASE UNCHANGED commandVars
  BY <1>2 DEF Progress, commandVars, runVars, reportVars
<1>3. CASE ServeAlone \/ AttachDashboard
  BY <1>3 DEF ServeAlone, AttachDashboard, Goto, runVars, reportVars, Progress,
     BeforeRun, AfterRun
<1>4. CASE RunBegins
  <2>1. results = <<>> /\ results' = <<>> /\ timeline = <<>>
    BY <1>4 DEF RunBegins, Goto, Reset, Progress, BeforeRun
  <2>2. args'.command = "loadtest" /\ phase' = "running"
    BY <1>4 DEF RunBegins, Goto, Progress
  <2>. QED
    BY <1>4, <2>1, <2>2 DEF RunBegins, Reset, reportVars, Progress, BeforeRun
<1>5. CASE RunReturns
  BY <1>5 DEF RunReturns, Goto, runVars, reportVars, Progress, BeforeRun, AfterRun
<1>6. ASSUME NEW r \in args.answers, RecordResult(r) PROVE Progress'
  <2>1. /\ phase = "running" /\ results' = Append(results, r) /\ timeline' = timeline
        /\ UNCHANGED <<phase, args, points>>
    BY <1>6 DEF RecordResult, Gather, reportVars
  <2>2. Len(results') = Len(results) + 1 /\ Len(results) \in Nat
    BY <1>1, <2>1, Appended
  <2>3. /\ \A i \in DOMAIN timeline : timeline[i] \in Nat
        /\ \A i \in DOMAIN points : points[i] \in Nat
    BY <1>1
  <2>. QED
    BY <1>1, <2>1, <2>2, <2>3 DEF Progress, BeforeRun
<1>7. CASE RecordPoint
  <2>1. PICK n \in 0..Len(results) : SamplePoint(n)
    BY <1>7 DEF RecordPoint
  <2>2. /\ timeline' = Append(timeline, n) /\ UNCHANGED <<phase, args, results, points>>
        /\ phase \notin BeforeRun
    BY <1>7, <2>1
    DEF RecordPoint, SamplePoint, reportVars, BeforeRun, AfterRun
  <2>3. \A i \in DOMAIN timeline' : timeline'[i] <= Len(results)
    <3>1. n \in Nat /\ n <= Len(results)
      BY <2>1
    <3>2. \A i \in DOMAIN timeline' : i \in DOMAIN timeline \/ i = Len(timeline) + 1
      BY <1>1, <2>2, <3>1, Appended
    <3>. QED
      BY <1>1, <2>2, <3>1, <3>2, Appended DEF Progress
  <2>. QED
    BY <2>2, <2>3 DEF Progress
<1>8. CASE Analyze \/ ReadResults \/ ReadTimeline
  <2>1. CASE Analyze
    BY <2>1 DEF Analyze, Goto, runVars, Progress, BeforeRun, AfterRun
  <2>2. CASE ReadResults
    BY <2>2 DEF ReadResults, Goto, runVars, Progress, BeforeRun, AfterRun
  <2>3. CASE ReadTimeline
    BY <2>3 DEF ReadTimeline, Goto, runVars, Progress, BeforeRun, AfterRun
  <2>. QED
    BY <1>8, <2>1, <2>2, <2>3
<1>9. ASSUME NEW f \in Formats, BeginFile(f) \/ FinishFile(f) \/ SkipFile(f)
      PROVE  Progress'
  <2>1. /\ phase = f /\ phase' \in {f, NextFormat[f]} /\ UNCHANGED <<args, runVars, points>>
    BY <1>9 DEF BeginFile, FinishFile, SkipFile, CreateFile, FillFile, Goto, reportVars
  <2>2. phase \in AfterRun /\ phase' \in AfterRun \cup {"exited"}
    BY <2>1 DEF Formats, NextFormat, AfterRun
  <2>. QED
    BY <2>1, <2>2 DEF Progress, BeforeRun, AfterRun, runVars
<1>10. CASE Fails
  BY <1>10 DEF Fails, runVars, reportVars, Progress, BeforeRun, AfterRun
<1>. QED
  BY <1>2, <1>3, <1>4, <1>5, <1>6, <1>7, <1>8, <1>9, <1>10, ServerAndPage DEF Next

LEMMA NextAnalyzed == TypeOK /\ Progress /\ Analyzed /\ [Next]_vars => Analyzed'
<1>. SUFFICES ASSUME TypeOK, Progress, Analyzed, [Next]_vars PROVE Analyzed'
  OBVIOUS
<1>. USE DEF Analyzed, Summarised, BeforeAnalysis, BeforeRun, Reporting, Goto
<1>2. CASE UNCHANGED commandVars
  BY <1>2 DEF commandVars, runVars, reportVars
<1>3. CASE ServeAlone \/ AttachDashboard
  BY <1>3 DEF ServeAlone, AttachDashboard
<1>4. CASE RunBegins \/ RunReturns
  BY <1>4 DEF RunBegins, RunReturns
<1>5. ASSUME NEW r \in args.answers, RecordResult(r) PROVE Analyzed'
  BY <1>5 DEF RecordResult, Gather, reportVars
<1>6. CASE RecordPoint
  BY <1>6 DEF RecordPoint, SamplePoint, reportVars
<1>7. CASE Analyze
  <2>1. findings = <<>> /\ results' = results /\ phase' = "analyzed"
    BY <1>7 DEF Analyze, runVars
  <2>2. findings' = HttpFindings(SnapshotOf(results))
    <3> DEFINE new == HttpFindings(SnapshotOf(results))
    <3>1. new \in Seq(Findings)
      BY FindingsTyped
    <3>2. findings' = <<>> \o new
      BY <1>7, <2>1 DEF Analyze, AnalyzeHttp
    <3> HIDE DEF new
    <3>3. <<>> \o new = new
      BY <3>1
    <3>. QED
      BY <3>2, <3>3 DEF new
  <2>3. snapshot' = SnapshotOf(results)
    BY <1>7 DEF Analyze
  <2>. QED
    BY <2>1, <2>2, <2>3
<1>8. CASE ReadResults
  BY <1>8 DEF ReadResults, runVars
<1>9. CASE ReadTimeline
  BY <1>9 DEF ReadTimeline, runVars
<1>10. ASSUME NEW f \in Formats, BeginFile(f) \/ FinishFile(f) \/ SkipFile(f)
       PROVE  Analyzed'
  <2>1. /\ phase = f /\ phase' \in {f, NextFormat[f]}
        /\ UNCHANGED <<args, runVars, snapshot, raw, findings>>
    BY <1>10 DEF BeginFile, FinishFile, SkipFile, CreateFile, FillFile, reportVars
  <2>2. phase \in Reporting /\ phase' \in Reporting \cup {"exited"}
    BY <2>1 DEF Formats, NextFormat
  <2>. QED
    BY <2>1, <2>2 DEF runVars
<1>11. CASE Fails
  BY <1>11 DEF Fails, Ended, runVars, reportVars
<1>. QED
  BY <1>2, <1>3, <1>4, <1>5, <1>6, <1>7, <1>8, <1>9, <1>10, <1>11, ServerAndPage
     DEF Next

LEMMA NextWritten == TypeOK /\ Written /\ [Next]_vars => Written'
<1>. SUFFICES ASSUME TypeOK, Written, [Next]_vars PROVE Written'
  OBVIOUS
<1>. USE DEF Written, Settled, BeforeAnalysis, BeforeRun, Goto
<1>1. files \in [Formats -> FileState]
  BY DEF TypeOK
<1>2. CASE UNCHANGED commandVars
  BY <1>2 DEF commandVars, reportVars
<1>3. CASE \/ ServeAlone \/ AttachDashboard \/ RunBegins \/ RunReturns
           \/ Analyze \/ ReadResults
  <2>1. \/ phase \in BeforeAnalysis /\ phase' \in BeforeAnalysis \cup {"analyzed"}
        \/ phase = "analyzed" /\ phase' = "read"
    BY <1>3 DEF ServeAlone, AttachDashboard, RunBegins, RunReturns, Analyze, ReadResults
  <2>2. files' = files
    BY <1>3 DEF ServeAlone, AttachDashboard, RunBegins, RunReturns, Analyze,
       ReadResults, reportVars
  <2>. QED
    BY <2>1, <2>2 DEF Formats
<1>4. ASSUME NEW r \in args.answers, RecordResult(r) PROVE Written'
  BY <1>4 DEF RecordResult, reportVars
<1>5. CASE RecordPoint
  BY <1>5 DEF RecordPoint, reportVars
<1>6. CASE ReadTimeline
  <2>1. phase' = "json" /\ files' = files /\ \A f \in Formats : files[f] = "absent"
    BY <1>6 DEF ReadTimeline
  <2>2. \A g \in Formats : "json" \notin Later[g]
    BY DEF Formats, Later
  <2>3. \A g \in Later["json"] : g \in Formats
    BY DEF Formats, Later
  <2>. QED
    BY <2>1, <2>2, <2>3 DEF Formats
<1>7. ASSUME NEW f \in Formats, BeginFile(f) PROVE Written'
  <2>1. /\ phase = f /\ phase' = f /\ f \in Wanted(args.formats) /\ args' = args
        /\ files' = [files EXCEPT ![f] = "partial"]
    BY <1>7 DEF BeginFile, CreateFile
  <2>2. \A g \in Formats : f \in Later[g] => g # f
    BY DEF Formats, Later
  <2>3. \A g \in Later[f] : g # f
    BY DEF Formats, Later
  <2>4. \A g \in Later[f] : files'[g] = "absent"
    <3>1. \A g \in Later[f] : g \in Formats
      BY DEF Formats, Later
    <3>. QED
      BY <1>1, <2>1, <2>3, <3>1
  <2>. QED
    BY <1>1, <2>1, <2>2, <2>4 DEF Formats
<1>8. ASSUME NEW f \in Formats, FinishFile(f) \/ SkipFile(f) PROVE Written'
  <2>1. phase = f /\ phase' = NextFormat[f] /\ args' = args
    BY <1>8 DEF FinishFile, SkipFile
  <2>2. Settled(f)'
    <3>1. CASE FinishFile(f)
      BY <1>1, <2>1, <3>1 DEF FinishFile, FillFile
    <3>2. CASE SkipFile(f)
      BY <1>1, <2>1, <3>2 DEF SkipFile, reportVars
    <3>. QED
      BY <1>8, <3>1, <3>2
  <2>3. \A g \in Formats \ {f} : files'[g] = files[g]
    BY <1>1, <1>8 DEF FinishFile, SkipFile, FillFile, reportVars
  <2>4. \A g \in Formats : f \in Later[g] => g # f /\ Settled(g)'
    BY <2>1, <2>3 DEF Formats, Later
  <2>5. \A g \in Later[f] : files'[g] = "absent"
    BY <2>1, <2>3 DEF Formats, Later
  <2>6. CASE f = "json"
    BY <2>1, <2>2, <2>4, <2>5, <2>6 DEF Formats, Later, NextFormat
  <2>7. CASE f = "html"
    BY <2>1, <2>2, <2>4, <2>5, <2>7 DEF Formats, Later, NextFormat
  <2>8. CASE f = "csv"
    BY <2>1, <2>2, <2>4, <2>5, <2>8 DEF Formats, Later, NextFormat
  <2>. QED
    BY <2>6, <2>7, <2>8 DEF Formats
<1>9. CASE Fails
  BY <1>9 DEF Fails, reportVars, Formats
<1>. QED
  BY <1>2, <1>3, <1>4, <1>5, <1>6, <1>7, <1>8, <1>9, ServerAndPage DEF Next

\* While the command goes on, what is on disk follows from its phase.
GoesOn == phase # "failed"

LEMMA FilesFollowPhase ==
  TypeOK /\ Written /\ GoesOn => FilesTellOutcome
<1>. SUFFICES ASSUME TypeOK, Written, phase # "failed" PROVE FilesTellOutcome
  BY DEF GoesOn
<1>. USE DEF Written, Settled
<1>1. CASE phase \in BeforeAnalysis \cup {"analyzed", "read"}
  BY <1>1 DEF BeforeAnalysis, BeforeRun, FilesTellOutcome
<1>2. CASE phase = "exited"
  <2>1. \A f \in Formats : files[f] # "partial"
    BY <1>2
  <2>2. \A f \in Formats : files[f] # "absent" => f \in Wanted(args.formats)
    BY <1>2
  <2>3. \A f, g \in Formats : g \in Wanted(args.formats) => files[g] = "complete"
    BY <1>2
  <2>4. Wanted(args.formats) \subseteq Formats
    BY InvocationsAssumption DEF TypeOK, Wanted
  <2>. QED
    BY <1>2, <2>1, <2>2, <2>3, <2>4 DEF FilesTellOutcome
<1>3. ASSUME NEW p \in Formats, phase = p PROVE FilesTellOutcome
  <2>1. /\ files[p] = "absent" \/ (files[p] = "partial" /\ p \in Wanted(args.formats))
        /\ \A g \in Later[p] : files[g] = "absent"
        /\ \A g \in Formats : p \in Later[g] => Settled(g)
    BY <1>3
  <2>2. \A g \in Formats : g = p \/ g \in Later[p] \/ p \in Later[g]
    BY DEF Formats, Later
  <2>3. \A f, g \in Formats : f \in Later[g] /\ (f = p \/ p \in Later[f]) => p \in Later[g]
    BY DEF Formats, Later
  <2>4. Wanted(args.formats) \subseteq Formats
    BY InvocationsAssumption DEF TypeOK, Wanted
  <2>5. \A f \in Formats : files[f] # "absent" => f \in Wanted(args.formats)
    BY <2>1, <2>2
  <2>6. \A f \in Formats : files[f] # "absent" => f = p \/ p \in Later[f]
    BY <2>1, <2>2
  <2>7. \A f, g \in Formats : files[f] # "absent" /\ g \in Wanted(args.formats)
          /\ f \in Later[g] => files[g] = "complete"
    BY <2>1, <2>3, <2>6
  <2>8. \A f \in Formats : files[f] = "partial" => f = p
    BY <2>1, <2>2
  <2>9. phase # "exited"
    BY <1>3 DEF Formats
  <2>. QED
    BY <1>3, <2>4, <2>5, <2>7, <2>8, <2>9 DEF FilesTellOutcome
<1>. QED
  BY <1>1, <1>2, <1>3 DEF TypeOK, Phase, BeforeAnalysis, BeforeRun, AfterRun, Ended,
     Formats

LEMMA NextFiles ==
  TypeOK /\ Written /\ FilesTellOutcome /\ [Next]_vars => FilesTellOutcome'
<1>. SUFFICES ASSUME TypeOK, Written, FilesTellOutcome, [Next]_vars
              PROVE  FilesTellOutcome'
  OBVIOUS
<1>1. TypeOK' /\ Written'
  BY NextTypes, NextWritten
<1>2. CASE phase' # "failed"
  <2>1. TypeOK' /\ Written' /\ GoesOn' => FilesTellOutcome'
    BY FilesFollowPhase, PTL
  <2>. QED
    BY <1>1, <1>2, <2>1 DEF GoesOn
<1>3. CASE phase' = "failed"
  <2>1. Fails \/ UNCHANGED commandVars
    <3>1. /\ ~ServeAlone /\ ~AttachDashboard /\ ~RunBegins /\ ~RunReturns
          /\ ~Analyze /\ ~ReadResults /\ ~ReadTimeline
      BY <1>3 DEF ServeAlone, AttachDashboard, RunBegins, RunReturns, Analyze,
         ReadResults, ReadTimeline, Goto
    <3>2. ASSUME NEW r \in args.answers, RecordResult(r) PROVE FALSE
      BY <1>3, <3>2 DEF RecordResult, Gather
    <3>3. ~RecordPoint
      BY <1>3 DEF RecordPoint, SamplePoint, AfterRun
    <3>4. ASSUME NEW f \in Formats, BeginFile(f) \/ FinishFile(f) \/ SkipFile(f)
          PROVE  FALSE
      BY <1>3, <3>4 DEF BeginFile, FinishFile, SkipFile, Goto, NextFormat, Formats
    <3>. QED
      BY <3>1, <3>2, <3>3, <3>4, ServerAndPage DEF Next
  <2>. QED
    BY <1>3, <2>1 DEF Fails, commandVars, reportVars, FilesTellOutcome
<1>. QED
  BY <1>2, <1>3

-----------------------------------------------------------------------------
(***************************************************************************)
(* The page.  While it waits, the test only grows.                         *)
(***************************************************************************)
Grows ==
  /\ Len(results) <= Len(results') /\ Len(timeline) <= Len(timeline')
  /\ \A i \in DOMAIN timeline : timeline'[i] = timeline[i]
  /\ registered => registered'

LEMMA TestGrows ==
  ASSUME TypeOK, Progress, [Next]_vars
  PROVE  Grows /\ (UNCHANGED pageVars \/ \E p \in Polls : PollStep(p))
<1>. USE DEF Grows
<1>1. /\ results \in Seq(args.answers) /\ Len(results) \in Nat
      /\ timeline \in Seq(Nat) /\ Len(timeline) \in Nat
  BY DEF TypeOK
<1>2. CASE UNCHANGED vars \/ Finished
  BY <1>1, <1>2 DEF vars, Finished, runVars, dashVars
<1>3. CASE ServeAlone \/ AttachDashboard
  BY <1>1, <1>3 DEF ServeAlone, AttachDashboard, Register, runVars
<1>4. CASE RunBegins
  <2>1. Len(results) = 0 /\ Len(results') = 0 /\ timeline' = timeline
    BY <1>4 DEF RunBegins, Goto, Reset, Progress, BeforeRun
  <2>. QED
    BY <1>1, <1>4, <2>1 DEF RunBegins, dashVars
<1>5. ASSUME NEW r \in args.answers, RecordResult(r)
      PROVE  Grows /\ UNCHANGED pageVars
  <2>1. results' = Append(results, r) /\ timeline' = timeline /\ UNCHANGED dashVars
    BY <1>5 DEF RecordResult, Gather
  <2>. QED
    BY <1>1, <2>1, Appended DEF dashVars
<1>6. CASE RecordPoint
  <2>1. PICK n \in 0..Len(results) : SamplePoint(n)
    BY <1>6 DEF RecordPoint
  <2>2. timeline' = Append(timeline, n) /\ results' = results /\ UNCHANGED dashVars
    BY <1>6, <2>1 DEF RecordPoint, SamplePoint
  <2>. QED
    BY <1>1, <2>2, Appended DEF dashVars
<1>7. CASE Analyze \/ ReadResults \/ ReadTimeline \/ RunReturns \/ Fails
  BY <1>1, <1>7 DEF Analyze, ReadResults, ReadTimeline, RunReturns, Fails, runVars,
     dashVars
<1>8. ASSUME NEW f \in Formats, BeginFile(f) \/ FinishFile(f) \/ SkipFile(f)
      PROVE  Grows /\ UNCHANGED pageVars
  BY <1>1, <1>8 DEF BeginFile, FinishFile, SkipFile, runVars, dashVars
<1>9. CASE ServerStep
  BY <1>1, <1>9 DEF ServerStep, ServerUp, runVars
<1>10. ASSUME NEW p \in Polls, PollStep(p) PROVE Grows
  <2>1. runVars' = runVars
    BY <1>10 DEF PollStep
  <2>2. registered' = registered
    BY <1>10 DEF PollStep, PageStep, PollBegins, PollFails, ServeMetrics,
       ShowMetrics, ServeTimeline, ShowTimeline
  <2>. QED
    BY <1>1, <2>1, <2>2 DEF runVars
<1>. QED
  BY <1>2, <1>3, <1>4, <1>5, <1>6, <1>7, <1>8, <1>9, <1>10 DEF Next

LEMMA NextPageShows ==
  TypeOK /\ Progress /\ PageShowsTest /\ [Next]_vars => PageShowsTest'
<1>. SUFFICES ASSUME TypeOK, Progress, PageShowsTest, [Next]_vars
              PROVE  PageShowsTest'
  OBVIOUS
<1>1. Grows /\ (UNCHANGED pageVars \/ \E p \in Polls : PollStep(p))
  BY TestGrows
<1>2. /\ Len(results) \in Nat /\ Len(timeline) \in Nat
      /\ DOMAIN timeline = 1..Len(timeline) /\ results' \in Seq(args'.answers)
      /\ timeline' \in Seq(Nat) /\ Len(results') \in Nat /\ Len(timeline') \in Nat
      /\ registered \in BOOLEAN
  BY NextTypes DEF TypeOK
<1>3. /\ ShowsTest(cards, chart)
      /\ cards \in Nat \cup {NoCards} /\ chart \in Seq(Nat)
      /\ \A p \in Polls :
           /\ ShowsTest(pollCards[p], pollChart[p])
           /\ pollCards[p] \in Nat \cup {NoCards} /\ pollChart[p] \in Seq(Nat)
           /\ ShowsTest(pollBase[p].cards, pollBase[p].chart)
           /\ pollBase[p].cards \in Nat \cup {NoCards}
           /\ pollBase[p].chart \in Seq(Nat)
  BY DEF PageShowsTest, TypeOK
<1> DEFINE Shows(c, ch) ==
             /\ c <= Len(results')
             /\ Len(ch) <= Len(timeline') /\ \A i \in DOMAIN ch : ch[i] = timeline'[i]
             /\ ~registered' => c = NoCards /\ ch = <<>>
<1>4. ASSUME NEW c \in Nat \cup {NoCards}, NEW ch \in Seq(Nat), ShowsTest(c, ch)
      PROVE  Shows(c, ch)
  <2>1. DOMAIN ch = 1..Len(ch) /\ Len(ch) \in Nat /\ c \in Int
    BY DEF NoCards
  <2>2. \A i \in DOMAIN ch : i \in DOMAIN timeline
    BY <1>2, <1>4, <2>1 DEF ShowsTest
  <2>. QED
    BY <1>1, <1>2, <1>4, <2>1, <2>2 DEF ShowsTest, Grows
<1>5. /\ Shows(cards, chart)
      /\ \A p \in Polls : /\ Shows(pollCards[p], pollChart[p])
                          /\ Shows(pollBase[p].cards, pollBase[p].chart)
  BY <1>3, <1>4
<1>6. Shows(NoCards, <<>>)
  BY <1>2 DEF NoCards
<1>7. ASSUME NEW c \in Nat \cup {NoCards}, NEW ch \in Seq(Nat), Shows(c, ch)
      PROVE  Shows(NoCards, ch) /\ Shows(c, <<>>)
  BY <1>2, <1>7 DEF NoCards
<1>8. SUFFICES /\ Shows(cards', chart')
               /\ \A p \in Polls : /\ Shows(pollCards'[p], pollChart'[p])
                                   /\ Shows(pollBase'[p].cards, pollBase'[p].chart)
  BY DEF PageShowsTest, ShowsTest
<1> HIDE DEF Shows
<1>9. CASE UNCHANGED pageVars
  BY <1>5, <1>9 DEF pageVars
<1>10. ASSUME NEW p \in Polls, PollStep(p)
       PROVE  /\ Shows(cards', chart')
              /\ \A q \in Polls : /\ Shows(pollCards'[q], pollChart'[q])
                                  /\ Shows(pollBase'[q].cards, pollBase'[q].chart)
  <2>1. /\ results' = results /\ timeline' = timeline
        /\ pollCards \in [Polls -> Nat \cup {NoCards}]
        /\ pollChart \in [Polls -> Seq(Nat)]
        /\ pollBase \in [Polls -> [cards : Nat \cup {NoCards}, chart : Seq(Nat)]]
    BY <1>10 DEF PollStep, runVars, TypeOK
  <2>2. CASE PollBegins(p)
    BY <1>3, <1>5, <2>1, <2>2 DEF PollBegins
  <2>3. CASE PollFails(p)
    BY <1>3, <1>5, <1>6, <2>1, <2>3 DEF PollFails, PollOver, NothingShown
  <2>4. CASE ServeMetrics(p)
    <3>1. Shows(IF registered THEN Len(results) ELSE NoCards, pollChart[p])
      <4>1. CASE registered
        <5>1. registered'
          BY <1>1, <4>1 DEF Grows
        <5>. QED
          BY <1>2, <1>5, <2>1, <4>1, <5>1 DEF Shows
      <4>2. CASE ~registered
        BY <1>3, <1>5, <1>7, <4>2
      <4>. QED
        BY <4>1, <4>2
    <3>. QED
      BY <1>5, <2>1, <2>4, <3>1 DEF ServeMetrics
  <2>5. CASE ShowMetrics(p)
    <3>1. Shows(pollCards[p], chart) /\ Shows(NoCards, pollChart[p])
      <4>1. Shows(pollCards[p], chart)
        BY <1>5 DEF Shows
      <4>. QED
        BY <1>3, <1>5, <1>7, <4>1
    <3>. QED
      BY <1>5, <2>1, <2>5, <3>1 DEF ShowMetrics
  <2>6. CASE ServeTimeline(p)
    <3>1. Shows(pollCards[p], IF registered THEN timeline ELSE <<>>)
      <4>1. CASE registered
        <5>1. registered'
          BY <1>1, <4>1 DEF Grows
        <5>. QED
          BY <1>2, <1>5, <2>1, <4>1, <5>1 DEF Shows
      <4>2. CASE ~registered
        BY <1>3, <1>5, <1>7, <4>2
      <4>. QED
        BY <4>1, <4>2
    <3>. QED
      BY <1>5, <2>1, <2>6, <3>1 DEF ServeTimeline
  <2>7. CASE ShowTimeline(p)
    <3>1. Shows(cards, pollChart[p])
      BY <1>5 DEF Shows
    <3>. QED
      BY <1>5, <1>6, <2>1, <2>7, <3>1 DEF ShowTimeline, PollOver, NothingShown
  <2>. QED
    BY <1>10, <2>2, <2>3, <2>4, <2>5, <2>6, <2>7 DEF PollStep, PageStep
<1>. QED
  BY <1>1, <1>9, <1>10

LEMMA NextRecent ==
  TypeOK /\ PageShowsTest /\ RepliesRecent /\ Progress /\ [Next]_vars => RepliesRecent'
<1>. SUFFICES ASSUME TypeOK, PageShowsTest, RepliesRecent, Progress, [Next]_vars
              PROVE  RepliesRecent'
  OBVIOUS
<1>1. UNCHANGED pageVars \/ \E p \in Polls : PollStep(p)
  BY TestGrows
<1>2. CASE UNCHANGED pageVars
  BY <1>2 DEF pageVars, RepliesRecent
<1>3. ASSUME NEW p \in Polls, PollStep(p) PROVE RepliesRecent'
  <2>. USE DEF RepliesRecent
  <2>1. /\ pollAt \in [Polls -> PollAt]
        /\ pollCards \in [Polls -> Nat \cup {NoCards}]
        /\ pollChart \in [Polls -> Seq(Nat)]
        /\ pollBase \in [Polls -> [cards : Nat \cup {NoCards}, chart : Seq(Nat)]]
    BY DEF TypeOK
  <2>2. CASE PollBegins(p)
    BY <2>1, <2>2 DEF PollBegins
  <2>3. CASE PollFails(p)
    BY <2>1, <2>3 DEF PollFails, PollOver
  <2>4. CASE ServeMetrics(p)
    <3>1. pollBase[p].cards <= Len(results) /\ pollBase' = pollBase
      BY <2>4 DEF PageShowsTest, ShowsTest, ServeMetrics
    <3>. QED
      BY <2>1, <2>4, <3>1 DEF ServeMetrics
  <2>5. CASE ShowMetrics(p)
    BY <2>1, <2>5 DEF ShowMetrics
  <2>6. CASE ServeTimeline(p)
    <3>1. /\ Len(pollBase[p].chart) <= Len(timeline) /\ pollBase' = pollBase
          /\ ~registered => pollBase[p].chart = <<>>
      BY <2>6 DEF PageShowsTest, ShowsTest, ServeTimeline
    <3>. QED
      BY <2>1, <2>6, <3>1 DEF ServeTimeline
  <2>7. CASE ShowTimeline(p)
    BY <2>1, <2>7 DEF ShowTimeline, PollOver
  <2>. QED
    BY <1>3, <2>2, <2>3, <2>4, <2>5, <2>6, <2>7 DEF PollStep, PageStep
<1>. QED
  BY <1>1, <1>2, <1>3

LEMMA NextAlone ==
  TypeOK /\ Progress /\ PollAlone /\ [Next]_vars => PollAlone'
<1>. SUFFICES ASSUME TypeOK, Progress, PollAlone, [Next]_vars,
                     \A p, q \in Polls : p = q,
                     NEW p \in Polls
              PROVE  /\ pollAt'[p] \in {"metrics", "metricsReply"} => pollBase'[p].cards = cards'
                     /\ pollAt'[p] # "idle" => pollBase'[p].chart = chart'
  BY DEF PollAlone
<1>1. /\ pollAt[p] \in {"metrics", "metricsReply"} => pollBase[p].cards = cards
      /\ pollAt[p] # "idle" => pollBase[p].chart = chart
  BY DEF PollAlone
<1>2. /\ pollAt \in [Polls -> PollAt]
      /\ pollBase \in [Polls -> [cards : Nat \cup {NoCards}, chart : Seq(Nat)]]
  BY DEF TypeOK
<1>3. UNCHANGED pageVars \/ PollStep(p)
  BY TestGrows
<1>4. CASE UNCHANGED pageVars
  BY <1>1, <1>4 DEF pageVars
<1>5. CASE PollBegins(p)
  BY <1>2, <1>5 DEF PollBegins
<1>6. CASE PollFails(p) \/ ShowTimeline(p)
  BY <1>2, <1>6 DEF PollFails, ShowTimeline, PollOver
<1>7. CASE ServeMetrics(p) \/ ServeTimeline(p)
  BY <1>1, <1>2, <1>7 DEF ServeMetrics, ServeTimeline
<1>8. CASE ShowMetrics(p)
  BY <1>1, <1>2, <1>8 DEF ShowMetrics
<1>. QED
  BY <1>3, <1>4, <1>5, <1>6, <1>7, <1>8 DEF PollStep, PageStep

-----------------------------------------------------------------------------
LEMMA InitInvariant == Init => IInv
<1>. SUFFICES ASSUME Init PROVE IInv
  OBVIOUS
<1>1. TypeOK
  BY InitTypes
<1>2. /\ phase = "start" /\ results = <<>> /\ timeline = <<>> /\ points = <<>>
      /\ findings = <<>> /\ files = [f \in Formats |-> "absent"]
  BY DEF Init, RunInit, ReportInit, DetectorInit
<1>3. Progress /\ Analyzed /\ Written /\ FilesTellOutcome
  BY <1>2 DEF Progress, Analyzed, Summarised, Written, FilesTellOutcome, BeforeRun,
     AfterRun, Reporting, BeforeAnalysis, Formats
<1>4. /\ registered = FALSE /\ cards = NoCards /\ chart = <<>>
      /\ \A p \in Polls : /\ pollAt[p] = "idle" /\ pollCards[p] = NoCards
                          /\ pollChart[p] = <<>> /\ pollBase[p].cards = NoCards
                          /\ pollBase[p].chart = <<>>
  BY DEF Init, DashInit, NothingShown
<1>5. PageShowsTest /\ RepliesRecent
  <2>1. ShowsTest(NoCards, <<>>)
    BY <1>2, <1>4 DEF ShowsTest, NoCards
  <2>. QED
    BY <1>4, <2>1 DEF PageShowsTest, RepliesRecent
<1>6. PollAlone
  BY <1>4 DEF PollAlone
<1>. QED
  BY <1>1, <1>3, <1>5, <1>6 DEF IInv

LEMMA CommandInvariantHolds == Spec => []IInv
<1>1. IInv /\ [Next]_vars => IInv'
  BY NextTypes, NextProgress, NextAnalyzed, NextWritten, NextFiles, NextPageShows,
     NextRecent, NextAlone DEF IInv
<1>. QED
  BY InitInvariant, <1>1, PTL DEF Spec

\* When the command exits the reports that were asked for are whole, and when it
\* fails one of them is cut short at most, with those before it whole
\* (main.py:147-160).
THEOREM FilesTell == Spec => []FilesTellOutcome
<1>1. IInv => FilesTellOutcome
  BY DEF IInv
<1>. QED
  BY CommandInvariantHolds, <1>1, PTL

\* The page shows something the test went through, whatever the order in which
\* polls are answered and their replies arrive (app.py:49-72,
\* dashboard.html:65-95).
THEOREM PageShows == Spec => []PageShowsTest
<1>1. IInv => PageShowsTest
  BY DEF IInv
<1>. QED
  BY CommandInvariantHolds, <1>1, PTL

\* Only the reply of a poll that was overtaken takes the page back: one poll at
\* a time would never do it (dashboard.html:65-95).
THEOREM PageForward == Spec => PageGoesForward
<1> DEFINE Forward ==
      /\ cards' < cards =>
           \E p \in Polls : pollAt[p] = "metricsReply" /\ pollBase[p].cards # cards
      /\ Len(chart') < Len(chart) =>
           \E p \in Polls : pollAt[p] = "timelineReply" /\ pollBase[p].chart # chart
<1>1. IInv /\ [Next]_vars => [Forward]_vars
  <2>. SUFFICES ASSUME IInv, [Next]_vars PROVE Forward
    OBVIOUS
  <2>1. /\ cards \in Int /\ Len(chart) \in Nat /\ RepliesRecent
        /\ \A p \in Polls : pollBase[p].cards \in Int /\ pollCards[p] \in Int
        /\ \A p \in Polls : Len(pollBase[p].chart) \in Nat
        /\ \A p \in Polls : Len(pollChart[p]) \in Nat
    BY DEF IInv, TypeOK, NoCards
  <2>2. UNCHANGED pageVars \/ \E p \in Polls : PollStep(p)
    BY TestGrows DEF IInv
  <2>3. CASE UNCHANGED pageVars
    BY <2>1, <2>3 DEF pageVars
  <2>4. ASSUME NEW p \in Polls, PollStep(p) PROVE Forward
    <3>1. CASE ShowMetrics(p)
      BY <2>1, <3>1 DEF ShowMetrics, RepliesRecent
    <3>2. CASE ShowTimeline(p)
      BY <2>1, <3>2 DEF ShowTimeline, RepliesRecent
    <3>3. CASE PollBegins(p) \/ PollFails(p) \/ ServeMetrics(p) \/ ServeTimeline(p)
      BY <2>1, <3>3 DEF PollBegins, PollFails, ServeMetrics, ServeTimeline
    <3>. QED
      BY <2>4, <3>1, <3>2, <3>3 DEF PollStep, PageStep
  <2>. QED
    BY <2>2, <2>3, <2>4
<1>. QED
  BY CommandInvariantHolds, <1>1, PTL DEF Spec, PageGoesForward

\* A page that began no poll before the last one was through would never go
\* back: what it shows only grows (dashboard.html:65-95).
THEOREM OnePollGoesForward ==
  ASSUME \A p, q \in Polls : p = q
  PROVE  Spec => [][cards <= cards' /\ Len(chart) <= Len(chart')]_vars
<1>1. IInv /\ [Next]_vars => [cards <= cards' /\ Len(chart) <= Len(chart')]_vars
  <2>. SUFFICES ASSUME IInv, [Next]_vars
                PROVE  cards <= cards' /\ Len(chart) <= Len(chart')
    OBVIOUS
  <2>1. /\ cards \in Int /\ Len(chart) \in Nat /\ RepliesRecent /\ PollAlone
        /\ \A p \in Polls : Len(pollChart[p]) \in Nat
    BY DEF IInv, TypeOK, NoCards
  <2>2. UNCHANGED pageVars \/ \E p \in Polls : PollStep(p)
    BY TestGrows DEF IInv
  <2>3. CASE UNCHANGED pageVars
    BY <2>1, <2>3 DEF pageVars
  <2>4. ASSUME NEW p \in Polls, PollStep(p)
        PROVE  cards <= cards' /\ Len(chart) <= Len(chart')
    <3>1. CASE ShowMetrics(p)
      BY <2>1, <3>1 DEF ShowMetrics, RepliesRecent, PollAlone
    <3>2. CASE ShowTimeline(p)
      BY <2>1, <3>2 DEF ShowTimeline, RepliesRecent, PollAlone
    <3>3. CASE PollBegins(p) \/ PollFails(p) \/ ServeMetrics(p) \/ ServeTimeline(p)
      BY <2>1, <3>3 DEF PollBegins, PollFails, ServeMetrics, ServeTimeline
    <3>. QED
      BY <2>4, <3>1, <3>2, <3>3 DEF PollStep, PageStep
  <2>. QED
    BY <2>2, <2>3, <2>4
<1>. QED
  BY CommandInvariantHolds, <1>1, PTL DEF Spec

\* Results come during run() and at no other time, and points cover what is
\* there and never less than before, as run() promises whoever calls it
\* (scheduler.py:44-88, statistics.py:44-48).
THEOREM RunPromised == Spec => RunAsPromised
<1>1. Init => Contract!Init
  BY DEF Init, RunInit, Sampled, Contract!Init, Contract!Nothing
<1>2. IInv /\ [Next]_vars => [Contract!Next]_(Contract!vars)
  <2>. SUFFICES ASSUME IInv, [Next]_vars
                PROVE  Contract!Next \/ UNCHANGED Contract!vars
    OBVIOUS
  <2>. USE DEF Contract!Next, Contract!vars
  <2>1. UNCHANGED runVars => UNCHANGED <<Sampled, results>>
    BY DEF runVars, Sampled
  <2>2. CASE UNCHANGED commandVars
    BY <2>1, <2>2 DEF commandVars
  <2>3. CASE ServeAlone \/ AttachDashboard
    BY <2>1, <2>3 DEF ServeAlone, AttachDashboard, Goto
  <2>4. CASE RunBegins
    <3>1. /\ phase # "running" /\ phase' = "running" /\ results' = <<>>
          /\ timeline = <<>> /\ timeline' = <<>>
      BY <2>4 DEF RunBegins, Goto, Reset, IInv, Progress, BeforeRun
    <3>. QED
      BY <3>1 DEF Contract!Begin, Contract!Nothing, Sampled
  <2>5. CASE RunReturns
    BY <2>1, <2>5 DEF RunReturns, Goto, Contract!End
  <2>6. ASSUME NEW r \in args.answers, RecordResult(r) PROVE Contract!Next
    <3>1. /\ phase = "running" /\ phase' = phase /\ UNCHANGED Sampled
          /\ Len(results') = Len(results) + 1
      <4>1. results \in Seq(args.answers)
        BY DEF IInv, TypeOK
      <4>. QED
        BY <2>6, <4>1 DEF RecordResult, Gather, Sampled
    <3>. QED
      BY <3>1 DEF Contract!Gather
  <2>7. CASE RecordPoint
    <3>1. PICK n \in 0..Len(results) : SamplePoint(n)
      BY <2>7 DEF RecordPoint
    <3>2. /\ timeline \in Seq(Nat) /\ Len(timeline) \in Nat /\ n \in Nat
          /\ Len(results) \in Nat /\ Sampled \in Nat
      BY <3>1 DEF IInv, TypeOK, Sampled
    <3>3. /\ timeline' = Append(timeline, n) /\ UNCHANGED <<results, phase>>
          /\ Sampled <= n /\ n <= Len(results)
      BY <2>7, <3>1, <3>2 DEF RecordPoint, SamplePoint
    <3>4. Sampled' = n
      BY <3>2, <3>3 DEF Sampled
    <3>5. [w \in {"all"} |-> n] \in [{"all"} -> Nat]
      BY <3>2
    <3>. QED
      BY <3>3, <3>4, <3>5 DEF Contract!Sample
  <2>8. CASE Analyze \/ ReadResults \/ ReadTimeline
    BY <2>1, <2>8 DEF Analyze, ReadResults, ReadTimeline, Goto
  <2>9. ASSUME NEW f \in Formats, BeginFile(f) \/ FinishFile(f) \/ SkipFile(f)
        PROVE  UNCHANGED Contract!vars
    BY <2>1, <2>9 DEF BeginFile, FinishFile, SkipFile, Goto, Formats, NextFormat
  <2>10. CASE Fails
    BY <2>1, <2>10 DEF Fails, Contract!End
  <2>. QED
    BY <2>2, <2>3, <2>4, <2>5, <2>6, <2>7, <2>8, <2>9, <2>10, ServerAndPage DEF Next
<1>. QED
  BY CommandInvariantHolds, <1>1, <1>2, PTL DEF Spec, RunAsPromised, Contract!Spec

-----------------------------------------------------------------------------
(***************************************************************************)
(* What the summary says of the results.                                   *)
(***************************************************************************)
\* The shares of the results below and above a percentile of their times.
LEMMA ResultShares ==
  ASSUME NEW rs \in Seq(Result), rs # <<>>, NEW q \in Quantiles,
         NEW A \in SUBSET 1..Len(rs)
  PROVE  LET x == Percentile(Latencies(rs), q)
             n == Len(rs)
         IN /\ x \in Nat
            /\ (\A i \in A : 100 * rs[i].time < x)
                 => 100 * Cardinality(A) < q * (n - 1) + 100
            /\ (\A i \in A : 100 * rs[i].time > x)
                 => 100 * Cardinality(A) < (100 - q) * (n - 1) + 100
<1> DEFINE ls == Latencies(rs)
<1>1. /\ ls \in Seq(Nat) /\ Len(ls) = Len(rs) /\ Len(ls) # 0
      /\ A \in SUBSET DOMAIN ls /\ \A i \in A : ls[i] = rs[i].time
  BY LatenciesTyped
<1> HIDE DEF ls
<1>2. Percentile(ls, q) \in Nat
  BY <1>1, PercentilesAscend
<1>. QED
  BY <1>1, <1>2, PercentileShares DEF ls

LEMMA RanksOfSummary == IInv => PercentilesRanked
<1>. SUFFICES ASSUME IInv, Summarised, results # <<>>
              PROVE  PercentilesRanked
  BY DEF PercentilesRanked
<1> DEFINE n == Len(results)
           s == snapshot
           faster(x) == {i \in 1..n : 100 * results[i].time < x}
           slower(x) == {i \in 1..n : 100 * results[i].time > x}
           Ranked(q, x) ==
             /\ 100 * Cardinality(faster(x)) < q * (n - 1) + 100
             /\ 100 * Cardinality(slower(x)) < (100 - q) * (n - 1) + 100
<1>1. results \in Seq(Result) /\ snapshot = SnapshotOf(results)
  BY AnswersTyped DEF IInv, TypeOK, Analyzed
<1>2. ASSUME NEW q \in Quantiles
      PROVE  Ranked(q, Percentile(Latencies(results), q))
  BY <1>1, <1>2, ResultShares
<1>3. /\ s.p50 = Percentile(Latencies(results), 50)
      /\ s.p90 = Percentile(Latencies(results), 90)
      /\ s.p95 = Percentile(Latencies(results), 95)
      /\ s.p99 = Percentile(Latencies(results), 99)
  BY <1>1 DEF SnapshotOf
<1>4. Ranked(50, s.p50) /\ Ranked(90, s.p90) /\ Ranked(95, s.p95) /\ Ranked(99, s.p99)
  <2>1. 50 \in Quantiles /\ 90 \in Quantiles /\ 95 \in Quantiles /\ 99 \in Quantiles
    BY DEF Quantiles
  <2> HIDE DEF Ranked
  <2>. QED
    BY <1>2, <1>3, <2>1
<1>5. /\ 100 * s.latency_min <= s.p50 /\ s.p50 <= s.p90 /\ s.p90 <= s.p95
      /\ s.p95 <= s.p99 /\ s.p99 <= 100 * s.latency_max
      /\ s.p50 = s.latency_median
      /\ n * s.latency_min <= s.latency_sum
      /\ s.latency_sum <= n * s.latency_max
  BY <1>1, PercentilesOfSnapshot
<1>6. \A q \in {<<50, s.p50>>, <<90, s.p90>>, <<95, s.p95>>, <<99, s.p99>>} :
        Ranked(q[1], q[2])
  <2> HIDE DEF Ranked
  <2>. QED
    BY <1>4
<1>. QED
  BY <1>5, <1>6 DEF PercentilesRanked

\* Percentiles are in order and the shares of the requests below and above them
\* are what their names say, for tests of any length (metrics.py:70-89,
\* helpers.py:10-39).
THEOREM SummaryRanked == Spec => []PercentilesRanked
BY CommandInvariantHolds, RanksOfSummary, PTL

-----------------------------------------------------------------------------
(***************************************************************************)
(* What the detector says of the results.                                  *)
(***************************************************************************)
LEMMA NothingFound == HttpFindings(SnapshotOf(<<>>)) = <<>>
<1> DEFINE s == SnapshotOf(<<>>)
<1>1. <<>> \in Seq(Result) /\ Failures(<<>>) = {}
  BY DEF Failures
<1>2. s.total_requests = 0 /\ s.failed_requests = 0 /\ s.p95 = 0 /\ s.p99 = 0
  <2>1. Latencies(<<>>) \in Seq(Nat) /\ Len(Latencies(<<>>)) = Len(<<>>)
    BY <1>1, LatenciesTyped
  <2>2. Percentile(Latencies(<<>>), 95) = 0 /\ Percentile(Latencies(<<>>), 99) = 0
    BY <2>1 DEF Percentile
  <2>3. Cardinality(Failures(<<>>)) = 0
    BY <1>1, FS_EmptySet
  <2>. QED
    BY <2>2, <2>3 DEF SnapshotOf
<1> HIDE DEF s
<1>3. LatencyFindings(s) = <<>>
  BY <1>2, HttpAnalysisAssumption DEF LatencyFindings, When
<1>4. ErrorFindings(s) = <<>> /\ CauseFindings(s) = <<>>
  BY <1>2, HttpAnalysisAssumption DEF ErrorFindings, CauseFindings, AtLeast, When
<1>. QED
  BY <1>3, <1>4 DEF HttpFindings, s

\* A finding by a percentile, and the share of slow answers.
LEMMA SlowShare ==
  ASSUME NEW rs \in Seq(Result), rs # <<>>, NEW q \in Quantiles, NEW time \in Nat
  PROVE  LET n    == Len(rs)
             slow == {i \in 1..n : rs[i].time > time}
             over == Percentile(Latencies(rs), q) > 100 * time
         IN /\ over => 100 * (n - Cardinality(slow)) < q * (n - 1) + 100
            /\ 100 * Cardinality(slow) >= (100 - q) * (n - 1) + 100 => over
<1> DEFINE n == Len(rs)
           slow == {i \in 1..n : rs[i].time > time}
           fast == (1..n) \ slow
           x == Percentile(Latencies(rs), q)
<1>1. /\ n \in Nat /\ IsFiniteSet(1..n) /\ Cardinality(1..n) = n
      /\ \A i \in 1..n : rs[i].time \in Nat
  BY LatenciesTyped
<1>2. Cardinality(slow) \in Nat /\ Cardinality(fast) = n - Cardinality(slow)
  <2>1. IsFiniteSet(slow) /\ IsFiniteSet(fast)
    BY <1>1, FS_Subset
  <2>2. slow \cap fast = {} /\ slow \cup fast = 1..n
    OBVIOUS
  <2>3. Cardinality(slow) \in Nat /\ Cardinality(fast) \in Nat
    BY <2>1, FS_CardinalityType
  <2> HIDE DEF fast, slow
  <2>4. Cardinality(slow) + Cardinality(fast) = n
    BY <1>1, <2>1, <2>2, DisjointUnion
  <2>. QED
    BY <1>1, <2>3, <2>4
<1>3. x \in Nat
  BY ResultShares
<1>4. x > 100 * time => 100 * Cardinality(fast) < q * (n - 1) + 100
  <2>1. x > 100 * time => \A i \in fast : 100 * rs[i].time < x
    <3> HIDE DEF x, n
    <3>. QED
      BY <1>1, <1>3
  <2>2. fast \in SUBSET 1..n
    OBVIOUS
  <2>3. (\A i \in fast : 100 * rs[i].time < x)
          => 100 * Cardinality(fast) < q * (n - 1) + 100
    <3> HIDE DEF fast
    <3>. QED
      BY <2>2, ResultShares
  <2>. QED
    BY <2>1, <2>3
<1>5. ~(x > 100 * time) => 100 * Cardinality(slow) < (100 - q) * (n - 1) + 100
  <2>1. ~(x > 100 * time) => \A i \in slow : 100 * rs[i].time > x
    <3> HIDE DEF x, n
    <3>. QED
      BY <1>1, <1>3
  <2>2. slow \in SUBSET 1..n
    OBVIOUS
  <2>3. (\A i \in slow : 100 * rs[i].time > x)
          => 100 * Cardinality(slow) < (100 - q) * (n - 1) + 100
    <3> HIDE DEF slow
    <3>. QED
      BY <2>2, ResultShares
  <2>. QED
    BY <2>1, <2>3
<1>6. q \in Nat /\ (100 - q) \in Nat
  BY DEF Quantiles
<1>7. (100 - q) * (n - 1) \in Int
  BY <1>1, <1>6
<1> HIDE DEF x, n, fast, slow
<1>8. x > 100 * time => 100 * (n - Cardinality(slow)) < q * (n - 1) + 100
  BY <1>2, <1>4
<1>9. 100 * Cardinality(slow) >= (100 - q) * (n - 1) + 100 => x > 100 * time
  <2> DEFINE left == (100 - q) * (n - 1)
  <2>1. left \in Int /\ (~(x > 100 * time) => 100 * Cardinality(slow) < left + 100)
    BY <1>5, <1>7
  <2> HIDE DEF left
  <2>2. 100 * Cardinality(slow) >= left + 100 => x > 100 * time
    BY <1>2, <2>1
  <2>. QED
    BY <2>2 DEF left
<1>. QED
  BY <1>8, <1>9 DEF x, n, slow

\* The findings of a run with results, in terms of these.
LEMMA FindingsOfResults ==
  ASSUME NEW rs \in Seq(Result), rs # <<>>
  PROVE  LET n == Len(rs)
             fs == HttpFindings(SnapshotOf(rs))
             share(S, percent) == 100 * Cardinality(S) >= percent * n
         IN /\ fs \in Seq(Findings) /\ Distinct(fs) /\ n \in Nat /\ n > 0
            /\ Reported(fs, Finding("latency", "warning")) <=>
                 Percentile(Latencies(rs), 95) > 100 * SlowP95
            /\ Reported(fs, Finding("latency", "critical")) <=>
                 Percentile(Latencies(rs), 99) > 100 * SlowP99
            /\ Reported(fs, Finding("errors", "critical")) <=>
                 share(Failures(rs), ErrorCritical)
            /\ Reported(fs, Finding("errors", "warning")) <=>
                 /\ share(Failures(rs), ErrorWarning)
                 /\ ~share(Failures(rs), ErrorCritical)
            /\ Reported(fs, Finding("timeouts", "warning")) <=>
                 share(OfKind(rs, "timeout"), TimeoutWarning)
            /\ Reported(fs, Finding("connections", "warning")) <=>
                 OfKind(rs, "connection_error") # {}
            /\ Reported(fs, Finding("dns", "warning")) <=> MentionDns(rs) # {}
<1> DEFINE n  == Len(rs)
           s  == SnapshotOf(rs)
           fs == HttpFindings(s)
           refused == OfKind(rs, "connection_error")
<1>1. /\ s.total_requests = n /\ s.failed_requests = Cardinality(Failures(rs))
      /\ s.timeout_count = Cardinality(OfKind(rs, "timeout"))
      /\ s.connection_failures = Cardinality(refused)
      /\ s.dns_failures = Cardinality(MentionDns(rs))
      /\ s.p95 = Percentile(Latencies(rs), 95)
      /\ s.p99 = Percentile(Latencies(rs), 99)
  BY DEF SnapshotOf
<1>2. s \in SnapshotType /\ n \in Nat /\ n > 0
  <2>1. s \in SnapshotType
    BY SnapshotTyped
  <2>. QED
    BY <2>1
<1>3. Cardinality(refused) > 0 <=> refused # {}
  <2>1. IsFiniteSet(refused) /\ Cardinality(refused) \in Nat
    BY FailuresFinite
  <2> HIDE DEF refused
  <2>. QED
    BY <2>1, FS_EmptySet
<1>4. Cardinality(MentionDns(rs)) > 0 <=> MentionDns(rs) # {}
  <2>1. IsFiniteSet(MentionDns(rs)) /\ Cardinality(MentionDns(rs)) \in Nat
    BY FailuresFinite
  <2>2. ASSUME NEW S, IsFiniteSet(S), Cardinality(S) \in Nat
        PROVE  Cardinality(S) > 0 <=> S # {}
    BY <2>2, FS_EmptySet
  <2>. QED
    BY <2>1, <2>2
<1> HIDE DEF s, n, refused
<1>5. /\ fs \in Seq(Findings) /\ Distinct(fs)
      /\ \A x : Reported(fs, x) <=>
           \/ s.p95 > 100 * SlowP95 /\ x = Finding("latency", "warning")
           \/ s.p99 > 100 * SlowP99 /\ x = Finding("latency", "critical")
           \/ /\ AtLeast(ErrorCritical, s.failed_requests, n)
              /\ x = Finding("errors", "critical")
           \/ /\ ~AtLeast(ErrorCritical, s.failed_requests, n)
              /\ AtLeast(ErrorWarning, s.failed_requests, n)
              /\ x = Finding("errors", "warning")
           \/ /\ AtLeast(TimeoutWarning, s.timeout_count, n)
              /\ x = Finding("timeouts", "warning")
           \/ s.connection_failures > 0 /\ x = Finding("connections", "warning")
           \/ s.dns_failures > 0 /\ x = Finding("dns", "warning")
  <2>1. n # 0
    BY <1>2
  <2>. QED
    BY <1>1, <1>2, <2>1, HttpFindingsReport
<1> HIDE DEF fs
<1>6. /\ Reported(fs, Finding("latency", "warning")) <=> s.p95 > 100 * SlowP95
      /\ Reported(fs, Finding("latency", "critical")) <=> s.p99 > 100 * SlowP99
      /\ Reported(fs, Finding("errors", "critical")) <=>
           AtLeast(ErrorCritical, s.failed_requests, n)
      /\ Reported(fs, Finding("errors", "warning")) <=>
           /\ AtLeast(ErrorWarning, s.failed_requests, n)
           /\ ~AtLeast(ErrorCritical, s.failed_requests, n)
      /\ Reported(fs, Finding("timeouts", "warning")) <=>
           AtLeast(TimeoutWarning, s.timeout_count, n)
      /\ Reported(fs, Finding("connections", "warning")) <=> s.connection_failures > 0
      /\ Reported(fs, Finding("dns", "warning")) <=> s.dns_failures > 0
  BY <1>5, FindingsDiffer
<1>7. \A percent, part : AtLeast(percent, part, n) <=> 100 * part >= percent * n
  BY <1>2 DEF AtLeast
<1>. QED
  BY <1>1, <1>2, <1>3, <1>4, <1>5, <1>6, <1>7 DEF fs, s, n, refused

LEMMA FindingsOfRun == IInv => FindingsDescribeRun
<1>. SUFFICES ASSUME IInv, Summarised PROVE FindingsDescribeRun
  BY DEF FindingsDescribeRun
<1> DEFINE n == Len(results)
           reported(c, s) == \E k \in DOMAIN findings : findings[k] = Finding(c, s)
           share(S, percent) == n > 0 /\ 100 * Cardinality(S) >= percent * n
           slow(time) == {i \in 1..n : results[i].time > time}
           failed == {i \in 1..n : results[i].kind # "ok"}
           failedBy(kind) == {i \in failed : results[i].kind = kind}
           late(c, s, time, percent) ==
             /\ reported(c, s) => 100 * (n - Cardinality(slow(time)))
                                    < percent * (n - 1) + 100
             /\ 100 * Cardinality(slow(time)) >= (100 - percent) * (n - 1) + 100
                  => reported(c, s)
<1>1. /\ results \in Seq(Result) /\ findings = HttpFindings(SnapshotOf(results))
      /\ DOMAIN results = 1..n
  BY AnswersTyped DEF IInv, TypeOK, Analyzed
<1>2. failed = Failures(results) /\ \A k : failedBy(k) = OfKind(results, k)
  BY <1>1 DEF Failures, OfKind
<1>3. (\E i \in failed : results[i].dns) <=> MentionDns(results) # {}
  BY <1>2 DEF MentionDns
<1>4. CASE results = <<>>
  <2>1. findings = <<>> /\ n = 0
    BY <1>1, <1>4, NothingFound
  <2>2. failed = {} /\ \A time : slow(time) = {}
    BY <2>1
  <2>3. \A c, s : ~reported(c, s)
    BY <2>1
  <2>4. Cardinality({}) = 0
    BY FS_EmptySet
  <2>5. ~ 100 * 0 >= (100 - 95) * (0 - 1) + 100 /\ ~ 100 * 0 >= (100 - 99) * (0 - 1) + 100
    OBVIOUS
  <2>6. late("latency", "warning", SlowP95, 95) /\ late("latency", "critical", SlowP99, 99)
    BY <2>1, <2>2, <2>3, <2>4, <2>5
  <2>7. /\ n = 0 => findings = <<>>
        /\ \A S, percent : ~share(S, percent)
        /\ \A k : failedBy(k) = {}
        /\ ~ \E i \in failed : results[i].dns
        /\ \A j, k \in DOMAIN findings : findings[j] = findings[k] => j = k
    BY <2>1, <2>2
  <2> HIDE DEF reported, share, late, failedBy, slow
  <2>. QED
    BY <2>3, <2>6, <2>7 DEF FindingsDescribeRun, reported, share, late, failedBy, slow
<1>5. CASE results # <<>>
  <2>1. \A c, s : reported(c, s) <=> Reported(findings, Finding(c, s))
    BY DEF Reported
  <2>2. n > 0 /\ n # 0
    BY <1>1, <1>5
  <2>3. /\ reported("latency", "warning") <=>
             Percentile(Latencies(results), 95) > 100 * SlowP95
        /\ reported("latency", "critical") <=>
             Percentile(Latencies(results), 99) > 100 * SlowP99
        /\ reported("errors", "critical") <=> share(failed, ErrorCritical)
        /\ reported("errors", "warning") <=>
             share(failed, ErrorWarning) /\ ~share(failed, ErrorCritical)
        /\ reported("timeouts", "warning") <=> share(failedBy("timeout"), TimeoutWarning)
        /\ reported("connections", "warning") <=> failedBy("connection_error") # {}
        /\ reported("dns", "warning") <=> \E i \in failed : results[i].dns
        /\ \A j, k \in DOMAIN findings : findings[j] = findings[k] => j = k
    <3> HIDE DEF reported, failed, failedBy
    <3>. QED
      BY <1>1, <1>2, <1>3, <1>5, <2>1, <2>2, FindingsOfResults DEF Distinct
  <2>4. /\ late("latency", "warning", SlowP95, 95)
        /\ late("latency", "critical", SlowP99, 99)
    <3>1. 95 \in Quantiles /\ 99 \in Quantiles /\ SlowP95 \in Nat /\ SlowP99 \in Nat
      BY HttpAnalysisAssumption DEF Quantiles
    <3>2. ASSUME NEW q \in Quantiles, NEW time \in Nat, NEW c, NEW s,
                 reported(c, s) <=> Percentile(Latencies(results), q) > 100 * time
          PROVE  late(c, s, time, q)
      <4>1. LET x == Percentile(Latencies(results), q) > 100 * time
            IN /\ x => 100 * (n - Cardinality(slow(time))) < q * (n - 1) + 100
               /\ 100 * Cardinality(slow(time)) >= (100 - q) * (n - 1) + 100 => x
        BY <1>1, <1>5, SlowShare
      <4> HIDE DEF reported, slow, n
      <4>. QED
        BY <3>2, <4>1 DEF slow
    <3> HIDE DEF reported, late
    <3>. QED
      BY <2>3, <3>1, <3>2
  <2> HIDE DEF reported, share, late, failedBy, slow, failed
  <2>. QED
    BY <2>2, <2>3, <2>4
       DEF FindingsDescribeRun, reported, share, late, failedBy, slow, failed, n
<1>. QED
  BY <1>4, <1>5

\* The findings of a load test follow from its results, and slow answers are
\* reported if more than the share a percentile leaves out was slow, and not if
\* it was less (bottleneck_detector.py:44-122).
THEOREM FindingsDescribe == Spec => []FindingsDescribeRun
BY CommandInvariantHolds, FindingsOfRun, PTL

-----------------------------------------------------------------------------
(***************************************************************************)
(* What the reports say of the results.                                    *)
(***************************************************************************)
\* The colour follows the share of failures by the template's numbers, the
\* error finding by the detector's.
LEMMA BadgeAndFindings ==
  ASSUME NEW rs \in Seq(Result), rs # <<>>
  PROVE  LET s    == SnapshotOf(rs)
             fs   == HttpFindings(s)
             part == Cardinality(Failures(rs))
             over(percent) == 100 * part >= percent * Len(rs)
         IN /\ Badge(s) # "ok" <=> over(BadgeWarning)
            /\ Badge(s) = "bad" <=> over(BadgeCritical)
            /\ Reported(fs, Finding("errors", "warning"))
                 \/ Reported(fs, Finding("errors", "critical")) <=> over(ErrorWarning)
            /\ Reported(fs, Finding("errors", "critical")) <=> over(ErrorCritical)
<1> DEFINE n  == Len(rs)
           part == Cardinality(Failures(rs))
           s  == SnapshotOf(rs)
           fs == HttpFindings(s)
<1>1. s.total_requests = n /\ s.failed_requests = part
  BY DEF SnapshotOf
<1>2. /\ n \in Nat /\ n > 0 /\ part \in Nat
      /\ Reported(fs, Finding("errors", "critical")) <=> 100 * part >= ErrorCritical * n
      /\ Reported(fs, Finding("errors", "warning")) <=>
           100 * part >= ErrorWarning * n /\ ~(100 * part >= ErrorCritical * n)
  BY FindingsOfResults, FailuresFinite
<1> HIDE DEF n, part, s, fs
<1>3. /\ ErrorWarning * n <= ErrorCritical * n
      /\ BadgeWarning * n <= BadgeCritical * n
  BY <1>2, ProductAscends, HttpAnalysisAssumption, ReportAssumption
<1>4. /\ ErrorWarning * n \in Nat /\ ErrorCritical * n \in Nat
      /\ BadgeWarning * n \in Nat /\ BadgeCritical * n \in Nat
  BY <1>2, HttpAnalysisAssumption, ReportAssumption
<1>5. \A percent : AtLeast(percent, part, n) <=> 100 * part >= percent * n
  BY <1>2 DEF AtLeast
<1>6. /\ Badge(s) # "ok" <=> AtLeast(BadgeWarning, part, n)
      /\ Badge(s) = "bad" <=> /\ AtLeast(BadgeWarning, part, n)
                              /\ AtLeast(BadgeCritical, part, n)
  BY <1>1 DEF Badge
<1>7. /\ 100 * part >= ErrorCritical * n => 100 * part >= ErrorWarning * n
      /\ 100 * part >= BadgeCritical * n => 100 * part >= BadgeWarning * n
  BY <1>2, <1>3, <1>4
<1>. QED
  BY <1>2, <1>5, <1>6, <1>7 DEF s, fs, n, part

\* No error finding, and no colour, for a run without results.
LEMMA BadgeOfNothing == Badge(SnapshotOf(<<>>)) = "ok"
<1>1. Cardinality(Failures(<<>>)) = 0
  BY FS_EmptySet DEF Failures
<1>2. /\ SnapshotOf(<<>>).total_requests = 0
      /\ SnapshotOf(<<>>).failed_requests = 0
  BY <1>1 DEF SnapshotOf
<1>. QED
  BY <1>2, ReportAssumption DEF Badge, AtLeast

\* Slices and bars count the rows, and span their times.
LEMMA DrawingsCount ==
  ASSUME NEW rs \in Seq(Result)
  PROVE  LET s == SnapshotOf(rs)
             h == Histogram(Latencies(rs))
             p == Pie(s.successful_requests, s.failed_requests)
         IN /\ p = <<>> <=> rs = <<>>
            /\ SumOver(h, DOMAIN h) = Len(rs)
            /\ rs # <<>> =>
                 /\ p[1] = Cardinality({i \in DOMAIN rs : rs[i].kind = "ok"})
                 /\ p[1] + p[2] = Len(rs)
                 /\ s.latency_min \in DOMAIN h /\ s.latency_max \in DOMAIN h
                 /\ \A b \in DOMAIN h : s.latency_min <= b /\ b <= s.latency_max
<1> DEFINE s == SnapshotOf(rs)
           h == Histogram(Latencies(rs))
           p == Pie(s.successful_requests, s.failed_requests)
           ok == Cardinality(DOMAIN rs \ Failures(rs))
           bad == Cardinality(Failures(rs))
<1>1. s.successful_requests = ok /\ s.failed_requests = bad
  BY DEF SnapshotOf
<1>2. ok \in Nat /\ bad \in Nat /\ ok + bad = Len(rs)
  BY FailuresFinite
<1>3. Len(rs) \in Nat /\ (Len(rs) = 0 <=> rs = <<>>)
  OBVIOUS
<1>4. DOMAIN rs \ Failures(rs) = {i \in DOMAIN rs : rs[i].kind = "ok"}
  BY DEF Failures
<1>5. /\ SumOver(h, DOMAIN h) = Len(rs)
      /\ DOMAIN h = {Latencies(rs)[i] : i \in DOMAIN rs}
  BY HistogramCounts
<1>6. \A i \in DOMAIN rs : Latencies(rs)[i] = rs[i].time
  BY LatenciesTyped
<1>7. rs # <<>> =>
        /\ s.latency_min \in DOMAIN h /\ s.latency_max \in DOMAIN h
        /\ \A b \in DOMAIN h : s.latency_min <= b /\ b <= s.latency_max
  <2>. SUFFICES ASSUME rs # <<>>
                PROVE  /\ s.latency_min \in DOMAIN h /\ s.latency_max \in DOMAIN h
                       /\ \A b \in DOMAIN h : s.latency_min <= b /\ b <= s.latency_max
    OBVIOUS
  <2>1. /\ s.latency_min \in {Latencies(rs)[i] : i \in DOMAIN rs}
        /\ s.latency_max \in {Latencies(rs)[i] : i \in DOMAIN rs}
        /\ \A i \in DOMAIN rs : s.latency_min <= rs[i].time /\ rs[i].time <= s.latency_max
    BY Extremes
  <2> HIDE DEF s, h
  <2>. QED
    BY <1>5, <1>6, <2>1
<1>8. /\ p = <<>> <=> rs = <<>>
      /\ rs # <<>> => p[1] = ok /\ p[1] + p[2] = Len(rs)
  <2>1. p = IF ok + bad > 0 THEN <<ok, bad>> ELSE <<>>
    BY <1>1 DEF Pie
  <2>2. ok + bad > 0 <=> rs # <<>>
    BY <1>2, <1>3
  <2> HIDE DEF p, ok, bad
  <2>3. <<ok, bad>> # <<>>
    OBVIOUS
  <2>. QED
    BY <1>2, <2>1, <2>2, <2>3
<1> HIDE DEF s, h, p
<1>. QED
  BY <1>4, <1>5, <1>7, <1>8 DEF s, h, p, ok

LEMMA ReportsOfRun == IInv => ReportsAgree
<1>. SUFFICES ASSUME IInv, phase \in Reporting PROVE ReportsAgree
  BY DEF ReportsAgree, Reporting
<1>1. /\ results \in Seq(Result) /\ raw = results /\ snapshot = SnapshotOf(results)
      /\ findings = HttpFindings(SnapshotOf(results)) /\ findings \in Seq(Findings)
      /\ points \in Seq(Nat) /\ \A i \in DOMAIN points : points[i] <= Len(raw)
  BY AnswersTyped DEF IInv, TypeOK, Analyzed, Summarised, Reporting, Progress, Findings
<1>2. snapshot.total_requests = Len(raw)
  BY <1>1 DEF SnapshotOf
<1>3. \A i \in DOMAIN JsonReport.raw_results_sample :
        JsonReport.raw_results_sample[i] = raw[i]
  <2> DEFINE k == IF Len(raw) < SampleSize THEN Len(raw) ELSE SampleSize
  <2>1. k \in Nat
    BY <1>1, ReportAssumption
  <2> HIDE DEF k
  <2>2. \A i \in DOMAIN SubSeq(raw, 1, k) : SubSeq(raw, 1, k)[i] = raw[i]
    BY <1>1, <2>1
  <2>. QED
    BY <2>2 DEF JsonReport, k
<1>4. LET h == HtmlReport.histogram
          p == HtmlReport.pie
      IN /\ p = <<>> <=> raw = <<>>
         /\ SumOver(h, DOMAIN h) = Len(raw)
         /\ raw # <<>> =>
              /\ p[1] = Cardinality({i \in DOMAIN raw : raw[i].kind = "ok"})
              /\ p[1] + p[2] = Len(raw)
              /\ snapshot.latency_min \in DOMAIN h /\ snapshot.latency_max \in DOMAIN h
              /\ \A b \in DOMAIN h :
                   snapshot.latency_min <= b /\ b <= snapshot.latency_max
  BY <1>1, DrawingsCount DEF HtmlReport
<1>5. \A i \in DOMAIN HtmlReport.throughput : HtmlReport.throughput[i][2] <= Len(raw)
  BY <1>1 DEF HtmlReport, ThroughputLine
<1>6. LET failed == Cardinality({i \in DOMAIN raw : raw[i].kind # "ok"})
          over(percent) == raw # <<>> /\ 100 * failed >= percent * Len(raw)
          found(severity) == Reported(findings, Finding("errors", severity))
      IN /\ Badge(snapshot) # "ok" <=> over(BadgeWarning)
         /\ Badge(snapshot) = "bad" <=> over(BadgeCritical)
         /\ found("warning") \/ found("critical") <=> over(ErrorWarning)
         /\ found("critical") <=> over(ErrorCritical)
  <2>1. CASE results = <<>>
    <3>1. Badge(snapshot) = "ok" /\ findings = <<>>
      BY <1>1, <2>1, NothingFound, BadgeOfNothing
    <3>. QED
      BY <1>1, <2>1, <3>1, NothingReported
  <2>2. CASE results # <<>>
    BY <1>1, <2>2, BadgeAndFindings DEF Failures
  <2>. QED
    BY <2>1, <2>2
<1>7. LET by == Summary(findings).by_severity
      IN Summary(findings).total_findings = by["critical"] + by["warning"] + by["info"]
  BY <1>1, SummaryCounts
<1>8. HtmlReport.bottlenecks.rows = JsonReport.bottlenecks.findings
  BY DEF HtmlReport, JsonReport, FindingsTable
<1>9. /\ JsonReport.raw_result_count = Len(raw) /\ JsonReport.metrics = snapshot
      /\ CsvReport = raw /\ JsonReport.bottlenecks = Summary(findings)
      /\ HtmlReport.cards.success_rate = Badge(snapshot)
      /\ HtmlReport.latency.min = snapshot.latency_min
      /\ HtmlReport.latency.max = snapshot.latency_max
  BY DEF JsonReport, CsvReport, HtmlReport, Cards, LatencyRow
<1>. QED
  BY <1>2, <1>3, <1>4, <1>5, <1>6, <1>7, <1>8, <1>9 DEF ReportsAgree, Reported

\* Totals, rows, slices and bars of the three reports are equally many, and the
\* colour of the success rate and the error finding contradict each other only
\* where the template's numbers and the detector's part (main.py:147-160,
\* json_report.py, html_report.py:68, csv_report.py, charts.py).
THEOREM ReportsFit == Spec => []ReportsAgree
BY CommandInvariantHolds, ReportsOfRun, PTL
=============================================================================
