# Network Performance Analyzer: models and proofs

TLA+ modules, TLC configurations and TLAPS proofs about the program in `src/`:
a Python command-line tool that runs HTTP load tests, analyses captured
packets, and offers echo servers and a dashboard.

## 1. The system

| Component (source) | State | Operations | Talks to |
| --- | --- | --- | --- |
| `MetricsEngine` (`load_testing/metrics.py`) | `_results`, `_start_time`, under `_lock` | `record`, `reset`, `raw_results`, `snapshot` | called by workers, recorder, CLI, dashboard |
| `Worker`, `HttpClient` (`worker.py`, `http_client.py`) | `requests_sent`, a session | `run`, `execute` | reads the shared stop event and the clock, calls `record` |
| `StatisticsRecorder` (`statistics.py`) | `_timeline` under its own lock, `_stop_event`, `_thread` | `start`, `stop`, `_run`, `timeline` | samples the engine from its own thread |
| `LoadTestScheduler` (`scheduler.py`) | `_stop_event`, `_executor`, `_futures`, `_workers` | `run`, `stop` | owns all of the above |
| `cmd_loadtest`, `cmd_dashboard` (`main.py`) | none | starts the dashboard, runs the scheduler, summarises, analyzes, writes reports | reads the engine twice, the timeline once |
| Dashboard (`dashboard/app.py`, `templates/dashboard.html`) | registered scheduler and tracker; what the page shows | four Flask endpoints, a page that polls two of them | reads engine and timeline from other threads |
| Reports (`reports/`) | files on disk | JSON, HTML with charts, CSV | fed by `cmd_loadtest` with a snapshot, findings, raw results, timeline |
| Packet parser (`capture/packet_parser.py`) | a `TcpStreamTracker` | `parse` | classifies a packet: ARP, DNS, HTTP, TCP, UDP, ICMP, OTHER |
| `DnsLatencyTracker`, `HttpExchangeTracker`, `TcpStreamTracker` | pending queries or requests, completed ones, sequence numbers seen | `observe`, summaries | fed by `cmd_capture`, packet by packet |
| `PacketCapture` | captured packets | `capture_live`, `capture_from_file`, `save_to_pcap` | Scapy |
| `BottleneckDetector` (`analysis/`) | accumulated findings | three `analyze_*`, `summary` | reads a snapshot and the trackers' results |
| Echo servers and clients (`sockets/tcp_udp.py`) | socket, thread, `_stop` | `start`, `stop`, serve loops, two clients | the network |
| Configuration, logging | none worth modelling | | |

What is hard here is the load test: the calling thread, a pool of workers, a
sampling thread, other threads that call `stop()`, and Ctrl-C, which Python
raises in the calling thread between any two of its steps. They share two
events, two locks, a list of futures and the clock, and a scheduler may be run
again with what an earlier run left behind. The trackers are sequential but see
packets in whatever order the network produced them. The echo servers have a
thread per client that outlives `stop()`, a flag that outlives the server, and
clients that write everything before they read. `PROJECT.json` lists the
hazards line by line.

What makes each component correct:

* engine and workers: no result is lost or counted twice, in either tally;
* recorder: the timeline is in order and its last point is the final state;
* scheduler: a run ends, leaves no worker behind, reports a worker's failure,
  and stops promptly;
* CLI: a report is of one state of the engine, and files tell how far it came;
* snapshot: counts add up, percentiles are what their names say;
* reports: what three files, a table and four drawings say of one test agrees;
* dashboard: the page shows something the test went through, and goes forward;
* trackers: every response is matched with the request it answers, at most once;
* detector: findings follow from the snapshot, summary counts from the findings;
* echo servers: what comes back is what was sent; every loop, handler and client
  ends; `stop` stops, `start` starts.

## 2. The modules

| Module | What it is |
| --- | --- |
| `MetricsEngine` | the shared accumulator: `results` counts what each worker has appended since the last `reset`, `epoch` numbers the resets |
| `Worker` | the worker threads, one program counter each, and the pool's queue (`stranded`) |
| `StatisticsRecorder` | one recorder thread per run, their shared event and timeline |
| `LoadTestScheduler` | composes the three (EXTENDS): the calling thread, `stop()`, Ctrl-C, the clock; all properties |
| `LoadTestContract` | the abstract specification of `run()`: results are gathered during a run, or by the workers of one that was abandoned, and dropped only by a new run; points of the timeline are of results already gathered, and in order while recorders keep apart |
| `LoadTestInvariant` | the inductive invariant, in layers |
| `LoadTestTypes`, `LoadTestProofs` | the proofs |
| `LoadTestTimelineProofs` | the proofs about the timeline and the logged total, and of the refinement |
| `MCLoadTest` | the module TLC runs |
| `Sums`, `SumsProofs` | the sum of a function over a finite set, and what is proved of it |
| `MetricsSnapshot` | what `snapshot()` makes of a list of results: classes of outcomes, extremes, percentiles |
| `HttpAnalysis` | `analyze_http_metrics()` and `summary()` of the detector |
| `ReportFiles` | the contents of the three reports and their charts; the files |
| `LoadTestRun` | a load test as its command and the dashboard see it: results and timeline, as far as `LoadTestContract` tells |
| `Dashboard` | the server's thread, the two endpoints, and the page with its polls |
| `LoadTestCommand` | composes these (EXTENDS) as `cmd_loadtest` and `cmd_dashboard` do; all properties, and the refinement of `LoadTestContract` |
| `CommandInvariant` | the inductive invariant |
| `ReportProofs`, `CommandProofs` | the proofs: about the operators on lists of results, and about the command |
| `MCCommand` | the module TLC runs |
| `PacketParser` | what a packet is, and the order in which `parse()` classifies it (`FirstLayer`, `Protocol`) |
| `DnsLatencyTracker`, `HttpExchangeTracker`, `TcpStreamTracker` | one tracker each: its state and what `observe()` does with one packet |
| `BottleneckDetector` | the list of findings, and those about segments and lookups that an analysis appends |
| `CaptureCommand` | composes them (EXTENDS) as `cmd_capture` does; the reference definitions and all properties |
| `CaptureInvariant` | the inductive invariant |
| `CaptureProofs` | the proofs |
| `MCCapture` | the module TLC runs |
| `EchoServer` | what the two echo servers share: `start()`, `stop()`, the serve thread up to what it waits for, the end of the process |
| `TcpEcho` | connections, handler threads, `tcp_client_echo` |
| `UdpEcho` | datagrams, the UDP serve loop, `udp_client_echo` |
| `SocketsCommand` | composes them (EXTENDS) as `cmd_sockets` does; fairness and all properties |
| `EchoContract` | the abstract specification of TCP transfers, seen from the clients: no kernel buffers, no serve threads, no bytes in a handler's hands |
| `EchoInvariant`, `EchoProofs` | the inductive invariant and the proofs |
| `MCEcho` | the module TLC runs |

### Correspondence: the load test

A step is what happens between two points where another thread can make a
difference: a locked section, an operation on an event, the start, the end or
the wait for a thread. `mainPc` names the place of the calling thread in
`run()`: `clear` (line 53), `start_stats` (54), `executor` (64), `spawn`
(66-73), `await` (77-78), `except` (79-81), `stop_stats` (83, the event), `join`
(83, the join), `shutdown` (84); then `returned` or `raised`, and for
`cmd_loadtest` `snapshotted` (main.py:119) and `reported` (main.py:138).

A Ctrl-C is `raised` wherever `run()` does not handle it: in the `except` branch it
passes through the `finally` branch first; before the `try`, and in the `finally`
branch, it leaves at once. The caller may catch it and run the scheduler again
(`RunCall`), whatever is left: a recorder that nobody stopped, or workers that nobody
waited for. The latter are those of the runs in `escaped`; they record into the
engine, which a later run resets under them, until the stop event or their
end_time.

* A worker is named `<<run, i>>`. `absent`: not constructed; `check`: at the loop
  condition; `request`: in `execute()`; `count`: after `record()` and before
  `requests_sent += 1`; `done`/`failed`: its future has a result or an
  exception; `stranded`: in the pool's queue because `submit()` failed to start
  a thread for it.
* `_results` is kept as a count per worker. Nothing in the modelled code reads
  its order or its entries; `snapshot()` and `raw_results` copy it under the
  lock and are functions of that copy.
* Time is the number `timeUp` of runs whose `end_time` has passed: a later run has
  a later one, and a worker looks at that of its own run (`Expired`). Sleeps
  (ramp-up, think time, sampling interval) are the time a thread spends before
  its next step.
* `ThreadPoolExecutor`, outside `src/`, is modelled from how it is used:
  `submit` starts a thread or raises with the item queued, a free thread takes
  queued items, `shutdown(wait=True)` returns when all threads have ended.
* `execute()` turns every `RequestException` into a result, so a request either
  ends in a result or, for any other exception, kills its worker.
* `TotalSent` is the sum that `run()` logs (scheduler.py:86), over the workers of
  all runs.
* History variables, read by properties only: `stopMark` (the results when the
  stop event was set), `requested` (`stop()` was called between lines 52 and 53),
  `interrupted` (a Ctrl-C came during this run), `overlap` (a recorder was started
  beside a living one), `takenBy` (which recorder took each point) and `escaped`.

### Correspondence: the report and the dashboard

How results come about is the subject of `LoadTestScheduler`. Here a run is what
`LoadTestContract` promises of it: `phase = "running"` is the call of `run()`,
during which results are appended one at a time, and after which they do not
change; points may come at any time, and each covers what is there.
`RunAsPromised` states that this use of a run is within the contract, as
`ContractKept` states that `run()` is. The command's instance of the contract has
`orderly <- TRUE`: that no two recorders live side by side in the one run of a
command is the theorem `FirstRunOrderly`. It has `loose <- {}`: a Ctrl-C that leaves
`run()` leaves the command, too, and writes no report (`Fails`).

* `phase` names the place of the calling thread: `start`, `attached`
  (main.py:116), `running` (118), `returned`, `analyzed` (119-137), `read` (the
  argument `metrics_engine.raw_results` of line 138 is there), the format whose
  turn it is (147-160), `exited`, `failed`; `serve` is `cmd_dashboard`.
* A result has what `snapshot()` reads of it: the prefix of its error (`kind`),
  whether the text of the error mentions DNS, and its response time. Times are
  integers; a percentile is in hundredths of them, so that interpolation between
  two ranks is exact, and a rank `(n - 1) * pct` is in hundredths too. The mean
  is the sum it is computed from. Rates are compared by cross-multiplication.
* A point of the timeline is named by the number of results it covers, as results
  are only appended during the one run of a command. A recorder may append while
  the command goes on to report, since its join has a timeout. Points are in
  order by `TimelineInOrder`.
* `write_text()` and `open("w")` create a file and fill it afterwards; so a file
  is `absent`, `partial` or `complete`. `Fails` is any exception or Ctrl-C that
  nothing handles, between any two steps.
* A request of the page is two steps, the server's answer and the page's use of
  it, and a poll is two requests, one after the other. `setInterval` begins polls
  without waiting for earlier ones; `Polls` is how many are under way at most.
  A fetch fails at any time, and always when the process is gone. `pollBase` is
  history: what the page showed when a poll began.

### Correspondence: the capture

`cmd_capture` is sequential, and a step is one packet: `parser.parse(pkt)`, the
counting of its protocol and the `observe()` of the tracker it goes to, all in
one action (`ParseDns`, `ParseHttp`, `ParseTcp`, `ParseOther`).

* Scapy delivers all packets before the first is parsed, and nothing looks at
  one before its turn. So a packet is chosen from `Traffic` when it is parsed,
  and `packets` is the part of the capture parsed so far. This gives every
  capture of that length, and, since the command may fail at any time or stop
  reading, every prefix.
* A packet is the record of what the parsers read of it: its layers, as a set,
  its flow (an ordered pair of endpoints, address and port together), its
  transaction id, sequence number or flags, whether it is a response, and its
  timestamp. `BADHTTP` stands for a payload that `parse_http()` raises on, which
  falls through to the TCP branch.
* Trackers name packets by position. `dns_pending[id]` and `_pending[key]` hold
  the position (0: no entry) and what the code stores beside it. The lists of
  completed records are kept as sets: each entry bears its position, and the
  code reads the lists only by filtering, counting and averaging.
* There are two clocks: `p.time`, the timestamp of a packet, which the DNS
  tracker uses, and `now`, the time when it is parsed, which `parse_http()`
  stamps. Timestamps are not assumed to be in order: a pcap file may hold its
  packets in any order, and `sniff` on several interfaces does.
* The detector's fractions 0.02 and 0.10 are the percentages `LossWarning` and
  `LossCritical`, compared by cross-multiplication.

### Correspondence: the echo servers

* `owner` is the thread that calls `start()` and `stop()`, and names the place
  in them: `start` (lines 39-45, in which the socket is first `new`, from line 42 on
  `bound`, and from 43 on `ready`), `close` (71), `join` (73). From line 39 on the
  socket is in `_sock`, where an old thread may find it. The caller stops a server
  that it started, and may start it again.
* Each `start()` makes a socket and a thread, which bear its number. `sock` and
  `thread` are the attributes `_sock` and `_thread`. A serve thread is at
  `check` (the loop condition), `call` (about to read `self._sock`), `wait` or
  `block` (in `accept` or `recvfrom`, with a timeout or, on a socket that is not
  `ready`, without), or `echo` (about to call `sendto`). It is `left` when
  the flag ended its loop, and `broken` when an exception did, on whatever socket.
* A thread that waits on a socket which is closed under it notices within its
  half second, by a timeout or an error: either may come. In a call without a
  timeout it need not notice at all. Connections in the queue of a closed socket
  are reset.
* A TCP byte has no content: `sent`, `taken`, `echoed` and `received` count how
  far each has come. `sendall` hands bytes over one at a time, which contains
  every larger step; `recv` in the handler takes any number up to `BUFFER_SIZE`.
  `Window` is what the kernels hold in one direction.
* A client may give up at any time while it waits (a call took five seconds).
* `net` holds every datagram ever sent. One that is never read was lost, one
  that is read twice was duplicated, and they are read in any order. A port may
  be given to a later client.
* `Exit` is the end of the server's process, which takes its daemon threads with
  it, at any time. The clients are other processes.

## 3. The runs

For a run marked violation, TLC finds the counterexample that section 5 tells.

| Run | Instance | What it shows |
| --- | --- | --- |
| `lt_single` | 1 run, 0..2 users, 2 requests each, 1 periodic point, 2 Ctrl-C | the safety properties of one run, that it implements `LoadTestContract`, and, under fairness, that a run which was stopped or whose time is up ends, and so does its recorder |
| `lt_reuse` | 2 runs, 0..1 users, 1 request, 1 point, 2 Ctrl-C in all | the inductive invariant of tallies and timeline (from which the safety properties of `lt_single` follow), and what a run may make of the leftovers of another: whose results it gathers, whose futures it waits for, why it raises, what two recorders do to one timeline; and that both runs keep `LoadTestContract` |
| `logged_total` | violation | a second run logs the requests of the first one as well |
| `final_point` | violation | the timeline's "final point" is not final after Ctrl-C |
| `stale_future` | violation | a clean second run raises the first run's exception |
| `lost_stop` | violation | a `stop()` just before line 53 is lost |
| `capture` | every capture of up to 4 packets over 2 ids, 2 endpoints, 2 sequence numbers | every property of the three trackers and of the detector, and the inductive invariant |
| `http_clock` | violation | slow exchanges are those of the parsing loop, not of the network |
| `pure_acks` | violation | repeated acknowledgements are reported as loss |
| `echo` | a server of either kind, started up to twice, 2 clients, payloads of 6 and 0 bytes, `BUFFER_SIZE` 2, `Window` 2 | the safety and liveness properties of servers and clients, the inductive invariant, and that they implement `EchoContract` |
| `report` | tests of up to 3 results of 9 kinds and of up to 5 of 3 kinds with one report, of up to 2 results with every set of formats, one of 2 results that is watched by 2 polls at a time, and `cmd_dashboard` alone; 2 points | every property of the snapshot, the findings, the reports, the files and the page, and that the run is used as `LoadTestContract` allows |
| `listening` | violation | a server that is started again listens and serves nobody |

Properties of the load test (in `LoadTestScheduler`, each with the lines it is
about):
`SentMatchesRecorded`, `LoggedTotalAgrees`, `QuiescentAfterRun`, `ReportConsistent`, `GracefulStop`,
`FailureReported`, `TimelineInOrder`, `FinalPointFaithful`, `ContractKept`
(refinement), `EndsOnceSignalled` and `RecorderStops` (liveness); and three about
what is left from one run to the next and about waiting: `OwnResults` (a worker
of an earlier run records into the engine of a later one only if a Ctrl-C
abandoned it), `AwaitsTheLiving` (the
calling thread waits only for what a thread can bring about) and `RaisesAFailure`
(an exception without an interrupt is that of a worker which failed, unless
`submit()` failed or there are no users, for which line 64 raises). Deadlock is
checked in every run: the only states without a step are those where the
calling thread is out of `run()` and no worker is active (`Finished`).

What no property can forbid, because the code does it, is named where a property
stops: `QuiescentAfterRun`, `OwnResults` and the contract let the workers of the runs
in `escaped` go on, and no others; `RecorderStops` excepts a run that an
exception took out before its `try` or a Ctrl-C out of its `finally` branch
(`CutShort`), whose recorder has not been stopped; `TimelineInOrder`
speaks of the points of one recorder as soon as two have lived side by side; and
`LoggedTotalAgrees` holds of a scheduler's first run, while `logged_total` shows the
second.

Properties of the capture (in `CaptureCommand` and `CaptureInvariant`):
`DnsPaired`, `HttpPaired`, `RetransmissionsMarked` and `FindingsJustified` compare
what the program computed with definitions over the whole packet sequence
(`RequestOf`, `Repeats`) that know nothing of pending entries, of tracker state
or of the order of classification; `TrackersSummarise` says what the trackers
may and may not keep. `ExchangesApart` says of the records themselves that no
request is answered twice and that the exchanges of one dialogue do not overlap.
A capture ends by `Analyze` or `Fails`.

Properties of the echo servers (in `SocketsCommand` and `EchoInvariant`):
`StallsOnlyWhenFull`, `EchoFromOwnPort`, `Accounted`, `TransfersAsPromised`
(refinement of `EchoContract`), and, under fairness, `ServeLoopsEnd`,
`ClientsEnd`, `HandlersEnd`. `ServeLoopsEnd` has one exception, which does occur: an
old thread that was overtaken by a `stop()` and another `start()` between its look at
the flag and its call, and called before the new socket had its timeout, may wait
for ever. The thread that a `start()` made for its own socket always ends. The contract has a transfer return with less than it
sent only over a connection that was cut, and a connection cut only if nobody has
served it, its client is through, or the process ends. `EchoComplete`, the part of
it about the statistics of a client that returned, is a theorem. A state without a step
is one where the process has ended, every client is through and no handler is
left (`Finished`).

Properties of the report and the dashboard (in `LoadTestCommand`):
`PercentilesRanked` compares the percentiles with the shares of requests that are
faster and slower, counted without sorting. `FindingsDescribeRun` compares the
findings with the results themselves, not with the snapshot. `ReportsAgree`
relates counts that `snapshot()`, the JSON builder, the CSV writer and the charts
each take for themselves, and the literals of the HTML template (`BadgeWarning`,
`BadgeCritical`) with the thresholds of the detector, which may be overridden: the
colour and the error finding contradict each other only where the two part. In the
run they do part, at 75 and 60 percent: a test with two failures in three
has a "warn" colour beside a critical finding. With equal numbers, as the
defaults are, they always agree. `FilesTellOutcome` relates the files on disk to each
other and to the place of the command. `PageShowsTest` holds of the page and of
every reply on its way to it. `PageGoesForward` (an action property) says that the
page goes back only for a poll that another one overtook. It can: with polls that
overlap, an older reply may arrive later, and the page shows fewer results than a
second before. Deadlock is checked: without a step are only the states where the
process has ended and no poll is under way (`Finished`).

Bounds. Two users are what it takes for one to fail, to be stranded or to be in
a request while another is elsewhere; two requests for one to be the request in
flight and one to be one too many; two runs for leftovers; two Ctrl-C for the
second to land in the `except` or the `finally` branch of the first, or in the run
after it (`MaxInterrupts` counts those of all runs). A periodic point and a final one
are enough for an order to be wrong.
`MaxRequests` and `MaxPoints` only keep the counters finite: a worker at its
bound waits for the stop or the clock, a recorder at its bound for its event.

Four packets hold two requests and two responses of a dialogue in any order and
with any other packet between them: a repeated request, an unasked or a second
response, an id used again. Two ids, endpoints and sequence numbers are enough
to get a match or a direction wrong, and since no formula tells one from
another, they are symmetric. Times are 0 and 1 and the slow thresholds 0, so
that differences are negative, equal to the threshold and above it. The loss
thresholds are 50 and 60 instead of 2 and 10 percent: with at most 4 segments
both severities, the exact threshold and no finding all occur. `MCTraffic`
keeps one representative where the code makes no difference (a SYN for a
SYN,ACK; an HTTP message has no timestamp that anyone reads). The theorems of
section 4 need none of these bounds.

Five results give a percentile that falls on a rank (the median, and the median
only), between two ranks, and near the end; with three results of nine kinds
every class of failure meets every other, an error text that mentions DNS has
each kind it can have, and rates are below 50 percent, at or above it, and at or above
60 and 75: the detector's thresholds are 50 and 60 and the template's 50 and 75
instead of 2 and 10 percent, so that four or fewer results reach all of them. `SampleSize` is 2 instead of 200, so that a JSON report
leaves results out. Two polls are what it takes for one to overtake the other. Polls
are symmetric, as no formula tells one from another, and the properties checked
with the symmetry are safety and action properties. An instance that varies
answers and formats and polls at once adds nothing: what reports hold is a function of
the results, and the page reads the run only. `MaxPoints` keeps the timeline
finite.

With `Window` 2 a payload of 6 bytes is the shortest that can stall
(`2 * Window + 2`), and a handler may take one byte or two, so that a `sendall`
which stops half-way would be seen; a payload of 0 is the one for which the
client's loop is not entered. 6 also exceeds the buffer of the UDP server, so
an echo may be shorter than its datagram. A second start is what it takes for a
thread to outlive its socket, and for the flag to be left over; two clients are
what it takes for a port to be used twice.

Fairness (`Fairness`): weak fairness of the calling thread once `run()` was
called, of each worker and of each recorder. The operating system schedules
every thread, and every request ends (`requests` is called with a timeout). The
clock, `stop()`, Ctrl-C and the call of `run()` get none. `lt_single` checks all its
properties under this fairness; safety does not depend on it.

Of the echo servers, the serve threads, the handlers and the clients that have
begun are weakly fair: they are scheduled, and every call of theirs with a
timeout comes back, which for a client means that it is never stuck. A serve thread
in a call without a timeout (`Blocked`) is not fair, even if a datagram or
connection is there for it; an `accept` on a socket that does not listen yet fails
at once. A handler's
calls have none; that it ends rests on the client closing its socket. Nobody
has to call `start()` or `stop()`, to connect or to exit.

Of the report and the dashboard no liveness is stated: a command may fail at any
step, a poll at any time, and the page's last poll need not see the end of the test.

## 4. What is proved

### The load test

For every number of runs, users, requests, points and interrupts, from the
assumptions on the constants (each is a natural number):

| Theorem | Property |
| --- | --- |
| `TypeCorrect` | `TypeOK`, in particular never more workers than users |
| `TalliesAgree` | `SentMatchesRecorded` |
| `NoWorkerOutlivesRun` | `QuiescentAfterRun` |
| `StopIsPrompt` | `GracefulStop` |
| `ReportsAgree` | `ReportConsistent` |
| `FailuresSurface` | `FailureReported` |
| `ResultsAreOwn` | `OwnResults`, with a Ctrl-C in any place and any number of runs after it |
| `WaitsEnd` | `AwaitsTheLiving` |
| `RaisesForCause` | `RaisesAFailure` |
| `RunKeepsContract` | `ContractKept`: `LoadTestScheduler` implements `LoadTestContract`, results and timeline |
| `TimelineOrdered` | `TimelineInOrder`, for each recorder and, while recorders keep apart, for all |
| `LastPointComplete` | `FinalPointFaithful` |
| `LoggedTotal` | `LoggedTotalAgrees` of a scheduler's first run; that a later one logs too much by exactly what earlier workers sent |
| `TimelineInvariantHolds` | `WholeInv` |
| `FirstRunOrderly` | in a scheduler's first run no two recorders live side by side, and the timeline is in order |

None of the properties is inductive as it stands. `IInv` adds, in layers:

1. `TypeInv`: types, and that a run has a number once it was called.
2. `Lifecycle`: a worker that is not constructed yet has sent nothing; the pool
   of a run that is over has drained, unless the run is in `escaped`, and a drained
   pool has no step (`DrainedIsStill`). Hence no worker but those of `escaped` runs
   moves while `run()` is not executing (`OverIsStill`): that is
   `QuiescentAfterRun`, the reason why two reads of the engine agree, and what
   the refinement needs.
3. `SentMatchesRecorded` is inductive on top of these.
4. `GracefulInv` counts a request under way against the mark before its result
   is recorded.
5. `ReportInv`: what was read is what the engine still holds.
6. `Awaited`: there is a future for every worker of the run, those before
   `awaiting` returned, and so none failed when the wait ends normally.
7. `Stranding`: a run has at most one worker in the pool's queue, and only on its
   way out, since the failed `submit()` ends the ramp-up; and a future is of a
   worker that a thread has taken up. So no wait is for a worker nobody runs.
8. `Raising`: a run raises because a future of the list has failed or because the
   last worker has none. The first may be of an earlier run: the invariant that
   says "of this run" is not inductive, and `stale_future` is the counterexample.

The timeline needs `TimelineInv` beside it, as long as no recorder was started
beside a living one: there is at most one recorder, and from its start it is
that of the run (`OneRecorder`); what is on the timeline was sampled no later than
what is about to be appended, and that no later than now (`PointsInOrder`); and in
a run that nothing disturbs the recorder learns of the stop after the last worker
has ended, so that its last sample is of all results (`FinalPoint`). Three parts
hold however many recorders there are: the points of one recorder are in order
(`OwnPointsInOrder`), nothing sampled is ahead of the engine
(`PointsPast`), and a recorder beside a living one is that of a later run
(`Recorders`), which makes the first run orderly. `WholeInv` is all of these.
`LoggedTotal` follows from `SentMatchesRecorded`, `OwnResults` and the pool being
drained, with the lemmas of `SumsProofs`: the sum over all workers is split into
those of the run and the earlier ones (`SentAndRecorded`).

`SumsProofs` proves of sums over finite sets of any size that an element can be
taken out, that a set can be split, that equal functions have equal sums, bounds,
and that numbers of occurrences sum to the number of elements. Its induction is over
the sizes of sets, as the least counterexample of a set of naturals, since the
library's induction theorems cannot be applied to a formula here.

The refinement maps the newest point of the run to `sampled` and the absence of
`overlap` to `orderly`, and the workers of `escaped` runs to `loose`: a Ctrl-C out of
the `finally` branch is `Abandon`. Each action of a worker is `Gather` or a stutter,
each of a recorder `Sample` or a stutter (`AppendSamples`), and the step that
starts a recorder beside a living one is `Disturb`.

`lt_reuse` checks `WholeInv` with TLC. Only model-checked: the two liveness
properties (liveness under fairness is beyond the proof system).

### The report and the dashboard

For every list of results, all response times and thresholds that the
assumptions allow (natural numbers; an error threshold of the detector or the
template is not 0, and the warning is not above the critical one), every set of formats, any number of polls and
points, and every invocation:

| Theorem | Property |
| --- | --- |
| `CommandTypes` | `TypeOK` |
| `SummaryRanked` | `PercentilesRanked` |
| `FindingsDescribe` | `FindingsDescribeRun` |
| `ReportsFit` | `ReportsAgree` |
| `FilesTell` | `FilesTellOutcome` |
| `PageShows` | `PageShowsTest` |
| `PageForward` | `PageGoesForward` |
| `RunPromised` | `RunAsPromised`: the command uses the run as `LoadTestContract` allows |
| `OnePollGoesForward` | with one poll at a time the page never goes back |

`ReportProofs` is about operators, without behaviour. `Sorted` chooses each entry by
rank; `SortedDefined` shows that there is such a value and `SortedAscends` that the
entries ascend. A percentile lies between two entries (`BetweenBounds`), grows with its
rank (`BetweenAscends`), and leaves on either side the share its name says
(`PercentileShares`: if all positions of a set are below the percentile, the set
has fewer elements than the rank). `HttpFindingsReport` says for each finding when
it is among the findings, and that none is there twice; `HistogramCounts`,
that the bars sum to the number of results.

`CommandProofs` shows that `IInv` (in `CommandInvariant`) is inductive. It adds to
the properties: what has not happened before a phase (`Progress`), that the
snapshot, the findings and the raw results in a report are all of the results the
run returned (`Analyzed`), which turns the facts about operators into the theorems,
what each file is while an earlier or a later one is written (`Written`), and
that a reply is not older than what the page showed when its poll began
(`RepliesRecent`), and the same both ways for a poll with no other beside it
(`PollAlone`), so that overlapping polls are the only way back. The page's part rests on one fact: a step of anything else only
lets the test grow (`TestGrows`). All properties of the run `report` are proved.

### The capture

For every set of packets, ids, endpoints and sequence numbers, every threshold
and every length of the capture:

| Theorem | Property |
| --- | --- |
| `CaptureTypes` | `TypeOK` |
| `NothingForgotten` | `TrackersSummarise` |
| `QueriesPaired` | `DnsPaired` |
| `RequestsPaired` | `HttpPaired` |
| `AnswersApart` | `ExchangesApart` |
| `RepeatsMarked` | `RetransmissionsMarked` |
| `FindingsSound` | `FindingsJustified` |

`DnsPaired` says nothing of queries that wait, so it is not inductive. `IInv`
adds that a pending entry names the open request of its dialogue: the request
that no message of the dialogue has followed (`Open`). The argument has three
lemmas. `SameDialogue` is transitive (`DialogueTransitive`), so a message closes
all and only the open requests of its own dialogue. A response answers the
request that was open before it (`AnswersOpen`), which is the pending entry
`observe()` looks up. A new packet leaves open what it does not belong to, and
opens itself if it is a request (`OpenNext`). What is recorded about earlier
packets does not change when one is appended, since `RequestOf` and `Repeats`
look back only. `FindingsJustified` follows at the end from these, with
`RecordsCounted`: the records and the segments they are about are equally many,
so that the two shares are the same. `ExchangesApart` follows from the two pairings
alone (`AnsweredApart`): a message between a request and its response would be one
of the dialogue, and the response would answer that.

All of the capture's properties are proved but the two that do not hold.

### The echo servers

For every number of starts, every set of clients, payloads and ports, and every
size of the buffers (at least 1):

| Theorem | Property |
| --- | --- |
| `EchoTypes` | `TypeOK` |
| `NothingMadeUp` | `Accounted` |
| `TransfersComplete` | `EchoComplete` |
| `SmallPayloadsFlow` | `StallsOnlyWhenFull` |
| `EchoesComeHome` | `EchoFromOwnPort` |
| `TransfersAreAsPromised` | `TransfersAsPromised`: `SocketsCommand` implements `EchoContract` |

`IInv` says of each connection how far its bytes have come
(`received <= echoed <= taken <= sent <= payload`, with equality of `echoed` and
`taken` when the handler reads), that a connection is closed from the server's
side only after its client, with the process, or before it had a handler, and
that a client which was cut short stays so (`CutShort`). From these the stall is
arithmetic: a client stuck in `sendall` has `Window` bytes on their way to the
handler, which holds at least one and has `Window` on their way back. For
datagrams, `IInv` traces each one to a client that had its port; a client has no
port before it sends and keeps the one it gets, so that later steps change
nothing about it.

The refinement needs two facts more: nothing is taken before there is a handler,
so nothing comes back over a connection nobody serves; and neither a socket nor a
thread outlives the process (`ClosedAtEnd`), so no connection is opened or taken
up after its end. Each action of a client, a handler, the serve loop and the owner
is then one of the contract's or a stutter (`ContractClient`, `ContractHandle`,
`ContractServe`, `ContractOwner`). Liveness is model-checked only.

## 5. Findings

1. `scheduler.py:83` stops the recorder before line 84 waits for the workers, so
   after Ctrl-C the "final point" (`statistics.py:42`) may miss results that the
   returned engine holds. Run `final_point`; `FinalPointFaithful` is what does
   hold: without an interrupt, and with one recorder, the point is final.
2. `scheduler.py:77` waits on the futures of all earlier runs, since `_futures`
   is never cleared: a second run can raise an exception of the first and stop
   waiting for its own workers. Run `stale_future`; `RaisesAFailure` is what does
   hold: some worker, of this run or an earlier one, did fail.
3. `scheduler.py:53` clears the stop event after `run()` has begun: a `stop()`
   that comes just before is lost. Run `lost_stop`.
4. `http_parser.py:105` subtracts two stamps that `parse_http()` took with
   `time.time()` (line 56), and `cmd_capture` parses when the capture is over
   (`main.py:65-70`). Response times and slow requests of the capture report are
   therefore those of the parsing loop. The DNS tracker uses the packets' own
   timestamps and has no such fault. Run `http_clock`.
5. `tcp_parser.py:63` marks a segment whose number its flow has used before. A
   bare acknowledgement does not use its number up, so repeated acknowledgements
   and the first data after one are marked too, and `main.py:78` turns them into
   a loss rate. Run `pure_acks`; `RetransmissionsMarked` is what the code computes.
6. `tcp_udp.py:39` and 88: `start()` does not clear the flag that `stop()` set. A
   server started again logs that it is listening, and clients connect to it,
   but its thread has left the loop. Run `listening`.

7. `scheduler.py:86` sums over `_workers`, which no run clears, while line 52 resets
   the engine: from a scheduler's second run on the "total requests sent" counts
   those of every run before. Run `logged_total`; the theorem `LoggedTotal` says by
   how much.

Observed while modelling, and not stated as a property of any run:

* A Ctrl-C in the `finally` branch (`scheduler.py:82-84`) leaves workers behind, and one
  before the `try`, or `max_workers=0` (line 64), a recorder. A caller who runs the
  scheduler again then has results of both runs in one engine, or points of two
  recorders on one timeline. The properties say that nothing else does that.
* `tcp_udp.py:43` and 90 set the timeout when the socket is already in `_sock`: an old
  thread may wait on it without one, and then for ever (`ServeLoopsEnd`).
* `dashboard/app.py:6-8` says that a dashboard without a load test "starts a demo
  scheduler". There is no such code: nothing is registered, `/api/metrics` answers
  404, and the page stays empty (`PageShowsTest`).
* `dashboard/app.py:16` calls `psutil` an "optional dependency"; it is imported
  unconditionally.
* `metrics.py:75` counts a failure as one of DNS if its text contains "dns", in the
  host name of the URL for example; `bottleneck_detector.py:115` reports that number as
  "DNS resolution failures". `FindingsDescribeRun` is what the code computes.
* `bottleneck_detector.py:82` says "above the warning threshold" of a rate that may
  be at it.
* A test without results has success rate 100 percent, in the colour for "ok".
* The page may never show the last results: the process ends, and its daemon
  thread with it, as soon as the reports are written.

## 6. Not modelled

Of the capture: BPF filters and what a failing capture prints, the contents of
the saved file, a `parse_dns()` that raises as a case of its own (`parse()` catches the
exception and goes on, as with a packet that has no DNS layer), the HTTP status codes and error rate, and the aggregates made of
the trackers' lists (averages, `most_requested_domains`, `summary()`), which are
read once at the end.

Of the echo servers: the times in `TransferStats`, a full accept queue (128), a
failure to start the serve thread itself, errors of the network that break
an open connection on the server's side only, and what a kernel may still deliver
on a socket that is closed under a call without a timeout.

Of the report: the two rates per second, which depend on nothing but the clock and
the number of results and bytes; rounding, which on the binary fractions of a rank
or a rate may differ from the exact comparison in the last place;
layout and number formats, the bins of the histogram (a bar stands for a response
time), images, and the names of the files: a second command in the same second
overwrites the first one's. A list of results is finite; that memory is, too, is
left out, though the engine keeps every result.

Of the end of a command: the interpreter joins the threads of the pool before it exits,
so that after a Ctrl-C out of the `finally` branch the process, with its dashboard,
lives on until the abandoned workers have ended; `Fails` is the end of both at once.

Of the dashboard: `/api/dns`, to which no command registers a tracker, the CPU and
memory readings, and a server that cannot bind its port (it is then never `up`).

Argument parsing, logging and configuration; Scapy. A Ctrl-C is taken between two
modelled steps, never in the middle of one.

## 7. Plan

1. (done) the load test: engine, workers, recorder, scheduler, contract, proofs.
2. (done) the capture: parser, three trackers, detector, each against a
   declarative reference, proofs.
3. (done) the echo servers and clients: lifecycle, streams, datagrams, proofs.
4. (done) `snapshot()`, `analyze_http_metrics()`, the reports and their files, the
   dashboard and the command that composes them, proofs.
5. (done) proofs of `TimelineInOrder`, `FinalPointFaithful` and the logged total.
   The contracts of `run()` with its timeline and of the TCP transfers, and their
   refinements; what a second run makes of the first one's leftovers.
6. What is left is small: the aggregates of the capture's trackers (averages,
   `most_requested_domains`, `slowest_lookups`), as functions of what the trackers
   are proved to hold.
