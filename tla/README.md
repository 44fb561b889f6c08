# HFT arena: models and proofs

TLA+ specifications of the arena, a benchmark host for matching engines. A
contestant submits an engine; the orchestrator builds and sandboxes it; a fleet
of load bots attacks it over WebSocket; telemetry aggregates what the bots
measure into a leaderboard and a database. The specifications are translated
from the code under `src/`, checked with TLC on small instances, and the core
safety properties are proved with TLAPS for every value of the constants.

## 1. The system

| Component (source) | State | Operations | Interacts with |
|---|---|---|---|
| Run queue and dispatcher (`orchestrator/app.py`) | `RUN_QUEUE`, `_active`, `_done_ev`, submissions in Redis | submit, post a run, stop; `_run_dispatcher` / `_execute_run`; `_runevents_listener`, `_on_run_done` | sandbox backend (calls in threads), Redis pub/sub, gRPC |
| gRPC control stream (`orchestrator/control_grpc.py`, `fleet.py` `_control_grpc`) | subscriber queues | `Subscribe`, `broadcast`, `ReportDone`, reconnect | dispatcher, fleet |
| Sandbox backends (`sandbox.py`, `sandbox_k8s.py`) | containers / Pods, build jobs | build, launch, wait healthy, stop | Docker, Kubernetes |
| Order book of the reference engines (`reference_engine_{py,go,cpp,rust}`) | levels, price lists, id index | limit, market, cancel | handlers of the connections |
| Connection handlers of the engines | the book's lock, request and replies of each connection | read, ack, operate on the book, send the fills | book, WebSocket library |
| crow, the WebSocket server of the C++ engine (`submission_templates/cpp/crow.h`, vendored) | io_contexts, and per connection its read, buffers and write under way | accept, upgrade, read, `send_text`, write, close | handlers, clients |
| Fleet worker (`bot_fleet/fleet.py`) | `current` task, Redis keys of the run (set of replicas, leader lock, probe flag) | `_dispatch`, `run_load` with its phases | orchestrator, other workers through Redis |
| Phases of the load (`fleet.py` `run_closed`, `run_sweep`, `run_burst`) | `stop_event`, the tag of the rate | step through the rates, stop, gather | bots, reporter |
| Load bot (`fleet.py` `bot`) | window semaphore, `send_times`, `outstanding`, counters | sender, receiver task | engine; its phase (`stop_event`) |
| Reporter (`fleet.py` `reporter`, `_flush`) | baselines of the counters | a delta every 0.2 s, a final one | bots (shared `Stats`), stream |
| Correctness probe (`bot_fleet/scenarios.py`) | counts | ten iterations on the empty book | engine |
| Telemetry ingester (`telemetry/ingester.py`) | `RUNS`, `BEST`, position in the stream | control, persist, sample and publish tasks; recovery | Redis, store |
| Store (`telemetry/store.py`) | table of runs | connect, insert a run, load the best | TimescaleDB |
| Metrics (`telemetry/metrics.py`) | histograms, rate bins, window | add, snapshot: percentiles, score | ingester |
| Dashboard relay (`app.py` `ws_leaderboard`) | none | snapshot, then subscription | browsers |
| Wire formats, deployment, tests | none | | |

### What is hard, and what would make it right

* **Dispatcher and done reports.** A report may come after the timeout, when
  another run holds the lane; every await is a place where Docker or Redis may
  raise. Right means: one sandbox on the pinned cores at a time, no run taken for
  done on another's report, no queued run forgotten, the lane always released.
* **Book.** Orders, price lists and index are updated in separate steps, by four
  implementations with different structures. Right means: strict price-time
  priority, lists and index that agree with the levels, whatever ids clients use.
* **Connections.** Messages are posted, buffered and written on one thread while
  handlers of other connections wait for the book, and clients are killed in the
  middle of it. Right means: every answer arrives complete and in order, one handler
  at a time in the book, and connections of clients that left are forgotten.
* **Probe.** It takes whatever comes next for the ack it waits for. Right means: only
  an iteration whose own answers are late may fail.
* **Fleet.** Workers meet through Redis keys that expire, and fixed sleeps. Right means:
  one report per run, the probe alone on the book, shares that add up to the offered
  rate, and a report in the end.
* **Phase.** The reporter sends differences of counters that move under it, and a
  stop cancels the loop that owns bots and reporter. Right means: every count
  reported once, none on the curve of another rate, and bots that end with their phase.
* **Bot.** Sender and receiver share counters across awaits; the engine at the
  other end is anybody's program. Right means: every order accounted for, windows
  kept, permits neither lost nor multiplied, and an end when told to stop.
* **Telemetry.** Starts, samples and reports come over three channels, the process is
  killed and restarted, and the board shares its key with the orchestrator's status
  events. Right means: rows that hold their whole run, finished runs on every board,
  a board that comes back, and every reported run written.

`PROJECT.json` lists the hazards line by line, with the properties that cover
them, and each component with its status.

## 2. Modules

| Module | Models | Proofs |
|---|---|---|
| `RunQueue` | what the orchestrator promises of a request: the lane in turn, one result | |
| `Orchestrator` | run queue, dispatcher, report path, sandboxes, and the fleet as the orchestrator sees it; implements `RunQueue` | `OrchestratorProofs` |
| `PriceTimeBook` | what a book promises: a set of orders with arrival stamps | |
| `OrderBook` | the engines' book with levels, price lists and id index; implements `PriceTimeBook` | `OrderBookProofs` |
| `EngineServer` | connections and handlers of an engine around one `OrderBook`, with crow's buffers for C++ | |
| `Probe` | the clients of an `EngineServer`: the correctness probe, or load clients | `ServerProofs`, `ProbeProofs` |
| `Bot` | one load bot: sender, receiver, connection, engine | `BotProofs` |
| `Phase` | a phase of the load: run loop and reporter around a `Bot` | `PhaseProofs` |
| `Fleet` | several workers running `run_load` for several runs, over Redis and a command stream | `FleetProofs` |
| `Telemetry` | the ingester's tasks, stream, pub/sub buffers, database, restarts | `TelemetryProofs` |
| `*MC` | instances for TLC, one `.cfg` per run | |

The modules compose by extension: `Probe` extends `EngineServer`, which extends
`OrderBook`; `Phase` extends `Bot`; a step of the outer module is a step of the inner
one, or leaves it alone. Operators commented *Mutant of X* are deliberate bugs: X with
the mutant in its place must break a property, which shows that the property can fail.
No specification uses them. Variables such as `faults`, `setting`, `trouble`, `engine`
and `mode` never change: they choose the deployment, so that one run covers many.

### Orchestrator and RunQueue

All of it runs on one asyncio loop, so code between two awaits is atomic; an
action is the code from one await that can block to the next.
`Take, Deploy, Healthy, Start, Finish` are the way of a run through
`_run_dispatcher` and `_execute_run`; `Unhealthy, Cull, Expire, ExpireStop` its
other ends; the `...Fails` actions are calls that raise, each with the states the
outside may be left in (a launch may raise with the old container still there, gone,
or replaced). `Fail` and `FailRaises` are the `except` clause and the publish in
it. `FleetReports, Receive, HandlerStop, HandlerSignal, HandlerFails` are the
report path of both transports: on Redis one listener task handles one report at a
time and dies with an exception, on gRPC each call has its handler. `sandbox[s]`
holds the run a container was launched for; the code knows only the submission's
name, and that is what `HandlerStop` uses.

`RunQueue` knows of none of this: requests wait in their order, the oldest gets the
lane when it is free, and its holder leaves it with one result. `Orchestrator`
implements it (`QueueKept`) with `queue`, `active` and `outcome` in the place of its
variables, whatever raises; a dead dispatcher stutters.

### OrderBook and PriceTimeBook

An operation holds the book's lock (Go, C++, Rust) or the event loop (Python), so
operations do not interleave; the model takes one apart into the iterations of its
match loop. `TakeWhole` and `TakePart` are one iteration, `Finish`, `Rest` and
`RestMerged` what follows the loop, `Cancel` the cancel. Levels are sets whose
elements carry their arrival stamp: the front of a level is the smallest stamp. The
engines differ in what a cancel erases (`Erased`: the element of the stored
iterator, or the orders of that id at the level) and in Python's dict merging equal
ids (`RestMerged`); `engine` chooses, and `reuse` whether clients send ids again.
Map entries of this module name lines of all four engines.

`PriceTimeBook` has no lists and no index: a taker trades with the first crossing
order, its rest joins, a cancel removes. `OrderBook` implements it (`Refines`) when
no id is sent twice.

### EngineServer and Probe

The handler of a connection goes through `ReadRequest`, `Ack`, `Enter`, `Work` (once
for each step of the book) or `WorkCancel`, `Reply` (once for each fill) and
`Return`. `step` is its place, and `"book"` is holding the lock. In Python, Go and
Rust a message is written before the handler goes on (`Send`), and an exception or a
read error ends the connection (`SendFails`, `ReadFails`).

The C++ engine runs on crow, and there the order of the messages is crow's:
`send_text` only posts to the io_context of the connection; `RunPost` appends the
message to `write_buffers_` and starts an `async_write` if none is under way
(`DoWrite`); `SocketTakes`, `WriteDone` and `WriteFails` are its course. One thread
runs an io_context, so nothing else of its connections moves while it is in a handler
(`ThreadFree`) — with two contexts two handlers may compete for the book. An
io_context is first in, first out, hence a read completes only after what its handler
posted before it (`ReadReady`); this is also why the connection object outlives its
posts. `PickContext` is the least loaded context, chosen at the accept before.
`ReadClose`, `CloseAnswer`, `ReadFails` and `WriteFails` are the ends of a connection with
`check_destroy`; a client that is killed may have the read or the write fail first.

Abstractions: a frame is read whole (header, mask and payload are four reads in the
code; the two-byte header is read with `read_some` at crow.h:10164, taken to return
both). The deadline timer of the HTTP phase is left out, and so are pings and
fragments, which no client of the repository sends. `stop()` is never called by
the engine, so the server never closes first. Rejects and malformed requests are left
out with them.

`Probe` adds who connects: `scenarios.run` step by step (`ProbeSends`, `ProbeAcked`,
`ProbeReceives`, the waits that run out in mode `"slow"`, `ProbeLeaves`), or in mode
`"load"` clients that send a script without waiting, leave, or are killed. Both wire
formats are one set of messages.

### Bot and Phase

`Loop ... Drained` is the sender, `Receive, ReceiverDies` the receiver task.
`Record` is the book-keeping done before `ws.send` is awaited, which stays even if
the send raises (`SendRaises`). Orders are numbered as they are sent. Cancels, order
mix, id blocks and latencies are left out. `EngineAcks` acks an order once, twice or
with garbage; `EngineSilent` and `EngineCrash` are external. `Halt` is `stop_event`
and the deadline.

`Phase` is what happens around the bot. `Wake, Added, FinalAdded, AddFails` are
`reporter` with `_flush`, with the await of `xadd` between taking the difference and
having it in the stream; `told` adds up what is there. `NextStep, StopEvent,
Gathered, Reported` are the run loop of `run_closed`, `run_sweep` and `run_burst`: odd
steps settle on a rate, even ones measure at it. `CancelSleep, CancelGather,
CancelReport` are a stop command at each await of the loop. In the sleep it leaves bot
and reporter to themselves, and `stop_event` is never set: the bot ends at the
`Deadline`, but the reporter has none (fleet.py:212) and wakes every 0.2 s for as long
as the worker runs. So `PhaseEnds` says that the bot ends in every phase that is stopped
or cancelled, and the reporter only where `stop_event` was set; each phase cancelled in
its sleep leaks one reporter, which nothing in the code ends. A phase has one bot
here; all bots add to the same counters, which `Take` reads. `Settled` takes an
`xadd` to be faster than the second of settling. Kafka as the transport of the
samples behaves like `xadd`.

### Fleet

`TakeStart, TakeStop, Cancelled` are `_dispatch`; `Register` to `Report` are the
steps of `run_load` between its Redis calls. A phase is one step (`Phase` looks
inside), except that the closed phase may hang when its engine goes (`Hang`, as
`bot_closed_hang` shows it does). `StartRun, StopSandbox, StopAll` are the
orchestrator as the fleet sees it.

Commands reach the workers that are subscribed (`Broadcast`, `Subscribe`): over gRPC
a worker has a queue while its stream is open, over Redis a subscription to the
channel. `StreamDrops` breaks a stream; what was queued is gone, the worker's task
goes on, and it subscribes again later. `ReportFails` is a `ReportDone` that raises
because the orchestrator is not there. `WorkerCrash` is a worker that dies and comes back.

Fixed sleeps are modelled as what they assume (`AllIn`): without `"late"`, 1.5 s
suffice for every worker that has the start under way to register, and so do the 12 s
of polling or the time it takes a leader to be elected and leave. Without `"poll"`,
the 120 polls outlast a probe whose leader is at work. With them, the sleeps
guarantee nothing. Redis errors inside `run_load` are not modelled.

The keys of a run expire a budget of seconds after they were set, the set of replicas
after the last registration (`FleetExpires`; fleet.py:330-338). The budget is the length
of the phases and a minute. What is assumed of it (`AllRead`): a worker is past its
`Count` by then, since before it come 12 s of polling or a probe with waits of a second,
and no start is under way that long. The one exception is `"held"`: the probe waits for
an ack without a timeout, so an engine that is slow or silent may hold the leader up to
the timeout of the run, duration + 180 s, where the budget is duration + 89 s by default.
The leader then finds `SCARD` 0 and counts one (`max(1, ...)`), while the followers,
whose polls ran out, have divided by all. `members` is the set as Redis has it, and
`joined` remembers who ever was in it. The lock and the flag expire as well, but nobody
reads them as late as that: the lock is read right after the registration (`Elect`) and
the flag in the 12 s of polling. They keep their value in the model, where the
invariants use them as the record of who was the leader.

### Telemetry

`LearnStart` is `control_listener`; `SendRead, ReadNothing, ReadSample` are
`sample_consumer` with its `"$"`; `TakeDone, TakeSnapshot, Persist` are
`persist_listener`; `Publish` the publisher; `Connect, Recover, Subscribe` what
`main` does after a start. A sample is its position in the stream and an aggregate
the set of samples folded in, so that a row says exactly what it misses. An `XREAD`
that returns many entries is as many `ReadSample` steps, which allows the code's
behaviour (all folded in without an await) and some more. Pub/sub reaches only who is
subscribed. A lost Redis connection ends `main` and is the same as a kill. Without
`"slow"`, the 1.5 s before the first sample and the 1 s before the snapshot suffice;
without `"gap"`, no sample falls between two reads from `"$"`. The Kafka consumer, the
score and the panels are left out. `load_best` returns one row per submission, any
one here: nothing depends on which.

`shown` is the key `arena:snapshot`, which has two writers: the publisher and
`publish_event` of the orchestrator, whose status events (`StatusEvent`, at any time)
take the board off it. A dashboard that connects after one is sent that status and no
board, until the next publication (`BoardReturns`): half a second with the ingester up,
and as long as it is down with the ingester down, although app.py:247 has the replay
there "so a fresh dashboard isn't blank". `FinishedStay` is therefore said of what the
publisher writes.

## 3. What TLC checks

| Run | Instance | Shows |
|---|---|---|
| `orch_queue` | 2 runs, 2 submissions, both transports, all subsets of {docker, redis} flaky | `LaneExclusive`, `DoneIsReported`, the inductive `LaneInv`; `QueueKept`; `EveryRunResolved`, `LaneReleased`, `SandboxStopped` |
| `book_engines` | Python, C++ and Rust (Go is as C++), 4 ids, 3 prices, quantities to 2, 4 orders, ids sent once or again | `UniqueInv`, `PriceTimePriority`, `RestsAtBack`, `Refines` |
| `server_clients` | C++ with 2 io_contexts, Go and Python; the probe with 3 iterations, with and without waits that run out; or two load clients whose orders meet; kills at any time | `ServerInv`, `InOrder`, `AckFirstElsewhere`, `ProbeVerdict`; `Removed`, `Delivered`, `ProbeEnds` |
| `bot_load` | closed and open phases (2 rates), window 2, cap 1, burst 2, 3 orders, one of four engine faults or none, a failing xadd, a stop | `Accounting`, `PermitsConserved`, `InFlightBound`, `ReportedOnce`, `FinalComplete`, `NoSmear`, the inductive `PhaseInv`; `HaltEndsBot`, `PhaseEnds` |
| `fleet_runs` | 2 workers, 2 runs, six settings: nothing; late starts and polls that run out; crashes, timeouts and stops; dropped streams with crashes and stops; polls that run out, a held leader, crashes, timeouts and dropped streams; late starts with crashes and timeouts | `OneReport`, `ProbeAlone`, `EqualShares`, the inductive `FleetInv`; `LeaderReports` |
| `telemetry_runs` | 2 runs, 2 samples, a kill; or the gap; or slow and no database | the inductive `TelemetryInv`, `RowsComplete`, `FinishedStay`; `DonePersisted`, `BoardReturns` |

and six statements of docs, comments and tests the code does not keep (`findings` in
`PROJECT.json` quotes them):

| Run | Counterexample |
|---|---|
| `orch_stale_done` | a run times out, the next run of the submission is launched, the late report arrives: its handler stops the new container |
| `book_index_lost` | an id sent again while it rests: the index has one entry for two orders, and one cannot be cancelled |
| `engine_acks_late` | the C++ engine is matching an order whose ack is still posted: the latency that is measured includes the matching |
| `bot_closed_hang` | the engine exits with the window used up: the receiver is dead, `sem.acquire` never returns, the run never completes |
| `fleet_probe_overrun` | the followers' 120 polls run out and they load the book that is being probed |
| `telemetry_lost_run` | a run reported while the ingester is down is never written |

### Bounds, and why they are enough

* Two runs are what a late report, a dropped start or a second aggregate needs: the
  run that is late and the one it meets. Both may be of one submission or of two.
* Four orders make a book with two resting orders at one level, a third elsewhere,
  and a taker that crosses some of them in whole and in part; three prices have one
  between bid and ask. `MaxQty` 2 is the least with partial fills.
* In `server_clients` three iterations let a late answer reach the iteration after its
  own and the one after that; two load clients and two contexts have two handlers wait
  for the lock and one order filled by the other client's. Kills are free at every step.
* `MaxSent` 3 with window 2, cap 1 and burst 2 lets a bot fill its window or cap, drain
  it and fill it again, with a burst that straddles the cap, and leaves TLC the room
  for two rates, the reporter and a cancellation. The theorems of `BotProofs` and
  `PhaseProofs` hold for all values.
* Two workers are a leader and a follower. A third was checked with one run and is
  covered by the theorems; liveness has no case for it, as workers meet only through the
  leader's lock and flag.
* `MaxSamples` 2 gives a sample before and one after each event of the other run or
  of the kill; `MaxCrashes` 1 is one restart.
* Symmetry is used in `book_engines` only (ids are compared for equality and nothing
  is checked there that needs fairness).
* Deadlock is checked in `orch_queue`. The other instances stop when their bounds
  are used up or all runs are over, and say `CHECK_DEADLOCK FALSE`.

### Fairness

* `Orchestrator`: weak fairness of the dispatcher task as a whole. The loop runs a
  task that can run, health is polled for 40 s at most, and `wait_for` bounds the wait
  for the done event. Nothing is assumed of the fleet, the handlers or HTTP clients.
* `Probe`: weak fairness of the engine as a whole, which is enough because none of its
  steps repeats forever: a thread that could always run has run when nothing else is
  left. Weak fairness of connecting and of the probe's own steps; none of waits that
  run out, of load clients or of kills.
* `Bot` and `Phase`: weak fairness of sender, receiver, run loop (its sleeps end),
  reporter, and of acks by an engine that is up. Never of faults.
* `Fleet`: weak fairness of each worker: sleeps end, Redis answers, a phase ends unless
  it hangs. Not of starts, stops, timeouts, dropped streams, crashes or expiries.
* `Telemetry`: weak fairness of each task of the loop and of the restart (`restart:
  unless-stopped`, or a Deployment). Nothing of the fleet, of status events or of kills.

## 4. What is proved

The theorems hold for any sets of runs, submissions, ids, prices, connections and
workers and any bounds, from the named assumptions of each module (the `None` values
are not members, the workers are finitely many, numbers are of the right kind, the
choices come from the lists given).

* **Orchestrator.** `DoneIsReported` alone is not inductive: that a
  set event means a reported active run (`EventReported`) needs that the handlers in
  flight are of reported runs (`ReportsReal`), and that a run just taken is not one
  of them, i.e. that queued runs are unknown to the fleet and queued once
  (`QueueFresh`, `StartedHolds`). `LaneHeld` ties the program counter to `_active`.
  `LaneInv` adds, where no service is flaky, that the one container is the active run's
  (`OwnSandbox`) and that a handler stops before it signals (`StopFirst`): without the
  last, a run could leave the lane as done with its container still up.
  `QueuePromised` is the refinement of `RunQueue`; it needs `Unresolved`, that a run
  that waits or holds the lane has no result yet.
* **Order book.** `BookInv` holds with any ids and in every engine: listed prices are
  the levels' (`LevelsExact`), bids stay below asks (`NotCrossed`), index entries point
  at elements of their id (`NoDangling`); `Stamped` makes stamps unique, so that an
  element is identified by its stamp. `PriorityKept` follows as an action property:
  the best listed price is the best price of the side. Without repeated ids `UniqueInv`
  is inductive, the index complete (`IndexCorrect`; `book_index_lost` shows the
  assumption is needed) and every step one of `PriceTimeBook` or a stutter (`Implements`).
  `BackOfLevel` is an action property, too: what comes to rest has the latest stamp of
  its level, because every resting stamp is an earlier one (`Stamped`). Python puts a
  quantity in the place of a resting order with its id, if there is one, so the
  theorem leaves repeated ids in Python out (`reuse`). It rests on `NoneAssumption`: no
  taker and no place in the book is the value that stands for none.
* **Engine server.** Two arguments. Every step of the server is a step of `OrderBook` or
  leaves the book alone, because the handler that is in the book is the only one
  (`LockInv`): so `BookServed`, and with it whatever is proved of a book holds for
  concurrent clients (`ServedByPriority`, `ServerImplements`). And `Ledger`: what a
  handler sent is, in order, on the wire, in the hands of `async_write`, buffered or
  posted, from which `InOrder` follows. `Ledger` is kept because a second write never
  starts while one is under way, and buffers are non-empty only then (`BufferInv`).
  The context a connection is on is not part of the invariant: safety does not rest on
  it, only on the lock and on the order of the posts.
* **Acks, fills and the probe.** Outside C++ a handler awaits the send of its ack, so what
  it has sent is on the wire when it goes on (`AckedFirst`). In every engine
  `AckedBeforeFilled` holds, by an induction over what handlers send: every fill sent
  has its ack before it (`FillsAcked`), and so have those a handler has yet to send
  (`AckSent`, `Answering`); the wire is a prefix of what was sent, by `Ledger`. It is
  stronger than what the probe needs and is not part of a run; TLC found no violation
  of it on the instance of `server_clients` either. `VerdictKept` needs all of the
  probe's way through the engine: `ProbeInv` says that what is in the inbox are the
  requests asked and not read (`Queued`), where the handler is in which iteration and
  what the book holds then (`HandlerAt`), what the answers sent so far are, in order
  (`Answers`), and what the probe still expects of them (`Listening`). A wait that
  runs out leaves answers behind, which the next iteration takes for the acks of its
  orders. `Listening` says why that does no harm: none of them is an answer to its own
  taker, as those have an id of their own and come after all that is left behind. `Alone`
  says that nobody else uses the engine, which is what `ProbeAlone` of the fleet provides.
* **Bot and phase.** None of `PermitsConserved` and `InFlightBound` is inductive: a
  permit comes back with every ack received, and a send time goes only with an ack that
  matches one, so the two agree only if every ack matches. That is `UnderWay`: what is
  on the wire or among the acks is one message for an order that waits for it, unless
  the engine acks twice. `Firing` ties the place of the sender to its mode and to the
  orders its wake-up has left. `PhaseInv` adds that the baseline is what was told and
  is being told, never ahead of the counters (`ReportedOnce`), and that once a rate is
  measured the reporter has looked at the counters since the rate before
  (`ReporterInv`), from which `FinalComplete` and `NoSmear` follow.
* **Fleet.** Only the holder of a run's lock leads it (`LeaderHolds`), nobody elects a
  second one (the lock expires, but no start is late enough to find it gone, see
  section 2), and a reported run has no leader left (`ReportedLeft`): the report and
  the end of the task are one step. So `OneReported`. `ProbeUndisturbed` comes from
  `ProbeOver`: a set flag and a worker past the wait mean that nobody is on the way to
  the end of the probe; a new prober would have to win the election of a run that has
  a leader (`Elected`). `SharesEqual`: once a run is probed or counted nobody is still to
  register for it (`Registered`), and nobody new comes, as each run is started once
  (`Begun`); so the set of replicas stays what every worker counts, until it expires.
  `SetLives` says who is left by then: nobody who still counts, but a leader held in its
  probe. That leader is the exception in `EqualShares`, the only one: it divides by 1
  and offers the whole rate, so that the load of the run is more than its tag says.
* **Telemetry.** `RowsFull`: an aggregate under a submission's name has every sample of
  its run that was read (`Aggregates`), because the start is handled before the first
  sample, and one that is made from a sample has no name. Reading begins where it left
  off, so when the snapshot is taken nothing from before the report is missing
  (`Saving`, `Curve`). `BoardKept` is about every board the publisher writes: a submission
  with a row has an entry in `BEST` or an aggregate from which the board takes one
  (`Boarded`), and a restart reads the rows back before anything is shown; `Blank` says a process that is not up holds
  nothing that could come back.

Every invariant and action property of a passing run is stated by a theorem. Only model-checked
is liveness, as fairness and `ENABLED` are beyond the prover: `EveryRunResolved`,
`LaneReleased`, `SandboxStopped`, `Removed`, `Delivered`, `ProbeEnds`, `HaltEndsBot`,
`PhaseEnds`, `LeaderReports`, `DonePersisted` and `BoardReturns`. No module declares a `RECURSIVE`
operator.

## 5. Not modelled, and why

* **crow beyond the connection.** Most of the repository's C and C++ lines are one
  vendored header of 15,400 lines. What the engine's messages rest on is modelled:
  accepting, upgrading, reading, buffering, writing and closing of a WebSocket
  connection. The HTTP parser, router, JSON, multipart, templates, compression,
  TLS and logging of the header are not the arena's code, and the engine either does not
  use them or uses them as pure conversions; modelling them would say nothing of the
  arena. The share of all C and C++ lines that the definitions translate
  stays accordingly low, and they name only lines they stand for.
* **Metrics and the score.** Formulas over floating-point numbers, without state;
  integers would only approximate what is in question.
* **k8s sandbox backend.** Whether a delete has finished when a create comes is up to
  the API server, of which the code shows nothing. `Orchestrator` has the calls that
  raise.
* **Dashboard relay.** It forwards; what a client misses between the snapshot and its
  subscription the next publication repairs half a second later. The key it replays, with
  its two writers, is `shown` in `Telemetry`.
* **SQL, rollups and panels; wire layouts; generated code; configuration of Docker,
  Kubernetes and Terraform; the page; sample submissions; scripts.** No state of their
  own that steps could break. The tests and scripts were read for what they promise.
* **Kafka consumer of the ingester, Redis errors inside `run_load`.** The first has the
  broker's offsets and rebalancing behind it, which the code does not show; the second
  ends the task as a crash of the worker does, which is modelled.
* **One specification of everything.** `Orchestrator`, `Fleet` and `Telemetry` each have
  the others as their environment (`FleetReports`; `StartRun`, `StopSandbox`; `StartRun`,
  `ReportDone`). Their product is beyond TLC at sizes where a second run exists.
