# Verification of the Companion platform's experiment bench

TLA+ models of the code that produces, transports and archives measurement
evidence: the portable bench firmware (`firmware/experiment-bench/portable`, C)
and the measurement tooling (`tools/measurement`, Python).  Paths below are
relative to the repository; `P/` stands for `firmware/experiment-bench/portable`
and `T/` for `tools/measurement/measurement`.

The repository is mostly documentation of a hardware platform.  The code that
has state and makes promises is a measurement chain: an engine runs SPI
transactions against a slave, its samples go through a ring and a sink into a
stream of frames, the stream is captured and analysed, and the result enters an
archive whose history decides whether a run counts as measured evidence.  What
the chain promises, everywhere, is that a number is never better than what was
observed: a loss is counted and located, an incomplete series founds no verdict,
a run reaches `M` only by the steps that qualify it.  The models are about that.

## Inventory

| part | state | operations | who calls it |
|---|---|---|---|
| telemetry ring, `P/telemetry/ring.c` | circular buffer of samples, circular buffer of gap records, saturating loss counters | push (keeps or drops), pop, peek and commit of a gap | the host engine pushes, the drain pops |
| telemetry drain and session frames, `P/telemetry/telemetry.c` | frame number, accepted and refused counters | drain, header, summary, histogram, footer | the engine after each transaction, then the runner |
| histogram, `P/telemetry/histogram.c` | saturating bins, underflow, overflow, `saturated` | init, add | the host engine |
| host engine, `P/engine/engine.c` | raw counters, event number, transaction under way | one step per transaction, run | the board's main or a test |
| slave engine, `P/engine/engine.c` | raw counters, port status, prepared response | on_select, on_transaction, peek_response | the link |
| simulated link, `P/sim/sim_link.c` | shared clock, IRQ line, transfer index | transfer with injected faults, irq get and raise, delay | the host engine |
| transaction and deadlines, `P/transport`, `P/scheduler` | state, deadline, progress | begin, advance, latency | the host engine |
| counters, `P/counters` | saturating counts | add of a transaction, an error, a timeout, an IRQ; derived rates | both engines |
| profile, `P/profiles` | a constant | faults by index, payload, delays | the host engine |
| frame, `P/frame`, `P/crc` | none | encode, decode of a prefix, corruption of a chosen octet | engine, telemetry |
| control protocol, `P/protocol`, `P/util/wire.h` | none | encode and decode of a command and of the counters | the host board's main encodes the counters and sends a text instead; nobody (commands) |
| capture analysis, `T/analysis/telemetry.py`, `stats.py`, `histogram.py` | none: a function of the capture | decode and resynchronise, state machine, sequence, footer, eligibility, quantiles | the command line |
| publication of a run, `run_campaign` of `T/orchestration/campaign.py` | a staging directory, the run's directory | build file by file, rename, remove on an exception | the command line |
| evidence archive, the rest of `campaign.py` | the files of a run: events, analysis, and derived state, index, report | verdict, analysis, review, promotion, rebuild, verify | the command line |
| drivers, `T/acquisition` | a snapshot of the imported files | prepare, acquire, capture | `run_campaign` |
| schemas, report, command line | none | validate, render, dispatch | the user |
| boards, `firmware/experiment-bench/boards` | the host's engine, the slave's engine and the frame it received | the host's run, then a text on its serial port; the slave's loop recv, on_select, on_transaction, peek, send | reset |
| HAL, `firmware/experiment-bench/hal` | none: skeletons whose bodies are TODOs | clock, transfer, recv, send, IRQ, serial | engines and mains |
| profiles, scenarios and cases, `firmware/experiment-bench/scenarios` | constants | - | the mains and tests |
| host skeleton, `firmware/host-skeleton` | none of its own | delegates to ports | - |

How they interact.  Each board's firmware is single threaded.  On the simulated link
both engines share one thread: the host engine calls the link, which calls the slave
back inside the transfer.  On the boards they are two processors that share wires: the
slave's loop waits for a transaction, judges it and loads its answer, which leaves with
the next exchange.  After each transaction the host engine deposits a sample and drains
the ring, and every frame of a drain calls a sink that may refuse it.  The capture is a
file: it may miss frames, hold damaged ones, and in principle repeat or swap them.  The
tooling is a set of commands on one directory, each of which reads some files and then
writes some files, without a lock and without a transaction.

What is hard.  In the ring, two circular buffers advance independently and their
contents must be interleaved in the order of the transactions, while the sink
refuses arbitrary frames.  In the engines, a fault injected at one end must be
the failure counted at the other, and a clock wraps inside a deadline.  On the
boards, nothing ties an answer to the exchange that brings it.  In the
analysis, the frame that would tell that a frame is missing may itself be
missing.  In the archive, a command may die between two of its writes, and the
guard of the next command reads what the dead one did not get to write.

## Modules

| module | models | how |
|---|---|---|
| `TelemetryRecords` | the wire records, saturating and wrapping counters | the 32-bit maximum is the constant `U32Max` |
| `TelemetryRing` | `ring.c` and the drain loop of `telemetry.c` | see below |
| `LossLog` | what the ring promises | a log of samples and losses, whose head is offered to the sink |
| `TelemetryRingInv` | - | the ring's inductive invariant, and the log that the ring stands for |
| `BenchEngine` | `engine.c`, `sim_link.c`, `transport.c`, `scheduler.c`, `counters.c`, `profile.c` | see below |
| `BenchEngineProofs` | - | its inductive invariants, the series, both ends' counters, timing: eight theorems |
| `SharedLemmas` | - | remainders, induction over the naturals, folds over a sequence, sums as cardinalities |
| `ControlProtocol` | `protocol.c`, `wire.h` | operators on sequences of octets; no state |
| `Scenarios` | `demo_scenario.c`, `l1_concurrence.c` | the declared profiles, scenarios and cases |
| `BenchBoards` | both mains, both HAL skeletons, a wired HAL (external) | extends the engines, the protocol and the scenarios: composes them |
| `BenchBoardsProofs` | - | the two boards at any pace, messages and commands: seven theorems |
| `StreamAnalysis` | `parse_stream`, `analyse_sequence`, `build_analysis`, `reconcile` | operators on the sequence of decoded frames |
| `TelemetrySession` | the emission of a whole stream, and its capture | extends the ring and the analysis: composes them |
| `TelemetrySessionInv` | - | the session's inductive invariant |
| `TelemetryProofs` | - | the ring, its drain, a whole session and what its capture proves: sixteen theorems |
| `RunPublication` | `run_campaign` up to the rename | see below |
| `EvidenceArchive` | the rest of `campaign.py` on the run | extends `RunPublication` |
| `EvidenceArchiveProofs` | - | a publication, and the archive of one process that recovers: its inductive invariant, eight theorems, the refinement among them |
| `EvidenceLifeCycle` | what the archive promises | a trail of events, a status, an analysis; no files |
| `EvidenceLifeCycleProofs` | - | what follows from it |
| `FrameScan` | `frame.c` (encode, decode of a prefix), `_decode_frame` and the loop of `parse_stream` | see below |
| `FrameScanProofs` | - | every file that accidents can make of frames: three theorems |
| `LatencyStatistics` | `histogram.c`, `stats.py`, `histogram.py`, `valid_latencies` | see below |
| `LatencyStatisticsProofs` | - | proofs about durations, the histogram's counts, the quantiles and types |
| `MC...` | - | values of the constants |

**TelemetryRing.**  `slots`, `head`, `count` and `gaps`, `gapHead`, `gapCount`
are the two circular buffers, with the C index arithmetic.  `Push` and `Drop`
are the two outcomes of `bench_ring_push`; `Drop` has the four ways `record_drop`
has of locating a loss (no gap memory, extend the newest record, a new record,
merge into the newest because there is no room).  A drain is `StartDrain`
followed by one `DrainStep` per iteration of the loop, so that deposits may fall
between two drains but, as in the code, not inside one (`room` is what remains of
the budget).  The sink's answer is a choice in each step.  Three history
variables carry what the code cannot know: the number of transactions offered,
which of them were kept, and the records the sink accepted.

**BenchEngine.**  A transaction is `Transfer` (the link, with the slave called
inside it, and the faults of the link: corruption either way, early chip select
release, a lost response, busy, error, timeout, latency) followed by `Conclude`
(the host's deadline, reply, counters, sample, IRQ).  A declared timeout is a
step of its own which never reaches the link.  Frames are a sequence number and
an intact or corrupted mark; the clock is kept without wrapping in `time` and
read modulo `TickMod`.

**ControlProtocol.**  A message is a sequence of octets, and `OctetMod` is 256 or,
for TLC, less.  `EncodeCmd` and `DecodeCmd` keep the order of the code's checks;
`EncodeCounters` lays the counters out field by field, most significant octet first.
No code of the repository executes a command: `RESET_COUNTERS` and its like have
no handler, and `record_reset` is never called.

**BenchBoards.**  The host's actions are the transfer, the conclusion and the declared
timeout of `BenchEngine`, and the end of `main` (`HostReport`), which encodes the
counters into a local buffer, uses only its length, and hands the text "counters ready"
to the serial port (`serial`); the slave's are the four calls
of its loop, one action each, with `slavePc` as the place in it.  The two boards
interleave freely, so the host may transfer twice while the slave is between two
calls.  `wired` says which board has a HAL that works: a board outside it has the
skeleton of the repository, whose transfer fails and whose `recv` returns at once
with nothing.  The wired HAL is external: it does what `hal.h` and the skeletons'
TODOs describe.  `mosi` is the frame in the slave's receiver, `miso` what the
slave loaded for the next exchange; an exchange that finds the slave not waiting
is missed, and the line may damage either direction.  The IRQ line is a level, as
the TODO of the ESP32's HAL reads it.

**TelemetrySession.**  `setup` says who drains and whether a histogram is
announced.  `phase` follows the order of the emission in
`P/tests/test_telemetry.c`, the only place of the repository where a whole
session is emitted.  `Capture` is external: it drops a few frames, or repeats
one, or swaps two.  Nothing else of the module is outside the repository's code.

**RunPublication** and **EvidenceArchive.**  A publication is a chain of steps
through `pc`: refuse a `run_id` that is there, clear the staging directory, one
step per file in the code's order, rename.  A file holds the number of the attempt
that wrote it, so that a leftover of another attempt can be told.  An exception
removes the staging directory; a crash leaves it, with a torn file, to the next
attempt.  From the rename on, the archive's files are variables: `events` maps a
name to an event, and a name is a number, four times that of the event plus the rank
of its type, which puts it where `sorted()` puts the file; `InOrder` reads a directory
in that order, and `With` writes a file of it.  `analysis`, `state` and `index` are one
file each.  An operation is a chain of steps through `pc`: what it reads and checks,
then one step per file it writes, in the order of the code.  A process that dies
loses `local`; the file it was writing may be left torn, which no reader accepts.
The report is left out: it is written last and never read.  Reads that precede the
first write are one step, a promotion's `verify_run` included.  Hashes are fresh
numbers.  The dossier never changes after the acquisition: its nature is chosen at
the start, and it qualifies the run (approved baseline, complete context,
reproducible build) exactly if the call of `run_campaign` brought a baseline.

**EvidenceLifeCycle** is the archive's abstract specification: a trail that only
grows, a verdict or a review while it is open, one analysis, and a promotion which
the last verdict, decisive and about that analysis, allows and nothing follows.
`EvidenceArchive` implements it under a mapping that reads the trail off the event
files that are whole, in the order of their names, and takes a torn analysis for
none.  Every write of a derived view, every crash and every rebuild is then a
stutter, and what the mapping says is that the files, which are written one by one
and replayed by every reader, are never more than one legal event ahead.

**FrameScan.**  `capture` is a file of octets, one per field of a frame (the
marker stands for magic and version, the length and the CRC are one octet each);
each carries, as history, the frame and the place it comes from.  Frames are sent,
then up to `MaxHits` accidents of the line (external) change an octet, lose one or
cut the end off, then each `Scan` is one iteration of the parser's loop.  A CRC is
the sequence of values it covers, so that no damage of one goes unnoticed by it: what
a 32-bit CRC misses is not the subject.  `TelemetrySession` starts from what this module ends
with: a damaged frame is an absent one.

**LatencyStatistics.**  `Measure` is what `record_sample` does with one
transaction whose sample is not lost (losses are the session's subject): the two
readings of the clock join `series`, and the device's histogram takes the
duration of a transaction that ended well.  The layout of the histogram is chosen
at the start; `bench_histogram_init` may refuse it.  The tooling's side is a set
of functions of `series`.  `durations` is a history: how long each transaction
really took.

## Runs

| run | constants | what it shows |
|---|---|---|
| `ring_exact` | 2 samples, 3 gap records, 7 transactions, 8 frames | with the gap buffer that `ring.h` recommends, no loss is merged, destroyed or displaced; the ring implements `LossLog`; a drain ends |
| `drain_budget` | 2 samples, 3 gap records | a call takes more than `max_messages` messages (violation) |
| `engine_pair` | 3 transactions, a clock modulo 8, five profiles | both ends agree on every transaction, whatever fault falls where |
| `boards` | 3 transactions of each declared profile and of one with declared timeouts, 3 services of the slave, the four ways of wiring, octets modulo 8 | late answers never flatter the link; totals agree; the host's counters survive their encoding |
| `boards_line` | the declared profiles, both boards wired | the IRQ line is never released (violation) |
| `session` | 1 sample, 1 gap record, 4 transactions, 6 frames, 2 lost | what the reader of a capture may conclude |
| `session_no_gap_memory` | 1 sample, no gap record, a histogram | a histogram matches the series, whatever was lost; the inductive invariant of a session |
| `archive_recovery` | 5 events, 2 analyses, 2 mishaps | publication, operation, exceptions, crashes and recovery of one archive; it implements its life cycle |
| `archive_crash` | 5 events, 1 crash, no rebuild | a verdict is appended after `M` (violation) |
| `archive_race` | 2 processes | an immutable file is overwritten (violation) |
| `frame_scan` | 2 frames, 2 accidents, lengths up to 7, payloads of 1 and 7 octets | the parser ends, forges nothing, and reads intact frames |
| `latency_statistics` | 5 transactions, counters up to 3, a clock modulo 16, 5 layouts | device and tooling count the same population, or the device says that it does not |

Why these bounds are enough to be of interest.  A ring of two or three slots wraps
several times in seven to nine transactions, and the two buffers then have every
relative position; three gap records are `capacity + 1`, the size for which `ring.h`
claims that nothing is merged.  The session's single record for one slot is one short of
it, so that merged runs of losses reach the stream and its analysis.  In the engines,
three transactions let a fault declared every second or third transaction fall before,
after and on another one, and a budget of half the clock's period puts the wrap inside a
transaction, between two, and at the deadline.  On the boards, two exchanges are enough
for an answer to come one exchange late, and the third for it to be taken for a
transaction that failed; the transactions of the declared profiles are capped at three
(`MaxCount`), and a clock of 4096 ticks wraps after two of the longest declared
budgets.  Octets modulo 8 with identifiers of up to two octets make all messages of up
to five octets few enough to enumerate; the proofs cover 256 and 32.  In a session, one
slot is enough to drop, and four transactions give two runs of losses around a sample;
two lost frames let the frame that reveals a loss be lost as well.  Two separate gap
markers in a complete stream need a longer run than TLC's: `GapsLocateEveryLoss` is proved
for every length.  In a publication,
the second mishap meets what the first left.  In the archive, acquisition, verdict,
review and promotion are four events, and the fifth is the one that must not follow; two
mishaps let the recovery of a crash crash.  The two analyses are symmetric, which is
sound for `archive_recovery`: its properties are invariants and a refinement without
fairness, and none names an analysis.  In the scan, one payload is the header of a frame
with another length, and a length may be damaged to the longest, which reaches beyond
the end of the file, or to one too long.  In the statistics, durations lie below, on and
between the edges, the layouts include three that are refused, and five transactions
pass the maximum of a counter.  A population of five cannot tell P95 from P99;
`RankIsNearest`, which is proved for every population, does.  In the ring's and the
session's runs `U32Max` is far above what the counters reach, so they do not exercise
saturation or the wrap of frame numbers; the proofs about the ring hold for every value
of `U32Max` that the module's assumptions allow.

Every property of a passing run has a mutant: a definition of the model changed
the way a plausible bug of the code would (a marker consumed before the sink's
answer, a run of losses extended across a sample, a lock that is not read).  The
mutants stand next to what they change, marked as such.

What the runs showed about the code, beyond their properties:

- The engine drains up to four messages after each transaction, so with one slot
  or more its ring is empty whenever a transaction begins and it never drops
  (`EngineNeverDrops`): the gap machinery is exercised only by other callers.
- The parser never compares the number of samples it read with the summary's.  A
  caller that emitted the summary with samples left in the ring would get an
  eligible stream with a truncated series.  Draining before the summary is an
  obligation of the caller (`FinalDrain`); `EligibleSeriesIsWhole` holds because
  the callers meet it.
- In a stream that has its footer, the trailing gap of `analyse_sequence` is
  always zero: the state machine makes the footer the last frame, and its number
  is the one it announces.
- A damaged length that announces more octets than the file has left ends the
  scan (`telemetry.py:110-111`): intact frames behind it, within one longest frame
  of the end, are given up.  `IntactFramesRead` says that no other damage hides an
  intact frame; without its margin TLC finds the case.  The footer is among the
  frames lost, so the stream is `incomplete` and no verdict is founded on it, but
  `frames_resync` does not count the event.
- It does only as long as no payload carries the fields of a whole frame (`NoFrameInside`).
  Where one did, a file with enough accidents could be left with the outer frame complete
  around an intact inner one, and the parser, which skips what it accepts, would not read
  the inner one.  No message is built to carry a frame, but nothing in the format excludes
  it.
- The sample of a frame the profile corrupted carries `FAULT_CRC` only where a
  reply was decoded: if the transaction timed out or the transfer failed, the
  status hides the flag.
- A repeated sample frame is counted once by the footer's reconciliation and
  appended twice to the series, which stays eligible.
- With a ring that has no slot at all the engine still feeds the histogram with
  valid latencies the ring dropped, and histogram and series then differ.  No
  profile of the repository has such a ring.
- An empty transaction (`packet_size` 0) exchanges 13 octets, one less than an
  acknowledgement needs: it is always rejected, and never late.
- The host does not compare the sequence number of a response with its request.
  On the simulated link the answer belongs to the exchange, so nothing follows
  (`OkMeansAccepted` holds).  On the boards the slave loads its answer after the
  exchange (`boards/rp2040_reference/main.c:41`), so a success is the
  acknowledgement of an earlier frame: totals are right (`BoardsAgree`), but no
  verdict belongs to the transaction it is recorded for (`VerdictsAreLate`).
- The slave's skeleton `recv` returns at once, so the loop of an unwired slave
  counts CRC errors for transactions nobody made.
- On a clock port without a delay, which is what both skeletons are, a declared
  timeout (simulated by waiting) does not expire: the transaction fails otherwise.
  `TimeoutsAreReal` is therefore stated and proved for `HasDelay`.
- A TIMEOUT status returned by the link counts a timeout without the event that
  the host's own deadline logs.
- A torn event or analysis file is permanent: it is immutable for every operation
  and no operation removes it.  `rebuild_derived` raises on a torn event, and does
  not look at the analysis, so after a torn analysis it succeeds and `verify_run`
  still fails; this is why `ArchiveVerifies` excludes a torn analysis.

## Findings

- `drain_budget`: `telemetry.h` promises at most `max_messages` messages per
  drain; a sample whose frame is refused is popped without counting.
- `boards_line`: `ports/irq.h` says that the module raises the line and then
  releases it; nothing in the repository calls `clear`.  The simulated link hides
  it, because there the host's reading lowers the line.
- `archive_crash`: the lock of a run at `M` is read from a derived view written
  after the promotion event.  A crash between the two lets a verdict be appended
  after `M`, after which neither `rebuild_derived` nor `verify_run` accepts the
  history.  Running `rebuild_derived` after the crash avoids it
  (`archive_recovery`), but nothing in the code asks for it.
- `archive_race`: that an analysis is absent is checked before it is written, and
  the write overwrites.

## Fairness and liveness

Three liveness properties are stated, each under weak fairness of what a processor
does when nothing else runs on it.

- `DrainTerminates`: a drain that started ends.  Weak fairness of `DrainStep` says no
  more than that the loop of `bench_telemetry_drain` keeps running: it is one thread,
  and the sink is a function that returns.  No fairness of the sink's acceptance is
  assumed; the property holds when every frame is refused.
- `ScanEnds`: the parser reaches the end of any file.  Weak fairness of `Scan`: the loop
  of `parse_stream` keeps running.
- `LineReleased`, which is violated: weak fairness of the host's steps and of the
  slave's, one processor each (`BoardsFairSpec`).

The engines are loops over a counter and the archive's commands straight-line code, so
their termination says nothing that a reader of the code does not see.

## Proofs

`TelemetryProofs` proves of the ring, for every `Capacity`, `GapCapacity`, budget and
bound, and for every behaviour of the sink:

| theorem | property | run |
|---|---|---|
| `TypeCorrect` | `TypeOK` | `ring_exact` |
| `RingInvariantHolds` | `RingInvariant` | `ring_exact` |
| `NeverMerges` | `NoMerge` | `ring_exact` |
| `LossesAreLocated` | `LossLocated` | `ring_exact` |
| `WireInOrder` | `WireChronological` | `ring_exact` |
| `LossesAreCounted` | `LossConserved` | `session` |
| `RingIsALog` | `ImplementsLossLog` | `ring_exact`, under `GapCapacity > Capacity` |

The assumption is `RingAssumption` of `TelemetryRing`: the capacities are natural
numbers, and the bound on transactions stays below the 32-bit maximum, as the
code's own note on the sentinel `NO_SEQ` requires.

None of the safety properties is inductive.  That the wire is
chronological, for instance, says nothing about the records still in the
buffers, and the next frame may be any of them.  `RingInvariant` says that the
two buffers are views of one chronological list: the samples are kept
transactions in increasing order (`SamplesInv`); the gap records stand at
distinct positions of the sample sequence, none before what was already popped
(`PositionsInv`), which is what bounds their number by `Capacity + 1` and gives
`NeverMerges`; each is about transactions between its neighbours (`GapsInv`);
all that was sent comes before all that is pending (`WireInv`); and until a merge
the records cover exactly what was dropped (`RunsInv`).

The argument has two layers.  The view lemmas (`PushView`, `PopView`,
`CommitView`, `ExtendView`, `AppendView`) settle the modular arithmetic: each
operation on a circular buffer appends to, removes from or changes one element
of what `SampleAt` and `GapAt` show.  The step lemmas, one per action, use only
those, so that no remainder appears above them.  A drop is split by the way it
locates the loss.

`LossConserved` is about sums over the gap records, pending and sent.  The model
states each as the cardinality of a set with one pair per loss (`PendingLosses`,
`ReportedLosses`), so that a loss adds a pair, a marker accepted moves its pairs from
one set to the other, and no sum is taken apart.  It needs nothing of `RingInvariant`
beyond the types, merges included.

`RingIsALog` is the refinement: with the gap memory that `ring.h` recommends, every step
of the ring is a step of `LossLog` or leaves it as it is.  The mapping lists the pending
records in the order of the first transaction each is about (`Chronological`).  A list
of records in that order is the only one (`OneOrder`), so the log after a step is known
as soon as one such list of what is then pending is found; `Ordered(Timeline,
PendingRecords)` is the invariant that carries this from step to step.  `LaterRecord`,
`EarliestRecord` and `LatestRecord` say how the list changes when a record is added after
all others, when the first leaves, and when the last grows; `PushRecords`, `PopRecords`,
`CommitRecords`, `NewRunRecords` and `SameRunRecords` say, from `RingInvariant`, that
these are the only changes there are.  That a new run starts after a sample, and never
after another gap, is what makes consecutive losses one record.  Without the hypothesis
two runs may be merged, and the ring is not the log: what remains true then is
`WireChronological` and `LossConserved`.

The same module proves of a whole session, for every capacity and budget, every way the
samples are drained, whatever the sink refuses and whatever frames the capture misses,
repeats or swaps:

| theorem | property | run | hypotheses |
|---|---|---|---|
| `SessionInvariantHolds` | `SessionInvariant` | `session_no_gap_memory` | - |
| `EngineDropsNothing` | `EngineNeverDrops` | `session` | - |
| `EligibleSeriesAreWhole` | `EligibleSeriesIsWhole` | `session` | - |
| `GapsNameTheLosses` | `GapsLocateEveryLoss` | `session` | - |
| `SessionsCountTheLosses` | `LossConserved` | `session` | - |
| `SessionsKeepALog` | `ImplementsLossLog` | - | `GapCapacity > Capacity` |
| `HistogramsAgree` | `HistogramMatchesSeries` | `session_no_gap_memory` | - |
| `CompleteStreamsAreWhole` | `CompleteHasEveryFrame` | `session` | `U32Max > 4` |
| `TransportGapsAreCounted` | `TransportGapCounts` | `session` | fewer frames attempted than half the numbers |

The assumptions are those of the ring and `SessionAssumption`.  Its last conjunct, that the
caller's final drain is longer than the ring and the gap memory together, is how
`test_telemetry.c` calls it (64, for the ring it declares): with a shorter one samples stay
in the ring, no counter tells, and `EligibleSeriesIsWhole` is false.  The two hypotheses are
about frame numbers, which the code takes modulo 2^32.  With `U32Max` below 5 a swap of two
neighbours is a step of half the range and is not seen as one; a session longer than half
the range could mistake a loss for a late frame.  `HistogramMatchesSeries` leaves out an engine
whose ring has no slot: it counts in the histogram the samples that the ring cannot keep.

What the analysis concludes rests on one argument.  The footer says how many frames were
attempted, accepted and refused; a stream is complete when as many distinct numbers were
read as were attempted and none was refused.  Numbers are distinct in the stream
(`NumbersInv`, `FooterInv`), so equal cardinalities mean that no frame is missing
(`CompleteSamples`).  Then each transaction the ring kept is in the ring or was sent
(`DeliveryInv`), the ring is empty (`EmptiedInv`: the last drain was long enough, and this
needs the sink to have refused nothing), every record sent is in a frame, and every frame
says what the counters were (`BodiesInv`).  So the summary's "no drop" is `DropFree`, and
its "no merge" is what `RingInvariant` needs for the gap records to be exact.  The order of
the phases matters throughout: a summary tells the truth because nothing changes its
counters after it (`Summarised`).

The functions of the analysis are folds over the captured frames.  `FoldExists` of
`SharedLemmas` gives a fold as a sequence of states, one per frame, and `AnalysisSteps` and
`StructureSteps` say what each step does; the proofs then follow an invariant along that
sequence as they follow a behaviour's.  For the transport gap, `Accounted` says that the
numbers up to the last one read are read, missing or behind a late one; for the order of a
complete stream, `JumpIsMissing` says that a swap of two frames that the analysis would
accept needs a jump of two numbers, which it counts as missing.

`BenchEngineProofs` proves, for every set of profiles and latencies, every clock width and 32-bit maximum, and every fault of the link:

| theorem | property | run |
|---|---|---|
| `TypeCorrect` | `TypeOK` | `engine_pair` |
| `SuccessIsAccepted` | `OkMeansAccepted` | `engine_pair` |
| `FaultsHappen` | `DeclaredFaultsHappen` | `engine_pair` |
| `NoInterruptLost` | `IrqConserved` | `engine_pair` |
| `TimeoutsReal` | `TimeoutsAreReal` | `engine_pair` |
| `DurationsReal` | `LatenciesAreReal` | `engine_pair` |
| `SeriesIsCounted` | `SeriesMatchesCounters` | `engine_pair` |
| `EnginesAlwaysAgree` | `EnginesAgree` | `engine_pair` |

The assumptions are `EngineAssumption` (the types of the constants) and
`U32MaxAssumption`.  The two theorems about time have a hypothesis of their own,
`WideClock`: a link's latency and a profile's budget are shorter than the clock's
period, which 64 bits of ticks are; `TimeoutsReal` also asks for `HasDelay`.

A transaction is two steps, and what the properties say is about the second, so the
invariant `EngineInv` says what the first leaves behind.  A reply that acknowledges is
one the slave accepted in this transfer (`OkMeansAccepted` alone does not say that, and
the next `Conclude` would break it); a frame the profile corrupted was not accepted, so
its reply does not acknowledge; and the slave has counted
at most one interrupt more than the host, which is then still on the line, even where
one of the two counters saturates.
`TimingInv` adds that the readings in the samples are the remainders of two
instants less than a period apart, and `SharedLemmas` that their difference is then
the real duration.  The sum of the host's latencies is stated as the number of ticks the
samples took (`TicksOfSeries`, pairs of a sample and one of its ticks), so that a step
adds a set of pairs to it and no induction over the series is needed.  The counters'
theorems are about cardinalities of sets of samples, which a saturated counter would
leave behind; `CountersInv` and `AgreeInv` bound every counter by the number of
transactions issued, which a profile declares on 32 bits, so
that no counter saturates before the last one.

`BenchBoardsProofs` proves, for every set of profiles and ways of wiring, every pace of
the two boards and everything the line may damage:

| theorem | property | run |
|---|---|---|
| `VerdictsLate` | `VerdictsAreLate` | `boards` |
| `BoardsAlwaysAgree` | `BoardsAgree` | `boards` |
| `CountersAreReadBack` | `CountersReadBack` | `boards`, under `ShortRun` |

The assumptions are those of the engines and `BoardsAssumption`.  Neither of the first two
properties is inductive: both speak of what the host has concluded, and what it will conclude next is
still on its way.  `BoardsInv` follows an acknowledgement from the slave that prepares
it to the next exchange, the host's hands and its counters: it is in one of these places
only, so that together they hold at most as many as the slave accepted frames
(`AnswersAreEarned`); and the one in the host's hands was earned before the exchange
that took it (`AnswerIsEarlier`), because an exchange takes what was loaded while every
accepted frame was still an earlier one.  That the slave accepts each frame once rests
on the order of the frames accepted, held and waiting (`FramesInOrder`), which also
bounds their number and keeps the slave's counter from saturating.  The conclusion of a
transaction, or of a declared timeout, is the engines' own step, and its proof is the
lemma `TransferConcludes` or `DeclaredTimeoutConcludes` of `BenchEngineProofs`.

`CountersAreReadBack` is about the encoder and the decoder, on the counters an engine has at
any time of its run: no code sends the octets.  It has one hypothesis, `ShortRun`: the run is shorter than the period of a
64-bit microsecond clock.  The model's sum of latencies is unbounded where the code's is a
`uint64_t`; below that period the two are the same number.  The octets are read field by
field: each of the ten fields is appended where the decoder looks for it, and what is
appended after leaves it in place (`Extends`, `ReportDecodes`).  What makes the message the
counters, and not their remainders, is that every one of them fits its field, which is the
invariant `CountersBounded` (`Bounded`, `EventBounded`): the 32-bit counters saturate, the octets
sent are at most 256 per transaction, and the latencies together are at most the time
elapsed, because two readings of the clock never tell more than what passed between them
(`ReadingsNeverFlatter`).

The same module proves about `ControlProtocol`, for every octet modulus above 6 and every longest
identifier:

| theorem | what it says |
|---|---|
| `CommandsAreExact` | a message that is accepted is the encoding of its command; a command arrives as it was sent |
| `U16RoundTrip`, `U32RoundTrip`, `U64RoundTrip` | what was put on the wire is read back |

The assumption is `ProtocolAssumption`.  Commands involve no state, so no run has a
behaviour to check: TLC evaluates `CommandsExact` once, as an assumption of
`MCBenchBoards`, over all messages of up to five small octets.  A command's round trip goes through the
lengths first, which decide every branch, then through the octets; a wide integer is
its two halves, and the lemmas on halves are used three times.

`EvidenceLifeCycleProofs` proves, for every set of analyses, verdicts and events:
`MeasuredIsFinal` (nothing follows `M`), `TrailGrows` (what was recorded stays where it
is) and `PromotionIsQualified` (the last verdict before a promotion is decisive and is
about the analysis the archive holds).  The last is not inductive by itself, because a
second event could come between or the analysis could change; the invariant says also
that a promotion is the last event of the trail and that its status is `M`, after which
neither can happen.  By the refinement (`ArchiveIsATrail`, below) these are facts about
the archive of one process that rebuilds after a crash.

`EvidenceArchiveProofs` proves, for every set of analyses, every number of events and
of mishaps, and wherever an exception, a crash or a deletion falls:

| theorem | property | hypotheses |
|---|---|---|
| `RunsArePublishedWhole` | `PublishedIsWhole` | - |
| `ArchiveTypes` | `TypeOK` | one process, recovery |
| `EvidenceIsAppendOnly` | `AppendOnly` | one process, recovery |
| `NothingAfterM` | `LockedAtM` | one process, recovery |
| `EventsReplay` | `HistoryReplays` | one process, recovery |
| `ArchiveAtRestVerifies` | `ArchiveVerifies` | one process, recovery |
| `MeasuredRunsQualify` | `MeasuredIsQualified` | one process, recovery |
| `ArchiveIsATrail` | `ImplementsLifeCycle` | one process, recovery |

The hypotheses are the two that the findings leave: `OneProcess` (no second command runs
on the run) and `RebuildFirst` (after a crash, `rebuild_derived` runs before any other
command).  The code asks for neither, and without the first `AppendOnly` is violated
(`archive_race`), without the second `LockedAtM` (`archive_crash`): the theorems say that
nothing else is needed, and are the converse of those runs.  The publication needs none,
as the model lets one process at a time publish the run.

A run is whole because the directory aside holds, at every step, what the attempt has
written so far and nothing else (`Built`), which is what clearing it first establishes;
`PublishedIsWhole` itself only speaks of the end.  For the archive, `ArchiveInv` has two
parts.  `HistoryInv` is about the files: the events are numbered without a gap, each
follows legally from those before it and carries the hash of the last, nothing follows M,
a torn one is the last, and a promotion is earned by the verdicts before it.
`OperationInv` is about the process: nobody else writes, so what an operation read and
checked when it started (the status, the verdict, the listing of the directory, that no
analysis is there) is still so at each of its writes, and until it writes the state the
state says what the history says, so that the lock and the status it read were true ones.
None of the properties is inductive alone: that the events replay, for instance, does not
say that the event about to be written starts from the right status.

Two lemmas carry most of the data.  `InOrderIs`: the contents of a directory whose files
are named 1 to n are a sequence of n, found by counting the names below each (the module's
one induction over the naturals, with the predicate as a set).  `AppendFile`: a file named
n + 1 is appended to that sequence, and no other place of it changes.  Above
them `HistoryGrows` and `PendingEvent` say that a history stays one when the event that an
operation prepared follows, whole or torn.  The refinement then has one case per action:
the rename is `Acquire`; an event is `Decide`, `Review` or `Promote`, by its type and by
what `OperationInv` says of it (`EvidenceRecorded`); an analysis is `Analyse`; every other
write, every start of an operation, every crash (a torn file is not evidence) and every
deletion leaves the trail and the analysis as they were.

`FrameScanProofs` proves, for every marker, every set of payloads and of damaged values,
and any number of frames and accidents:

| theorem | property | run |
|---|---|---|
| `NothingIsForged` | `NothingForged` | `frame_scan` |
| `IntactFramesAreRead` | `IntactFramesRead` | `frame_scan` |
| `DecodersAlwaysAgree` | `DecodersAgree` | `frame_scan` |

The assumption is `ScanAssumption`; `IntactFramesAreRead` also has `NoFrameInside`, which
`MCFrameScan` evaluates for its payloads.  The invariant says where the octets of a capture
come from: each was altered or is the octet of a place of a frame sent (`CaptureInv`), and
those not altered are in the order of emission (`OrderInv`), because an accident alters or
removes octets and never moves one before another.  A frame the parser finds ends with
a CRC; as no altered octet and no field is one, it is that of a frame sent, and what it
covers are the values of that frame's fields (`FoundWasSent`).  That each frame is read
once and in order follows from the places of those CRC octets.  For intact frames the
question is whether the parser steps over one: it moves by one octet, or over a frame it
found, and a frame found that reached over the start of an intact one would carry its
octets (`NoReach`).

`LatencyStatisticsProofs` proves, for every clock width, layout and length of
session:

| theorem | property | run |
|---|---|---|
| `RankIsNearest` | - (the rank that `quantile` uses, for every percentile and population) | - |
| `DurationsSafe` | `DurationsAreReal` | `latency_statistics` |
| `LatencyTyped` | `TypeOK` | `latency_statistics` |
| `HistogramExact` | `UnsaturatedHistogramMatches` | `latency_statistics` |
| `QuantilesExact` | `QuantilesAreNearestRank` | `latency_statistics` |

The assumption is `LatencyAssumption`: durations are shorter than the clock's
period.  Two lemmas on Euclidean division (`DivisionBounds`, and
`RemainderUnique` of `SharedLemmas`) carry the arithmetic; `SeriesInv` only adds types to
`DurationsAreReal`, and is all the quantiles need.

The histogram's property is inductive once the types are known (`HistogramInv`): `saturated`
never goes back, so a histogram that does not say it is saturated did not before, and each
increment was exact.  A step appends at most one latency to the population
(`ReadingAppended`, from the fold as a list of intermediate populations); a usable layout
has exactly one place for it (`OneClass`: the greatest edge that does not exceed it, and
edges that increase); that place's number of values grows by one and no other does
(`PlacesAppended`), and so does the sum of the classes (`TotalOneMore`).

The quantiles rest on `sorted`, which the model states by its order: at place r is a value
that fewer than r are below and no fewer than r are at most.  `OrderedPlace` shows that
there is one, `OrderedIsOrdered` that the places are in order, and `RankIsNearest` that the
rank of a percentile is a place and the least one that covers it.

Model-checked only:

- `DrainTerminates` and `ScanEnds`: liveness.

Liveness under fairness, ENABLED and RECURSIVE operators are out of the prover's reach, and
so is induction over data in general: the library's induction theorems take an operator,
and only a predicate that is a set of naturals gets around that (`Induction` of
`SharedLemmas`, and the lemmas on folds that rest on it).

## Not modelled

- The octet layouts of the telemetry messages on the tooling's side (the `_parse_*`
  functions), and the CRC polynomial.
- The strings of the header, and the rejection of those that do not fit.
- The rates derived from counters (`bench_counters_derive`), the mean and the
  variance: arithmetic without state.
- The octets of a payload (`bench_profile_fill_payload`): no property depends on them.
- The slave's event log, whose entries mirror the host's, and its
  `prepare_response`, which no board and no engine calls.
- The execution of commands, which the repository does not have.
- The binary transmission of the host's counters, which the repository does not have
  either: `main` discards the octets it encoded and writes a text, and its NOTE
  (`boards/xiao_esp32s3/main.c:34`) leaves the transmission to be done.
  `CountersReadBack` says that the octets would be the counters, not that anyone gets
  them.
- What a wired HAL does beyond its contract: registers, DMA, a FIFO deeper than one
  frame.
- Two concurrent `run_campaign` with one `run_id`: each may remove or rename what the
  other builds.  A `run_id` is drawn anew unless the caller gives one, and no text of
  the repository says what two calls that share one should do.
- The drivers and the schemas, whose result is what a call of `run_campaign` brings;
  the report and the command line.
- The host skeleton, which delegates each call to a port.

## Plan

Done, in this order because each step uses the one before: the ring with its
abstract log and its proof; the engines; the stream and its analysis, composed
with the ring; the archive; the statistics of latencies; the scan for frames; the
control protocol, the declared scenarios and the boards that run them; the
publication of a run; the life cycle the archive implements; the proofs about the
engines, their counters, the boards, the protocol, the life cycle, the scan for frames,
the archive with its refinement, the session with what its capture proves, the
refinement of the log by the ring, and the statistics of latencies.

What would come next:

1. The wrap of frame numbers and saturation in a session with a small `U32Max`.
2. Two concurrent publications of one `run_id`, once something says what they should
   do.
