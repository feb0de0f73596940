# A TLA+ verification of perf-sentinel

perf-sentinel watches OpenTelemetry traces for performance anti-patterns (N+1
queries, redundant calls, fan-out) and scores their energy and carbon cost. It
runs as a batch tool over files and as a daemon (`perf-sentinel watch`). The
daemon is where concurrency, crashes and lost messages are, and it is what this
project specifies. All paths below are relative to
`src/crates/sentinel-core/src/`.

## 1. The system

### Components, their state and their operations

| Component | Source | State it keeps | Operations |
|---|---|---|---|
| Listeners | `daemon/listeners.rs`, `daemon/json_socket.rs`, `ingest/otlp/` | none | parse a payload, send one batch to the ingest channel |
| Event loop | `daemon/event_loop.rs` (`EventLoopState`) | ingest channel, trace window, sender of the analysis channel | `ingest_payload`, `handle_ticker_fire`, `drain_ingest_channel`, `drain_to_worker_and_join` |
| Trace window | `correlate/window.rs` | LRU of trace buffers, a ring of events in each | `push`, `retain_endpoint_context`, `evict_expired`, `drain_all` |
| Analysis worker | `daemon/event_loop.rs` (`analysis_worker`) | the batch at hand | `recv`, analyse, publish to the stores and exporters |
| Hub exporter | `daemon/hub_export.rs` | pending and sent tables, two lazy queues, a revision counter | `push`, `pending_items`, `acknowledge`, `HubExporter::shutdown` |
| Hub incident and correlation exporters | `daemon/hub_table.rs`, `hub_incident_export.rs`, `hub_correlation_export.rs` | a coalescing table each, open episodes | `push`, `pending_items`, `settle`, `observe` |
| Ack store | `daemon/ack.rs` | map of active acks, an append-only file, a file mutex | `ack`, `unack`, `is_acked`, `replay_and_compact` |
| Window archive | `daemon/archive.rs` | a bounded channel and its drop counter, the open file, chain head, byte count | `try_send`, `write`, `rotate`, `prune`, `resume_chain` |
| Rollup writer | `daemon/rollup_writer.rs` | the open day, refused days, monthly files, a snapshot | `observe`, `close`, `flush_pending`, `shutdown`, `open` |
| Archive reader | `report/periodic/aggregator.rs`, `report/periodic/rollup.rs` | the walk of the files | `walk_chain_line`, `process_file`, `fold_drops` |
| Incidents | `daemon/incidents.rs`, `daemon/query_api/mod.rs` | ring, archive channel and file, settle passes | `record_then`, `close_then`, `merge_then`, `load_archive` |
| Traces store | `daemon/traces_store.rs` | span trees, an order queue with tombstones | `retain_for`, `snapshot_for` |
| Slow window | `daemon/slow_window.rs`, `detect/slow.rs` | occurrences per template | `observe` (`feed`, `sweep`) |
| Findings store | `daemon/findings_store.rs` | a ring of findings | `push_batch`, `freeze_window` |
| Correlator | `detect/correlate_cross.rs` | recent occurrences, windowed pair and endpoint counts | `ingest`, `evict_stale`, `active_correlations` |
| Episode tracker | `daemon/hub_correlation_export.rs` | open and closed pairs | `observe`, `drain` |
| Detectors and waste counts | `detect/`, `score/mod.rs`, `score/canonical.rs` | the label meter; the rest are functions of a batch | `detect`, `score_green`, `compute_canonical_avoidable` |
| Broker energy | `score/alumet/`, `score/broker_static.rs`, `daemon/event_loop.rs` | banked energy, two stamps, a marker | scrape, `take_broker_energy` |
| Other scrapers | `score/` | latest snapshot per source | scrape, publish, arbitrate |
| Query API, TLS, health, memory pressure | `daemon/query_api/`, `daemon/tls.rs`, `daemon/health.rs`, `daemon/mem_pressure.rs` | flags | HTTP routes |
| Normalizers, parsers, reports, diff, configuration, CLI | the rest | none that outlives a call | pure functions, rendering |

### How they interact

    listener --try_send/send--> [ingest channel] --> event loop --> trace window
                                                        |  evicted or expired traces
                                                        v
                                              [analysis channel] --> worker
                                                                       |
      slow window, findings store, traces store, correlator <----------+
                              |           |         '-- active pairs --> episode tracker --> Hub exporter
                              |           '-- read by the query API
                              '-- frozen and merged by incidents
              Hub exporter  <--- push (std mutex) ---------------------+
              archive       <--- try_send ([archive channel]) ---------+
    query API --ring lock--> incidents --try_send--> [incident archive channel]
                                  '----- push ------> Hub exporter (incident table)
    query API --tokio mutex--> ack file --> ack map <-- read by the listings
    Hub exporter task --HTTP--> Hub          archive thread --write--> files

The event loop, the worker, each listener, each API handler and the Hub task are
tokio tasks; the two archive writers are threads. They share channels, locks (the
Hub tables, the ack file, the ring of incidents) and lock-free snapshots.

### What is hard

* **Interleaving**: findings are pushed while a batch of an earlier revision of
  the same findings is on the wire; two API handlers change one signature; the
  queue gauge is maintained by two tasks without a lock.
* **Order**: a trace evicted in the middle of a batch and the rest of it from the
  window must reach detection oldest first, at shutdown too.
* **Failure of one step of several**: an append that wrote half of its line, a
  truncation that fails after it, a rotation that renamed, created and then could
  not prune, a request whose client goes away while its append runs.
* **Crash and restart**: the ack file is replayed and compacted, the archive
  resumes its hash chain from whatever the crash left, the ring of incidents is
  rebuilt from an archive of records and updates.
* **Unreliable delivery**: the Hub answers late, not at all, or accepts a batch and
  loses the answer.
* **Batches that are gone**: what the worker keeps of a batch is read later, by tasks
  that come in between two of its stores, and must still say what the batches said:
  occurrences that arrive out of order, fragments of a trace, findings evicted between
  the freeze and the settle of an incident, episodes of pairs that come back.
* **Two records of one thing**: windows are archived as lines and again as daily
  rollups; broker energy is measured and declared; a call can be an N+1, a repeat
  and somebody else's label. Each must be counted once.
* **Limits**: bounded buffers that evict, shed, drop or refuse when full.
* **Termination**: shutdown joins tasks that wait for each other's channels, and for
  whoever holds a sender of one.

`PROJECT.json` lists each of these as a hazard at its line with the properties
that cover it.

### What makes each component correct

* *Event path*: every event a listener handed over is held in one place or has one
  fate (analysed, shed, overwritten, not sampled, lost with a dead worker);
  nothing is shed once the daemon drains; a clean stop leaves nothing behind.
* *Hub exporter*: no finding that got worse is taken for delivered, dropped or
  suppressed on account of an older, milder version of it.
* *Ack store*: the map is what a replay of the file would give, no request undoes
  the work of another, and no failure leaves a file the next start refuses.
* *Incidents*: one alert is one record however often and from wherever it is posted;
  its first capture is never degraded; the archive reloads as the ring; the Hub has,
  or will be sent, the newest record; a stop ends and leaves nothing unwritten.
* *Archive*: no window written is ever lost or doubled by the mending of a later
  failure, and no I/O error is published as tampering.
* *Rollups*: a disclosure counts every window once, from its line or from its day; a
  crash costs no more than the windows since the last snapshot and the days refused; the
  chain runs through the months, and each of its breaks has a fault behind it; the loss
  published is not more than there was.
* *Worker's stores*: the newest traces are held whole; a template that is slow again and
  again is reported in time, once, and for enough episodes; a capture is what the ring
  held when it was taken; the correlator's counts are those of the findings; episodes of
  a pair do not overlap.
* *Waste*: what is reported as avoidable was called and was not needed, is charged to
  who called it and once, and is within the disclosed tier. Serialized chains and
  saturated pools are what a reader of the trace would find by hand.
* *Broker energy*: no stretch of time is billed twice.

## 2. Modules

| Module | Models | Extends / instances |
|---|---|---|
| `Induction` | induction over numbers and over a folded sequence, as lemmas about sets and functions | |
| `HubExport` | the findings half of the Hub exporter | |
| `HubExportProofs` | its theorems | `HubExport`, `TLAPS` |
| `TraceWindow` | the trace window as operators on a sequence of buffers | |
| `EventLedger` | abstract specification: what may become of an event | |
| `Pipeline` | listeners, event loop, window, worker, shutdown | extends `TraceWindow`, implements `EventLedger` |
| `PipelineProofs` | what each operation of the window does to the events in it; the theorems of the pipeline, the implementation of `EventLedger` among them | `Pipeline`, `Induction` |
| `AckStore` | ack handlers, file, map, crash and restart | |
| `AckStoreProofs` | its theorems | `AckStore`, `Induction` |
| `Rollup` | days, snapshots and monthly files of the rollup writer, as operators on a record; the rollup reader | |
| `Archive` | archive writer, its files, the reader's chain walk | extends `Rollup` |
| `ArchiveProofs` | its theorems | `Archive`, `Induction` |
| `HubTable` | the latest-value table of the exporter's incident half, as operators on a record | |
| `Incidents` | deliveries, ring, settle passes, archive, incident exporter, stop and restart | extends `HubTable` |
| `IncidentsProofs` | its theorems | `Incidents`, `Induction` |
| `Sieve` | what is left of a sequence, the arrangements of a set, a function with one value more | |
| `TracesStore` | retained traces, as operators on a record | |
| `SlowWindow` | slow spans of a batch and across batches, as operators | |
| `FindingsStore` | ring of findings, freeze and merge, as operators | |
| `Correlator` | cross-trace correlator, as operators on a record | |
| `EpisodeTracker` | episodes of correlated pairs, as operators | extends `Correlator` |
| `BrokerEnergy` | the Alumet scraper and the declaration, with variables of its own | |
| `Detectors` | detectors, avoidable calls, the label meter, as operators on a batch | |
| `Worker` | the worker's walk through a batch, and the readers | extends the seven above |
| `WorkerProofs` | theorems about broker energy, captures and recurrences | `Worker`, `Induction` |
| `StoresProofs` | theorems about the traces store and the bounds of every store | `WorkerProofs` |
| `MCHubExport`, `MCPipeline`, `MCAckStore`, `MCArchive`, `MCIncidents`, `MCWorker` | model values and inputs for TLC | the module of that name |

### HubExport

State: `pending` and `sent` are `HubBuffer`'s two tables as functions from a
signature to its revision and severity (revision 0 is "no entry"); `order` and
`sent_order` are the two lazy queues as sets of (signature, revision) items, which
determine the order because revisions only grow; `lock` is the critical section of
`push`; `exporter`, `batch` and `draining` are the task, the batch on the wire and
the shutdown signal; `worst` and `settled` are history.

One action per critical section: `LockForPush`, `PushFinding` for each finding of a
batch (`SkipSuppressed`, `MergePending` and `InsertPending` are the branches of the
code), `EvictOverflow` (its end, which evicts and compacts), `Snapshot`
(`pending_items`), and one action per class of answer: `Accepted`, `Rejected`
(settled as well: the Hub will never take it), `Oversized`, `BusyOrRetry`.
`Shutdown`, `Drained` and `Abort` are the end of the task. Time is a counter of
suppression intervals.

### Pipeline, TraceWindow, EventLedger

`TraceWindow` gives the operations of the window as functions of a sequence of
buffers in LRU order. `Pipeline` has the two channels as sequences and one action
per iteration of each loop: `IngestBatch`, `Tick`, `DrainBatch`, `DrainWindow`,
`SendRemainder`, `CountSent`, `Join`, `NoticeWorkerStopped` for the event loop;
`Receive`, `CountReceived`, `Analyse`, `Panic`, `WorkerExit` for the worker; `Accept`
for the listeners. `CountSent` and `CountReceived` are steps of their own because the
gauge is moved after the send and after the receive, and the other task runs in
between. `depth` is that gauge.

`EventLedger` says what the daemon promises of each event: it is unsent, held,
analysed, shed, overwritten in its ring, not sampled or lost; which of these may
follow which; that nothing is shed once the daemon drains; that it closes only with
nothing held. `Pipeline` implements it under the mapping `Fate`, `Stage`, which reads
an event's fate off the places it is in.

### AckStore

State: `active` is the map, `file` the lines (an ack, an unack, or a cut line),
`lock`, `pc`, `request` and `draft` the handlers; `doubt` the signatures whose last
append failed after its line was written, of which either answer is right. `Lock`,
`AppendLine` or `AppendFails`, `Swap` and `Answer` are the steps of `ack` and `unack`;
`Disconnect` drops a handler whose client went away, at any of its awaits; `Crash`,
`Restart` (`replay_and_compact`) and `Advance` (expiry) are the environment.

### Archive, Rollup

A file is a sequence of pieces, each a whole line or a fragment, which has ended or
runs into the next piece. `Produce` is `try_send`, which counts what it drops (`drops`). `WriteWindow` is a successful `WindowSink::write` with the
rotation it may trigger, and that with each of its failures (`RenameFails`,
`CreateFails`, `PruneFails`); `WriteFails` is the other one, with `CutBack` or
`SealInstead`; `RollUpOnly` is the writer without window lines. `Crash` leaves any part
of a line, or comes between two steps of the rollup writer or in the middle of one
(`DiesInRollups`, `DiesInWrite`); `Stop` is the drain and the last rollup; `Restart` is
`spawn`. `Breaks` is the reader of one file, and `Discloses` says whether the reader of
all of them comes to an end: a line that is no text stops it. `setup` chooses what may
fail, what a failed append to the rollups may leave, and whether window lines are written.
History: `written`, `lost` (drops of every process) and `damaged`, the files with a
fault the writer has no way to mend.

`Rollup` gives the writer's calls as functions of a record: `FoldWindow` closes a day
when a window of another one comes, `FlushPending` retries the refused days in order,
`TargetMonth` never files behind the newest month, `Snapshot`, `Shutdown` and `Open`
are the snapshot's life. `FailAppend` is `write_sealed` when it fails: nothing is left, or
a fragment, or a line that is no text (`Tear`), or the whole line, which the next append
of the day repeats. `Legible` is what `rollup_values` reads, up to the first line that is no
text; `Resumed` takes the chain from there. `take` says how many appends of a call succeed
and what the next one leaves. History: `faults` (lines left whole, and starts that resumed
before the last line) and `left` (the windows of the former). A window is its timestamp, so a day is a set of them, and a
line's hash that set: what a disclosure counts twice or leaves out can be seen.
`Covers` and `FoldDrops` are the reader's.

### Incidents, HubTable

`HubTable` gives the operations of `LatestTable` as functions of a record: `Push` with
`EvictByOrder`, `SnapshotOf`, `Acknowledge`, `MarkUnsupported`; each holds the table's
mutex in the code, so each is part of one step. Revisions only grow, so the lazy queue is
the set of its items, and what the eviction loop has passed is a cut at a revision.

`Incidents` has the ring, the archive's channel and file (`unended` says that the last
line has no newline), the client connections and the delivery each one has in hand, the
settle passes and the exporter's request. `Look`, `Record` or `RecordRefused`, `Close` or
`NothingToClose` and `Schedule` are the steps of `handle_post_incidents` for each alert;
`Timeout` and `Hangup` drop the handler where it waits, its settle pass with it.
`Announce` is `on_incident_change`, which runs under the ring's lock and is therefore part
of each change. `SettleMerge` and `SettleSkip` are the settle pass, `WriteRecord` and
`WriteFails` the writer, `Snapshot`, `Accepted`, `Rejected`, `Oversized`, `Missing` and
`Retry` one round of the exporter. `Stop`, `ExporterEnds` or `ExporterAborted`, and `Join`
are the end of `run`; `Crash` may cut the line being written; `Restart` seals it and
reloads, perhaps with another `max_retained`.

A freeze reads the findings store, which is not part of this module: it returns any set
of findings, and as nothing else depends on the moment it reads them, it is one step
with the record or the merge it precedes. The connections are those of the HTTPS listener, whose tasks the
daemon spawns itself and nobody aborts; those of the plain listener belong to a library.
`sinks` is the configuration, the Hub and the archive each being optional. History:
`gap`, that a record missed the file since the start (a full channel, a failed write),
and `waived`, the incidents whose newest record left the table unsent (evicted, refused
or oversized, and counted) or was reloaded, which queues nothing.

### Worker and its stores

`Worker` is `process_traces`: `Analyse` detects and feeds the slow window, then
`StoreFindings`, `RetainTraces`, `IngestFindings` and `ChargeServices` are the steps of
the batch, each behind an await or a lock of its own, so that the readers come in
between: `FreezeCapture` and `SettleCapture` (an incident's), `ObserveEpisodes` and
`DrainEpisodes` (the exporter's), `BillBroker` (the scraper, and the worker before a
batch). `Tick` is time. Each store has a module of operators on its own record, named
after the methods; `setup` names the store a behaviour is about and the batches that
may come in, since the stores are optional and nothing passes from one to another
but the batch. A finding of other detectors is an input; the slow ones are computed,
because the window depends on what the batch reports itself.

* `TracesStore`: a place in the order queue is an id and a generation; `Flush` leaves the
  old place behind, `EvictTraces` steps over it, `RetainFor` merges fragments and counts
  as wanted only what a finding names, `SnapshotFor` is the budgeted read.
* `SlowWindow`: `BatchSlowFindings` is `detect_slow`, by template; `Feed` and `Sweep` are
  the tracker, by service and template.
* `FindingsStore`: `FreezeWindow` folds rows by signature, `MergeCapture` is
  `merge_then` on two folds.
* `Correlator`: counts live on a grid of half windows; `Ingest` goes finding by finding,
  prunes by both windows and evicts the least frequent pair at the cap.
* `EpisodeTracker`: `ObserveRows` opens, keeps and closes; `ForgetOldestClosed` is the
  cap of closed pairs.
* `BrokerEnergy`: energy is the set of time units it covers; `take` holds what the worker
  read of the scraper's stamps before it took.

`past` is history: what was fed, stored, seen, sent. The invariants compare a store with
the batches themselves, read by definitions that share nothing with the operators
(`HoldsNewest`, `RecurrencesTrue`, `CaptureIsTrue`, `CountsTrue`, `EpisodesApart`).

### Detectors

Functions of a batch. `NPlusOneGroups` is `detect_n_plus_one` with the direct rule and the
four sanitizer modes, `RedundantGroups` what is left, `DedupFindings` and `Repeats` the
credit of `score_green`, `AvoidableOps` the canonical tier; `AvoidableShares`,
`AnalysedShares` and `MeterShares` charge services and groupings under the label caps.
`SerializedChains` is the dynamic programme of `serialized.rs` with its predecessor search
and its backtracking, `SaturatedPools` the two sweeps of `pool_saturation.rs`. `SharesTrue`,
`Needed`, `ChainsTrue` and `PoolsTrue` are what they are compared with: sums over the
calls made, one needed call of each template of a trace, the longest set of calls none of
which overlap, the most calls over any instant.

## 3. What is checked

| Run | Instance | Shows |
|---|---|---|
| `hub_export` | 2 signatures, 2 severities, `max_pending` 1, batches of 2, six revisions | the exporter keeps every escalation, its queues cover its tables, its buffers are bounded, a drain leaves nothing; an escalation is settled, evicted or the task ends |
| `pipeline` | 4 traces (one not sampled), window of 2, rings of 2, both channels 1, 3 events in batches of up to 2 | one place and one fate per event, order, context, gauge; the ledger is implemented; held events get a fate, also when endpoint context keeps coming for an idle trace; a shutdown ends |
| `ack_store` | 2 clients, 3 signatures, cap 2, file of 4 lines | map and file agree, no update is lost |
| `ack_store_faults` | the same, appends that leave a cut line | finding 1 |
| `archive` | channel 2, files of 2 lines, 1 rotation kept, 3 starts, 4 or 5 windows; six setups: every fault of the window files within a day; refused rollups and snapshots over 3 days, with window lines and without; refused rollups with every snapshot taken; rollup appends that leave a fragment, a torn or a whole line; a clock that steps back | no false break, no window lost, doubled or counted twice by a disclosure that can be made, a crash costs what it may, the breaks of the rollup chain are explained, the loss published is a lower bound |
| `archive_faults`, `archive_torn` | one fault of the window files each | findings 2, 3 |
| `archive_refused` | refused rollup appends, 3 days, 6 windows | finding 4 |
| `incidents` | 2 incidents, 2 connections, 2 alerts in all, rings of 1 and 2, channel 1, 1 settle permit, the Hub or the archive, 2 starts | an alert is recorded once, captures only grow, the archive reloads as the ring, the Hub is never behind for good, a stop leaves nothing |
| `incidents_stop` | 1 connection, both sinks | finding 5 |
| `worker` | one setup per store: up to 4 batches through stores of two or three entries; 618 batches of calls for the avoidable counts, 3 batches of 15 for the labels, 3645 traces for chains and pools; broker clock up to 12 | what each store says is what the batches said; waste and structure are real; no stretch of energy is billed twice |
| `pool_peak` | 1215 traces of four calls that may take no time | finding 6 |

### Bounds, and why they are enough

* Capacities of 1 and 2 make every buffer full and every eviction, shedding and
  refusal happen within a few steps; each buffer is also seen with more than one item
  where order matters.
* Two signatures with `max_pending` 1 evict one entry while the other is in the batch,
  and a batch of two holds both. Two severities are enough for "worse": the code compares
  only. `MaxRevision` 6 lets an entry be pushed, sent, merged, answered and pushed
  again. The theorems hold for every number of signatures and every cap.
* Three events in two traces of a window of two evict, overwrite and append late;
  the third trace forces the LRU's choice, a fourth is not sampled, and batches of two
  give a batch whose own pushes evict.
* Two clients and a mutex show every order of two requests; the third signature
  fills the cap. A file of four lines holds an ack, an unack, a repeat and an expiry.
* Four windows in files of two with three starts reach a rotation, a pruned file,
  a restart after each fault, and two faults in one file. Three days with a snapshot every
  two windows, one pending day and a retention of one day close, refuse, retry, drop and
  prune a day; a month is one day, so every line of a later day meets the order of the files.
* Two alerts on two connections are the race for one record, or a record and the one
  that evicts it; each alert is written up to twice (record, close or settle), so a
  channel of one overflows and the queue of a table of one entry is compacted. The Hub
  and the archive are checked one at a time: a change is handed to both in one step, and
  neither reads the other.
* Each store of `worker` has room for two or three entries and is fed by three or four
  batches: full, evicted, come back. Correlator window 4, lag and skew 1: two
  half windows of two units, and a source that arrives a batch late. Threshold 3 beside the
  disclosure's 2 is the least that tells the two tiers apart; four calls are an N+1 and a
  repeat beside it. Chains of four calls have every way two calls can overlap, touch or tie.
* Only the mode `strict` of the sanitizer rules is checked; `SanitizerMode` is a parameter.
* Deadlock checking is off everywhere: each bound stops its counter, and the daemon
  really stops.
* Symmetry is used over clients, signatures and incidents in `ack_store` and
  `incidents`, where nothing tells them apart and only invariants are checked; in no run
  with a liveness property.

### Fairness

* `Pipeline!FairSpec`: weak fairness of `ShutdownStep` and of `WorkerStep`, each one
  sequential process that always leaves the step it is in, and of `IngestBatch`, `Tick` and
  `Advance`: the `select!` loop polls its channel and its ticker, and time passes. The
  worker leaves the analysis one way or the other. No listener has to send, the
  operator never has to stop the daemon, the worker never has to panic.
* `HubExport!FairSpec`: the worker leaves its critical section (weak); the task gets the
  mutex although the worker keeps coming back for it (strong, `std::sync::Mutex` being
  taken for a few microseconds per batch); a request is answered or times out (weak);
  and a Hub asked again and again sometimes takes a batch (strong), which is all a
  retry policy can promise about a service.
* `Incidents!FairSpec`: weak fairness of the daemon's own tasks (handlers, settle passes,
  after a sleep of at most three TTLs, the writer, the end or the abort of the exporter,
  the join). Clients owe nothing: neither an answer read nor a connection closed. Time-outs
  are not needed for the finding.

## 4. What is proved

TLAPS checks the theorems below for every value of the constants that meets the
named assumptions (`SignaturesAssumption`, `LimitsAssumption`, `PipelineAssumption`,
`AckAssumption`, `IncidentsAssumption`, `BrokerAssumption`, `ArchiveAssumption`,
`RollupAssumption`, `SlowAssumption`, `TracesAssumption`, `FindingsAssumption`, `CorrelatorAssumption`,
`EpisodeAssumption`, `DetectorsAssumption`, `WorkerAssumption`), which ask for no more than
finite sets, positive capacities and the order of two limits where the code has it;
`DetectorsAssumption` names the sanitizer's modes and asks for the thresholds the detectors take.
`WorkerAssumption` says what a batch of finished traces is (`IsBatch`: numbered traces, finitely many
findings, durations that are natural numbers) and, for the traces store, that no trace is
longer than `MaxSpansPerTrace`, at which the window has cut it.

### Folds

Most of what these modules say goes through a loop of the code: a batch pushed into the
window one event after the other, a file replayed line by line. The library's induction
theorems take an operator as a parameter, which no prover here can instantiate, so
`Induction` states induction over sets and functions: `RecursionExists` and `FoldExists`
give the function that records the value after every step of a loop and keeps it within
a family of sets; `RecursionsAgree` says that two loops whose steps agree end alike.
The loops that are proved about (`Picked`, `RetainAll`, `PushAll`, the replays of the ack
file and of the incident archive, `Gathering`, `Walking`, `ReadingFiles` and `Losing` of the
window archive's reader, `Flushing` and `Reading` of the rollups) are written as recursive functions over the index,
which is the form these lemmas speak of; `LoopRuns` is the plain case, a loop that stays in
a set. The loops of the worker's stores are folds of the community modules (`FoldLeft`) or a
`Sifted` sequence; for each of them a lemma of its own unrolls the fold into the values after
every element (`FeedRuns`, `KeepRuns`, `MatchRuns`, `ChargeRuns`, ...), by the induction of
`SetInduction` and the definition of the fold itself (`FoldExtends`).

### The theorems

* **`HubExportProofs`**. Every invariant of the run `hub_export`. None is inductive
  alone. `IInv` adds that a batch on the wire carries one item per signature with the
  severity the entry still has unless it moved on (`BatchMatchesTable`: what makes an
  answer to an old revision harmless), that a suppression record never claims more than
  was settled (`SuppressionIsSettled`: what makes the hourly suppression harmless), and
  that the queues are finite. Eviction loops are modelled by the cut they stop at; the
  lemmas about `StopsAt` show that such a cut exists only where the table fits, which is
  where `QueuesCoverTables` is used: an entry without its queue item would end the loop
  early.
* **`PipelineProofs`**. Every safety property of the run `pipeline`, and that the pipeline
  implements `EventLedger` (`PipelineKeepsLedger`, its safety part). `PipelineInv` is
  `Ranges`, `Stations` (each place holds a sequence in which the events of a trace ascend),
  `Whereabouts` and `Progress` (what loop and worker have left behind at each step).
  `Whereabouts` is the one that carries the theorems: no event is in two places, none is
  missing, and no place holds an event of a trace behind a later one of the same
  trace further on. The first half of the module shows it for a batch on its way through the window, one
  event at a time (`Accounts`): what is pushed is in the window, in the evicted fragments,
  or overwritten, and an eviction in the middle of the batch moves the older events of the
  trace ahead of the newer. Order at the end is not inductive without order at every
  place before it. The refinement reads an event's fate off these places (`FateRead`) and
  shows that every action moves fates only as the ledger allows (`FateMoves`). `GaugeIsExact`
  has an invariant of its own.
* **`AckStoreProofs`**. Every invariant of the run `ack_store`. `NoUpdateIsLost` follows from
  the mutex: a handler past the lock holds it, and its draft is the map as it was
  when it locked. `RestartGivesMap` needs more than the agreement of the map with the file:
  `StoryInv` says that the file's requests, applied one after the other, tell the map
  (or the draft, between the append and the swap), that each ack in it was new when it was
  written, and that the cap held, as far as the appends of unknown outcome leave it
  known. That story is what an append prolongs (`StoryAppended`), what a failed append
  or an abandoned request weakens (`StoryAbandoned`), what a compaction writes afresh
  (`StoryOfCompaction`), and what the replay, which skips what has expired meanwhile
  and counts only what it keeps, gives back (`StoryReplayed`).
* **`IncidentsProofs`**. Every invariant and the action property of the run `incidents`.
  `ReloadGivesRing` rests on one fact: every change of the ring is the replay of
  exactly one line (`ReplayOfAppend`, with `RecordIsLine`, `CloseIsLine` and `MergeIsLine`), so the
  file followed by what the channel still holds replays as the ring until a record misses
  it; a line left open is one such miss, and the restart mends it before anything else is
  written. `HubNeverBehind` needs that what is pending is the ring's record
  (`PendingIsRing`), that a batch on the wire says what the table says unless the entry has
  moved on (`BatchFacts`), and that the queue of the table covers its entries (`TableFacts`),
  without which an eviction could stop early. `FirstCaptureKept` is a property of steps.
* **`ArchiveProofs`**. `NothingReadsAsTampering` and `WrittenStays` rest on `FileInv`. A file
  without an unmended fault is `Sound`: no cut character, every piece but the last ended,
  and its lines chained from the seed. That is not inductive without `HeadTrue`: while the
  writer runs, its byte count and its chain head are those of the file it has open, which
  every append, cut, seal and rotation must hand on, a crash may break and a start
  restores (`ResumesHead`). Nor does a window stay in one place without `Fresh`: no
  timestamp in a file is on its way again, which the clock gives (`NextStampFacts`), also
  one that steps back. What one step does to the files is said once: `DiskStep` and `Leaves`
  allow the open file to gain at most one line, of the window that leaves the channel, and
  every action is shown to be such a step (`WriteOutcomes`, `FailedWriteMends`,
  `CrashOutcomes`, `RestartOutcomes`). `CrashCosts` counts: each window since the snapshot
  adds at most one to those only in memory, and closing a day none (`FoldOpens`); the days
  that the directory refuses are in no snapshot, and there are none of them while no
  append fails (`NothingWaits`). `RollupBreaksExplained` rests on `RollupInv`: the lines of all
  months, read in the order of the months, have no more breaks than there were faults
  (`Explained`), also between two processes, and while one runs its chain head is that of
  the last of them, or one fault has not had its break yet (`Expects`). An append keeps this
  because its line goes to the newest month, so it is the last of all lines
  (`LinesOfMore`), whatever the clock says; one that fails because it leaves no line, or
  one that counts (`FailKeeps`); retention because the months it removes are a prefix of the
  lines (`LinesOfYounger`, `ExplainedRest`); a start because it resumes from the last line, or
  counts (`ResumedKeeps`). `ArchiveTypes` joins both invariants. `LossIsALowerBound` cannot
  count along with the reader, which may skip any line and takes a smaller count for a
  restart. It gives every line a mark, the windows lost when it was written, and says
  that no line tells more of an earlier one than lies between their marks
  (`Marked`, `Fits`), nor the next one than is lost by then (`Behind`, `Below`). That is
  stated of every two lines and not of neighbours, so it survives the loss of any of
  them: a cut tail, a swallowed line, a pruned file, a removed month. A step adds at most
  one line behind all others, with the present count (`DropsInvStep`); what is read
  in order then inherits the marks (`AheadReads`, `WindowsFair`), and the sum the
  reader publishes stays below the last of them (`FairReads`). `Fair` is the same for the
  rollup lines and part of `RollupInv`, because `FlushPending` and `Prune` need it at each
  append.
* **`WorkerProofs`**. `EnergyBilledOnce`: the declared marker separates the two kinds of
  energy (`MarkerBetween`): nothing declared is past it and nothing measured is past it by
  the shortest bill. What the series still holds was not declared unless an outage is on, in
  which case the next take discards it (`PendingNotDeclared`); the series counts
  as stale exactly as long as that matters.
  `CapturesAreTrue`: the ring is always the newest of all findings ever stored
  (`RingInv`), and stamps ascend along them, because a batch in hand is later than anything
  stored. A capture is true when every row is the fold of entries the ring held at the
  freeze or at the settle (`IsCapture`); the second fold may have lost to eviction what the
  first one saw, and `MergeIsCapture` shows that the merge of two true folds is true of the
  union of what they saw.
  `RecurrencesAreReported`: the window forgets, the history does not. `WindowTrue` says for
  each key what its entry still knows of the history: every episode starts when the key was
  slow and ends in a trace that was slow in it, the episodes do not overlap (`Holds`), the
  last report is remembered as long as it is in the window (`Marks`), and, for a key never
  turned away, every slow instant of the window since the last report has an episode of its
  own, if the instants lie an episode apart (`Whole`). Soundness needs the first three,
  completeness the last. A batch is shown span by span (`FedOneMore`, `FedKey`): a key that
  is held after the batch was never refused in it (`FedHadRoom`), so its entry has counted
  all its spans; a sweep forgets only what is out of the window (`EntryExpired`).
  `DueRecurs` then counts: as many starts as there are slow instants, and two of them
  end in two traces (`TwoTraces`).
* **`StoresProofs`**. `NewestTracesAreKept`: the history of flushes determines the store.
  `IsStoreOf` says that the traces held are those flushed last (`HeldSince`: no flush after a
  held trace's own is of a trace that is gone), that a held trace has all the spans of its last
  flush and those of the flush before, unless it was evicted in between or is as long as a trace
  may be (`SpansKept`), and that every place of the order queue names a flush of its trace, in
  the order of the flushes, each held trace's live place among them (`Queues`). The eviction loop is shown place by place (`FrontIsEvicted`,
  `FrontLeaves`), the compaction keeps the queue because the sifted places keep their order
  (`CompactQueue`), and a batch is a run over its traces (`KeepRuns`). The reader's budget is
  a sum over a set, taken in whatever order (`SumGrows`), and what the reader passes over had
  no room (`PassedOver`).
  `StoresKeepBounds` joins the invariants of all stores (`BoundsInv`). What needs an argument
  is the correlator, whose counts, occurrences and pairs go through a loop in a loop
  (`MatchAllKeeps`, `IngestAllKeeps`) before the cap is enforced, and the meter, whose labels
  are admitted one after the other in an order taken from the shares (`OrderedShares`, `AllKeep`).

### Only model-checked

* Liveness and everything that rests on fairness (`EscalationSettles`, `HeldEventsSettle`,
  `ShutdownEnds`): beyond the provers.
* Of `Archive`: `CountedOnce`, which compares what the reader counts over files, months and
  days with what is on disk.
* Of `Worker`: `CountsExact` (the correlator's counts against a matching over everything it
  was ever fed, whatever order it came in) and `EpisodesDisjoint` (which rests on bounds of the
  instance: with a correlation window longer than the gap it does not hold, see Known limits).
* `WasteIsReal` and `StructureIsReal`: sums of a whole batch and the optimum of a dynamic
  programme, induction over data at every step.

## 5. Findings

1. *A failed append may leave a file no start accepts* (`ack_store_faults`).
   `append_line` does not take back what a failed `write_all` wrote. The file ends in a
   cut line, and `replay_and_compact` refuses it with `AckError::Parse`. The design
   document (`docs/design/06-INGESTION-AND-DAEMON.md:560`) says a failed disk write
   never leaves the map ahead of the persisted state.
2. *A failed pruning keeps the old chain head* (`archive_faults`). `rotate` has already
   installed the fresh file when it returns the error of `prune`; `WindowSink::write`
   takes that for "continuing on current file" and keeps `prev`, `seq` and
   `bytes_written`, so the fresh file does not start from the seed, and the reader
   counts a break.
3. *A cut character ends the resumption of the chain* (`archive_torn`). `resume_chain`
   stops at the first line that is not UTF-8, so every later start chains to the line
   before it although lines follow.
4. *Refused days die with the process* (`archive_refused`). A closed day that the directory
   does not take waits in `pending`, and the snapshot of the day after it overwrites its own.
   A crash then costs up to 62 days, not the `SNAPSHOT_EVERY` windows of the module's
   header (`rollup_writer.rs:3-4`), and not "never the day" (`docs/design/08-PERIODIC-DISCLOSURE.md:160`).
   `CrashCostsLittle` says what is left of the promise: no other windows are at risk, and
   none but those since the snapshot while no append fails.
5. *The stop waits for its clients* (`incidents_stop`). `run` drops its sender of the
   incident archive and awaits the writer, which ends when every sender is gone. The query
   API's state holds one, each HTTPS connection task holds that state, and the stop aborts
   the listener but not its connections: one client that keeps its connection open
   (a scraper of `/metrics`, on the same router) holds the daemon until it is killed. The
   comment above the join (`daemon/mod.rs:476-478`) says that the archives are local writes
   whose wait will not expire. A settle pass holds a sender too, for up to three TTLs.
6. *A call without duration raises a peak for good* (`pool_peak`). The sweep of
   `compute_peak_concurrency` sorts the end of such a span before its start; when nothing
   else is in progress the end is lost in a `saturating_sub`, and the start counts for the
   rest of the trace. Spans of no duration are ordinary: OTLP nanoseconds are divided down
   (`ingest/otlp/mod.rs:1926`). The comments of the second sweep say that the spans it
   shows "must equal" the peak (`detect/pool_saturation.rs:123-124`) and that the count
   absorbs such a span as a net zero (`:133-135`). `StructureIsReal` therefore claims its
   part where every span has a duration.

### Known limits

Further disagreements met while modelling. They have no run of their own; where a property
would meet one, it says so in its condition.

* *A cut character ends the disclosure*: `process_file` and `process_rollup_file` return an
  error on a line that is not UTF-8 and `aggregate_from_paths` passes it on, so one such line
  in one file keeps the whole disclosure from being made. The comment of
  `terminate_incomplete_line` (`archive.rs:262-263`) says disclosure can skip it.
  `CountedOnce` and `LossNotOverstated` speak of disclosures that can be made (`Discloses`);
  `NoFalseBreak` excepts the files in `damaged` only.
* *A failed rollup append may leave its whole line*: when the write fails with all of the
  line on disk and `set_len` fails too, `write_sealed` (`rollup_writer.rs:318-323`) seals the
  line and returns the error; the day is appended again with the same `prev` and `seq`, its
  windows count twice and the second line is a break, against "so no window counts twice"
  (`aggregator.rs:442`). The model does it (`FailAppend`, the setup whose `rollups` has
  `"line"`); `rollup.left` remembers the windows of such a line, which `CountedOnce` excepts
  from "at most once", and `rollup.faults` the break. The window archive drops a window in
  that case and has no second line.
* *A cut character ends the resumption of the rollups*: as in finding 3, `rollup_values`
  stops at such a line (`rollup_writer.rs:333`): a start chains to the last line before it in
  its file, and does not see a snapshot's line behind it. `RollupBreaksAreFaults` counts the
  break that such a start makes.
* *Sealing does not work after a rotation*: the handle `rotate` opens is append-only
  (`archive.rs:480`), and `terminate_incomplete_line` reads: its error is ignored, the
  fragment stays open and swallows the next window. `WindowsKept` excepts the file.
* *Drops of the open day*: a disclosure that takes in the day still open reads window lines
  and, later, that day's rollup; the loss of that stretch can be in both readings.
* *A recovered snapshot refused twice*: `Open` keeps it in memory as a refused day; if
  the stop comes with no window observed and the directory still refuses, its file is removed
  (`rollup_writer.rs:97-99`).
* *What the exempted faults do besides*: where a rollup line was left whole, or a start read
  no further than a line that is no text, `RollupBreaksAreFaults` allows one break for it;
  where any file left holds a line that is no text there is no disclosure to count.
* *A clock that steps back within a day*: a snapshot whose first window no longer begins a
  line is appended again after a crash. `CountedOnce` is claimed where the clock does not
  step back.
* *Less than `MIN_BILLABLE_MS`* of broker energy may overlap between the two sources.
* *Completeness of a capture*: a merge keeps the earlier `oldest_finding_ms`
  (`incidents.rs:374`), so a record reads complete (`incidents.rs:128-133`) although
  findings stored after the freeze and evicted before the settle are missing.
* *A correlation window longer than 30 minutes*: the gap is then shorter than the window,
  `forget_oldest_closed` can forget a pair the correlator still holds, and the pair reopens
  over its closed episode. `MaxEpisodeGap` is not below `CorrelationWindow` here.
* *Chains of calls without duration*: the programme of `serialized.rs` is not optimal for
  them, whatever its header says (`serialized.rs:5-7`).
* *Two fragments of one trace in one batch*: four operational avoidable calls against three
  canonical ones, so the disclosed tier is no upper bound there (`n_plus_one.rs:24-29`).
  `WasteIsReal` claims the bound where no trace comes twice.

## 6. Not modelled, and the plan

Not modelled because there is no protocol to get wrong, or because the level is wrong
for TLA+: normalizers and parsers (characters), reports, configuration, the CLI and the
terminal interface (rendering, validation), which together are most of the lines of the
repository; the scrapers other than the broker's (a poll that publishes one snapshot) and
the conversions to energy and carbon (floating point); TLS and routing; fan-out and chatty
services (one comparison each). Within the modelled components: which endpoint an
event resolves to, severities and wording of findings, samples of lags and trace ids,
metrics other than the gauge, the live summary cell and the histograms of slow durations,
the HTTP client of the exporter, the sends of its correlation half (which go through the
same `HubTable`), the failure of `metadata()` after a failed truncation. The CI baseline of
acknowledgments is read before the store is locked, but a reload in between leaves only
what a later reload leaves too, an acknowledgment on both sides, which the lookup resolves.

Planned:

1. **Rollups**, proofs: what a day, a snapshot and a monthly file may each hold
   (`CountedOnce`).
2. **Correlator**, proofs: `CountsExact` from an invariant that relates each windowed count
   to the findings still in reach.
3. **Model**: the three halves of the Hub exporter as one task, and the order in which
   findings, incidents and correlations leave when the daemon stops.
