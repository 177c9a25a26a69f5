# Verification of the threat-detection pipeline

TLA+ models of the concurrent and failure-prone parts of the pipeline, the TLC
runs that check them on small instances, and TLAPS proofs of the results that
hold for every instance. Paths are relative to the repository; every definition
that models code is listed with its lines in `PROJECT.json` under `map`.

## The system

```
Zeek logs --tail_to_redpanda--> raw_traffic --stream processor--> security_alerts --kafka_sink--> database --> API --> dashboards
pcap, simulator ---------------^      |  \--> dead_letter_events               \--> DLQ topic / file
                                      +--> Redis (correlation) --> incidents
trainers --> models/*.pt + .sha256 --> stream processor (at start)
```

| component | state it keeps | operations | talks to | what makes it correct |
|---|---|---|---|---|
| alert sink, `api/kafka_sink.py` | batch, observed and committed offsets, failure counters; rows in the database | poll, flush, commit with retries, three evacuations, drain | broker, database, dead-letter file | no record below a committed offset without a trace; rows never older than what was finished; no stall |
| dead-letter file, same file | the file and its generations, two locks | append, rotate | other threads and pods | order and oldest-first loss across failures |
| correlator, `inference/correlation.py` | per source address in Redis: seen set, list, count, dedup keys, each with an expiry | add an alert, roll one back | stream processor, Redis | every key expires, the window does not slide, escalations and replays are reported |
| stream processor, `inference/stream_processor_faust.py` | 16 instances of the agent, three semaphores, two thread pools | take an event, detect, infer, enrich, validate, publish, correlate, report, dead-letter, shut down | Kafka, Redis, the intel service, the DLQ replay | publish before correlate; no event and no detection lost; a burst is reported; a hung model stops nothing |
| enrichment, `inference/enrichment.py` | LRU cache with expiry | look up, cache an answer or a fallback | HTTP service | bounded; nothing outlives its time to live, however busy |
| rules, features, model windows, risk, playbooks, `inference/` | none | pure functions | stream processor | thresholds and boundaries; every detection can be delivered and acted upon |
| tailer, `ingest/tail_to_redpanda.py` | three reader threads with a `tail -F` each, one producer | read, validate, publish or dead-letter, stop on a signal | `tail -F`, Kafka | no line dropped, one log's faults do not stop another |
| pcap ingester, `ingest/pcap_ingester.py` | flow table | add a packet, emit periodically, evict, flush | Kafka | every packet in exactly one flow, bounded table |
| trainers and engine, `scripts/continuous_training.py`, `inference/train_model.py`, `inference/models.py` | model and digest files | train, deploy, load | file system | a served model is whole and verified; a mismatch heals |
| API, `api/main.py`, `api/deps.py`, `api/auth.py`, `api/routes/` | none of its own (database, Redis rate limits) | list, page, count, authenticate, resolve the client | database | pages miss and repeat nothing, right client address |
| data access, `shared/data_access.py` | last alerts, statistics, health flag, poller thread | poll, synthesise incidents | API, dashboards | the poller survives, the view catches up |
| console, `terminal/tsoc_console.py` | queue, live flag | refresh, pause, select | data access | the riskiest incident first, never stuck on an old list |

The hard behaviours: two commits without a transaction across them (database
and broker), commits whose answer is lost, rebalances with a retained batch,
crashes between any two effects, tasks interleaved at every `await`, calls in
threads that a timeout does not stop, client-side retries of a script that is
not idempotent, rotation interrupted half-way, two files that belong together,
semaphores held while a thread hangs, a cursor followed through a table that
changes, two requests that describe one screen.
`PROJECT.json` lists them under `hazards`, each at its line.

## The modules

| module | models | remarks |
|---|---|---|
| `AlertDelivery` | the sink's promise: at-least-once delivery | abstract specification |
| `KafkaSink` | `run_sink`, `process_batch`, dead-letter calls | implements `AlertDelivery` |
| `DlqFile` | `write_to_file_dlq`, `_rotate_dlq_if_needed` | |
| `CorrelationScripts` | `CORRELATE_LUA`, `ROLLBACK_LUA` as functions of the keys of one address | no variables; used by the next two |
| `CorrelationWindow` | `add_alert`, `rollback_alert_seen`, time | |
| `StreamProcessor` | `process_traffic` from one alert on, with the io pool | composes the scripts with the tasks |
| `Detection` | features, rules, schema gate, playbook choice, model windows, risk score | functions; used by the next but one |
| `EnrichmentCache` | `ThreatEnricher`'s cache | functions of the cache |
| `StreamAgent` | `process_traffic` from the event to its alerts: semaphores, inference, enrichment, shutdown, crash | composes `Detection` and `EnrichmentCache`; an alert's own fate is one step |
| `Tailer` | `process_log`, `handle_sigint` | |
| `PcapFlows` | `ingest_pcap` | |
| `ApiGate` | client address, token and scopes of a request | functions |
| `Dashboard` | both routes of the API, `_poll_api`, `get_incidents`, the console, a paging client | composes with `ApiGate`; the sink's writes are its input |
| `ModelDeploy` | both ways to write the model files, and the loader | |
| `KafkaSinkProofs`, `CorrelationWindowProofs`, `StreamProcessorProofs`, `StreamAgentProofs`, `DashboardProofs` | | theorems about the module of that name |
| `FileProofs` | | theorems about `PcapFlows`, `Tailer`, `DlqFile` and `ModelDeploy` |
| `FunctionProofs` | | theorems about `Detection` and `ApiGate`, on the inputs of `MCFunctions` |
| `FiniteSums` | | lemmas about sums over finite sets, `Max` and `Min` |
| `MC*` | instances for TLC | symmetry sets and input values; `MCFunctions` also states what is checked of the functions |

### KafkaSink

`pc` is the place in the loop: `loop`, `poll`, `flush`, `items` (the loop of
`process_batch`), `commit` (the retry loop of `consumer.commit`), `evac`,
`stale`, `panic`, `drainCommit`, and `down`/`closed` between lives. The locals
keep the code's meaning: `observed` is `highest_observed_offsets`,
`lastCommitted` is `last_committed_offsets` (-1 stands for a missing key),
`offsets` is `offsets_map` or `max_offsets`, `elapsed` is
`time.time() - last_commit >= 5`. One action handles one record of a poll, one
item of a batch or one dead letter, so that a crash can fall between any two.
A record is its partition and offset; its payload is an `alert_id` and a kind
(refused in the poll loop, refused by `AlertPayload`, or good).

The two evacuation blocks of the code (commit failures, database failures) are
the same statements and are one place here; the panic block differs in not
updating `last_committed_offsets` and in what follows it.

External: the broker may apply a commit to some partitions and still raise; a
rebalance resets the position to the committed offset and leaves the batch
alone; SQLAlchemy connects at the first statement, so that a session whose
items all failed before a connection existed commits successfully. None of the
calls has a timeout of the repository's: `consumer.commit()` goes on inside the
client until a coordinator answers. In the model a call answers, raises, or, where
the specification does not make it fair, never returns (`InCall`).

### DlqFile

File `k` is generation `k`, an entry is the number of its write. Every
`os.replace` is a step; `RotationFails` is an exception in the rotation (the
append goes on), `GiveUp` an exception in the append or the death of the
process at any step. An append is atomic.

### CorrelationScripts, CorrelationWindow

A script is one atomic function from the keys to the keys and the reply. Keys
carry their expiry as a number of ticks. Redis breaks ties between equal scores
by comparing members, which is why ids are numbers. The JSON text of an alert
is told apart by its id and its replay flag, which is what `LREM` needs.

### StreamProcessor

One task per detection. `task[t]` is the place in the coroutine, `job[t]` its
call in `io_executor`; the two move independently, which is the point of the
module. A publication or an incident send that fails may have been delivered.
Every other fault (a stalled call, a lost answer, a failed rollback, no master,
no disk, a refused alert) is recorded in the history `faults`, so that a
property can be claimed under exactly the faults the code compensates for, and
bounded by `MaxFaults`. The rollback also
runs in the pool; its delay is the time between two actions of the task. The
replay of dead letters is not in the repository; it is modelled from the
`is_replay` flag the code puts on them.

### Detection, EnrichmentCache, StreamAgent

An event is a record of the fields the rules read; numbers keep their values
and thresholds, texts are abstracted to what the code asks of them (length,
record type, entropy above 3.8, suffix). A field may hold a Zeek null, which
parses to 0, or a list, whose `int()` raises past `safe_int`: where that happens
decides between no features (the event is dropped with a log line) and no rules.
A query may also be no string: the features then raise, unless it is falsy (0,
an empty list), which gives none.
A domain is the sequence of its label lengths, and the windows of `predict` are
sets of positions in it. What the network answers is a nondeterministic choice.

`phase[e]` is where the loop body is with event `e`, and the holders of the
three semaphores are read off it; `job[e]` is its prediction in `cpu_executor`,
which outlives the body when `wait_for` gives up. Enrichment is split at the
HTTP call, so that instances interleave between the cache's miss and its
update. `Emit` is the whole of `StreamProcessor` for one alert: published or
dead-lettered. `Shutdown` cancels the submitted futures, and the
`CancelledError` leaves the body through `except Exception`; whether Faust then
acknowledges the event is a choice, and the history `skipped` names the events
for which it did. `Down` is the end of the process, by a crash too: what is left
is the committed prefix. Faust itself (order within a partition, acknowledgement
when the body is left, commit of the acknowledged prefix) is external.

### Tailer

`LoopHead` is the test of `running`; a reader blocked in `readline` handles one
more line after a signal. `send()` queues or raises; the producer's own thread
delivers later or gives up, unobserved (`ProducerGivesUp`). A record larger than
`max_request_size` is one it gives up on: `send()` returns a future that has
failed already, nobody looks at it, and the line counts as published. `TailDies`
is the end of the `tail` process: `readline` then returns the empty string for
ever (`EmptyRead`). A line that is no valid UTF-8 makes `readline` raise outside
the inner `try` and ends the reader (`ReadRaises`), with the lines decoded in the
same chunk. `ParseRaises` is an error of `json.loads` that is no `ValueError`.
A reader begins here with its `tail` started.

### PcapFlows

The table is a sequence in order of insertion, because the eviction's sort by
start time is stable. A packet's time is part of the model (captures contain
ties and run backwards), its bytes are not. The histories `counted`, `reported`
and `lost` are kept per pair of endpoints, since a flow that was evicted may
begin again in the other direction. The eviction's loop takes one flow: its test
runs after every packet, so that the table is over the cap by the flow just
added.

### ApiGate, Dashboard

A request is its TCP peer, its forwarded hops, `X-Real-IP` and a token. The
table of alerts is a set of rows with ids that appear in any order (sequences
are drawn before a transaction commits). The poller is two requests with the
world free to move between them; an API that is down answers with an error
status, with JSON of another shape (which changes neither the list nor the
health flag) or not at all. The console keeps the list its rows are made from;
selecting a row looks its incident up in the list of now. The handler would raise
on an alert without evidence, which the API's schema permits; every alert the
stream processor publishes has some, so that this is not in the model.

### ModelDeploy

A file's content is a version, torn, or absent. Writing in place passes through
torn, the temporary files and their sidecar included; `os.replace` does not. `StopTrainer` is Ctrl+C, a kill or an exception between
any two steps. `inPlace` says which of the two trainers a
behaviour has. Training is abstracted to producing the next version; a cycle is
assumed to improve on an accuracy of zero at least once.

## The runs

| run | shows | bounds |
|---|---|---|
| `SinkSafety` | at-least-once delivery, no silent loss, the retained batch is bounded | 2 partitions with 1 record each, every kind of payload, 2 lives, 2 rebalances, partial commits, failing dead letters |
| `SinkProgress` | the partition drains while the broker serves, a signalled process ends unless one call never returns, rows are newest, committed offset monotone | 1 partition, 2 records of one alert, 2 lives, no rebalance |
| `DlqRotation` | oldest lost first, only the last generation discarded | 2 writers, 3 generations of 1 to 2 entries, 9 writes |
| `CorrWindow` | expiry, window, escalation, replay | 3 ids, 2 classes, 2 severities, caps of 2, 3 ticks with a window of 2 |
| `StreamTasks` | publish before correlate, no detection lost; without a fault also: a burst is reported, dead letters are rolled back | 3 tasks, 2 io workers, 1 replay each, 1 fault of any kind |
| `StreamStall` (violation) | a burst goes unreported | 2 tasks, 1 stalled call |
| `AgentEvents` | no committed event keeps a rule detection to itself, intel is fresh, every event is eventually committed | 4 events, 3 instances, backpressure 2, 1 inference permit and thread, a cache of 1 entry living 2 ticks, 1 crash or shutdown |
| `FunctionInputs` | detections are deliverable and have their playbook; windows cover a name; severity and risk are monotone; the client address cannot be chosen by the caller | packet counts on both sides of each threshold, up to 9 labels of 3, 20 or 63 characters within 253, 4 alerts, 4 hops of which 2 count |
| `TailerLogs` | no line dropped; lines are read | 2 logs with 2 and 1 lines, blank, garbled, valid or refused; 1 tail dies |
| `PcapPass` | packets accounted for, one entry per conversation, regular emissions | 3 endpoints, 5 packets, 2 times, a table of 2 flows, an emission every 2 packets |
| `ModelFiles` | completed deployments match; a served model is whole | both trainers, 5 versions, 2 stops, 3 starts |
| `DashboardView` | paging is complete, totals cover the list, incidents summarise it, the view catches up | 3 writes, 2 sources, 2 severities, polls of 2 rows, pages of 1, 1 outage |

Why these bounds are enough. In the sink the limits are scaled down with their
order kept (batch 2, panic 2 in `SinkProgress` and 3 in `SinkSafety`, retries 2,
threshold 2): every branch is taken, a batch is retained and flushed again, and
an evacuation follows. In `SinkSafety` a poll of two records on top of a retained
one, one of them handed out again by a rebalance, overshoots the batch size and
reaches the panic limit. Two lives give one
recovery, and the state a life leaves behind (offsets, rows, dead letters) is
all the next one sees. In `DlqRotation` nine writes rotate more often than
there are generations. The correlator's caps of two are exceeded by three ids. Three tasks are a burst with one alert to spare, of two
threat classes and severities, more than the io workers.

In `AgentEvents` every semaphore is smaller than the number of events that want
it and the order of the code's limits is kept (instances above backpressure,
permits equal to threads), so that a hung prediction blocks the only thread with
others queued behind it; two events share an address and a third evicts it; one
stop is one redelivery, after which nothing but the committed offset differs
from the first life. The four events are one the features refuse, a flood, a
tunnelling query and a query without any rule hit. In `PcapPass` three
endpoints make three conversations for a table of two, so that a flow is evicted
and begun again in either direction within five packets. In `DashboardView` three
writes make the window of two rows slide and leave one write for an update in
place; `Together = FALSE` runs the paging client and the dashboard in separate
behaviours of the one specification, because neither writes anything the other
reads. In `FunctionInputs` nine labels exceed the eight variants, and names
reach the 253 characters the processor lets through.

Deadlock is not checked where the bounds end the behaviour (a finite number of
writes, alerts, lines or versions). The sink's runs do check it.

### Fairness

`SinkProgress`: the sink is scheduled between its calls, time passes, and the
orchestrator restarts a process that ended (`k8s/`). No call is fair, because with
the broker down the client may retry inside `poll` or `commit` for ever.
`ShutdownCompletes` therefore allows one way not to end, a process that stays in
the same call for ever (`CallHangs`); going round the loop, or from one failing
call to the next, is not allowed. `PartitionsDrain` is claimed while
`BrokerServes`: calls return or raise, the broker hands out a record that stays
available and does not refuse every offset commit for ever (strong fairness of
the successful commit), without which no offset could ever move. Nothing is
assumed of the database: the dead-letter evacuation is what makes progress
without it. `TailerLogs`: each reader thread is scheduled; nothing
is assumed of `tail` or of the broker. `AgentEvents`: the event loop runs every
body that can go on, `wait_for` and the HTTP client's 2 s fire, Faust commits, a
process that is closing ends and is restarted; nothing is assumed of
predictions, whose threads may never return. `DashboardView`: the poller's thread
is scheduled, its requests end within their 3 s, the console's timer fires, and
an outage ends.

### Disagreements found

`StreamStall` states what the comment at `inference/stream_processor_faust.py:249`
says, that the rollback compensates a call that was abandoned, and TLC shows a
behaviour in which the rollback precedes the call and the burst goes unreported;
`PROJECT.json` has it under `findings`.

Others are visible in the models and have no run of their own. The properties
above are claimed so that they hold with the code as it is.

* `api/kafka_sink.py:154` expects connection errors at the commit, but the item
  handler at line 146 catches them first: with the database down, items are
  dead-lettered one by one and the offsets move on.
* `api/kafka_sink.py:308-311` expects the empty-batch commit to catch up; after a
  rebalance followed by an evacuation, `last_committed_offsets` (line 315) is
  ahead of the broker and the commit is not made until new records come.
* `inference/correlation.py:25` takes the score for the order of insertion; at the
  cap scores tie (lines 37-41) and the smallest id is evicted, even the newest.
* `inference/correlation.py:146`: a script whose answer was lost is repeated and
  then taken for a duplicate, so that the incident of a second alert is dropped,
  against `tests/test_load.py:66`; `BurstReported` excludes a lost answer.
* `inference/stream_processor_faust.py:353` lets in-flight work drain, but line 349
  has just cancelled it; the bodies that waited for it end without publishing.
* `inference/stream_processor_faust.py:89-92` says that the executor's queue is
  capped and the semaphore an explicit ceiling; the pool's queue has no cap, and
  `wait_for` gives the permit back while a hung thread keeps its place in the pool.
* `inference/stream_processor_faust.py:126` defends against a query that is no
  string; the features raise on it before, unless it is falsy.
* `inference/models.py:175` says "zero blind spots": true for the first eight
  variants up to 80 characters each (`WindowsCover`), not beyond.
* `inference/rules.py` and the playbooks: a tunnelling detection is in the class
  "DGA / DNS Tunnelling" and gets the `DGA_DOMAIN` playbook; no threat class of
  the pipeline selects `DNS_TUNNELING_EXFIL`.
* `ingest/tail_to_redpanda.py:97-102` means a dead-letter failure not to end the
  loop; the `send` at line 94 is in an `except` clause, and what it raises ends the
  reader, as does an undecodable line at line 60. `LinesAreRead` excepts that log,
  and that log only. The oversized record the comment names does not raise at
  all: it is counted as published and dropped.
* `ingest/pcap_ingester.py` puts no `event_type` on a flow, so that no rule applies
  to what it emits; a skipped 500th packet drops an emission (line 136).
* `scripts/continuous_training.py:202-203`: the swap that `README.md:156` calls
  atomic is two calls; `LoadRefused` is enabled between them. What is claimed is
  that the next completed deployment heals the pair.
* `shared/data_access.py:106-110` guards against a health flag that stays stale; a
  200 whose body is no list reaches neither branch and leaves it as it was.
* "First seen" (`terminal/tsoc_console.py:140`, `dashboard/pages/2_Incidents.py:60`)
  shows the time of the alert met first, which in a list from newest to oldest is
  the newest.

## The proofs

The modules `*Proofs` and `FiniteSums` are checked by TLAPS. A proof module
extends the modules it is about (the four on files name their specifications
apart: `TailerSpec`, `DlqSpec`, `DeploySpec` and `Spec` of `PcapFlows`), and its
theorems hold for every value of the constants that satisfies the assumptions named
in the modules: limits are naturals, positive where the code's are
(`SinkAssumption`, `DlqAssumption`, `ScriptsAssumption`, `WindowAssumption`,
`CacheAssumption`, `AgentAssumption`, `TailerAssumption`, `DeployAssumption`,
`DashboardAssumption`, `PcapAssumption`, `GateAssumption`,
`FunctionsAssumption`, which also says that the packet counts are listed in
ascending order); the panic limit is not below the batch size; ids and
severities are numbers, a severity is at least 1; every task's alert has an id of
its own (`ProcessorAssumption`: the code draws it with `uuid4`); the partition is
a sequence of events. TLC evaluates all of them in its runs.

| theorem | property | needs beyond the property itself |
|---|---|---|
| `SinkBatchBounded` | `BatchBounded` | `RoomInv`: how much room a poll had when it began |
| `SinkNoSilentLoss` | `NoSilentLoss` | `IInv`, below |
| `SinkDelivers` | `DeliversAtLeastOnce` | the same |
| `SinkCommittedNeverRegresses` | `CommittedNeverRegresses` | no rebalance (`MaxRewinds = 0`); `ForwardInv` |
| `SinkRowIsNewest` | `RowIsNewest` | the same and one partition; `NewestInv` |
| `DlqOldestLostFirst`, `DlqLastDiscarded` | `OldestLostFirst`, `OnlyLastGenerationDiscarded` | order of the generations |
| `WindowType`, `WindowNoImmortalKeys`, `WindowCountIsRecent`, `WindowRollbackReopens`, `WindowEscalationReported` | `TypeOK`, `NoImmortalKeys`, `CountIsRecent`, `RollbackReopens`, `EscalationReported` | when each key was created |
| `ProcessorCorrelatesPublished`, `ProcessorNoDetectionLost` | `CorrelatedImpliesPublished`, `NoDetectionLost` | where a published alert can be |
| `ProcessorDeadLettersRolledBack`, `ProcessorBurstReported` | `DeadLettersAreRolledBack`, `BurstReported` | who still carries the incident |
| `AgentType`, `AgentNoEventLost`, `AgentIntelIsFresh` | `TypeOK`, `NoEventLost`, `IntelIsFresh` | what a body still owes |
| `TailerNoLineDropped` | `NoLineDropped` | where a line in hand is |
| `DeployServesWholeModel`, `DeployCompletedMatches` | `ServesWholeModel`, `CompletedDeploymentMatches` | what the trainer knows of its files |
| `PcapTypeOK`, `PcapOneEntryPerConversation`, `PcapPacketsAccounted`, `PcapSnapshotsAreRegular` | `TypeOK`, `OneEntryPerConversation`, `PacketsAccounted`, `SnapshotsAreRegular` | `PassInv`: how many packets wait at a packet number |
| `DashboardPagerSeesAll` | `PagerSeesAll` | what lies ahead of the cursor |
| `DashboardStatsCoverAlerts`, `DashboardIncidentsSummarise` | `StatsCoverAlerts`, `IncidentsSummarise` | the table only grows; what the pass has accumulated after each alert |
| `FunctionsDetectionsAreActionable`, `FunctionsFloodsEscalate`, `FunctionsRiskNeverFalls` | `DetectionsAreActionable`, `FloodsEscalate`, `RiskNeverFalls` | what each rule can detect |
| `FunctionsEveryVariantInspected`, `FunctionsWindowsCover` | `EveryVariantInspected`, `WindowsCover` | the variants' shares add up to no more than the batch |
| `FunctionsVouchedAddressCounts` | `VouchedAddressCounts` | where the entry that counts moves |

**Sink.** `NoSilentLoss` is not inductive: a commit moves the offset to a place
the loop computed many steps earlier. `IInv` adds where that place comes from:
everything below the fetch position and below the observed watermark is settled
or in the retained batch (`PositionInv`, `ObservedInv`); the batch and the
offsets about to be committed stay below the watermark (`BatchInv`,
`OffsetsInv`); the items already passed are in the open transaction or
dead-lettered (`ItemsInv`); a session that never connected has written nothing
(`SessionInv`), which is why its successful commit is harmless; and once
`process_batch` has returned offsets the whole batch is settled (`ReturnedInv`).
`SinkInvariant` proves it, one step per action; `SinkDelivers` maps every step to
one of `AlertDelivery` or to a stutter by the same invariant. `RoomInv` counts the
records of the poll under way: the batch was below its limit when the poll began,
and only a poll makes it longer.

The two further theorems need the absence of a rebalance, and it is a real
hypothesis: after a rebalance a retained batch is committed behind the offset.
`ForwardInv` says that the watermark, where it exists, is the fetch position
(`WatermarkInv`), that a partition is never committed beyond the last of its
items in the batch (`ReachInv`), and that the offsets in hand are the highest of
the items passed (`HighestInv`, `PassInv`): so each of the commit sites moves
forward. For the rows, `NewestInv` adds that the batch is in the order of the log
(`OrderInv`) and that table and open transaction hold what was fetched and passed
(`RowsInv`, `ViewInv`). One partition is needed because records of one alert in
two partitions have no order.

**Dead-letter file.** `DlqInvariant` adds that a higher generation holds older
entries (`GenerationsOrdered`), that only the holder of the lock is inside the
rotation, that a file that does not exist holds nothing, that a rotation has
emptied the generation it fills next unless that is the last, and that entries
are numbers of past writes.

**Correlator.** A key with `ttl` ticks left was created `Window - ttl` ticks ago.
`CountInv` and `DedupInv` say that the count, the list and the remembered
severity speak only of alerts counted since then; this is the form of "the window
does not slide" that every script step preserves. The lemmas before it say what
the scripts do to the seen set, the list and the caps; in particular that the
eviction takes one member of the set, whichever has the lowest score.

**Stream processor.** For every fault: a correlation is under way only for what is
published (`PublishedInv`), and the two properties are inductive with it. For the
burst, `CleanInv` follows the alerts while no call stalls and no answer is lost:
an alert that has not reached Redis, or was taken out again, is neither in the
list nor in the seen set (`OutsideInv`); and whenever two alerts are counted and
no incident was sent, some task has an incident in hand or is an alert whose
severity is forgotten, so that its arrival must raise one (`BurstInv`). The
rollback of one task while another reports is where the second half is needed.

**Agent.** What an event owes is emitted or still in `todo`, in every phase of the
body (`EventInv`); an acknowledged event owes nothing, and a commit moves over
acknowledged events only (`AckPrefixFacts`). For the cache: it holds an address
once, and every entry expires `CacheTtl` after the answer was obtained; moving an
entry to the end does not touch the date. The rules are left unexpanded: the
theorems hold whatever they detect.

**Tailer, deployment.** A line in hand is where its validity sends it
(`HandInv`). No file is of a version still to be trained (`FilesAreOld`), and
between the save and the last move the trainer's files are those of its version
(`TrainerInv`); a stop loses the trainer's place and with it every claim about
the files, which is why the next deployment heals them.

**Paging client.** The ids seen fall, the cursor is at or below all of them, and
each row that was there at the start has been seen or is below the cursor
(`PagerType`, `PagerProgress`). `RankFacts` and the lemmas after it show that a
page sorted by falling id holds the rows directly below the cursor, and that a
page shorter than the limit holds all of them.

**Poller and incidents.** The table only grows, so it still holds at least as many
rows as the list that was fetched before the totals (`PollInv`), and counting the
rows by severity and adding up counts each row once (`StatsCountRows`). For the
incidents, `FoldPrefixes` unrolls `get_incidents` into one step per alert and
`AddAlertStep` shows that each step keeps the summary of the alerts so far: one
incident per source, all its alerts, the highest severity. `SortFacts` shows
that the console's ranking is a permutation of them by falling risk.

**Capture reader.** Two entries never have the same two endpoints, because both
keys are looked up before an entry is made (`CountFacts`); a conversation's sum
over the table therefore has one term, and counting, evicting and the final flush
each move that one term. `SnapshotsAreRegular` is not inductive: `PassInv` adds
that the packets not yet emitted are at most the packet number modulo the period,
which a packet raises by one, a packet of another protocol leaves behind, and an
emission resets together with the remainder.

**Functions.** `InputOK` describes the inputs `MCFunctions` grows: connections of
any counts, domains of any number of labels of any length, incidents and
forwarded hops of any number. The properties follow for each of them; a step
makes an input larger, so the monotone ones are about two inputs. For the
windows, `LongRank` numbers the long labels without a gap, `BudgetFacts` says that
eight or fewer equal shares fit into 32 slices, `WindowStartsFacts` that a
variant keeps to its share, and `NothingCut` concludes that the batch's cut takes
nothing; `WindowsNoGap` covers up to 80 characters, the longest name whose steps
and closing window fit into the smallest share. For the address, a hop on the
left moves the last foreign entry by one place, or pushes a hop out that is no
longer looked at (`OneMoreHop`).

**Induction.** The library's induction theorems cannot be instantiated, so what
is true of sums and folds of every size is proved by a least counterexample: a set
of naturals has a smallest element, and among subsets of a finite set one is
minimal (`NatMinimum`, `MinimalSubset`). `SumIsUnits` shows in this way that a sum
of naturals is the number of its units, after which sums are compared by
injections between finite sets; `FoldExists` and `FoldPrefixes` do the same for
the pass over the alerts.

Only model-checked: liveness (`PartitionsDrain`, `ShutdownCompletes`,
`EveryEventHandled`, `LinesAreRead`, `DashboardCatchesUp`), which is out of the
prover's reach; `StalledCallsCompensated`, which the code violates, has no theorem.

`TypeOK` of `KafkaSink`, `DlqTypeOK`, `TailerTypeOK` and `DeployTypeOK` are parts of the proofs and in no
run, the properties of those runs being about more than ranges; `TypeOK` of
`StreamProcessor` and of `Dashboard` say what their variables range over.

## Not modelled, and the plan

Composition still open: two sink instances in one consumer group, which the
sink's `Rewind` stands for.

Left out for good, with the reason:

* rendering (`dashboard/`, the texts of `terminal/`) and formatters: no state;
* manifests (`k8s/`): declarative; they justify the fairness of `Restart`;
* numeric training and inference, entropy, the network's confidence: the models
  take their outcome as a choice or as a Boolean of the input;
* `ingest/simulator.py`, `scripts/sign_manifest.py`,
  `scripts/verify_model_integrity.py`, `scripts/benchmark_throughput.py`:
  one-shot tools that run start to end by themselves;
* the counters of the rate limiter and their storage: slowapi's, only the key
  under which a request is counted is this repository's;
* the second whole-name variant of an internationalised domain;
* half a line in the dead-letter file after a crash inside a write: nothing in
  the repository reads the file back;
* the text of alerts, incidents, playbook steps and log lines.
