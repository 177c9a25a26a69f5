------------------------------ MODULE KafkaSink ------------------------------
(***************************************************************************)
(* api/kafka_sink.py: the consumer loop that moves alerts from the         *)
(* security_alerts topic into the database (run_sink, process_batch,       *)
(* _safe_dlq_send, write_to_file_dlq).                                     *)
(*                                                                         *)
(* A record is named <<p, o>>: partition and offset.  Its payload is       *)
(* abstracted to the alert_id it carries and to how far it gets:           *)
(*   "poison"   refused in the poll loop (size, JSON, no alert_id),        *)
(*   "invalid"  refused by AlertPayload in process_batch,                  *)
(*   "ok"       reaches the ORM.                                           *)
(* Three things the module uses are outside the repository: the broker     *)
(* (the log, the committed offsets, a commit whose answer is lost or that  *)
(* is applied to some partitions only), the SQLAlchemy session (it binds a *)
(* connection lazily, at the first statement; commit of a session that     *)
(* never bound one is a no-op that succeeds; commit on a lost connection   *)
(* raises), and the file system below the dead-letter file.  A call of the *)
(* broker or the database answers, raises, or never returns: it is under   *)
(* way while the loop is at the place of the call, and no more than that   *)
(* is said of when its step is taken, except by the fairness conditions.   *)
(***************************************************************************)
EXTENDS Integers, Sequences, FiniteSets

CONSTANTS
    Partitions,              \* partitions of security_alerts assigned to the sink
    AlertIds,                \* values of alert_id
    Kinds,                   \* the kinds of payload that arrive
    MaxBatchSize,            \* MAX_BATCH_SIZE
    MaxPollRecords,          \* kafka-python's max_poll_records (default 500)
    MaxCommitRetries,        \* MAX_COMMIT_RETRIES
    MaxConsecutiveFailures,  \* MAX_CONSECUTIVE_FAILURES
    PanicBatchSize,          \* PANIC_BATCH_SIZE
    DlqMayFail,              \* the dead-letter file write may fail
    MaxLog,                  \* bound: records per partition
    MaxStarts,               \* bound: lives of the process
    MaxRewinds,              \* bound: rebalances that reset the position
    NoRow                    \* no database row

ASSUME SinkAssumption ==
    /\ Kinds \subseteq {"ok", "invalid", "poison"}
    /\ MaxBatchSize \in Nat \ {0}
    /\ MaxPollRecords \in Nat \ {0}
    /\ MaxCommitRetries \in Nat \ {0}
    /\ MaxConsecutiveFailures \in Nat \ {0}
    /\ PanicBatchSize \in Nat /\ PanicBatchSize >= MaxBatchSize
    /\ DlqMayFail \in BOOLEAN
    /\ MaxLog \in Nat /\ MaxStarts \in Nat \ {0} /\ MaxRewinds \in Nat
    /\ NoRow \notin Partitions \X Nat

Records == Partitions \X Nat
Payloads == [aid : AlertIds, kind : Kinds]

VARIABLES
    \* outside the process
    log,            \* log[p]: the partition's records, offset o at index o + 1
    committed,      \* committed[p]: the group's committed offset at the broker
    rows,           \* rows[a]: the record whose content the row of alert a holds
    stored,         \* history: the records whose upsert was committed
    dlq,            \* records in the dead-letter file or topic
    dropped,        \* records whose only trace is an error log line
    \* run_sink's locals
    pc,             \* where the loop is
    running,        \* running (cleared by the signal handler)
    draining,       \* process_batch was called by the shutdown code
    position,       \* the consumer's fetch position
    polled,         \* records the current poll has returned
    batch,          \* batch
    observed,       \* highest_observed_offsets, -1 for a missing key
    lastCommitted,  \* last_committed_offsets, -1 for a missing key
    failures,       \* consecutive_commit_failures
    attempt,        \* attempt
    elapsed,        \* time.time() - last_commit >= 5
    \* process_batch's locals and an evacuation's max_offsets
    i,              \* the next item
    offsets,        \* offsets_map / max_offsets, -1 for a missing key
    session,        \* the session's connection: "unbound", "bound", "broken"
    view,           \* the rows as the open transaction sees them
    written,        \* the records upserted in the open transaction
    \* bounds
    starts, rewinds

world == <<log, committed, rows, stored, dlq, dropped>>
loopVars == <<running, draining, position, polled, batch, observed,
              lastCommitted, failures, attempt, elapsed>>
txnVars == <<i, offsets, session, view, written>>
bounds == <<starts, rewinds>>
vars == <<world, pc, loopVars, txnVars, bounds>>

Payload(r) == log[r[1]][r[2] + 1]
NoOffsets == [p \in Partitions |-> -1]
Larger(a, b) == IF a >= b THEN a ELSE b

(***************************************************************************)
(* A dictionary update: the keys that are present (# -1) and in P win.     *)
(***************************************************************************)
Updated(old, new, P) ==
    [p \in Partitions |-> IF p \in P /\ new[p] # -1 THEN new[p] ELSE old[p]]

-----------------------------------------------------------------------------
Init ==
    /\ log = [p \in Partitions |-> <<>>]
    /\ committed = [p \in Partitions |-> 0]
    /\ rows = [a \in AlertIds |-> NoRow]
    /\ stored = {} /\ dlq = {} /\ dropped = {}
    /\ pc = "loop" /\ running = TRUE /\ draining = FALSE
    /\ position = [p \in Partitions |-> 0]
    /\ polled = 0 /\ batch = <<>>
    /\ observed = NoOffsets /\ lastCommitted = NoOffsets
    /\ failures = 0 /\ attempt = 0 /\ elapsed = FALSE
    /\ i = 1 /\ offsets = NoOffsets /\ session = "unbound"
    /\ view = rows /\ written = {}
    /\ starts = 1 /\ rewinds = 0

-----------------------------------------------------------------------------
(***************************************************************************)
(* The environment: producers, the clock, signals, process death.          *)
(***************************************************************************)
Produce(p, m) ==
    /\ Len(log[p]) < MaxLog
    /\ log' = [log EXCEPT ![p] = Append(@, m)]
    /\ UNCHANGED <<committed, rows, stored, dlq, dropped, pc, loopVars, txnVars, bounds>>

Tick ==
    /\ pc \notin {"down", "closed"} /\ ~elapsed
    /\ elapsed' = TRUE
    /\ UNCHANGED <<world, pc, running, draining, position, polled, batch, observed,
                   lastCommitted, failures, attempt, txnVars, bounds>>

\* _handle_shutdown_signal
Sigterm ==
    /\ pc \notin {"down", "closed"} /\ running /\ starts < MaxStarts
    /\ running' = FALSE
    /\ UNCHANGED <<world, pc, draining, position, polled, batch, observed,
                   lastCommitted, failures, attempt, elapsed, txnVars, bounds>>

\* A consumer without a position resumes at the group's committed offsets.
ResumeAtEarliest == [p \in Partitions |-> 0]
ResumePosition == committed

\* The locals of run_sink when it starts.
FreshProcess ==
    /\ position' = ResumePosition
    /\ batch' = <<>> /\ observed' = NoOffsets /\ lastCommitted' = NoOffsets
    /\ running' = TRUE /\ draining' = FALSE /\ polled' = 0
    /\ failures' = 0 /\ attempt' = 0 /\ elapsed' = FALSE
    /\ i' = 1 /\ offsets' = NoOffsets /\ session' = "unbound"
    /\ view' = rows /\ written' = {}

\* The process dies (kill, OOM, an exception nothing catches); its locals and
\* the open transaction are gone.
Crash ==
    /\ pc \notin {"down", "closed"} /\ starts < MaxStarts
    /\ pc' = "down"
    /\ FreshProcess
    /\ UNCHANGED <<world, bounds>>

Restart ==
    /\ pc \in {"down", "closed"} /\ starts < MaxStarts
    /\ starts' = starts + 1
    /\ pc' = "loop"
    /\ FreshProcess
    /\ UNCHANGED <<world, rewinds>>

-----------------------------------------------------------------------------
(***************************************************************************)
(* The dead letter of one record: _safe_dlq_send and write_to_file_dlq     *)
(* never raise; a write that fails leaves a log line.                      *)
(***************************************************************************)
DeadLetter(r) ==
    \/ dlq' = dlq \cup {r} /\ UNCHANGED dropped
    \/ DlqMayFail /\ dropped' = dropped \cup {r} /\ UNCHANGED dlq

(***************************************************************************)
(* Entering process_batch: a new session, an empty offsets_map.            *)
(***************************************************************************)
BeginBatch ==
    /\ i' = 1 /\ offsets' = NoOffsets
    /\ session' = "unbound" /\ view' = rows /\ written' = {}

\* The head of the loop: leave it when a signal arrived, poll when the batch
\* has room.
PollAlways == TRUE
PollDue == Len(batch) < MaxBatchSize

LoopHead ==
    /\ pc = "loop" /\ running
    /\ pc' = IF PollDue THEN "poll" ELSE "flush"
    /\ polled' = 0
    /\ UNCHANGED <<world, running, draining, position, batch, observed,
                   lastCommitted, failures, attempt, elapsed, txnVars, bounds>>

\* A rebalance inside consumer.poll: the position goes back to the committed
\* offset; run_sink keeps its batch.
Rewind(p) ==
    /\ pc = "poll" /\ polled = 0 /\ rewinds < MaxRewinds
    /\ rewinds' = rewinds + 1
    /\ position' = [position EXCEPT ![p] = committed[p]]
    /\ UNCHANGED <<world, pc, running, draining, polled, batch, observed,
                   lastCommitted, failures, attempt, elapsed, txnVars, starts>>

\* One record of the poll, of which there are at most max_poll_records:
\* _record_offset always, then skip or append.
PollRecord(p) ==
    LET o == position[p]
        r == <<p, o>>
    IN  /\ pc = "poll" /\ polled < MaxPollRecords /\ o < Len(log[p])
        /\ polled' = polled + 1
        /\ position' = [position EXCEPT ![p] = o + 1]
        /\ observed' = [observed EXCEPT ![p] = Larger(@, o + 1)]
        /\ IF Payload(r).kind = "poison"
              THEN dropped' = dropped \cup {r} /\ UNCHANGED batch
              ELSE batch' = Append(batch, r) /\ UNCHANGED dropped
        /\ UNCHANGED <<log, committed, rows, stored, dlq, pc, running, draining,
                       lastCommitted, failures, attempt, elapsed, txnVars, bounds>>

\* poll returned (or raised: no records).
PollEnd ==
    /\ pc = "poll"
    /\ pc' = "flush"
    /\ UNCHANGED <<world, loopVars, txnVars, bounds>>

\* Commit on size or time.
FlushDue == Len(batch) >= MaxBatchSize \/ (Len(batch) > 0 /\ elapsed)

Flush ==
    /\ pc = "flush"
    /\ IF FlushDue
          THEN pc' = "items" /\ BeginBatch
          ELSE pc' = "stale" /\ UNCHANGED txnVars
    /\ UNCHANGED <<world, loopVars, bounds>>

-----------------------------------------------------------------------------
(***************************************************************************)
(* process_batch: one item at a time, then db.commit().                    *)
(***************************************************************************)
Item == batch[i]

OffsetsOneTooFar == [offsets EXCEPT ![Item[1]] = Larger(@, Item[2] + 2)]
OffsetsOfAnyPartition == [p \in Partitions |-> Larger(offsets[p], Item[2] + 1)]

\* The offsets map after the item at hand: max(offsets_map.get(tp, -1), offset + 1).
OffsetsWithItem == [offsets EXCEPT ![Item[1]] = Larger(@, Item[2] + 1)]

NextItem ==
    /\ pc = "items" /\ i <= Len(batch)
    /\ i' = i + 1
    /\ offsets' = OffsetsWithItem
    /\ UNCHANGED <<log, committed, rows, stored, pc, loopVars, bounds>>

\* The upsert: every column of the existing row is set, or a row is added.
InsertOnly ==
    IF view[Payload(Item).aid] = NoRow
      THEN [view EXCEPT ![Payload(Item).aid] = Item] ELSE view
Upsert == [view EXCEPT ![Payload(Item).aid] = Item]

\* The savepoint with the upsert succeeds.
ItemStored ==
    /\ NextItem
    /\ Payload(Item).kind = "ok" /\ session \in {"unbound", "bound"}
    /\ session' = "bound"
    /\ view' = Upsert
    /\ written' = written \cup {Item}
    /\ UNCHANGED <<dlq, dropped>>

\* Any exception of the item: validation (the session is not touched), a
\* database error confined to the savepoint, no connection to be had, or the
\* connection lost (now or earlier in the batch).
ItemFailed ==
    /\ NextItem
    /\ IF Payload(Item).kind = "invalid"
          THEN session' = session
          ELSE \/ session' = session
               \/ session = "unbound" /\ session' = "bound"
               \/ session' = "broken"
    /\ DeadLetter(Item)
    /\ UNCHANGED <<view, written>>

ItemsDone == pc = "items" /\ i > Len(batch)

\* Where the loop goes after f consecutive failed flushes.
AfterFailure(f) ==
    IF f >= MaxConsecutiveFailures THEN "evac" ELSE "stale"

\* Where run_sink goes when process_batch returned {}: the shutdown code does
\* not try again.
DrainRetries(f) == IF draining THEN "items" ELSE AfterFailure(f)
AfterDbFailure(f) == IF draining THEN "closed" ELSE AfterFailure(f)

DbCommitOk ==
    /\ ItemsDone /\ session \in {"unbound", "bound"}
    /\ rows' = view /\ stored' = stored \cup written
    /\ view' = view /\ written' = {}
    /\ pc' = IF draining THEN "drainCommit" ELSE "commit"
    /\ attempt' = 0
    /\ UNCHANGED <<log, committed, dlq, dropped, running, draining, position, polled,
                   batch, observed, lastCommitted, failures, elapsed, i, offsets,
                   session, bounds>>

\* db.commit() raises; when only its answer was lost it was applied all the
\* same.  process_batch returns {}.
DbCommitFail ==
    /\ ItemsDone /\ session \in {"bound", "broken"}
    /\ \/ session = "bound" /\ rows' = view /\ stored' = stored \cup written
       \/ UNCHANGED <<rows, stored>>
    /\ view' = rows' /\ written' = {}
    /\ failures' = IF draining THEN failures ELSE failures + 1
    /\ pc' = AfterDbFailure(failures + 1)
    /\ i' = 1 /\ offsets' = NoOffsets /\ session' = "unbound"
    /\ UNCHANGED <<log, committed, dlq, dropped, running, draining, position, polled,
                   batch, observed, lastCommitted, attempt, elapsed, bounds>>

-----------------------------------------------------------------------------
(***************************************************************************)
(* consumer.commit(offsets): it succeeds, or raises having been applied to *)
(* some of the partitions.                                                 *)
(***************************************************************************)
BrokerCommit(m) == committed' = Updated(committed, m, Partitions)
BrokerCommitFails(m) ==
    \E P \in SUBSET Partitions : committed' = Updated(committed, m, P)

Forget ==   \* the locals of a finished process_batch or evacuation
    /\ i' = 1 /\ offsets' = NoOffsets /\ session' = "unbound"
    /\ UNCHANGED <<view, written>>

\* batch.clear(); last_commit = time.time(); consecutive_commit_failures = 0
ClearBatch ==
    /\ batch' = <<>> /\ elapsed' = FALSE /\ failures' = 0

CommitOk ==
    /\ pc = "commit"
    /\ BrokerCommit(offsets)
    /\ lastCommitted' = Updated(lastCommitted, offsets, Partitions)
    /\ ClearBatch
    /\ pc' = "stale" /\ attempt' = 0 /\ Forget
    /\ UNCHANGED <<log, rows, stored, dlq, dropped, running, draining, position,
                   polled, observed, bounds>>

CommitFail ==
    /\ pc = "commit"
    /\ BrokerCommitFails(offsets)
    /\ IF attempt + 1 < MaxCommitRetries
          THEN /\ attempt' = attempt + 1
               /\ UNCHANGED <<pc, failures, txnVars>>
          ELSE /\ attempt' = 0 /\ failures' = failures + 1
               /\ pc' = AfterFailure(failures + 1) /\ Forget
    /\ UNCHANGED <<log, rows, stored, dlq, dropped, running, draining, position,
                   polled, batch, observed, lastCommitted, elapsed, bounds>>

-----------------------------------------------------------------------------
(***************************************************************************)
(* The evacuations: after MaxConsecutiveFailures flush cycles without      *)
(* success ("evac") and when the batch is past the hard guard ("panic").   *)
(***************************************************************************)
EvacWrite ==
    /\ pc \in {"evac", "panic"} /\ i <= Len(batch)
    /\ DeadLetter(Item)
    /\ i' = i + 1
    /\ offsets' = OffsetsWithItem
    /\ UNCHANGED <<log, committed, rows, stored, pc, loopVars, session, view,
                   written, bounds>>

\* The one commit after an evacuation; the batch is cleared either way.  The
\* panic branch does not update last_committed_offsets, and is the last thing
\* of the loop's body.
EvacDone ==
    /\ pc \in {"evac", "panic"} /\ i > Len(batch)
    /\ ClearBatch /\ Forget
    /\ pc' = IF pc = "evac" THEN "stale" ELSE "loop"
    /\ UNCHANGED <<log, rows, stored, dlq, dropped, running, draining, position,
                   polled, observed, attempt, bounds>>

EvacCommitOk ==
    /\ EvacDone
    /\ BrokerCommit(offsets)
    /\ lastCommitted' = IF pc = "evac"
                          THEN Updated(lastCommitted, offsets, Partitions)
                          ELSE lastCommitted

EvacCommitFail ==
    /\ EvacDone
    /\ BrokerCommitFails(offsets)
    /\ UNCHANGED lastCommitted

-----------------------------------------------------------------------------
(***************************************************************************)
(* The commit of observed offsets when the batch is empty, and the panic   *)
(* guard.                                                                  *)
(***************************************************************************)
KnownStaleTps == {p \in DOMAIN lastCommitted : lastCommitted[p] >= 0 /\ observed[p] > lastCommitted[p]}
StaleTps == {p \in Partitions : observed[p] > lastCommitted[p]}
StaleOffsets == [p \in Partitions |-> IF p \in StaleTps THEN observed[p] ELSE -1]
StaleDespiteBatch == StaleTps # {}
StaleDue == batch = <<>> /\ StaleTps # {}

StaleSkip ==
    /\ pc = "stale" /\ ~StaleDue
    /\ pc' = IF Len(batch) >= PanicBatchSize THEN "panic" ELSE "loop"
    /\ UNCHANGED <<world, loopVars, txnVars, bounds>>

StaleCommitOk ==
    /\ pc = "stale" /\ StaleDue
    /\ BrokerCommit(StaleOffsets)
    /\ lastCommitted' = Updated(lastCommitted, StaleOffsets, Partitions)
    /\ pc' = "loop"
    /\ UNCHANGED <<log, rows, stored, dlq, dropped, running, draining, position,
                   polled, batch, observed, failures, attempt, elapsed, txnVars, bounds>>

StaleCommitFail ==
    /\ pc = "stale" /\ StaleDue
    /\ BrokerCommitFails(StaleOffsets)
    /\ pc' = "loop"
    /\ UNCHANGED <<log, rows, stored, dlq, dropped, loopVars, txnVars, bounds>>

-----------------------------------------------------------------------------
(***************************************************************************)
(* Graceful shutdown: one process_batch, one commit, close.                *)
(***************************************************************************)
Drain ==
    /\ pc = "loop" /\ ~running
    /\ IF Len(batch) > 0
          THEN pc' = "items" /\ draining' = TRUE /\ BeginBatch
          ELSE pc' = "closed" /\ UNCHANGED <<draining, txnVars>>
    /\ UNCHANGED <<world, running, position, polled, batch, observed, lastCommitted,
                   failures, attempt, elapsed, bounds>>

\* The commit has no timeout: while the group's coordinator is not to be found
\* the call does not return, and this step is not taken.
DrainCommit ==
    /\ pc = "drainCommit"
    /\ BrokerCommit(offsets) \/ BrokerCommitFails(offsets)
    /\ pc' = "closed" /\ Forget
    /\ UNCHANGED <<log, rows, stored, dlq, dropped, loopVars, bounds>>

-----------------------------------------------------------------------------
Environment ==
    \/ \E p \in Partitions, m \in Payloads : Produce(p, m)
    \/ Tick \/ Sigterm \/ Crash
    \/ \E p \in Partitions : Rewind(p)

ProcessBatch ==
    \/ ItemStored \/ ItemFailed
    \/ DbCommitOk \/ DbCommitFail

RunSink ==
    \/ LoopHead \/ (\E p \in Partitions : PollRecord(p)) \/ PollEnd \/ Flush
    \/ ProcessBatch
    \/ CommitOk \/ CommitFail
    \/ EvacWrite \/ EvacCommitOk \/ EvacCommitFail
    \/ StaleSkip \/ StaleCommitOk \/ StaleCommitFail
    \/ Drain \/ DrainCommit

Next == Environment \/ Restart \/ RunSink

Spec == Init /\ [][Next]_vars

-----------------------------------------------------------------------------
(***************************************************************************)
(* Type invariant of the sink's state.                                     *)
(***************************************************************************)
FlagsOK == running \in BOOLEAN /\ draining \in BOOLEAN /\ elapsed \in BOOLEAN
OffsetMap == [Partitions -> Nat \cup {-1}]

TypeOK ==
    /\ log \in [Partitions -> Seq(Payloads)]
    /\ committed \in [Partitions -> Nat]
    /\ rows \in [AlertIds -> Records \cup {NoRow}]
    /\ stored \subseteq Records /\ dlq \subseteq Records /\ dropped \subseteq Records
    /\ pc \in {"loop", "poll", "flush", "items", "commit", "evac", "stale", "panic",
               "drainCommit", "down", "closed"}
    /\ FlagsOK
    /\ position \in [Partitions -> Nat]
    /\ polled \in 0 .. MaxPollRecords
    /\ batch \in Seq(Records)
    /\ observed \in OffsetMap /\ lastCommitted \in OffsetMap /\ offsets \in OffsetMap
    /\ failures \in Nat /\ attempt \in Nat /\ i \in Nat \ {0}
    /\ session \in {"unbound", "bound", "broken"}
    /\ view \in [AlertIds -> Records \cup {NoRow}]
    /\ written \subseteq Records
    /\ starts \in Nat /\ rewinds \in Nat

(***************************************************************************)
(* Safety.                                                                 *)
(***************************************************************************)
Settled == stored \cup dlq \cup dropped
InBatch == {batch[j] : j \in DOMAIN batch}

(***************************************************************************)
(* No record is lost silently: every record below a committed offset,      *)
(* which no consumer will be handed again, has a row, a dead-letter entry  *)
(* or an error log line.  This is about the order of db.commit(),          *)
(* dead-letter writes and consumer.commit() in run_sink, across retries,   *)
(* evacuations, crashes, lost answers and rebalances.                      *)
(***************************************************************************)
NoSilentLoss ==
    \A p \in Partitions : \A o \in 0 .. (committed[p] - 1) : <<p, o>> \in Settled

(***************************************************************************)
(* At-least-once delivery: the sink implements AlertDelivery when a record *)
(* counts as settled once it has a row, a dead letter or a log line.       *)
(***************************************************************************)
Delivery == INSTANCE AlertDelivery WITH
    arrived <- [p \in Partitions |-> Len(log[p])],
    settled <- Settled

DeliversAtLeastOnce == Delivery!Spec

(***************************************************************************)
(* The row of an alert never falls behind what the sink has finished with: *)
(* below the committed offset, a valid record is dead-lettered or the row  *)
(* of its alert holds it or a later record.  It is about the upsert, the   *)
(* order of items in a batch and the reprocessing after a crash or a       *)
(* retained batch.  It presumes one partition and no rebalance (a          *)
(* rebalance with a retained batch puts older records behind newer ones).  *)
(***************************************************************************)
RowIsNewest ==
    \A p \in Partitions : \A o \in 0 .. (committed[p] - 1) :
        LET r == <<p, o>>
        IN  Payload(r).kind = "ok" /\ r \notin dlq \cup dropped
              => /\ rows[Payload(r).aid] # NoRow
                 /\ rows[Payload(r).aid][2] >= o

(***************************************************************************)
(* Without a rebalance the group's committed offset never goes back, so    *)
(* work that was finished is never handed out again, whichever of the five *)
(* commit sites (flush, threshold, stale, panic, shutdown) runs after a    *)
(* crash, a retry or a commit whose answer was lost.                       *)
(***************************************************************************)
CommittedNeverRegresses ==
    [][\A p \in Partitions : committed'[p] >= committed[p]]_vars

(***************************************************************************)
(* The memory of the sink is bounded: however often flushes fail and the   *)
(* batch is retained, and whatever a rebalance hands out again, it holds   *)
(* fewer records than MAX_BATCH_SIZE and one more poll.  The flow control  *)
(* at the head of the loop is what bounds it; the panic guard acts on what *)
(* is in memory already.                                                   *)
(***************************************************************************)
BatchBounded == Len(batch) < MaxBatchSize + MaxPollRecords

-----------------------------------------------------------------------------
(***************************************************************************)
(* Where the process is inside a call of the broker or the database.  None *)
(* of them has a timeout of its own that would end it: kafka-python        *)
(* repeats poll() and commit() internally until a coordinator answers.     *)
(***************************************************************************)
InCall ==
    \/ pc = "poll" /\ polled = 0
    \/ pc = "items"
    \/ pc \in {"commit", "drainCommit"}
    \/ pc \in {"evac", "panic"} /\ i > Len(batch)
    \/ pc = "stale" /\ StaleDue

\* One such call never returns.
CallHangs == <>[]InCall /\ <>[][FALSE]_<<pc, i, attempt>>

(***************************************************************************)
(* Fairness: the process is scheduled between its calls and restarted, and *)
(* time passes.  No call is fair.                                          *)
(***************************************************************************)
FairSpec == Spec /\ WF_vars(RunSink /\ ~InCall) /\ WF_vars(Tick) /\ WF_vars(Restart)

(***************************************************************************)
(* A shutdown signal ends the process, at whatever step it falls, unless a *)
(* single call never returns: calls that raise, however many, do not keep  *)
(* the loop or the drain going, because what is left of the loop's body is *)
(* finite and the drain tries nothing twice.                               *)
(***************************************************************************)
ShutdownCompletes == CallHangs \/ ((~running) ~> (pc \in {"closed", "down"}))

(***************************************************************************)
(* What the progress of a partition takes from outside: every call returns *)
(* or raises, the broker hands out a record that stays available and does  *)
(* not refuse every offset commit for ever.  The database may raise at     *)
(* every call.                                                             *)
(***************************************************************************)
BrokerServes ==
    /\ WF_vars(RunSink)
    /\ \A p \in Partitions : SF_vars(PollRecord(p))
    /\ SF_vars(CommitOk \/ StaleCommitOk)

(***************************************************************************)
(* As long as the broker serves, every record that arrives is eventually   *)
(* below the committed offset, for good, even if the database never works  *)
(* and half of the batch is poison: no mix of retained batches,            *)
(* evacuations and stale offsets stalls the partition.                     *)
(***************************************************************************)
PartitionsDrain ==
    BrokerServes =>
        \A p \in Partitions : \A n \in 1 .. MaxLog :
            (Len(log[p]) >= n) ~> [](committed[p] >= n)
=============================================================================
