--------------------------- MODULE KafkaSinkProofs ---------------------------
(***************************************************************************)
(* Proofs about KafkaSink, for any number of partitions, records, batch    *)
(* sizes, retries, crashes and rebalances.                                 *)
(***************************************************************************)
EXTENDS KafkaSink, TLAPS

(***************************************************************************)
(* The inductive invariant behind NoSilentLoss.  NoSilentLoss alone is not *)
(* inductive: a commit moves the offset to a place the loop computed       *)
(* steps earlier.                                                          *)
(***************************************************************************)
\* A record a consumer may pass: settled, or still in the retained batch.
Covered == Settled \cup InBatch

\* The broker's committed offsets cover settled records of the log only.
CommittedInv ==
    \A p \in Partitions :
        /\ committed[p] <= Len(log[p])
        /\ \A o \in Nat : o < committed[p] => <<p, o>> \in Settled

\* Below the fetch position everything is settled or in the batch.
PositionInv ==
    \A p \in Partitions :
        /\ position[p] <= Len(log[p])
        /\ \A o \in Nat : o < position[p] => <<p, o>> \in Covered

\* So it is below the observed watermark, ...
ObservedInv ==
    \A p \in Partitions :
        /\ observed[p] <= Len(log[p])
        /\ \A o \in Nat : o < observed[p] => <<p, o>> \in Covered

\* ... which no item of the batch reaches.
BatchInv == \A r \in InBatch : r[2] < observed[r[1]]

\* The offsets about to be committed stay below the watermark.
OffsetsInv == \A p \in Partitions : offsets[p] <= observed[p]

\* Items process_batch has passed are in the transaction or dead-lettered;
\* items an evacuation has passed are dead-lettered.
ItemsInv ==
    /\ pc = "items" =>
          \A j \in 1 .. Len(batch) : j < i => batch[j] \in written \cup dlq \cup dropped
    /\ pc \in {"evac", "panic"} =>
          \A j \in 1 .. Len(batch) : j < i => batch[j] \in dlq \cup dropped

\* A session that never bound a connection has written nothing, no transaction
\* is open outside process_batch, and a finished batch left its index reset.
SessionInv ==
    /\ session = "unbound" => written = {}
    /\ pc # "items" => written = {}
    /\ pc \in {"loop", "poll", "flush", "stale"} => i = 1

\* Once process_batch returned its offsets the whole batch is settled.
ReturnedInv == pc \in {"commit", "drainCommit"} => InBatch \subseteq Settled

\* What has a trace came from the log.
TraceInv == \A r \in Settled \cup written : r[2] < Len(log[r[1]])

ProgressInv == CommittedInv /\ PositionInv /\ ObservedInv /\ BatchInv
WorkInv == OffsetsInv /\ ItemsInv /\ SessionInv /\ ReturnedInv
IInv == TypeOK /\ ProgressInv /\ WorkInv /\ TraceInv

-----------------------------------------------------------------------------
LEMMA NoOffsetsType == NoOffsets \in OffsetMap
  BY DEF NoOffsets, OffsetMap

LEMMA InitType == Init => TypeOK
  <1>1. Init => FlagsOK
    BY DEF Init, FlagsOK
  <1> QED
    BY <1>1, SinkAssumption, NoOffsetsType DEF Init, TypeOK

\* Dictionary updates keep their type.
LEMMA UpdatedType ==
    ASSUME NEW new \in OffsetMap, NEW P
    PROVE  /\ \A old \in OffsetMap : Updated(old, new, P) \in OffsetMap
           /\ \A old \in [Partitions -> Nat] : Updated(old, new, P) \in [Partitions -> Nat]
  BY DEF Updated, OffsetMap

\* Appending to the batch.
LEMMA AppendFacts ==
    ASSUME NEW s \in Seq(Records), NEW r \in Records
    PROVE  /\ Append(s, r) \in Seq(Records)
           /\ {Append(s, r)[j] : j \in DOMAIN Append(s, r)} = {s[j] : j \in DOMAIN s} \cup {r}
  <1>1. Append(s, r) \in Seq(Records)
    OBVIOUS
  <1>2. /\ DOMAIN Append(s, r) = 1 .. (Len(s) + 1) /\ DOMAIN s = 1 .. Len(s) /\ Len(s) \in Nat
        /\ \A j \in 1 .. Len(s) : Append(s, r)[j] = s[j]
        /\ Append(s, r)[Len(s) + 1] = r
    OBVIOUS
  <1>3. \A j \in DOMAIN Append(s, r) : j \in DOMAIN s \/ j = Len(s) + 1
    BY <1>2
  <1>4. DOMAIN s \subseteq DOMAIN Append(s, r) /\ Len(s) + 1 \in DOMAIN Append(s, r)
    BY <1>2
  <1> QED
    BY <1>1, <1>2, <1>3, <1>4

LEMMA PolledRecord ==
    ASSUME TypeOK, NEW p \in Partitions, PollRecord(p)
    PROVE  /\ <<p, position[p]>> \in Records
           /\ \/ dropped' = dropped \cup {<<p, position[p]>>} /\ batch' = batch
              \/ batch' = Append(batch, <<p, position[p]>>) /\ dropped' = dropped
  <1>1. <<p, position[p]>> \in Records
    BY DEF TypeOK, Records
  <1> QED
    BY <1>1 DEF PollRecord

LEMMA BrokerCommitType ==
    ASSUME TypeOK, NEW m \in OffsetMap, BrokerCommit(m) \/ BrokerCommitFails(m)
    PROVE  committed' \in [Partitions -> Nat]
  <1>1. PICK P : committed' = Updated(committed, m, P)
    BY DEF BrokerCommit, BrokerCommitFails
  <1> QED
    BY <1>1, UpdatedType DEF TypeOK

\* The Boolean locals, which the steps only copy or set to a constant.
LEMMA NextFlags == TypeOK /\ [Next]_vars => FlagsOK'
  <1> USE DEF FlagsOK
  <1>1. ASSUME FlagsOK, [Environment \/ Restart]_vars PROVE FlagsOK'
    BY <1>1 DEF Environment, Produce, Tick, Sigterm, Crash, Restart, FreshProcess, Rewind,
       vars, world, loopVars
  <1>2. ASSUME FlagsOK, ProcessBatch PROVE FlagsOK'
    BY <1>2 DEF ProcessBatch, ItemStored, ItemFailed, NextItem, DbCommitOk, DbCommitFail,
       loopVars
  <1>3. ASSUME FlagsOK, RunSink, ~ProcessBatch PROVE FlagsOK'
    BY <1>3 DEF RunSink, LoopHead, PollRecord, PollEnd, Flush, CommitOk, CommitFail,
       EvacWrite, EvacCommitOk, EvacCommitFail, EvacDone, ClearBatch, StaleSkip,
       StaleCommitOk, StaleCommitFail, Drain, DrainCommit, loopVars
  <1> QED
    BY <1>1, <1>2, <1>3 DEF Next, TypeOK

LEMMA ItemType ==
    ASSUME TypeOK, i <= Len(batch)
    PROVE  /\ Item \in Records /\ Item[1] \in Partitions /\ Item[2] \in Nat
           /\ OffsetsWithItem \in OffsetMap
  <1>1. Item \in Records
    BY DEF TypeOK, Item
  <1>2. Item[1] \in Partitions /\ Item[2] \in Nat
    BY <1>1 DEF Records
  <1>3. offsets \in OffsetMap
    BY DEF TypeOK
  <1>4. OffsetsWithItem \in OffsetMap
    BY <1>2, <1>3 DEF OffsetsWithItem, OffsetMap, Larger
  <1> QED
    BY <1>1, <1>2, <1>4

LEMMA StaleOffsetsType == TypeOK => StaleOffsets \in OffsetMap
  BY DEF TypeOK, StaleOffsets, StaleTps, OffsetMap

LEMMA NextType == TypeOK /\ [Next]_vars => TypeOK'
  <1> SUFFICES ASSUME TypeOK, [Next]_vars PROVE TypeOK'
    OBVIOUS
  <1> USE SinkAssumption
  <1>f. FlagsOK'
    BY NextFlags
  <1>0. CASE UNCHANGED vars
    BY <1>f, <1>0 DEF vars, world, loopVars, txnVars, bounds, TypeOK
  <1>1. ASSUME NEW p \in Partitions, NEW m \in Payloads, Produce(p, m) PROVE TypeOK'
    BY <1>f, <1>1 DEF Produce, TypeOK, loopVars, txnVars, bounds
  <1>2. CASE Tick
    BY <1>f, <1>2 DEF Tick, TypeOK, world, txnVars, bounds
  <1>3. CASE Sigterm
    BY <1>f, <1>3 DEF Sigterm, TypeOK, world, txnVars, bounds
  <1>4. CASE Crash
    BY <1>f, <1>4, NoOffsetsType DEF Crash, FreshProcess, ResumePosition, TypeOK, world, bounds
  <1>5. CASE Restart
    BY <1>f, <1>5, NoOffsetsType DEF Restart, FreshProcess, ResumePosition, TypeOK, world
  <1>6. ASSUME NEW p \in Partitions, Rewind(p) PROVE TypeOK'
    BY <1>f, <1>6 DEF Rewind, TypeOK, world, txnVars
  <1>7. ASSUME NEW p \in Partitions, PollRecord(p) PROVE TypeOK'
    <2>1. position' \in [Partitions -> Nat]
      BY <1>7 DEF PollRecord, TypeOK
    <2>2. observed' \in OffsetMap
      BY <1>7 DEF PollRecord, TypeOK, OffsetMap, Larger
    <2>3. dropped' \subseteq Records /\ batch' \in Seq(Records)
      <3> DEFINE r == <<p, position[p]>>
      <3>1. batch \in Seq(Records) /\ dropped \subseteq Records
        BY DEF TypeOK
      <3>2. r \in Records /\ Append(batch, r) \in Seq(Records)
        BY <1>7, <3>1, PolledRecord, AppendFacts
      <3>3. \/ dropped' = dropped \cup {r} /\ batch' = batch
            \/ batch' = Append(batch, r) /\ dropped' = dropped
        BY <1>7, PolledRecord
      <3> HIDE DEF r
      <3> QED
        BY <3>1, <3>2, <3>3
    <2> QED
      BY <1>f, <1>7, <2>1, <2>2, <2>3 DEF PollRecord, TypeOK, txnVars, bounds
  <1>8. CASE LoopHead
    BY <1>f, <1>8 DEF LoopHead, TypeOK, world, txnVars, bounds
  <1>9. CASE PollEnd
    BY <1>f, <1>9 DEF PollEnd, TypeOK, world, loopVars, txnVars, bounds
  <1>10. CASE Flush
    BY <1>f, <1>10, NoOffsetsType DEF Flush, BeginBatch, TypeOK, world, loopVars, txnVars, bounds
  <1>11. CASE ItemStored
    <2>1. Item \in Records /\ offsets' \in OffsetMap
      BY <1>11, ItemType DEF ItemStored, NextItem
    <2>2. view' \in [AlertIds -> Records \cup {NoRow}] /\ written' \subseteq Records
      BY <1>11, <2>1 DEF ItemStored, Upsert, TypeOK
    <2> QED
      BY <1>f, <1>11, <2>1, <2>2 DEF ItemStored, NextItem, TypeOK, loopVars, bounds
  <1>12. CASE ItemFailed
    <2>1. Item \in Records /\ offsets' \in OffsetMap
      BY <1>12, ItemType DEF ItemFailed, NextItem
    <2>2. dlq' \subseteq Records /\ dropped' \subseteq Records
      BY <1>12, <2>1 DEF ItemFailed, DeadLetter, TypeOK
    <2>3. session' \in {"unbound", "bound", "broken"}
      BY <1>12 DEF ItemFailed, TypeOK
    <2> QED
      BY <1>f, <1>12, <2>1, <2>2, <2>3 DEF ItemFailed, NextItem, TypeOK, loopVars, bounds
  <1>13. CASE DbCommitOk
    BY <1>f, <1>13 DEF DbCommitOk, TypeOK, bounds
  <1>14. CASE DbCommitFail
    BY <1>f, <1>14, NoOffsetsType DEF DbCommitFail, AfterDbFailure, AfterFailure, TypeOK, bounds
  <1>15. CASE CommitOk
    <2>1. committed' \in [Partitions -> Nat] /\ lastCommitted' \in OffsetMap
      BY <1>15, UpdatedType, BrokerCommitType DEF CommitOk, TypeOK
    <2> QED
      BY <1>f, <1>15, <2>1, NoOffsetsType DEF CommitOk, ClearBatch, Forget, TypeOK, bounds
  <1>16. CASE CommitFail
    BY <1>f, <1>16, UpdatedType, BrokerCommitType, NoOffsetsType DEF CommitFail, Forget, AfterFailure, TypeOK, txnVars, bounds
  <1>17. CASE EvacWrite
    BY <1>f, <1>17, ItemType DEF EvacWrite, DeadLetter, TypeOK, loopVars, bounds
  <1>18. CASE EvacCommitOk
    <2>1. committed' \in [Partitions -> Nat] /\ lastCommitted' \in OffsetMap
      BY <1>18, UpdatedType, BrokerCommitType DEF EvacCommitOk, TypeOK
    <2> QED
      BY <1>f, <1>18, <2>1, NoOffsetsType DEF EvacCommitOk, EvacDone, ClearBatch, Forget, TypeOK, bounds
  <1>19. CASE EvacCommitFail
    BY <1>f, <1>19, UpdatedType, BrokerCommitType, NoOffsetsType DEF EvacCommitFail, EvacDone, ClearBatch, Forget, TypeOK, bounds
  <1>20. CASE StaleSkip
    BY <1>f, <1>20 DEF StaleSkip, TypeOK, world, loopVars, txnVars, bounds
  <1>21. CASE StaleCommitOk
    BY <1>f, <1>21, UpdatedType, BrokerCommitType, StaleOffsetsType DEF StaleCommitOk, TypeOK, txnVars, bounds
  <1>22. CASE StaleCommitFail
    BY <1>f, <1>22, UpdatedType, BrokerCommitType, StaleOffsetsType DEF StaleCommitFail, TypeOK, loopVars, txnVars, bounds
  <1>23. CASE Drain
    BY <1>f, <1>23, NoOffsetsType DEF Drain, BeginBatch, TypeOK, world, txnVars, bounds
  <1>24. CASE DrainCommit
    BY <1>f, <1>24, UpdatedType, BrokerCommitType, NoOffsetsType DEF DrainCommit, Forget, TypeOK, loopVars, bounds
  <1> QED
    BY <1>0, <1>1, <1>2, <1>3, <1>4, <1>5, <1>6, <1>7, <1>8, <1>9, <1>10, <1>11, <1>12,
       <1>13, <1>14, <1>15, <1>16, <1>17, <1>18, <1>19, <1>20, <1>21, <1>22, <1>23, <1>24
    DEF Next, Environment, RunSink, ProcessBatch

\* The sink's state has its type in every reachable state.
THEOREM SinkType == Spec => []TypeOK
  BY InitType, NextType, PTL DEF Spec

-----------------------------------------------------------------------------
(***************************************************************************)
(* The bound on the retained batch.  It is not inductive: what a poll may  *)
(* still append depends on how many records it has appended.               *)
(***************************************************************************)
RoomInv ==
    /\ BatchBounded
    /\ pc = "poll" => Len(batch) < MaxBatchSize + polled

LEMMA InitRoom == Init => RoomInv
  BY SinkAssumption DEF Init, RoomInv, BatchBounded

LEMMA NextRoom == TypeOK /\ RoomInv /\ [Next]_vars => RoomInv'
  <1> SUFFICES ASSUME TypeOK, RoomInv, [Next]_vars PROVE RoomInv'
    OBVIOUS
  <1> USE SinkAssumption
  <1>t. batch \in Seq(Records) /\ Len(batch) \in Nat /\ polled \in Nat /\ polled <= MaxPollRecords
    BY DEF TypeOK
  <1>s. ASSUME UNCHANGED <<batch, pc, polled>> PROVE RoomInv'
    BY <1>s DEF RoomInv, BatchBounded
  <1>k. ASSUME batch' = batch \/ batch' = <<>>, pc' # "poll" PROVE RoomInv'
    BY <1>k DEF RoomInv, BatchBounded
  <1>1. CASE UNCHANGED vars
    BY <1>1, <1>s DEF vars, loopVars
  <1>2. CASE Environment
    <2>1. CASE Crash
      BY <2>1, <1>k DEF Crash, FreshProcess
    <2>2. CASE ~Crash
      BY <1>2, <2>2, <1>s DEF Environment, Produce, Tick, Sigterm, Rewind, loopVars
    <2> QED
      BY <2>1, <2>2
  <1>3. CASE Restart
    BY <1>3, <1>k DEF Restart, FreshProcess
  <1>4. CASE LoopHead
    BY <1>4, <1>t DEF LoopHead, PollDue, RoomInv, BatchBounded
  <1>5. ASSUME NEW p \in Partitions, PollRecord(p) PROVE RoomInv'
    <2>1. pc = "poll" /\ pc' = pc /\ polled' = polled + 1 /\ polled + 1 <= MaxPollRecords
      BY <1>5, <1>t DEF PollRecord
    <2>2. Len(batch') <= Len(batch) + 1 /\ Len(batch') \in Nat
      <3>1. PICK r \in Records : batch' = batch \/ batch' = Append(batch, r)
        BY <1>5, PolledRecord
      <3>2. Len(Append(batch, r)) = Len(batch) + 1
        BY <1>t
      <3> QED
        BY <1>t, <3>1, <3>2
    <2> QED
      BY <1>t, <2>1, <2>2 DEF RoomInv, BatchBounded
  <1>6. CASE PollEnd \/ Flush \/ ProcessBatch
    <2>1. UNCHANGED batch
      BY <1>6 DEF PollEnd, Flush, ProcessBatch, ItemStored, ItemFailed, NextItem, DbCommitOk,
         DbCommitFail, loopVars
    <2>2. pc' # "poll"
      BY <1>6 DEF PollEnd, Flush, ProcessBatch, ItemStored, ItemFailed, NextItem, DbCommitOk,
         DbCommitFail, AfterDbFailure, AfterFailure
    <2> QED
      BY <2>1, <2>2, <1>k
  <1>7. CASE CommitOk \/ CommitFail \/ EvacWrite \/ EvacCommitOk \/ EvacCommitFail
    <2>1. batch' = batch \/ batch' = <<>>
      BY <1>7 DEF CommitOk, CommitFail, EvacWrite, EvacCommitOk, EvacCommitFail, EvacDone,
         ClearBatch, loopVars
    <2>2. pc' # "poll"
      BY <1>7 DEF CommitOk, CommitFail, EvacWrite, EvacCommitOk, EvacCommitFail, EvacDone,
         AfterFailure
    <2> QED
      BY <2>1, <2>2, <1>k
  <1>8. CASE StaleSkip \/ StaleCommitOk \/ StaleCommitFail \/ Drain \/ DrainCommit
    <2>1. UNCHANGED batch /\ pc' # "poll"
      BY <1>8 DEF StaleSkip, StaleCommitOk, StaleCommitFail, Drain, DrainCommit, loopVars
    <2> QED
      BY <2>1, <1>k
  <1> QED
    BY <1>1, <1>2, <1>3, <1>4, <1>5, <1>6, <1>7, <1>8 DEF Next, RunSink

\* The retained batch never holds as much as a full batch and a whole poll
\* more: failing flushes and rebalances cannot make run_sink's memory grow.
THEOREM SinkBatchBounded == Spec => []BatchBounded
  <1>1. RoomInv => BatchBounded
    BY DEF RoomInv
  <1> QED
    BY <1>1, InitRoom, NextRoom, InitType, NextType, PTL DEF Spec

-----------------------------------------------------------------------------
(***************************************************************************)
(* How the pieces of a step preserve the progress part of the invariant.   *)
(***************************************************************************)
\* A trace is never taken back.
LEMMA TracesGrow ==
    ASSUME TypeOK, [Next]_vars
    PROVE  stored \subseteq stored' /\ dlq \subseteq dlq' /\ dropped \subseteq dropped'
  <1>1. CASE UNCHANGED vars
    BY <1>1 DEF vars, world
  <1>2. CASE Environment \/ Restart
    BY <1>2 DEF Environment, Produce, Tick, Sigterm, Crash, Restart, Rewind, world
  <1>3. CASE ProcessBatch
    BY <1>3 DEF ProcessBatch, ItemStored, ItemFailed, NextItem, DeadLetter, DbCommitOk,
       DbCommitFail
  <1>4. ASSUME NEW p \in Partitions, PollRecord(p)
        PROVE  stored \subseteq stored' /\ dlq \subseteq dlq' /\ dropped \subseteq dropped'
    BY <1>4 DEF PollRecord
  <1>5. CASE LoopHead \/ PollEnd \/ Flush \/ CommitOk \/ CommitFail \/ Drain \/ DrainCommit
    BY <1>5 DEF LoopHead, PollEnd, Flush, CommitOk, CommitFail, Drain, DrainCommit, world
  <1>6. CASE EvacWrite \/ EvacCommitOk \/ EvacCommitFail
    BY <1>6 DEF EvacWrite, DeadLetter, EvacCommitOk, EvacCommitFail, EvacDone
  <1>7. CASE StaleSkip \/ StaleCommitOk \/ StaleCommitFail
    BY <1>7 DEF StaleSkip, StaleCommitOk, StaleCommitFail, world
  <1> QED
    BY <1>1, <1>2, <1>3, <1>4, <1>5, <1>6, <1>7 DEF Next, RunSink

LEMMA SettledGrows == TypeOK /\ [Next]_vars => Settled \subseteq Settled'
  BY TracesGrow DEF Settled

\* A step that leaves the consumer's places and the batch alone.
LEMMA ProgressFrame ==
    ASSUME TypeOK, ProgressInv, Settled \subseteq Settled',
           UNCHANGED <<log, committed, position, observed, batch>>
    PROVE  ProgressInv'
  BY DEF ProgressInv, CommittedInv, PositionInv, ObservedInv, BatchInv, Covered, InBatch

\* Committing offsets at or below the watermark when the batch is settled.
LEMMA CommitSafe ==
    ASSUME TypeOK, ProgressInv, NEW m \in OffsetMap,
           \A p \in Partitions : m[p] <= observed[p],
           InBatch \subseteq Settled,
           BrokerCommit(m) \/ BrokerCommitFails(m),
           Settled \subseteq Settled', UNCHANGED log
    PROVE  CommittedInv'
  <1>1. PICK P : committed' = Updated(committed, m, P)
    BY DEF BrokerCommit, BrokerCommitFails
  <1>2. ASSUME NEW p \in Partitions
        PROVE  /\ committed'[p] <= Len(log[p])
               /\ \A o \in Nat : o < committed'[p] => <<p, o>> \in Settled
    <2>1. committed'[p] = m[p] \/ committed'[p] = committed[p]
      BY <1>1 DEF Updated
    <2>2. m[p] \in Int /\ observed[p] \in Int /\ Len(log[p]) \in Nat
      BY DEF TypeOK, OffsetMap
    <2>3. /\ observed[p] <= Len(log[p])
          /\ \A o \in Nat : o < observed[p] => <<p, o>> \in Settled
      BY DEF ProgressInv, ObservedInv, Covered
    <2>4. m[p] <= observed[p]
      OBVIOUS
    <2>5. CASE committed'[p] = m[p]
      BY <2>5, <2>2, <2>3, <2>4
    <2>6. CASE committed'[p] = committed[p]
      BY <2>6 DEF ProgressInv, CommittedInv
    <2> QED
      BY <2>1, <2>5, <2>6
  <1> QED
    BY <1>2 DEF CommittedInv

\* Such a commit, the batch kept or cleared.
LEMMA ProgressCommit ==
    ASSUME TypeOK, ProgressInv, NEW m \in OffsetMap,
           \A p \in Partitions : m[p] <= observed[p],
           InBatch \subseteq Settled,
           BrokerCommit(m) \/ BrokerCommitFails(m),
           Settled \subseteq Settled', UNCHANGED <<log, position, observed>>,
           batch' = batch \/ batch' = <<>>
    PROVE  ProgressInv'
  <1>1. CommittedInv'
    BY CommitSafe
  <1>2. Covered \subseteq Covered'
    BY DEF Covered
  <1>3. InBatch' \subseteq InBatch
    BY DEF InBatch
  <1>4. PositionInv' /\ ObservedInv'
    BY <1>2 DEF ProgressInv, PositionInv, ObservedInv
  <1>5. BatchInv'
    BY <1>3 DEF ProgressInv, BatchInv
  <1> QED
    BY <1>1, <1>4, <1>5 DEF ProgressInv

\* A new process starts at the committed offsets with nothing in memory.
LEMMA ProgressFresh ==
    ASSUME TypeOK, ProgressInv, FreshProcess, UNCHANGED <<log, committed>>,
           Settled \subseteq Settled'
    PROVE  ProgressInv'
  <1>1. CommittedInv' /\ PositionInv'
    BY DEF ProgressInv, CommittedInv, PositionInv, FreshProcess, ResumePosition, Covered
  <1>2. InBatch' = {}
    BY DEF FreshProcess, InBatch
  <1>3. ObservedInv'
    BY DEF FreshProcess, ObservedInv, NoOffsets, TypeOK
  <1> QED
    BY <1>1, <1>2, <1>3 DEF ProgressInv, BatchInv

\* A record that arrives disturbs no place below the log's end.
LEMMA ProgressProduce ==
    ASSUME TypeOK, ProgressInv, NEW p \in Partitions, NEW m \in Payloads, Produce(p, m)
    PROVE  ProgressInv'
  <1>1. \A q \in Partitions : Len(log[q]) \in Nat /\ Len(log'[q]) \in Nat
                              /\ Len(log[q]) <= Len(log'[q])
    BY DEF Produce, TypeOK
  <1>2. Settled' = Settled /\ InBatch' = InBatch /\ UNCHANGED <<committed, position, observed>>
    BY DEF Produce, loopVars, Settled, InBatch
  <1>3. \A q \in Partitions : committed[q] \in Int /\ position[q] \in Int /\ observed[q] \in Int
    BY DEF TypeOK, OffsetMap
  <1>4. CommittedInv'
    <2>1. CommittedInv
      BY DEF ProgressInv
    <2> QED
      BY <1>1, <1>2, <1>3, <2>1 DEF CommittedInv
  <1>5. Covered' = Covered
    BY <1>2 DEF Covered
  <1>6. PositionInv'
    <2>1. PositionInv
      BY DEF ProgressInv
    <2> QED
      BY <1>1, <1>2, <1>3, <1>5, <2>1 DEF PositionInv
  <1>7. ObservedInv'
    <2>1. ObservedInv
      BY DEF ProgressInv
    <2> QED
      BY <1>1, <1>2, <1>3, <1>5, <2>1 DEF ObservedInv
  <1>8. BatchInv'
    BY <1>2 DEF ProgressInv, BatchInv
  <1> QED
    BY <1>4, <1>6, <1>7, <1>8 DEF ProgressInv

LEMMA ProgressRewind ==
    ASSUME TypeOK, ProgressInv, NEW p \in Partitions, Rewind(p)
    PROVE  ProgressInv'
  <1>1. /\ Settled' = Settled /\ InBatch' = InBatch
        /\ UNCHANGED <<log, committed, observed>>
        /\ position' = [position EXCEPT ![p] = committed[p]]
    BY DEF Rewind, world, Settled, InBatch
  <1>2. \A q \in Partitions : position'[q] = position[q] \/ position'[q] = committed[q]
    BY <1>1 DEF TypeOK
  <1>3. PositionInv'
    BY <1>1, <1>2 DEF ProgressInv, CommittedInv, PositionInv, Covered
  <1> QED
    BY <1>1, <1>3 DEF ProgressInv, CommittedInv, ObservedInv, BatchInv, Covered

LEMMA ProgressPoll ==
    ASSUME TypeOK, ProgressInv, NEW p \in Partitions, PollRecord(p),
           Settled \subseteq Settled'
    PROVE  ProgressInv' /\ (\A q \in Partitions : observed[q] <= observed'[q])
  <1> DEFINE r == <<p, position[p]>>
  <1>1. r \in Records /\ r[1] = p /\ r[2] = position[p]
    BY PolledRecord
  <1>2. /\ \/ r \in Settled' /\ batch' = batch
           \/ batch' = Append(batch, r)
    BY PolledRecord DEF Settled
  <1>3. batch \in Seq(Records)
    BY DEF TypeOK
  <1>4. r \in Covered' /\ InBatch \subseteq InBatch' /\ InBatch' \subseteq InBatch \cup {r}
    <2> HIDE DEF r
    <2> QED
      BY <1>1, <1>2, <1>3, AppendFacts DEF Covered, InBatch
  <1>5. Covered \subseteq Covered'
    BY <1>4 DEF Covered
  <1>6. /\ position' = [position EXCEPT ![p] = position[p] + 1]
        /\ observed' = [observed EXCEPT ![p] = Larger(observed[p], position[p] + 1)]
        /\ position[p] < Len(log[p])
        /\ UNCHANGED <<log, committed>>
    BY DEF PollRecord
  <1>7. \A q \in Partitions : /\ position[q] \in Nat /\ observed[q] \in Int
                              /\ committed[q] \in Nat /\ Len(log[q]) \in Nat
    BY DEF TypeOK, OffsetMap
  <1>8. \A q \in Partitions :
           /\ q # p => position'[q] = position[q] /\ observed'[q] = observed[q]
           /\ position'[p] = position[p] + 1
           /\ observed'[p] = observed[p] \/ observed'[p] = position[p] + 1
           /\ observed[q] <= observed'[q]
           /\ position[p] < observed'[p]
    BY <1>6, <1>7 DEF TypeOK, OffsetMap, Larger
  <1>9. CommittedInv'
    BY <1>6 DEF ProgressInv, CommittedInv
  <1>10. \A o \in Nat : o < position[p] + 1 => <<p, o>> \in Covered'
    <2> SUFFICES ASSUME NEW o \in Nat, o < position[p] + 1 PROVE <<p, o>> \in Covered'
      OBVIOUS
    <2>1. CASE o = position[p]
      BY <2>1, <1>4
    <2>2. CASE o < position[p]
      BY <2>2, <1>5 DEF ProgressInv, PositionInv
    <2> QED
      BY <2>1, <2>2, <1>7
  <1>11. PositionInv'
    BY <1>5, <1>6, <1>7, <1>8, <1>10 DEF ProgressInv, PositionInv
  <1>12. ObservedInv'
    BY <1>5, <1>6, <1>7, <1>8, <1>10 DEF ProgressInv, ObservedInv
  <1>13. BatchInv'
    <2> SUFFICES ASSUME NEW x \in InBatch' PROVE x[2] < observed'[x[1]]
      BY DEF BatchInv
    <2>1. CASE x = r
      BY <2>1, <1>1, <1>8
    <2>2. CASE x \in InBatch
      <3>1. x[2] < observed[x[1]] /\ x \in Records
        BY <2>2, <1>3 DEF ProgressInv, BatchInv, InBatch
      <3>2. x[2] \in Nat /\ x[1] \in Partitions
        BY <3>1 DEF Records
      <3>3. observed[x[1]] <= observed'[x[1]] /\ observed[x[1]] \in Int /\ observed'[x[1]] \in Int
        BY <3>2, <1>7, <1>8
      <3> QED
        BY <3>1, <3>2, <3>3
    <2> QED
      BY <2>1, <2>2, <1>4
  <1> QED
    BY <1>8, <1>9, <1>11, <1>12, <1>13 DEF ProgressInv

-----------------------------------------------------------------------------
LEMMA NextProgress == IInv /\ [Next]_vars => ProgressInv'
  <1> SUFFICES ASSUME IInv, [Next]_vars PROVE ProgressInv'
    OBVIOUS
  <1>s. Settled \subseteq Settled'
    BY SettledGrows DEF IInv
  <1>t. TypeOK /\ ProgressInv
    BY DEF IInv
  <1>o. offsets \in OffsetMap /\ (\A p \in Partitions : offsets[p] <= observed[p])
    BY DEF IInv, TypeOK, WorkInv, OffsetsInv
  <1>0. CASE UNCHANGED vars
    BY <1>0, <1>s, <1>t, ProgressFrame DEF vars, world, loopVars
  <1>1. ASSUME NEW p \in Partitions, NEW m \in Payloads, Produce(p, m) PROVE ProgressInv'
    BY <1>1, <1>t, ProgressProduce
  <1>2. CASE Tick \/ Sigterm
    BY <1>2, <1>s, <1>t, ProgressFrame DEF Tick, Sigterm, world
  <1>3. CASE Crash \/ Restart
    BY <1>3, <1>s, <1>t, ProgressFresh DEF Crash, Restart, world
  <1>4. ASSUME NEW p \in Partitions, Rewind(p) PROVE ProgressInv'
    BY <1>4, <1>t, ProgressRewind
  <1>5. ASSUME NEW p \in Partitions, PollRecord(p) PROVE ProgressInv'
    BY <1>5, <1>s, <1>t, ProgressPoll
  <1>6. CASE LoopHead \/ PollEnd \/ Flush \/ Drain \/ StaleSkip
    BY <1>6, <1>s, <1>t, ProgressFrame
    DEF LoopHead, PollEnd, Flush, Drain, StaleSkip, world, loopVars
  <1>7. CASE ProcessBatch
    BY <1>7, <1>s, <1>t, ProgressFrame
    DEF ProcessBatch, ItemStored, ItemFailed, NextItem, DbCommitOk, DbCommitFail, loopVars
  <1>8. CASE EvacWrite
    BY <1>8, <1>s, <1>t, ProgressFrame DEF EvacWrite, loopVars
  <1>9. CASE CommitOk \/ CommitFail \/ DrainCommit
    <2>1. InBatch \subseteq Settled
      BY <1>9 DEF IInv, WorkInv, ReturnedInv, CommitOk, CommitFail, DrainCommit
    <2>2. /\ BrokerCommit(offsets) \/ BrokerCommitFails(offsets)
          /\ UNCHANGED <<log, position, observed>>
          /\ batch' = batch \/ batch' = <<>>
      BY <1>9 DEF CommitOk, CommitFail, DrainCommit, ClearBatch, loopVars
    <2> QED
      BY <2>1, <2>2, <1>s, <1>t, <1>o, ProgressCommit
  <1>10. CASE EvacCommitOk \/ EvacCommitFail
    <2>1. InBatch \subseteq Settled
      <3>1. pc \in {"evac", "panic"} /\ i > Len(batch) /\ i \in Nat /\ Len(batch) \in Nat
            /\ DOMAIN batch = 1 .. Len(batch)
        BY <1>10, <1>t DEF EvacCommitOk, EvacCommitFail, EvacDone, TypeOK
      <3>2. \A j \in 1 .. Len(batch) : batch[j] \in dlq \cup dropped
        BY <3>1 DEF IInv, WorkInv, ItemsInv
      <3> QED
        BY <3>1, <3>2 DEF InBatch, Settled
    <2>2. /\ BrokerCommit(offsets) \/ BrokerCommitFails(offsets)
          /\ UNCHANGED <<log, position, observed>>
          /\ batch' = <<>>
      BY <1>10 DEF EvacCommitOk, EvacCommitFail, EvacDone, ClearBatch
    <2> QED
      BY <2>1, <2>2, <1>s, <1>t, <1>o, ProgressCommit
  <1>11. CASE StaleCommitOk \/ StaleCommitFail
    <2>1. InBatch \subseteq Settled
      BY <1>11 DEF StaleCommitOk, StaleCommitFail, StaleDue, InBatch
    <2>2. /\ BrokerCommit(StaleOffsets) \/ BrokerCommitFails(StaleOffsets)
          /\ UNCHANGED <<log, position, observed, batch>>
      BY <1>11 DEF StaleCommitOk, StaleCommitFail, loopVars
    <2>3. StaleOffsets \in OffsetMap /\ \A p \in Partitions : StaleOffsets[p] <= observed[p]
      <3>1. observed \in OffsetMap
        BY <1>t DEF TypeOK
      <3> QED
        BY <1>t, <3>1, StaleOffsetsType DEF StaleOffsets, OffsetMap
    <2> QED
      BY <2>1, <2>2, <2>3, <1>s, <1>t, ProgressCommit
  <1> QED
    BY <1>0, <1>1, <1>2, <1>3, <1>4, <1>5, <1>6, <1>7, <1>8, <1>9, <1>10, <1>11
    DEF Next, Environment, RunSink

LEMMA NextOffsets == IInv /\ [Next]_vars => OffsetsInv'
  <1> SUFFICES ASSUME IInv, [Next]_vars PROVE OffsetsInv'
    OBVIOUS
  <1>t. TypeOK /\ OffsetsInv /\ ProgressInv
    BY DEF IInv, WorkInv
  <1>u. \A p \in Partitions : offsets[p] \in Int /\ observed[p] \in Int /\ observed[p] >= -1
    BY <1>t DEF TypeOK, OffsetMap
  \* Nothing in hand, the watermark unchanged or at its start.
  <1>n. ASSUME offsets' = NoOffsets, observed' = observed \/ observed' = NoOffsets
        PROVE  OffsetsInv'
    BY <1>n, <1>u DEF OffsetsInv, NoOffsets
  <1>f. ASSUME offsets' = offsets, observed' = observed PROVE OffsetsInv'
    BY <1>f, <1>t DEF OffsetsInv
  <1>i. ASSUME offsets' = OffsetsWithItem, observed' = observed, i <= Len(batch)
        PROVE  OffsetsInv'
    <2>1. Item \in InBatch /\ Item[1] \in Partitions /\ Item[2] \in Nat
      BY <1>i, <1>t, ItemType DEF Item, InBatch, TypeOK
    <2>2. Item[2] < observed[Item[1]]
      BY <2>1, <1>t DEF ProgressInv, BatchInv
    <2> QED
      BY <1>i, <1>t, <1>u, <2>1, <2>2 DEF OffsetsInv, OffsetsWithItem, Larger, TypeOK, OffsetMap
  <1>0. CASE UNCHANGED vars
    BY <1>0, <1>f DEF vars, txnVars, loopVars
  <1>1. CASE Environment
    BY <1>1, <1>f, <1>n DEF Environment, Produce, Tick, Sigterm, Crash, FreshProcess, Rewind,
       txnVars, loopVars
  <1>2. CASE Restart
    BY <1>2, <1>n DEF Restart, FreshProcess
  <1>3. ASSUME NEW p \in Partitions, PollRecord(p) PROVE OffsetsInv'
    <2>1. TypeOK' /\ offsets' = offsets
      BY <1>3, <1>t, NextType DEF PollRecord, txnVars
    <2>2. Settled \subseteq Settled'
      BY <1>t, SettledGrows
    <2>3. \A q \in Partitions : observed[q] <= observed'[q]
      BY <1>3, <1>t, <2>2, ProgressPoll
    <2>4. \A q \in Partitions : observed'[q] \in Int
      BY <2>1 DEF TypeOK, OffsetMap
    <2> QED
      BY <1>t, <1>u, <2>1, <2>3, <2>4 DEF OffsetsInv
  <1>4. CASE ItemStored \/ ItemFailed \/ EvacWrite
    BY <1>4, <1>i DEF ItemStored, ItemFailed, NextItem, EvacWrite, loopVars
  <1>5. CASE DbCommitOk \/ DbCommitFail \/ CommitOk \/ CommitFail
    BY <1>5, <1>f, <1>n DEF DbCommitOk, DbCommitFail, CommitOk, CommitFail, Forget, txnVars
  <1>6. CASE LoopHead \/ PollEnd \/ Flush \/ Drain \/ DrainCommit
    BY <1>6, <1>f, <1>n DEF LoopHead, PollEnd, Flush, Drain, DrainCommit, BeginBatch, Forget,
       txnVars, loopVars
  <1>7. CASE EvacCommitOk \/ EvacCommitFail
    BY <1>7, <1>n DEF EvacCommitOk, EvacCommitFail, EvacDone, Forget
  <1>8. CASE StaleSkip \/ StaleCommitOk \/ StaleCommitFail
    BY <1>8, <1>f DEF StaleSkip, StaleCommitOk, StaleCommitFail, txnVars, loopVars
  <1> QED
    BY <1>0, <1>1, <1>2, <1>3, <1>4, <1>5, <1>6, <1>7, <1>8
    DEF Next, RunSink, ProcessBatch

\* What process_batch and the evacuations have passed is accounted for.
LEMMA NextItems == IInv /\ [Next]_vars => ItemsInv' /\ SessionInv'
  <1> SUFFICES ASSUME IInv, [Next]_vars PROVE ItemsInv' /\ SessionInv'
    OBVIOUS
  <1>t. TypeOK /\ ItemsInv /\ SessionInv
    BY DEF IInv, WorkInv
  <1>u. i \in Nat /\ Len(batch) \in Nat
    BY <1>t DEF TypeOK
  \* Nothing has been passed yet, and nothing is written.
  <1>n. ASSUME i' = 1, written' = {} PROVE ItemsInv' /\ SessionInv'
    BY <1>n DEF ItemsInv, SessionInv
  <1>f. ASSUME UNCHANGED <<pc, batch, i, written, session, dlq, dropped>>
        PROVE  ItemsInv' /\ SessionInv'
    BY <1>f, <1>t DEF ItemsInv, SessionInv
  \* Outside process_batch and the evacuations.
  <1>p. ASSUME pc \in {"loop", "poll", "flush", "stale"},
               pc' \notin {"items", "evac"}, UNCHANGED <<i, written, session>>
        PROVE  ItemsInv' /\ SessionInv'
    BY <1>p, <1>t DEF ItemsInv, SessionInv
  <1>0. CASE UNCHANGED vars
    BY <1>0, <1>f DEF vars, world, txnVars, loopVars
  <1>1. CASE Environment \/ Restart
    BY <1>1, <1>f, <1>n DEF Environment, Produce, Tick, Sigterm, Crash, Restart, FreshProcess,
       Rewind, world, txnVars, loopVars
  <1>2. ASSUME NEW p \in Partitions, PollRecord(p) PROVE ItemsInv' /\ SessionInv'
    BY <1>2, <1>p DEF PollRecord, txnVars
  <1>3. CASE LoopHead \/ PollEnd \/ StaleSkip \/ StaleCommitOk \/ StaleCommitFail
    BY <1>3, <1>p DEF LoopHead, PollEnd, StaleSkip, StaleCommitOk, StaleCommitFail, txnVars
  <1>4. CASE Flush \/ Drain
    BY <1>4, <1>p, <1>n DEF Flush, Drain, BeginBatch, txnVars
  <1>5. CASE ItemStored
    <2>1. \A j \in 1 .. Len(batch) : j < i + 1 => batch[j] \in written' \cup dlq \cup dropped
      BY <1>5, <1>t, <1>u DEF ItemStored, NextItem, ItemsInv, Item
    <2> QED
      BY <1>5, <2>1 DEF ItemStored, NextItem, ItemsInv, SessionInv, loopVars
  <1>6. CASE ItemFailed
    <2>1. \A j \in 1 .. Len(batch) : j < i + 1 => batch[j] \in written \cup dlq' \cup dropped'
      BY <1>6, <1>t, <1>u DEF ItemFailed, NextItem, DeadLetter, ItemsInv, Item
    <2> QED
      BY <1>6, <1>t, <2>1 DEF ItemFailed, NextItem, ItemsInv, SessionInv, loopVars
  <1>7. CASE DbCommitOk
    BY <1>7 DEF DbCommitOk, ItemsInv, SessionInv
  <1>8. CASE DbCommitFail
    BY <1>8, <1>n DEF DbCommitFail
  <1>9. CASE EvacWrite
    <2>1. \A j \in 1 .. Len(batch) : j < i + 1 => batch[j] \in dlq' \cup dropped'
      BY <1>9, <1>t, <1>u DEF EvacWrite, DeadLetter, ItemsInv, Item
    <2> QED
      BY <1>9, <1>t, <2>1 DEF EvacWrite, ItemsInv, SessionInv, loopVars
  <1>10. CASE CommitOk \/ CommitFail \/ DrainCommit
    <2>1. pc \in {"commit", "drainCommit"} /\ written = {}
      BY <1>10, <1>t DEF CommitOk, CommitFail, DrainCommit, SessionInv
    <2>2. CASE Forget
      BY <2>1, <2>2, <1>n DEF Forget
    <2>3. CASE UNCHANGED <<pc, txnVars>>
      BY <2>1, <2>3 DEF ItemsInv, SessionInv, txnVars
    <2> QED
      BY <1>10, <2>2, <2>3 DEF CommitOk, CommitFail, DrainCommit
  <1>11. CASE EvacCommitOk \/ EvacCommitFail
    <2>1. written = {}
      BY <1>11, <1>t DEF EvacCommitOk, EvacCommitFail, EvacDone, SessionInv
    <2> QED
      BY <1>11, <2>1, <1>n DEF EvacCommitOk, EvacCommitFail, EvacDone, Forget
  <1> QED
    BY <1>0, <1>1, <1>2, <1>3, <1>4, <1>5, <1>6, <1>7, <1>8, <1>9, <1>10, <1>11
    DEF Next, RunSink, ProcessBatch

\* When process_batch returns its offsets, every item of the batch is settled.
LEMMA NextReturned == IInv /\ [Next]_vars => ReturnedInv'
  <1> SUFFICES ASSUME IInv, [Next]_vars, pc' \in {"commit", "drainCommit"}
               PROVE  InBatch' \subseteq Settled'
    BY DEF ReturnedInv
  <1>s. Settled \subseteq Settled'
    BY SettledGrows DEF IInv
  <1>1. CASE pc' = pc /\ batch' = batch
    BY <1>1, <1>s DEF IInv, WorkInv, ReturnedInv, InBatch
  <1>2. CASE DbCommitOk
    <2>1. pc = "items" /\ i > Len(batch) /\ i \in Nat /\ Len(batch) \in Nat
          /\ DOMAIN batch = 1 .. Len(batch)
      BY <1>2 DEF DbCommitOk, ItemsDone, IInv, TypeOK
    <2>2. \A j \in DOMAIN batch : batch[j] \in written \cup dlq \cup dropped
      BY <2>1 DEF IInv, WorkInv, ItemsInv
    <2>3. stored' = stored \cup written /\ dlq' = dlq /\ dropped' = dropped /\ batch' = batch
      BY <1>2 DEF DbCommitOk
    <2> QED
      BY <2>2, <2>3 DEF InBatch, Settled
  <1>3. DbCommitOk \/ (pc' = pc /\ batch' = batch)
    <2>1. CASE UNCHANGED vars
      BY <2>1 DEF vars, loopVars
    <2>2. CASE Environment \/ Restart
      BY <2>2 DEF Environment, Produce, Tick, Sigterm, Crash, Restart, Rewind, loopVars
    <2>3. CASE ProcessBatch
      BY <2>3 DEF ProcessBatch, ItemStored, ItemFailed, NextItem, DbCommitFail, AfterDbFailure, AfterFailure,
         loopVars
    <2>4. ASSUME NEW p \in Partitions, PollRecord(p) PROVE FALSE
      BY <2>4 DEF PollRecord
    <2>5. CASE LoopHead \/ PollEnd \/ Flush \/ Drain \/ DrainCommit \/ StaleSkip
      BY <2>5 DEF LoopHead, PollEnd, Flush, Drain, DrainCommit, StaleSkip
    <2>6. CASE CommitOk \/ CommitFail \/ StaleCommitOk \/ StaleCommitFail
      BY <2>6 DEF CommitOk, CommitFail, AfterFailure, StaleCommitOk, StaleCommitFail
    <2>7. CASE EvacWrite \/ EvacCommitOk \/ EvacCommitFail
      BY <2>7 DEF EvacWrite, EvacCommitOk, EvacCommitFail, EvacDone, loopVars
    <2> QED
      BY <2>1, <2>2, <2>3, <2>4, <2>5, <2>6, <2>7 DEF Next, RunSink
  <1> QED
    BY <1>1, <1>2, <1>3

\* Every step is one of three kinds, which is all a reader of the three
\* observable facts (log, committed offsets, traces) can tell apart.
LEMMA StepKinds ==
    ASSUME TypeOK, [Next]_vars
    PROVE  \/ \E p \in Partitions, m \in Payloads : Produce(p, m)
           \/ UNCHANGED <<log, committed>>
           \/ UNCHANGED <<log, stored, dlq, dropped, written>>
  <1>1. CASE UNCHANGED vars
    BY <1>1 DEF vars, world
  <1>2. CASE Environment \/ Restart
    BY <1>2 DEF Environment, Tick, Sigterm, Crash, Restart, Rewind, world
  <1>3. CASE ProcessBatch
    BY <1>3 DEF ProcessBatch, ItemStored, ItemFailed, NextItem, DbCommitOk, DbCommitFail
  <1>4. ASSUME NEW p \in Partitions, PollRecord(p) PROVE UNCHANGED <<log, committed>>
    BY <1>4 DEF PollRecord
  <1>5. CASE LoopHead \/ PollEnd \/ Flush \/ Drain \/ StaleSkip \/ EvacWrite
    BY <1>5 DEF LoopHead, PollEnd, Flush, Drain, StaleSkip, EvacWrite, world
  <1>6. CASE CommitOk \/ CommitFail \/ DrainCommit
    BY <1>6 DEF CommitOk, CommitFail, DrainCommit, Forget, txnVars
  <1>7. CASE EvacCommitOk \/ EvacCommitFail \/ StaleCommitOk \/ StaleCommitFail
    BY <1>7 DEF EvacCommitOk, EvacCommitFail, EvacDone, Forget, StaleCommitOk,
       StaleCommitFail, txnVars
  <1> QED
    BY <1>1, <1>2, <1>3, <1>4, <1>5, <1>6, <1>7 DEF Next, RunSink

\* A new trace is one of a record of the batch, of the transaction, or of the
\* record just polled.
LEMMA NewTraces ==
    ASSUME TypeOK, [Next]_vars
    PROVE  \/ Settled' \cup written' \subseteq Settled \cup written \cup InBatch
           \/ \E p \in Partitions : PollRecord(p)
  <1>i. i <= Len(batch) => Item \in InBatch
    BY DEF TypeOK, Item, InBatch
  <1> USE DEF Settled
  <1>1. CASE UNCHANGED vars
    BY <1>1 DEF vars, world, txnVars
  <1>2. CASE Environment \/ Restart
    BY <1>2 DEF Environment, Produce, Tick, Sigterm, Crash, Restart, FreshProcess, Rewind,
       world, txnVars
  <1>3. CASE ItemStored \/ ItemFailed
    BY <1>3, <1>i DEF ItemStored, ItemFailed, NextItem, DeadLetter
  <1>4. CASE DbCommitOk \/ DbCommitFail
    BY <1>4 DEF DbCommitOk, DbCommitFail
  <1>5. CASE LoopHead \/ PollEnd \/ Flush \/ Drain \/ StaleSkip
    BY <1>5 DEF LoopHead, PollEnd, Flush, Drain, StaleSkip, BeginBatch, world, txnVars
  <1>6. CASE EvacWrite
    BY <1>6, <1>i DEF EvacWrite, DeadLetter
  <1>7. CASE CommitOk \/ CommitFail \/ DrainCommit
    BY <1>7 DEF CommitOk, CommitFail, DrainCommit, Forget, txnVars
  <1>8. CASE EvacCommitOk \/ EvacCommitFail \/ StaleCommitOk \/ StaleCommitFail
    BY <1>8 DEF EvacCommitOk, EvacCommitFail, EvacDone, Forget, StaleCommitOk,
       StaleCommitFail, txnVars
  <1> QED
    BY <1>1, <1>2, <1>3, <1>4, <1>5, <1>6, <1>7, <1>8 DEF Next, RunSink, ProcessBatch

LEMMA NextTrace == IInv /\ [Next]_vars => TraceInv'
  <1> SUFFICES ASSUME IInv, [Next]_vars PROVE TraceInv'
    OBVIOUS
  <1>t. TypeOK /\ ProgressInv /\ TraceInv
    BY DEF IInv
  <1>u. \A q \in Partitions : Len(log[q]) \in Nat /\ Len(log'[q]) \in Nat
                              /\ Len(log[q]) <= Len(log'[q])
    <2>1. TypeOK'
      BY <1>t, NextType
    <2>2. CASE UNCHANGED log
      BY <2>2, <1>t DEF TypeOK
    <2>3. ASSUME NEW p \in Partitions, NEW m \in Payloads, Produce(p, m)
          PROVE  \A q \in Partitions : Len(log[q]) <= Len(log'[q])
      BY <2>3, <1>t DEF Produce, TypeOK
    <2>4. \A q \in Partitions : Len(log[q]) <= Len(log'[q])
      <3>1. CASE \E p \in Partitions, m \in Payloads : Produce(p, m)
        BY <3>1, <2>3
      <3>2. CASE UNCHANGED log
        BY <3>2, <2>2
      <3> QED
        BY <1>t, <3>1, <3>2, StepKinds
    <2> QED
      BY <1>t, <2>1, <2>4 DEF TypeOK
  <1>b. \A r \in InBatch : r \in Records /\ r[2] < Len(log[r[1]])
    <2> SUFFICES ASSUME NEW r \in InBatch PROVE r \in Records /\ r[2] < Len(log[r[1]])
      OBVIOUS
    <2>1. r \in Records
      BY <1>t DEF TypeOK, InBatch
    <2>2. r[1] \in Partitions /\ r[2] \in Nat
      BY <2>1 DEF Records
    <2>3. r[2] < observed[r[1]] /\ observed[r[1]] <= Len(log[r[1]])
      BY <2>2, <1>t DEF ProgressInv, BatchInv, ObservedInv
    <2>4. observed[r[1]] \in Int
      BY <2>2, <1>t DEF TypeOK, OffsetMap
    <2> QED
      BY <2>1, <2>2, <2>3, <2>4, <1>u
  <1>1. CASE Settled' \cup written' \subseteq Settled \cup written \cup InBatch
    <2> SUFFICES ASSUME NEW r \in Settled' \cup written' PROVE r[2] < Len(log'[r[1]])
      BY DEF TraceInv
    <2>1. r[2] < Len(log[r[1]]) /\ r \in Records
      BY <1>1, <1>t, <1>b DEF TraceInv, TypeOK, Settled
    <2>2. r[1] \in Partitions /\ r[2] \in Nat
      BY <2>1 DEF Records
    <2> QED
      BY <2>1, <2>2, <1>u
  <1>2. ASSUME NEW p \in Partitions, PollRecord(p) PROVE TraceInv'
    <2> DEFINE x == <<p, position[p]>>
    <2>1. Settled' \cup written' \subseteq Settled \cup written \cup {x}
      BY <1>2 DEF PollRecord, Settled, txnVars
    <2>2. x[1] = p /\ x[2] = position[p] /\ position[p] < Len(log[p]) /\ log' = log
      BY <1>2 DEF PollRecord
    <2> HIDE DEF x
    <2> QED
      BY <2>1, <2>2, <1>t DEF TraceInv
  <1> QED
    BY <1>1, <1>2, <1>t, NewTraces

-----------------------------------------------------------------------------
LEMMA InitInv == Init => IInv
  <1> SUFFICES ASSUME Init PROVE IInv
    OBVIOUS
  <1>1. TypeOK
    BY InitType
  <1>2. Settled = {} /\ InBatch = {} /\ written = {}
    BY DEF Init, Settled, InBatch
  <1>3. \A p \in Partitions : /\ committed[p] = 0 /\ position[p] = 0 /\ observed[p] = -1
                              /\ offsets[p] = -1 /\ Len(log[p]) = 0
    BY DEF Init, NoOffsets
  <1>4. ProgressInv
    BY <1>2, <1>3 DEF ProgressInv, CommittedInv, PositionInv, ObservedInv, BatchInv
  <1>5. WorkInv
    BY <1>2, <1>3 DEF Init, WorkInv, OffsetsInv, ItemsInv, SessionInv, ReturnedInv
  <1> QED
    BY <1>1, <1>2, <1>4, <1>5 DEF IInv, TraceInv

LEMMA NextInv == IInv /\ [Next]_vars => IInv'
  BY NextType, NextProgress, NextOffsets, NextItems, NextReturned, NextTrace DEF IInv, WorkInv

\* The strengthened invariant holds in every reachable state.
THEOREM SinkInvariant == Spec => []IInv
  BY InitInv, NextInv, PTL DEF Spec

\* Every record below a committed offset has a row, a dead-letter entry or an
\* error log line: run_sink never loses a record silently, whatever the sizes,
\* the failures of database and broker, the crashes and the rebalances.
THEOREM SinkNoSilentLoss == Spec => []NoSilentLoss
  <1>1. IInv => NoSilentLoss
    <2> SUFFICES ASSUME IInv, NEW p \in Partitions, NEW o \in 0 .. (committed[p] - 1)
                 PROVE  <<p, o>> \in Settled
      BY DEF NoSilentLoss
    <2>1. committed[p] \in Nat
      BY DEF IInv, TypeOK
    <2>2. o \in Nat /\ o < committed[p]
      BY <2>1
    <2> QED
      BY <2>2 DEF IInv, ProgressInv, CommittedInv
  <1> QED
    BY <1>1, SinkInvariant, PTL

\* The sink implements at-least-once delivery: an arrival is an Arrive, a step
\* that leaves traces a Settle, and a commit a Commit of AlertDelivery.
THEOREM SinkDelivers == Spec => DeliversAtLeastOnce
  <1>1. Init => Delivery!Init
    BY DEF Init, Delivery!Init, Settled
  <1>2. IInv /\ IInv' /\ [Next]_vars => [Delivery!Next]_(Delivery!vars)
    <2> SUFFICES ASSUME IInv, IInv', [Next]_vars
                 PROVE  Delivery!Next \/ UNCHANGED Delivery!vars
      OBVIOUS
    <2>t. TypeOK /\ TypeOK' /\ TraceInv' /\ CommittedInv'
      BY DEF IInv, ProgressInv
    <2>s. Settled \subseteq Settled'
      BY <2>t, SettledGrows
    <2>1. ASSUME NEW p \in Partitions, NEW m \in Payloads, Produce(p, m)
          PROVE  Delivery!Arrive(p)
      <3>1. log[p] \in Seq(Payloads) /\ log' = [log EXCEPT ![p] = Append(log[p], m)]
        BY <2>1, <2>t DEF Produce, TypeOK
      <3>2. [q \in Partitions |-> Len(log'[q])]
              = [[q \in Partitions |-> Len(log[q])] EXCEPT ![p] = @ + 1]
        <4>1. \A q \in Partitions : log[q] \in Seq(Payloads) /\ log'[q] =
                 IF q = p THEN Append(log[p], m) ELSE log[q]
          BY <3>1, <2>t DEF TypeOK
        <4>2. \A q \in Partitions : Len(log'[q]) = IF q = p THEN Len(log[p]) + 1 ELSE Len(log[q])
          <5>1. Len(Append(log[p], m)) = Len(log[p]) + 1
            BY <3>1
          <5> QED
            BY <4>1, <5>1
        <4> QED
          BY <4>2
      <3>3. committed' = committed /\ Settled' = Settled
        BY <2>1 DEF Produce, Settled
      <3> QED
        BY <3>2, <3>3 DEF Delivery!Arrive
    <2>2. CASE UNCHANGED <<log, committed>>
      <3>1. Settled' \subseteq Records
        BY <2>t DEF TypeOK, Settled
      <3>2. \A r \in Settled' : r[1] \in Partitions /\ r[2] < Len(log[r[1]])
        BY <3>1, <2>2, <2>t DEF TraceInv, Records
      <3> QED
        BY <3>1, <3>2, <2>2, <2>s DEF Delivery!Next, Delivery!Settle, Delivery!Records, Records
    <2>3. CASE UNCHANGED <<log, stored, dlq, dropped, written>>
      <3>1. Settled' = Settled
        BY <2>3 DEF Settled
      <3>2. \A p \in Partitions :
               /\ committed'[p] \in Nat /\ committed'[p] <= Len(log[p])
               /\ \A o \in Nat : o < committed'[p] => <<p, o>> \in Settled
        BY <2>3, <3>1, <2>t DEF CommittedInv, TypeOK
      <3>3. \A p \in Partitions : \A o \in 0 .. (committed'[p] - 1) : <<p, o>> \in Settled
        <4> SUFFICES ASSUME NEW p \in Partitions, NEW o \in 0 .. (committed'[p] - 1)
                     PROVE  <<p, o>> \in Settled
          OBVIOUS
        <4>1. o \in Nat /\ o < committed'[p]
          BY <3>2
        <4> QED
          BY <4>1, <3>2
      <3> QED
        BY <3>1, <3>2, <3>3, <2>3, <2>t DEF Delivery!Next, Delivery!Commit, TypeOK
    <2> QED
      BY <2>1, <2>2, <2>3, <2>t, StepKinds DEF Delivery!Next
  <1> QED
    BY <1>1, <1>2, SinkInvariant, PTL DEF Spec, DeliversAtLeastOnce, Delivery!Spec

-----------------------------------------------------------------------------
(***************************************************************************)
(* A sink whose position is never reset: the committed offset only grows.  *)
(* The offsets computed for a batch may be stale, for an earlier commit    *)
(* may have been applied although it raised; what saves them is that the   *)
(* batch is kept, so that they are computed again from the same items and  *)
(* newer ones.                                                             *)
(***************************************************************************)
\* The items the current pass over the batch has behind it.
Passed == {batch[j] : j \in {k \in DOMAIN batch : k < i}}

\* The watermark is the position, once there is one.
WatermarkInv ==
    \A p \in Partitions :
        committed[p] <= position[p] /\ (observed[p] = -1 \/ observed[p] = position[p])

\* A partition with items in the batch is not committed beyond its last one.
ReachInv ==
    \A r \in InBatch : \E s \in InBatch : s[1] = r[1] /\ committed[r[1]] <= s[2] + 1

\* The offsets in hand are the highest of the items passed.
HighestInv ==
    /\ \A p \in Partitions :
          offsets[p] # -1 => \E r \in Passed : r[1] = p /\ offsets[p] = r[2] + 1
    /\ \A r \in Passed : r[2] + 1 <= offsets[r[1]]

\* A pass that returned its offsets, or a commit of them, has the whole batch
\* behind it; between passes nothing is in hand.
PassInv ==
    /\ pc \in {"commit", "drainCommit"} => i > Len(batch)
    /\ pc \in {"loop", "poll", "flush", "stale"} => offsets = NoOffsets

ForwardInv == WatermarkInv /\ ReachInv /\ HighestInv /\ PassInv

-----------------------------------------------------------------------------
\* What a step does to the offsets in hand.
LEMMA PassKinds ==
    ASSUME [Next]_vars
    PROVE  \/ UNCHANGED <<batch, i, offsets>>
           \/ i' = 1 /\ offsets' = NoOffsets
           \/ i <= Len(batch) /\ i' = i + 1 /\ offsets' = OffsetsWithItem /\ UNCHANGED batch
           \/ pc = "poll" /\ UNCHANGED <<i, offsets>>
  <1>1. CASE UNCHANGED vars
    BY <1>1 DEF vars, loopVars, txnVars
  <1>2. CASE Environment \/ Restart
    BY <1>2 DEF Environment, Produce, Tick, Sigterm, Crash, Restart, FreshProcess, Rewind,
       loopVars, txnVars
  <1>3. CASE LoopHead \/ PollEnd \/ Flush \/ Drain \/ DrainCommit \/ \E p \in Partitions : PollRecord(p)
    BY <1>3 DEF LoopHead, PollEnd, Flush, Drain, DrainCommit, PollRecord, BeginBatch, Forget,
       loopVars, txnVars
  <1>4. CASE ProcessBatch
    BY <1>4 DEF ProcessBatch, ItemStored, ItemFailed, NextItem, DbCommitOk, DbCommitFail, loopVars
  <1>5. CASE CommitOk \/ CommitFail
    BY <1>5 DEF CommitOk, CommitFail, Forget, txnVars
  <1>6. CASE EvacWrite \/ EvacCommitOk \/ EvacCommitFail
    BY <1>6 DEF EvacWrite, EvacCommitOk, EvacCommitFail, EvacDone, Forget, loopVars
  <1>7. CASE StaleSkip \/ StaleCommitOk \/ StaleCommitFail
    BY <1>7 DEF StaleSkip, StaleCommitOk, StaleCommitFail, loopVars, txnVars
  <1> QED
    BY <1>1, <1>2, <1>3, <1>4, <1>5, <1>6, <1>7 DEF Next, RunSink

\* What a step does to the places of the consumer and to the batch.
CommitOf(m) ==
    /\ \E P : committed' = Updated(committed, m, P)
    /\ UNCHANGED <<position, observed>> /\ batch' \in {batch, <<>>}

LEMMA PlaceKinds ==
    ASSUME MaxRewinds = 0, TypeOK, PassInv, [Next]_vars
    PROVE  \/ UNCHANGED <<committed, position, observed, batch>>
           \/ FreshProcess /\ UNCHANGED committed
           \/ \E p \in Partitions : PollRecord(p)
           \/ CommitOf(offsets) /\ i > Len(batch)
           \/ CommitOf(StaleOffsets) /\ batch = <<>>
  <1>1. CASE UNCHANGED vars
    BY <1>1 DEF vars, world, loopVars
  <1>2. CASE Environment \/ Restart
    <2>1. ~ \E p \in Partitions : Rewind(p)
      BY DEF Rewind, TypeOK
    <2> QED
      BY <1>2, <2>1 DEF Environment, Produce, Tick, Sigterm, Crash, Restart, world, loopVars
  <1>3. CASE LoopHead \/ PollEnd \/ Flush \/ Drain \/ StaleSkip \/ EvacWrite
    BY <1>3 DEF LoopHead, PollEnd, Flush, Drain, StaleSkip, EvacWrite, world, loopVars
  <1>4. CASE ProcessBatch
    BY <1>4 DEF ProcessBatch, ItemStored, ItemFailed, NextItem, DbCommitOk, DbCommitFail, loopVars
  <1>5. CASE CommitOk \/ CommitFail \/ DrainCommit
    BY <1>5 DEF CommitOk, CommitFail, DrainCommit, BrokerCommit, BrokerCommitFails, CommitOf,
       PassInv, ClearBatch, loopVars
  <1>6. CASE EvacCommitOk \/ EvacCommitFail
    BY <1>6 DEF EvacCommitOk, EvacCommitFail, EvacDone, BrokerCommit, BrokerCommitFails, CommitOf,
       ClearBatch
  <1>7. CASE StaleCommitOk \/ StaleCommitFail
    BY <1>7 DEF StaleCommitOk, StaleCommitFail, StaleDue, BrokerCommit, BrokerCommitFails, CommitOf,
       loopVars
  <1> QED
    BY <1>1, <1>2, <1>3, <1>4, <1>5, <1>6, <1>7 DEF Next, RunSink

\* The offsets of a commit lie between the committed offset and the position.
LEMMA CommitForward ==
    ASSUME IInv, ForwardInv, NEW m,
           \/ m = offsets /\ i > Len(batch)
           \/ m = StaleOffsets /\ batch = <<>>,
           NEW p \in Partitions, m[p] # -1
    PROVE  committed[p] <= m[p] /\ m[p] <= position[p] /\ m[p] \in Nat
  <1>0. /\ TypeOK /\ WatermarkInv /\ ReachInv /\ HighestInv /\ OffsetsInv
        /\ committed[p] \in Nat /\ position[p] \in Nat /\ observed[p] \in Nat \cup {-1}
        /\ offsets[p] \in Nat \cup {-1} /\ i \in Nat /\ Len(batch) \in Nat
    BY DEF IInv, ForwardInv, WorkInv, TypeOK, OffsetMap
  <1>1. committed[p] <= position[p] /\ (observed[p] = -1 \/ observed[p] = position[p])
    BY <1>0 DEF WatermarkInv
  <1>2. CASE m = StaleOffsets
    <2>1. m[p] = observed[p]
      BY <1>2 DEF StaleOffsets
    <2> QED
      BY <1>0, <1>1, <2>1
  <1>3. CASE m = offsets /\ i > Len(batch)
    <2>1. PICK r \in Passed : r[1] = p
      BY <1>0, <1>3 DEF HighestInv
    <2>2. r \in InBatch /\ DOMAIN batch = 1 .. Len(batch)
      BY <1>0 DEF Passed, InBatch, TypeOK
    <2>3. PICK s \in InBatch : s[1] = p /\ committed[p] <= s[2] + 1
      BY <1>0, <2>1, <2>2 DEF ReachInv
    <2>4. s \in Passed
      BY <1>0, <1>3, <2>2 DEF Passed, InBatch
    <2>5. s[2] + 1 <= offsets[p]
      BY <1>0, <2>3, <2>4 DEF HighestInv
    <2>6. s[2] \in Nat
      <3>1. InBatch \subseteq Records
        BY <1>0 DEF InBatch, TypeOK
      <3> QED
        BY <3>1 DEF Records
    <2>7. offsets[p] <= observed[p]
      BY <1>0 DEF OffsetsInv
    <2> QED
      BY <1>0, <1>1, <1>3, <2>3, <2>5, <2>6, <2>7
  <1> QED
    BY <1>2, <1>3

\* So a commit moves the committed offset forward, within what was fetched.
LEMMA CommitOfForward ==
    ASSUME IInv, ForwardInv, NEW m, CommitOf(m),
           \/ m = offsets /\ i > Len(batch)
           \/ m = StaleOffsets /\ batch = <<>>,
           NEW p \in Partitions
    PROVE  /\ committed[p] <= committed'[p] /\ committed'[p] <= position[p]
           /\ committed'[p] = committed[p] \/ (committed'[p] = m[p] /\ m[p] # -1)
  <1>1. PICK P : committed' = Updated(committed, m, P)
    BY DEF CommitOf
  <1>2. committed'[p] = committed[p] \/ (committed'[p] = m[p] /\ m[p] # -1)
    BY <1>1 DEF Updated
  <1>3. committed[p] \in Nat /\ committed[p] <= position[p]
    BY DEF IInv, TypeOK, ForwardInv, WatermarkInv
  <1>4. m[p] # -1 => committed[p] <= m[p] /\ m[p] <= position[p]
    BY CommitForward
  <1> QED
    BY <1>2, <1>3, <1>4

LEMMA NextWatermark ==
    ASSUME MaxRewinds = 0, IInv, ForwardInv, [Next]_vars
    PROVE  WatermarkInv'
  <1>0. TypeOK /\ WatermarkInv /\ PassInv
    BY DEF IInv, ForwardInv
  <1>1. CASE UNCHANGED <<committed, position, observed, batch>>
    BY <1>0, <1>1 DEF WatermarkInv
  <1>2. CASE FreshProcess /\ UNCHANGED committed
    BY <1>0, <1>2 DEF FreshProcess, ResumePosition, NoOffsets, WatermarkInv, TypeOK
  <1>3. ASSUME NEW p \in Partitions, PollRecord(p) PROVE WatermarkInv'
    <2>1. /\ position' = [position EXCEPT ![p] = position[p] + 1] /\ committed' = committed
          /\ observed' = [observed EXCEPT ![p] = Larger(observed[p], position[p] + 1)]
      BY <1>3 DEF PollRecord
    <2>2. ASSUME NEW q \in Partitions
          PROVE  committed'[q] <= position'[q] /\ (observed'[q] = -1 \/ observed'[q] = position'[q])
      <3>1. /\ committed[q] \in Nat /\ position[q] \in Nat /\ observed[q] \in Nat \cup {-1}
            /\ committed[q] <= position[q] /\ (observed[q] = -1 \/ observed[q] = position[q])
        BY <1>0 DEF TypeOK, OffsetMap, WatermarkInv
      <3>2. CASE q = p
        BY <1>0, <2>1, <3>1, <3>2 DEF Larger, TypeOK, OffsetMap
      <3>3. CASE q # p
        BY <1>0, <2>1, <3>1, <3>3 DEF TypeOK, OffsetMap
      <3> QED
        BY <3>2, <3>3
    <2> QED
      BY <2>2 DEF WatermarkInv
  <1>4. CASE CommitOf(offsets) /\ i > Len(batch)
    <2>1. \A p \in Partitions : committed'[p] <= position[p]
      BY <1>4, CommitOfForward
    <2> QED
      BY <1>0, <1>4, <2>1 DEF WatermarkInv, CommitOf
  <1>5. CASE CommitOf(StaleOffsets) /\ batch = <<>>
    <2>1. \A p \in Partitions : committed'[p] <= position[p]
      BY <1>5, CommitOfForward
    <2> QED
      BY <1>0, <1>5, <2>1 DEF WatermarkInv, CommitOf
  <1> QED
    BY <1>0, <1>1, <1>2, <1>3, <1>4, <1>5, PlaceKinds

LEMMA NextReach ==
    ASSUME MaxRewinds = 0, IInv, ForwardInv, [Next]_vars
    PROVE  ReachInv'
  <1>0. TypeOK /\ WatermarkInv /\ PassInv /\ ReachInv /\ HighestInv
    BY DEF IInv, ForwardInv
  <1>1. CASE UNCHANGED <<committed, position, observed, batch>>
    BY <1>0, <1>1 DEF ReachInv, InBatch
  <1>2. CASE batch' = <<>>
    BY <1>2 DEF ReachInv, InBatch
  <1>3. ASSUME NEW p \in Partitions, PollRecord(p) PROVE ReachInv'
    <2> DEFINE r == <<p, position[p]>>
    <2>1. r \in Records /\ committed' = committed
      BY <1>0, <1>3, PolledRecord DEF PollRecord
    <2>2. InBatch' = InBatch \/ InBatch' = InBatch \cup {r}
      <3>1. batch' = batch \/ batch' = Append(batch, r)
        BY <1>3 DEF PollRecord
      <3>2. batch \in Seq(Records)
        BY <1>0 DEF TypeOK
      <3>3. {Append(batch, r)[j] : j \in DOMAIN Append(batch, r)} = {batch[j] : j \in DOMAIN batch} \cup {r}
        BY <2>1, <3>2, AppendFacts
      <3> HIDE DEF r
      <3>4. CASE batch' = batch
        BY <3>4 DEF InBatch
      <3>5. CASE batch' = Append(batch, r)
        BY <3>3, <3>5 DEF InBatch
      <3> QED
        BY <3>1, <3>4, <3>5
    <2>3. r[1] = p /\ committed[p] <= r[2] + 1
      BY <1>0 DEF WatermarkInv, TypeOK
    <2> HIDE DEF r
    <2> QED
      BY <1>0, <2>1, <2>2, <2>3 DEF ReachInv
  <1>4. CASE CommitOf(offsets) /\ i > Len(batch) /\ batch' = batch
    <2> SUFFICES ASSUME NEW r \in InBatch
                 PROVE  \E s \in InBatch : s[1] = r[1] /\ committed'[r[1]] <= s[2] + 1
      BY <1>4 DEF ReachInv, InBatch
    <2>1. InBatch \subseteq Records /\ r[1] \in Partitions
      BY <1>0 DEF InBatch, TypeOK, Records
    <2>2. CASE committed'[r[1]] = committed[r[1]]
      BY <1>0, <2>2 DEF ReachInv
    <2>3. CASE committed'[r[1]] = offsets[r[1]] /\ offsets[r[1]] # -1
      <3>1. PICK s \in Passed : s[1] = r[1] /\ offsets[r[1]] = s[2] + 1
        BY <1>0, <2>1, <2>3 DEF HighestInv
      <3>2. s \in InBatch /\ s[2] \in Nat
        <4>1. s \in InBatch
          BY DEF Passed, InBatch
        <4> QED
          BY <2>1, <4>1 DEF Records
      <3> QED
        BY <2>3, <3>1, <3>2
    <2> QED
      BY <1>4, <2>1, <2>2, <2>3, CommitOfForward
  <1>5. CASE FreshProcess
    BY <1>5, <1>2 DEF FreshProcess
  <1>6. CASE CommitOf(StaleOffsets) /\ batch = <<>>
    BY <1>6, <1>2 DEF CommitOf
  <1> QED
    BY <1>0, <1>1, <1>2, <1>3, <1>4, <1>5, <1>6, PlaceKinds DEF CommitOf

LEMMA NextHighest ==
    ASSUME IInv, ForwardInv, [Next]_vars
    PROVE  HighestInv'
  <1>0. /\ TypeOK /\ HighestInv /\ PassInv /\ SessionInv /\ i \in Nat \ {0}
        /\ DOMAIN batch = 1 .. Len(batch) /\ Len(batch) \in Nat
    BY DEF IInv, ForwardInv, WorkInv, TypeOK
  <1>1. CASE UNCHANGED <<batch, i, offsets>>
    BY <1>0, <1>1 DEF HighestInv, Passed
  <1>2. ASSUME i' = 1, offsets' = NoOffsets PROVE HighestInv'
    <2>1. TypeOK'
      BY <1>0, NextType
    <2>2. DOMAIN batch' = 1 .. Len(batch') /\ Len(batch') \in Nat
      BY <2>1 DEF TypeOK
    <2>3. Passed' = {}
      BY <1>2, <2>2 DEF Passed
    <2> QED
      BY <1>2, <2>3 DEF HighestInv, NoOffsets
  <1>3. CASE pc = "poll" /\ UNCHANGED <<i, offsets>>
    BY <1>0, <1>2, <1>3 DEF PassInv, SessionInv
  <1>4. CASE i <= Len(batch) /\ i' = i + 1 /\ offsets' = OffsetsWithItem /\ UNCHANGED batch
    <2>1. /\ Item \in Records /\ Item[1] \in Partitions /\ Item[2] \in Nat
          /\ OffsetsWithItem \in OffsetMap
      BY <1>0, <1>4, ItemType
    <2>2. Passed' = Passed \cup {Item}
      BY <1>0, <1>4 DEF Passed, Item
    <2>3. \A q \in Partitions :
              offsets'[q] = IF q = Item[1] THEN Larger(offsets[q], Item[2] + 1) ELSE offsets[q]
      BY <1>0, <1>4, <2>1 DEF OffsetsWithItem, TypeOK, OffsetMap
    <2>4. \A q \in Partitions : offsets[q] \in Nat \cup {-1}
      BY <1>0 DEF TypeOK, OffsetMap
    <2>5. \A r \in Passed : r[1] \in Partitions /\ r[2] \in Nat
      <3>1. Passed \subseteq Records
        BY <1>0 DEF Passed, TypeOK
      <3> QED
        BY <3>1 DEF Records
    <2> HIDE DEF Item
    <2>6. ASSUME NEW q \in Partitions, offsets'[q] # -1
          PROVE  \E r \in Passed' : r[1] = q /\ offsets'[q] = r[2] + 1
      <3>1. CASE offsets'[q] = offsets[q]
        BY <1>0, <2>2, <2>6, <3>1 DEF HighestInv
      <3>2. CASE q = Item[1] /\ offsets'[q] = Item[2] + 1
        BY <2>2, <3>2
      <3> QED
        BY <2>3, <3>1, <3>2 DEF Larger
    <2>7. ASSUME NEW r \in Passed' PROVE r[2] + 1 <= offsets'[r[1]]
      <3>1. CASE r = Item
        BY <2>1, <2>3, <2>4, <3>1 DEF Larger
      <3>2. CASE r \in Passed
        <4>1. r[2] + 1 <= offsets[r[1]] /\ r[1] \in Partitions /\ r[2] \in Nat
          BY <1>0, <2>5, <3>2 DEF HighestInv
        <4>2. offsets[r[1]] <= offsets'[r[1]] /\ offsets'[r[1]] \in Int /\ offsets[r[1]] \in Int
          BY <2>1, <2>3, <2>4, <4>1 DEF Larger
        <4> QED
          BY <4>1, <4>2
      <3> QED
        BY <2>2, <3>1, <3>2
    <2> QED
      BY <2>6, <2>7 DEF HighestInv
  <1> QED
    BY <1>1, <1>2, <1>3, <1>4, PassKinds

LEMMA NextPass ==
    ASSUME IInv, ForwardInv, [Next]_vars
    PROVE  PassInv'
  <1>0. TypeOK /\ PassInv
    BY DEF IInv, ForwardInv
  <1>k. ASSUME UNCHANGED <<pc, batch, i, offsets>> PROVE PassInv'
    BY <1>0, <1>k DEF PassInv
  <1>n. ASSUME pc' \notin {"commit", "drainCommit"}, offsets' = NoOffsets PROVE PassInv'
    BY <1>n DEF PassInv
  <1>1. CASE UNCHANGED vars
    BY <1>1, <1>k DEF vars, loopVars, txnVars
  <1>2. CASE Environment \/ Restart
    <2>1. CASE UNCHANGED <<pc, batch, i, offsets>>
      BY <2>1, <1>k
    <2>2. CASE Crash \/ Restart
      BY <2>2, <1>n DEF Crash, Restart, FreshProcess
    <2> QED
      BY <1>2, <2>1, <2>2 DEF Environment, Produce, Tick, Sigterm, Rewind, loopVars, txnVars
  <1>3. CASE LoopHead \/ PollEnd \/ Flush \/ Drain \/ DrainCommit \/ StaleSkip
             \/ StaleCommitOk \/ StaleCommitFail \/ \E p \in Partitions : PollRecord(p)
    BY <1>0, <1>3 DEF LoopHead, PollEnd, Flush, Drain, DrainCommit, StaleSkip, StaleCommitOk,
       StaleCommitFail, PollRecord, BeginBatch, Forget, txnVars, PassInv
  <1>4. CASE ItemStored \/ ItemFailed \/ EvacWrite
    BY <1>4 DEF ItemStored, ItemFailed, NextItem, EvacWrite, PassInv
  <1>5. CASE DbCommitOk
    BY <1>5 DEF DbCommitOk, ItemsDone, PassInv
  <1>6. CASE DbCommitFail
    BY <1>6, <1>n DEF DbCommitFail, AfterDbFailure, AfterFailure
  <1>7. CASE CommitOk \/ CommitFail
    BY <1>7, <1>n, <1>k DEF CommitOk, CommitFail, Forget, AfterFailure, txnVars
  <1>8. CASE EvacCommitOk \/ EvacCommitFail
    BY <1>8, <1>n DEF EvacCommitOk, EvacCommitFail, EvacDone, Forget
  <1> QED
    BY <1>1, <1>2, <1>3, <1>4, <1>5, <1>6, <1>7, <1>8 DEF Next, RunSink, ProcessBatch

LEMMA InitForward == Init => ForwardInv
  <1> SUFFICES ASSUME Init PROVE ForwardInv
    OBVIOUS
  <1>1. InBatch = {} /\ Passed = {} /\ offsets = NoOffsets
    BY DEF Init, InBatch, Passed
  <1> QED
    BY <1>1 DEF Init, ForwardInv, WatermarkInv, ReachInv, HighestInv, PassInv, NoOffsets

LEMMA NextForward ==
    ASSUME MaxRewinds = 0
    PROVE  IInv /\ ForwardInv /\ [Next]_vars => ForwardInv'
  BY NextWatermark, NextReach, NextHighest, NextPass DEF ForwardInv

\* Without a rebalance the committed offset of a partition never goes back,
\* whatever the commits, their lost answers, the crashes and the evacuations.
THEOREM SinkCommittedNeverRegresses ==
    ASSUME MaxRewinds = 0
    PROVE  Spec => CommittedNeverRegresses
  <1>1. IInv /\ ForwardInv /\ [Next]_vars => \A p \in Partitions : committed'[p] >= committed[p]
    <2> SUFFICES ASSUME IInv, ForwardInv, [Next]_vars, NEW p \in Partitions
                 PROVE  committed'[p] >= committed[p]
      OBVIOUS
    <2>0. TypeOK /\ PassInv /\ committed[p] \in Nat
      BY DEF IInv, ForwardInv, TypeOK
    <2>1. CASE UNCHANGED committed
      BY <2>0, <2>1
    <2>2. CASE CommitOf(offsets) /\ i > Len(batch)
      BY <2>0, <2>2, CommitOfForward
    <2>3. CASE CommitOf(StaleOffsets) /\ batch = <<>>
      BY <2>0, <2>3, CommitOfForward
    <2> QED
      BY <2>0, <2>1, <2>2, <2>3, PlaceKinds DEF PollRecord
  <1> QED
    BY <1>1, InitForward, NextForward, SinkInvariant, PTL DEF Spec, CommittedNeverRegresses

(***************************************************************************)
(* One partition, and the position never reset: rows follow the log.       *)
(***************************************************************************)
\* In this table the alert of r is at r or later, unless r was refused.
Holds(table, r) ==
    Payload(r).kind = "ok" /\ r \notin dlq \cup dropped
      => table[Payload(r).aid] # NoRow /\ table[Payload(r).aid][2] >= r[2]

Fetched == {r \in Records : r[2] < position[r[1]]}

\* The batch is in the order of the log and behind it comes only what will not
\* reach the table: everything else was fetched before its first item.
OrderInv ==
    /\ \A j, k \in DOMAIN batch : j < k => batch[j][2] < batch[k][2]
    /\ \A r \in Fetched \ InBatch : \A s \in InBatch : Payload(r).kind = "ok" => r[2] < s[2]

\* The rows hold what was fetched and is no longer in the batch, ...
RowsInv ==
    /\ \A r \in Fetched \ InBatch : Holds(rows, r)
    /\ \A r \in Records : r[2] < committed[r[1]] => Holds(rows, r)
    /\ pc \in {"commit", "drainCommit"} => \A r \in InBatch : Holds(rows, r)

\* ... and the open transaction holds this and the items passed.
ViewInv == pc = "items" => \A r \in (Fetched \ InBatch) \cup Passed : Holds(view, r)

NewestInv == OrderInv /\ RowsInv /\ ViewInv

-----------------------------------------------------------------------------
\* Records that arrived keep their payload.
LEMMA PayloadKept ==
    ASSUME TypeOK, [Next]_vars, NEW r \in Records, r[2] < Len(log[r[1]])
    PROVE  Payload(r)' = Payload(r)
  <1>0. r[1] \in Partitions /\ r[2] \in Nat /\ log \in [Partitions -> Seq(Payloads)]
    BY DEF Records, TypeOK
  <1>1. ASSUME NEW p \in Partitions, NEW m \in Payloads, Produce(p, m)
        PROVE  Payload(r)' = Payload(r)
    <2>1. log' = [log EXCEPT ![p] = Append(log[p], m)]
      BY <1>1 DEF Produce
    <2>2. log[r[1]] \in Seq(Payloads) /\ r[2] + 1 \in 1 .. Len(log[r[1]])
      BY <1>0
    <2>3. Append(log[r[1]], m)[r[2] + 1] = log[r[1]][r[2] + 1]
      BY <2>2
    <2>4. CASE r[1] = p
      BY <1>0, <2>1, <2>3, <2>4 DEF Payload
    <2>5. CASE r[1] # p
      BY <1>0, <2>1, <2>5 DEF Payload
    <2> QED
      BY <2>4, <2>5
  <1>2. CASE UNCHANGED log
    BY <1>2 DEF Payload
  <1> QED
    BY <1>1, <1>2, StepKinds

\* The steps, as far as the rows and the batch see them.
Quiet ==
    /\ UNCHANGED <<committed, rows, position, batch>>
    /\ UNCHANGED <<pc, i, view>> \/ pc' \notin {"items", "commit", "drainCommit"}
Fresh == FreshProcess /\ pc' \notin {"items", "commit", "drainCommit"} /\ UNCHANGED <<committed, rows>>
Begin == BeginBatch /\ pc' = "items" /\ UNCHANGED <<committed, rows, position, batch>>
TxnApplied ==
    /\ pc = "items" /\ i > Len(batch) /\ rows' = view /\ pc' # "items"
    /\ UNCHANGED <<committed, position, batch>>
OffsetsCommitted ==
    /\ UNCHANGED <<rows, position, observed>> /\ batch' \in {batch, <<>>} /\ pc' # "items"
    /\ \/ pc \in {"commit", "drainCommit"} /\ CommitOf(offsets) /\ i > Len(batch)
       \/ /\ pc \in {"evac", "panic"} /\ CommitOf(offsets) /\ i > Len(batch)
          /\ pc' \notin {"commit", "drainCommit"}
       \/ batch = <<>> /\ CommitOf(StaleOffsets) /\ pc' \notin {"commit", "drainCommit"}

LEMMA RowKinds ==
    ASSUME MaxRewinds = 0, TypeOK, PassInv, [Next]_vars
    PROVE  \/ Quiet \/ Fresh \/ Begin \/ TxnApplied \/ OffsetsCommitted
           \/ ItemStored \/ ItemFailed
           \/ \E p \in Partitions : PollRecord(p)
  <1>1. CASE UNCHANGED vars
    BY <1>1 DEF vars, world, loopVars, txnVars, Quiet
  <1>2. CASE Environment \/ Restart
    <2>1. ~ \E p \in Partitions : Rewind(p)
      BY DEF Rewind, TypeOK
    <2> QED
      BY <1>2, <2>1 DEF Environment, Produce, Tick, Sigterm, Crash, Restart, world, loopVars,
         txnVars, bounds, Quiet, Fresh
  <1>3. CASE LoopHead \/ PollEnd \/ Flush \/ Drain \/ StaleSkip \/ EvacWrite
    BY <1>3 DEF LoopHead, PollEnd, Flush, Drain, StaleSkip, EvacWrite, world, loopVars, txnVars,
       Quiet, Begin
  <1>4. CASE DbCommitOk
    BY <1>4 DEF DbCommitOk, ItemsDone, TxnApplied
  <1>5. CASE DbCommitFail
    BY <1>5 DEF DbCommitFail, ItemsDone, AfterDbFailure, AfterFailure, TxnApplied, Quiet
  <1>6. CASE CommitOk \/ CommitFail \/ DrainCommit
    <2>1. /\ pc \in {"commit", "drainCommit"} /\ CommitOf(offsets) /\ i > Len(batch) /\ pc' # "items"
          /\ UNCHANGED <<rows, position, observed>> /\ batch' \in {batch, <<>>}
      BY <1>6 DEF CommitOk, CommitFail, DrainCommit, BrokerCommit, BrokerCommitFails, CommitOf,
         PassInv, ClearBatch, AfterFailure, loopVars
    <2> QED
      BY <2>1 DEF OffsetsCommitted
  <1>7. CASE EvacCommitOk \/ EvacCommitFail
    <2>1. /\ pc \in {"evac", "panic"} /\ CommitOf(offsets) /\ i > Len(batch)
          /\ pc' \notin {"items", "commit", "drainCommit"}
          /\ UNCHANGED <<rows, position, observed>> /\ batch' \in {batch, <<>>}
      BY <1>7 DEF EvacCommitOk, EvacCommitFail, EvacDone, BrokerCommit, BrokerCommitFails,
         CommitOf, ClearBatch
    <2> QED
      BY <2>1 DEF OffsetsCommitted
  <1>8. CASE StaleCommitOk \/ StaleCommitFail
    <2>1. /\ batch = <<>> /\ CommitOf(StaleOffsets)
          /\ pc' \notin {"items", "commit", "drainCommit"}
          /\ UNCHANGED <<rows, position, observed>> /\ batch' \in {batch, <<>>}
      BY <1>8 DEF StaleCommitOk, StaleCommitFail, StaleDue, BrokerCommit, BrokerCommitFails,
         CommitOf, loopVars
    <2> QED
      BY <2>1 DEF OffsetsCommitted
  <1> QED
    BY <1>1, <1>2, <1>3, <1>4, <1>5, <1>6, <1>7, <1>8 DEF Next, RunSink, ProcessBatch

LEMMA FetchedFacts ==
    ASSUME IInv, ForwardInv
    PROVE  /\ Fetched \subseteq Records /\ InBatch \subseteq Fetched /\ Passed \subseteq InBatch
           /\ \A r \in Records : r[1] \in Partitions /\ r[2] \in Nat
           /\ \A r \in Fetched : r[2] < Len(log[r[1]])
           /\ \A r \in Records : r[2] < committed[r[1]] => r \in Fetched
           /\ i > Len(batch) => Passed = InBatch
  <1>0. TypeOK /\ PositionInv /\ BatchInv /\ WatermarkInv
    BY DEF IInv, ForwardInv, ProgressInv
  <1>1. Fetched \subseteq Records /\ \A r \in Records : r[1] \in Partitions /\ r[2] \in Nat
    BY DEF Fetched, Records
  <1>2. \A p \in Partitions : /\ position[p] \in Nat /\ committed[p] \in Nat /\ Len(log[p]) \in Nat
                              /\ position[p] <= Len(log[p]) /\ committed[p] <= position[p]
                              /\ observed[p] = -1 \/ observed[p] = position[p]
    BY <1>0 DEF TypeOK, PositionInv, WatermarkInv
  <1>3. InBatch \subseteq Fetched
    <2> SUFFICES ASSUME NEW r \in InBatch PROVE r \in Fetched
      OBVIOUS
    <2>1. r \in Records /\ r[2] < observed[r[1]]
      <3>1. InBatch \subseteq Records
        BY <1>0 DEF InBatch, TypeOK
      <3> QED
        BY <1>0, <3>1 DEF BatchInv
    <2>2. r[2] \in Nat /\ r[1] \in Partitions
      BY <1>1, <2>1
    <2>3. r[2] < position[r[1]]
      BY <1>2, <2>1, <2>2
    <2> QED
      BY <2>1, <2>3 DEF Fetched
  <1>4. \A r \in Fetched : r[2] < Len(log[r[1]])
    BY <1>1, <1>2 DEF Fetched
  <1>5. ASSUME NEW r \in Records, r[2] < committed[r[1]] PROVE r \in Fetched
    <2>1. r[2] \in Nat /\ r[1] \in Partitions
      BY <1>1
    <2>2. r[2] < position[r[1]]
      BY <1>2, <1>5, <2>1
    <2> QED
      BY <2>2 DEF Fetched
  <1>6. Passed \subseteq InBatch
    BY DEF Passed, InBatch
  <1>7. i > Len(batch) => Passed = InBatch
    <2>1. DOMAIN batch = 1 .. Len(batch) /\ Len(batch) \in Nat /\ i \in Nat
      BY <1>0 DEF TypeOK
    <2> QED
      BY <2>1 DEF Passed, InBatch
  <1> QED
    BY <1>1, <1>3, <1>4, <1>5, <1>6, <1>7

\* What a poll adds: one record, to the batch or to the log lines only.
LEMMA PollFacts ==
    ASSUME IInv, ForwardInv, \A p, q \in Partitions : p = q,
           NEW p \in Partitions, PollRecord(p), NEW r, r = <<p, position[p]>>
    PROVE  /\ r \in Records /\ r \notin Fetched /\ Fetched' = Fetched \cup {r}
           /\ \A q \in Fetched : q[2] < r[2]
           /\ \/ Payload(r).kind # "ok" /\ batch' = batch
              \/ batch' = Append(batch, r) /\ InBatch' = InBatch \cup {r}
           /\ Payload(r)' = Payload(r)
  <1>0. TypeOK /\ position \in [Partitions -> Nat] /\ batch \in Seq(Records)
    BY DEF IInv, TypeOK
  <1>1. r \in Records /\ r[1] = p /\ r[2] = position[p]
    BY <1>0, PolledRecord
  <1>2. position' = [position EXCEPT ![p] = position[p] + 1] /\ UNCHANGED log
    BY DEF PollRecord
  <1>3. \A q \in Records : q[1] = p /\ q[2] \in Nat /\ q = <<q[1], q[2]>>
    BY DEF Records
  <1>4. r \notin Fetched /\ \A q \in Fetched : q[2] < r[2]
    BY <1>0, <1>1, <1>3 DEF Fetched
  <1>5. Fetched' = Fetched \cup {r}
    <2>1. position'[p] = position[p] + 1 /\ position[p] \in Nat
      BY <1>0, <1>2
    <2>2. ASSUME NEW q \in Records PROVE q[2] < position'[q[1]] <=> q[2] < position[q[1]] \/ q = r
      <3>1. q[1] = p /\ q[2] \in Nat
        BY <1>3
      <3>2. q = r <=> q[2] = position[p]
        BY <1>1, <1>3
      <3> QED
        BY <2>1, <3>1, <3>2
    <2> QED
      BY <1>1, <2>2 DEF Fetched
  <1>6. \/ Payload(r).kind # "ok" /\ batch' = batch
        \/ batch' = Append(batch, r)
    BY DEF PollRecord
  <1>7. {Append(batch, r)[j] : j \in DOMAIN Append(batch, r)} = {batch[j] : j \in DOMAIN batch} \cup {r}
    BY <1>0, <1>1, AppendFacts
  <1>8. batch' = Append(batch, r) => InBatch' = InBatch \cup {r}
    BY <1>7 DEF InBatch
  <1> QED
    BY <1>1, <1>2, <1>4, <1>5, <1>6, <1>8 DEF Payload

\* The order of the batch.
LEMMA NextOrder ==
    ASSUME MaxRewinds = 0, \A p, q \in Partitions : p = q,
           IInv, ForwardInv, OrderInv, [Next]_vars
    PROVE  OrderInv'
  <1>0. TypeOK /\ PassInv /\ batch \in Seq(Records)
    BY DEF IInv, ForwardInv, TypeOK
  <1>1. \A r \in Fetched : r \in Records /\ Payload(r)' = Payload(r)
    BY <1>0, FetchedFacts, PayloadKept
  <1>2. CASE batch' = <<>>
    BY <1>2 DEF OrderInv, InBatch
  <1>3. CASE UNCHANGED <<position, batch>>
    <2>1. Fetched' = Fetched /\ InBatch' = InBatch
      BY <1>3 DEF Fetched, InBatch
    <2> QED
      BY <1>1, <1>3, <2>1 DEF OrderInv
  <1>4. ASSUME NEW p \in Partitions, PollRecord(p) PROVE OrderInv'
    <2>1. PICK r : r = <<p, position[p]>>
      OBVIOUS
    <2>2. /\ r \in Records /\ r \notin Fetched /\ Fetched' = Fetched \cup {r}
          /\ \A q \in Fetched : q[2] < r[2]
          /\ \/ Payload(r).kind # "ok" /\ batch' = batch
             \/ batch' = Append(batch, r) /\ InBatch' = InBatch \cup {r}
          /\ Payload(r)' = Payload(r)
      BY <1>4, <2>1, PollFacts
    <2>3. InBatch \subseteq Fetched
      BY FetchedFacts
    <2>4. CASE Payload(r).kind # "ok" /\ batch' = batch
      <3>1. InBatch' = InBatch
        BY <2>4 DEF InBatch
      <3> QED
        BY <1>1, <2>2, <2>4, <3>1 DEF OrderInv
    <2>5. CASE batch' = Append(batch, r) /\ InBatch' = InBatch \cup {r}
      <3>1. /\ DOMAIN batch = 1 .. Len(batch) /\ DOMAIN batch' = 1 .. Len(batch) + 1
            /\ Len(batch) \in Nat /\ batch'[Len(batch) + 1] = r
            /\ \A j \in 1 .. Len(batch) : batch'[j] = batch[j]
        BY <1>0, <2>2, <2>5
      <3>2. \A j \in DOMAIN batch : batch[j] \in Fetched
        BY <2>3 DEF InBatch
      <3>3. ASSUME NEW j \in DOMAIN batch', NEW k \in DOMAIN batch', j < k
            PROVE  batch'[j][2] < batch'[k][2]
        <4>1. j \in DOMAIN batch
          BY <3>1, <3>3
        <4>2. CASE k \in DOMAIN batch
          BY <3>1, <3>3, <4>1, <4>2 DEF OrderInv
        <4>3. CASE k = Len(batch) + 1
          BY <2>2, <3>1, <3>2, <4>1, <4>3
        <4> QED
          BY <3>1, <4>2, <4>3
      <3>4. \A q \in Fetched' \ InBatch' : q \in Fetched \ InBatch
        BY <2>2, <2>5
      <3>5. ASSUME NEW q \in Fetched' \ InBatch', NEW t \in InBatch', Payload(q)'.kind = "ok"
            PROVE  q[2] < t[2]
        BY <1>1, <2>2, <2>5, <3>4, <3>5 DEF OrderInv
      <3> QED
        BY <3>3, <3>5 DEF OrderInv
    <2> QED
      BY <2>2, <2>4, <2>5
  <1> QED
    BY <1>0, <1>2, <1>3, <1>4, RowKinds DEF Quiet, Fresh, FreshProcess, Begin, TxnApplied,
       OffsetsCommitted, ItemStored, ItemFailed, NextItem, loopVars

\* The rows.
LEMMA NextRows ==
    ASSUME MaxRewinds = 0, \A p, q \in Partitions : p = q,
           IInv, ForwardInv, NewestInv, [Next]_vars
    PROVE  RowsInv'
  <1>0. /\ TypeOK /\ PassInv /\ ItemsInv /\ RowsInv /\ ViewInv
        /\ i \in Nat /\ DOMAIN batch = 1 .. Len(batch)
    BY DEF IInv, WorkInv, ForwardInv, NewestInv, TypeOK
  <1>1. \A r \in Fetched : /\ r \in Records /\ Payload(r)' = Payload(r)
                           /\ r \in dlq \cup dropped => r \in dlq' \cup dropped'
    BY <1>0, FetchedFacts, PayloadKept, TracesGrow
  <1>2. /\ InBatch \subseteq Fetched /\ (i > Len(batch) => Passed = InBatch)
        /\ \A r \in Records : r[2] < committed[r[1]] => r \in Fetched
    BY FetchedFacts
  \* What the rows held they hold.
  <1>h. ASSUME rows' = rows, NEW r \in Fetched, Holds(rows, r) PROVE Holds(rows, r)'
    BY <1>1, <1>h DEF Holds
  <1>3. CASE UNCHANGED <<committed, rows, position, batch>>
             /\ (pc' = pc \/ pc' \notin {"commit", "drainCommit"})
    <2>1. Fetched' = Fetched /\ InBatch' = InBatch
      BY <1>3 DEF Fetched, InBatch
    <2> QED
      BY <1>0, <1>2, <1>3, <1>h, <2>1 DEF RowsInv
  <1>4. CASE Fresh
    <2>1. /\ rows' = rows /\ committed' = committed /\ position' = committed
          /\ batch' = <<>> /\ pc' \notin {"commit", "drainCommit"}
      BY <1>4 DEF Fresh, FreshProcess, ResumePosition
    <2>2. InBatch' = {} /\ Fetched' = {r \in Records : r[2] < committed[r[1]]}
      BY <2>1 DEF InBatch, Fetched
    <2>3. ASSUME NEW r \in Records, r[2] < committed[r[1]] PROVE Holds(rows, r)'
      BY <1>0, <1>2, <1>h, <2>1, <2>3 DEF RowsInv
    <2> QED
      BY <2>1, <2>2, <2>3 DEF RowsInv
  <1>5. CASE TxnApplied
    <2>1. /\ pc = "items" /\ i > Len(batch) /\ rows' = view
          /\ UNCHANGED <<committed, position, batch>>
      BY <1>5 DEF TxnApplied
    <2>2. Fetched' = Fetched /\ InBatch' = InBatch
      BY <2>1 DEF Fetched, InBatch
    <2>3. ASSUME NEW r \in Fetched PROVE Holds(rows, r)'
      <3>1. Holds(view, r)
        BY <1>0, <1>2, <2>1 DEF ViewInv
      <3> QED
        BY <1>1, <2>1, <3>1 DEF Holds
    <2> QED
      BY <1>2, <2>1, <2>2, <2>3 DEF RowsInv
  <1>6. CASE OffsetsCommitted
    <2>1. /\ UNCHANGED <<rows, position>> /\ batch' \in {batch, <<>>}
          /\ Fetched' = Fetched /\ InBatch' \subseteq InBatch
      BY <1>6 DEF OffsetsCommitted, Fetched, InBatch
    <2>2. ASSUME NEW r \in InBatch PROVE Holds(rows, r)
      <3>1. CASE pc \in {"commit", "drainCommit"}
        BY <1>0, <3>1 DEF RowsInv
      <3>2. CASE pc \in {"evac", "panic"} /\ i > Len(batch)
        <4>1. PICK j \in 1 .. Len(batch) : r = batch[j]
          BY <1>0 DEF InBatch
        <4>2. j < i
          BY <1>0, <3>2, <4>1
        <4> QED
          BY <1>0, <3>2, <4>1, <4>2 DEF ItemsInv, Holds
      <3>3. CASE batch = <<>>
        BY <3>3 DEF InBatch
      <3> QED
        BY <1>6, <3>1, <3>2, <3>3 DEF OffsetsCommitted
    <2>3. ASSUME NEW r \in Fetched PROVE Holds(rows, r)'
      BY <1>0, <1>h, <2>1, <2>2 DEF RowsInv
    <2>4. ASSUME NEW r \in Records, r[2] < committed'[r[1]] PROVE r \in Fetched
      <3>1. r[1] \in Partitions /\ r[2] \in Nat
        BY FetchedFacts
      <3>2. committed'[r[1]] <= position[r[1]]
        BY <1>6, <3>1, CommitOfForward DEF OffsetsCommitted
      <3>3. committed'[r[1]] \in Nat /\ position[r[1]] \in Nat
        BY <1>0, <3>1, NextType DEF TypeOK
      <3>4. r[2] < position[r[1]]
        BY <2>4, <3>1, <3>2, <3>3
      <3> QED
        BY <3>4 DEF Fetched
    <2> QED
      BY <1>2, <2>1, <2>3, <2>4 DEF RowsInv
  <1>7. ASSUME NEW p \in Partitions, PollRecord(p) PROVE RowsInv'
    <2>1. PICK r : r = <<p, position[p]>>
      OBVIOUS
    <2>2. /\ r \in Records /\ r \notin Fetched /\ Fetched' = Fetched \cup {r}
          /\ \/ Payload(r).kind # "ok" /\ batch' = batch
             \/ batch' = Append(batch, r) /\ InBatch' = InBatch \cup {r}
          /\ Payload(r)' = Payload(r)
      BY <1>7, <2>1, PollFacts
    <2>3. rows' = rows /\ committed' = committed /\ pc' = "poll"
      BY <1>7 DEF PollRecord
    <2>4. InBatch \subseteq InBatch'
      BY <2>2 DEF InBatch
    <2>5. ASSUME NEW q \in Fetched' \ InBatch' PROVE Holds(rows, q)'
      <3>1. CASE q = r
        <4>1. Payload(r)'.kind # "ok"
          BY <2>2, <2>5, <3>1
        <4> QED
          BY <3>1, <4>1 DEF Holds
      <3>2. CASE q \in Fetched
        BY <1>0, <1>h, <2>3, <2>4, <2>5, <3>2 DEF RowsInv
      <3> QED
        BY <2>2, <3>1, <3>2
    <2>6. ASSUME NEW q \in Records, q[2] < committed[q[1]] PROVE Holds(rows, q)'
      BY <1>0, <1>2, <1>h, <2>3, <2>6 DEF RowsInv
    <2> QED
      BY <2>3, <2>5, <2>6 DEF RowsInv
  <1> QED
    BY <1>0, <1>3, <1>4, <1>5, <1>6, <1>7, RowKinds DEF Quiet, Begin, ItemStored, ItemFailed,
       NextItem, loopVars

\* The open transaction.
LEMMA NextView ==
    ASSUME MaxRewinds = 0, \A p, q \in Partitions : p = q,
           IInv, ForwardInv, NewestInv, [Next]_vars
    PROVE  ViewInv'
  <1> SUFFICES ASSUME pc' = "items"
               PROVE  \A r \in (Fetched' \ InBatch') \cup Passed' : Holds(view, r)'
    BY DEF ViewInv
  <1>0. /\ TypeOK /\ PassInv /\ OrderInv /\ RowsInv /\ ViewInv
        /\ i \in Nat \ {0} /\ DOMAIN batch = 1 .. Len(batch) /\ Len(batch) \in Nat
    BY DEF IInv, ForwardInv, NewestInv, TypeOK
  <1>1. \A r \in Fetched : /\ r \in Records /\ Payload(r)' = Payload(r)
                           /\ r \in dlq \cup dropped => r \in dlq' \cup dropped'
    BY <1>0, FetchedFacts, PayloadKept, TracesGrow
  <1>2. InBatch \subseteq Fetched /\ Passed \subseteq InBatch
    BY FetchedFacts
  <1>3. CASE Quiet
    <2>1. UNCHANGED <<position, batch, pc, i, view>>
      BY <1>3 DEF Quiet
    <2>2. Fetched' = Fetched /\ InBatch' = InBatch /\ Passed' = Passed
      BY <2>1 DEF Fetched, InBatch, Passed
    <2>3. ASSUME NEW r \in (Fetched \ InBatch) \cup Passed PROVE Holds(view, r)'
      <3>1. Holds(view, r) /\ r \in Fetched
        BY <1>0, <1>2, <2>1 DEF ViewInv
      <3> QED
        BY <1>1, <2>1, <3>1 DEF Holds
    <2> QED
      BY <2>2, <2>3
  <1>4. CASE Begin
    <2>1. i' = 1 /\ view' = rows /\ UNCHANGED <<position, batch>>
      BY <1>4 DEF Begin, BeginBatch
    <2>2. Fetched' = Fetched /\ InBatch' = InBatch /\ Passed' = {}
      BY <1>0, <2>1 DEF Fetched, InBatch, Passed
    <2>3. ASSUME NEW r \in Fetched \ InBatch PROVE Holds(view, r)'
      BY <1>0, <1>1, <2>1 DEF RowsInv, Holds
    <2> QED
      BY <2>2, <2>3
  <1>5. CASE ItemStored \/ ItemFailed
    <2>1. /\ pc = "items" /\ i <= Len(batch) /\ i' = i + 1 /\ UNCHANGED <<position, batch, log>>
      BY <1>5 DEF ItemStored, ItemFailed, NextItem, loopVars
    <2>0. PICK item : item = Item
      OBVIOUS
    <2>2. Fetched' = Fetched /\ InBatch' = InBatch /\ Passed' = Passed \cup {item}
      BY <1>0, <2>0, <2>1 DEF Fetched, InBatch, Passed, Item
    <2>3. item \in InBatch /\ item \in Records /\ item[2] \in Nat
      BY <1>0, <2>0, <2>1, ItemType DEF Item, InBatch
    <2>4. ASSUME NEW r \in (Fetched \ InBatch) \cup Passed
          PROVE  Holds(view, r) /\ r \in Fetched /\ r[2] \in Nat
                 /\ (Payload(r).kind = "ok" => r[2] < item[2])
      <3>1. Holds(view, r) /\ r \in Fetched
        BY <1>0, <1>2, <2>1 DEF ViewInv
      <3>2. r[2] \in Nat
        BY <3>1, FetchedFacts
      <3>3. CASE r \in Fetched \ InBatch
        BY <1>0, <2>3, <3>1, <3>2, <3>3 DEF OrderInv
      <3>4. CASE r \in Passed
        <4>1. PICK j \in DOMAIN batch : j < i /\ r = batch[j]
          BY <3>4 DEF Passed
        <4>2. i \in DOMAIN batch
          BY <1>0, <2>1
        <4>3. r[2] < item[2]
          BY <1>0, <2>0, <4>1, <4>2 DEF OrderInv, Item
        <4> QED
          BY <3>1, <3>2, <4>3
      <3> QED
        BY <3>3, <3>4
    <2>5. CASE ItemStored
      <3>1. /\ view' = [view EXCEPT ![Payload(item).aid] = item] /\ Payload(item).kind = "ok"
            /\ Payload(item) \in Payloads
        <4>1. Payload(item) \in Payloads
          <5>1. item[2] < Len(log[item[1]]) /\ item[1] \in Partitions
            BY <1>2, <2>3, FetchedFacts
          <5>2. log[item[1]] \in Seq(Payloads) /\ item[2] + 1 \in 1 .. Len(log[item[1]])
            BY <1>0, <2>3, <5>1 DEF TypeOK
          <5> QED
            BY <5>2 DEF Payload
        <4> QED
          BY <2>0, <2>5, <4>1 DEF ItemStored, Upsert
      <3>2. Payload(item).aid \in AlertIds /\ item # NoRow /\ view \in [AlertIds -> Records \cup {NoRow}]
        BY <1>0, <2>3, <3>1, SinkAssumption DEF Payloads, TypeOK, Records
      <3>3. view'[Payload(item).aid] = item /\ Payload(item)' = Payload(item)
        BY <1>1, <1>2, <2>3, <3>1, <3>2
      <3>4. Holds(view, item)'
        BY <2>3, <3>2, <3>3 DEF Holds
      <3>5. ASSUME NEW r \in (Fetched \ InBatch) \cup Passed PROVE Holds(view, r)'
        <4>1. Holds(view, r) /\ r \in Fetched /\ r[2] \in Nat
              /\ (Payload(r).kind = "ok" => r[2] < item[2])
          BY <2>4
        <4>2. CASE Payload(r).aid = Payload(item).aid
          BY <1>1, <2>3, <3>2, <3>3, <4>1, <4>2 DEF Holds
        <4>3. CASE Payload(r).aid # Payload(item).aid
          <5>1. view'[Payload(r).aid] = view[Payload(r).aid] \/ Payload(r).aid \notin AlertIds
            BY <3>1, <3>2, <4>3
          <5>2. Payload(r).aid \in AlertIds
            <6>1. r[2] < Len(log[r[1]]) /\ r[1] \in Partitions
              BY <1>1, <4>1, FetchedFacts
            <6>2. log[r[1]] \in Seq(Payloads) /\ r[2] + 1 \in 1 .. Len(log[r[1]])
              BY <1>0, <4>1, <6>1 DEF TypeOK
            <6>3. Payload(r) \in Payloads
              BY <6>2 DEF Payload
            <6> QED
              BY <6>3 DEF Payloads
          <5> QED
            BY <1>1, <4>1, <5>1, <5>2 DEF Holds
        <4> QED
          BY <4>2, <4>3
      <3> QED
        BY <2>2, <3>4, <3>5
    <2>6. CASE ItemFailed
      <3>1. view' = view /\ item \in dlq' \cup dropped'
        BY <2>0, <2>6 DEF ItemFailed, DeadLetter
      <3>2. ASSUME NEW r \in (Fetched \ InBatch) \cup Passed PROVE Holds(view, r)'
        BY <1>1, <2>4, <3>1 DEF Holds
      <3> QED
        BY <2>2, <3>1, <3>2 DEF Holds
    <2> QED
      BY <1>5, <2>5, <2>6
  <1> QED
    BY <1>0, <1>3, <1>4, <1>5, RowKinds DEF Fresh, TxnApplied, OffsetsCommitted, PollRecord

LEMMA InitNewest == Init => NewestInv
  <1> SUFFICES ASSUME Init PROVE NewestInv
    OBVIOUS
  <1>1. InBatch = {} /\ Fetched = {} /\ pc = "loop" /\ batch = <<>>
        /\ \A r \in Records : r[1] \in Partitions /\ r[2] \in Nat
        /\ \A p \in Partitions : committed[p] = 0
    BY DEF Init, InBatch, Fetched, Records
  <1> QED
    BY <1>1 DEF NewestInv, OrderInv, RowsInv, ViewInv

\* With one partition and no rebalance, the row of an alert is never behind
\* the records run_sink has finished with, whatever was retried or redelivered:
\* _process_single upserts in the order of the log.
THEOREM SinkRowIsNewest ==
    ASSUME MaxRewinds = 0, \A p, q \in Partitions : p = q
    PROVE  Spec => []RowIsNewest
  <1>1. IInv /\ ForwardInv /\ NewestInv /\ [Next]_vars => NewestInv'
    BY NextOrder, NextRows, NextView DEF NewestInv
  <1>2. IInv /\ NewestInv => RowIsNewest
    <2> SUFFICES ASSUME IInv, NewestInv, NEW p \in Partitions, NEW o \in 0 .. (committed[p] - 1)
                 PROVE  Holds(rows, <<p, o>>)
      BY DEF RowIsNewest, Holds
    <2>1. committed[p] \in Nat
      BY DEF IInv, TypeOK
    <2>2. <<p, o>> \in Records /\ o < committed[p]
      BY <2>1 DEF Records
    <2> QED
      BY <2>2 DEF NewestInv, RowsInv
  <1> QED
    BY <1>1, <1>2, InitForward, InitNewest, NextForward, SinkInvariant, PTL DEF Spec
=============================================================================
