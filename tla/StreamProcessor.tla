-------------------------- MODULE StreamProcessor ---------------------------
(***************************************************************************)
(* inference/stream_processor_faust.py: what process_traffic does with a   *)
(* detection, from the alert's publication to its correlation in Redis and *)
(* the incident or dead letter that results.  One task per detection: the  *)
(* agent runs up to 16 of them, interleaved at every await, and each hands *)
(* its blocking Redis call to a thread of io_executor, which a timeout of  *)
(* the awaiting task does not stop.                                        *)
(*                                                                         *)
(* Outside the repository: Kafka (a publication that fails or times out    *)
(* may have reached the broker), Redis and its client, the dead-letter     *)
(* replay (it hands the alert in again with is_replay set, the flag        *)
(* _send_dlq_safely puts on it).                                           *)
(***************************************************************************)
EXTENDS CorrelationScripts

CONSTANTS
    Tasks,         \* the detections
    AlertOf,       \* AlertOf[t]: the alert built from detection t
    IoWorkers,     \* io_executor's max_workers
    MaxReplays,    \* bound: replays of a dead letter
    MaxFaults      \* bound: faults in a behaviour

FaultKinds == {
    "badAlert",    \* validate_alert refuses an alert the processor built
    "stall",       \* a Redis call outlives the 5 s its task waits for it
    "lostAnswer",  \* Redis runs the script, its answer is lost (socket timeout)
    "rollback",    \* the compensating rollback fails (swallowed and logged)
    "notMaster",   \* check_redis_master says no, or cannot reach Redis
    "dlqDisk" }    \* the local dead-letter file cannot be written

\* Alerts are told apart by their ids (uuid4), built without the replay flag.
ASSUME ProcessorAssumption ==
    /\ IoWorkers \in Nat \ {0} /\ MaxReplays \in Nat /\ MaxFaults \in Nat
    /\ AlertOf \in [Tasks -> [id : Nat, threat : Threats, sev : Nat \ {0}, replay : {FALSE}]]
    /\ \A t, u \in Tasks : AlertOf[t].id = AlertOf[u].id => t = u

VARIABLES
    faults,      \* history: the faults so far, <<kind, task>>
    redis,       \* the correlation keys
    task,        \* task[t]: where the coroutine is
    job,         \* job[t]: its add_alert call in io_executor
    published,   \* tasks whose alert is in security_alerts
    incidents,   \* tasks whose incident is in the incidents topic
    dlq,         \* tasks whose alert waits in the dead-letter topic or file
    logged,      \* tasks whose dead letter could not be written anywhere
    replays      \* replays[t]

vars == <<faults, redis, task, job, published, incidents, dlq, logged, replays>>

TaskStates == {"new", "publish", "correlate", "send", "undoSend", "undo", "deadLetter", "done"}
JobStates == {"none", "queued", "running", "incident", "quiet", "error"}

Init ==
    /\ faults = {}
    /\ redis = NoKeys
    /\ task = [t \in Tasks |-> "new"]
    /\ job = [t \in Tasks |-> "none"]
    /\ published = {} /\ incidents = {} /\ dlq = {} /\ logged = {}
    /\ replays = [t \in Tasks |-> 0]

\* The alert as handed to the correlator: a replay carries the flag.
Alert(t) == [AlertOf[t] EXCEPT !.replay = replays[t] > 0]

Goto(t, where) == task' = [task EXCEPT ![t] = where]

Fault(kind, t) ==
    /\ faults' = faults \cup {<<kind, t>>}
    /\ Cardinality(faults') <= MaxFaults

\* Alerts the schema gate refused; a replay would be refused again.
Refused == {t \in Tasks : <<"badAlert", t>> \in faults}

-----------------------------------------------------------------------------
\* Enrichment, then the schema gate.
Validate(t) ==
    /\ task[t] = "new"
    /\ \/ Goto(t, "publish") /\ UNCHANGED faults
       \/ Goto(t, "deadLetter") /\ Fault("badAlert", t)
    /\ UNCHANGED <<redis, job, published, incidents, dlq, logged, replays>>

\* alerts_topic.send acknowledged: only now the correlation is submitted.
PublishOk(t) ==
    /\ task[t] = "publish"
    /\ published' = published \cup {t}
    /\ Goto(t, "correlate")
    /\ job' = [job EXCEPT ![t] = "queued"]
    /\ UNCHANGED <<redis, incidents, dlq, logged, replays, faults>>

\* A timeout or an error; the broker may have the record all the same.
CorrelateAnyway(t) == job' = [job EXCEPT ![t] = "queued"]
SkipCorrelation(t) == UNCHANGED job

GiveUp == "done"
AfterPublishFailure == "deadLetter"

PublishFail(t) ==
    /\ task[t] = "publish"
    /\ published' \in {published, published \cup {t}}
    /\ Goto(t, AfterPublishFailure)
    /\ SkipCorrelation(t)
    /\ UNCHANGED <<redis, incidents, dlq, logged, replays, faults>>

-----------------------------------------------------------------------------
(***************************************************************************)
(* io_executor's side: add_alert in a worker thread.                       *)
(***************************************************************************)
WorkerFree == Cardinality({u \in Tasks : job[u] = "running"}) < IoWorkers

JobStart(t) ==
    /\ job[t] = "queued" /\ WorkerFree
    /\ job' = [job EXCEPT ![t] = "running"]
    /\ UNCHANGED <<redis, task, published, incidents, dlq, logged, replays, faults>>

Answered(t, r) == IF r.incident THEN "incident" ELSE "quiet"

\* The script runs and its answer arrives.
JobRun(t) ==
    LET r == Correlate(redis, Alert(t))
    IN  /\ job[t] = "running"
        /\ redis' = r.redis
        /\ job' = [job EXCEPT ![t] = Answered(t, r)]
        /\ UNCHANGED <<task, published, incidents, dlq, logged, replays, faults>>

\* The socket times out after the script ran: the client (retry_on_timeout)
\* sends it once more.  The second attempt is answered, or it is lost too,
\* having run or not, and the TimeoutError, a RedisError, is raised.
JobRetried(t) ==
    LET first == Correlate(redis, Alert(t))
        second == Correlate(first.redis, Alert(t))
    IN  /\ job[t] = "running" /\ Fault("lostAnswer", t)
        /\ \/ redis' = second.redis /\ job' = [job EXCEPT ![t] = Answered(t, second)]
           \/ redis' \in {first.redis, second.redis} /\ job' = [job EXCEPT ![t] = "error"]
        /\ UNCHANGED <<task, published, incidents, dlq, logged, replays>>

\* RedisError before the script ran.
JobError(t) ==
    /\ job[t] = "running"
    /\ job' = [job EXCEPT ![t] = "error"]
    /\ UNCHANGED <<redis, task, published, incidents, dlq, logged, replays, faults>>

\* check_redis_master says no: add_alert returns None without touching Redis.
\* The alert is in security_alerts but takes no part in correlation.
JobSkipped(t) ==
    /\ job[t] = "running" /\ Fault("notMaster", t)
    /\ job' = [job EXCEPT ![t] = "quiet"]
    /\ UNCHANGED <<redis, task, published, incidents, dlq, logged, replays>>

-----------------------------------------------------------------------------
(***************************************************************************)
(* The task's side of the correlation.                                     *)
(***************************************************************************)
AfterCorrelation ==
    [incident |-> "send", quiet |-> "done", error |-> "deadLetter"]

Correlated(t) ==
    /\ task[t] = "correlate" /\ job[t] \in DOMAIN AfterCorrelation
    /\ Goto(t, AfterCorrelation[job[t]])
    /\ job' = [job EXCEPT ![t] = "none"]
    /\ UNCHANGED <<redis, published, incidents, dlq, logged, replays, faults>>

\* wait_for gives up after 5 s: a queued call is cancelled, a running one is
\* abandoned and goes on.
CorrelationTimeout(t) ==
    /\ task[t] = "correlate"
    /\ \/ job[t] = "queued" /\ job' = [job EXCEPT ![t] = "none"] /\ UNCHANGED faults
       \/ job[t] = "running" /\ Fault("stall", t) /\ UNCHANGED job
    /\ Goto(t, "undo")
    /\ UNCHANGED <<redis, published, incidents, dlq, logged, replays>>

\* The answer of an abandoned call is dropped.
AbandonedAnswer(t) ==
    /\ task[t] # "correlate" /\ job[t] \in DOMAIN AfterCorrelation
    /\ job' = [job EXCEPT ![t] = "none"]
    /\ UNCHANGED <<redis, task, published, incidents, dlq, logged, replays, faults>>

SendOk(t) ==
    /\ task[t] = "send"
    /\ incidents' = incidents \cup {t}
    /\ Goto(t, "done")
    /\ UNCHANGED <<redis, job, published, dlq, logged, replays, faults>>

\* incidents_topic.send fails or times out (and may have been delivered).
NoUndo == "deadLetter"
AfterSendFailure == "undoSend"

SendFail(t) ==
    /\ task[t] = "send"
    /\ incidents' \in {incidents, incidents \cup {t}}
    /\ Goto(t, AfterSendFailure)
    /\ UNCHANGED <<redis, job, published, dlq, logged, replays, faults>>

\* rollback_alert_seen in a worker thread; it never raises.  A send that timed
\* out is re-raised as a TimeoutError and rolled back a second time.
Undo(t) ==
    /\ task[t] \in {"undoSend", "undo"}
    /\ \/ redis' = Rollback(redis, Alert(t)) /\ UNCHANGED faults
       \/ Fault("rollback", t) /\ UNCHANGED redis
    /\ \/ Goto(t, "deadLetter")
       \/ task[t] = "undoSend" /\ Goto(t, "undo")
    /\ UNCHANGED <<job, published, incidents, dlq, logged, replays>>

\* _send_dlq_safely: the topic, else the local file, else a log line.
DeadLetter(t) ==
    /\ task[t] = "deadLetter"
    /\ Goto(t, "done")
    /\ \/ dlq' = dlq \cup {t} /\ UNCHANGED <<logged, faults>>
       \/ Fault("dlqDisk", t) /\ logged' = logged \cup {t} /\ UNCHANGED dlq
    /\ UNCHANGED <<redis, job, published, incidents, replays>>

\* The dead-letter replay: the alert is handed to the correlator again.
Replay(t) ==
    /\ t \in dlq /\ task[t] = "done" /\ job[t] = "none"
    /\ t \notin Refused /\ replays[t] < MaxReplays
    /\ dlq' = dlq \ {t}
    /\ replays' = [replays EXCEPT ![t] = @ + 1]
    /\ published' = published \cup {t}
    /\ Goto(t, "correlate")
    /\ job' = [job EXCEPT ![t] = "queued"]
    /\ UNCHANGED <<redis, incidents, logged, faults>>

-----------------------------------------------------------------------------
Task(t) ==
    \/ Validate(t) \/ PublishOk(t) \/ PublishFail(t) \/ Correlated(t)
    \/ CorrelationTimeout(t) \/ AbandonedAnswer(t) \/ SendOk(t) \/ SendFail(t)
    \/ Undo(t) \/ DeadLetter(t)

Worker(t) == JobStart(t) \/ JobRun(t) \/ JobRetried(t) \/ JobError(t) \/ JobSkipped(t)

Next == \E t \in Tasks : Task(t) \/ Worker(t) \/ Replay(t)

Spec == Init /\ [][Next]_vars

-----------------------------------------------------------------------------
(***************************************************************************)
(* Type invariant of the stream processor.                                 *)
(***************************************************************************)
TypeOK ==
    /\ task \in [Tasks -> TaskStates] /\ job \in [Tasks -> JobStates]
    /\ faults \subseteq FaultKinds \X Tasks
    /\ published \subseteq Tasks /\ incidents \subseteq Tasks
    /\ dlq \subseteq Tasks /\ logged \subseteq Tasks
    /\ replays \in [Tasks -> 0 .. MaxReplays]
    /\ Cardinality({t \in Tasks : job[t] = "running"}) <= IoWorkers

InWindow == {t \in Tasks : \E j \in DOMAIN redis.list : redis.list[j].id = AlertOf[t].id}

(***************************************************************************)
(* "Two-Phase Commit safety": Redis knows an alert only when the alert is  *)
(* in security_alerts, so that no incident is built on an alert nobody can *)
(* look up.                                                                *)
(***************************************************************************)
CorrelatedImpliesPublished == InWindow \cup incidents \subseteq published

(***************************************************************************)
(* No detection disappears: a finished task has published its alert or     *)
(* left a dead letter or, when even the local file failed, a log line.     *)
(***************************************************************************)
NoDetectionLost ==
    \A t \in Tasks : task[t] = "done" => t \in published \cup dlq \cup logged

\* Nothing is in flight and no dead letter is left to replay.
Settled ==
    /\ \A t \in Tasks : task[t] = "done" /\ job[t] = "none"
    /\ dlq \subseteq Refused /\ logged = {}

OnlyFaults(kinds) == faults \subseteq kinds \X Tasks

\* Two or more alerts of the source address are in the window and every dead
\* letter has been replayed: an incident is in the incidents topic.
Reported == Settled /\ redis.cnt >= 2 => incidents # {}

(***************************************************************************)
(* A burst is reported: as long as no other fault was met, two alerts  *)
(* in the window mean an incident in the topic, whatever sends failed,     *)
(* timed out or were rolled back on the way, however long a correlation    *)
(* waited for a worker and in whatever order the tasks ran.                *)
(***************************************************************************)
BurstReported == OnlyFaults({"badAlert"}) => Reported

(***************************************************************************)
(* The comment at the timeout handler claims the same of calls that stall: *)
(* "compensating rollback so abandoned thread results in Redis do not lock *)
(* out DLQ replay".                                                        *)
(***************************************************************************)
StalledCallsCompensated == OnlyFaults({"stall"}) => Reported

(***************************************************************************)
(* Once nothing is in flight, an alert that waits for replay is not in the *)
(* window, so that its replay counts it once.                              *)
(***************************************************************************)
DeadLettersAreRolledBack ==
    OnlyFaults({"badAlert"}) /\ (\A t \in Tasks : task[t] = "done" /\ job[t] = "none")
        => InWindow \cap dlq = {}
=============================================================================
