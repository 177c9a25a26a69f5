---------------------------- MODULE StreamAgent -----------------------------
(***************************************************************************)
(* process_traffic of inference/stream_processor_faust.py, seen from its   *)
(* events: the instances of the agent, the semaphores, inference in        *)
(* cpu_executor with its timeout, enrichment through the shared cache,     *)
(* shutdown, crash and redelivery.  What happens to one alert after its    *)
(* enrichment is StreamProcessor's subject and one step here.              *)
(*                                                                         *)
(* Outside the repository: Faust hands out the events of a partition in    *)
(* order, acknowledges an event when the loop body is left, commits the    *)
(* acknowledged prefix now and then, and resumes there after a restart.    *)
(***************************************************************************)
EXTENDS Detection, EnrichmentCache

CONSTANTS
    Event,          \* the events of the partition, in order
    Concurrency,    \* instances of the agent (16)
    Backpressure,   \* backpressure_sem (8)
    InferPending,   \* _infer_pending_sem (8)
    InferPermits,   \* _infer_sem (4)
    CpuWorkers,     \* threads of cpu_executor (4)
    MaxClock,       \* bound: ticks
    MaxStops        \* bound: crashes and shutdowns

ASSUME AgentAssumption ==
    /\ Concurrency \in Nat \ {0} /\ Backpressure \in Nat \ {0} /\ InferPending \in Nat \ {0}
    /\ InferPermits \in Nat \ {0} /\ CpuWorkers \in Nat \ {0}
    /\ MaxClock \in Nat /\ MaxStops \in Nat
    /\ Event \in Seq(ToSet(Event))

Offsets == DOMAIN Event

VARIABLES
    worker,      \* "up", "closing" (the executors are shut down) or "down"
    stops,       \* crashes and shutdowns so far
    clock,
    committed,   \* the group's offset: events 1 .. committed are done with
    phase,       \* phase[e]: where the loop body is with event e
    todo,        \* todo[e]: detections not yet emitted
    job,         \* job[e]: its prediction in cpu_executor
    cache,       \* the enricher's cache
    age,         \* age[e]: age of the intel on the alert being emitted
    emitted,     \* <<event, detection>>: alerts published or dead-lettered
    skipped      \* history: events acknowledged although shutdown cut them off

pools == <<worker, stops, committed, skipped>>
vars == <<worker, stops, clock, committed, phase, todo, job, cache, age, emitted, skipped>>

Phases == {"topic", "gate", "pending", "permit", "infer", "enrich", "lookup", "emit", "done", "cut"}

In(phases) == {e \in Offsets : phase[e] \in phases}

\* Who holds which semaphore.
InBody == In({"pending", "permit", "infer", "enrich", "lookup", "emit"})
HoldsPending == In({"permit", "infer"})
HoldsPermit == In({"infer"})

Init ==
    /\ worker = "up" /\ stops = 0 /\ clock = 0 /\ committed = 0
    /\ phase = [e \in Offsets |-> "topic"]
    /\ todo = [e \in Offsets |-> {}]
    /\ job = [e \in Offsets |-> "none"]
    /\ cache = <<>>
    /\ age = [e \in Offsets |-> 0]
    /\ emitted = {} /\ skipped = {}

Goto(e, where) == phase' = [phase EXCEPT ![e] = where]

\* With these detections left, the body goes on or ends.
Loop(e, detections) ==
    /\ todo' = [todo EXCEPT ![e] = detections]
    /\ Goto(e, IF detections = {} THEN "done" ELSE "enrich")

-----------------------------------------------------------------------------
\* async for: an idle instance takes the next event.
Take(e) ==
    /\ worker = "up" /\ phase[e] = "topic" /\ \A f \in 1 .. (e - 1) : phase[f] # "topic"
    /\ Cardinality(InBody \cup In({"gate"})) < Concurrency
    /\ Goto(e, "gate")
    /\ UNCHANGED <<pools, clock, todo, job, cache, age, emitted>>

\* Inside backpressure_sem: features, then rules, then inference or the alerts.
Admit(e) ==
    /\ phase[e] = "gate" /\ Cardinality(InBody) < Backpressure
    /\ IF FeaturesRaise(Event[e]) THEN Loop(e, {})
       ELSE IF NeedsInference(Event[e])
       THEN todo' = [todo EXCEPT ![e] = EvaluateRules(Event[e])] /\ Goto(e, "pending")
       ELSE Loop(e, EvaluateRules(Event[e]))
    /\ UNCHANGED <<pools, clock, job, cache, age, emitted>>

AcquirePending(e) ==
    /\ phase[e] = "pending" /\ Cardinality(HoldsPending) < InferPending
    /\ Goto(e, "permit")
    /\ UNCHANGED <<pools, clock, todo, job, cache, age, emitted>>

\* run_in_executor; once the pool is shut down it raises, which is logged.
Submit(e) ==
    /\ phase[e] = "permit" /\ Cardinality(HoldsPermit) < InferPermits
    /\ \/ /\ worker = "up"
          /\ job' = [job EXCEPT ![e] = "queued"] /\ Goto(e, "infer") /\ UNCHANGED todo
       \/ worker = "closing" /\ Loop(e, todo[e]) /\ UNCHANGED job
    /\ UNCHANGED <<pools, clock, cache, age, emitted>>

JobStart(e) ==
    /\ job[e] = "queued" /\ Cardinality({f \in Offsets : job[f] = "running"}) < CpuWorkers
    /\ job' = [job EXCEPT ![e] = "running"]
    /\ UNCHANGED <<pools, clock, phase, todo, cache, age, emitted>>

\* predict returns (it catches its own exceptions): to the body that waits for
\* it, or to nobody.
PredictReturns(e) ==
    /\ job[e] = "running"
    /\ job' = [job EXCEPT ![e] = "none"]
    /\ IF phase[e] = "infer"
       THEN \E found \in {{}, {DlDetection}} : Loop(e, todo[e] \cup found)
       ELSE UNCHANGED <<phase, todo>>
    /\ UNCHANGED <<pools, clock, cache, age, emitted>>

\* wait_for gives up after 5 s: a queued prediction is cancelled, a running one
\* keeps its thread.  The rules' detections go on without the model.
NoTimeout(e) == FALSE
DropOnTimeout(e) ==
    /\ phase[e] = "infer"
    /\ job' = [job EXCEPT ![e] = IF @ = "queued" THEN "none" ELSE @]
    /\ Loop(e, {})
    /\ UNCHANGED <<pools, clock, cache, age, emitted>>
InferenceTimeout(e) ==
    /\ phase[e] = "infer"
    /\ job' = [job EXCEPT ![e] = IF @ = "queued" THEN "none" ELSE @]
    /\ Loop(e, todo[e])
    /\ UNCHANGED <<pools, clock, cache, age, emitted>>

-----------------------------------------------------------------------------
\* enrich up to the HTTP call: the cache, or no lookup for this address.
Enrich(e) ==
    LET ip == Event[e].ip
        served == Served(cache, ip, clock)
    IN  /\ phase[e] = "enrich"
        /\ IF ~IsLookedUp(Event[e])
           THEN Goto(e, "emit") /\ UNCHANGED <<cache, age>>
           ELSE IF served = {}
           THEN Goto(e, "lookup") /\ cache' = Dropped(cache, ip) /\ UNCHANGED age
           ELSE \E entry \in served :
                    /\ Goto(e, "emit")
                    /\ cache' = Touch(cache, entry, clock)
                    /\ age' = [age EXCEPT ![e] = clock - entry.got]
        /\ UNCHANGED <<pools, clock, todo, job, emitted>>

\* The service answers: a good answer is cached, one beyond 64 KB is rejected.
LookupAnswers(e) ==
    /\ phase[e] = "lookup" /\ worker = "up"
    /\ cache' \in {cache, SetCached(cache, Event[e].ip, TRUE, clock)}
    /\ Goto(e, "emit")
    /\ UNCHANGED <<pools, clock, todo, job, age, emitted>>

\* It fails, times out or is closed: the fallback is cached in its place.
LookupFails(e) ==
    /\ phase[e] = "lookup"
    /\ cache' = SetCached(cache, Event[e].ip, FALSE, clock)
    /\ Goto(e, "emit")
    /\ UNCHANGED <<pools, clock, todo, job, age, emitted>>

\* One detection is published or dead-lettered (StreamProcessor).
Emit(e) ==
    /\ phase[e] = "emit"
    /\ \E d \in todo[e] :
          /\ emitted' = emitted \cup {<<e, d>>}
          /\ Loop(e, todo[e] \ {d})
    /\ age' = [age EXCEPT ![e] = 0]
    /\ UNCHANGED <<pools, clock, job, cache>>

-----------------------------------------------------------------------------
AckHighest(done) == IF done = {} THEN 0 ELSE Max(done)
AckPrefix(done) == Max({n \in 0 .. Len(Event) : 1 .. n \subseteq done})

Commit ==
    /\ worker # "down" /\ committed < AckPrefix(In({"done"}))
    /\ committed' = AckPrefix(In({"done"}))
    /\ UNCHANGED <<worker, stops, clock, phase, todo, job, cache, age, emitted, skipped>>

\* _on_before_shutdown: every submitted future is cancelled and the pools take
\* no more.  The CancelledError passes the except clauses of the body, which
\* ends there; leaving the loop may acknowledge its event.  A body that is
\* publishing is cut off only where it waits for its correlation.
Shutdown ==
    /\ worker = "up" /\ stops < MaxStops
    /\ worker' = "closing" /\ stops' = stops + 1
    /\ \E cut \in SUBSET In({"infer", "emit"}), acked \in SUBSET Offsets :
          /\ HoldsPermit \subseteq cut /\ acked \subseteq cut
          /\ phase' = [e \in Offsets |-> IF e \in acked THEN "done"
                                         ELSE IF e \in cut THEN "cut" ELSE phase[e]]
          /\ todo' = [e \in Offsets |-> IF e \in cut THEN {} ELSE todo[e]]
          /\ skipped' = skipped \cup acked
    /\ job' = [e \in Offsets |-> IF job[e] = "queued" THEN "none" ELSE job[e]]
    /\ UNCHANGED <<clock, committed, cache, age, emitted>>

\* The process ends, after a shutdown or by a crash: what is left is Kafka's.
Down ==
    /\ worker = "closing" \/ (worker = "up" /\ stops < MaxStops)
    /\ worker' = "down"
    /\ stops' = IF worker = "up" THEN stops + 1 ELSE stops
    /\ phase' = [e \in Offsets |-> IF e <= committed THEN "done" ELSE "topic"]
    /\ todo' = [e \in Offsets |-> {}]
    /\ job' = [e \in Offsets |-> "none"]
    /\ cache' = <<>>
    /\ age' = [e \in Offsets |-> 0]
    /\ skipped' = skipped \cap 1 .. committed
    /\ UNCHANGED <<clock, committed, emitted>>

Restart ==
    /\ worker = "down" /\ worker' = "up"
    /\ UNCHANGED <<stops, clock, committed, phase, todo, job, cache, age, emitted, skipped>>

\* Time shows only in the cache.
Tick ==
    /\ cache # <<>> /\ clock < MaxClock /\ clock' = clock + 1
    /\ UNCHANGED <<pools, phase, todo, job, cache, age, emitted>>

-----------------------------------------------------------------------------
Body(e) ==
    \/ Admit(e) \/ AcquirePending(e) \/ Submit(e) \/ InferenceTimeout(e)
    \/ Enrich(e) \/ LookupAnswers(e) \/ LookupFails(e) \/ Emit(e)

Next ==
    \/ \E e \in Offsets : Take(e) \/ Body(e) \/ JobStart(e) \/ PredictReturns(e)
    \/ Commit \/ Shutdown \/ Down \/ Restart \/ Tick

Spec == Init /\ [][Next]_vars

\* The event loop runs every body that can go on, timers fire, the HTTP client
\* gives up after 2 s, Faust commits, a closing process ends and is restarted.
\* Nothing is assumed of the predictions: a thread may never return.
Fairness ==
    /\ \A e \in Offsets : WF_vars(Take(e)) /\ WF_vars(Body(e))
    /\ WF_vars(Commit) /\ WF_vars(Restart)
    /\ WF_vars(Down /\ worker = "closing")

FairSpec == Spec /\ Fairness

-----------------------------------------------------------------------------
(***************************************************************************)
(* Type invariant of the agent.  The cache holds an address once and keeps *)
(* within its limit.                                                       *)
(***************************************************************************)
TypeOK ==
    /\ worker \in {"up", "closing", "down"} /\ stops \in 0 .. MaxStops
    /\ clock \in 0 .. MaxClock /\ committed \in 0 .. Len(Event)
    /\ phase \in [Offsets -> Phases] /\ job \in [Offsets -> {"none", "queued", "running"}]
    /\ skipped \subseteq Offsets
    /\ Len(cache) <= MaxCacheSize
    /\ \A i, j \in DOMAIN cache : cache[i].ip = cache[j].ip => i = j
    /\ Cardinality(HoldsPermit) <= InferPermits /\ Cardinality(InBody) <= Backpressure

RuleDetections(e) == IF FeaturesRaise(Event[e]) THEN {} ELSE EvaluateRules(Event[e])

(***************************************************************************)
(* No committed event keeps a rule detection to itself: whatever crashed,  *)
(* timed out, hung or was redelivered, its alerts were published or        *)
(* dead-lettered.  The exception is an event that shutdown cut off and     *)
(* whose acknowledgement went out all the same.                            *)
(***************************************************************************)
NoEventLost ==
    \A e \in 1 .. committed : e \in skipped \/ {e} \X RuleDetections(e) \subseteq emitted

(***************************************************************************)
(* Intel shown with an alert is younger than the cache's time to live,     *)
(* however often the entry was used: a fallback that replaced the          *)
(* service's answer is outlived by no alert.                               *)
(***************************************************************************)
IntelIsFresh == \A e \in Offsets : age[e] < CacheTtl

(***************************************************************************)
(* Every event is eventually done with and committed, even when the model  *)
(* hangs in every thread of the pool and the intel service never answers.  *)
(***************************************************************************)
EveryEventHandled == <>(committed = Len(Event))
=============================================================================
