------------------------------- MODULE Tailer -------------------------------
(***************************************************************************)
(* ingest/tail_to_redpanda.py: one thread per Zeek log reads lines from    *)
(* `tail -F` and hands them to one shared KafkaProducer.                   *)
(*                                                                         *)
(* A line is abstracted to its kind:                                       *)
(*   "blank"    empty after strip,                                         *)
(*   "garbled"  bytes the pipe's text decoder refuses,                     *)
(*   "valid"    JSON that validate_zeek_event accepts,                     *)
(*   "refused"  any other text.                                            *)
(* A line is named <<f, n>>: the n-th line of log f.  The producer is      *)
(* outside the repository: send() raises (no metadata, or the buffer stays *)
(* full, for max_block_ms) or returns a future that nobody looks at; its   *)
(* retries are the producer's own.                                         *)
(***************************************************************************)
EXTENDS Integers, Sequences, FiniteSets

CONSTANTS
    Logs,          \* log types: conn, dns, ssl
    LineKinds,     \* the kinds of lines that occur
    MaxLines,      \* bound: MaxLines[f] lines in log f
    MaxDeaths      \* bound: tail processes that die

ASSUME TailerAssumption ==
    /\ LineKinds \subseteq {"blank", "garbled", "valid", "refused"}
    /\ MaxLines \in [Logs -> Nat] /\ MaxDeaths \in Nat

VARIABLES
    log,        \* log[f]: the kinds of the lines written so far
    reader,     \* reader[f]: where its process_log is
    pos,        \* pos[f]: lines readline has returned
    eof,        \* logs whose tail died: the pipe is at its end
    buffered,   \* records send() queued: <<topic, f, n>>
    topics,     \* records in a topic: <<topic, f, n>>
    printed,    \* lines whose only trace is a line printed by the tailer
    undelivered, \* history: records the producer gave up on
    process     \* "running", "stopping" (in handle_sigint), "exited"

tailerVars == <<log, reader, pos, eof, buffered, topics, printed, undelivered, process>>

Kind(f) == log[f][pos[f]]
Valid(k) == k = "valid"
Garbled(f, n) == log[f][n] = "garbled"

TailerInit ==
    /\ log = [f \in Logs |-> <<>>]
    /\ reader = [f \in Logs |-> "head"] /\ pos = [f \in Logs |-> 0]
    /\ eof = {} /\ buffered = {} /\ topics = {} /\ printed = {} /\ undelivered = {}
    /\ process = "running"

Goto(f, where) == reader' = [reader EXCEPT ![f] = where]

-----------------------------------------------------------------------------
\* Zeek writes a line; what it writes after the tailer's exit concerns nobody.
WriteLine(f, k) ==
    /\ process # "exited" /\ Len(log[f]) < MaxLines[f]
    /\ log' = [log EXCEPT ![f] = Append(@, k)]
    /\ UNCHANGED <<eof, reader, pos, buffered, topics, printed, undelivered, process>>

\* while running: then readline, which blocks until there is a line, a signal
\* or not.
LoopHead(f) ==
    /\ process = "running" /\ reader[f] = "head"
    /\ Goto(f, "reading")
    /\ UNCHANGED <<eof, log, pos, buffered, topics, printed, undelivered, process>>

\* readline returns; a blank line is skipped.
NextLine(n) == n + 1

ReadLine(f) ==
    /\ process # "exited" /\ reader[f] = "reading"
    /\ f \notin eof /\ pos[f] < Len(log[f]) /\ ~Garbled(f, pos[f] + 1)
    /\ pos' = [pos EXCEPT ![f] = NextLine(@)]
    /\ Goto(f, IF log[f][pos[f] + 1] = "blank" THEN "head" ELSE "parsing")
    /\ UNCHANGED <<eof, log, buffered, topics, printed, undelivered, process>>

\* readline raises UnicodeDecodeError: it decodes the pipe in chunks, so that a
\* garbled line also takes those before it in its chunk.  The call is outside
\* the inner try; the outer handler prints the error and the thread ends.
ReadRaises(f) ==
    /\ process # "exited" /\ reader[f] = "reading" /\ f \notin eof
    /\ \E n \in (pos[f] + 1) .. Len(log[f]) : Garbled(f, n)
    /\ Goto(f, "ended")
    /\ UNCHANGED <<eof, log, pos, buffered, topics, printed, undelivered, process>>

\* tail dies (in the order the reader sees it, after the last line it piped);
\* nobody starts another.
TailDies(f) ==
    /\ process # "exited" /\ f \notin eof /\ Cardinality(eof) < MaxDeaths
    /\ eof' = eof \cup {f}
    /\ UNCHANGED <<log, reader, pos, buffered, topics, printed, undelivered, process>>

\* readline returns the empty string: sleep, and look at running again.
EmptyRead(f) ==
    /\ process # "exited" /\ reader[f] = "reading" /\ f \in eof
    /\ Goto(f, "head")
    /\ UNCHANGED <<log, pos, eof, buffered, topics, printed, undelivered, process>>

\* json.loads and validate_zeek_event, then the enrichment.
IgnoresRefused(k) == IF Valid(k) THEN "publishing" ELSE "head"
Route(k) == IF Valid(k) THEN "publishing" ELSE "rejecting"

Parse(f) ==
    /\ process # "exited" /\ reader[f] = "parsing"
    /\ Goto(f, Route(Kind(f)))
    /\ UNCHANGED <<eof, log, pos, buffered, topics, printed, undelivered, process>>

\* json.loads raises what is no ValueError (a RecursionError on deep nesting):
\* counted, printed, the loop goes on.
ParseRaises(f) ==
    /\ process # "exited" /\ reader[f] = "parsing" /\ ~Valid(Kind(f))
    /\ printed' = printed \cup {<<f, pos[f]>>}
    /\ Goto(f, "head")
    /\ UNCHANGED <<eof, log, pos, buffered, topics, undelivered, process>>

\* producer.send("raw_traffic") returns and the record counts as published.
Publish(f) ==
    /\ process # "exited" /\ reader[f] = "publishing"
    /\ buffered' = buffered \cup {<<"raw_traffic", f, pos[f]>>}
    /\ Goto(f, "head")
    /\ UNCHANGED <<eof, log, pos, topics, printed, undelivered, process>>

\* Where a failed publication leaves the reader: the handler keeps the loop.
EndsOnSendError == "ended"
KeepsReading == "head"

\* producer.send("raw_traffic") raises: counted, printed, the loop goes on.
PublishRaises(f) ==
    /\ process # "exited" /\ reader[f] = "publishing"
    /\ printed' = printed \cup {<<f, pos[f]>>}
    /\ Goto(f, KeepsReading)
    /\ UNCHANGED <<eof, log, pos, buffered, topics, undelivered, process>>

\* producer.send("dead_letter_events") in the handler of a refused line.
Reject(f) ==
    /\ process # "exited" /\ reader[f] = "rejecting"
    /\ buffered' = buffered \cup {<<"dead_letter_events", f, pos[f]>>}
    /\ Goto(f, "head")
    /\ UNCHANGED <<eof, log, pos, topics, printed, undelivered, process>>

\* The same call raises: it is inside an except clause, so only the outer
\* handler catches it, and the thread ends.
RejectRaises(f) ==
    /\ process # "exited" /\ reader[f] = "rejecting"
    /\ printed' = printed \cup {<<f, pos[f]>>}
    /\ Goto(f, "ended")
    /\ UNCHANGED <<eof, log, pos, buffered, topics, undelivered, process>>

\* The loop's condition after a signal: the thread reaps tail and ends.
Stop(f) ==
    /\ process = "stopping" /\ reader[f] = "head"
    /\ Goto(f, "ended")
    /\ UNCHANGED <<eof, log, pos, buffered, topics, printed, undelivered, process>>

-----------------------------------------------------------------------------
\* The record is acknowledged (acks='all'), or the future nobody holds fails: the
\* retries run out, or the record is larger than max_request_size, for which
\* send() does not raise but returns a future that has failed already.
Deliver(r) ==
    /\ process # "exited" /\ r \in buffered
    /\ buffered' = buffered \ {r}
    /\ topics' = topics \cup {r}
    /\ UNCHANGED <<eof, log, reader, pos, printed, undelivered, process>>

ProducerGivesUp(r) ==
    /\ process # "exited" /\ r \in buffered
    /\ buffered' = buffered \ {r}
    /\ undelivered' = undelivered \cup {r}
    /\ UNCHANGED <<eof, log, reader, pos, topics, printed, process>>

\* handle_sigint: running = False, then flush, then exit.  The readers are
\* daemon threads and die with the process.
Sigint ==
    /\ process = "running"
    /\ process' = "stopping"
    /\ UNCHANGED <<eof, log, reader, pos, buffered, topics, printed, undelivered>>

\* flush returned or its 5 s are over: what is still queued is gone.
Exit ==
    /\ process = "stopping"
    /\ process' = "exited"
    /\ buffered' = {}
    /\ UNCHANGED <<eof, log, reader, pos, topics, printed, undelivered>>

-----------------------------------------------------------------------------
ProcessLog(f) ==
    \/ LoopHead(f) \/ ReadLine(f) \/ ReadRaises(f) \/ EmptyRead(f)
    \/ Parse(f) \/ ParseRaises(f) \/ Publish(f) \/ PublishRaises(f) \/ Reject(f) \/ RejectRaises(f) \/ Stop(f)

TailerNext ==
    \/ \E f \in Logs : ProcessLog(f) \/ TailDies(f)
    \/ \E f \in Logs, k \in LineKinds : WriteLine(f, k)
    \/ \E r \in buffered : Deliver(r) \/ ProducerGivesUp(r)
    \/ Sigint \/ Exit

TailerSpec == TailerInit /\ [][TailerNext]_tailerVars

-----------------------------------------------------------------------------
Topics == {"raw_traffic", "dead_letter_events"}

(***************************************************************************)
(* Type invariant of the tailer.                                           *)
(***************************************************************************)
TailerTypeOK ==
    /\ log \in [Logs -> Seq(LineKinds)]
    /\ reader \in [Logs -> {"head", "reading", "parsing", "publishing", "rejecting", "ended"}]
    /\ pos \in [Logs -> Nat] /\ \A f \in Logs : pos[f] <= Len(log[f])
    /\ buffered \cup topics \cup undelivered \subseteq Topics \X Logs \X Nat
    /\ printed \subseteq Logs \X Nat /\ eof \subseteq Logs
    /\ process \in {"running", "stopping", "exited"}

(***************************************************************************)
(* A line is never dropped between the pipe and the topics: while the      *)
(* process lives, every line readline gave is blank, in hand, queued, in   *)
(* exactly the topic its validity calls for, or reported on standard       *)
(* output, unless the producer itself gave up on it.                       *)
(***************************************************************************)
Destination(k) == IF Valid(k) THEN "raw_traffic" ELSE "dead_letter_events"
Traced(f, n) ==
    \/ log[f][n] = "blank" \/ <<f, n>> \in printed
    \/ <<Destination(log[f][n]), f, n>> \in buffered \cup topics \cup undelivered
InHand(f, n) == n = pos[f] /\ reader[f] \in {"parsing", "publishing", "rejecting"}

NoLineDropped ==
    process # "exited" =>
        \A f \in Logs : \A n \in 1 .. pos[f] : Traced(f, n) \/ InHand(f, n)

-----------------------------------------------------------------------------
(***************************************************************************)
(* Fairness: the reader threads are scheduled.                             *)
(***************************************************************************)
FairSpec == TailerSpec /\ \A f \in Logs : WF_tailerVars(ProcessLog(f))

(***************************************************************************)
(* "A Kafka-side failure on ONE line must not escape the loop": every line *)
(* of a log is eventually read, whatever its publication and the rejection *)
(* of the lines before it did, and whatever happens to the other logs,     *)
(* unless a signal arrives first.  Three things do stop a log for good     *)
(* while the process runs on: the death of its tail, a refused line whose  *)
(* dead letter could not be sent, and a garbled line ahead.                *)
(***************************************************************************)
Stopped(f) ==
    \/ f \in eof
    \/ reader[f] = "ended" /\ <<f, pos[f]>> \in printed /\ ~Valid(Kind(f))
    \/ \E m \in (pos[f] + 1) .. Len(log[f]) : Garbled(f, m)

LinesAreRead ==
    []<>(process # "running" \/ \A f \in Logs : pos[f] = Len(log[f]) \/ Stopped(f))
=============================================================================
