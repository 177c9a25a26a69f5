------------------------- MODULE CorrelationWindow --------------------------
(***************************************************************************)
(* The correlator's sliding window in Redis as its callers move it: alerts *)
(* are added (add_alert), handed in twice, replayed from the dead-letter   *)
(* queue, rolled back (rollback_alert_seen), and time passes.              *)
(***************************************************************************)
EXTENDS CorrelationScripts

CONSTANTS
    Ids,        \* alert ids, in the order Redis compares members
    Severities, \* severity weights
    MaxAdds,    \* bound: alerts added, replays included
    MaxTime     \* bound: ticks

ASSUME WindowAssumption ==
    /\ Ids \subseteq Nat /\ Severities \subseteq Nat \ {0}
    /\ MaxAdds \in Nat /\ MaxTime \in Nat

VARIABLES
    redis,      \* the keys of the source address
    adds,       \* history: the alerts CORRELATE_LUA counted, [alert, at]
    reply,      \* the last reply of CORRELATE_LUA
    now

vars == <<redis, adds, reply, now>>

Alerts == [id : Ids, threat : Threats, sev : Severities, replay : BOOLEAN]
Known == {adds[j].alert : j \in DOMAIN adds}

Init ==
    /\ redis = NoKeys
    /\ adds = <<>> /\ now = 0
    /\ reply = [count |-> 0, incident |-> FALSE]

\* add_alert: an alert not seen before, the same one handed in again, or its
\* replay.
AddAlert(a) ==
    /\ Len(adds) < MaxAdds
    /\ \/ ~a.replay /\ \A k \in Known : k.id # a.id
       \/ a \in Known
       \/ a.replay /\ \E k \in Known : a = [k EXCEPT !.replay = TRUE]
    /\ LET r == Correlate(redis, a)
       IN  /\ redis' = r.redis
           /\ reply' = [count |-> r.count, incident |-> r.incident]
           /\ adds' = IF IsDuplicate(redis, a) THEN adds
                      ELSE Append(adds, [alert |-> a, at |-> now])
    /\ UNCHANGED now

\* rollback_alert_seen
RollbackAlert(a) ==
    /\ redis' = Rollback(redis, a)
    /\ UNCHANGED <<adds, reply, now>>

Tick ==
    /\ now < MaxTime
    /\ now' = now + 1
    /\ redis' = Expired(redis)
    /\ UNCHANGED <<adds, reply>>

Next ==
    \/ \E a \in Alerts : AddAlert(a)
    \/ \E a \in Known : RollbackAlert(a)
    \/ Tick

Spec == Init /\ [][Next]_vars

-----------------------------------------------------------------------------
Ttls == 0 .. Window

(***************************************************************************)
(* Type invariant: the seen set and the list stay within their caps.       *)
(***************************************************************************)
TypeOK ==
    /\ redis.seen \in [DOMAIN redis.seen -> Nat]
    /\ DOMAIN redis.seen \subseteq Ids /\ Cardinality(DOMAIN redis.seen) <= MaxSeen
    /\ redis.list \in Seq([id : Ids, replay : BOOLEAN]) /\ Len(redis.list) <= MaxList
    /\ redis.cnt \in Nat
    /\ redis.dedup \in [Threats -> Severities \cup {0}]
    /\ redis.dedupTtl \in [Threats -> Ttls]
    /\ redis.seenTtl \in Ttls /\ redis.listTtl \in Ttls /\ redis.cntTtl \in Ttls
    /\ adds \in Seq([alert : Alerts, at : Nat]) /\ now \in Nat

(***************************************************************************)
(* Every key that exists has an expiry, and only such keys have one: no    *)
(* sequence of adds, rollbacks and expiries leaves a key in Redis for      *)
(* ever.                                                                   *)
(***************************************************************************)
NoImmortalKeys ==
    /\ DOMAIN redis.seen # {} <=> redis.seenTtl > 0
    /\ redis.list # <<>> <=> redis.listTtl > 0
    /\ redis.cnt > 0 <=> redis.cntTtl > 0
    /\ \A t \in Threats : redis.dedup[t] > 0 <=> redis.dedupTtl[t] > 0

(***************************************************************************)
(* The window does not slide ("non-extending window expire"): the count    *)
(* never exceeds the number of alerts counted in the last Window ticks, so *)
(* slow traffic does not add up to an incident.                            *)
(***************************************************************************)
Recent == {j \in DOMAIN adds : adds[j].at > now - Window}
CountIsRecent ==
    redis.cnt <= Cardinality(Recent) /\ Len(redis.list) <= Cardinality(Recent)

(***************************************************************************)
(* An escalation is always reported: an alert that is the second or a      *)
(* later one of the window and more severe than every alert of its threat  *)
(* class in the last Window ticks raises an incident, whatever was rolled  *)
(* back, replayed or expired before.                                       *)
(***************************************************************************)
EscalationReported ==
    [][LET n == adds'[Len(adds')].alert
       IN  /\ Len(adds') > Len(adds) /\ reply'.count >= 2
           /\ \A j \in Recent : adds[j].alert.threat = n.threat => adds[j].alert.sev < n.sev
           => reply'.incident]_vars

(***************************************************************************)
(* A replay is re-evaluated: when an alert is rolled back and its replay   *)
(* comes before any other step, the replay raises an incident whenever the *)
(* window holds another alert.                                             *)
(***************************************************************************)
RollbackReopens ==
    \A k \in Known :
        LET r == Correlate(Rollback(redis, k), [k EXCEPT !.replay = TRUE])
        IN  r.count >= 2 => r.incident
=============================================================================
