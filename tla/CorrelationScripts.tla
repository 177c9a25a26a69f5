------------------------- MODULE CorrelationScripts -------------------------
(***************************************************************************)
(* inference/correlation.py: the two Lua scripts the correlator runs       *)
(* atomically in Redis, CORRELATE_LUA and ROLLBACK_LUA, as functions of    *)
(* the Redis keys of one source address.  The keys carry the address as    *)
(* their hash tag, so two addresses share nothing.                         *)
(*                                                                         *)
(* An alert is [id, threat, sev, replay]: its alert_id (a number: Redis    *)
(* breaks ties between scores by the members' order), its sanitised threat *)
(* class, its severity weight and the is_replay flag.  The JSON text in    *)
(* the list is told apart by id and replay.  A ttl of 0 means that the key *)
(* does not exist: every key is given an expiry by the call that creates   *)
(* it.                                                                     *)
(***************************************************************************)
EXTENDS Integers, Sequences, FiniteSets, SequencesExt

CONSTANTS
    Threats,    \* sanitised threat classes
    Window,     \* time_window_sec, in clock ticks
    MaxSeen,    \* MAX_SEEN
    MaxList     \* the list's length after ltrim

ASSUME ScriptsAssumption ==
    /\ Window \in Nat \ {0} /\ MaxSeen \in Nat \ {0} /\ MaxList \in Nat \ {0}

NoKeys ==
    [seen |-> <<>>, seenTtl |-> 0,
     list |-> <<>>, listTtl |-> 0,
     cnt |-> 0, cntTtl |-> 0,
     dedup |-> [t \in Threats |-> 0], dedupTtl |-> [t \in Threats |-> 0]]

\* if ttl < 0 then expire(key, window): a live key keeps its expiry.
SlidingExpiry(ttl) == Window
NoExpiry(ttl) == ttl
Expiry(ttl) == IF ttl = 0 THEN Window ELSE ttl

(***************************************************************************)
(* The sorted set of alert ids: a function from members to scores.         *)
(***************************************************************************)
ZAdd(z, m, score) == [x \in DOMAIN z \cup {m} |-> IF x = m THEN score ELSE z[x]]
ZRem(z, S) == [x \in DOMAIN z \ S |-> z[x]]
Lowest(z) ==
    CHOOSE x \in DOMAIN z :
        \A y \in DOMAIN z : z[x] < z[y] \/ (z[x] = z[y] /\ x <= y)

\* The seen set after the alert: its score is the cardinality before.
SeenUncapped(z, id) == ZAdd(z, id, Cardinality(DOMAIN z))
SeenAfter(z, id) ==
    LET added == ZAdd(z, id, Cardinality(DOMAIN z))
    IN  IF Cardinality(DOMAIN added) > MaxSeen THEN ZRem(added, {Lowest(added)}) ELSE added

Entry(a) == [id |-> a.id, replay |-> a.replay]

\* lpush and ltrim
PushTrim(list, a) ==
    LET pushed == <<Entry(a)>> \o list
    IN  SubSeq(pushed, 1, IF Len(pushed) > MaxList THEN MaxList ELSE Len(pushed))

\* Is the alert an incident, given the count with it and the highest severity
\* reported for its threat class (0: none)?
IncidentOnCountOnly(count, max, sev) == count = 2 \/ (count > 2 /\ count % 5 = 0)
IsIncident(count, max, sev) ==
    /\ count >= 2
    /\ max = 0 \/ sev > max \/ count = 2 \/ (count > 2 /\ count % 5 = 0)

(***************************************************************************)
(* CORRELATE_LUA: the keys afterwards and the reply.                       *)
(***************************************************************************)
IsDuplicate(R, a) == a.id \in DOMAIN R.seen /\ ~a.replay

Correlate(R, a) ==
    IF IsDuplicate(R, a)
      THEN [redis |-> R, count |-> 0, incident |-> FALSE, snapshot |-> <<>>]
      ELSE
        LET max == R.dedup[a.threat]
            raised == a.sev > max     \* includes max = 0: weights are positive
            list == PushTrim(R.list, a)
            incident == IsIncident(R.cnt + 1, max, a.sev)
        IN  [redis |->
               [seen |-> SeenAfter(R.seen, a.id), seenTtl |-> Expiry(R.seenTtl),
                list |-> list, listTtl |-> Expiry(R.listTtl),
                cnt |-> R.cnt + 1, cntTtl |-> Expiry(R.cntTtl),
                dedup |-> IF raised THEN [R.dedup EXCEPT ![a.threat] = a.sev] ELSE R.dedup,
                dedupTtl |-> [R.dedupTtl EXCEPT ![a.threat] = IF raised THEN Expiry(@) ELSE @]],
             count |-> R.cnt + 1,
             incident |-> incident,
             snapshot |-> IF incident THEN list ELSE <<>>]

(***************************************************************************)
(* ROLLBACK_LUA.  The count is decremented only when the alert was still   *)
(* in the list; an emptied list or set is a key that no longer exists.     *)
(***************************************************************************)
KeepDedup(R, a) == R.dedup
ClearDedup(R, a) == [R.dedup EXCEPT ![a.threat] = 0]

Rollback(R, a) ==
    LET seen == ZRem(R.seen, {a.id})
        removed == \E j \in DOMAIN R.list : R.list[j] = Entry(a)
        list == RemoveFirst(R.list, Entry(a))
        cnt == IF removed /\ R.cnt > 0 THEN R.cnt - 1 ELSE R.cnt
        dedup == ClearDedup(R, a)
    IN  [seen |-> seen, seenTtl |-> IF DOMAIN seen = {} THEN 0 ELSE R.seenTtl,
         list |-> list, listTtl |-> IF list = <<>> THEN 0 ELSE R.listTtl,
         cnt |-> cnt, cntTtl |-> IF cnt = 0 THEN 0 ELSE R.cntTtl,
         dedup |-> dedup,
         dedupTtl |-> [R.dedupTtl EXCEPT ![a.threat] = IF dedup[a.threat] = 0 THEN 0 ELSE @]]

(***************************************************************************)
(* One tick of Redis' clock: a key whose ttl runs out is deleted.          *)
(***************************************************************************)
Aged(ttl) == IF ttl = 0 THEN 0 ELSE ttl - 1

Expired(R) ==
    [seen |-> IF R.seenTtl = 1 THEN <<>> ELSE R.seen, seenTtl |-> Aged(R.seenTtl),
     list |-> IF R.listTtl = 1 THEN <<>> ELSE R.list, listTtl |-> Aged(R.listTtl),
     cnt |-> IF R.cntTtl = 1 THEN 0 ELSE R.cnt, cntTtl |-> Aged(R.cntTtl),
     dedup |-> [t \in Threats |-> IF R.dedupTtl[t] = 1 THEN 0 ELSE R.dedup[t]],
     dedupTtl |-> [t \in Threats |-> Aged(R.dedupTtl[t])]]
=============================================================================
