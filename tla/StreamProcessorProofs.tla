----------------------- MODULE StreamProcessorProofs ------------------------
(***************************************************************************)
(* Proofs about StreamProcessor, for any number of detections, workers,    *)
(* replays and faults, and any caps of the correlation keys.               *)
(***************************************************************************)
EXTENDS StreamProcessor, SequenceTheorems, WellFoundedInduction, TLAPS

-----------------------------------------------------------------------------
(***************************************************************************)
(* The invariant.                                                          *)
(***************************************************************************)
Entries == [id : Nat, replay : BOOLEAN]
AlertSet == [id : Nat, threat : Threats, sev : Nat \ {0}, replay : BOOLEAN]

RedisOK(R) ==
    /\ R.list \in Seq(Entries) /\ R.cnt \in Nat
    /\ R.dedup \in [Threats -> Nat] /\ R.dedupTtl \in [Threats -> Nat]

TasksOK ==
    /\ task \in [Tasks -> TaskStates] /\ job \in [Tasks -> JobStates]
    /\ published \subseteq Tasks /\ incidents \subseteq Tasks
    /\ dlq \subseteq Tasks /\ logged \subseteq Tasks
    /\ replays \in [Tasks -> Nat]

\* A correlation is under way only for what is published.
PublishedInv ==
    \A t \in Tasks :
        task[t] \in {"correlate", "send", "undoSend", "undo"} \/ job[t] # "none" => t \in published

\* What holds as long as no fault but a refused alert was met.
UniqueIds(list) == \A i, j \in DOMAIN list : list[i].id = list[j].id => i = j
EntriesOfTasks == \A j \in DOMAIN redis.list : \E t \in Tasks : redis.list[j] = Entry(Alert(t))

\* No call is abandoned; a refused alert and a dead letter go no further.
InStep ==
    /\ \A t \in Tasks : job[t] # "none" => task[t] = "correlate"
    /\ \A t \in Refused : task[t] \in {"deadLetter", "done"}
    /\ \A t \in dlq : task[t] = "done"

\* The alert still has to reach Redis, or was taken out again.
Outside(t) ==
    \/ task[t] \in {"new", "publish", "undo", "deadLetter"}
    \/ task[t] = "correlate" /\ job[t] \in {"queued", "running", "error"}
    \/ t \in dlq
OutsideInv ==
    \A t \in Tasks : Outside(t) => t \notin InWindow /\ AlertOf[t].id \notin DOMAIN redis.seen

\* An incident is on its way, or an alert that must raise one.
Reporting(t) == job[t] = "incident" \/ task[t] \in {"send", "undoSend"}
Coming(t) ==
    /\ t \notin Refused
    /\ \/ task[t] \in {"undo", "deadLetter"} \/ t \in dlq
       \/ task[t] = "correlate" /\ job[t] \in {"queued", "running", "error"}
Reopens(t) == Coming(t) /\ redis.dedup[AlertOf[t].threat] = 0
BurstInv ==
    redis.cnt >= 2 /\ incidents = {} => \E t \in Tasks : Reporting(t) \/ Reopens(t)

CleanInv == EntriesOfTasks /\ UniqueIds(redis.list) /\ InStep /\ OutsideInv /\ BurstInv

Clean == OnlyFaults({"badAlert"})

IInv ==
    /\ TasksOK /\ RedisOK(redis) /\ PublishedInv
    /\ CorrelatedImpliesPublished /\ NoDetectionLost
    /\ Clean => CleanInv

-----------------------------------------------------------------------------
(***************************************************************************)
(* The operators of the scripts.                                           *)
(***************************************************************************)
LEMMA NatMinimum ==
    ASSUME NEW S \in SUBSET Nat, S # {}
    PROVE  \E m \in S : \A n \in S : m <= n
  <1>1. PICK m \in S : \A n \in S : ~(<<n, m>> \in OpToRel(<, Nat))
    BY WFMin, NatLessThanWellFounded
  <1>2. \A n \in S : ~(n < m)
    BY <1>1 DEF OpToRel
  <1> QED
    BY <1>2

\* Where an element of a sequence goes when the k-th is taken out.
LEMMA RemoveAtFacts ==
    ASSUME NEW S, NEW s \in Seq(S), NEW k \in 1 .. Len(s)
    PROVE  /\ RemoveAt(s, k) \in Seq(S) /\ Len(RemoveAt(s, k)) = Len(s) - 1
           /\ \A j \in 1 .. Len(s) - 1 : RemoveAt(s, k)[j] = IF j < k THEN s[j] ELSE s[j + 1]
  <1> DEFINE before == SubSeq(s, 1, k - 1)  after == SubSeq(s, k + 1, Len(s))
  <1>0. Len(s) \in Nat /\ k \in Nat /\ 1 <= k /\ k <= Len(s) /\ \A j \in 1 .. Len(s) : s[j] \in S
    OBVIOUS
  <1>1. /\ before \in Seq(S) /\ Len(before) = k - 1
        /\ \A j \in 1 .. k - 1 : before[j] = s[j]
    <2>1. 1 \in Int /\ k - 1 \in Int /\ \A j \in 1 .. k - 1 : s[j] \in S
      BY <1>0
    <2>2. /\ before \in Seq(S) /\ Len(before) = IF 1 <= k - 1 THEN k - 1 - 1 + 1 ELSE 0
          /\ \A j \in 1 .. (k - 1 - 1 + 1) : before[j] = s[1 + j - 1]
      BY <2>1, SubSeqProperties
    <2> HIDE DEF before
    <2>3. Len(before) = k - 1 /\ k - 1 - 1 + 1 = k - 1
      BY <1>0, <2>2
    <2>4. ASSUME NEW j \in 1 .. k - 1 PROVE before[j] = s[j]
      <3>1. 1 + j - 1 = j
        OBVIOUS
      <3> QED
        BY <2>2, <2>3, <3>1
    <2> QED
      BY <2>2, <2>3, <2>4
  <1>2. /\ after \in Seq(S) /\ Len(after) = Len(s) - k
        /\ \A j \in 1 .. Len(s) - k : after[j] = s[k + j]
    <2>1. k + 1 \in Int /\ Len(s) \in Int /\ \A j \in k + 1 .. Len(s) : s[j] \in S
      BY <1>0
    <2>2. /\ after \in Seq(S)
          /\ Len(after) = IF k + 1 <= Len(s) THEN Len(s) - (k + 1) + 1 ELSE 0
          /\ \A j \in 1 .. (Len(s) - (k + 1) + 1) : after[j] = s[k + 1 + j - 1]
      BY <2>1, SubSeqProperties
    <2> HIDE DEF after
    <2>3. Len(after) = Len(s) - k /\ Len(s) - (k + 1) + 1 = Len(s) - k
      BY <1>0, <2>2
    <2>4. ASSUME NEW j \in 1 .. Len(s) - k PROVE after[j] = s[k + j]
      <3>1. k + 1 + j - 1 = k + j
        BY <1>0
      <3> QED
        BY <2>2, <2>3, <3>1
    <2> QED
      BY <2>2, <2>3, <2>4
  <1>3. RemoveAt(s, k) = before \o after
    BY DEF RemoveAt
  <1> HIDE DEF before, after
  <1>4. /\ before \o after \in Seq(S) /\ Len(before \o after) = Len(before) + Len(after)
        /\ \A j \in 1 .. Len(before) + Len(after) :
               (before \o after)[j] = IF j <= Len(before) THEN before[j] ELSE after[j - Len(before)]
    BY <1>1, <1>2, ConcatProperties
  <1>5. Len(RemoveAt(s, k)) = Len(s) - 1
    BY <1>0, <1>1, <1>2, <1>3, <1>4
  <1>6. ASSUME NEW j \in 1 .. Len(s) - 1
        PROVE  RemoveAt(s, k)[j] = IF j < k THEN s[j] ELSE s[j + 1]
    <2>1. j \in 1 .. Len(before) + Len(after) /\ j \in Nat
      BY <1>0, <1>1, <1>2
    <2>2. CASE j < k
      <3>1. j <= Len(before) /\ j \in 1 .. k - 1
        BY <1>0, <1>1, <2>1, <2>2
      <3> QED
        BY <1>1, <1>3, <1>4, <2>1, <2>2, <3>1
    <2>3. CASE ~(j < k)
      <3>1. ~(j <= Len(before)) /\ j - Len(before) \in 1 .. Len(s) - k
            /\ k + (j - Len(before)) = j + 1
        BY <1>0, <1>1, <2>1, <2>3
      <3>2. after[j - Len(before)] = s[j + 1]
        BY <1>2, <3>1
      <3> QED
        BY <1>3, <1>4, <2>1, <2>3, <3>1, <3>2
    <2> QED
      BY <2>2, <2>3
  <1> QED
    BY <1>3, <1>4, <1>5, <1>6

LEMMA RemoveFirstFacts ==
    ASSUME NEW S, NEW s \in Seq(S), NEW e
    PROVE  \/ RemoveFirst(s, e) = s /\ \A j \in DOMAIN s : s[j] # e
           \/ \E k \in 1 .. Len(s) : s[k] = e /\ RemoveFirst(s, e) = RemoveAt(s, k)
  <1> DEFINE I == {j \in 1 .. Len(s) : s[j] = e}
  <1>0. DOMAIN s = 1 .. Len(s) /\ Len(s) \in Nat
    OBVIOUS
  <1>1. CASE I = {}
    BY <1>0, <1>1 DEF RemoveFirst
  <1>2. CASE I # {}
    <2>1. I \in SUBSET Nat
      BY <1>0
    <2>2. PICK m \in I : \A n \in I : m <= n
      BY <1>2, <2>1, NatMinimum
    <2>3. Min(I) \in I
      BY <2>2 DEF Min
    <2>4. SelectInSeq(s, LAMBDA v : v = e) = Min(I)
      BY <1>2 DEF SelectInSeq
    <2>5. RemoveFirst(s, e) = RemoveAt(s, Min(I))
      BY <1>2, <2>4 DEF RemoveFirst
    <2> QED
      BY <2>3, <2>5
  <1> QED
    BY <1>1, <1>2

\* What stays in the list was there, elsewhere than at k.
LEMMA RemovedList ==
    ASSUME NEW s \in Seq(Entries), NEW k \in 1 .. Len(s)
    PROVE  /\ RemoveAt(s, k) \in Seq(Entries)
           /\ \A j \in DOMAIN RemoveAt(s, k) : \E i \in DOMAIN s : i # k /\ RemoveAt(s, k)[j] = s[i]
           /\ UniqueIds(s) => UniqueIds(RemoveAt(s, k))
  <1> DEFINE r == RemoveAt(s, k)  from(j) == IF j < k THEN j ELSE j + 1
  <1>1. /\ r \in Seq(Entries) /\ Len(r) = Len(s) - 1
        /\ \A j \in 1 .. Len(s) - 1 : r[j] = IF j < k THEN s[j] ELSE s[j + 1]
    BY RemoveAtFacts
  <1> HIDE DEF r
  <1>2. DOMAIN r = 1 .. Len(s) - 1 /\ DOMAIN s = 1 .. Len(s) /\ Len(s) \in Nat
    BY <1>1
  <1>3. ASSUME NEW j \in DOMAIN r PROVE from(j) \in DOMAIN s /\ from(j) # k /\ r[j] = s[from(j)]
    BY <1>1, <1>2
  <1>4. \A i, j \in DOMAIN r : from(i) = from(j) => i = j
    BY <1>2
  <1> HIDE DEF from
  <1>5. UniqueIds(s) => UniqueIds(r)
    BY <1>3, <1>4 DEF UniqueIds
  <1> QED
    BY <1>1, <1>3, <1>5 DEF r

LEMMA PushTrimFacts ==
    ASSUME NEW list \in Seq(Entries), NEW a \in AlertSet
    PROVE  /\ PushTrim(list, a) \in Seq(Entries)
           /\ \A j \in DOMAIN PushTrim(list, a) :
                 \/ j = 1 /\ PushTrim(list, a)[j] = Entry(a)
                 \/ j > 1 /\ j - 1 \in DOMAIN list /\ PushTrim(list, a)[j] = list[j - 1]
  <1> DEFINE pushed == <<Entry(a)>> \o list
             n == IF Len(pushed) > MaxList THEN MaxList ELSE Len(pushed)
  <1>1. Entry(a) \in Entries
    BY DEF Entry, Entries, AlertSet
  <1>2. /\ pushed \in Seq(Entries) /\ Len(pushed) = Len(list) + 1
        /\ Len(list) \in Nat /\ DOMAIN list = 1 .. Len(list)
        /\ pushed[1] = Entry(a) /\ \A j \in 2 .. Len(list) + 1 : pushed[j] = list[j - 1]
    <2>1. <<Entry(a)>> \in Seq(Entries) /\ Len(<<Entry(a)>>) = 1 /\ <<Entry(a)>>[1] = Entry(a)
      BY <1>1
    <2>2. /\ pushed \in Seq(Entries) /\ Len(pushed) = 1 + Len(list)
          /\ \A j \in 1 .. 1 + Len(list) :
                 pushed[j] = IF j <= 1 THEN <<Entry(a)>>[j] ELSE list[j - 1]
      BY <2>1, ConcatProperties
    <2>3. Len(list) \in Nat /\ DOMAIN list = 1 .. Len(list)
      OBVIOUS
    <2> HIDE DEF pushed
    <2> QED
      BY <2>1, <2>2, <2>3
  <1>3. PushTrim(list, a) = SubSeq(pushed, 1, n)
    BY DEF PushTrim
  <1> HIDE DEF pushed
  <1>4. n \in Nat /\ n >= 1 /\ n <= Len(list) + 1
    BY <1>2, ScriptsAssumption
  <1> HIDE DEF n
  <1>5. \A j \in 1 .. n : pushed[j] \in Entries
    BY <1>2, <1>4
  <1>6. /\ SubSeq(pushed, 1, n) \in Seq(Entries) /\ Len(SubSeq(pushed, 1, n)) = n
        /\ \A j \in 1 .. n : SubSeq(pushed, 1, n)[j] = pushed[j]
    <2>1. /\ SubSeq(pushed, 1, n) \in Seq(Entries)
          /\ Len(SubSeq(pushed, 1, n)) = IF 1 <= n THEN n - 1 + 1 ELSE 0
          /\ \A j \in 1 .. n - 1 + 1 : SubSeq(pushed, 1, n)[j] = pushed[1 + j - 1]
      BY <1>4, <1>5, SubSeqProperties
    <2>2. n - 1 + 1 = n /\ \A j \in 1 .. n : 1 + j - 1 = j
      BY <1>4
    <2> DEFINE q == SubSeq(pushed, 1, n)
    <2> HIDE DEF q
    <2>3. /\ q \in Seq(Entries) /\ Len(q) = n /\ \A j \in 1 .. n : q[j] = pushed[j]
      BY <1>4, <2>1, <2>2 DEF q
    <2> QED
      BY <2>3 DEF q
  <1> DEFINE q == PushTrim(list, a)
  <1>7. q \in Seq(Entries) /\ DOMAIN q = 1 .. n /\ \A j \in 1 .. n : q[j] = pushed[j]
    BY <1>3, <1>6
  <1> HIDE DEF q
  <1>8. ASSUME NEW j \in DOMAIN q
        PROVE  \/ j = 1 /\ q[j] = Entry(a)
               \/ j > 1 /\ j - 1 \in DOMAIN list /\ q[j] = list[j - 1]
    BY <1>2, <1>4, <1>7
  <1> QED
    BY <1>7, <1>8 DEF q

-----------------------------------------------------------------------------
(***************************************************************************)
(* What the two scripts do to the keys.                                    *)
(***************************************************************************)
LEMMA CorrelateFacts ==
    ASSUME NEW R, RedisOK(R), NEW a \in AlertSet
    PROVE  LET r == Correlate(R, a)  Q == r.redis
           IN  /\ RedisOK(Q)
               /\ \A j \in DOMAIN Q.list :
                     Q.list[j] = Entry(a) \/ \E i \in DOMAIN R.list : Q.list[j] = R.list[i]
               /\ UniqueIds(R.list) /\ (\A i \in DOMAIN R.list : R.list[i].id # a.id)
                     => UniqueIds(Q.list)
               /\ DOMAIN Q.seen \subseteq DOMAIN R.seen \cup {a.id}
               /\ r.incident \in BOOLEAN
               /\ a.id \notin DOMAIN R.seen =>
                     /\ Q.cnt = R.cnt + 1
                     /\ Q.cnt >= 2 /\ (R.dedup[a.threat] = 0 \/ Q.cnt = 2) => r.incident
                     /\ \A t \in Threats :
                           Q.dedup[t] = R.dedup[t] \/ (t = a.threat /\ Q.dedup[t] = a.sev)
  <1> DEFINE r == Correlate(R, a)  Q == r.redis
  <1>r. /\ R.list \in Seq(Entries) /\ R.cnt \in Nat
        /\ R.dedup \in [Threats -> Nat] /\ R.dedupTtl \in [Threats -> Nat]
    BY DEF RedisOK
  <1>1. CASE IsDuplicate(R, a)
    <2>1. Q = R /\ r.incident = FALSE /\ a.id \in DOMAIN R.seen
      BY <1>1 DEF Correlate, IsDuplicate
    <2> HIDE DEF r, Q
    <2> QED
      BY <2>1 DEF r, Q
  <1>2. CASE ~IsDuplicate(R, a)
    <2>a. a.id \in Nat /\ a.threat \in Threats /\ a.sev \in Nat
      BY DEF AlertSet
    <2>1. /\ Q.seen = SeenAfter(R.seen, a.id) /\ Q.list = PushTrim(R.list, a)
          /\ Q.cnt = R.cnt + 1
          /\ Q.dedup = IF a.sev > R.dedup[a.threat] THEN [R.dedup EXCEPT ![a.threat] = a.sev]
                                                    ELSE R.dedup
          /\ Q.dedupTtl = [R.dedupTtl EXCEPT ![a.threat] =
                                IF a.sev > R.dedup[a.threat] THEN Expiry(@) ELSE @]
          /\ r.incident = IsIncident(R.cnt + 1, R.dedup[a.threat], a.sev)
      BY <1>2 DEF Correlate
    <2> HIDE DEF r, Q
    <2>2. /\ Q.list \in Seq(Entries)
          /\ \A j \in DOMAIN Q.list :
                \/ j = 1 /\ Q.list[j] = Entry(a)
                \/ j > 1 /\ j - 1 \in DOMAIN R.list /\ Q.list[j] = R.list[j - 1]
      BY <1>r, <2>1, PushTrimFacts
    <2>3. RedisOK(Q)
      <3>1. Expiry(R.dedupTtl[a.threat]) \in Nat
        BY <1>r, <2>a, ScriptsAssumption DEF Expiry
      <3>2. Q.dedup \in [Threats -> Nat] /\ Q.dedupTtl \in [Threats -> Nat]
        BY <1>r, <2>a, <2>1, <3>1
      <3> QED
        BY <1>r, <2>1, <2>2, <3>2 DEF RedisOK
    <2>4. ASSUME UniqueIds(R.list), \A i \in DOMAIN R.list : R.list[i].id # a.id
          PROVE  UniqueIds(Q.list)
      <3> SUFFICES ASSUME NEW i \in DOMAIN Q.list, NEW j \in DOMAIN Q.list,
                          Q.list[i].id = Q.list[j].id
                   PROVE  i = j
        BY DEF UniqueIds
      <3>1. Entry(a).id = a.id
        BY DEF Entry
      <3>2. i \in Int /\ j \in Int
        BY <2>2
      <3>3. (i = 1 /\ j = 1) \/ (i > 1 /\ j > 1 /\ i - 1 = j - 1)
        <4>1. CASE i = 1
          BY <2>2, <2>4, <3>1, <3>2, <4>1
        <4>2. CASE i > 1
          <5>1. Q.list[i] = R.list[i - 1] /\ i - 1 \in DOMAIN R.list
            BY <2>2, <3>2, <4>2
          <5>2. j > 1 /\ Q.list[j] = R.list[j - 1] /\ j - 1 \in DOMAIN R.list
            BY <2>2, <2>4, <3>1, <5>1
          <5> QED
            BY <2>4, <4>2, <5>1, <5>2 DEF UniqueIds
        <4> QED
          BY <2>2, <4>1, <4>2
      <3> QED
        BY <3>2, <3>3
    <2>5. DOMAIN Q.seen \subseteq DOMAIN R.seen \cup {a.id}
      BY <2>1 DEF SeenAfter, ZAdd, ZRem
    <2>6. r.incident \in BOOLEAN /\ (Q.cnt >= 2 /\ (R.dedup[a.threat] = 0 \/ Q.cnt = 2) => r.incident)
      BY <2>1 DEF IsIncident
    <2>7. \A t \in Threats : Q.dedup[t] = R.dedup[t] \/ (t = a.threat /\ Q.dedup[t] = a.sev)
      BY <1>r, <2>a, <2>1
    <2>8. \A j \in DOMAIN Q.list :
            Q.list[j] = Entry(a) \/ \E i \in DOMAIN R.list : Q.list[j] = R.list[i]
      BY <2>2
    <2> QED
      BY <2>1, <2>3, <2>4, <2>5, <2>6, <2>7, <2>8 DEF r, Q
  <1> QED
    BY <1>1, <1>2

LEMMA RollbackFacts ==
    ASSUME NEW R, RedisOK(R), NEW a \in AlertSet
    PROVE  LET Q == Rollback(R, a)
           IN  /\ RedisOK(Q) /\ Q.cnt <= R.cnt
               /\ \A j \in DOMAIN Q.list : \E i \in DOMAIN R.list : Q.list[j] = R.list[i]
               /\ UniqueIds(R.list) => UniqueIds(Q.list)
               /\ UniqueIds(R.list) /\ (\A i \in DOMAIN R.list : R.list[i].id = a.id
                                                                => R.list[i] = Entry(a))
                     => \A j \in DOMAIN Q.list : Q.list[j].id # a.id
               /\ DOMAIN Q.seen = DOMAIN R.seen \ {a.id}
               /\ Q.dedup[a.threat] = 0
               /\ \A t \in Threats \ {a.threat} : Q.dedup[t] = R.dedup[t]
  <1> DEFINE Q == Rollback(R, a)  e == Entry(a)
             removed == \E j \in DOMAIN R.list : R.list[j] = e
  <1>r. /\ R.list \in Seq(Entries) /\ R.cnt \in Nat
        /\ R.dedup \in [Threats -> Nat] /\ R.dedupTtl \in [Threats -> Nat]
    BY DEF RedisOK
  <1>a. a.threat \in Threats
    BY DEF AlertSet
  <1>1. /\ Q.seen = ZRem(R.seen, {a.id}) /\ Q.list = RemoveFirst(R.list, e)
        /\ Q.cnt = IF removed /\ R.cnt > 0 THEN R.cnt - 1 ELSE R.cnt
        /\ Q.dedup = [R.dedup EXCEPT ![a.threat] = 0]
        /\ Q.dedupTtl = [R.dedupTtl EXCEPT ![a.threat] = IF Q.dedup[a.threat] = 0 THEN 0 ELSE @]
    BY DEF Rollback, ClearDedup
  <1>e. e.id = a.id
    BY DEF Entry
  <1> HIDE DEF Q, removed, e
  <1>2. /\ Q.cnt \in Nat /\ Q.cnt <= R.cnt
        /\ Q.dedup \in [Threats -> Nat] /\ Q.dedupTtl \in [Threats -> Nat]
        /\ Q.dedup[a.threat] = 0 /\ \A t \in Threats \ {a.threat} : Q.dedup[t] = R.dedup[t]
    BY <1>r, <1>a, <1>1
  <1>3. DOMAIN Q.seen = DOMAIN R.seen \ {a.id}
    BY <1>1 DEF ZRem
  <1>4. \/ Q.list = R.list /\ \A j \in DOMAIN R.list : R.list[j] # e
        \/ \E k \in 1 .. Len(R.list) : R.list[k] = e /\ Q.list = RemoveAt(R.list, k)
    BY <1>r, <1>1, RemoveFirstFacts
  <1>5. /\ Q.list \in Seq(Entries)
        /\ \A j \in DOMAIN Q.list : \E i \in DOMAIN R.list : Q.list[j] = R.list[i]
        /\ UniqueIds(R.list) => UniqueIds(Q.list)
    BY <1>r, <1>4, RemovedList
  <1>6. ASSUME UniqueIds(R.list), NEW j \in DOMAIN Q.list,
               \A i \in DOMAIN R.list : R.list[i].id = a.id => R.list[i] = e
        PROVE  Q.list[j].id # a.id
    <2>1. CASE Q.list = R.list /\ \A i \in DOMAIN R.list : R.list[i] # e
      BY <1>6, <2>1
    <2>2. ASSUME NEW k \in 1 .. Len(R.list), R.list[k] = e, Q.list = RemoveAt(R.list, k)
          PROVE  Q.list[j].id # a.id
      <3>1. PICK i \in DOMAIN R.list : i # k /\ Q.list[j] = R.list[i]
        BY <1>r, <2>2, RemovedList
      <3>2. k \in DOMAIN R.list
        BY <1>r
      <3> QED
        BY <1>e, <1>6, <2>2, <3>1, <3>2 DEF UniqueIds
    <2> QED
      BY <1>4, <2>1, <2>2
  <1> QED
    BY <1>2, <1>3, <1>5, <1>6 DEF RedisOK, Q, e

-----------------------------------------------------------------------------
(***************************************************************************)
(* What holds whatever the faults.                                         *)
(***************************************************************************)
WindowOf(R) == {t \in Tasks : \E j \in DOMAIN R.list : R.list[j].id = AlertOf[t].id}

LEMMA AlertFacts ==
    ASSUME TasksOK, NEW t \in Tasks
    PROVE  /\ Alert(t) \in AlertSet /\ Alert(t).id = AlertOf[t].id
           /\ Alert(t).threat = AlertOf[t].threat /\ AlertOf[t].threat \in Threats
           /\ Entry(Alert(t)).id = AlertOf[t].id
  <1>1. AlertOf[t] \in [id : Nat, threat : Threats, sev : Nat \ {0}, replay : {FALSE}]
    BY ProcessorAssumption
  <1>2. /\ Alert(t) \in AlertSet /\ Alert(t).id = AlertOf[t].id
        /\ Alert(t).threat = AlertOf[t].threat /\ AlertOf[t].threat \in Threats
    <2> DEFINE a == AlertOf[t]  flag == replays[t] > 0
    <2>1. flag \in BOOLEAN /\ Alert(t) = [a EXCEPT !.replay = flag]
      BY DEF Alert
    <2> HIDE DEF a, flag
    <2>2. a \in [id : Nat, threat : Threats, sev : Nat \ {0}, replay : {FALSE}]
      BY <1>1 DEF a
    <2>3. /\ [a EXCEPT !.replay = flag] \in AlertSet /\ [a EXCEPT !.replay = flag].id = a.id
          /\ [a EXCEPT !.replay = flag].threat = a.threat /\ a.threat \in Threats
      BY <2>1, <2>2 DEF AlertSet
    <2> QED
      BY <2>1, <2>3 DEF a
  <1> QED
    BY <1>2 DEF Entry

LEMMA CorrelateWindow ==
    ASSUME TasksOK, NEW R, RedisOK(R), NEW t \in Tasks
    PROVE  /\ RedisOK(Correlate(R, Alert(t)).redis)
           /\ WindowOf(Correlate(R, Alert(t)).redis) \subseteq WindowOf(R) \cup {t}
  <1> DEFINE Q == Correlate(R, Alert(t)).redis
  <1>1. RedisOK(Q) /\ \A j \in DOMAIN Q.list :
          Q.list[j] = Entry(Alert(t)) \/ \E i \in DOMAIN R.list : Q.list[j] = R.list[i]
    BY AlertFacts, CorrelateFacts
  <1> HIDE DEF Q
  <1>2. ASSUME NEW u \in WindowOf(Q) PROVE u \in WindowOf(R) \cup {t}
    <2>1. PICK j \in DOMAIN Q.list : Q.list[j].id = AlertOf[u].id
      BY <1>2 DEF WindowOf
    <2>2. u \in Tasks
      BY <1>2 DEF WindowOf
    <2> QED
      BY <1>1, <2>1, <2>2, AlertFacts, ProcessorAssumption DEF WindowOf
  <1> QED
    BY <1>1, <1>2 DEF Q

LEMMA RollbackWindow ==
    ASSUME TasksOK, NEW R, RedisOK(R), NEW t \in Tasks
    PROVE  RedisOK(Rollback(R, Alert(t))) /\ WindowOf(Rollback(R, Alert(t))) \subseteq WindowOf(R)
  <1> DEFINE Q == Rollback(R, Alert(t))
  <1>1. RedisOK(Q) /\ \A j \in DOMAIN Q.list : \E i \in DOMAIN R.list : Q.list[j] = R.list[i]
    BY AlertFacts, RollbackFacts
  <1> HIDE DEF Q
  <1>2. WindowOf(Q) \subseteq WindowOf(R)
    BY <1>1 DEF WindowOf
  <1> QED
    BY <1>1, <1>2 DEF Q

\* Only the task whose call runs can enter the window.
LEMMA RedisStep ==
    ASSUME TasksOK, RedisOK(redis), NEW t \in Tasks, Task(t) \/ Worker(t) \/ Replay(t)
    PROVE  /\ RedisOK(redis')
           /\ InWindow' \subseteq InWindow \cup {u \in Tasks : u = t /\ job[u] = "running"}
  <1>w. InWindow = WindowOf(redis) /\ InWindow' = WindowOf(redis')
    BY DEF InWindow, WindowOf
  <1>1. CASE redis' = redis
    BY <1>1, <1>w
  <1>2. CASE JobRun(t)
    BY <1>2, <1>w, CorrelateWindow DEF JobRun
  <1>3. CASE JobRetried(t)
    <2> DEFINE first == Correlate(redis, Alert(t))  second == Correlate(first.redis, Alert(t))
    <2>1. RedisOK(first.redis) /\ WindowOf(first.redis) \subseteq WindowOf(redis) \cup {t}
      BY CorrelateWindow
    <2>2. RedisOK(second.redis) /\ WindowOf(second.redis) \subseteq WindowOf(first.redis) \cup {t}
      BY <2>1, CorrelateWindow
    <2>3. redis' \in {first.redis, second.redis} /\ job[t] = "running"
      BY <1>3 DEF JobRetried
    <2> HIDE DEF first, second
    <2> QED
      BY <1>w, <2>1, <2>2, <2>3
  <1>4. CASE Undo(t)
    BY <1>4, <1>1, <1>w, RollbackWindow DEF Undo
  <1> QED
    BY <1>1, <1>2, <1>3, <1>4
    DEF Task, Worker, Replay, Validate, PublishOk, PublishFail, Correlated, CorrelationTimeout,
        AbandonedAnswer, SendOk, SendFail, DeadLetter, JobStart, JobError, JobSkipped

LEMMA TaskStep ==
    ASSUME TasksOK, PublishedInv, NoDetectionLost, incidents \subseteq published,
           NEW t \in Tasks, Task(t) \/ Worker(t) \/ Replay(t)
    PROVE  TasksOK' /\ PublishedInv' /\ NoDetectionLost' /\ incidents' \subseteq published'
           /\ published \subseteq published'
  <1> USE DEF TasksOK, PublishedInv, NoDetectionLost, Goto, TaskStates, JobStates
  <1>1. CASE Validate(t)
    BY <1>1 DEF Validate
  <1>2. CASE PublishOk(t)
    BY <1>2 DEF PublishOk
  <1>3. CASE PublishFail(t)
    BY <1>3 DEF PublishFail, AfterPublishFailure, SkipCorrelation
  <1>4. CASE Correlated(t)
    <2>1. AfterCorrelation[job[t]] \in {"send", "done", "deadLetter"} /\ t \in published
      BY <1>4 DEF Correlated, AfterCorrelation
    <2> QED
      BY <1>4, <2>1 DEF Correlated
  <1>5. CASE CorrelationTimeout(t)
    BY <1>5 DEF CorrelationTimeout
  <1>6. CASE AbandonedAnswer(t)
    BY <1>6 DEF AbandonedAnswer
  <1>7. CASE SendOk(t)
    BY <1>7 DEF SendOk
  <1>8. CASE SendFail(t)
    BY <1>8 DEF SendFail, AfterSendFailure
  <1>9. CASE Undo(t)
    BY <1>9 DEF Undo
  <1>10. CASE DeadLetter(t)
    BY <1>10 DEF DeadLetter
  <1>11. CASE Replay(t)
    BY <1>11 DEF Replay
  <1>12. CASE Worker(t)
    <2>1. /\ UNCHANGED <<task, published, incidents, dlq, logged, replays>> /\ job[t] # "none"
          /\ \E w \in JobStates : job' = [job EXCEPT ![t] = w]
      BY <1>12 DEF Worker, JobStart, JobRun, JobRetried, JobError, JobSkipped, Answered
    <2> QED
      BY <2>1
  <1> QED
    BY <1>1, <1>2, <1>3, <1>4, <1>5, <1>6, <1>7, <1>8, <1>9, <1>10, <1>11, <1>12 DEF Task

-----------------------------------------------------------------------------
(***************************************************************************)
(* What holds as long as nothing but the schema gate failed.               *)
(***************************************************************************)
\* A step of task t that leaves Redis alone.
LEMMA CleanFrame ==
    ASSUME TasksOK, CleanInv, NEW t \in Tasks,
           redis' = redis, incidents \subseteq incidents', InStep',
           \A u \in Tasks \ {t} :
               /\ task'[u] = task[u] /\ job'[u] = job[u] /\ replays'[u] = replays[u]
               /\ (u \in dlq' <=> u \in dlq) /\ (u \in Refused' <=> u \in Refused),
           replays'[t] = replays[t] \/ t \notin InWindow,
           Outside(t)' => Outside(t),
           Reporting(t) => Reporting(t)' \/ incidents' # {},
           Coming(t) => Coming(t)'
    PROVE  CleanInv'
  <1>i. EntriesOfTasks /\ UniqueIds(redis.list) /\ OutsideInv /\ BurstInv
    BY DEF CleanInv
  <1>1. EntriesOfTasks'
    <2> SUFFICES ASSUME NEW j \in DOMAIN redis.list
                 PROVE  \E u \in Tasks : redis.list[j] = Entry(Alert(u)')
      BY DEF EntriesOfTasks, Entry
    <2>1. PICK u \in Tasks : redis.list[j] = Entry(Alert(u))
      BY <1>i DEF EntriesOfTasks
    <2>2. u = t => t \in InWindow
      BY <2>1, AlertFacts DEF InWindow
    <2>3. replays'[u] = replays[u]
      BY <2>2
    <2>4. Alert(u)' = Alert(u)
      BY <2>3 DEF Alert
    <2> QED
      BY <2>1, <2>4
  <1>2. OutsideInv'
    <2> SUFFICES ASSUME NEW u \in Tasks, Outside(u)'
                 PROVE  u \notin InWindow' /\ AlertOf[u].id \notin DOMAIN redis'.seen
      BY DEF OutsideInv
    <2>1. Outside(u)
      BY DEF Outside
    <2>2. InWindow' = InWindow
      BY DEF InWindow
    <2> QED
      BY <1>i, <2>1, <2>2 DEF OutsideInv
  <1>3. BurstInv'
    <2> SUFFICES ASSUME redis'.cnt >= 2, incidents' = {}
                 PROVE  \E u \in Tasks : (Reporting(u) \/ Reopens(u))'
      BY DEF BurstInv
    <2>1. PICK u \in Tasks : Reporting(u) \/ Reopens(u)
      BY <1>i DEF BurstInv
    <2>2. CASE u = t
      BY <2>1, <2>2 DEF Reopens
    <2>3. CASE u # t
      <3>1. Reporting(u) => Reporting(u)'
        BY <2>3 DEF Reporting
      <3>2. Reopens(u) => Reopens(u)'
        BY <2>3 DEF Reopens, Coming
      <3> QED
        BY <2>1, <3>1, <3>2
    <2> QED
      BY <2>2, <2>3
  <1> QED
    BY <1>i, <1>1, <1>2, <1>3 DEF CleanInv

\* Refused follows the faults.
LEMMA RefusedFrame ==
    /\ Refused \subseteq Tasks
    /\ faults' = faults => Refused' = Refused
  BY DEF Refused

\* The script runs for task t.
LEMMA CleanJobRun ==
    ASSUME TasksOK, RedisOK(redis), CleanInv, TasksOK', NEW t \in Tasks, JobRun(t)
    PROVE  CleanInv'
  <1> DEFINE a == Alert(t)  r == Correlate(redis, a)
  <1>i. EntriesOfTasks /\ UniqueIds(redis.list) /\ InStep /\ OutsideInv /\ BurstInv
    BY DEF CleanInv
  <1>a. /\ a \in AlertSet /\ a.id = AlertOf[t].id /\ a.threat = AlertOf[t].threat
        /\ a.threat \in Threats /\ Entry(a).id = AlertOf[t].id
    BY AlertFacts
  <1>1. /\ job[t] = "running" /\ task[t] = "correlate" /\ t \notin dlq /\ t \notin Refused
        /\ UNCHANGED <<task, published, incidents, dlq, logged, replays, faults>>
        /\ redis' = r.redis /\ job' = [job EXCEPT ![t] = Answered(t, r)]
    BY <1>i DEF JobRun, InStep
  <1>2. /\ job'[t] = (IF r.incident THEN "incident" ELSE "quiet")
        /\ \A u \in Tasks \ {t} : job'[u] = job[u]
    BY <1>1 DEF Answered, TasksOK
  <1>3. t \notin InWindow /\ a.id \notin DOMAIN redis.seen
    BY <1>i, <1>a, <1>1 DEF OutsideInv, Outside
  <1>4. \A i \in DOMAIN redis.list : redis.list[i].id # a.id
    BY <1>a, <1>3 DEF InWindow
  <1>5. /\ \A j \in DOMAIN redis'.list :
             redis'.list[j] = Entry(a) \/ \E i \in DOMAIN redis.list : redis'.list[j] = redis.list[i]
        /\ UniqueIds(redis'.list)
        /\ DOMAIN redis'.seen \subseteq DOMAIN redis.seen \cup {a.id}
        /\ redis'.cnt = redis.cnt + 1
        /\ redis'.cnt >= 2 /\ (redis.dedup[a.threat] = 0 \/ redis'.cnt = 2) => r.incident
        /\ \A s \in Threats :
             redis'.dedup[s] = redis.dedup[s] \/ (s = a.threat /\ redis'.dedup[s] = a.sev)
    BY <1>i, <1>a, <1>1, <1>3, <1>4, CorrelateFacts
  <1> HIDE DEF a, r
  <1>6. EntriesOfTasks'
    <2> SUFFICES ASSUME NEW j \in DOMAIN redis'.list
                 PROVE  \E u \in Tasks : redis'.list[j] = Entry(Alert(u)')
      BY DEF EntriesOfTasks, Entry
    <2>1. \A u \in Tasks : Alert(u)' = Alert(u)
      BY <1>1 DEF Alert
    <2>2. CASE redis'.list[j] = Entry(a)
      BY <2>1, <2>2 DEF a
    <2>3. CASE \E i \in DOMAIN redis.list : redis'.list[j] = redis.list[i]
      BY <1>i, <2>1, <2>3 DEF EntriesOfTasks
    <2> QED
      BY <1>5, <2>2, <2>3
  <1>7. InStep'
    BY <1>i, <1>1, <1>2, RefusedFrame DEF InStep
  <1>8. OutsideInv'
    <2> SUFFICES ASSUME NEW u \in Tasks, Outside(u)'
                 PROVE  u \notin InWindow' /\ AlertOf[u].id \notin DOMAIN redis'.seen
      BY DEF OutsideInv
    <2>1. u # t
      BY <1>1, <1>2 DEF Outside
    <2>2. Outside(u)
      BY <1>1, <1>2, <2>1 DEF Outside
    <2>3. AlertOf[u].id # a.id
      BY <1>a, <2>1, ProcessorAssumption
    <2>4. u \notin InWindow /\ AlertOf[u].id \notin DOMAIN redis.seen
      BY <1>i, <2>2 DEF OutsideInv
    <2>5. \A j \in DOMAIN redis'.list : redis'.list[j].id # AlertOf[u].id
      BY <1>a, <1>5, <2>3, <2>4 DEF InWindow
    <2> QED
      BY <1>5, <2>3, <2>4, <2>5 DEF InWindow
  <1>9. BurstInv'
    <2> SUFFICES ASSUME redis'.cnt >= 2, incidents' = {}
                 PROVE  \E u \in Tasks : (Reporting(u) \/ Reopens(u))'
      BY DEF BurstInv
    <2>1. CASE r.incident
      BY <1>2, <2>1 DEF Reporting
    <2>2. CASE ~r.incident
      <3>1. redis.dedup[a.threat] # 0 /\ redis.cnt >= 2
        BY <1>5, <2>2 DEF RedisOK
      <3>2. PICK u \in Tasks : Reporting(u) \/ Reopens(u)
        BY <1>i, <1>1, <3>1 DEF BurstInv
      <3>3. u # t
        BY <1>a, <1>1, <3>1, <3>2 DEF Reporting, Reopens
      <3>4. Reporting(u) => Reporting(u)'
        BY <1>1, <1>2, <3>3 DEF Reporting
      <3>5. Coming(u) => Coming(u)'
        BY <1>1, <1>2, <3>3, RefusedFrame DEF Coming
      <3>6. AlertOf[u].threat \in Threats
        BY AlertFacts
      <3>7. Reopens(u) => Reopens(u)'
        BY <1>5, <3>1, <3>5, <3>6 DEF Reopens
      <3> QED
        BY <3>2, <3>4, <3>7
    <2> QED
      BY <2>1, <2>2
  <1> QED
    BY <1>5, <1>6, <1>7, <1>8, <1>9 DEF CleanInv

\* rollback_alert_seen for task t.
LEMMA CleanUndo ==
    ASSUME TasksOK, RedisOK(redis), CleanInv, TasksOK', NEW t \in Tasks, Undo(t), faults' = faults,
           redis' = Rollback(redis, Alert(t))
    PROVE  CleanInv'
  <1> DEFINE a == Alert(t)
  <1>i. EntriesOfTasks /\ UniqueIds(redis.list) /\ InStep /\ OutsideInv /\ BurstInv
    BY DEF CleanInv
  <1>a. /\ a \in AlertSet /\ a.id = AlertOf[t].id /\ a.threat = AlertOf[t].threat
        /\ a.threat \in Threats
    BY AlertFacts
  <1>1. /\ task[t] \in {"undoSend", "undo"} /\ t \notin dlq /\ t \notin Refused
        /\ UNCHANGED <<job, published, incidents, dlq, logged, replays, faults>>
        /\ task'[t] \in {"deadLetter", "undo"} /\ \A u \in Tasks \ {t} : task'[u] = task[u]
    BY <1>i DEF Undo, InStep, Goto, TasksOK
  <1>2. \A i \in DOMAIN redis.list : redis.list[i].id = a.id => redis.list[i] = Entry(a)
    <2> SUFFICES ASSUME NEW i \in DOMAIN redis.list, redis.list[i].id = a.id
                 PROVE  redis.list[i] = Entry(a)
      OBVIOUS
    <2>1. PICK u \in Tasks : redis.list[i] = Entry(Alert(u))
      BY <1>i DEF EntriesOfTasks
    <2>2. u = t
      BY <1>a, <2>1, AlertFacts, ProcessorAssumption
    <2> QED
      BY <2>1, <2>2
  <1>3. /\ redis'.cnt <= redis.cnt /\ UniqueIds(redis'.list)
        /\ \A j \in DOMAIN redis'.list : \E i \in DOMAIN redis.list : redis'.list[j] = redis.list[i]
        /\ \A j \in DOMAIN redis'.list : redis'.list[j].id # a.id
        /\ DOMAIN redis'.seen = DOMAIN redis.seen \ {a.id}
        /\ redis'.dedup[a.threat] = 0
    BY <1>i, <1>a, <1>2, RollbackFacts
  <1> HIDE DEF a
  <1>4. EntriesOfTasks'
    <2> SUFFICES ASSUME NEW j \in DOMAIN redis'.list
                 PROVE  \E u \in Tasks : redis'.list[j] = Entry(Alert(u)')
      BY DEF EntriesOfTasks, Entry
    <2>1. \A u \in Tasks : Alert(u)' = Alert(u)
      BY <1>1 DEF Alert
    <2> QED
      BY <1>i, <1>3, <2>1 DEF EntriesOfTasks
  <1>5. InStep'
    BY <1>i, <1>1, RefusedFrame DEF InStep, TasksOK
  <1>6. OutsideInv'
    <2> SUFFICES ASSUME NEW u \in Tasks, Outside(u)'
                 PROVE  u \notin InWindow' /\ AlertOf[u].id \notin DOMAIN redis'.seen
      BY DEF OutsideInv
    <2>1. CASE u = t
      BY <1>a, <1>3, <2>1 DEF InWindow
    <2>2. CASE u # t
      <3>1. Outside(u)
        BY <1>1, <2>2 DEF Outside
      <3>2. u \notin InWindow /\ AlertOf[u].id \notin DOMAIN redis.seen
        BY <1>i, <3>1 DEF OutsideInv
      <3> QED
        BY <1>3, <3>2 DEF InWindow
    <2> QED
      BY <2>1, <2>2
  <1>7. BurstInv'
    <2>1. Reopens(t)'
      BY <1>a, <1>1, <1>3, RefusedFrame DEF Reopens, Coming
    <2> QED
      BY <2>1 DEF BurstInv
  <1> QED
    BY <1>3, <1>4, <1>5, <1>6, <1>7 DEF CleanInv

\* Every other step of a task or of its call, one action at a time.
LEMMA CleanStep ==
    ASSUME TasksOK, RedisOK(redis), CleanInv, TasksOK', Clean',
           NEW t \in Tasks, Task(t) \/ Worker(t) \/ Replay(t)
    PROVE  CleanInv'
  <1>i. InStep /\ OutsideInv
    BY DEF CleanInv
  <1>f. \A kind \in FaultKinds : Fault(kind, t) => kind = "badAlert"
    <2> SUFFICES ASSUME NEW kind, <<kind, t>> \in faults' PROVE kind = "badAlert"
      BY DEF Fault
    <2> QED
      BY DEF Clean, OnlyFaults
  <1>k. {"stall", "lostAnswer", "rollback", "notMaster", "dlqDisk"} \subseteq FaultKinds
    BY DEF FaultKinds
  <1>1. CASE Validate(t)
    <2>1. /\ task[t] = "new" /\ t \notin dlq /\ t \notin Refused /\ job[t] = "none"
          /\ task'[t] \in {"publish", "deadLetter"} /\ \A u \in Tasks \ {t} : task'[u] = task[u]
          /\ UNCHANGED <<redis, job, published, incidents, dlq, logged, replays>>
      BY <1>1, <1>i DEF Validate, Goto, TasksOK, InStep
    <2>2. /\ \A u \in Tasks \ {t} : u \in Refused' <=> u \in Refused
          /\ t \in Refused' => task'[t] = "deadLetter"
      BY <1>1, <2>1 DEF Validate, Fault, Refused, Goto, TasksOK
    <2>3. InStep'
      <3>1. Refused \subseteq Tasks /\ Refused' \subseteq Tasks /\ dlq \subseteq Tasks
        BY DEF Refused, TasksOK
      <3> QED
        BY <1>i, <2>1, <2>2, <3>1 DEF InStep
    <2>4. Outside(t) /\ ~Reporting(t) /\ ~Coming(t)
      BY <2>1 DEF Outside, Reporting, Coming
    <2> QED
      BY <2>1, <2>2, <2>3, <2>4, CleanFrame
  <1>2. CASE PublishOk(t) \/ PublishFail(t)
    <2>1. /\ task[t] = "publish" /\ t \notin dlq /\ t \notin Refused /\ job[t] = "none"
          /\ UNCHANGED <<redis, incidents, dlq, logged, replays, faults>>
          /\ \A u \in Tasks \ {t} : task'[u] = task[u] /\ job'[u] = job[u]
          /\ \/ task'[t] = "correlate"
             \/ task'[t] = "deadLetter" /\ job'[t] = "none"
      BY <1>2, <1>i
      DEF PublishOk, PublishFail, Goto, AfterPublishFailure, SkipCorrelation, TasksOK, InStep
    <2>2. InStep' /\ Refused' = Refused
      BY <1>i, <2>1, RefusedFrame DEF InStep, TasksOK
    <2>3. Outside(t) /\ ~Reporting(t) /\ ~Coming(t)
      BY <2>1 DEF Outside, Reporting, Coming
    <2> QED
      BY <2>1, <2>2, <2>3, CleanFrame
  <1>3. CASE JobStart(t) \/ JobError(t)
    <2>1. /\ job[t] \in {"queued", "running"} /\ task[t] = "correlate"
          /\ UNCHANGED <<redis, task, published, incidents, dlq, logged, replays, faults>>
          /\ job'[t] \in {"running", "error"} /\ \A u \in Tasks \ {t} : job'[u] = job[u]
      BY <1>3, <1>i DEF JobStart, JobError, TasksOK, InStep
    <2>2. InStep' /\ Refused' = Refused
      BY <1>i, <2>1, RefusedFrame DEF InStep, TasksOK
    <2>3. Outside(t) /\ ~Reporting(t) /\ (Coming(t) => Coming(t)')
      BY <2>1, <2>2 DEF Outside, Reporting, Coming
    <2> QED
      BY <2>1, <2>2, <2>3, CleanFrame
  <1>4. CASE Correlated(t)
    <2>1. /\ task[t] = "correlate" /\ t \notin dlq /\ t \notin Refused
          /\ job[t] \in {"incident", "quiet", "error"}
          /\ UNCHANGED <<redis, published, incidents, dlq, logged, replays, faults>>
          /\ task' = [task EXCEPT ![t] = AfterCorrelation[job[t]]]
          /\ job' = [job EXCEPT ![t] = "none"]
      BY <1>4, <1>i DEF Correlated, Goto, AfterCorrelation, InStep
    <2>2. /\ job[t] = "incident" => task'[t] = "send"
          /\ job[t] = "quiet" => task'[t] = "done"
          /\ job[t] = "error" => task'[t] = "deadLetter"
          /\ job'[t] = "none"
          /\ \A u \in Tasks \ {t} : task'[u] = task[u] /\ job'[u] = job[u]
      BY <2>1 DEF AfterCorrelation, TasksOK
    <2>3. InStep' /\ Refused' = Refused
      BY <1>i, <2>1, <2>2, RefusedFrame DEF InStep, TasksOK
    <2>4. /\ Outside(t)' => Outside(t)
          /\ Reporting(t) => Reporting(t)'
          /\ Coming(t) => Coming(t)'
      BY <2>1, <2>2, <2>3 DEF Outside, Reporting, Coming
    <2> QED
      BY <2>1, <2>2, <2>3, <2>4, CleanFrame
  <1>5. CASE CorrelationTimeout(t)
    <2>1. /\ task[t] = "correlate" /\ t \notin dlq /\ job[t] = "queued" /\ t \notin Refused
          /\ UNCHANGED <<redis, published, incidents, dlq, logged, replays, faults>>
          /\ task'[t] = "undo" /\ job'[t] = "none"
          /\ \A u \in Tasks \ {t} : task'[u] = task[u] /\ job'[u] = job[u]
      BY <1>5, <1>i, <1>f, <1>k DEF CorrelationTimeout, Goto, TasksOK, InStep
    <2>2. InStep' /\ Refused' = Refused
      BY <1>i, <2>1, RefusedFrame DEF InStep, TasksOK
    <2>3. Outside(t) /\ ~Reporting(t) /\ (Coming(t) => Coming(t)')
      BY <2>1, <2>2 DEF Outside, Reporting, Coming
    <2> QED
      BY <2>1, <2>2, <2>3, CleanFrame
  <1>6. CASE AbandonedAnswer(t)
    BY <1>6, <1>i DEF AbandonedAnswer, AfterCorrelation, InStep
  <1>7. CASE SendOk(t) \/ SendFail(t)
    <2>1. /\ task[t] = "send" /\ t \notin dlq /\ t \notin Refused /\ job[t] = "none"
          /\ UNCHANGED <<redis, job, published, dlq, logged, replays, faults>>
          /\ incidents \subseteq incidents'
          /\ task'[t] \in {"done", "undoSend"} /\ (task'[t] = "done" => incidents' # {})
          /\ \A u \in Tasks \ {t} : task'[u] = task[u]
      BY <1>7, <1>i DEF SendOk, SendFail, AfterSendFailure, Goto, TasksOK, InStep
    <2>2. InStep' /\ Refused' = Refused
      BY <1>i, <2>1, RefusedFrame DEF InStep, TasksOK
    <2>3. ~Outside(t)' /\ (Reporting(t) => Reporting(t)' \/ incidents' # {}) /\ ~Coming(t)
      BY <2>1 DEF Outside, Reporting, Coming
    <2> QED
      BY <2>1, <2>2, <2>3, CleanFrame
  <1>8. CASE DeadLetter(t)
    <2>1. /\ task[t] = "deadLetter" /\ t \notin dlq /\ job[t] = "none" /\ dlq' = dlq \cup {t}
          /\ UNCHANGED <<redis, job, published, incidents, replays, faults>>
          /\ task'[t] = "done" /\ \A u \in Tasks \ {t} : task'[u] = task[u]
      BY <1>8, <1>i, <1>f, <1>k DEF DeadLetter, Goto, TasksOK, InStep
    <2>2. InStep' /\ Refused' = Refused
      BY <1>i, <2>1, RefusedFrame DEF InStep, TasksOK
    <2>3. Outside(t) /\ ~Reporting(t) /\ (Coming(t) => Coming(t)')
      BY <2>1, <2>2 DEF Outside, Reporting, Coming
    <2> QED
      BY <2>1, <2>2, <2>3, CleanFrame
  <1>9. CASE Replay(t)
    <2>1. /\ t \in dlq /\ task[t] = "done" /\ job[t] = "none" /\ t \notin Refused
          /\ dlq' = dlq \ {t} /\ UNCHANGED <<redis, incidents, logged, faults>>
          /\ task'[t] = "correlate" /\ job'[t] = "queued"
          /\ \A u \in Tasks \ {t} : task'[u] = task[u] /\ job'[u] = job[u] /\ replays'[u] = replays[u]
      BY <1>9 DEF Replay, Goto, TasksOK
    <2>2. InStep' /\ Refused' = Refused
      BY <1>i, <2>1, RefusedFrame DEF InStep, TasksOK
    <2>3. Outside(t) /\ ~Reporting(t) /\ Coming(t)'
      BY <2>1, <2>2 DEF Outside, Reporting, Coming
    <2>4. t \notin InWindow
      BY <1>i, <2>3 DEF OutsideInv
    <2> QED
      BY <2>1, <2>2, <2>3, <2>4, CleanFrame
  <1>10. CASE JobRun(t)
    BY <1>10, CleanJobRun
  <1>11. CASE Undo(t)
    <2>1. redis' = Rollback(redis, Alert(t)) /\ faults' = faults
      BY <1>11, <1>f, <1>k DEF Undo
    <2> QED
      BY <1>11, <2>1, CleanUndo
  <1>12. CASE JobRetried(t) \/ JobSkipped(t)
    BY <1>12, <1>f, <1>k DEF JobRetried, JobSkipped
  <1> QED
    BY <1>1, <1>2, <1>3, <1>4, <1>5, <1>6, <1>7, <1>8, <1>9, <1>10, <1>11, <1>12
    DEF Task, Worker

-----------------------------------------------------------------------------
LEMMA InitInv == Init => IInv
  <1> SUFFICES ASSUME Init PROVE IInv
    OBVIOUS
  <1>1. /\ redis.seen = <<>> /\ redis.list = <<>> /\ redis.cnt = 0
        /\ redis.dedup = [s \in Threats |-> 0] /\ redis.dedupTtl = [s \in Threats |-> 0]
    BY DEF Init, NoKeys
  <1>2. TasksOK /\ PublishedInv /\ NoDetectionLost
    BY DEF Init, TasksOK, PublishedInv, NoDetectionLost, TaskStates, JobStates
  <1>3. RedisOK(redis)
    BY <1>1 DEF RedisOK
  <1>4. InWindow = {} /\ EntriesOfTasks /\ UniqueIds(redis.list)
    BY <1>1 DEF InWindow, EntriesOfTasks, UniqueIds
  <1>5. CorrelatedImpliesPublished
    BY <1>4 DEF Init, CorrelatedImpliesPublished
  <1>6. InStep
    BY DEF Init, InStep, Refused
  <1>7. OutsideInv
    <2>1. DOMAIN redis.seen = {}
      BY <1>1
    <2> QED
      BY <1>4, <2>1 DEF OutsideInv
  <1>8. BurstInv
    BY <1>1 DEF BurstInv
  <1> QED
    BY <1>2, <1>3, <1>4, <1>5, <1>6, <1>7, <1>8 DEF IInv, CleanInv

LEMMA NextInv == IInv /\ [Next]_vars => IInv'
  <1> SUFFICES ASSUME IInv, [Next]_vars PROVE IInv'
    OBVIOUS
  <1>i. /\ TasksOK /\ RedisOK(redis) /\ PublishedInv /\ CorrelatedImpliesPublished /\ NoDetectionLost
        /\ Clean => CleanInv
        /\ incidents \subseteq published /\ InWindow \subseteq published
    BY DEF IInv, CorrelatedImpliesPublished
  <1>1. CASE UNCHANGED vars
    <2> USE <1>1 DEF vars
    <2>1. TasksOK' /\ RedisOK(redis') /\ PublishedInv' /\ NoDetectionLost'
      BY <1>i DEF TasksOK, PublishedInv, NoDetectionLost
    <2>2. CorrelatedImpliesPublished'
      BY <1>i DEF CorrelatedImpliesPublished, InWindow
    <2>3. Clean' => Clean
      BY DEF Clean, OnlyFaults
    <2>4. CleanInv => CleanInv'
      BY DEF CleanInv, EntriesOfTasks, Entry, Alert, UniqueIds, InStep, Refused, OutsideInv, Outside,
             InWindow, BurstInv, Reporting, Reopens, Coming
    <2> QED
      BY <1>i, <2>1, <2>2, <2>3, <2>4 DEF IInv
  <1>2. ASSUME NEW t \in Tasks, Task(t) \/ Worker(t) \/ Replay(t) PROVE IInv'
    <2>1. /\ TasksOK' /\ PublishedInv' /\ NoDetectionLost' /\ incidents' \subseteq published'
          /\ published \subseteq published'
      BY <1>2, <1>i, TaskStep
    <2>2. /\ RedisOK(redis')
          /\ InWindow' \subseteq InWindow \cup {u \in Tasks : u = t /\ job[u] = "running"}
      BY <1>2, <1>i, RedisStep
    <2>3. CorrelatedImpliesPublished'
      BY <1>i, <2>1, <2>2 DEF PublishedInv, CorrelatedImpliesPublished
    <2>4. faults \subseteq faults'
      BY <1>2 DEF Task, Worker, Replay, Validate, PublishOk, PublishFail, Correlated,
             CorrelationTimeout, AbandonedAnswer, SendOk, SendFail, Undo, DeadLetter, JobStart,
             JobRun, JobRetried, JobError, JobSkipped, Fault
    <2>5. Clean' => Clean
      BY <2>4 DEF Clean, OnlyFaults
    <2>6. Clean' => CleanInv'
      BY <1>2, <1>i, <2>1, <2>5, CleanStep
    <2> QED
      BY <2>1, <2>2, <2>3, <2>6 DEF IInv
  <1> QED
    BY <1>1, <1>2 DEF Next

LEMMA ProcessorInvariant == Spec => []IInv
  BY InitInv, NextInv, PTL DEF Spec

(***************************************************************************)
(* Redis and the incidents topic only know alerts that are published,      *)
(* whatever sends fail, calls stall or answers are lost.                   *)
(***************************************************************************)
THEOREM ProcessorCorrelatesPublished == Spec => []CorrelatedImpliesPublished
  <1>1. IInv => CorrelatedImpliesPublished
    BY DEF IInv
  <1> QED
    BY <1>1, ProcessorInvariant, PTL

(***************************************************************************)
(* A task never ends without its alert in security_alerts, in a dead       *)
(* letter or in the log.                                                   *)
(***************************************************************************)
THEOREM ProcessorNoDetectionLost == Spec => []NoDetectionLost
  <1>1. IInv => NoDetectionLost
    BY DEF IInv
  <1> QED
    BY <1>1, ProcessorInvariant, PTL

(***************************************************************************)
(* Every failure of the incident's send is compensated: when nothing is in *)
(* flight, the window holds no alert that waits for its replay.            *)
(***************************************************************************)
THEOREM ProcessorDeadLettersRolledBack == Spec => []DeadLettersAreRolledBack
  <1>1. ASSUME IInv PROVE DeadLettersAreRolledBack
    <2> SUFFICES ASSUME Clean, NEW t \in Tasks, t \in InWindow, t \in dlq PROVE FALSE
      BY <1>1 DEF DeadLettersAreRolledBack, Clean, IInv, TasksOK
    <2> QED
      BY <1>1 DEF IInv, CleanInv, OutsideInv, Outside
  <1> QED
    BY <1>1, ProcessorInvariant, PTL

(***************************************************************************)
(* A burst is reported however the tasks interleave: once every dead       *)
(* letter has been replayed, two alerts in the window mean an incident in  *)
(* the topic.                                                              *)
(***************************************************************************)
THEOREM ProcessorBurstReported == Spec => []BurstReported
  <1>1. ASSUME IInv PROVE BurstReported
    <2> SUFFICES ASSUME Clean, Settled, redis.cnt >= 2, incidents = {} PROVE FALSE
      BY DEF BurstReported, Reported, Clean
    <2>1. PICK t \in Tasks : Reporting(t) \/ Reopens(t)
      BY <1>1 DEF IInv, CleanInv, BurstInv
    <2>2. task[t] = "done" /\ job[t] = "none" /\ dlq \subseteq Refused
      BY DEF Settled
    <2> QED
      BY <2>1, <2>2 DEF Reporting, Reopens, Coming
  <1> QED
    BY <1>1, ProcessorInvariant, PTL
=============================================================================
