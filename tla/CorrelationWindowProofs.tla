---------------------- MODULE CorrelationWindowProofs -----------------------
(***************************************************************************)
(* Proofs about the correlator's window in Redis, for any window, caps,    *)
(* ids, threat classes and severities.                                     *)
(***************************************************************************)
EXTENDS CorrelationWindow, FiniteSetTheorems, SequenceTheorems, WellFoundedInduction, TLAPS

-----------------------------------------------------------------------------
(***************************************************************************)
(* The operators of the scripts.                                           *)
(***************************************************************************)
LEMMA NatMinimum ==
    ASSUME NEW S \in SUBSET Nat, S # {}
    PROVE  \E m \in S : \A n \in S : m <= n
  <1>1. PICK m \in S : \A n \in S : ~(<<n, m>> \in OpToRel(<, Nat))
    BY WFMin, NatLessThanWellFounded
  <1>2. \A n \in S : ~(n < m)
    BY <1>1 DEF OpToRel
  <1> QED
    BY <1>2

\* zremrangebyrank 0 0 takes a member of the set.
LEMMA LowestIsMember ==
    ASSUME NEW z, z \in [DOMAIN z -> Nat], DOMAIN z \subseteq Nat, DOMAIN z # {}
    PROVE  Lowest(z) \in DOMAIN z
  <1> DEFINE Scores == {z[x] : x \in DOMAIN z}
  <1>1. Scores \in SUBSET Nat /\ Scores # {}
    OBVIOUS
  <1>2. PICK s \in Scores : \A r \in Scores : s <= r
    BY <1>1, NatMinimum
  <1> DEFINE Ties == {x \in DOMAIN z : z[x] = s}
  <1>3. Ties \in SUBSET Nat /\ Ties # {}
    BY <1>2
  <1>4. PICK m \in Ties : \A n \in Ties : m <= n
    BY <1>3, NatMinimum
  <1>5. m \in DOMAIN z /\ \A y \in DOMAIN z : z[m] < z[y] \/ (z[m] = z[y] /\ m <= y)
    <2>1. m \in DOMAIN z /\ z[m] = s
      BY <1>4
    <2>2. ASSUME NEW y \in DOMAIN z PROVE z[m] < z[y] \/ (z[m] = z[y] /\ m <= y)
      <3>1. z[y] \in Nat /\ s \in Nat /\ s <= z[y]
        BY <1>1, <1>2
      <3>2. z[y] = s => m <= y
        BY <1>4
      <3> QED
        BY <2>1, <3>1, <3>2
    <2> QED
      BY <2>1, <2>2
  <1> QED
    BY <1>5 DEF Lowest

\* lrem takes one entry out of the list, or none.
LEMMA RemoveFirstFacts ==
    ASSUME NEW S, NEW s \in Seq(S), NEW e
    PROVE  /\ RemoveFirst(s, e) \in Seq(S)
           /\ Len(RemoveFirst(s, e)) = IF \E j \in DOMAIN s : s[j] = e THEN Len(s) - 1 ELSE Len(s)
  <1> DEFINE I == {j \in 1 .. Len(s) : s[j] = e}
  <1>0. DOMAIN s = 1 .. Len(s) /\ Len(s) \in Nat
    OBVIOUS
  <1>1. CASE I = {}
    BY <1>0, <1>1 DEF RemoveFirst
  <1>2. CASE I # {}
    <2>1. I \in SUBSET Nat
      BY <1>0
    <2>2. PICK m \in I : \A n \in I : m <= n
      BY <1>2, <2>1, NatMinimum
    <2>3. Min(I) \in I
      BY <2>2 DEF Min
    <2>4. SelectInSeq(s, LAMBDA v : v = e) = Min(I)
      BY <1>2 DEF SelectInSeq
    <2>5. RemoveFirst(s, e) = RemoveAt(s, Min(I))
      BY <1>2, <2>4 DEF RemoveFirst
    <2>6. PICK k \in 1 .. Len(s) : s[k] = e /\ RemoveFirst(s, e) = RemoveAt(s, k)
      BY <2>3, <2>5
    <2> DEFINE before == SubSeq(s, 1, k - 1)  after == SubSeq(s, k + 1, Len(s))
    <2>7. before \in Seq(S) /\ Len(before) = k - 1
      BY <1>0, SubSeqProperties
    <2>8. after \in Seq(S) /\ Len(after) = Len(s) - k
      <3>1. \A j \in k + 1 .. Len(s) : s[j] \in S
        BY <1>0
      <3>2. k + 1 \in Int /\ Len(s) \in Int /\ k \in Int
        BY <1>0
      <3>3. after \in Seq(S) /\ Len(after) = IF k + 1 <= Len(s) THEN Len(s) - (k + 1) + 1 ELSE 0
        BY <3>1, <3>2, SubSeqProperties
      <3>4. k <= Len(s)
        BY <1>0
      <3> HIDE DEF after
      <3> QED
        BY <3>2, <3>3, <3>4
    <2>9. RemoveAt(s, k) \in Seq(S) /\ Len(RemoveAt(s, k)) = Len(s) - 1
      <3>1. RemoveAt(s, k) = before \o after
        BY DEF RemoveAt
      <3> HIDE DEF before, after
      <3>2. before \o after \in Seq(S) /\ Len(before \o after) = Len(before) + Len(after)
        BY <2>7, <2>8, ConcatProperties
      <3> QED
        BY <1>0, <2>7, <2>8, <3>1, <3>2
    <2> QED
      BY <1>0, <2>6, <2>9
  <1> QED
    BY <1>1, <1>2
-----------------------------------------------------------------------------
(***************************************************************************)
(* What holds of each key: its type, its cap, and that it has an expiry    *)
(* exactly when it exists.                                                 *)
(***************************************************************************)
Entries == [id : Ids, replay : BOOLEAN]

SeenOK(R) ==
    /\ R.seen \in [DOMAIN R.seen -> Nat] /\ DOMAIN R.seen \subseteq Ids
    /\ IsFiniteSet(DOMAIN R.seen) /\ Cardinality(DOMAIN R.seen) <= MaxSeen
    /\ R.seenTtl \in Ttls
    /\ DOMAIN R.seen # {} <=> R.seenTtl > 0

ListOK(R) ==
    /\ R.list \in Seq(Entries) /\ Len(R.list) <= MaxList
    /\ R.listTtl \in Ttls
    /\ R.list # <<>> <=> R.listTtl > 0

CntOK(R) ==
    /\ R.cnt \in Nat /\ R.cntTtl \in Ttls
    /\ R.cnt > 0 <=> R.cntTtl > 0

DedupOK(R) ==
    /\ R.dedup \in [Threats -> Severities \cup {0}]
    /\ R.dedupTtl \in [Threats -> Ttls]
    /\ \A t \in Threats : R.dedup[t] > 0 <=> R.dedupTtl[t] > 0

KeysOK(R) == SeenOK(R) /\ ListOK(R) /\ CntOK(R) /\ DedupOK(R)

LEMMA ExpiryFacts ==
    ASSUME NEW ttl \in Ttls
    PROVE  Expiry(ttl) \in Ttls /\ Expiry(ttl) > 0 /\ (ttl > 0 => Expiry(ttl) = ttl)
  BY ScriptsAssumption DEF Ttls, Expiry

LEMMA AgedFacts ==
    ASSUME NEW ttl \in Ttls
    PROVE  Aged(ttl) \in Ttls /\ (Aged(ttl) > 0 <=> ttl > 0 /\ ttl # 1)
  BY ScriptsAssumption DEF Ttls, Aged

\* CORRELATE_LUA on the set of ids: it never grows past MAX_SEEN, and it
\* holds something.
LEMMA SeenAfterFacts ==
    ASSUME NEW z, z \in [DOMAIN z -> Nat], DOMAIN z \subseteq Ids, IsFiniteSet(DOMAIN z),
           Cardinality(DOMAIN z) <= MaxSeen, NEW id \in Ids
    PROVE  LET y == SeenAfter(z, id)
           IN  /\ y \in [DOMAIN y -> Nat] /\ DOMAIN y \subseteq Ids /\ IsFiniteSet(DOMAIN y)
               /\ Cardinality(DOMAIN y) <= MaxSeen /\ DOMAIN y # {}
  <1> DEFINE added == ZAdd(z, id, Cardinality(DOMAIN z))
  <1>1. Cardinality(DOMAIN z) \in Nat /\ MaxSeen \in Nat /\ MaxSeen >= 1
    BY FS_CardinalityType, ScriptsAssumption
  <1>2. DOMAIN added = DOMAIN z \cup {id} /\ added \in [DOMAIN added -> Nat]
    BY <1>1 DEF ZAdd
  <1>3. /\ IsFiniteSet(DOMAIN added) /\ Cardinality(DOMAIN added) \in Nat
        /\ Cardinality(DOMAIN added) <= MaxSeen + 1 /\ Cardinality(DOMAIN added) >= 1
    <2>1. /\ IsFiniteSet(DOMAIN added)
          /\ Cardinality(DOMAIN added)
               = IF id \in DOMAIN z THEN Cardinality(DOMAIN z) ELSE Cardinality(DOMAIN z) + 1
      BY <1>2, FS_AddElement
    <2>2. Cardinality(DOMAIN added) # 0
      BY <1>2, <2>1, FS_EmptySet
    <2> QED
      BY <1>1, <2>1, <2>2
  <1>4. DOMAIN added \subseteq Ids /\ DOMAIN added \subseteq Nat /\ DOMAIN added # {}
    BY <1>2, WindowAssumption
  <1> HIDE DEF added
  <1>5. CASE Cardinality(DOMAIN added) > MaxSeen
    <2> DEFINE low == Lowest(added)  y == ZRem(added, {low})
    <2>1. low \in DOMAIN added
      BY <1>2, <1>4, LowestIsMember
    <2>2. DOMAIN y = DOMAIN added \ {low} /\ y \in [DOMAIN y -> Nat]
      BY <1>2 DEF ZRem
    <2>3. IsFiniteSet(DOMAIN y) /\ Cardinality(DOMAIN y) = Cardinality(DOMAIN added) - 1
      BY <1>3, <2>1, <2>2, FS_RemoveElement
    <2>4. DOMAIN y # {}
      <3>1. Cardinality(DOMAIN y) # 0
        BY <1>1, <1>3, <1>5, <2>3
      <3> QED
        BY <3>1, FS_EmptySet
    <2>5. SeenAfter(z, id) = y
      BY <1>5 DEF SeenAfter, added
    <2>6. DOMAIN y \subseteq Ids /\ Cardinality(DOMAIN y) <= MaxSeen
      BY <1>1, <1>3, <1>4, <2>2, <2>3
    <2> HIDE DEF y
    <2> QED
      BY <2>2, <2>3, <2>4, <2>5, <2>6
  <1>6. CASE ~(Cardinality(DOMAIN added) > MaxSeen)
    <2>1. SeenAfter(z, id) = added
      BY <1>6 DEF SeenAfter, added
    <2> QED
      BY <1>1, <1>2, <1>3, <1>4, <1>6, <2>1
  <1> QED
    BY <1>5, <1>6

\* lpush and ltrim: one entry more, up to the cap.
LEMMA PushTrimFacts ==
    ASSUME NEW list \in Seq(Entries), NEW a \in Alerts
    PROVE  /\ PushTrim(list, a) \in Seq(Entries)
           /\ Len(PushTrim(list, a)) = IF Len(list) + 1 > MaxList THEN MaxList ELSE Len(list) + 1
  <1> DEFINE pushed == <<Entry(a)>> \o list
             n == IF Len(pushed) > MaxList THEN MaxList ELSE Len(pushed)
  <1>1. Entry(a) \in Entries
    BY DEF Entry, Entries, Alerts
  <1>2. pushed \in Seq(Entries) /\ Len(pushed) = Len(list) + 1
    BY <1>1
  <1>3. PushTrim(list, a) = SubSeq(pushed, 1, n)
    BY DEF PushTrim
  <1> HIDE DEF pushed
  <1>4. n \in Nat /\ n >= 1 /\ n <= Len(pushed) /\ Len(list) \in Nat
    BY <1>2, ScriptsAssumption
  <1>5. \A j \in 1 .. n : pushed[j] \in Entries
    BY <1>2, <1>4
  <1>6. SubSeq(pushed, 1, n) \in Seq(Entries) /\ Len(SubSeq(pushed, 1, n)) = n
    <2> HIDE DEF n
    <2> QED
      BY <1>4, <1>5, SubSeqProperties
  <1> QED
    BY <1>2, <1>3, <1>6

-----------------------------------------------------------------------------
(***************************************************************************)
(* The scripts and the clock keep every key in order.                      *)
(***************************************************************************)
LEMMA CorrelateKeys ==
    ASSUME NEW R, KeysOK(R), NEW a \in Alerts
    PROVE  KeysOK(Correlate(R, a).redis)
  <1> DEFINE Q == Correlate(R, a).redis
  <1>1. CASE IsDuplicate(R, a)
    BY <1>1 DEF Correlate
  <1>2. CASE ~IsDuplicate(R, a)
    <2>a. a.id \in Ids /\ a.threat \in Threats /\ a.sev \in Severities /\ a.sev \in Nat /\ a.sev > 0
      <3>1. a.id \in Ids /\ a.threat \in Threats /\ a.sev \in Severities
        BY DEF Alerts
      <3>2. a.sev \in Nat \ {0}
        BY <3>1, WindowAssumption
      <3> QED
        BY <3>1, <3>2
    <2>1. /\ Q.seen = SeenAfter(R.seen, a.id) /\ Q.seenTtl = Expiry(R.seenTtl)
          /\ Q.list = PushTrim(R.list, a) /\ Q.listTtl = Expiry(R.listTtl)
          /\ Q.cnt = R.cnt + 1 /\ Q.cntTtl = Expiry(R.cntTtl)
          /\ Q.dedup = IF a.sev > R.dedup[a.threat] THEN [R.dedup EXCEPT ![a.threat] = a.sev]
                                                    ELSE R.dedup
          /\ Q.dedupTtl = [R.dedupTtl EXCEPT ![a.threat] =
                                IF a.sev > R.dedup[a.threat] THEN Expiry(@) ELSE @]
      BY <1>2 DEF Correlate
    <2> HIDE DEF Q
    <2>2. SeenOK(Q)
      <3>1. /\ R.seen \in [DOMAIN R.seen -> Nat] /\ DOMAIN R.seen \subseteq Ids
            /\ IsFiniteSet(DOMAIN R.seen) /\ Cardinality(DOMAIN R.seen) <= MaxSeen
            /\ R.seenTtl \in Ttls
        BY DEF KeysOK, SeenOK
      <3>2. /\ Q.seen \in [DOMAIN Q.seen -> Nat] /\ DOMAIN Q.seen \subseteq Ids
            /\ IsFiniteSet(DOMAIN Q.seen) /\ Cardinality(DOMAIN Q.seen) <= MaxSeen
            /\ DOMAIN Q.seen # {}
        BY <2>a, <2>1, <3>1, SeenAfterFacts
      <3>3. Q.seenTtl \in Ttls /\ Q.seenTtl > 0
        BY <2>1, <3>1, ExpiryFacts
      <3> QED
        BY <3>2, <3>3 DEF SeenOK
    <2>3. ListOK(Q)
      <3>1. R.list \in Seq(Entries) /\ R.listTtl \in Ttls /\ Len(R.list) \in Nat
        BY DEF KeysOK, ListOK
      <3>2. /\ Q.list \in Seq(Entries)
            /\ Len(Q.list) = IF Len(R.list) + 1 > MaxList THEN MaxList ELSE Len(R.list) + 1
        BY <2>1, <3>1, PushTrimFacts
      <3>3. Q.listTtl \in Ttls /\ Q.listTtl > 0
        BY <2>1, <3>1, ExpiryFacts
      <3>4. Len(Q.list) <= MaxList /\ Len(Q.list) >= 1
        BY <3>1, <3>2, ScriptsAssumption
      <3>5. Q.list # <<>>
        BY <3>4
      <3> QED
        BY <3>2, <3>3, <3>4, <3>5 DEF ListOK
    <2>4. CntOK(Q)
      <3>1. Q.cntTtl \in Ttls /\ Q.cntTtl > 0
        BY <2>1, ExpiryFacts DEF KeysOK, CntOK
      <3> QED
        BY <2>1, <3>1 DEF KeysOK, CntOK
    <2>5. DedupOK(Q)
      <3>1. /\ R.dedup \in [Threats -> Severities \cup {0}] /\ R.dedupTtl \in [Threats -> Ttls]
            /\ \A t \in Threats : R.dedup[t] > 0 <=> R.dedupTtl[t] > 0
        BY DEF KeysOK, DedupOK
      <3>2. Expiry(R.dedupTtl[a.threat]) \in Ttls /\ Expiry(R.dedupTtl[a.threat]) > 0
        BY <2>a, <3>1, ExpiryFacts
      <3> QED
        BY <2>a, <2>1, <3>1, <3>2 DEF DedupOK
    <2> QED
      BY <2>2, <2>3, <2>4, <2>5 DEF KeysOK, Q
  <1> QED
    BY <1>1, <1>2

LEMMA RollbackKeys ==
    ASSUME NEW R, KeysOK(R), NEW a \in Alerts
    PROVE  /\ KeysOK(Rollback(R, a))
           /\ Rollback(R, a).cnt <= R.cnt /\ Rollback(R, a).cntTtl <= R.cntTtl
           /\ Len(Rollback(R, a).list) <= Len(R.list) /\ Rollback(R, a).listTtl <= R.listTtl
           /\ Rollback(R, a).dedup[a.threat] = 0
           /\ \A t \in Threats \ {a.threat} :
                  /\ Rollback(R, a).dedup[t] = R.dedup[t]
                  /\ Rollback(R, a).dedupTtl[t] = R.dedupTtl[t]
  <1> DEFINE Q == Rollback(R, a)
             removed == \E j \in DOMAIN R.list : R.list[j] = Entry(a)
  <1>a. a.threat \in Threats
    BY DEF Alerts
  <1>1. /\ Q.seen = ZRem(R.seen, {a.id})
        /\ Q.seenTtl = IF DOMAIN Q.seen = {} THEN 0 ELSE R.seenTtl
        /\ Q.list = RemoveFirst(R.list, Entry(a))
        /\ Q.listTtl = IF Q.list = <<>> THEN 0 ELSE R.listTtl
        /\ Q.cnt = IF removed /\ R.cnt > 0 THEN R.cnt - 1 ELSE R.cnt
        /\ Q.cntTtl = IF Q.cnt = 0 THEN 0 ELSE R.cntTtl
        /\ Q.dedup = [R.dedup EXCEPT ![a.threat] = 0]
        /\ Q.dedupTtl = [R.dedupTtl EXCEPT ![a.threat] = IF Q.dedup[a.threat] = 0 THEN 0 ELSE @]
    BY DEF Rollback, ClearDedup
  <1> HIDE DEF Q, removed
  <1>t. 0 \in Ttls
    BY ScriptsAssumption DEF Ttls
  <1>2. SeenOK(Q)
    <2>1. /\ DOMAIN Q.seen = DOMAIN R.seen \ {a.id} /\ DOMAIN R.seen \subseteq Ids
          /\ Q.seen \in [DOMAIN Q.seen -> Nat]
      BY <1>1 DEF KeysOK, SeenOK, ZRem
    <2>2. /\ IsFiniteSet(DOMAIN R.seen) /\ Cardinality(DOMAIN R.seen) <= MaxSeen
          /\ DOMAIN Q.seen \in SUBSET DOMAIN R.seen
      BY <2>1 DEF KeysOK, SeenOK
    <2>3. IsFiniteSet(DOMAIN Q.seen) /\ Cardinality(DOMAIN Q.seen) <= Cardinality(DOMAIN R.seen)
      BY <2>2, FS_Subset
    <2>4. Cardinality(DOMAIN Q.seen) <= MaxSeen
      <3>1. Cardinality(DOMAIN Q.seen) \in Nat /\ Cardinality(DOMAIN R.seen) \in Nat
        BY <2>2, <2>3, FS_CardinalityType
      <3> QED
        BY <2>2, <2>3, <3>1, ScriptsAssumption
    <2>5. Q.seenTtl \in Ttls /\ (DOMAIN Q.seen # {} <=> Q.seenTtl > 0)
      <3>1. R.seenTtl \in Ttls /\ (DOMAIN R.seen # {} <=> R.seenTtl > 0)
        BY DEF KeysOK, SeenOK
      <3>2. CASE DOMAIN Q.seen = {}
        BY <1>1, <1>t, <3>2
      <3>3. CASE DOMAIN Q.seen # {}
        <4>1. DOMAIN R.seen # {}
          BY <2>2, <3>3
        <4> QED
          BY <1>1, <3>1, <3>3, <4>1
      <3> QED
        BY <3>2, <3>3
    <2> QED
      BY <2>1, <2>3, <2>4, <2>5 DEF SeenOK
  <1>3. ListOK(Q) /\ Len(Q.list) <= Len(R.list) /\ Q.listTtl <= R.listTtl
    <2>1. /\ R.list \in Seq(Entries) /\ Len(R.list) \in Nat /\ Len(R.list) <= MaxList
          /\ R.listTtl \in Ttls /\ R.listTtl \in Nat /\ (R.list # <<>> <=> R.listTtl > 0)
      BY DEF KeysOK, ListOK, Ttls
    <2>2. /\ Q.list \in Seq(Entries)
          /\ Len(Q.list) = IF removed THEN Len(R.list) - 1 ELSE Len(R.list)
      BY <1>1, <2>1, RemoveFirstFacts DEF removed
    <2>3. Len(Q.list) <= Len(R.list) /\ Len(Q.list) <= MaxList
      BY <2>1, <2>2, ScriptsAssumption
    <2>4. Q.list # <<>> => R.list # <<>>
      BY <2>1, <2>2, <2>3
    <2>5. Q.listTtl \in Ttls /\ Q.listTtl <= R.listTtl /\ (Q.list # <<>> <=> Q.listTtl > 0)
      BY <1>1, <1>t, <2>1, <2>4
    <2> QED
      BY <2>2, <2>3, <2>5 DEF ListOK
  <1>4. CntOK(Q) /\ Q.cnt <= R.cnt /\ Q.cntTtl <= R.cntTtl
    BY <1>1, <1>t DEF KeysOK, CntOK, Ttls
  <1>5. /\ DedupOK(Q) /\ Q.dedup[a.threat] = 0
        /\ \A t \in Threats \ {a.threat} :
               Q.dedup[t] = R.dedup[t] /\ Q.dedupTtl[t] = R.dedupTtl[t]
    BY <1>a, <1>1, <1>t DEF KeysOK, DedupOK
  <1> QED
    BY <1>2, <1>3, <1>4, <1>5 DEF KeysOK, Q

LEMMA ExpiredKeys ==
    ASSUME NEW R, KeysOK(R)
    PROVE  KeysOK(Expired(R))
  <1> DEFINE Q == Expired(R)
  <1>1. /\ Q.seen = (IF R.seenTtl = 1 THEN <<>> ELSE R.seen) /\ Q.seenTtl = Aged(R.seenTtl)
        /\ Q.list = (IF R.listTtl = 1 THEN <<>> ELSE R.list) /\ Q.listTtl = Aged(R.listTtl)
        /\ Q.cnt = (IF R.cntTtl = 1 THEN 0 ELSE R.cnt) /\ Q.cntTtl = Aged(R.cntTtl)
        /\ Q.dedup = [t \in Threats |-> IF R.dedupTtl[t] = 1 THEN 0 ELSE R.dedup[t]]
        /\ Q.dedupTtl = [t \in Threats |-> Aged(R.dedupTtl[t])]
    BY DEF Expired
  <1> HIDE DEF Q
  <1>2. SeenOK(Q)
    <2>1. R.seenTtl \in Ttls
      BY DEF KeysOK, SeenOK
    <2>2. Q.seenTtl \in Ttls /\ (Q.seenTtl > 0 <=> R.seenTtl > 0 /\ R.seenTtl # 1)
      BY <1>1, <2>1, AgedFacts
    <2>3. CASE R.seenTtl = 1
      <3>1. Q.seen = <<>> /\ DOMAIN Q.seen = {} /\ Q.seen \in [{} -> Nat]
        BY <1>1, <2>3
      <3>2. IsFiniteSet({}) /\ Cardinality({}) = 0
        BY FS_EmptySet
      <3>3. Cardinality({}) <= MaxSeen
        BY <3>2, ScriptsAssumption
      <3> QED
        BY <2>2, <2>3, <3>1, <3>2, <3>3 DEF SeenOK
    <2>4. CASE R.seenTtl # 1
      BY <1>1, <2>2, <2>4 DEF KeysOK, SeenOK
    <2> QED
      BY <2>3, <2>4
  <1>3. ListOK(Q)
    <2>1. Q.listTtl \in Ttls /\ (Q.listTtl > 0 <=> R.listTtl > 0 /\ R.listTtl # 1)
      BY <1>1, AgedFacts DEF KeysOK, ListOK
    <2> QED
      BY <1>1, <2>1, ScriptsAssumption DEF KeysOK, ListOK
  <1>4. CntOK(Q)
    <2>1. Q.cntTtl \in Ttls /\ (Q.cntTtl > 0 <=> R.cntTtl > 0 /\ R.cntTtl # 1)
      BY <1>1, AgedFacts DEF KeysOK, CntOK
    <2> QED
      BY <1>1, <2>1 DEF KeysOK, CntOK
  <1>5. DedupOK(Q)
    <2>1. R.dedupTtl \in [Threats -> Ttls]
      BY DEF KeysOK, DedupOK
    <2>2. \A t \in Threats : /\ Q.dedupTtl[t] \in Ttls
                             /\ Q.dedupTtl[t] > 0 <=> R.dedupTtl[t] > 0 /\ R.dedupTtl[t] # 1
      BY <1>1, <2>1, AgedFacts
    <2> QED
      BY <1>1, <2>2 DEF KeysOK, DedupOK
  <1> QED
    BY <1>2, <1>3, <1>4, <1>5 DEF KeysOK, Q
-----------------------------------------------------------------------------
(***************************************************************************)
(* The inductive invariant.  A key that has ttl ticks left was created     *)
(* Window - ttl ticks ago, and speaks only of alerts counted since then.   *)
(***************************************************************************)
History == [alert : Alerts, at : Nat]
Since(s, when) == {j \in DOMAIN s : s[j].at >= when}
Created(ttl) == now - Window + ttl

AddsOK == adds \in Seq(History) /\ now \in Nat

CountInv ==
    /\ redis.cnt <= Cardinality(Since(adds, Created(redis.cntTtl)))
    /\ Len(redis.list) <= Cardinality(Since(adds, Created(redis.listTtl)))

\* The severity remembered for a threat class is that of an alert counted.
Remembers(t) ==
    \E j \in DOMAIN adds :
        /\ adds[j].alert.threat = t /\ adds[j].alert.sev = redis.dedup[t]
        /\ adds[j].at >= Created(redis.dedupTtl[t])

DedupInv == \A t \in Threats : redis.dedup[t] > 0 => Remembers(t)

IInv == AddsOK /\ KeysOK(redis) /\ CountInv /\ DedupInv

LEMMA SinceFinite ==
    ASSUME NEW s \in Seq(History), NEW w
    PROVE  IsFiniteSet(Since(s, w)) /\ Cardinality(Since(s, w)) \in Nat
  <1>1. IsFiniteSet(1 .. Len(s))
    BY FS_Interval
  <1>2. Since(s, w) \in SUBSET (1 .. Len(s))
    BY DEF Since
  <1>3. IsFiniteSet(Since(s, w))
    BY <1>1, <1>2, FS_Subset
  <1> QED
    BY <1>3, FS_CardinalityType

LEMMA SinceEarlier ==
    ASSUME NEW s \in Seq(History), NEW v \in Int, NEW w \in Int, v <= w
    PROVE  Cardinality(Since(s, w)) <= Cardinality(Since(s, v))
  <1>1. ASSUME NEW j \in DOMAIN s PROVE s[j].at \in Nat
    <2>1. s[j] \in History
      OBVIOUS
    <2> QED
      BY <2>1 DEF History
  <1>2. Since(s, w) \in SUBSET Since(s, v)
    BY <1>1 DEF Since
  <1>3. IsFiniteSet(Since(s, v))
    BY SinceFinite
  <1> QED
    BY <1>2, <1>3, FS_Subset

LEMMA SinceAppend ==
    ASSUME NEW s \in Seq(History), NEW x \in History, NEW w \in Int, x.at >= w
    PROVE  Cardinality(Since(Append(s, x), w)) = Cardinality(Since(s, w)) + 1
  <1> DEFINE n == Len(s) + 1
  <1>1. /\ DOMAIN Append(s, x) = 1 .. n /\ DOMAIN s = 1 .. Len(s) /\ Len(s) \in Nat
        /\ \A j \in 1 .. Len(s) : Append(s, x)[j] = s[j]
        /\ Append(s, x)[n] = x
    OBVIOUS
  <1>2. 1 .. n = 1 .. Len(s) \cup {n} /\ n \notin 1 .. Len(s)
    BY <1>1
  <1>3. Since(Append(s, x), w) = Since(s, w) \cup {n} /\ n \notin Since(s, w)
    BY <1>1, <1>2 DEF Since
  <1>4. IsFiniteSet(Since(s, w))
    BY SinceFinite
  <1> HIDE DEF n
  <1> QED
    BY <1>3, <1>4, FS_AddElement

\* A counter with an expiry of its own, and one more alert.
LEMMA CountedOnce ==
    ASSUME AddsOK, NEW x \in History, x.at = now, NEW n \in Nat, NEW ttl \in Ttls,
           n > 0 => ttl > 0, n <= Cardinality(Since(adds, Created(ttl)))
    PROVE  n + 1 <= Cardinality(Since(Append(adds, x), Created(Expiry(ttl))))
  <1>1. Expiry(ttl) \in Ttls /\ (ttl > 0 => Expiry(ttl) = ttl)
    BY ExpiryFacts
  <1>2. Created(Expiry(ttl)) \in Int /\ now >= Created(Expiry(ttl))
    BY <1>1, ScriptsAssumption DEF AddsOK, Ttls, Created
  <1>3. adds \in Seq(History)
    BY DEF AddsOK
  <1>4. Cardinality(Since(Append(adds, x), Created(Expiry(ttl))))
          = Cardinality(Since(adds, Created(Expiry(ttl)))) + 1
    BY <1>2, <1>3, SinceAppend
  <1>5. n <= Cardinality(Since(adds, Created(Expiry(ttl))))
           /\ Cardinality(Since(adds, Created(Expiry(ttl)))) \in Nat
    BY <1>1, <1>3, SinceFinite DEF Ttls
  <1> QED
    BY <1>4, <1>5

-----------------------------------------------------------------------------
(***************************************************************************)
(* The invariant is kept.                                                  *)
(***************************************************************************)
LEMMA InitInv == Init => IInv
  <1> SUFFICES ASSUME Init PROVE IInv
    OBVIOUS
  <1>1. /\ redis.seen = <<>> /\ redis.seenTtl = 0 /\ redis.list = <<>> /\ redis.listTtl = 0
        /\ redis.cnt = 0 /\ redis.cntTtl = 0
        /\ redis.dedup = [t \in Threats |-> 0] /\ redis.dedupTtl = [t \in Threats |-> 0]
    BY DEF Init, NoKeys
  <1>2. AddsOK
    BY DEF Init, AddsOK
  <1>t. 0 \in Ttls
    BY ScriptsAssumption DEF Ttls
  <1>3. SeenOK(redis)
    <2>1. DOMAIN redis.seen = {} /\ redis.seen \in [{} -> Nat]
      BY <1>1
    <2>2. IsFiniteSet({}) /\ Cardinality({}) <= MaxSeen
      BY FS_EmptySet, ScriptsAssumption
    <2> QED
      BY <1>1, <1>t, <2>1, <2>2 DEF SeenOK
  <1>4. ListOK(redis) /\ CntOK(redis) /\ DedupOK(redis)
    BY <1>1, <1>t, ScriptsAssumption DEF ListOK, CntOK, DedupOK
  <1>5. CountInv
    BY <1>1, <1>2, SinceFinite DEF CountInv, AddsOK
  <1>6. DedupInv
    BY <1>1 DEF DedupInv
  <1> QED
    BY <1>2, <1>3, <1>4, <1>5, <1>6 DEF IInv, KeysOK

LEMMA KnownAlerts == AddsOK => Known \subseteq Alerts
  <1> SUFFICES ASSUME AddsOK, NEW j \in DOMAIN adds PROVE adds[j].alert \in Alerts
    BY DEF Known
  <1>1. adds[j] \in History
    BY DEF AddsOK
  <1> QED
    BY <1>1 DEF History

LEMMA AddInv ==
    ASSUME IInv, NEW a \in Alerts, AddAlert(a)
    PROVE  IInv'
  <1>i. AddsOK /\ KeysOK(redis) /\ CountInv /\ DedupInv
    BY DEF IInv
  <1>k. KeysOK(redis')
    BY <1>i, CorrelateKeys DEF AddAlert
  <1>1. CASE IsDuplicate(redis, a)
    <2>1. UNCHANGED <<redis, adds, now>>
      BY <1>1 DEF AddAlert, Correlate
    <2> QED
      BY <1>i, <2>1 DEF IInv, AddsOK, CountInv, Created, DedupInv, Remembers
  <1>2. CASE ~IsDuplicate(redis, a)
    <2> DEFINE x == [alert |-> a, at |-> now]
    <2>1. /\ x \in History /\ x.at = now /\ x.alert = a /\ now' = now
          /\ adds \in Seq(History) /\ adds' = Append(adds, x) /\ adds' \in Seq(History)
      BY <1>2, <1>i DEF AddAlert, History, AddsOK
    <2> HIDE DEF x
    <2>2. /\ redis'.list = PushTrim(redis.list, a) /\ redis'.listTtl = Expiry(redis.listTtl)
          /\ redis'.cnt = redis.cnt + 1 /\ redis'.cntTtl = Expiry(redis.cntTtl)
          /\ redis'.dedup = IF a.sev > redis.dedup[a.threat]
                              THEN [redis.dedup EXCEPT ![a.threat] = a.sev] ELSE redis.dedup
          /\ redis'.dedupTtl = [redis.dedupTtl EXCEPT ![a.threat] =
                                  IF a.sev > redis.dedup[a.threat] THEN Expiry(@) ELSE @]
      BY <1>2 DEF AddAlert, Correlate
    <2>3. AddsOK'
      BY <1>i, <2>1 DEF AddsOK
    <2>4. redis'.cnt <= Cardinality(Since(adds', Created(redis.cntTtl)'))
      <3>1. redis.cnt \in Nat /\ redis.cntTtl \in Ttls /\ (redis.cnt > 0 => redis.cntTtl > 0)
        BY <1>i DEF KeysOK, CntOK
      <3>2. redis.cnt <= Cardinality(Since(adds, Created(redis.cntTtl)))
        BY <1>i DEF CountInv
      <3>3. redis.cnt + 1 <= Cardinality(Since(Append(adds, x), Created(Expiry(redis.cntTtl))))
        BY <1>i, <2>1, <3>1, <3>2, CountedOnce
      <3> QED
        BY <2>1, <2>2, <3>3 DEF Created
    <2>5. Len(redis'.list) <= Cardinality(Since(adds', Created(redis.listTtl)'))
      <3>1. /\ redis.list \in Seq(Entries) /\ Len(redis.list) \in Nat
            /\ redis.listTtl \in Ttls /\ (Len(redis.list) > 0 => redis.listTtl > 0)
        BY <1>i DEF KeysOK, ListOK
      <3>2. Len(redis.list) <= Cardinality(Since(adds, Created(redis.listTtl)))
        BY <1>i DEF CountInv
      <3>3. Len(redis.list) + 1 <= Cardinality(Since(Append(adds, x), Created(Expiry(redis.listTtl))))
        BY <1>i, <2>1, <3>1, <3>2, CountedOnce
      <3>4. Len(redis'.list) <= Len(redis.list) + 1 /\ Len(redis'.list) \in Nat
        BY <2>2, <3>1, PushTrimFacts, ScriptsAssumption
      <3>5. Cardinality(Since(adds', Created(redis.listTtl)')) \in Nat
        BY <2>1, SinceFinite
      <3>6. Len(redis.list) + 1 <= Cardinality(Since(adds', Created(redis.listTtl)'))
        BY <2>1, <2>2, <3>3 DEF Created
      <3> QED
        BY <3>1, <3>4, <3>5, <3>6
    <2>6. CountInv'
      BY <2>4, <2>5 DEF CountInv, Created
    <2>7. DedupInv'
      <3> SUFFICES ASSUME NEW t \in Threats, redis'.dedup[t] > 0 PROVE Remembers(t)'
        BY DEF DedupInv
      <3>1. /\ redis.dedup \in [Threats -> Severities \cup {0}]
            /\ redis.dedupTtl \in [Threats -> Ttls]
        BY <1>i DEF KeysOK, DedupOK
      <3>2. /\ DOMAIN adds \subseteq DOMAIN adds' /\ \A j \in DOMAIN adds : adds'[j] = adds[j]
            /\ Len(adds) + 1 \in DOMAIN adds' /\ adds'[Len(adds) + 1] = x
        BY <2>1
      <3>3. CASE t = a.threat /\ a.sev > redis.dedup[t]
        <4>1. redis'.dedup[t] = a.sev /\ redis'.dedupTtl[t] \in Ttls
          BY <2>2, <3>1, <3>3, ExpiryFacts
        <4>2. now >= Created(redis.dedupTtl[t])'
          BY <1>i, <2>1, <4>1, ScriptsAssumption DEF AddsOK, Created, Ttls
        <4> QED
          BY <2>1, <3>2, <3>3, <4>1, <4>2 DEF Remembers
      <3>4. CASE ~(t = a.threat /\ a.sev > redis.dedup[t])
        <4>1. redis'.dedup[t] = redis.dedup[t] /\ redis'.dedupTtl[t] = redis.dedupTtl[t]
          BY <2>2, <3>1, <3>4
        <4>2. Remembers(t)
          BY <1>i, <4>1 DEF DedupInv
        <4> QED
          BY <2>1, <3>2, <4>1, <4>2 DEF Remembers, Created
      <3> QED
        BY <3>3, <3>4
    <2> QED
      BY <1>k, <2>3, <2>6, <2>7 DEF IInv
  <1> QED
    BY <1>1, <1>2

LEMMA RollbackInv ==
    ASSUME IInv, NEW a \in Alerts, RollbackAlert(a)
    PROVE  IInv'
  <1>i. AddsOK /\ KeysOK(redis) /\ CountInv /\ DedupInv
    BY DEF IInv
  <1>u. UNCHANGED <<adds, now>>
    BY DEF RollbackAlert
  <1>1. /\ KeysOK(redis')
        /\ redis'.cnt <= redis.cnt /\ redis'.cntTtl <= redis.cntTtl
        /\ Len(redis'.list) <= Len(redis.list) /\ redis'.listTtl <= redis.listTtl
        /\ redis'.dedup[a.threat] = 0
        /\ \A t \in Threats \ {a.threat} :
               redis'.dedup[t] = redis.dedup[t] /\ redis'.dedupTtl[t] = redis.dedupTtl[t]
    BY <1>i, RollbackKeys DEF RollbackAlert
  <1>2. /\ redis.cnt \in Nat /\ redis'.cnt \in Nat /\ redis.cntTtl \in Ttls /\ redis'.cntTtl \in Ttls
        /\ Len(redis.list) \in Nat /\ Len(redis'.list) \in Nat
        /\ redis.listTtl \in Ttls /\ redis'.listTtl \in Ttls
    BY <1>1, <1>i DEF KeysOK, CntOK, ListOK
  <1>3. ASSUME NEW m \in Nat, NEW n \in Nat, m <= n, NEW v \in Ttls, NEW w \in Ttls, v <= w,
               n <= Cardinality(Since(adds, Created(w)))
        PROVE  m <= Cardinality(Since(adds, Created(v)))
    <2>1. Created(v) \in Int /\ Created(w) \in Int /\ Created(v) <= Created(w)
      BY <1>i, <1>3, ScriptsAssumption DEF AddsOK, Created, Ttls
    <2>2. /\ Cardinality(Since(adds, Created(w))) <= Cardinality(Since(adds, Created(v)))
          /\ Cardinality(Since(adds, Created(w))) \in Nat
          /\ Cardinality(Since(adds, Created(v))) \in Nat
      BY <1>i, <2>1, SinceEarlier, SinceFinite DEF AddsOK
    <2> QED
      BY <1>3, <2>2
  <1>4. /\ redis'.cnt <= Cardinality(Since(adds, Created(redis'.cntTtl)))
        /\ Len(redis'.list) <= Cardinality(Since(adds, Created(redis'.listTtl)))
    BY <1>i, <1>1, <1>2, <1>3 DEF CountInv
  <1>5. CountInv'
    BY <1>u, <1>4 DEF CountInv, Created
  <1>6. DedupInv'
    BY <1>i, <1>u, <1>1 DEF DedupInv, Remembers, Created
  <1>7. AddsOK'
    BY <1>i, <1>u DEF AddsOK
  <1> QED
    BY <1>1, <1>5, <1>6, <1>7 DEF IInv

LEMMA TickInv ==
    ASSUME IInv, Tick
    PROVE  IInv'
  <1>i. AddsOK /\ KeysOK(redis) /\ CountInv /\ DedupInv
    BY DEF IInv
  <1>k. KeysOK(redis')
    BY <1>i, ExpiredKeys DEF Tick
  <1>1. /\ now \in Nat /\ now' = now + 1 /\ adds' = adds /\ adds \in Seq(History)
        /\ redis'.list = (IF redis.listTtl = 1 THEN <<>> ELSE redis.list)
        /\ redis'.listTtl = Aged(redis.listTtl)
        /\ redis'.cnt = (IF redis.cntTtl = 1 THEN 0 ELSE redis.cnt)
        /\ redis'.cntTtl = Aged(redis.cntTtl)
        /\ redis'.dedup = [t \in Threats |-> IF redis.dedupTtl[t] = 1 THEN 0 ELSE redis.dedup[t]]
        /\ redis'.dedupTtl = [t \in Threats |-> Aged(redis.dedupTtl[t])]
    BY <1>i DEF Tick, Expired, AddsOK
  <1>2. ASSUME NEW ttl \in Ttls, ttl > 0
        PROVE  now + 1 - Window + Aged(ttl) = Created(ttl)
    BY <1>1, <1>2, ScriptsAssumption DEF Ttls, Aged, Created
  <1>3. redis'.cnt <= Cardinality(Since(adds, now + 1 - Window + redis'.cntTtl))
    <2>1. /\ redis.cnt \in Nat /\ redis.cntTtl \in Ttls /\ (redis.cnt > 0 <=> redis.cntTtl > 0)
          /\ redis.cnt <= Cardinality(Since(adds, Created(redis.cntTtl)))
      BY <1>i DEF KeysOK, CntOK, CountInv
    <2>2. CASE redis'.cnt = 0
      BY <1>1, <2>2, SinceFinite
    <2>3. CASE redis'.cnt # 0
      BY <1>1, <1>2, <2>1, <2>3
    <2> QED
      BY <2>2, <2>3
  <1>4. Len(redis'.list) <= Cardinality(Since(adds, now + 1 - Window + redis'.listTtl))
    <2>1. /\ redis.listTtl \in Ttls /\ (redis.list # <<>> <=> redis.listTtl > 0)
          /\ Len(redis.list) <= Cardinality(Since(adds, Created(redis.listTtl)))
      BY <1>i DEF KeysOK, ListOK, CountInv
    <2>2. CASE redis'.list = <<>>
      BY <1>1, <2>2, SinceFinite
    <2>3. CASE redis'.list # <<>>
      BY <1>1, <1>2, <2>1, <2>3
    <2> QED
      BY <2>2, <2>3
  <1>5. CountInv'
    <2>1. /\ Created(redis.cntTtl)' = now + 1 - Window + redis'.cntTtl
          /\ Created(redis.listTtl)' = now + 1 - Window + redis'.listTtl
      <3>1. redis'.cntTtl \in Int /\ redis'.listTtl \in Int /\ Window \in Int
        BY <1>k, ScriptsAssumption DEF KeysOK, CntOK, ListOK, Ttls
      <3>2. now \in Nat /\ now' = now + 1
        BY <1>1
      <3> QED
        BY <3>1, <3>2 DEF Created
    <2> QED
      BY <1>1, <1>3, <1>4, <2>1 DEF CountInv
  <1>6. DedupInv'
    <2> SUFFICES ASSUME NEW t \in Threats, redis'.dedup[t] > 0 PROVE Remembers(t)'
      BY DEF DedupInv
    <2>1. redis.dedupTtl[t] \in Ttls /\ (redis.dedup[t] > 0 <=> redis.dedupTtl[t] > 0)
      BY <1>i DEF KeysOK, DedupOK
    <2>2. redis'.dedup[t] = redis.dedup[t] /\ redis.dedupTtl[t] > 0 /\ Remembers(t)
      BY <1>i, <1>1, <2>1 DEF DedupInv
    <2>3. Created(redis.dedupTtl[t])' = Created(redis.dedupTtl[t])
      <3>1. Created(redis.dedupTtl[t])' = now' - Window + redis'.dedupTtl[t]
        BY DEF Created
      <3>2. redis'.dedupTtl[t] = Aged(redis.dedupTtl[t]) /\ now' = now + 1
        BY <1>1
      <3>3. now + 1 - Window + Aged(redis.dedupTtl[t]) = Created(redis.dedupTtl[t])
        BY <1>2, <2>1, <2>2
      <3>4. now \in Nat /\ Window \in Nat /\ Aged(redis.dedupTtl[t]) \in Int
        BY <1>1, <2>1, AgedFacts, ScriptsAssumption DEF Ttls
      <3> QED
        BY <3>1, <3>2, <3>3, <3>4
    <2> QED
      BY <1>1, <2>2, <2>3 DEF Remembers
  <1>7. AddsOK'
    BY <1>1 DEF AddsOK
  <1> QED
    BY <1>k, <1>5, <1>6, <1>7 DEF IInv

LEMMA NextInv == IInv /\ [Next]_vars => IInv'
  <1> SUFFICES ASSUME IInv, [Next]_vars PROVE IInv'
    OBVIOUS
  <1>1. Known \subseteq Alerts
    BY KnownAlerts DEF IInv
  <1>2. CASE UNCHANGED vars
    BY <1>2 DEF vars, IInv, AddsOK, CountInv, Created, DedupInv, Remembers
  <1> QED
    BY <1>1, <1>2, AddInv, RollbackInv, TickInv DEF Next

LEMMA WindowInvariant == Spec => []IInv
  BY InitInv, NextInv, PTL DEF Spec

-----------------------------------------------------------------------------
(***************************************************************************)
(* The keys of an address keep their types and their caps.                 *)
(***************************************************************************)
THEOREM WindowType == Spec => []TypeOK
  <1>1. IInv => TypeOK
    BY DEF IInv, AddsOK, History, KeysOK, SeenOK, ListOK, CntOK, DedupOK, Entries, TypeOK
  <1> QED
    BY <1>1, WindowInvariant, PTL

(***************************************************************************)
(* No key is left without an expiry, by any sequence of CORRELATE_LUA,     *)
(* ROLLBACK_LUA and the clock.                                             *)
(***************************************************************************)
THEOREM WindowNoImmortalKeys == Spec => []NoImmortalKeys
  <1>1. IInv => NoImmortalKeys
    BY DEF IInv, KeysOK, SeenOK, ListOK, CntOK, DedupOK, NoImmortalKeys
  <1> QED
    BY <1>1, WindowInvariant, PTL

(***************************************************************************)
(* The count that decides about incidents, and the list that is shown with *)
(* one, never reach back further than the window.                          *)
(***************************************************************************)
THEOREM WindowCountIsRecent == Spec => []CountIsRecent
  <1>1. ASSUME IInv PROVE CountIsRecent
    <2>i. adds \in Seq(History) /\ now \in Nat /\ KeysOK(redis) /\ CountInv
      BY <1>1 DEF IInv, AddsOK
    <2>1. Recent = Since(adds, now - Window + 1)
      <3>1. ASSUME NEW j \in DOMAIN adds PROVE adds[j].at \in Nat
        <4>1. adds[j] \in History
          BY <2>i
        <4> QED
          BY <4>1 DEF History
      <3> QED
        BY <2>i, <3>1, ScriptsAssumption DEF Recent, Since
    <2>2. ASSUME NEW n \in Nat, NEW ttl \in Ttls, n > 0 => ttl > 0,
                 n <= Cardinality(Since(adds, Created(ttl)))
          PROVE  n <= Cardinality(Recent)
      <3>1. CASE n = 0
        BY <2>i, <2>1, <3>1, SinceFinite
      <3>2. CASE n > 0
        <4>1. /\ Created(ttl) \in Int /\ now - Window + 1 \in Int
              /\ now - Window + 1 <= Created(ttl)
          BY <2>i, <2>2, <3>2, ScriptsAssumption DEF Created, Ttls
        <4>2. Cardinality(Since(adds, Created(ttl))) <= Cardinality(Since(adds, now - Window + 1))
          BY <2>i, <4>1, SinceEarlier
        <4>3. /\ Cardinality(Since(adds, Created(ttl))) \in Nat
              /\ Cardinality(Since(adds, now - Window + 1)) \in Nat
          BY <2>i, SinceFinite
        <4> QED
          BY <2>1, <2>2, <4>2, <4>3
      <3> QED
        BY <3>1, <3>2
    <2>3. /\ redis.cnt \in Nat /\ redis.cntTtl \in Ttls /\ (redis.cnt > 0 => redis.cntTtl > 0)
          /\ Len(redis.list) \in Nat /\ redis.listTtl \in Ttls
          /\ Len(redis.list) > 0 => redis.listTtl > 0
      BY <2>i DEF KeysOK, CntOK, ListOK
    <2> QED
      BY <2>i, <2>2, <2>3 DEF CountIsRecent, CountInv
  <1> QED
    BY <1>1, WindowInvariant, PTL

(***************************************************************************)
(* An alert whose incident could not be sent is judged afresh when it      *)
(* comes back: rollback_alert_seen forgets the severity of its class, so   *)
(* its replay is an incident whenever it is not alone.                     *)
(***************************************************************************)
THEOREM WindowRollbackReopens == Spec => []RollbackReopens
  <1>1. ASSUME IInv, NEW k \in Known,
               Correlate(Rollback(redis, k), [k EXCEPT !.replay = TRUE]).count >= 2
        PROVE  Correlate(Rollback(redis, k), [k EXCEPT !.replay = TRUE]).incident
    <2> DEFINE R == Rollback(redis, k)  a == [k EXCEPT !.replay = TRUE]
    <2>1. k \in Alerts
      BY <1>1, KnownAlerts DEF IInv
    <2>2. a.replay = TRUE /\ a.threat = k.threat
      BY <2>1 DEF Alerts
    <2>3. R.dedup[a.threat] = 0
      BY <1>1, <2>1, <2>2, RollbackKeys DEF IInv
    <2> HIDE DEF R, a
    <2>4. ~IsDuplicate(R, a)
      BY <2>2 DEF IsDuplicate
    <2>5. Correlate(R, a).count = R.cnt + 1 /\ Correlate(R, a).incident = IsIncident(R.cnt + 1, 0, a.sev)
      BY <2>3, <2>4 DEF Correlate
    <2> QED
      BY <1>1, <2>5 DEF IsIncident, R, a
  <1>2. IInv => RollbackReopens
    BY <1>1 DEF RollbackReopens
  <1> QED
    BY <1>2, WindowInvariant, PTL

(***************************************************************************)
(* An alert more severe than all of its class in the window is reported,   *)
(* unless it is the only one counted.                                      *)
(***************************************************************************)
Escalates ==
    LET n == adds'[Len(adds')].alert
    IN  /\ Len(adds') > Len(adds) /\ reply'.count >= 2
        /\ \A j \in Recent : adds[j].alert.threat = n.threat => adds[j].alert.sev < n.sev

THEOREM WindowEscalationReported == Spec => EscalationReported
  <1>1. ASSUME IInv, NEW a \in Alerts, AddAlert(a), Escalates PROVE reply'.incident
    <2>i. AddsOK /\ KeysOK(redis) /\ DedupInv /\ adds \in Seq(History) /\ now \in Nat
      BY <1>1 DEF IInv, AddsOK
    <2>1. ~IsDuplicate(redis, a)
      BY <1>1, <2>i DEF AddAlert, Escalates
    <2>2. adds'[Len(adds')].alert = a
      BY <1>1, <2>i, <2>1 DEF AddAlert
    <2>3. reply'.count = redis.cnt + 1
          /\ reply'.incident = IsIncident(redis.cnt + 1, redis.dedup[a.threat], a.sev)
      BY <1>1, <2>1 DEF AddAlert, Correlate
    <2>4. redis.dedup[a.threat] = 0 \/ a.sev > redis.dedup[a.threat]
      <3> DEFINE t == a.threat
      <3>1. /\ t \in Threats /\ redis.dedup[t] \in Severities \cup {0} /\ redis.dedupTtl[t] \in Ttls
            /\ redis.dedup[t] > 0 <=> redis.dedupTtl[t] > 0
        BY <2>i DEF KeysOK, DedupOK, Alerts
      <3>2. redis.dedup[t] \in Nat
        BY <3>1, WindowAssumption
      <3>3. CASE redis.dedup[t] > 0
        <4>1. PICK j \in DOMAIN adds : /\ adds[j].alert.threat = t
                                       /\ adds[j].alert.sev = redis.dedup[t]
                                       /\ adds[j].at >= Created(redis.dedupTtl[t])
          BY <2>i, <3>1, <3>3 DEF DedupInv, Remembers
        <4>2. adds[j] \in History
          BY <2>i
        <4>3. adds[j].at > now - Window
          BY <2>i, <3>1, <3>3, <4>1, <4>2, ScriptsAssumption DEF History, Created, Ttls
        <4>4. adds[j].alert.sev < a.sev
          BY <1>1, <2>2, <4>1, <4>3 DEF Escalates, Recent
        <4>5. a.sev \in Nat
          BY WindowAssumption DEF Alerts
        <4> QED
          BY <3>2, <4>1, <4>4, <4>5
      <3> QED
        BY <3>2, <3>3
    <2> QED
      BY <1>1, <2>3, <2>4 DEF IsIncident, Escalates
  <1>2. ASSUME [Next]_vars, Escalates, ~ \E a \in Alerts : AddAlert(a), IInv PROVE FALSE
    <2>1. adds' = adds /\ Len(adds) \in Nat
      BY <1>2 DEF Next, vars, RollbackAlert, Tick, IInv, AddsOK
    <2> QED
      BY <1>2, <2>1 DEF Escalates
  <1>3. IInv /\ [Next]_vars => [Escalates => reply'.incident]_vars
    BY <1>1, <1>2
  <1>4. EscalationReported <=> [][Escalates => reply'.incident]_vars
    BY PTL DEF EscalationReported, Escalates
  <1> QED
    BY <1>3, <1>4, WindowInvariant, PTL DEF Spec
=============================================================================
