-------------------------- MODULE StreamAgentProofs -------------------------
(***************************************************************************)
(* Proofs about StreamAgent, for any partition of events, any sizes of the *)
(* semaphores and pools, any cache limits and any number of stops.  The    *)
(* rules and the risk of Detection are used as they are: nothing below     *)
(* depends on what they compute.                                           *)
(***************************************************************************)
EXTENDS StreamAgent, FiniteSetTheorems, SequenceTheorems, WellFoundedInduction, TLAPS

-----------------------------------------------------------------------------
(***************************************************************************)
(* The invariant.                                                          *)
(***************************************************************************)
Entries == [ip : {Event[e].ip : e \in Offsets}, live : BOOLEAN, got : Nat, exp : Nat]

\* The cache: within its limit, an address once, and every entry expires
\* CacheTtl after its answer was obtained.
OncePerIp(c) == \A i, j \in DOMAIN c : c[i].ip = c[j].ip => i = j
DatedOK(c, now) == \A i \in DOMAIN c : c[i].got <= now /\ c[i].exp = c[i].got + CacheTtl
CacheOK(c, now) ==
    c \in Seq(Entries) /\ Len(c) <= MaxCacheSize /\ OncePerIp(c) /\ DatedOK(c, now)

ControlOK ==
    /\ worker \in {"up", "closing", "down"} /\ stops \in 0 .. MaxStops
    /\ clock \in 0 .. MaxClock /\ committed \in 0 .. Len(Event)
    /\ phase \in [Offsets -> Phases] /\ job \in [Offsets -> {"none", "queued", "running"}]
    /\ DOMAIN todo = Offsets /\ age \in [Offsets -> Int] /\ skipped \subseteq Offsets

SemaphoresOK == Cardinality(HoldsPermit) <= InferPermits /\ Cardinality(InBody) <= Backpressure

\* What is not in emitted yet is still to be done, in every phase of the body.
Emitted(e, detections) == {e} \X detections \subseteq emitted
Covered(e) == e \in skipped \/ Emitted(e, RuleDetections(e))
EventInv ==
    \A e \in Offsets :
        /\ phase[e] = "done" => Covered(e)
        /\ phase[e] \in {"pending", "permit", "infer"} => RuleDetections(e) \subseteq todo[e]
        /\ phase[e] \in {"enrich", "lookup", "emit"} => Emitted(e, RuleDetections(e) \ todo[e])

IInv ==
    /\ ControlOK /\ SemaphoresOK /\ CacheOK(cache, clock) /\ IntelIsFresh
    /\ EventInv /\ NoEventLost

-----------------------------------------------------------------------------
(***************************************************************************)
(* Sequences and sets of numbers.                                          *)
(***************************************************************************)
LEMMA NatMinimum ==
    ASSUME NEW S \in SUBSET Nat, S # {}
    PROVE  \E m \in S : \A n \in S : m <= n
  <1>1. PICK m \in S : \A n \in S : ~(<<n, m>> \in OpToRel(<, Nat))
    BY WFMin, NatLessThanWellFounded
  <1>2. \A n \in S : ~(n < m)
    BY <1>1 DEF OpToRel
  <1> QED
    BY <1>2

\* AckPrefix is the end of a prefix of acknowledged events.
LEMMA AckPrefixFacts ==
    ASSUME NEW done
    PROVE  AckPrefix(done) \in 0 .. Len(Event) /\ 1 .. AckPrefix(done) \subseteq done
  <1> DEFINE S == {n \in 0 .. Len(Event) : 1 .. n \subseteq done}
             D == {Len(Event) - n : n \in S}
  <1>0. Len(Event) \in Nat
    BY AgentAssumption
  <1>1. 0 \in S
    BY <1>0
  <1>2. D \in SUBSET Nat /\ D # {}
    <2>1. ASSUME NEW n \in S PROVE Len(Event) - n \in Nat
      BY <1>0
    <2> QED
      BY <1>1, <2>1
  <1>3. PICK d \in D : \A c \in D : d <= c
    BY <1>2, NatMinimum
  <1>4. PICK m \in S : d = Len(Event) - m
    BY <1>3
  <1>5. ASSUME NEW n \in S PROVE m >= n
    <2>1. Len(Event) - n \in D /\ n \in Nat /\ m \in Nat
      BY <1>0
    <2>2. Len(Event) - m <= Len(Event) - n
      BY <1>3, <1>4, <2>1
    <2> QED
      BY <1>0, <2>1, <2>2
  <1>6. Max(S) \in S
    BY <1>4, <1>5 DEF Max
  <1> QED
    BY <1>6 DEF AckPrefix

\* Where an element of a sequence goes when the k-th is taken out.
LEMMA RemoveAtFacts ==
    ASSUME NEW S, NEW s \in Seq(S), NEW k \in 1 .. Len(s)
    PROVE  /\ RemoveAt(s, k) \in Seq(S) /\ Len(RemoveAt(s, k)) = Len(s) - 1
           /\ \A j \in 1 .. Len(s) - 1 : RemoveAt(s, k)[j] = IF j < k THEN s[j] ELSE s[j + 1]
  <1> DEFINE before == SubSeq(s, 1, k - 1)  after == SubSeq(s, k + 1, Len(s))
  <1>0. Len(s) \in Nat /\ k \in Nat /\ 1 <= k /\ k <= Len(s) /\ \A j \in 1 .. Len(s) : s[j] \in S
    OBVIOUS
  <1>1. /\ before \in Seq(S) /\ Len(before) = k - 1
        /\ \A j \in 1 .. k - 1 : before[j] = s[j]
    <2>1. 1 \in Int /\ k - 1 \in Int /\ \A j \in 1 .. k - 1 : s[j] \in S
      BY <1>0
    <2>2. /\ before \in Seq(S) /\ Len(before) = IF 1 <= k - 1 THEN k - 1 - 1 + 1 ELSE 0
          /\ \A j \in 1 .. (k - 1 - 1 + 1) : before[j] = s[1 + j - 1]
      BY <2>1, SubSeqProperties
    <2> HIDE DEF before
    <2>3. Len(before) = k - 1 /\ k - 1 - 1 + 1 = k - 1
      BY <1>0, <2>2
    <2>4. ASSUME NEW j \in 1 .. k - 1 PROVE before[j] = s[j]
      <3>1. 1 + j - 1 = j
        OBVIOUS
      <3> QED
        BY <2>2, <2>3, <3>1
    <2> QED
      BY <2>2, <2>3, <2>4
  <1>2. /\ after \in Seq(S) /\ Len(after) = Len(s) - k
        /\ \A j \in 1 .. Len(s) - k : after[j] = s[k + j]
    <2>1. k + 1 \in Int /\ Len(s) \in Int /\ \A j \in k + 1 .. Len(s) : s[j] \in S
      BY <1>0
    <2>2. /\ after \in Seq(S)
          /\ Len(after) = IF k + 1 <= Len(s) THEN Len(s) - (k + 1) + 1 ELSE 0
          /\ \A j \in 1 .. (Len(s) - (k + 1) + 1) : after[j] = s[k + 1 + j - 1]
      BY <2>1, SubSeqProperties
    <2> HIDE DEF after
    <2>3. Len(after) = Len(s) - k /\ Len(s) - (k + 1) + 1 = Len(s) - k
      BY <1>0, <2>2
    <2>4. ASSUME NEW j \in 1 .. Len(s) - k PROVE after[j] = s[k + j]
      <3>1. k + 1 + j - 1 = k + j
        BY <1>0
      <3> QED
        BY <2>2, <2>3, <3>1
    <2> QED
      BY <2>2, <2>3, <2>4
  <1>3. RemoveAt(s, k) = before \o after
    BY DEF RemoveAt
  <1> HIDE DEF before, after
  <1>4. /\ before \o after \in Seq(S) /\ Len(before \o after) = Len(before) + Len(after)
        /\ \A j \in 1 .. Len(before) + Len(after) :
               (before \o after)[j] = IF j <= Len(before) THEN before[j] ELSE after[j - Len(before)]
    BY <1>1, <1>2, ConcatProperties
  <1>5. Len(RemoveAt(s, k)) = Len(s) - 1
    BY <1>0, <1>1, <1>2, <1>3, <1>4
  <1>6. ASSUME NEW j \in 1 .. Len(s) - 1
        PROVE  RemoveAt(s, k)[j] = IF j < k THEN s[j] ELSE s[j + 1]
    <2>1. j \in 1 .. Len(before) + Len(after) /\ j \in Nat
      BY <1>0, <1>1, <1>2
    <2>2. CASE j < k
      <3>1. j <= Len(before) /\ j \in 1 .. k - 1
        BY <1>0, <1>1, <2>1, <2>2
      <3> QED
        BY <1>1, <1>3, <1>4, <2>1, <2>2, <3>1
    <2>3. CASE ~(j < k)
      <3>1. ~(j <= Len(before)) /\ j - Len(before) \in 1 .. Len(s) - k
            /\ k + (j - Len(before)) = j + 1
        BY <1>0, <1>1, <2>1, <2>3
      <3>2. after[j - Len(before)] = s[j + 1]
        BY <1>2, <3>1
      <3> QED
        BY <1>3, <1>4, <2>1, <2>3, <3>1, <3>2
    <2> QED
      BY <2>2, <2>3
  <1> QED
    BY <1>3, <1>4, <1>5, <1>6

-----------------------------------------------------------------------------
(***************************************************************************)
(* The cache.                                                              *)
(***************************************************************************)
\* What is left of a cache, as places of the old one.
LEMMA WithoutFacts ==
    ASSUME NEW now, NEW c, CacheOK(c, now), NEW ip
    PROVE  LET r == Without(c, ip)
           IN  /\ CacheOK(r, now) /\ \A i \in DOMAIN r : r[i].ip # ip
               /\ (\E i \in DOMAIN c : c[i].ip = ip) => Len(r) = Len(c) - 1
  <1>0. c \in Seq(Entries) /\ DOMAIN c = 1 .. Len(c) /\ Len(c) \in Nat /\ Len(c) <= MaxCacheSize
        /\ OncePerIp(c) /\ DatedOK(c, now) /\ MaxCacheSize \in Nat
    BY CacheAssumption DEF CacheOK
  <1> DEFINE here == {i \in DOMAIN c : c[i].ip = ip}  r == Without(c, ip)
  <1>1. CASE here = {}
    <2>1. r = c
      BY <1>1 DEF Without
    <2> QED
      BY <1>1, <2>1
  <1>2. CASE here # {}
    <2>1. PICK k \in here : r = RemoveAt(c, k)
      BY <1>2 DEF Without
    <2>2. k \in 1 .. Len(c) /\ c[k].ip = ip
      BY <1>0, <2>1
    <2> DEFINE from(j) == IF j < k THEN j ELSE j + 1
    <2>3. /\ r \in Seq(Entries) /\ Len(r) = Len(c) - 1
          /\ \A j \in 1 .. Len(c) - 1 : r[j] = IF j < k THEN c[j] ELSE c[j + 1]
      BY <1>0, <2>1, <2>2, RemoveAtFacts
    <2> HIDE DEF r
    <2>4. DOMAIN r = 1 .. Len(c) - 1
      BY <1>0, <2>3
    <2>5. \A j \in DOMAIN r : from(j) \in DOMAIN c /\ from(j) # k /\ r[j] = c[from(j)]
      BY <1>0, <2>2, <2>3, <2>4
    <2>6. \A i, j \in DOMAIN r : from(i) = from(j) => i = j
      BY <1>0, <2>2, <2>4
    <2> HIDE DEF from
    <2>7. OncePerIp(r) /\ DatedOK(r, now) /\ \A j \in DOMAIN r : r[j].ip # ip
      BY <1>0, <2>2, <2>5, <2>6 DEF OncePerIp, DatedOK
    <2>8. Len(r) <= MaxCacheSize
      BY <1>0, <2>3
    <2> QED
      BY <2>3, <2>7, <2>8 DEF CacheOK, r
  <1> QED
    BY <1>1, <1>2

\* A new address at the end of a cache.
LEMMA AppendFacts ==
    ASSUME NEW now \in Nat, NEW r \in Seq(Entries), OncePerIp(r), DatedOK(r, now),
           NEW x \in Entries, \A i \in DOMAIN r : r[i].ip # x.ip,
           x.got <= now, x.exp = x.got + CacheTtl
    PROVE  /\ Append(r, x) \in Seq(Entries) /\ Len(Append(r, x)) = Len(r) + 1
           /\ OncePerIp(Append(r, x)) /\ DatedOK(Append(r, x), now)
  <1> DEFINE q == Append(r, x)
  <1>1. /\ q \in Seq(Entries) /\ Len(q) = Len(r) + 1 /\ Len(r) \in Nat
        /\ DOMAIN r = 1 .. Len(r) /\ DOMAIN q = 1 .. Len(r) + 1
        /\ \A i \in 1 .. Len(r) : q[i] = r[i]
        /\ q[Len(r) + 1] = x
    OBVIOUS
  <1> HIDE DEF q
  <1>2. \A i \in DOMAIN q : i \in DOMAIN r \/ i = Len(r) + 1
    BY <1>1
  <1>3. OncePerIp(q)
    BY <1>1, <1>2 DEF OncePerIp
  <1>4. DatedOK(q, now)
    BY <1>1, <1>2 DEF DatedOK
  <1> QED
    BY <1>1, <1>3, <1>4 DEF q

LEMMA TouchFacts ==
    ASSUME NEW now \in Nat, NEW c, CacheOK(c, now), NEW entry \in ToSet(c)
    PROVE  CacheOK(Touch(c, entry, now), now)
  <1> DEFINE r == Without(c, entry.ip)
  <1>1. PICK k \in DOMAIN c : entry = c[k]
    BY DEF ToSet
  <1>2. entry \in Entries /\ entry.got <= now /\ entry.exp = entry.got + CacheTtl
    BY <1>1 DEF CacheOK, DatedOK
  <1>3. CacheOK(r, now) /\ (\A i \in DOMAIN r : r[i].ip # entry.ip) /\ Len(r) = Len(c) - 1
    BY <1>1, WithoutFacts
  <1>4. r \in Seq(Entries) /\ OncePerIp(r) /\ DatedOK(r, now)
    BY <1>3 DEF CacheOK
  <1> HIDE DEF r
  <1>5. /\ Append(r, entry) \in Seq(Entries) /\ Len(Append(r, entry)) = Len(r) + 1
        /\ OncePerIp(Append(r, entry)) /\ DatedOK(Append(r, entry), now)
    BY <1>2, <1>3, <1>4, AppendFacts
  <1>6. Len(c) \in Nat /\ Len(c) <= MaxCacheSize
    BY DEF CacheOK
  <1>7. Len(Append(r, entry)) <= MaxCacheSize
    BY <1>3, <1>5, <1>6
  <1> QED
    BY <1>5, <1>7 DEF Touch, CacheOK, r

\* An entry that is served was obtained less than CacheTtl ago.
LEMMA ServedFacts ==
    ASSUME NEW now \in Nat, NEW c, CacheOK(c, now), NEW ip, NEW entry \in Served(c, ip, now)
    PROVE  /\ entry \in ToSet(c) /\ entry.got \in Nat
           /\ now - entry.got < CacheTtl
  <1>1. PICK k \in DOMAIN c : entry = c[k]
    BY DEF Served, ToSet
  <1>2. entry \in Entries
    BY <1>1 DEF CacheOK
  <1>3. entry.got \in Nat /\ entry.exp \in Nat
    BY <1>2 DEF Entries
  <1>4. now < entry.exp /\ entry.exp = entry.got + CacheTtl /\ entry \in ToSet(c)
    BY <1>1 DEF Served, CacheOK, DatedOK
  <1> QED
    BY <1>3, <1>4, CacheAssumption

LEMMA SetCachedFacts ==
    ASSUME NEW now \in Nat, NEW c, CacheOK(c, now), NEW e \in Offsets, NEW live \in BOOLEAN
    PROVE  CacheOK(SetCached(c, Event[e].ip, live, now), now)
  <1> DEFINE ip == Event[e].ip
             x == [ip |-> ip, live |-> live, got |-> now, exp |-> now + CacheTtl]
             r == Without(c, ip)
             full == Append(r, x)
             m == IF Len(full) > MaxCacheSize THEN Len(full) - MaxCacheSize + 1 ELSE 1
             q == SubSeq(full, m, Len(full))
  <1>1. x \in Entries /\ x.ip = ip /\ x.got <= now /\ x.exp = x.got + CacheTtl
    BY CacheAssumption DEF Entries
  <1>2. CacheOK(r, now) /\ (\A i \in DOMAIN r : r[i].ip # ip)
    BY WithoutFacts
  <1>q. SetCached(c, Event[e].ip, live, now) = q
    BY DEF SetCached
  <1> HIDE DEF x, r, ip
  <1>3. r \in Seq(Entries) /\ OncePerIp(r) /\ DatedOK(r, now)
    BY <1>2 DEF CacheOK
  <1>4. full \in Seq(Entries) /\ OncePerIp(full) /\ DatedOK(full, now) /\ Len(full) \in Nat
        /\ Len(full) >= 1
    BY <1>1, <1>2, <1>3, AppendFacts
  <1> HIDE DEF full
  <1>5. m \in Nat /\ m >= 1 /\ m <= Len(full) /\ Len(full) - m + 1 <= MaxCacheSize
    BY <1>4, CacheAssumption
  <1> HIDE DEF m
  <1>6. \A i \in m .. Len(full) : full[i] \in Entries
    BY <1>4, <1>5
  <1>7. /\ q \in Seq(Entries) /\ Len(q) = (IF m <= Len(full) THEN Len(full) - m + 1 ELSE 0)
        /\ \A i \in 1 .. Len(full) - m + 1 : q[i] = full[m + i - 1]
    BY <1>4, <1>5, <1>6, SubSeqProperties
  <1> HIDE DEF q
  <1>8. Len(q) = Len(full) - m + 1 /\ DOMAIN q = 1 .. Len(full) - m + 1
    BY <1>4, <1>5, <1>7
  <1>9. ASSUME NEW i \in DOMAIN q
        PROVE  m + i - 1 \in DOMAIN full /\ q[i] = full[m + i - 1] /\ i \in Int
    <2>1. DOMAIN full = 1 .. Len(full) /\ Len(full) \in Nat /\ m \in Nat
      BY <1>4, <1>5
    <2>2. i \in 1 .. Len(full) - m + 1
      BY <1>8
    <2>3. i \in Int /\ m + i - 1 \in 1 .. Len(full)
      BY <1>5, <2>1, <2>2
    <2> QED
      BY <1>7, <2>1, <2>2, <2>3
  <1>10. OncePerIp(q)
    <2> SUFFICES ASSUME NEW i \in DOMAIN q, NEW j \in DOMAIN q, q[i].ip = q[j].ip PROVE i = j
      BY DEF OncePerIp
    <2>1. m + i - 1 = m + j - 1
      BY <1>4, <1>9 DEF OncePerIp
    <2> QED
      BY <1>5, <1>9, <2>1
  <1>11. DatedOK(q, now)
    BY <1>4, <1>9 DEF DatedOK
  <1>12. Len(q) <= MaxCacheSize
    BY <1>5, <1>8
  <1> QED
    BY <1>q, <1>7, <1>10, <1>11, <1>12 DEF CacheOK
-----------------------------------------------------------------------------
(***************************************************************************)
(* The steps.                                                              *)
(***************************************************************************)
LEMMA OffsetsFacts ==
    /\ Offsets = 1 .. Len(Event) /\ Len(Event) \in Nat /\ IsFiniteSet(Offsets)
    /\ \A S \in SUBSET Offsets : IsFiniteSet(S) /\ Cardinality(S) \in Nat
  <1>1. Offsets = 1 .. Len(Event) /\ Len(Event) \in Nat
    BY AgentAssumption DEF Offsets
  <1>2. IsFiniteSet(1 .. Len(Event))
    BY <1>1, FS_Interval
  <1> QED
    BY <1>1, <1>2, FS_Subset, FS_CardinalityType

LEMMA InitInv ==
    Init => IInv
  <1> SUFFICES ASSUME Init PROVE IInv
    OBVIOUS
  <1>1. ControlOK
    BY OffsetsFacts, AgentAssumption DEF Init, ControlOK, Phases
  <1>2. SemaphoresOK
    <2>1. HoldsPermit = {} /\ InBody = {}
      BY DEF Init, HoldsPermit, InBody, In
    <2> QED
      BY <2>1, FS_EmptySet, AgentAssumption DEF SemaphoresOK
  <1>3. CacheOK(cache, clock)
    BY CacheAssumption DEF Init, CacheOK, OncePerIp, DatedOK
  <1>4. IntelIsFresh
    BY CacheAssumption DEF Init, IntelIsFresh
  <1>5. EventInv
    BY DEF Init, EventInv
  <1>6. NoEventLost
    BY DEF Init, NoEventLost
  <1> QED
    BY <1>1, <1>2, <1>3, <1>4, <1>5, <1>6 DEF IInv

LEMMA ControlStep ==
    ASSUME IInv, [Next]_vars
    PROVE  ControlOK'
  <1>0. ControlOK
    BY DEF IInv
  <1> USE DEF ControlOK, Goto, Loop, pools, Phases
  <1>1. ASSUME NEW e \in Offsets, Take(e) PROVE ControlOK'
    BY <1>0, <1>1 DEF Take
  <1>2. ASSUME NEW e \in Offsets, Admit(e) PROVE ControlOK'
    BY <1>0, <1>2 DEF Admit
  <1>3. ASSUME NEW e \in Offsets, AcquirePending(e) PROVE ControlOK'
    BY <1>0, <1>3 DEF AcquirePending
  <1>4. ASSUME NEW e \in Offsets, Submit(e) PROVE ControlOK'
    BY <1>0, <1>4 DEF Submit
  <1>5. ASSUME NEW e \in Offsets, JobStart(e) PROVE ControlOK'
    BY <1>0, <1>5 DEF JobStart
  <1>6. ASSUME NEW e \in Offsets, PredictReturns(e) PROVE ControlOK'
    BY <1>0, <1>6 DEF PredictReturns
  <1>7. ASSUME NEW e \in Offsets, InferenceTimeout(e) PROVE ControlOK'
    BY <1>0, <1>7 DEF InferenceTimeout
  <1>8. ASSUME NEW e \in Offsets, Enrich(e) PROVE ControlOK'
    <2>1. age' \in [Offsets -> Int]
      <3>1. CASE UNCHANGED age
        BY <1>0, <3>1
      <3>2. CASE \E entry \in Served(cache, Event[e].ip, clock) :
                     age' = [age EXCEPT ![e] = clock - entry.got]
        <4>1. PICK entry \in Served(cache, Event[e].ip, clock) :
                     age' = [age EXCEPT ![e] = clock - entry.got]
          BY <3>2
        <4>3. entry.got \in Nat /\ clock \in Nat
          BY <1>0, AgentAssumption, ServedFacts DEF IInv
        <4>4. clock - entry.got \in Int
          BY <4>3
        <4> QED
          BY <1>0, <4>1, <4>4
      <3> QED
        BY <1>8, <3>1, <3>2 DEF Enrich
    <2> QED
      BY <1>0, <1>8, <2>1 DEF Enrich
  <1>9. ASSUME NEW e \in Offsets, LookupAnswers(e) PROVE ControlOK'
    BY <1>0, <1>9 DEF LookupAnswers
  <1>10. ASSUME NEW e \in Offsets, LookupFails(e) PROVE ControlOK'
    BY <1>0, <1>10 DEF LookupFails
  <1>11. ASSUME NEW e \in Offsets, Emit(e) PROVE ControlOK'
    BY <1>0, <1>11 DEF Emit
  <1>12. CASE Commit
    BY <1>0, <1>12, AckPrefixFacts DEF Commit
  <1>13. CASE Shutdown
    BY <1>0, <1>13, AgentAssumption DEF Shutdown
  <1>14. CASE Down
    BY <1>0, <1>14, AgentAssumption DEF Down
  <1>15. CASE Restart
    BY <1>0, <1>15 DEF Restart
  <1>16. CASE Tick
    BY <1>0, <1>16, AgentAssumption DEF Tick
  <1>17. CASE UNCHANGED vars
    BY <1>0, <1>17 DEF vars
  <1> QED
    BY <1>1, <1>2, <1>3, <1>4, <1>5, <1>6, <1>7, <1>8, <1>9, <1>10, <1>11, <1>12, <1>13,
       <1>14, <1>15, <1>16, <1>17 DEF Next, Body

\* A step of one event's body admits it only where the semaphore has room.
LEMMA SemaphoreMove ==
    ASSUME IInv, NEW e \in Offsets, \A f \in Offsets \ {e} : phase'[f] = phase[f],
           e \in InBody' => e \in InBody \/ Cardinality(InBody) < Backpressure,
           e \in HoldsPermit' => e \in HoldsPermit \/ Cardinality(HoldsPermit) < InferPermits
    PROVE  SemaphoresOK'
  <1>0. /\ Cardinality(HoldsPermit) <= InferPermits /\ Cardinality(InBody) <= Backpressure
        /\ InferPermits \in Nat /\ Backpressure \in Nat
    BY AgentAssumption DEF IInv, SemaphoresOK
  <1>1. /\ InBody \in SUBSET Offsets /\ InBody' \in SUBSET Offsets
        /\ HoldsPermit \in SUBSET Offsets /\ HoldsPermit' \in SUBSET Offsets
    BY DEF InBody, HoldsPermit, In
  <1>2. InBody' \subseteq InBody \cup {e} /\ HoldsPermit' \subseteq HoldsPermit \cup {e}
    BY DEF InBody, HoldsPermit, In
  <1>3. ASSUME NEW S \in SUBSET Offsets, NEW T \in SUBSET Offsets, NEW limit \in Nat,
               Cardinality(S) <= limit, T \subseteq S \cup {e},
               e \in T => e \in S \/ Cardinality(S) < limit
        PROVE  Cardinality(T) <= limit
    <2>0. IsFiniteSet(S) /\ IsFiniteSet(S \cup {e})
          /\ Cardinality(S) \in Nat /\ Cardinality(T) \in Nat /\ Cardinality(S \cup {e}) \in Nat
      <3>1. S \cup {e} \in SUBSET Offsets
        OBVIOUS
      <3> QED
        BY <3>1, OffsetsFacts
    <2>1. CASE T \subseteq S
      <3>1. Cardinality(T) <= Cardinality(S)
        BY <2>0, <2>1, FS_Subset
      <3> QED
        BY <1>3, <2>0, <3>1
    <2>2. CASE ~(T \subseteq S)
      <3>1. e \in T /\ e \notin S
        BY <1>3, <2>2
      <3>2. Cardinality(S \cup {e}) = Cardinality(S) + 1
        BY <2>0, <3>1, FS_AddElement
      <3>3. Cardinality(T) <= Cardinality(S \cup {e})
        BY <1>3, <2>0, FS_Subset
      <3> QED
        BY <1>3, <2>0, <3>1, <3>2, <3>3
    <2> QED
      BY <2>1, <2>2
  <1>4. Cardinality(InBody') <= Backpressure
    BY <1>0, <1>1, <1>2, <1>3
  <1>5. Cardinality(HoldsPermit') <= InferPermits
    BY <1>0, <1>1, <1>2, <1>3
  <1> QED
    BY <1>4, <1>5 DEF SemaphoresOK

\* Fewer events in their bodies.
LEMMA SemaphoreShrink ==
    ASSUME IInv, InBody' \subseteq InBody, HoldsPermit' \subseteq HoldsPermit
    PROVE  SemaphoresOK'
  <1>0. /\ Cardinality(HoldsPermit) <= InferPermits /\ Cardinality(InBody) <= Backpressure
        /\ InferPermits \in Nat /\ Backpressure \in Nat
    BY AgentAssumption DEF IInv, SemaphoresOK
  <1>1. /\ InBody \in SUBSET Offsets /\ InBody' \in SUBSET Offsets
        /\ HoldsPermit \in SUBSET Offsets /\ HoldsPermit' \in SUBSET Offsets
    BY DEF InBody, HoldsPermit, In
  <1>2. /\ IsFiniteSet(InBody) /\ IsFiniteSet(HoldsPermit)
        /\ Cardinality(InBody) \in Nat /\ Cardinality(InBody') \in Nat
        /\ Cardinality(HoldsPermit) \in Nat /\ Cardinality(HoldsPermit') \in Nat
    BY <1>1, OffsetsFacts
  <1>3. /\ Cardinality(InBody') <= Cardinality(InBody)
        /\ Cardinality(HoldsPermit') <= Cardinality(HoldsPermit)
    BY <1>2, FS_Subset
  <1> QED
    BY <1>0, <1>2, <1>3 DEF SemaphoresOK

LEMMA SemaphoreStep ==
    ASSUME IInv, [Next]_vars
    PROVE  SemaphoresOK'
  <1>0. phase \in [Offsets -> Phases]
    BY DEF IInv, ControlOK
  <1> DEFINE Others(e) == \A f \in Offsets \ {e} : phase'[f] = phase[f]
             Body1(e) == e \in InBody' => e \in InBody \/ Cardinality(InBody) < Backpressure
             Permit1(e) == e \in HoldsPermit' =>
                               e \in HoldsPermit \/ Cardinality(HoldsPermit) < InferPermits
  <1>m. ASSUME NEW e \in Offsets, Others(e), Body1(e), Permit1(e) PROVE SemaphoresOK'
    BY <1>m, SemaphoreMove
  <1>s. ASSUME InBody' \subseteq InBody, HoldsPermit' \subseteq HoldsPermit PROVE SemaphoresOK'
    BY <1>s, SemaphoreShrink
  <1>u. ASSUME UNCHANGED phase PROVE SemaphoresOK'
    <2>1. InBody' = InBody /\ HoldsPermit' = HoldsPermit
      BY <1>u DEF InBody, HoldsPermit, In
    <2> QED
      BY <1>s, <2>1
  <1>d. ASSUME NEW e \in Offsets, NEW where \in {"gate", "done"}, Goto(e, where)
        PROVE  SemaphoresOK'
    BY <1>0, <1>d, <1>m DEF Goto, InBody, HoldsPermit, In
  <1>b. ASSUME NEW e \in Offsets, e \in InBody, NEW where \in Phases \ {"infer"}, Goto(e, where)
        PROVE  SemaphoresOK'
    BY <1>0, <1>b, <1>m DEF Goto, InBody, HoldsPermit, In
  <1>l. ASSUME NEW e \in Offsets, e \in InBody, NEW ds, Loop(e, ds)
        PROVE  SemaphoresOK'
    BY <1>l, <1>b DEF Loop, Phases
  <1> HIDE DEF Others, Body1, Permit1
  <1>1. ASSUME NEW e \in Offsets, Take(e) PROVE SemaphoresOK'
    BY <1>1, <1>d DEF Take
  <1>2. ASSUME NEW e \in Offsets, Admit(e) PROVE SemaphoresOK'
    BY <1>0, <1>2, <1>m DEF Admit, Loop, Goto, InBody, HoldsPermit, In, Others, Body1, Permit1
  <1>3. ASSUME NEW e \in Offsets, AcquirePending(e) PROVE SemaphoresOK'
    BY <1>3, <1>b DEF AcquirePending, InBody, In, Phases
  <1>4. ASSUME NEW e \in Offsets, Submit(e) PROVE SemaphoresOK'
    <2>1. e \in InBody
      BY <1>4 DEF Submit, InBody, In
    <2>2. CASE Goto(e, "infer")
      BY <1>0, <1>4, <2>1, <2>2, <1>m
         DEF Submit, Goto, InBody, HoldsPermit, In, Others, Body1, Permit1
    <2>3. CASE Loop(e, todo[e])
      BY <1>l, <2>1, <2>3
    <2> QED
      BY <1>4, <2>2, <2>3 DEF Submit
  <1>5. ASSUME NEW e \in Offsets, JobStart(e) PROVE SemaphoresOK'
    BY <1>5, <1>u DEF JobStart
  <1>6. ASSUME NEW e \in Offsets, PredictReturns(e) PROVE SemaphoresOK'
    <2>1. CASE phase[e] = "infer"
      <3>1. e \in InBody
        BY <2>1 DEF InBody, In
      <3>2. PICK found : Loop(e, todo[e] \cup found)
        BY <1>6, <2>1 DEF PredictReturns
      <3> QED
        BY <1>l, <3>1, <3>2
    <2>2. CASE phase[e] # "infer"
      BY <1>6, <2>2, <1>u DEF PredictReturns
    <2> QED
      BY <2>1, <2>2
  <1>7. ASSUME NEW e \in Offsets, InferenceTimeout(e) PROVE SemaphoresOK'
    BY <1>7, <1>l DEF InferenceTimeout, InBody, In
  <1>8. ASSUME NEW e \in Offsets, Enrich(e) PROVE SemaphoresOK'
    <2>1. e \in InBody /\ (Goto(e, "emit") \/ Goto(e, "lookup"))
      BY <1>8 DEF Enrich, InBody, In
    <2> QED
      BY <1>b, <2>1 DEF Phases
  <1>9. ASSUME NEW e \in Offsets, LookupAnswers(e) PROVE SemaphoresOK'
    BY <1>9, <1>b DEF LookupAnswers, InBody, In, Phases
  <1>10. ASSUME NEW e \in Offsets, LookupFails(e) PROVE SemaphoresOK'
    BY <1>10, <1>b DEF LookupFails, InBody, In, Phases
  <1>11. ASSUME NEW e \in Offsets, Emit(e) PROVE SemaphoresOK'
    <2>1. e \in InBody
      BY <1>11 DEF Emit, InBody, In
    <2>2. PICK d \in todo[e] : Loop(e, todo[e] \ {d})
      BY <1>11 DEF Emit
    <2> QED
      BY <1>l, <2>1, <2>2
  <1>13. CASE Shutdown
    <2>1. \A e \in Offsets : phase'[e] \in {"done", "cut", phase[e]}
      BY <1>13 DEF Shutdown
    <2> QED
      BY <2>1, <1>s DEF InBody, HoldsPermit, In
  <1>14. CASE Down
    <2>1. \A e \in Offsets : phase'[e] \in {"done", "topic"}
      BY <1>14 DEF Down
    <2> QED
      BY <2>1, <1>s DEF InBody, HoldsPermit, In
  <1>15. CASE Commit \/ Restart \/ Tick \/ UNCHANGED vars
    BY <1>15, <1>u DEF Commit, Restart, Tick, vars
  <1> QED
    BY <1>1, <1>2, <1>3, <1>4, <1>5, <1>6, <1>7, <1>8, <1>9, <1>10, <1>11, <1>13,
       <1>14, <1>15 DEF Next, Body

LEMMA CacheStep ==
    ASSUME IInv, [Next]_vars
    PROVE  CacheOK(cache, clock)' /\ IntelIsFresh'
  <1>0. /\ CacheOK(cache, clock) /\ IntelIsFresh /\ clock \in Nat /\ age \in [Offsets -> Int]
        /\ CacheTtl \in Nat /\ CacheTtl > 0
    BY AgentAssumption, CacheAssumption DEF IInv, ControlOK
  <1>u. ASSUME UNCHANGED <<cache, clock>> PROVE CacheOK(cache, clock)'
    BY <1>0, <1>u
  <1>f. ASSUME UNCHANGED age PROVE IntelIsFresh'
    BY <1>0, <1>f DEF IntelIsFresh
  <1>1. ASSUME NEW e \in Offsets,
               Take(e) \/ Admit(e) \/ AcquirePending(e) \/ Submit(e) \/ JobStart(e)
                 \/ PredictReturns(e) \/ InferenceTimeout(e)
        PROVE  UNCHANGED <<cache, clock, age>>
    BY <1>1 DEF Take, Admit, AcquirePending, Submit, JobStart, PredictReturns, InferenceTimeout
  <1>2. ASSUME NEW e \in Offsets, Enrich(e) PROVE CacheOK(cache, clock)' /\ IntelIsFresh'
    <2> DEFINE ip == Event[e].ip
    <2>0. UNCHANGED clock
      BY <1>2 DEF Enrich
    <2>1. CASE UNCHANGED <<cache, age>>
      BY <1>u, <1>f, <2>0, <2>1
    <2>2. CASE cache' = Dropped(cache, ip) /\ UNCHANGED age
      <3>1. CacheOK(Without(cache, ip), clock)
        BY <1>0, WithoutFacts
      <3>2. cache' = Without(cache, ip)
        BY <2>2 DEF Dropped
      <3> QED
        BY <1>f, <2>0, <2>2, <3>1, <3>2
    <2>3. CASE \E entry \in Served(cache, ip, clock) :
                   /\ cache' = Touch(cache, entry, clock)
                   /\ age' = [age EXCEPT ![e] = clock - entry.got]
      <3>1. PICK entry \in Served(cache, ip, clock) :
                   /\ cache' = Touch(cache, entry, clock)
                   /\ age' = [age EXCEPT ![e] = clock - entry.got]
        BY <2>3
      <3>2. entry \in ToSet(cache) /\ entry.got \in Nat /\ clock - entry.got < CacheTtl
        BY <1>0, ServedFacts
      <3>3. CacheOK(Touch(cache, entry, clock), clock)
        BY <1>0, <3>2, TouchFacts
      <3>4. IntelIsFresh'
        BY <1>0, <3>1, <3>2 DEF IntelIsFresh
      <3> QED
        BY <2>0, <3>1, <3>3, <3>4
    <2> QED
      BY <1>2, <2>1, <2>2, <2>3 DEF Enrich
  <1>3. ASSUME NEW e \in Offsets, LookupAnswers(e) \/ LookupFails(e)
        PROVE  CacheOK(cache, clock)' /\ IntelIsFresh'
    <2>0. UNCHANGED <<clock, age>>
      BY <1>3 DEF LookupAnswers, LookupFails
    <2>1. CacheOK(SetCached(cache, Event[e].ip, TRUE, clock), clock)
          /\ CacheOK(SetCached(cache, Event[e].ip, FALSE, clock), clock)
      BY <1>0, SetCachedFacts
    <2>2. cache' \in {cache, SetCached(cache, Event[e].ip, TRUE, clock),
                      SetCached(cache, Event[e].ip, FALSE, clock)}
      BY <1>3 DEF LookupAnswers, LookupFails
    <2>3. CacheOK(cache', clock)
      BY <1>0, <2>1, <2>2
    <2> QED
      BY <1>f, <2>0, <2>3
  <1>4. ASSUME NEW e \in Offsets, Emit(e) PROVE CacheOK(cache, clock)' /\ IntelIsFresh'
    <2>1. UNCHANGED <<cache, clock>> /\ age' = [age EXCEPT ![e] = 0]
      BY <1>4 DEF Emit
    <2> QED
      BY <1>0, <1>u, <2>1 DEF IntelIsFresh
  <1>5. CASE Commit \/ Shutdown \/ Restart \/ UNCHANGED vars
    BY <1>5, <1>u, <1>f DEF Commit, Shutdown, Restart, vars
  <1>6. CASE Down
    <2>1. cache' = <<>> /\ age' = [e \in Offsets |-> 0]
      BY <1>6 DEF Down
    <2>2. CacheOK(<<>>, clock')
      BY CacheAssumption DEF CacheOK, OncePerIp, DatedOK
    <2> QED
      BY <1>0, <2>1, <2>2 DEF IntelIsFresh
  <1>7. CASE Tick
    <2>1. UNCHANGED <<cache, age>> /\ clock' = clock + 1
      BY <1>7 DEF Tick
    <2>2. ASSUME NEW i \in DOMAIN cache PROVE cache[i].got <= clock + 1
      <3>1. cache[i] \in Entries /\ cache[i].got <= clock
        BY <1>0 DEF CacheOK, DatedOK
      <3>2. cache[i].got \in Nat
        BY <3>1 DEF Entries
      <3> QED
        BY <1>0, <3>1, <3>2
    <2>3. CacheOK(cache, clock + 1)
      BY <1>0, <2>2 DEF CacheOK, DatedOK
    <2> QED
      BY <1>f, <2>1, <2>3
  <1> QED
    BY <1>1, <1>u, <1>f, <1>2, <1>3, <1>4, <1>5, <1>6, <1>7 DEF Next, Body

\* A step of one event's body leaves the other events as they are.
LEMMA EventMove ==
    ASSUME IInv, NEW e \in Offsets,
           \A f \in Offsets \ {e} : phase'[f] = phase[f] /\ todo'[f] = todo[f],
           emitted \subseteq emitted', UNCHANGED <<skipped, committed>>,
           phase'[e] = "done" => Covered(e)',
           phase'[e] \in {"pending", "permit", "infer"} => RuleDetections(e) \subseteq todo'[e],
           phase'[e] \in {"enrich", "lookup", "emit"} =>
               {e} \X (RuleDetections(e) \ todo'[e]) \subseteq emitted'
    PROVE  EventInv' /\ NoEventLost'
  <1>1. EventInv /\ NoEventLost
    BY DEF IInv
  <1>2. \A f \in Offsets : RuleDetections(f)' = RuleDetections(f)
    BY DEF RuleDetections
  <1>3. EventInv'
    <2> SUFFICES ASSUME NEW f \in Offsets
        PROVE  /\ phase'[f] = "done" => f \in skipped' \/ {f} \X RuleDetections(f) \subseteq emitted'
               /\ phase'[f] \in {"pending", "permit", "infer"} => RuleDetections(f) \subseteq todo'[f]
               /\ phase'[f] \in {"enrich", "lookup", "emit"} =>
                      {f} \X (RuleDetections(f) \ todo'[f]) \subseteq emitted'
      BY <1>2 DEF EventInv, Covered, Emitted
    <2>1. CASE f = e
      BY <2>1, <1>2 DEF Covered, Emitted
    <2>2. CASE f # e
      <3>1. phase'[f] = phase[f] /\ todo'[f] = todo[f]
        BY <2>2
      <3> QED
        BY <1>1, <3>1 DEF EventInv, Covered, Emitted
    <2> QED
      BY <2>1, <2>2
  <1>4. NoEventLost'
    BY <1>1, <1>2 DEF NoEventLost, RuleDetections
  <1> QED
    BY <1>3, <1>4

LEMMA EventStep ==
    ASSUME IInv, [Next]_vars
    PROVE  EventInv' /\ NoEventLost'
  <1>0. /\ EventInv /\ NoEventLost /\ phase \in [Offsets -> Phases] /\ DOMAIN todo = Offsets
        /\ committed \in 0 .. Len(Event) /\ skipped \subseteq Offsets
    BY DEF IInv, ControlOK
  <1>k. ASSUME NEW e \in Offsets, UNCHANGED <<phase, todo, emitted, skipped, committed>>
        PROVE  EventInv' /\ NoEventLost'
    BY <1>0, <1>k DEF EventInv, NoEventLost, Covered, Emitted, RuleDetections
  \* A body that goes on in the same pass over its detections.
  <1>g. ASSUME NEW e \in Offsets, NEW where \in Phases, Goto(e, where),
               UNCHANGED <<todo, emitted, skipped, committed>>,
               \/ where = "gate"
               \/ /\ phase[e] \in {"pending", "permit", "infer"}
                  /\ where \in {"pending", "permit", "infer"}
               \/ phase[e] \in {"enrich", "lookup", "emit"} /\ where \in {"enrich", "lookup", "emit"}
        PROVE  EventInv' /\ NoEventLost'
    <2>1. phase'[e] = where /\ \A f \in Offsets \ {e} : phase'[f] = phase[f] /\ todo'[f] = todo[f]
      BY <1>0, <1>g DEF Goto
    <2>2. where # "done"
      BY <1>g
    <2>3. where \in {"pending", "permit", "infer"} => RuleDetections(e) \subseteq todo'[e]
      BY <1>0, <1>g DEF EventInv
    <2>4. where \in {"enrich", "lookup", "emit"} =>
              {e} \X (RuleDetections(e) \ todo'[e]) \subseteq emitted'
      BY <1>0, <1>g DEF EventInv, Emitted
    <2> QED
      BY <1>g, <2>1, <2>2, <2>3, <2>4, EventMove
  \* A body that goes on with the detections that are left.
  <1>l. ASSUME NEW e \in Offsets, NEW left, Loop(e, left),
               emitted \subseteq emitted', UNCHANGED <<skipped, committed>>,
               {e} \X (RuleDetections(e) \ left) \subseteq emitted'
        PROVE  EventInv' /\ NoEventLost'
    <2>1. /\ phase'[e] = (IF left = {} THEN "done" ELSE "enrich") /\ todo'[e] = left
          /\ \A f \in Offsets \ {e} : phase'[f] = phase[f] /\ todo'[f] = todo[f]
      BY <1>0, <1>l DEF Loop, Goto
    <2>2. phase'[e] = "done" => Covered(e)'
      <3>1. RuleDetections(e)' = RuleDetections(e)
        BY DEF RuleDetections
      <3>2. left = {} => {e} \X RuleDetections(e) \subseteq emitted'
        BY <1>l
      <3> QED
        BY <2>1, <3>1, <3>2 DEF Covered, Emitted
    <2> QED
      BY <1>l, <2>1, <2>2, EventMove
  <1>1. ASSUME NEW e \in Offsets, Take(e) PROVE EventInv' /\ NoEventLost'
    BY <1>1, <1>g DEF Take, pools, Phases
  <1>2. ASSUME NEW e \in Offsets, Admit(e) PROVE EventInv' /\ NoEventLost'
    <2>0. UNCHANGED <<emitted, skipped, committed>>
      BY <1>2 DEF Admit, pools
    <2>1. CASE FeaturesRaise(Event[e])
      <3>1. Loop(e, {}) /\ RuleDetections(e) = {}
        BY <1>2, <2>1 DEF Admit, RuleDetections
      <3> QED
        BY <1>l, <2>0, <3>1
    <2>2. CASE ~FeaturesRaise(Event[e]) /\ NeedsInference(Event[e])
      <3>1. /\ todo' = [todo EXCEPT ![e] = RuleDetections(e)]
            /\ phase' = [phase EXCEPT ![e] = "pending"]
        BY <1>2, <2>2 DEF Admit, RuleDetections, Goto
      <3>2. /\ phase'[e] = "pending" /\ todo'[e] = RuleDetections(e)
            /\ \A f \in Offsets \ {e} : phase'[f] = phase[f] /\ todo'[f] = todo[f]
        BY <1>0, <3>1
      <3> QED
        BY <2>0, <3>2, EventMove
    <2>3. CASE ~FeaturesRaise(Event[e]) /\ ~NeedsInference(Event[e])
      <3>1. Loop(e, RuleDetections(e))
        BY <1>2, <2>3 DEF Admit, RuleDetections
      <3> QED
        BY <1>l, <2>0, <3>1
    <2> QED
      BY <2>1, <2>2, <2>3
  <1>3. ASSUME NEW e \in Offsets, AcquirePending(e) PROVE EventInv' /\ NoEventLost'
    BY <1>3, <1>g DEF AcquirePending, pools, Phases
  <1>4. ASSUME NEW e \in Offsets, Submit(e) PROVE EventInv' /\ NoEventLost'
    <2>0. UNCHANGED <<emitted, skipped, committed>> /\ phase[e] = "permit"
      BY <1>4 DEF Submit, pools
    <2>1. CASE Goto(e, "infer") /\ UNCHANGED todo
      BY <2>0, <2>1, <1>g DEF Phases
    <2>2. CASE Loop(e, todo[e])
      <3>1. RuleDetections(e) \ todo[e] = {}
        BY <1>0, <2>0 DEF EventInv
      <3> QED
        BY <1>l, <2>0, <2>2, <3>1
    <2> QED
      BY <1>4, <2>1, <2>2 DEF Submit
  <1>5. ASSUME NEW e \in Offsets, JobStart(e) PROVE EventInv' /\ NoEventLost'
    BY <1>5, <1>k DEF JobStart, pools
  <1>6. ASSUME NEW e \in Offsets, PredictReturns(e) PROVE EventInv' /\ NoEventLost'
    <2>0. UNCHANGED <<emitted, skipped, committed>>
      BY <1>6 DEF PredictReturns, pools
    <2>1. CASE phase[e] = "infer"
      <3>1. PICK found : Loop(e, todo[e] \cup found)
        BY <1>6, <2>1 DEF PredictReturns
      <3>2. RuleDetections(e) \ (todo[e] \cup found) = {}
        BY <1>0, <2>1 DEF EventInv
      <3> QED
        BY <1>l, <2>0, <3>1, <3>2
    <2>2. CASE phase[e] # "infer"
      BY <1>6, <2>0, <2>2, <1>k DEF PredictReturns
    <2> QED
      BY <2>1, <2>2
  <1>7. ASSUME NEW e \in Offsets, InferenceTimeout(e) PROVE EventInv' /\ NoEventLost'
    <2>0. UNCHANGED <<emitted, skipped, committed>> /\ Loop(e, todo[e])
      BY <1>7 DEF InferenceTimeout, pools
    <2>1. RuleDetections(e) \ todo[e] = {}
      BY <1>0, <1>7 DEF EventInv, InferenceTimeout
    <2> QED
      BY <1>l, <2>0, <2>1
  <1>8. ASSUME NEW e \in Offsets, Enrich(e) \/ LookupAnswers(e) \/ LookupFails(e)
        PROVE  EventInv' /\ NoEventLost'
    <2>1. /\ UNCHANGED <<todo, emitted, skipped, committed>> /\ phase[e] \in {"enrich", "lookup"}
          /\ Goto(e, "emit") \/ Goto(e, "lookup")
      BY <1>8 DEF Enrich, LookupAnswers, LookupFails, pools
    <2> QED
      BY <2>1, <1>g DEF Phases
  <1>9. ASSUME NEW e \in Offsets, Emit(e) PROVE EventInv' /\ NoEventLost'
    <2>1. PICK d \in todo[e] : emitted' = emitted \cup {<<e, d>>} /\ Loop(e, todo[e] \ {d})
      BY <1>9 DEF Emit
    <2>2. {e} \X (RuleDetections(e) \ todo[e]) \subseteq emitted
      BY <1>0, <1>9 DEF EventInv, Emitted, Emit
    <2>3. {e} \X (RuleDetections(e) \ (todo[e] \ {d})) \subseteq emitted'
      BY <2>1, <2>2
    <2>4. UNCHANGED <<skipped, committed>> /\ emitted \subseteq emitted'
      BY <1>9, <2>1 DEF Emit, pools
    <2> QED
      BY <1>l, <2>1, <2>3, <2>4
  <1>10. CASE Commit
    <2>1. UNCHANGED <<phase, todo, emitted, skipped>> /\ committed' = AckPrefix(In({"done"}))
      BY <1>10 DEF Commit
    <2>2. 1 .. committed' \subseteq In({"done"})
      BY <2>1, AckPrefixFacts
    <2>3. \A e \in 1 .. committed' : Covered(e)
      BY <1>0, <2>2 DEF In, EventInv
    <2> QED
      BY <1>0, <2>1, <2>3 DEF EventInv, NoEventLost, Covered, Emitted, RuleDetections
  <1>11. CASE Shutdown
    <2>0. UNCHANGED <<committed, emitted>>
      BY <1>11 DEF Shutdown
    <2>1. PICK cut \in SUBSET Offsets, acked \in SUBSET Offsets :
              /\ acked \subseteq cut
              /\ phase' = [e \in Offsets |-> IF e \in acked THEN "done"
                                             ELSE IF e \in cut THEN "cut" ELSE phase[e]]
              /\ todo' = [e \in Offsets |-> IF e \in cut THEN {} ELSE todo[e]]
              /\ skipped' = skipped \cup acked
      BY <1>11 DEF Shutdown, In
    <2>2. NoEventLost'
      BY <1>0, <2>0, <2>1 DEF NoEventLost, RuleDetections
    <2>3. ASSUME NEW e \in Offsets
          PROVE  /\ phase'[e] = "done" => e \in skipped' \/ {e} \X RuleDetections(e) \subseteq emitted
                 /\ phase'[e] \in {"pending", "permit", "infer"} => RuleDetections(e) \subseteq todo'[e]
                 /\ phase'[e] \in {"enrich", "lookup", "emit"} =>
                        {e} \X (RuleDetections(e) \ todo'[e]) \subseteq emitted
      BY <1>0, <2>1 DEF EventInv, Covered, Emitted
    <2> QED
      BY <2>0, <2>2, <2>3 DEF EventInv, Covered, Emitted, RuleDetections
  <1>12. CASE Down
    <2>0. /\ UNCHANGED <<committed, emitted>> /\ skipped' = skipped \cap 1 .. committed
          /\ phase' = [e \in Offsets |-> IF e <= committed THEN "done" ELSE "topic"]
      BY <1>12 DEF Down
    <2>2. NoEventLost'
      BY <1>0, <2>0 DEF NoEventLost, RuleDetections
    <2>3. ASSUME NEW e \in Offsets, phase'[e] = "done" PROVE Covered(e)'
      <3>1. e \in 1 .. committed'
        BY <1>0, <2>0, <2>3, OffsetsFacts
      <3> QED
        BY <2>2, <3>1 DEF NoEventLost, Covered, Emitted
    <2>4. \A e \in Offsets : phase'[e] \in {"done", "topic"}
      BY <2>0
    <2> QED
      BY <2>2, <2>3, <2>4 DEF EventInv
  <1>13. CASE Restart \/ Tick \/ UNCHANGED vars
    <2>1. UNCHANGED <<phase, todo, emitted, skipped, committed>>
      BY <1>13 DEF Restart, Tick, vars, pools
    <2> QED
      BY <1>0, <2>1 DEF EventInv, NoEventLost, Covered, Emitted, RuleDetections
  <1> QED
    BY <1>1, <1>2, <1>3, <1>4, <1>5, <1>6, <1>7, <1>8, <1>9, <1>10, <1>11, <1>12, <1>13
       DEF Next, Body

(***************************************************************************)
(* The inductive invariant of process_traffic and its enricher: what an    *)
(* event still owes is either emitted or in the hands of its loop body.    *)
(***************************************************************************)
THEOREM AgentInvariant ==
    Spec => []IInv
  <1>1. IInv /\ [Next]_vars => IInv'
    BY ControlStep, SemaphoreStep, CacheStep, EventStep DEF IInv
  <1> QED
    BY InitInv, <1>1, PTL DEF Spec

-----------------------------------------------------------------------------
(***************************************************************************)
(* Type correctness of process_traffic and its enricher: no more bodies    *)
(* inside backpressure_sem and _infer_sem than they have permits, and a    *)
(* cache within max_cache_size that holds an address once.                 *)
(***************************************************************************)
THEOREM AgentType ==
    Spec => []TypeOK
  <1>1. IInv => TypeOK
    BY DEF IInv, ControlOK, SemaphoresOK, CacheOK, OncePerIp, TypeOK
  <1> QED
    BY <1>1, AgentInvariant, PTL

(***************************************************************************)
(* A committed offset leaves no rule detection of process_traffic behind,  *)
(* whatever was redelivered, timed out or hung, but for events whose       *)
(* acknowledgement slipped out while shutdown cut their body off.          *)
(***************************************************************************)
THEOREM AgentNoEventLost ==
    Spec => []NoEventLost
  <1>1. IInv => NoEventLost
    BY DEF IInv
  <1> QED
    BY <1>1, AgentInvariant, PTL

(***************************************************************************)
(* No alert carries intel that ThreatEnricher obtained cache_ttl_sec ago   *)
(* or earlier: using an entry moves it in the cache and does not renew it. *)
(***************************************************************************)
THEOREM AgentIntelIsFresh ==
    Spec => []IntelIsFresh
  <1>1. IInv => IntelIsFresh
    BY DEF IInv
  <1> QED
    BY <1>1, AgentInvariant, PTL
=============================================================================
