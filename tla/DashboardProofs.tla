--------------------------- MODULE DashboardProofs ---------------------------
(***************************************************************************)
(* Proofs about Dashboard, for any table, any page size and any number of  *)
(* writes, outages and expired tokens: the paging client, the two requests *)
(* of the poller, and the incidents computed from what it fetched.         *)
(***************************************************************************)
EXTENDS Dashboard, FiniteSums, FunctionTheorems, SequenceTheorems, TLAPS

-----------------------------------------------------------------------------
(***************************************************************************)
(* The invariant.                                                          *)
(***************************************************************************)
Ids(set) == {r.id : r \in set}

\* The primary key: an id names one row.
Keyed(set) ==
    /\ IsFiniteSet(set) /\ \A r \in set : r.id \in Nat \ {0}
    /\ \A r, q \in set : r.id = q.id => r = q

\* The ids seen so far fall, and the cursor is not above any of them.
Falling(s) == \A j, k \in DOMAIN s : j < k => s[k] < s[j]

PagerType ==
    /\ pager \in [at : {"idle", "paging", "done"}, cursor : Nat, seen : Seq(Nat), due : SUBSET Nat]
    /\ pager.cursor = 0 => pager.seen = <<>>
    /\ \A k \in DOMAIN pager.seen : pager.cursor <= pager.seen[k]
    /\ Falling(pager.seen)

\* What was there at the start is still there, and was seen or lies ahead.
PagerProgress ==
    /\ pager.at = "idle" => pager.cursor = 0
    /\ pager.at = "paging" =>
          /\ pager.due \subseteq Ids(rows)
          /\ \A d \in pager.due :
                pager.cursor = 0 \/ d < pager.cursor \/ d \in ToSet(pager.seen)
    /\ pager.at = "done" => pager.due \subseteq ToSet(pager.seen)

IInv == Keyed(rows) /\ PagerType /\ PagerProgress

-----------------------------------------------------------------------------
(***************************************************************************)
(* A sorted page.                                                          *)
(***************************************************************************)
Above(set, r) == {q \in set : q.id >= r.id}
Rank(set, r) == Cardinality(Above(set, r))

LEMMA RankFacts ==
    ASSUME NEW set, Keyed(set)
    PROVE  /\ Cardinality(set) \in Nat
           /\ \A r \in set : Rank(set, r) \in 1 .. Cardinality(set)
           /\ \A r, q \in set : q.id < r.id => Rank(set, r) < Rank(set, q)
           /\ \A k \in 1 .. Cardinality(set) : \E r \in set : Rank(set, r) = k
  <1>0. IsFiniteSet(set) /\ Cardinality(set) \in Nat
    BY FS_CardinalityType DEF Keyed
  <1>1. \A r \in set : /\ Above(set, r) \in SUBSET set /\ IsFiniteSet(Above(set, r))
                       /\ Rank(set, r) \in Nat /\ r \in Above(set, r)
    <2> SUFFICES ASSUME NEW r \in set
                 PROVE  /\ Above(set, r) \in SUBSET set /\ IsFiniteSet(Above(set, r))
                        /\ Rank(set, r) \in Nat /\ r \in Above(set, r)
      OBVIOUS
    <2>1. Above(set, r) \in SUBSET set
      BY DEF Above
    <2>2. r \in Above(set, r)
      BY DEF Above, Keyed
    <2>3. IsFiniteSet(Above(set, r))
      BY <1>0, <2>1, FS_Subset
    <2> QED
      BY <2>1, <2>2, <2>3, FS_CardinalityType DEF Rank
  <1>2. ASSUME NEW r \in set PROVE Rank(set, r) \in 1 .. Cardinality(set)
    <2>1. Rank(set, r) <= Cardinality(set)
      BY <1>0, <1>1, FS_Subset DEF Rank
    <2>2. Rank(set, r) # 0
      BY <1>1, FS_EmptySet DEF Rank
    <2> QED
      BY <1>0, <1>1, <2>1, <2>2
  <1>3. ASSUME NEW r \in set, NEW q \in set, q.id < r.id PROVE Rank(set, r) < Rank(set, q)
    <2>0. r.id \in Nat /\ q.id \in Nat
      BY DEF Keyed
    <2>1. Above(set, r) \in SUBSET Above(set, q)
      <3> SUFFICES ASSUME NEW x \in set, x.id >= r.id PROVE x.id >= q.id
        BY DEF Above
      <3>1. x.id \in Nat
        BY DEF Keyed
      <3> QED
        BY <1>3, <2>0, <3>1
    <2>2. q \in Above(set, q) /\ q \notin Above(set, r)
      BY <1>3, <2>0 DEF Above
    <2>3. Rank(set, r) <= Rank(set, q) /\ Rank(set, r) # Rank(set, q)
      BY <1>1, <2>1, <2>2, FS_Subset DEF Rank
    <2> QED
      BY <1>1, <2>3
  <1>4. \A k \in 1 .. Cardinality(set) : \E r \in set : Rank(set, r) = k
    <2> DEFINE n == Cardinality(set)
               f == [r \in set |-> Rank(set, r)]
    <2>1. f \in [set -> 1 .. n]
      BY <1>2
    <2>2. \A r, q \in set : f[r] = f[q] => r = q
      <3> SUFFICES ASSUME NEW r \in set, NEW q \in set, Rank(set, r) = Rank(set, q) PROVE r = q
        OBVIOUS
      <3>1. r.id \in Nat /\ q.id \in Nat /\ Rank(set, r) \in Nat /\ Rank(set, q) \in Nat
        BY <1>1 DEF Keyed
      <3>2. ~(q.id < r.id) /\ ~(r.id < q.id)
        BY <1>3, <3>1
      <3>3. r.id = q.id
        BY <3>1, <3>2
      <3> QED
        BY <3>3 DEF Keyed
    <2>3. f \in Injection(set, 1 .. n)
      BY <2>1, <2>2, Fun_IsInj
    <2>4. IsFiniteSet(1 .. n) /\ Cardinality(1 .. n) = n
      BY <1>0, FS_Interval
    <2>5. f \in Surjection(set, 1 .. n)
      BY <2>3, <2>4, FS_Injection
    <2> QED
      BY <2>5 DEF Surjection
  <1> QED
    BY <1>0, <1>2, <1>3, <1>4

LEMMA NthFacts ==
    ASSUME NEW set, Keyed(set), NEW k \in 1 .. Cardinality(set)
    PROVE  Nth(set, k) \in set /\ Rank(set, Nth(set, k)) = k
  <1>1. \E r \in set : Cardinality({q \in set : q.id >= r.id}) = k
    BY RankFacts DEF Rank, Above
  <1> QED
    BY <1>1 DEF Nth, Rank, Above

\* What get_alerts answers: rows below the cursor, their ids falling, none
\* left out above the last one, and none only when there is none.
Matching(cursor) == {r \in rows : cursor = 0 \/ r.id < cursor}

LEMMA PageFacts ==
    ASSUME Keyed(rows), NEW cursor, NEW page, page = GetAlerts(cursor, PageLimit)
    PROVE  /\ page \in Seq(Matching(cursor))
           /\ page = <<>> => Matching(cursor) = {}
           /\ \A j, k \in DOMAIN page : j < k => page[k].id < page[j].id
           /\ page # <<>> => \A r \in Matching(cursor) :
                                 r.id >= page[Len(page)].id => \E k \in DOMAIN page : page[k] = r
  <1> DEFINE match == Matching(cursor)
             n == Min({PageLimit, Cardinality(match)})
  <1>0. PageLimit \in Nat /\ PageLimit > 0
    BY DashboardAssumption
  <1>1. Keyed(match)
    <2>1. match \in SUBSET rows
      BY DEF Matching
    <2>2. IsFiniteSet(match)
      BY <2>1, FS_Subset DEF Keyed
    <2> QED
      BY <2>1, <2>2 DEF Keyed
  <1>2. page = [k \in 1 .. n |-> Nth(match, k)]
    BY DEF GetAlerts, Matching
  <1> HIDE DEF match
  <1>3. /\ Cardinality(match) \in Nat
        /\ \A r \in match : Rank(match, r) \in 1 .. Cardinality(match)
        /\ \A r, q \in match : q.id < r.id => Rank(match, r) < Rank(match, q)
    BY <1>1, RankFacts
  <1>4. n \in Nat /\ n <= Cardinality(match) /\ (n = 0 => Cardinality(match) = 0)
    BY <1>0, <1>3, MinFacts
  <1> HIDE DEF n
  <1>5. \A k \in 1 .. n : page[k] \in match /\ Rank(match, page[k]) = k
    <2> SUFFICES ASSUME NEW k \in 1 .. n PROVE page[k] \in match /\ Rank(match, page[k]) = k
      OBVIOUS
    <2>1. k \in 1 .. Cardinality(match)
      BY <1>3, <1>4
    <2> QED
      BY <1>1, <1>2, <2>1, NthFacts
  <1>6. page \in Seq(match) /\ Len(page) = n /\ DOMAIN page = 1 .. n
    BY <1>2, <1>4, <1>5
  <1>7. page = <<>> => match = {}
    <2> SUFFICES ASSUME page = <<>> PROVE match = {}
      OBVIOUS
    <2>1. Cardinality(match) = 0
      BY <1>4, <1>6
    <2> QED
      BY <1>1, <2>1, FS_EmptySet DEF Keyed
  <1>8. ASSUME NEW j \in DOMAIN page, NEW k \in DOMAIN page, j < k
        PROVE  page[k].id < page[j].id
    <2>1. /\ page[j] \in match /\ page[k] \in match
          /\ Rank(match, page[j]) = j /\ Rank(match, page[k]) = k /\ j \in Int /\ k \in Int
      BY <1>5, <1>6
    <2>2. page[j].id \in Nat /\ page[k].id \in Nat
      BY <1>1, <2>1 DEF Keyed
    <2>3. page[j] # page[k]
      BY <1>8, <2>1
    <2>4. page[j].id # page[k].id
      BY <1>1, <2>1, <2>3 DEF Keyed
    <2>5. ~(page[j].id < page[k].id)
      BY <1>3, <1>8, <2>1
    <2> QED
      BY <2>2, <2>4, <2>5
  <1>9. ASSUME page # <<>>, NEW r \in match, r.id >= page[Len(page)].id
        PROVE  \E k \in DOMAIN page : page[k] = r
    <2>0. n >= 1
      BY <1>4, <1>6, <1>9
    <2>1. page[n] \in match /\ Rank(match, page[n]) = n
      BY <1>4, <1>5, <2>0
    <2>2. r.id \in Nat /\ page[n].id \in Nat
      BY <1>1, <1>9, <2>1 DEF Keyed
    <2> DEFINE k == Rank(match, r)
    <2>3. k \in 1 .. Cardinality(match) /\ k <= n
      <3>1. k \in 1 .. Cardinality(match)
        BY <1>3, <1>9
      <3>2. CASE r = page[n]
        BY <1>4, <2>1, <3>1, <3>2
      <3>3. CASE r # page[n]
        <4>1. r.id # page[n].id
          BY <1>1, <1>9, <2>1, <3>3 DEF Keyed
        <4>2. page[n].id < r.id
          BY <1>6, <1>9, <2>2, <4>1
        <4>3. k < n
          BY <1>3, <1>9, <2>1, <4>2
        <4> QED
          BY <1>4, <3>1, <4>3
      <3> QED
        BY <3>2, <3>3
    <2>4. k \in 1 .. n
      BY <1>3, <1>4, <2>3
    <2>5. page[k] \in match /\ Rank(match, page[k]) = k
      BY <1>5, <2>4
    <2>6. page[k].id = r.id
      <3>1. page[k].id \in Nat
        BY <1>1, <2>5 DEF Keyed
      <3>2. ~(page[k].id < r.id) /\ ~(r.id < page[k].id)
        BY <1>3, <1>9, <2>3, <2>5
      <3> QED
        BY <2>2, <3>1, <3>2
    <2>7. page[k] = r
      BY <1>1, <1>9, <2>5, <2>6 DEF Keyed
    <2> QED
      BY <1>6, <2>4, <2>7
  <1> QED
    BY <1>6, <1>7, <1>8, <1>9 DEF match

-----------------------------------------------------------------------------
(***************************************************************************)
(* The steps.                                                              *)
(***************************************************************************)
LEMMA InitInv == Init => IInv
  <1> SUFFICES ASSUME Init PROVE IInv
    OBVIOUS
  <1>1. Keyed(rows)
    BY FS_EmptySet DEF Init, Keyed
  <1>2. /\ pager \in [at : {"idle", "paging", "done"}, cursor : Nat, seen : Seq(Nat), due : SUBSET Nat]
        /\ pager.cursor = 0 /\ pager.seen = <<>> /\ pager.due = {} /\ pager.at # "paging"
    BY DEF Init
  <1> QED
    BY <1>1, <1>2 DEF IInv, PagerType, PagerProgress, Falling

LEMMA StoreInv ==
    ASSUME IInv, Store
    PROVE  IInv'
  <1>1. PICK id \in 1 .. MaxWrites, src \in Source, sev \in Severity :
            rows' = {r \in rows : r.id # id} \cup {[id |-> id, src |-> src, sev |-> sev]}
    BY DEF Store
  <1> DEFINE kept == {r \in rows : r.id # id}
             new == [id |-> id, src |-> src, sev |-> sev]
  <1>2. new.id = id /\ id \in Nat \ {0}
    BY DashboardAssumption
  <1>3. kept \in SUBSET rows /\ rows' = kept \cup {new} /\ \A r \in kept : r.id # id
    BY <1>1
  <1>4. \A r \in rows : r \in kept \/ r.id = id
    OBVIOUS
  <1> HIDE DEF kept, new
  <1>5. Keyed(rows')
    <2>0. Keyed(rows)
      BY DEF IInv
    <2>1. IsFiniteSet(kept \cup {new})
      BY <1>3, <2>0, FS_Subset, FS_AddElement DEF Keyed
    <2> QED
      BY <1>2, <1>3, <2>0, <2>1 DEF Keyed
  <1>6. Ids(rows) \subseteq Ids(rows')
    BY <1>2, <1>3, <1>4 DEF Ids
  <1>7. UNCHANGED pager
    BY DEF Store, client
  <1> QED
    BY <1>5, <1>6, <1>7 DEF IInv, PagerType, PagerProgress

LEMMA PagerStartInv ==
    ASSUME IInv, PagerStart
    PROVE  IInv'
  <1>1. /\ pager \in [at : {"idle", "paging", "done"}, cursor : Nat, seen : Seq(Nat), due : SUBSET Nat]
        /\ pager.cursor = 0 /\ Keyed(rows) /\ PagerType
    BY DEF IInv, PagerType, PagerProgress, PagerStart
  <1>2. rows' = rows /\ pager' = [pager EXCEPT !.at = "paging", !.due = Ids(rows)]
    BY DEF PagerStart, db, Ids
  <1>3. Ids(rows) \in SUBSET Nat
    BY <1>1 DEF Ids, Keyed
  <1>4. /\ pager' \in [at : {"idle", "paging", "done"}, cursor : Nat, seen : Seq(Nat), due : SUBSET Nat]
        /\ pager'.at = "paging" /\ pager'.due = Ids(rows)
        /\ pager'.cursor = 0 /\ pager'.seen = pager.seen
    BY <1>1, <1>2, <1>3
  <1>5. PagerType'
    BY <1>1, <1>4 DEF PagerType
  <1>6. PagerProgress'
    BY <1>2, <1>4 DEF PagerProgress
  <1> QED
    BY <1>1, <1>2, <1>5, <1>6 DEF IInv

LEMMA PagerNextInv ==
    ASSUME IInv, PagerNext
    PROVE  IInv'
  <1>0. /\ pager \in [at : {"idle", "paging", "done"}, cursor : Nat, seen : Seq(Nat), due : SUBSET Nat]
        /\ Keyed(rows) /\ PagerType /\ PagerProgress /\ pager.at = "paging" /\ rows' = rows
    BY DEF IInv, PagerType, PagerNext, db
  <1>1. PICK page : page = GetAlerts(pager.cursor, PageLimit)
    OBVIOUS
  <1>2. /\ page \in Seq(Matching(pager.cursor))
        /\ page = <<>> => Matching(pager.cursor) = {}
        /\ \A j, k \in DOMAIN page : j < k => page[k].id < page[j].id
        /\ page # <<>> => \A r \in Matching(pager.cursor) :
                              r.id >= page[Len(page)].id => \E k \in DOMAIN page : page[k] = r
    BY <1>0, <1>1, PageFacts
  \* The end: nothing lies ahead.
  <1>3. CASE page = <<>>
    <2>1. pager' = [pager EXCEPT !.at = "done"]
      BY <1>1, <1>3 DEF PagerNext
    <2>2. /\ pager' \in [at : {"idle", "paging", "done"}, cursor : Nat, seen : Seq(Nat), due : SUBSET Nat]
          /\ pager'.at = "done" /\ pager'.due = pager.due
          /\ pager'.cursor = pager.cursor /\ pager'.seen = pager.seen
      BY <1>0, <2>1
    <2>3. ASSUME NEW d \in pager.due PROVE d \in ToSet(pager.seen)
      <3>1. PICK r \in rows : d = r.id
        BY <1>0 DEF PagerProgress, Ids
      <3>2. r \notin Matching(pager.cursor)
        BY <1>2, <1>3
      <3> QED
        BY <1>0, <3>1, <3>2 DEF PagerProgress, Matching
    <2>4. PagerType' /\ PagerProgress'
      BY <1>0, <2>2, <2>3 DEF PagerType, PagerProgress
    <2> QED
      BY <1>0, <2>4 DEF IInv
  \* A page: the cursor moves down to its last row.
  <1>4. CASE page # <<>>
    <2> DEFINE old == pager.seen
               cursor == pager.cursor
               ids == [k \in DOMAIN page |-> page[k].id]
               n == Len(page)
               last == page[n].id
               new == old \o ids
    <2>1. pager' = [pager EXCEPT !.cursor = last, !.seen = new]
      BY <1>1, <1>4 DEF PagerNext, Last
    <2>2. /\ n \in Nat /\ n >= 1 /\ DOMAIN page = 1 .. n
          /\ \A k \in 1 .. n : page[k] \in Matching(cursor)
      BY <1>2, <1>4
    <2>3. \A r \in Matching(cursor) : r.id \in Nat \ {0} /\ (cursor = 0 \/ r.id < cursor)
      BY <1>0 DEF Matching, Keyed
    <2>4. /\ ids \in Seq(Nat) /\ Len(ids) = n /\ last \in Nat \ {0} /\ cursor \in Nat
          /\ \A k \in 1 .. n : ids[k] = page[k].id /\ ids[k] \in Nat /\ (cursor = 0 \/ ids[k] < cursor)
      <3>1. ids \in [1 .. n -> Nat]
        BY <2>2, <2>3
      <3>2. ids \in Seq(Nat) /\ Len(ids) = n
        BY <2>2, <3>1
      <3> QED
        BY <1>0, <2>2, <2>3, <3>2
    <2>5. \A k \in 1 .. n : last <= ids[k]
      <3> SUFFICES ASSUME NEW k \in 1 .. n PROVE last <= ids[k]
        OBVIOUS
      <3>1. CASE k = n
        BY <2>4, <3>1
      <3>2. CASE k # n
        <4> HIDE DEF n
        <4>1. k < n /\ n \in DOMAIN page /\ k \in DOMAIN page
          BY <2>2, <3>2
        <4>2. last < page[k].id
          BY <1>2, <4>1
        <4> QED
          BY <2>4, <4>2
      <3> QED
        BY <3>1, <3>2
    <2>6. \A j, k \in 1 .. n : j < k => ids[k] < ids[j]
      BY <1>2, <2>2, <2>4
    <2>7. \A r \in Matching(cursor) : r.id >= last => \E k \in 1 .. n : ids[k] = r.id
      <3> SUFFICES ASSUME NEW r \in Matching(cursor), r.id >= last
                   PROVE  \E k \in 1 .. n : ids[k] = r.id
        OBVIOUS
      <3>1. PICK k \in DOMAIN page : page[k] = r
        BY <1>2, <1>4
      <3> QED
        BY <2>2, <2>4, <3>1
    <2> HIDE DEF ids, last, n
    <2>8. /\ old \in Seq(Nat) /\ Len(old) \in Nat /\ DOMAIN old = 1 .. Len(old)
          /\ \A k \in 1 .. Len(old) : old[k] \in Nat /\ cursor <= old[k] /\ cursor # 0
          /\ \A j, k \in 1 .. Len(old) : j < k => old[k] < old[j]
      <3>1. old \in Seq(Nat) /\ Len(old) \in Nat /\ DOMAIN old = 1 .. Len(old)
        BY <1>0
      <3>2. cursor = 0 => Len(old) = 0
        BY <1>0 DEF PagerType
      <3>3. \A k \in 1 .. Len(old) : old[k] \in Nat /\ cursor <= old[k]
        BY <1>0, <3>1 DEF PagerType
      <3>4. \A j, k \in 1 .. Len(old) : j < k => old[k] < old[j]
        BY <1>0, <3>1 DEF PagerType, Falling
      <3> QED
        BY <3>1, <3>2, <3>3, <3>4
    <2> HIDE DEF old, cursor
    <2>9. /\ new \in Seq(Nat) /\ Len(new) = Len(old) + n /\ DOMAIN new = 1 .. Len(old) + n
          /\ \A k \in 1 .. Len(old) : new[k] = old[k]
          /\ \A k \in 1 .. n : new[Len(old) + k] = ids[k]
      <3>1. /\ new \in Seq(Nat) /\ Len(new) = Len(old) + Len(ids)
            /\ \A k \in 1 .. Len(old) + Len(ids) :
                   new[k] = IF k <= Len(old) THEN old[k] ELSE ids[k - Len(old)]
        BY <2>4, <2>8, ConcatProperties
      <3> HIDE DEF new
      <3>2. DOMAIN new = 1 .. Len(old) + n
        BY <2>2, <2>4, <2>8, <3>1
      <3>3. ASSUME NEW k \in 1 .. Len(old) PROVE new[k] = old[k]
        BY <2>2, <2>4, <2>8, <3>1
      <3>4. ASSUME NEW k \in 1 .. n PROVE new[Len(old) + k] = ids[k]
        <4>1. /\ Len(old) + k \in 1 .. Len(old) + Len(ids) /\ ~(Len(old) + k <= Len(old))
              /\ (Len(old) + k) - Len(old) = k
          BY <2>2, <2>4, <2>8
        <4> QED
          BY <3>1, <4>1
      <3> QED
        BY <2>4, <3>1, <3>2, <3>3, <3>4
    <2> HIDE DEF new
    \* A place of the longer list is one of the old or one of the page.
    <2>10. \A k \in DOMAIN new : k \in 1 .. Len(old) \/ \E h \in 1 .. n : k = Len(old) + h
      <3> SUFFICES ASSUME NEW k \in 1 .. Len(old) + n, k \notin 1 .. Len(old)
                   PROVE  \E h \in 1 .. n : k = Len(old) + h
        BY <2>9
      <3>1. k - Len(old) \in 1 .. n /\ k = Len(old) + (k - Len(old))
        BY <2>2, <2>8
      <3> QED
        BY <3>1
    <2>11. Falling(new)
      <3> SUFFICES ASSUME NEW j \in DOMAIN new, NEW k \in DOMAIN new, j < k
                   PROVE  new[k] < new[j]
        BY DEF Falling
      <3>1. CASE k \in 1 .. Len(old)
        <4>0. j \in 1 .. Len(old) + n
          BY <2>9
        <4>1. j \in 1 .. Len(old)
          BY <2>2, <2>8, <3>1, <4>0
        <4> QED
          BY <2>8, <2>9, <3>1, <4>1
      <3>2. ASSUME NEW h \in 1 .. n, k = Len(old) + h PROVE new[k] < new[j]
        <4>1. new[k] = ids[h]
          BY <2>9, <3>2
        <4>2. CASE j \in 1 .. Len(old)
          <5>1. new[j] = old[j] /\ old[j] \in Nat /\ cursor <= old[j] /\ ids[h] < cursor /\ ids[h] \in Nat
            BY <2>4, <2>8, <2>9, <4>2
          <5> QED
            BY <2>4, <4>1, <5>1
        <4>3. ASSUME NEW g \in 1 .. n, j = Len(old) + g PROVE new[k] < new[j]
          <5>1. g < h
            BY <2>8, <3>2, <4>3
          <5>2. new[j] = ids[g]
            BY <2>9, <4>3
          <5> QED
            BY <2>6, <4>1, <5>1, <5>2
        <4> QED
          BY <2>10, <4>2, <4>3
      <3> QED
        BY <2>10, <3>1, <3>2
    <2>12. \A k \in DOMAIN new : last <= new[k]
      <3> SUFFICES ASSUME NEW k \in DOMAIN new PROVE last <= new[k]
        OBVIOUS
      <3>1. CASE k \in 1 .. Len(old)
        <4>1. new[k] = old[k] /\ old[k] \in Nat /\ cursor <= old[k] /\ cursor # 0
          BY <2>8, <2>9, <3>1
        <4>2. n \in 1 .. n
          BY <2>2
        <4>3. last <= ids[n] /\ ids[n] < cursor /\ ids[n] \in Nat
          BY <2>4, <2>5, <4>1, <4>2
        <4> QED
          BY <2>4, <4>1, <4>3
      <3>2. ASSUME NEW h \in 1 .. n, k = Len(old) + h PROVE last <= new[k]
        BY <2>5, <2>9, <3>2
      <3> QED
        BY <2>10, <3>1, <3>2
    <2>13. ASSUME NEW d \in pager.due PROVE d < last \/ d \in ToSet(new)
      <3>0. \A x \in ToSet(old) : x \in ToSet(new)
        <4> SUFFICES ASSUME NEW k \in DOMAIN old PROVE old[k] \in ToSet(new)
          BY DEF ToSet
        <4>1. k \in DOMAIN new /\ new[k] = old[k]
          BY <2>2, <2>8, <2>9
        <4> QED
          BY <4>1 DEF ToSet
      <3>1. PICK r \in rows : d = r.id
        BY <1>0 DEF PagerProgress, Ids
      <3>2. cursor = 0 \/ d < cursor \/ d \in ToSet(old)
        BY <1>0 DEF PagerProgress, cursor, old
      <3>3. CASE d \in ToSet(old)
        BY <3>0, <3>3
      <3>4. CASE r \in Matching(cursor) /\ d >= last
        <4>1. PICK k \in 1 .. n : ids[k] = d
          BY <2>7, <3>1, <3>4
        <4>2. Len(old) + k \in DOMAIN new /\ new[Len(old) + k] = d
          BY <2>2, <2>8, <2>9, <4>1
        <4> QED
          BY <4>2 DEF ToSet
      <3>5. d \in Nat
        BY <1>0, <3>1 DEF Keyed
      <3>6. d < last \/ d >= last
        BY <2>4, <3>5
      <3> QED
        BY <3>1, <3>2, <3>3, <3>4, <3>6 DEF Matching
    <2>14. /\ pager' \in [at : {"idle", "paging", "done"}, cursor : Nat, seen : Seq(Nat), due : SUBSET Nat]
           /\ pager'.at = "paging" /\ pager'.due = pager.due
           /\ pager'.cursor = last /\ pager'.seen = new
      BY <1>0, <2>1, <2>4, <2>9
    <2>15. PagerType'
      BY <2>4, <2>11, <2>12, <2>14 DEF PagerType
    <2>16. PagerProgress'
      BY <1>0, <2>13, <2>14 DEF PagerProgress
    <2> QED
      BY <1>0, <2>15, <2>16 DEF IInv
  <1> QED
    BY <1>3, <1>4

LEMMA NextInv == IInv /\ [Next]_vars => IInv'
  <1> SUFFICES ASSUME IInv, [Next]_vars PROVE IInv'
    OBVIOUS
  <1>1. CASE UNCHANGED <<rows, pager>>
    BY <1>1 DEF IInv, PagerType, PagerProgress
  <1>2. CASE ApiFails \/ ApiRecovers \/ StartListeners \/ PollAlerts \/ PollStats \/ Wake
    BY <1>1, <1>2 DEF ApiFails, ApiRecovers, StartListeners, PollAlerts, PollStats, Wake, db, client
  <1>3. CASE UpdateQueue(FALSE) \/ UpdateQueue(TRUE) \/ TogglePause \/ SelectRow
    BY <1>1, <1>3 DEF UpdateQueue, TogglePause, SelectRow, db, client
  <1>4. CASE TokenExpires \/ CreateToken
    BY <1>1, <1>4 DEF TokenExpires, CreateToken, db
  <1>5. CASE UNCHANGED vars
    BY <1>1, <1>5 DEF vars, db, client
  <1> QED
    BY <1>2, <1>3, <1>4, <1>5, StoreInv, PagerStartInv, PagerNextInv DEF Next

-----------------------------------------------------------------------------
\* Numbers that fall are different ones.
LEMMA FallingFacts ==
    ASSUME NEW s \in Seq(Nat), Falling(s)
    PROVE  Cardinality(ToSet(s)) = Len(s)
  <1>1. /\ Len(s) \in Nat /\ DOMAIN s = 1 .. Len(s) /\ s \in [1 .. Len(s) -> ToSet(s)]
        /\ \A k \in 1 .. Len(s) : s[k] \in Nat
    BY DEF ToSet
  <1>2. \A j, k \in 1 .. Len(s) : s[j] = s[k] => j = k
    <2> SUFFICES ASSUME NEW j \in 1 .. Len(s), NEW k \in 1 .. Len(s), s[j] = s[k] PROVE j = k
      OBVIOUS
    <2>1. ~(j < k) /\ ~(k < j)
      BY <1>1 DEF Falling
    <2> QED
      BY <2>1
  <1>3. s \in Injection(1 .. Len(s), ToSet(s))
    BY <1>1, <1>2, Fun_IsInj
  <1>4. s \in Surjection(1 .. Len(s), ToSet(s))
    BY <1>1 DEF Surjection, ToSet
  <1>5. ExistsBijection(1 .. Len(s), ToSet(s))
    BY <1>3, <1>4 DEF ExistsBijection, Bijection
  <1> QED
    BY <1>1, <1>5, FS_CountingElements

(***************************************************************************)
(* A client of get_alerts that follows the cursor to the end has seen      *)
(* every row that was there when it began and none twice, whatever the     *)
(* sink stores meanwhile, however often its token expires, for any page    *)
(* size.                                                                   *)
(***************************************************************************)
THEOREM DashboardPagerSeesAll ==
    Spec => []PagerSeesAll
  <1>1. IInv => PagerSeesAll
    <2> SUFFICES ASSUME IInv PROVE PagerSeesAll
      OBVIOUS
    <2>1. pager.seen \in Seq(Nat) /\ Falling(pager.seen)
      BY DEF IInv, PagerType
    <2>2. Cardinality(ToSet(pager.seen)) = Len(pager.seen)
      BY <2>1, FallingFacts
    <2> QED
      BY <2>2 DEF IInv, PagerProgress, PagerSeesAll
  <1> QED
    BY <1>1, InitInv, NextInv, PTL DEF Spec

-----------------------------------------------------------------------------
(***************************************************************************)
(* The poller.                                                             *)
(***************************************************************************)
Row == [id : Nat \ {0}, src : Source, sev : Severity]

\* The table only grows, so that it still holds as many rows as were listed.
PollInv ==
    /\ rows \subseteq Row /\ alerts \in Seq(Row)
    /\ "alerts" \in answered => Len(alerts) <= Cardinality(rows)
    /\ StatsCoverAlerts

\* Counting the rows by severity and adding up counts each row once.
LEMMA StatsCountRows ==
    ASSUME NEW table, table \subseteq Row, IsFiniteSet(table)
    PROVE  GetStats(table).total = Cardinality(table)
  <1> DEFINE Of(s) == {r \in table : r.sev = s}
             In(T) == {r \in table : r.sev \in T}
             count == [s \in Severity |-> Cardinality(Of(s))]
  <1>0. IsFiniteSet(Severity)
    <2>1. {"low", "medium", "high", "critical"} = ({"low"} \cup {"medium"}) \cup ({"high"} \cup {"critical"})
      OBVIOUS
    <2>2. IsFiniteSet({"low"} \cup {"medium"}) /\ IsFiniteSet({"high"} \cup {"critical"})
      BY FS_Singleton, FS_AddElement
    <2>3. IsFiniteSet({"low", "medium", "high", "critical"})
      <3>1. IsFiniteSet(({"low"} \cup {"medium"}) \cup ({"high"} \cup {"critical"}))
        BY <2>2, FS_Union, Zenon
      <3> QED
        BY <2>1, <3>1, Zenon
    <2> QED
      BY <2>3, DashboardAssumption, FS_Subset
  <1>1. ASSUME NEW s \in Severity PROVE IsFiniteSet(Of(s)) /\ count[s] = Cardinality(Of(s)) /\ count[s] \in Nat
    <2>1. Of(s) \in SUBSET table
      OBVIOUS
    <2> QED
      BY <2>1, FS_Subset, FS_CardinalityType
  <1>2. GetStats(table).total = SumFunctionOnSet(count, Severity)
    BY DEF GetStats, SumFunction
  <1>3. SumFunctionOnSet(count, Severity) = Cardinality(Units(count, Severity))
    BY <1>0, <1>1, SumIsUnits
  <1> DEFINE Bad == {T \in SUBSET Severity : Cardinality(Units(count, T)) # Cardinality(In(T))}
  <1>4. ASSUME Bad # {} PROVE FALSE
    <2>1. PICK T \in Bad : \A s \in T : T \ {s} \notin Bad
      BY <1>0, <1>4, MinimalSubset
    <2>2. T = {} => Units(count, T) = {} /\ In(T) = {}
      BY DEF Units
    <2>3. PICK s \in T : TRUE
      BY <2>1, <2>2
    <2>4. IsFiniteSet(T \ {s}) /\ \A x \in T \ {s} : count[x] \in Nat
      BY <1>0, <1>1, FS_Subset
    <2>5. Cardinality(Units(count, T)) = count[s] + Cardinality(Units(count, T \ {s}))
      BY <1>1, <2>4, UnitsFinite, UnitsAdd
    <2>6. In(T \ {s}) \in SUBSET table /\ In(T) = Of(s) \cup In(T \ {s}) /\ Of(s) \cap In(T \ {s}) = {}
      OBVIOUS
    <2>7. IsFiniteSet(In(T \ {s})) /\ Cardinality(In(T \ {s})) \in Nat
      BY <2>6, FS_Subset, FS_CardinalityType
    <2> HIDE DEF Of, In, count
    <2>8. Cardinality(In(T)) = Cardinality(Of(s)) + Cardinality(In(T \ {s})) - Cardinality(Of(s) \cap In(T \ {s}))
      BY <1>1, <2>3, <2>6, <2>7, FS_Union
    <2>9. Cardinality(Of(s) \cap In(T \ {s})) = 0
      BY <2>6, FS_EmptySet
    <2>10. Cardinality(Units(count, T \ {s})) = Cardinality(In(T \ {s}))
      BY <2>1, <2>3
    <2> QED
      BY <1>1, <2>1, <2>3, <2>5, <2>7, <2>8, <2>9, <2>10
  <1>5. In(Severity) = table
    BY DEF Row
  <1> QED
    BY <1>2, <1>3, <1>4, <1>5

\* A poll lists rows of the table, each at most once.
LEMMA PollFacts ==
    ASSUME Keyed(rows), rows \subseteq Row
    PROVE  /\ GetAlerts(0, Limit) \in Seq(Row)
           /\ Len(GetAlerts(0, Limit)) <= Cardinality(rows)
  <1> DEFINE n == Min({Limit, Cardinality(rows)})
  <1>1. GetAlerts(0, Limit) = [k \in 1 .. n |-> Nth(rows, k)]
    <2>1. {r \in rows : 0 = 0 \/ r.id < 0} = rows
      OBVIOUS
    <2> QED
      BY <2>1 DEF GetAlerts
  <1>2. Cardinality(rows) \in Nat
    BY FS_CardinalityType DEF Keyed
  <1>3. n \in Nat /\ n <= Cardinality(rows)
    BY <1>2, MinFacts, DashboardAssumption
  <1> HIDE DEF n
  <1>4. ASSUME NEW k \in 1 .. n PROVE Nth(rows, k) \in Row
    <2>1. k \in 1 .. Cardinality(rows)
      BY <1>2, <1>3
    <2> QED
      BY <2>1, NthFacts
  <1> QED
    BY <1>1, <1>3, <1>4

LEMMA PollStep ==
    ASSUME IInv, PollInv, [Next]_vars
    PROVE  PollInv'
  <1>0. Keyed(rows) /\ IsFiniteSet(rows) /\ Cardinality(rows) \in Nat
    BY FS_CardinalityType DEF IInv, Keyed
  <1>1. CASE Store
    <2>1. PICK id \in 1 .. MaxWrites, src \in Source, sev \in Severity :
              rows' = {r \in rows : r.id # id} \cup {[id |-> id, src |-> src, sev |-> sev]}
      BY <1>1 DEF Store
    <2> DEFINE kept == {r \in rows : r.id # id}
               new == [id |-> id, src |-> src, sev |-> sev]
    <2>2. new \in Row /\ kept \in SUBSET rows /\ new \notin kept /\ rows' = kept \cup {new}
      BY <2>1, DashboardAssumption DEF Row
    <2>3. IsFiniteSet(kept) /\ Cardinality(kept) \in Nat
      BY <1>0, <2>2, FS_Subset, FS_CardinalityType
    <2>4. Cardinality(rows') = Cardinality(kept) + 1
      BY <2>2, <2>3, FS_AddElement
    <2>5. Cardinality(rows) <= Cardinality(kept) + 1
      <3>1. CASE kept = rows
        <4> HIDE DEF kept
        <4> QED
          BY <1>0, <3>1
      <3>2. CASE kept # rows
        <4>1. PICK r \in rows : r.id = id
          BY <3>2
        <4>2. kept = rows \ {r}
          BY <1>0, <4>1 DEF Keyed
        <4> QED
          BY <1>0, <2>3, <4>1, <4>2, FS_RemoveElement
      <3> QED
        BY <3>1, <3>2
    <2> HIDE DEF kept, new
    <2>6. Cardinality(rows) <= Cardinality(rows') /\ rows' \subseteq Row /\ Cardinality(rows') \in Nat
      BY <1>0, <2>2, <2>3, <2>4, <2>5 DEF PollInv
    <2>7. UNCHANGED held
      BY <1>1 DEF Store
    <2>8. Len(alerts) \in Nat
      BY DEF PollInv
    <2> QED
      BY <1>0, <2>6, <2>7, <2>8 DEF PollInv, StatsCoverAlerts, held
  <1>2. CASE PollAlerts
    <2>1. UNCHANGED <<rows, stats>>
      BY <1>2 DEF PollAlerts, db
    <2>2. CASE alerts' = GetAlerts(0, Limit) /\ answered' = {"alerts"}
      BY <1>0, <2>1, <2>2, PollFacts DEF PollInv, StatsCoverAlerts
    <2>3. CASE UNCHANGED <<alerts, answered>>
      BY <2>1, <2>3 DEF PollInv, StatsCoverAlerts
    <2> QED
      BY <1>2, <2>2, <2>3 DEF PollAlerts, AlertsAnswer
  <1>3. CASE PollStats
    <2>1. UNCHANGED <<rows, alerts>>
      BY <1>3 DEF PollStats, db
    <2>2. CASE stats' = GetStats(rows) /\ answered' = answered \cup {"stats"}
      <3>1. stats'.total = Cardinality(rows)
        BY <1>0, <2>2, StatsCountRows DEF PollInv
      <3>2. Len(alerts) \in Nat
        BY DEF PollInv
      <3> QED
        BY <1>0, <2>1, <2>2, <3>1, <3>2 DEF PollInv, StatsCoverAlerts
    <2>3. CASE UNCHANGED <<stats, answered>>
      BY <2>1, <2>3 DEF PollInv, StatsCoverAlerts
    <2> QED
      BY <1>3, <2>2, <2>3 DEF PollStats, StatsAnswer
  <1>4. CASE Wake
    BY <1>4 DEF Wake, db, PollInv, StatsCoverAlerts
  <1>5. CASE UNCHANGED <<rows, held>>
    BY <1>5 DEF held, PollInv, StatsCoverAlerts
  <1>6. CASE ApiFails \/ ApiRecovers \/ StartListeners \/ UNCHANGED vars
    BY <1>5, <1>6 DEF ApiFails, ApiRecovers, StartListeners, vars, db
  <1>7. CASE UpdateQueue(FALSE) \/ UpdateQueue(TRUE) \/ TogglePause \/ SelectRow
    BY <1>5, <1>7 DEF UpdateQueue, TogglePause, SelectRow, db
  <1>8. CASE PagerStart \/ PagerNext \/ TokenExpires \/ CreateToken
    BY <1>5, <1>8 DEF PagerStart, PagerNext, TokenExpires, CreateToken, db
  <1> QED
    BY <1>1, <1>2, <1>3, <1>4, <1>6, <1>7, <1>8 DEF Next

LEMMA DashboardInvariant == Spec => [](IInv /\ PollInv)
  <1>1. Init => PollInv
    BY DEF Init, PollInv, StatsCoverAlerts
  <1> QED
    BY <1>1, InitInv, NextInv, PollStep, PTL DEF Spec

(***************************************************************************)
(* When both requests of _poll_api were answered, the totals of get_stats  *)
(* count at least the alerts listed, whatever the sink stored between the  *)
(* two requests.                                                           *)
(***************************************************************************)
THEOREM DashboardStatsCoverAlerts ==
    Spec => []StatsCoverAlerts
  <1>1. PollInv => StatsCoverAlerts
    BY DEF PollInv
  <1> QED
    BY <1>1, DashboardInvariant, PTL

-----------------------------------------------------------------------------
(***************************************************************************)
(* The one pass of get_incidents.                                          *)
(***************************************************************************)
Folded(list, h) ==
    h = [s \in SUBSET DOMAIN list |->
            IF s = {} THEN <<>> ELSE AddAlert(h[s \ {Max(s)}], list[Max(s)])]

LEMMA FoldUnfolds ==
    ASSUME NEW list
    PROVE  FoldLeft(AddAlert, <<>>, list) = (CHOOSE h : Folded(list, h))[DOMAIN list]
  BY Zenon DEF FoldLeft, MapThenFoldSet, Folded

LEMMA FoldExists ==
    ASSUME NEW list \in Seq(Row)
    PROVE  \E h : Folded(list, h)
  <1> DEFINE D == DOMAIN list
             F(g, s) == IF s = {} THEN <<>> ELSE AddAlert(g[s \ {Max(s)}], list[Max(s)])
             UpTo(g, n) == \A s \in SUBSET D : Cardinality(s) <= n => g[s] = F(g, s)
             Next1(g) == [s \in SUBSET D |-> F(g, s)]
             Bad == {n \in Nat : ~\E g : UpTo(Next1(g), n)}
  <1>0. D = 1 .. Len(list) /\ Len(list) \in Nat /\ IsFiniteSet(D) /\ Cardinality(D) = Len(list)
    <2>1. D = 1 .. Len(list) /\ Len(list) \in Nat
      OBVIOUS
    <2>2. IsFiniteSet(1 .. Len(list)) /\ Cardinality(1 .. Len(list)) = Len(list)
      BY <2>1, FS_Interval
    <2> QED
      BY <2>1, <2>2
  <1>1. ASSUME NEW s \in SUBSET D
        PROVE  /\ IsFiniteSet(s) /\ Cardinality(s) \in Nat /\ Cardinality(s) <= Len(list)
               /\ s # {} => /\ Max(s) \in s /\ s \ {Max(s)} \in SUBSET D
                            /\ Cardinality(s \ {Max(s)}) = Cardinality(s) - 1
    <2>1. IsFiniteSet(s) /\ Cardinality(s) \in Nat /\ Cardinality(s) <= Len(list)
      BY <1>0, FS_Subset, FS_CardinalityType
    <2>2. s \in SUBSET (0 .. Len(list))
      BY <1>0
    <2>3. ASSUME s # {}
          PROVE  Max(s) \in s /\ Cardinality(s \ {Max(s)}) = Cardinality(s) - 1
      <3>1. Max(s) \in s
        BY <1>0, <2>2, <2>3, MaxFacts
      <3> QED
        BY <2>1, <3>1, FS_RemoveElement
    <2> QED
      BY <2>1, <2>3
  \* One more round of the equation is right for one element more.
  <1>2. ASSUME NEW g, NEW n \in Nat, \A s \in SUBSET D : Cardinality(s) < n => Next1(g)[s] = F(Next1(g), s)
        PROVE  UpTo(Next1(Next1(g)), n)
    <2> DEFINE h == Next1(g)
               k == Next1(h)
    <2> SUFFICES ASSUME NEW s \in SUBSET D, Cardinality(s) <= n PROVE k[s] = F(k, s)
      OBVIOUS
    <2>1. k[s] = F(h, s)
      OBVIOUS
    <2>2. CASE s = {}
      BY <2>2
    <2>3. CASE s # {}
      <3> DEFINE t == s \ {Max(s)}
      <3>1. t \in SUBSET D /\ Cardinality(t) < n
        BY <1>1, <2>3
      <3>2. h[t] = F(h, t)
        BY <1>2, <3>1
      <3>3. k[t] = h[t]
        BY <3>1, <3>2
      <3> QED
        BY <2>1, <2>3, <3>3
    <2> QED
      BY <2>2, <2>3
  <1> HIDE DEF F, Next1
  <1>3. ASSUME Bad # {} PROVE FALSE
    <2>1. PICK n \in Bad : \A m \in Bad : n <= m
      BY <1>3, NatMinimum
    <2>2. CASE n = 0
      <3>1. ASSUME NEW s \in SUBSET D PROVE ~(Cardinality(s) < 0)
        <4>1. Cardinality(s) \in Nat
          BY <1>1
        <4> QED
          BY <4>1
      <3>2. \A s \in SUBSET D : Cardinality(s) < 0 => Next1(0)[s] = F(Next1(0), s)
        BY <3>1, Zenon
      <3>3. UpTo(Next1(Next1(0)), 0)
        <4> HIDE DEF UpTo
        <4> QED
          BY <1>2, <3>2
      <3> QED
        BY <2>1, <2>2, <3>3
    <2>3. CASE n # 0
      <3>1. n \in Nat /\ n - 1 \in Nat /\ n - 1 \notin Bad
        BY <2>1, <2>3
      <3>2. PICK g : UpTo(Next1(g), n - 1)
        BY <3>1
      <3>3. ASSUME NEW s \in SUBSET D, Cardinality(s) < n PROVE Next1(g)[s] = F(Next1(g), s)
        <4>0. Cardinality(s) \in Nat
          BY <1>1
        <4>1. Cardinality(s) <= n - 1
          BY <3>1, <3>3, <4>0
        <4> QED
          BY <3>2, <4>1
      <3>4. UpTo(Next1(Next1(g)), n)
        BY <1>2, <3>1, <3>3
      <3> QED
        BY <2>1, <3>4
    <2> QED
      BY <2>2, <2>3
  <1>4. PICK g : UpTo(Next1(g), Len(list))
    BY <1>0, <1>3
  <1> DEFINE h == Next1(g)
  <1>5. h = [s \in SUBSET D |-> F(h, s)]
    <2>1. \A s \in SUBSET D : h[s] = F(h, s)
      BY <1>1, <1>4
    <2>2. h = [s \in SUBSET D |-> h[s]]
      BY Zenon DEF Next1
    <2> HIDE DEF h
    <2> QED
      BY <2>1, <2>2, Zenon
  <1> HIDE DEF h
  <1> QED
    BY <1>5 DEF Folded, F

\* What the pass holds after each alert.
LEMMA FoldPrefixes ==
    ASSUME NEW list \in Seq(Row)
    PROVE  \E p : /\ p[0] = <<>> /\ p[Len(list)] = FoldLeft(AddAlert, <<>>, list)
                  /\ \A n \in 1 .. Len(list) : p[n] = AddAlert(p[n - 1], list[n])
  <1> DEFINE h == CHOOSE x : Folded(list, x)
             p == [n \in 0 .. Len(list) |-> h[1 .. n]]
  <1>0. Len(list) \in Nat /\ DOMAIN list = 1 .. Len(list)
    OBVIOUS
  <1>1. Folded(list, h)
    BY FoldExists
  <1>2. FoldLeft(AddAlert, <<>>, list) = h[DOMAIN list]
    BY FoldUnfolds
  <1> HIDE DEF h
  <1>3. ASSUME NEW s \in SUBSET DOMAIN list
        PROVE  h[s] = IF s = {} THEN <<>> ELSE AddAlert(h[s \ {Max(s)}], list[Max(s)])
    BY <1>1 DEF Folded
  <1>4. 1 .. 0 = {}
    OBVIOUS
  <1>5. p[0] = <<>> /\ p[Len(list)] = FoldLeft(AddAlert, <<>>, list)
    <2>1. p[0] = h[{}] /\ p[Len(list)] = h[DOMAIN list]
      BY <1>0, <1>4
    <2>2. h[{}] = <<>>
      BY <1>3
    <2> QED
      BY <1>2, <2>1, <2>2
  <1>6. ASSUME NEW n \in 1 .. Len(list) PROVE p[n] = AddAlert(p[n - 1], list[n])
    <2>0. n \in Nat /\ n >= 1 /\ n <= Len(list)
      BY <1>0
    <2>1. 1 .. n \in SUBSET DOMAIN list /\ n \in 1 .. n /\ 1 .. n \in SUBSET (0 .. n)
      BY <1>0, <2>0
    <2> DEFINE S == 1 .. n
    <2>2. Max(S) \in S /\ n <= Max(S)
      <3> HIDE DEF S
      <3>1. S \in SUBSET (0 .. n) /\ n \in S
        BY <2>1 DEF S
      <3> QED
        BY <2>0, <3>1, MaxFacts
    <2>3. Max(1 .. n) = n
      BY <2>2
    <2>4. (1 .. n) \ {n} = 1 .. (n - 1)
      BY <2>0
    <2>5. h[S] = AddAlert(h[S \ {n}], list[n])
      BY <1>3, <2>1, <2>3
    <2>6. p[n] = h[1 .. n] /\ p[n - 1] = h[1 .. (n - 1)]
      BY <1>0, <2>0
    <2> QED
      BY <2>4, <2>5, <2>6
  <1> QED
    BY <1>5, <1>6

\* What the pass knows after n alerts: an incident per source met, with the
\* alerts of that source so far and the worst of their severities.
Inc == [src : Source, severity : Severity, score : Nat, ids : Seq(Nat)]
IdsOf(list, n, src) == {list[k].id : k \in {m \in 1 .. n : list[m].src = src}}
Worst(inc, list, n) ==
    /\ inc.score = SevScore(inc.severity)
    /\ \E k \in 1 .. n : list[k].src = inc.src /\ list[k].sev = inc.severity
    /\ \A k \in 1 .. n : list[k].src = inc.src => SevScore(list[k].sev) <= inc.score
Table(incs) ==
    /\ incs \in Seq(Inc)
    /\ \A i, j \in DOMAIN incs : incs[i].src = incs[j].src => i = j
Summary(incs, list, n) ==
    /\ Table(incs)
    /\ {incs[i].src : i \in DOMAIN incs} = {list[k].src : k \in 1 .. n}
    /\ \A i \in DOMAIN incs : /\ ToSet(incs[i].ids) = IdsOf(list, n, incs[i].src)
                              /\ Worst(incs[i], list, n)

LEMMA SevScoreFacts ==
    ASSUME NEW s
    PROVE  SevScore(s) \in Nat /\ SevScore(s) > 0
  BY DEF SevScore

LEMMA AppendToSet ==
    ASSUME NEW s \in Seq(Nat), NEW x \in Nat
    PROVE  Append(s, x) \in Seq(Nat) /\ ToSet(Append(s, x)) = ToSet(s) \cup {x}
  <1>1. /\ Append(s, x) \in Seq(Nat) /\ Len(Append(s, x)) = Len(s) + 1 /\ Len(s) \in Nat
        /\ DOMAIN s = 1 .. Len(s) /\ DOMAIN Append(s, x) = 1 .. (Len(s) + 1)
        /\ Append(s, x)[Len(s) + 1] = x /\ \A i \in 1 .. Len(s) : Append(s, x)[i] = s[i]
    OBVIOUS
  <1>2. ASSUME NEW i \in DOMAIN Append(s, x) PROVE i \in DOMAIN s \/ i = Len(s) + 1
    BY <1>1
  <1>3. ASSUME NEW i \in DOMAIN s PROVE i \in DOMAIN Append(s, x)
    BY <1>1
  <1>4. Len(s) + 1 \in DOMAIN Append(s, x)
    BY <1>1
  <1> QED
    BY <1>1, <1>2, <1>3, <1>4 DEF ToSet

LEMMA AddAlertStep ==
    ASSUME NEW list \in Seq(Row), NEW n \in 1 .. Len(list), NEW incs, Summary(incs, list, n - 1)
    PROVE  Summary(AddAlert(incs, list[n]), list, n)
  <1> DEFINE a == list[n]
             met == \E i \in DOMAIN incs : incs[i].src = a.src
             known == IF met THEN incs ELSE Append(incs, NewIncident(a))
             res == [i \in DOMAIN known |-> IF known[i].src = a.src THEN Absorb(known[i], a) ELSE known[i]]
  <1>0. /\ n \in Nat /\ n >= 1 /\ n - 1 \in Nat /\ n \in 1 .. n
        /\ a \in Row /\ a.src \in Source /\ a.sev \in Severity /\ a.id \in Nat
        /\ \A k \in 1 .. n : k \in 1 .. (n - 1) \/ k = n
        /\ \A k \in 1 .. (n - 1) : k \in 1 .. n
    <2>1. Len(list) \in Nat /\ n \in DOMAIN list
      OBVIOUS
    <2>2. a \in Row
      BY <2>1
    <2>3. a.src \in Source /\ a.sev \in Severity /\ a.id \in Nat
      BY <2>2 DEF Row
    <2>4. n \in Nat /\ n >= 1 /\ n - 1 \in Nat
      BY <2>1
    <2> HIDE DEF a
    <2> QED
      BY <2>2, <2>3, <2>4
  <1>1. AddAlert(incs, a) = res
    BY DEF AddAlert
  <1>2. Table(incs) /\ {incs[i].src : i \in DOMAIN incs} = {list[k].src : k \in 1 .. (n - 1)}
    BY DEF Summary
  \* The table the alert is entered in.
  <1>3. /\ known \in Seq(Inc) /\ \E i \in DOMAIN known : known[i].src = a.src
        /\ \A i, j \in DOMAIN known : known[i].src = known[j].src => i = j
        /\ \A i \in DOMAIN known :
              \/ i \in DOMAIN incs /\ known[i] = incs[i]
              \/ ~met /\ known[i] = NewIncident(a)
        /\ \A i \in DOMAIN incs : i \in DOMAIN known /\ known[i] = incs[i]
    <2>1. CASE met
      BY <1>2, <2>1 DEF Table
    <2>2. CASE ~met
      <3>1. NewIncident(a) \in Inc /\ NewIncident(a).src = a.src
        BY <1>0 DEF NewIncident, Inc
      <3>2. /\ known = Append(incs, NewIncident(a)) /\ incs \in Seq(Inc) /\ Len(incs) \in Nat
            /\ DOMAIN incs = 1 .. Len(incs)
        BY <1>2, <2>2 DEF Table
      <3>3. /\ known \in Seq(Inc) /\ DOMAIN known = 1 .. (Len(incs) + 1)
            /\ known[Len(incs) + 1] = NewIncident(a)
            /\ \A i \in 1 .. Len(incs) : known[i] = incs[i]
        BY <3>1, <3>2
      <3> HIDE DEF known
      <3>4. \A i \in DOMAIN known : i \in DOMAIN incs \/ i = Len(incs) + 1
        BY <3>2, <3>3
      <3>5. Len(incs) + 1 \in DOMAIN known /\ \A i \in DOMAIN incs : i \in DOMAIN known
        BY <3>2, <3>3
      <3> QED
        BY <1>2, <2>2, <3>1, <3>2, <3>3, <3>4, <3>5 DEF Table
    <2> QED
      BY <2>1, <2>2
  <1> HIDE DEF known
  <1>4. DOMAIN res = DOMAIN known /\ \A i \in DOMAIN known :
            res[i] = IF known[i].src = a.src THEN Absorb(known[i], a) ELSE known[i]
    OBVIOUS
  <1>5. ASSUME NEW i \in DOMAIN known, known[i].src = a.src
        PROVE  /\ res[i] \in Inc /\ res[i].src = a.src
               /\ ToSet(res[i].ids) = IdsOf(list, n, a.src)
               /\ Worst(res[i], list, n)
    <2> DEFINE old == known[i]
               worse == SevScore(a.sev) > old.score
    <2>0. old \in Inc /\ old.ids \in Seq(Nat) /\ old.score \in Nat /\ old.src = a.src
          /\ old.severity \in Severity
      <3>1. old \in Inc
        BY <1>3
      <3> QED
        BY <1>5, <3>1 DEF Inc
    <2>1. res[i] = [old EXCEPT !.ids = Append(@, a.id),
                               !.score = IF worse THEN SevScore(a.sev) ELSE @,
                               !.severity = IF worse THEN a.sev ELSE @]
      BY <1>4, <1>5 DEF Absorb
    <2>s. SevScore(a.sev) \in Nat /\ SevScore(a.sev) > 0
      BY SevScoreFacts
    <2>2. /\ res[i] \in Inc /\ res[i].src = a.src /\ res[i].ids = Append(old.ids, a.id)
          /\ res[i].score = (IF worse THEN SevScore(a.sev) ELSE old.score)
          /\ res[i].severity = (IF worse THEN a.sev ELSE old.severity)
      <3> DEFINE ids == Append(old.ids, a.id)
                 score == IF worse THEN SevScore(a.sev) ELSE old.score
                 severity == IF worse THEN a.sev ELSE old.severity
      <3>1. ids \in Seq(Nat) /\ score \in Nat /\ severity \in Severity
        BY <1>0, <2>0, <2>s
      <3>2. res[i] = [old EXCEPT !.ids = ids, !.score = score, !.severity = severity]
        BY <2>1
      <3> HIDE DEF ids, score, severity, old
      <3>3. /\ res[i] \in Inc /\ res[i].src = old.src /\ res[i].ids = ids
            /\ res[i].score = score /\ res[i].severity = severity
        BY <2>0, <3>1, <3>2 DEF Inc
      <3> QED
        BY <2>0, <3>3 DEF ids, score, severity
    \* What was known of the source before.
    <2>3. /\ ToSet(old.ids) = IdsOf(list, n - 1, a.src)
          /\ \A k \in 1 .. (n - 1) : list[k].src = a.src => SevScore(list[k].sev) <= old.score
          /\ \/ old.score = 0
             \/ /\ old.score = SevScore(old.severity)
                /\ \E k \in 1 .. (n - 1) : list[k].src = a.src /\ list[k].sev = old.severity
      <3>1. CASE i \in DOMAIN incs /\ old = incs[i]
        <4>1. ToSet(incs[i].ids) = IdsOf(list, n - 1, incs[i].src) /\ Worst(incs[i], list, n - 1)
          BY <3>1 DEF Summary
        <4> QED
          BY <2>0, <3>1, <4>1 DEF Worst
      <3>2. CASE ~met /\ old = NewIncident(a)
        <4>1. \A k \in 1 .. (n - 1) : list[k].src # a.src
          BY <1>2, <3>2
        <4>2. old.ids = <<>> /\ old.score = 0
          BY <3>2 DEF NewIncident
        <4>3. ToSet(old.ids) = {} /\ IdsOf(list, n - 1, a.src) = {}
          BY <4>1, <4>2 DEF ToSet, IdsOf
        <4> QED
          BY <4>1, <4>2, <4>3
      <3> QED
        BY <1>3, <3>1, <3>2
    <2>4. ToSet(res[i].ids) = IdsOf(list, n, a.src)
      <3>1. ToSet(res[i].ids) = ToSet(old.ids) \cup {a.id}
        BY <1>0, <2>0, <2>2, AppendToSet
      <3>2. IdsOf(list, n, a.src) = IdsOf(list, n - 1, a.src) \cup {a.id}
        BY <1>0 DEF IdsOf
      <3> QED
        BY <2>3, <3>1, <3>2
    <2>5. ASSUME NEW k \in 1 .. n, list[k].src = a.src
          PROVE  SevScore(list[k].sev) <= res[i].score
      <3>1. SevScore(list[k].sev) \in Nat
        BY SevScoreFacts
      <3>2. SevScore(list[k].sev) <= old.score \/ SevScore(list[k].sev) = SevScore(a.sev)
        BY <1>0, <2>3, <2>5
      <3> QED
        BY <2>0, <2>2, <2>s, <3>1, <3>2
    <2>6. /\ res[i].score = SevScore(res[i].severity)
          /\ \E k \in 1 .. n : list[k].src = a.src /\ list[k].sev = res[i].severity
      <3>1. CASE worse
        BY <1>0, <2>2, <3>1
      <3>2. CASE ~worse
        <4>1. old.score # 0
          BY <2>0, <2>s, <3>2
        <4> QED
          BY <1>0, <2>2, <2>3, <3>2, <4>1
      <3> QED
        BY <3>1, <3>2
    <2> QED
      BY <2>2, <2>4, <2>5, <2>6 DEF Worst
  <1>6. ASSUME NEW i \in DOMAIN known, known[i].src # a.src
        PROVE  /\ res[i] \in Inc /\ res[i].src = known[i].src
               /\ ToSet(res[i].ids) = IdsOf(list, n, known[i].src)
               /\ Worst(res[i], list, n)
    <2>1. res[i] = known[i] /\ known[i] \in Inc
      BY <1>3, <1>4, <1>6
    <2>2. i \in DOMAIN incs /\ known[i] = incs[i]
      BY <1>3, <1>6 DEF NewIncident
    <2>3. ToSet(known[i].ids) = IdsOf(list, n - 1, known[i].src) /\ Worst(known[i], list, n - 1)
      BY <2>2 DEF Summary
    <2>4. IdsOf(list, n, known[i].src) = IdsOf(list, n - 1, known[i].src)
      BY <1>0, <1>6 DEF IdsOf
    <2>5. Worst(known[i], list, n)
      BY <1>0, <1>6, <2>3 DEF Worst
    <2> QED
      BY <2>1, <2>3, <2>4, <2>5
  <1> HIDE DEF res
  <1>7. ASSUME NEW i \in DOMAIN known PROVE res[i].src = known[i].src /\ res[i] \in Inc
    BY <1>5, <1>6
  <1>8. Table(res)
    <2>1. res \in Seq(Inc)
      <3>1. known \in Seq(Inc) /\ DOMAIN known = 1 .. Len(known) /\ Len(known) \in Nat
        BY <1>3
      <3>2. res = [i \in 1 .. Len(known) |-> res[i]]
        BY <3>1 DEF res
      <3> QED
        BY <1>4, <1>7, <3>1, <3>2
    <2> QED
      BY <1>3, <1>4, <1>7, <2>1 DEF Table
  <1>9. {res[i].src : i \in DOMAIN res} = {list[k].src : k \in 1 .. n}
    <2>1. ASSUME NEW i \in DOMAIN res PROVE \E k \in 1 .. n : list[k].src = res[i].src
      <3>1. CASE known[i].src = a.src
        BY <1>0, <1>4, <1>7, <3>1
      <3>2. CASE known[i].src # a.src
        <4>1. i \in DOMAIN incs /\ known[i] = incs[i]
          BY <1>3, <1>4, <3>2 DEF NewIncident
        <4> QED
          BY <1>0, <1>2, <1>4, <1>7, <4>1, SMTT(30)
      <3> QED
        BY <3>1, <3>2
    <2>2. ASSUME NEW k \in 1 .. n PROVE \E i \in DOMAIN res : list[k].src = res[i].src
      <3>1. CASE list[k].src = a.src
        BY <1>3, <1>4, <1>7, <3>1
      <3>2. CASE list[k].src # a.src
        <4>1. k \in 1 .. (n - 1)
          BY <1>0, <3>2
        <4>2. PICK i \in DOMAIN incs : incs[i].src = list[k].src
          BY <1>2, <4>1
        <4> QED
          BY <1>3, <1>4, <1>7, <4>2
      <3> QED
        BY <3>1, <3>2
    <2> DEFINE A == {res[i].src : i \in DOMAIN res}
               B == {list[k].src : k \in 1 .. n}
    <2>3. ASSUME NEW x \in A PROVE x \in B
      <3>1. PICK i \in DOMAIN res : x = res[i].src
        OBVIOUS
      <3>2. PICK k \in 1 .. n : list[k].src = res[i].src
        BY <2>1
      <3> QED
        BY <3>1, <3>2
    <2>4. ASSUME NEW x \in B PROVE x \in A
      <3>1. PICK k \in 1 .. n : x = list[k].src
        OBVIOUS
      <3>2. PICK i \in DOMAIN res : list[k].src = res[i].src
        BY <2>2
      <3> QED
        BY <3>1, <3>2
    <2> HIDE DEF A, B
    <2>5. A = B
      BY <2>3, <2>4
    <2> QED
      BY <2>5 DEF A, B
  <1> QED
    BY <1>1, <1>4, <1>5, <1>6, <1>7, <1>8, <1>9, ZenonT(30) DEF Summary

LEMMA FoldSummary ==
    ASSUME NEW list \in Seq(Row)
    PROVE  Summary(FoldLeft(AddAlert, <<>>, list), list, Len(list))
  <1>0. Len(list) \in Nat
    OBVIOUS
  <1>1. PICK p : /\ p[0] = <<>> /\ p[Len(list)] = FoldLeft(AddAlert, <<>>, list)
                 /\ \A n \in 1 .. Len(list) : p[n] = AddAlert(p[n - 1], list[n])
    BY FoldPrefixes
  <1>2. Summary(p[0], list, 0)
    <2>1. <<>> \in Seq(Inc) /\ DOMAIN <<>> = {} /\ 1 .. 0 = {}
      OBVIOUS
    <2> QED
      BY <1>1, <2>1 DEF Summary, Table
  <1> DEFINE Bad == {n \in 0 .. Len(list) : ~Summary(p[n], list, n)}
  <1>3. ASSUME Bad # {} PROVE FALSE
    <2>1. PICK n \in Bad : \A m \in Bad : n <= m
      <3>1. Bad \in SUBSET Nat
        BY <1>0
      <3> HIDE DEF Bad
      <3> QED
        BY <1>3, <3>1, NatMinimum
    <2>2. n \in 1 .. Len(list) /\ n - 1 \in 0 .. Len(list) /\ n - 1 < n
      BY <1>0, <1>2, <2>1
    <2>3. Summary(p[n - 1], list, n - 1)
      BY <2>1, <2>2
    <2>4. Summary(p[n], list, n)
      BY <1>1, <2>2, <2>3, AddAlertStep
    <2> QED
      BY <2>1, <2>4
  <1> QED
    BY <1>0, <1>1, <1>3

-----------------------------------------------------------------------------
(***************************************************************************)
(* The console's ranking.                                                  *)
(***************************************************************************)
Before(incs, i, j) ==
    \/ incs[i].risk > incs[j].risk
    \/ incs[i].risk = incs[j].risk /\ i <= j
Place(incs, j) == Cardinality({i \in DOMAIN incs : Before(incs, i, j)})

LEMMA SortFacts ==
    ASSUME NEW incs, NEW n \in Nat, DOMAIN incs = 1 .. n, \A i \in 1 .. n : incs[i].risk \in Int
    PROVE  \E perm \in Bijection(1 .. n, 1 .. n) :
              /\ SortByRisk(incs) = [k \in 1 .. n |-> incs[perm[k]]]
              /\ \A j, k \in 1 .. n : j <= k => incs[perm[j]].risk >= incs[perm[k]].risk
  <1> DEFINE D == 1 .. n
             Ahead(j) == {i \in D : Before(incs, i, j)}
             perm == [k \in D |-> CHOOSE j \in D : Place(incs, j) = k]
  <1>0. IsFiniteSet(D) /\ Cardinality(D) = n /\ \A i \in D : i \in Int
    BY FS_Interval
  <1>1. ASSUME NEW j \in D
        PROVE  /\ IsFiniteSet(Ahead(j)) /\ Place(incs, j) = Cardinality(Ahead(j))
               /\ Place(incs, j) \in Nat /\ j \in Ahead(j)
    <2>1. Ahead(j) \in SUBSET D /\ Place(incs, j) = Cardinality(Ahead(j))
      BY DEF Place
    <2>2. j \in Ahead(j)
      BY <1>0 DEF Before
    <2> HIDE DEF Ahead
    <2> QED
      BY <1>0, <2>1, <2>2, FS_Subset, FS_CardinalityType
  <1>2. ASSUME NEW j \in D PROVE Place(incs, j) \in D
    <2>1. Ahead(j) \in SUBSET D
      OBVIOUS
    <2>2. Place(incs, j) <= n
      BY <1>0, <1>1, <2>1, FS_Subset, ZenonT(30)
    <2>3. Place(incs, j) # 0
      BY <1>1, FS_EmptySet
    <2>4. Place(incs, j) \in Nat
      BY <1>1
    <2> DEFINE p == Place(incs, j)
    <2> HIDE DEF p
    <2>5. p \in Nat /\ p <= n /\ p # 0
      BY <2>2, <2>3, <2>4 DEF p
    <2>6. p \in 1 .. n
      BY <2>5
    <2> QED
      BY <2>6 DEF p
  <1>3. ASSUME NEW i \in D, NEW j \in D, i # j, Before(incs, i, j)
        PROVE  Place(incs, i) < Place(incs, j)
    <2>1. ASSUME NEW k \in Ahead(i) PROVE k \in Ahead(j)
      BY <1>0, <1>3 DEF Before
    <2>2. j \notin Ahead(i)
      BY <1>0, <1>3 DEF Before
    <2>3. Ahead(i) \in SUBSET Ahead(j) /\ Ahead(i) # Ahead(j)
      BY <1>1, <2>1, <2>2
    <2> HIDE DEF Ahead
    <2>4. Cardinality(Ahead(i)) <= Cardinality(Ahead(j)) /\ Cardinality(Ahead(i)) # Cardinality(Ahead(j))
      BY <1>1, <2>3, FS_Subset
    <2> QED
      BY <1>1, <2>4
  <1>4. ASSUME NEW i \in D, NEW j \in D PROVE Before(incs, i, j) \/ Before(incs, j, i)
    BY <1>0 DEF Before
  <1> DEFINE place == [j \in D |-> Place(incs, j)]
  <1>5. place \in [D -> D] /\ \A i, j \in D : place[i] = place[j] => i = j
    <2>1. ASSUME NEW i \in D, NEW j \in D, Place(incs, i) = Place(incs, j), i # j PROVE FALSE
      <3>1. Place(incs, i) \in Nat /\ Place(incs, j) \in Nat
        BY <1>1
      <3>2. Place(incs, i) < Place(incs, j) \/ Place(incs, j) < Place(incs, i)
        BY <1>3, <1>4, <2>1
      <3> QED
        BY <2>1, <3>1, <3>2
    <2> QED
      BY <1>2, <2>1
  <1>6. \A k \in D : \E j \in D : Place(incs, j) = k
    <2>1. place \in Injection(D, D)
      BY <1>5, Fun_IsInj
    <2>2. place \in Surjection(D, D)
      BY <1>0, <2>1, FS_Injection
    <2> QED
      BY <2>2 DEF Surjection
  <1>7. ASSUME NEW k \in D PROVE perm[k] \in D /\ Place(incs, perm[k]) = k
    BY <1>6
  <1>8. SortByRisk(incs) = [k \in D |-> incs[perm[k]]]
    BY DEF SortByRisk, Place, Before
  <1> HIDE DEF perm
  <1>9. perm \in Bijection(D, D)
    <2>1. perm \in [D -> D]
      BY <1>7 DEF perm
    <2>2. \A j, k \in D : perm[j] = perm[k] => j = k
      BY <1>7
    <2>3. perm \in Injection(D, D)
      BY <2>1, <2>2, Fun_IsInj
    <2>4. perm \in Surjection(D, D)
      BY <1>0, <2>3, FS_Injection
    <2> QED
      BY <2>3, <2>4 DEF Bijection
  <1>10. ASSUME NEW j \in D, NEW k \in D, j <= k PROVE incs[perm[j]].risk >= incs[perm[k]].risk
    <2> DEFINE x == perm[j]
               y == perm[k]
    <2>1. x \in D /\ y \in D /\ Place(incs, x) = j /\ Place(incs, y) = k
      BY <1>7
    <2>2. CASE x = y
      BY <2>1, <2>2
    <2>3. CASE x # y
      <3>1. ~Before(incs, y, x)
        <4> SUFFICES ASSUME Before(incs, y, x) PROVE FALSE
          OBVIOUS
        <4>1. k < j
          BY <1>3, <2>1, <2>3
        <4> QED
          BY <1>0, <1>10, <4>1
      <3>2. Before(incs, x, y)
        BY <1>4, <2>1, <3>1
      <3> HIDE DEF x, y
      <3>3. incs[x].risk \in Int /\ incs[y].risk \in Int
        BY <2>1
      <3>4. incs[x].risk >= incs[y].risk
        BY <3>2, <3>3 DEF Before
      <3> QED
        BY <3>4 DEF x, y
    <2> QED
      BY <2>2, <2>3
  <1> QED
    BY <1>8, <1>9, <1>10

LEMMA RiskScoreType ==
    ASSUME NEW inc \in Inc
    PROVE  RiskScore(inc) \in Int
  <1>1. inc.score \in Nat /\ inc.ids \in Seq(Nat) /\ Len(inc.ids) \in Nat
    BY DEF Inc
  <1> DEFINE bonus == (Len(inc.ids) - 1) * 5
             more == Min({20, bonus})
  <1>2. bonus \in Int
    BY <1>1
  <1>3. ASSUME NEW x \in Int, NEW y \in Int PROVE Min({x, y}) \in Int
    <2>1. \E z \in {x, y} : \A v \in {x, y} : z <= v
      OBVIOUS
    <2> QED
      BY <2>1 DEF Min
  <1> HIDE DEF bonus
  <1>4. more \in Int
    BY <1>2, <1>3
  <1> HIDE DEF more
  <1>5. Min({100, inc.score + more}) \in Int
    BY <1>1, <1>3, <1>4
  <1> QED
    BY <1>5 DEF RiskScore, more, bonus

\* get_incidents and the console's sort, for any list of rows.
LEMMA RankedFacts ==
    ASSUME NEW list \in Seq(Row), NEW ranked, ranked = SortByRisk(GetIncidents(list))
    PROVE  /\ \E n \in Nat : DOMAIN ranked = 1 .. n
           /\ \A k \in DOMAIN ranked :
                 /\ ToSet(ranked[k].ids) = IdsOf(list, Len(list), ranked[k].src)
                 /\ \E i \in DOMAIN list : list[i].src = ranked[k].src /\ list[i].sev = ranked[k].severity
                 /\ \A i \in DOMAIN list :
                        list[i].src = ranked[k].src => SevScore(list[i].sev) <= SevScore(ranked[k].severity)
                 /\ \A j \in 1 .. k : ranked[j].risk >= ranked[k].risk
           /\ \A j, k \in DOMAIN ranked : ranked[j].src = ranked[k].src => j = k
           /\ \A i \in DOMAIN list : \E k \in DOMAIN ranked : ranked[k].src = list[i].src
  <1> DEFINE found == FoldLeft(AddAlert, <<>>, list)
             incs == [i \in DOMAIN found |-> Incident(found[i])]
             n == Len(found)
  <1>0. Summary(found, list, Len(list))
    BY FoldSummary
  <1> HIDE DEF found
  <1>1. found \in Seq(Inc) /\ n \in Nat /\ DOMAIN found = 1 .. n /\ DOMAIN incs = 1 .. n
    BY <1>0 DEF Summary, Table
  <1>2. ASSUME NEW i \in 1 .. n
        PROVE  /\ incs[i].src = found[i].src /\ incs[i].severity = found[i].severity
               /\ incs[i].ids = found[i].ids /\ incs[i].risk \in Int
    <2>1. incs[i] = Incident(found[i]) /\ found[i] \in Inc
      BY <1>1
    <2> QED
      BY <2>1, RiskScoreType DEF Incident
  <1>3. ranked = SortByRisk(incs)
    BY DEF GetIncidents, found
  <1> HIDE DEF incs, n
  <1>4. PICK perm \in Bijection(1 .. n, 1 .. n) :
              /\ SortByRisk(incs) = [k \in 1 .. n |-> incs[perm[k]]]
              /\ \A j, k \in 1 .. n : j <= k => incs[perm[j]].risk >= incs[perm[k]].risk
    BY <1>1, <1>2, SortFacts
  <1>5. /\ DOMAIN ranked = 1 .. n /\ \A k \in 1 .. n : perm[k] \in 1 .. n /\ ranked[k] = incs[perm[k]]
        /\ \A j, k \in 1 .. n : perm[j] = perm[k] => j = k
        /\ \A i \in 1 .. n : \E k \in 1 .. n : perm[k] = i
    BY <1>3, <1>4 DEF Bijection, Injection, Surjection, IsInjective
  <1>6. DOMAIN list = 1 .. Len(list)
    OBVIOUS
  <1>7. ASSUME NEW k \in DOMAIN ranked
        PROVE  /\ ToSet(ranked[k].ids) = IdsOf(list, Len(list), ranked[k].src)
               /\ \E i \in DOMAIN list : list[i].src = ranked[k].src /\ list[i].sev = ranked[k].severity
               /\ \A i \in DOMAIN list :
                      list[i].src = ranked[k].src => SevScore(list[i].sev) <= SevScore(ranked[k].severity)
               /\ \A j \in 1 .. k : ranked[j].risk >= ranked[k].risk
    <2>1. k \in 1 .. n /\ perm[k] \in 1 .. n /\ ranked[k] = incs[perm[k]]
      BY <1>5
    <2>2. /\ ToSet(found[perm[k]].ids) = IdsOf(list, Len(list), found[perm[k]].src)
          /\ Worst(found[perm[k]], list, Len(list))
      BY <1>0, <1>1, <2>1 DEF Summary
    <2>3. ASSUME NEW j \in 1 .. k PROVE ranked[j].risk >= ranked[k].risk
      <3>1. j \in 1 .. n /\ j <= k
        BY <1>1, <2>1
      <3>2. ranked[j] = incs[perm[j]]
        BY <1>5, <3>1
      <3>3. incs[perm[j]].risk >= incs[perm[k]].risk
        BY <1>4, <2>1, <3>1
      <3> QED
        BY <2>1, <3>2, <3>3
    <2> QED
      BY <1>2, <1>6, <2>1, <2>2, <2>3 DEF Worst
  <1>8. ASSUME NEW j \in DOMAIN ranked, NEW k \in DOMAIN ranked, ranked[j].src = ranked[k].src
        PROVE  j = k
    <2>1. /\ j \in 1 .. n /\ perm[j] \in 1 .. n /\ ranked[j] = incs[perm[j]]
          /\ k \in 1 .. n /\ perm[k] \in 1 .. n /\ ranked[k] = incs[perm[k]]
      BY <1>5
    <2>2. found[perm[j]].src = found[perm[k]].src
      BY <1>2, <1>8, <2>1
    <2>3. perm[j] = perm[k]
      BY <1>0, <1>1, <2>1, <2>2 DEF Summary, Table
    <2> QED
      BY <1>5, <2>1, <2>3
  <1>9. ASSUME NEW i \in DOMAIN list PROVE \E k \in DOMAIN ranked : ranked[k].src = list[i].src
    <2>1. list[i].src \in {list[k].src : k \in 1 .. Len(list)}
      BY <1>6
    <2>2. PICK x \in DOMAIN found : found[x].src = list[i].src
      BY <1>0, <2>1 DEF Summary
    <2>3. x \in 1 .. n
      BY <1>1
    <2>4. PICK k \in 1 .. n : perm[k] = x
      BY <1>5, <2>3
    <2>5. k \in DOMAIN ranked /\ ranked[k] = incs[x]
      BY <1>5, <2>4
    <2>6. incs[x].src = found[x].src
      BY <1>2, <2>3
    <2>7. ranked[k].src = list[i].src
      BY <2>2, <2>5, <2>6
    <2> QED
      BY <2>5, <2>7
  <1> QED
    BY <1>1, <1>5, <1>7, <1>8, <1>9

(***************************************************************************)
(* What get_incidents makes of the alerts, and the console ranks, is one   *)
(* incident per source with all its alerts and the worst of their          *)
(* severities, the riskiest first, for a list of any length.               *)
(***************************************************************************)
THEOREM DashboardIncidentsSummarise ==
    Spec => []IncidentsSummarise
  <1>1. ASSUME alerts \in Seq(Row) PROVE IncidentsSummarise
    <2> DEFINE ranked == SortByRisk(GetIncidents(alerts))
               Of(src) == {a \in ToSet(alerts) : a.src = src}
    <2>1. /\ \A k \in DOMAIN ranked :
                 /\ ToSet(ranked[k].ids) = IdsOf(alerts, Len(alerts), ranked[k].src)
                 /\ \E i \in DOMAIN alerts : alerts[i].src = ranked[k].src /\ alerts[i].sev = ranked[k].severity
                 /\ \A i \in DOMAIN alerts :
                        alerts[i].src = ranked[k].src => SevScore(alerts[i].sev) <= SevScore(ranked[k].severity)
                 /\ \A j \in 1 .. k : ranked[j].risk >= ranked[k].risk
          /\ \A j, k \in DOMAIN ranked : ranked[j].src = ranked[k].src => j = k
          /\ \A i \in DOMAIN alerts : \E k \in DOMAIN ranked : ranked[k].src = alerts[i].src
      BY <1>1, RankedFacts
    <2>2. DOMAIN alerts = 1 .. Len(alerts)
      BY <1>1
    <2> HIDE DEF ranked
    <2>3. ASSUME NEW src
          PROVE  Cardinality({k \in DOMAIN ranked : ranked[k].src = src}) = IF Of(src) = {} THEN 0 ELSE 1
      <3> DEFINE places == {k \in DOMAIN ranked : ranked[k].src = src}
      <3>1. CASE Of(src) = {}
        <4>1. \A i \in DOMAIN alerts : alerts[i].src # src
          BY <3>1 DEF ToSet
        <4>2. places = {}
          BY <2>1, <4>1
        <4> QED
          BY <3>1, <4>2, FS_EmptySet
      <3>2. CASE Of(src) # {}
        <4>1. PICK i \in DOMAIN alerts : alerts[i].src = src
          BY <3>2 DEF ToSet
        <4>2. PICK k \in DOMAIN ranked : ranked[k].src = src
          BY <2>1, <4>1
        <4>3. places = {k}
          BY <2>1, <4>2
        <4> QED
          BY <3>2, <4>3, FS_Singleton
      <3> QED
        BY <3>1, <3>2
    <2>4. ASSUME NEW k \in DOMAIN ranked
          PROVE  /\ ToSet(ranked[k].ids) = {a.id : a \in Of(ranked[k].src)}
                 /\ SevScore(ranked[k].severity) = Max({SevScore(a.sev) : a \in Of(ranked[k].src)})
                 /\ \A j \in 1 .. k : ranked[j].risk >= ranked[k].risk
      <3> DEFINE src == ranked[k].src
                 scores == {SevScore(a.sev) : a \in Of(src)}
                 m == SevScore(ranked[k].severity)
      <3>1. IdsOf(alerts, Len(alerts), src) = {a.id : a \in Of(src)}
        BY <2>2 DEF IdsOf, ToSet
      <3>2. scores \in SUBSET Nat
        BY SevScoreFacts
      <3>3. m \in scores
        BY <2>1 DEF ToSet
      <3>4. \A x \in scores : x <= m
        BY <2>1 DEF ToSet
      <3> HIDE DEF scores, m
      <3>5. Max(scores) = m
        BY <3>2, <3>3, <3>4, LargestIsMax
      <3> QED
        BY <2>1, <3>1, <3>5 DEF scores, m
    <2> QED
      BY <2>3, <2>4 DEF IncidentsSummarise, ranked
  <1>2. PollInv => IncidentsSummarise
    BY <1>1 DEF PollInv
  <1> QED
    BY <1>2, DashboardInvariant, PTL
=============================================================================
