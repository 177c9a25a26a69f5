----------------------------- MODULE FileProofs -----------------------------
(***************************************************************************)
(* Proofs about the components that live on files: the capture reader      *)
(* PcapFlows, for any endpoints, period, cap and capture, the log tailer,  *)
(* for any number of logs, lines and dead tails, the dead-letter file, for *)
(* any number of writers, generations and entries and any failure or crash *)
(* during a rotation, and the model files, for any number of versions,     *)
(* stops and loads.                                                        *)
(***************************************************************************)
EXTENDS PcapFlows, Tailer, DlqFile, ModelDeploy, FiniteSums, SequenceTheorems

-----------------------------------------------------------------------------
(***************************************************************************)
(* Tables, and what a conversation has in one.                             *)
(***************************************************************************)
Table(table) ==
    /\ table \in Seq(Flow)
    /\ \A i \in DOMAIN table : Packets(table[i]) >= table[i].unsent
    /\ \A i, j \in DOMAIN table : Peers(table[i].key) = Peers(table[j].key) => i = j

Await(table) == SumFunction([i \in DOMAIN table |-> table[i].unsent])

InAll(table, c) == PacketsOf(table, DOMAIN table, c)

LEMMA TableFacts ==
    ASSUME NEW table, Table(table)
    PROVE  /\ Len(table) \in Nat /\ DOMAIN table = 1 .. Len(table) /\ IsFiniteSet(DOMAIN table)
           /\ \A i \in DOMAIN table :
                 /\ table[i] \in Flow /\ table[i].key \in Keys /\ table[i].start \in Nat
                 /\ table[i].orig \in Nat /\ table[i].resp \in Nat /\ table[i].unsent \in Nat
                 /\ Packets(table[i]) \in Nat
  <1>1. table \in Seq(Flow) /\ Len(table) \in Nat /\ DOMAIN table = 1 .. Len(table)
    BY DEF Table
  <1>2. \A i \in DOMAIN table : table[i] \in Flow
    BY <1>1
  <1>3. IsFiniteSet(DOMAIN table)
    BY <1>1, FS_Interval
  <1> QED
    BY <1>1, <1>2, <1>3 DEF Flow, Packets

\* A conversation has one entry, so its sum has at most one term.
LEMMA OneTerm ==
    ASSUME NEW table, Table(table), NEW places \in SUBSET DOMAIN table, NEW c
    PROVE  /\ (\A i \in places : Peers(table[i].key) # c) => PacketsOf(table, places, c) = 0
           /\ \A i \in places : Peers(table[i].key) = c => PacketsOf(table, places, c) = Packets(table[i])
           /\ PacketsOf(table, places, c) \in Nat
  <1> DEFINE f == [i \in DOMAIN table |-> Packets(table[i])]
             own == {i \in places : Peers(table[i].key) = c}
  <1>1. PacketsOf(table, places, c) = SumFunctionOnSet(f, own)
    BY DEF PacketsOf
  <1>2. \A i \in places : f[i] = Packets(table[i]) /\ f[i] \in Nat
    BY TableFacts
  <1> HIDE DEF f
  <1>3. ASSUME \A i \in places : Peers(table[i].key) # c PROVE PacketsOf(table, places, c) = 0
    <2>1. own = {}
      BY <1>3
    <2> QED
      BY <1>1, <2>1, SumEmpty
  <1>4. ASSUME NEW i \in places, Peers(table[i].key) = c
        PROVE  PacketsOf(table, places, c) = Packets(table[i])
    <2>1. own = {i}
      BY <1>4 DEF Table
    <2> QED
      BY <1>1, <1>2, <2>1, SumOne
  <1> QED
    BY <1>2, <1>3, <1>4

LEMMA PacketsSplit ==
    ASSUME NEW table, Table(table), NEW places \in SUBSET DOMAIN table,
           NEW sent \in SUBSET places, NEW c
    PROVE  /\ PacketsOf(table, places, c) = PacketsOf(table, sent, c) + PacketsOf(table, places \ sent, c)
           /\ PacketsOf(table, sent, c) \in Nat /\ PacketsOf(table, places \ sent, c) \in Nat
  <1> DEFINE rest == places \ sent
  <1>1. sent \in SUBSET DOMAIN table /\ rest \in SUBSET DOMAIN table
    OBVIOUS
  <1>2. PacketsOf(table, sent, c) \in Nat /\ PacketsOf(table, rest, c) \in Nat
    BY <1>1, OneTerm
  <1>3. CASE \A i \in places : Peers(table[i].key) # c
    <2>1. PacketsOf(table, places, c) = 0 /\ PacketsOf(table, sent, c) = 0 /\ PacketsOf(table, rest, c) = 0
      BY <1>1, <1>3, OneTerm
    <2> QED
      BY <2>1
  <1>4. ASSUME NEW i \in places, Peers(table[i].key) = c
        PROVE  PacketsOf(table, places, c) = PacketsOf(table, sent, c) + PacketsOf(table, rest, c)
    <2>0. /\ \A j \in places : Peers(table[j].key) = c => j = i
          /\ Packets(table[i]) \in Nat /\ PacketsOf(table, places, c) = Packets(table[i])
      BY <1>4, OneTerm, TableFacts DEF Table
    <2>1. CASE i \in sent
      <3>1. PacketsOf(table, sent, c) = Packets(table[i])
        BY <1>1, <1>4, <2>1, OneTerm
      <3>2. PacketsOf(table, rest, c) = 0
        <4>1. \A j \in rest : Peers(table[j].key) # c
          BY <2>0, <2>1
        <4> QED
          BY <1>1, <4>1, OneTerm
      <3> QED
        BY <2>0, <3>1, <3>2
    <2>2. CASE i \in rest
      <3>1. PacketsOf(table, rest, c) = Packets(table[i])
        BY <1>1, <1>4, <2>2, OneTerm
      <3>2. PacketsOf(table, sent, c) = 0
        <4>1. \A j \in sent : Peers(table[j].key) # c
          BY <2>0, <2>2
        <4> QED
          BY <1>1, <4>1, OneTerm
      <3> QED
        BY <2>0, <3>1, <3>2
    <2> QED
      BY <2>1, <2>2
  <1> QED
    BY <1>2, <1>3, <1>4

LEMMA AwaitFacts ==
    ASSUME NEW table, Table(table)
    PROVE  /\ Await(table) = SumFunctionOnSet([i \in DOMAIN table |-> table[i].unsent], DOMAIN table)
           /\ Await(table) \in Nat
  <1>1. Await(table) = SumFunctionOnSet([i \in DOMAIN table |-> table[i].unsent], DOMAIN table)
    BY DEF Await, SumFunction
  <1> DEFINE f == [i \in DOMAIN table |-> table[i].unsent]
  <1>2. \A i \in DOMAIN table : f[i] \in Nat
    BY TableFacts
  <1> HIDE DEF f
  <1>3. SumFunctionOnSet(f, DOMAIN table) \in Nat
    BY <1>2, TableFacts, SumType
  <1> QED
    BY <1>1, <1>3 DEF f

-----------------------------------------------------------------------------
(***************************************************************************)
(* Counting a packet.                                                      *)
(***************************************************************************)
\* One packet more in a table: for one conversation, and not yet emitted.
OneMore(table, next, key) ==
    /\ Table(next) /\ Len(next) <= Len(table) + 1
    /\ Await(next) = Await(table) + 1
    /\ \A c : InAll(next, c) = InAll(table, c) + IF c = Peers(key) THEN 1 ELSE 0

LEMMA BumpFacts ==
    ASSUME NEW table, Table(table), NEW key \in Keys,
           NEW p \in DOMAIN table, Peers(table[p].key) = Peers(key),
           NEW r \in Flow, r.key = table[p].key, Packets(r) = Packets(table[p]) + 1,
           r.unsent = table[p].unsent + 1
    PROVE  OneMore(table, [table EXCEPT ![p] = r], key)
  <1> DEFINE next == [table EXCEPT ![p] = r]
             f == [i \in DOMAIN table |-> table[i].unsent]
             g == [i \in DOMAIN next |-> next[i].unsent]
             D == DOMAIN table
  <1>1. /\ table \in Seq(Flow) /\ next \in Seq(Flow) /\ DOMAIN next = D /\ Len(next) = Len(table)
        /\ next[p] = r /\ \A i \in D \ {p} : next[i] = table[i]
    BY DEF Table
  <1>2. \A i \in D : next[i].key = table[i].key
    BY <1>1
  <1>3. IsFiniteSet(D) /\ Len(table) \in Nat /\ Packets(table[p]) \in Nat /\ table[p].unsent \in Nat
    BY TableFacts
  <1>4. Table(next)
    <2>1. \A i \in D : Packets(next[i]) >= next[i].unsent
      <3>1. Packets(table[p]) >= table[p].unsent /\ \A i \in D : Packets(table[i]) >= table[i].unsent
        BY DEF Table
      <3>2. Packets(r) >= r.unsent
        BY <1>3, <3>1
      <3> QED
        BY <1>1, <3>1, <3>2
    <2>2. \A i, j \in D : Peers(next[i].key) = Peers(next[j].key) => i = j
      BY <1>2 DEF Table
    <2> HIDE DEF next
    <2> QED
      BY <1>1, <2>1, <2>2 DEF Table
  <1>5. /\ \A i \in D : f[i] = table[i].unsent /\ f[i] \in Nat /\ g[i] = next[i].unsent /\ g[i] \in Nat
        /\ g[p] = f[p] + 1 /\ \A i \in D \ {p} : g[i] = f[i]
    <2>1. \A i \in D : f[i] = table[i].unsent /\ f[i] \in Nat
      BY TableFacts
    <2>2. \A i \in D : g[i] = next[i].unsent /\ g[i] \in Nat
      BY <1>1, <1>4, TableFacts
    <2> QED
      BY <1>1, <2>1, <2>2
  <1>6. Await(table) = SumFunctionOnSet(f, D) /\ Await(next) = SumFunctionOnSet(g, D) /\ Await(table) \in Nat
    BY <1>1, <1>4, AwaitFacts
  <1> HIDE DEF next, f, g
  <1>7. Await(next) = Await(table) + 1
    <2>1. IsFiniteSet(D \ {p})
      BY <1>3, FS_Subset
    <2>2. SumFunctionOnSet(g, D \ {p}) = SumFunctionOnSet(f, D \ {p})
      BY <1>5, <2>1, SumSame
    <2>3. SumFunctionOnSet(f, D) = f[p] + SumFunctionOnSet(f, D \ {p})
      BY <1>3, <1>5, SumAdd, ZenonT(30)
    <2>4. SumFunctionOnSet(g, D) = g[p] + SumFunctionOnSet(g, D \ {p})
      BY <1>3, <1>5, SumAdd, ZenonT(30)
    <2>5. f[p] \in Nat /\ SumFunctionOnSet(f, D \ {p}) \in Nat
      BY <1>5, <2>1, SumType
    <2> QED
      BY <1>5, <1>6, <2>2, <2>3, <2>4, <2>5
  <1>8. ASSUME NEW c PROVE InAll(next, c) = InAll(table, c) + IF c = Peers(key) THEN 1 ELSE 0
    <2>1. CASE \A i \in D : Peers(table[i].key) # c
      <3>1. InAll(table, c) = 0 /\ InAll(next, c) = 0 /\ c # Peers(key)
        BY <1>1, <1>2, <1>4, <2>1, OneTerm DEF InAll
      <3> QED
        BY <3>1
    <2>2. ASSUME NEW i \in D, Peers(table[i].key) = c
          PROVE  InAll(next, c) = InAll(table, c) + IF c = Peers(key) THEN 1 ELSE 0
      <3>1. InAll(table, c) = Packets(table[i]) /\ InAll(next, c) = Packets(next[i])
        <4>1. InAll(table, c) = Packets(table[i])
          BY <2>2, OneTerm DEF InAll
        <4>2. Peers(next[i].key) = c /\ DOMAIN next \in SUBSET DOMAIN next /\ i \in DOMAIN next
          BY <1>1, <1>2, <2>2
        <4>3. InAll(next, c) = Packets(next[i])
          BY <1>4, <4>2, OneTerm DEF InAll
        <4> QED
          BY <4>1, <4>3
      <3>2. CASE i = p
        BY <1>1, <2>2, <3>1, <3>2
      <3>3. CASE i # p
        <4>1. c # Peers(key)
          BY <2>2, <3>3 DEF Table
        <4>2. Packets(next[i]) = Packets(table[i]) /\ Packets(table[i]) \in Nat
          BY <1>1, <3>3, TableFacts
        <4> QED
          BY <3>1, <4>1, <4>2
      <3> QED
        BY <3>2, <3>3
    <2> QED
      BY <2>1, <2>2
  <1>9. Len(next) <= Len(table) + 1
    BY <1>1, <1>3
  <1>10. OneMore(table, next, key)
    BY <1>4, <1>7, <1>8, <1>9 DEF OneMore
  <1> QED
    BY <1>10 DEF next

LEMMA NewFacts ==
    ASSUME NEW table, Table(table), NEW key \in Keys,
           \A i \in DOMAIN table : Peers(table[i].key) # Peers(key),
           NEW r \in Flow, r.key = key, Packets(r) = 1, r.unsent = 1
    PROVE  OneMore(table, Append(table, r), key)
  <1> DEFINE next == Append(table, r)
             f == [i \in DOMAIN table |-> table[i].unsent]
             g == [i \in DOMAIN next |-> next[i].unsent]
             D == DOMAIN table
             n == Len(table) + 1
             E == DOMAIN next
  <1>1. /\ table \in Seq(Flow) /\ Len(table) \in Nat /\ next \in Seq(Flow) /\ Len(next) = n
        /\ D = 1 .. Len(table) /\ E = 1 .. n
        /\ next[n] = r /\ \A i \in D : next[i] = table[i]
    BY DEF Table
  <1>2. n \in E /\ n \notin D /\ E = D \cup {n} /\ E \ {n} = D /\ D \subseteq E
    BY <1>1
  <1>3. IsFiniteSet(D) /\ IsFiniteSet(E)
    BY <1>1, FS_Interval
  <1>4. Table(next)
    <2>1. \A i \in E : Packets(next[i]) >= next[i].unsent
      BY <1>1, <1>2 DEF Table
    <2>2. \A i, j \in E : Peers(next[i].key) = Peers(next[j].key) => i = j
      BY <1>1, <1>2 DEF Table
    <2> HIDE DEF next
    <2> QED
      BY <1>1, <2>1, <2>2 DEF Table
  <1>5. /\ \A i \in D : f[i] \in Nat /\ g[i] = f[i]
        /\ g[n] = 1 /\ \A i \in E : g[i] \in Nat
    <2>1. \A i \in D : f[i] = table[i].unsent /\ f[i] \in Nat
      BY TableFacts
    <2>2. \A i \in E : g[i] = next[i].unsent /\ g[i] \in Nat
      BY <1>4, TableFacts
    <2> QED
      BY <1>1, <1>2, <2>1, <2>2
  <1>6. Await(table) = SumFunctionOnSet(f, D) /\ Await(next) = SumFunctionOnSet(g, E) /\ Await(table) \in Nat
    BY <1>4, AwaitFacts
  <1> HIDE DEF next, f, g, n, E
  <1>7. Await(next) = Await(table) + 1
    <2>1. SumFunctionOnSet(g, D) = SumFunctionOnSet(f, D)
      BY <1>3, <1>5, SumSame
    <2>2. SumFunctionOnSet(g, E) = g[n] + SumFunctionOnSet(g, D)
      BY <1>2, <1>3, <1>5, SumAdd
    <2> QED
      BY <1>5, <1>6, <2>1, <2>2
  <1>8. ASSUME NEW c PROVE InAll(next, c) = InAll(table, c) + IF c = Peers(key) THEN 1 ELSE 0
    <2>0. DOMAIN next = E
      BY DEF E
    <2>1. CASE c = Peers(key)
      <3>1. InAll(table, c) = 0
        BY <2>1, OneTerm DEF InAll
      <3>2. InAll(next, c) = Packets(next[n])
        <4>1. n \in DOMAIN next /\ Peers(next[n].key) = c
          BY <1>1, <1>2, <2>0, <2>1
        <4> QED
          BY <1>4, <4>1, OneTerm DEF InAll
      <3> QED
        BY <1>1, <2>1, <3>1, <3>2
    <2>2. CASE c # Peers(key) /\ \A i \in D : Peers(table[i].key) # c
      <3>1. \A i \in E : Peers(next[i].key) # c
        BY <1>1, <1>2, <2>2
      <3>2. InAll(table, c) = 0 /\ InAll(next, c) = 0
        BY <1>4, <2>0, <2>2, <3>1, OneTerm DEF InAll
      <3> QED
        BY <2>2, <3>2
    <2>3. ASSUME c # Peers(key), NEW i \in D, Peers(table[i].key) = c
          PROVE  InAll(next, c) = InAll(table, c) + IF c = Peers(key) THEN 1 ELSE 0
      <3>1. i \in E /\ Peers(next[i].key) = c /\ Packets(table[i]) \in Nat
        BY <1>1, <1>2, <2>3, TableFacts
      <3>2. InAll(table, c) = Packets(table[i]) /\ InAll(next, c) = Packets(next[i])
        BY <1>4, <2>0, <2>3, <3>1, OneTerm DEF InAll
      <3> QED
        BY <1>1, <2>3, <3>1, <3>2
    <2> QED
      BY <2>1, <2>2, <2>3
  <1>9. Len(next) <= Len(table) + 1
    BY <1>1 DEF n
  <1>10. OneMore(table, next, key)
    BY <1>4, <1>7, <1>8, <1>9 DEF OneMore
  <1> QED
    BY <1>10 DEF next

LEMMA EntryFacts ==
    ASSUME NEW flow \in Flow, NEW r \in {Replied(flow), Originated(flow)}
    PROVE  r \in Flow /\ r.key = flow.key /\ r.unsent = flow.unsent + 1 /\ Packets(r) = Packets(flow) + 1
  <1>1. /\ flow.key \in Keys /\ flow.start \in Nat /\ flow.orig \in Nat
        /\ flow.resp \in Nat /\ flow.unsent \in Nat
        /\ flow = [key |-> flow.key, start |-> flow.start, orig |-> flow.orig, resp |-> flow.resp,
                   unsent |-> flow.unsent]
    BY DEF Flow
  <1>2. CASE r = Replied(flow)
    <2>1. r = [key |-> flow.key, start |-> flow.start, orig |-> flow.orig, resp |-> flow.resp + 1,
               unsent |-> flow.unsent + 1]
      BY <1>1, <1>2 DEF Replied
    <2> QED
      BY <1>1, <2>1 DEF Flow, Packets
  <1>3. CASE r = Originated(flow)
    <2>1. r = [key |-> flow.key, start |-> flow.start, orig |-> flow.orig + 1, resp |-> flow.resp,
               unsent |-> flow.unsent + 1]
      BY <1>1, <1>3 DEF Originated
    <2> QED
      BY <1>1, <2>1 DEF Flow, Packets
  <1> QED
    BY <1>2, <1>3

LEMMA CountFacts ==
    ASSUME NEW table, Table(table), NEW key \in Keys, NEW time \in Nat
    PROVE  OneMore(table, Count(table, key, time), key)
  <1> DEFINE back == Reverse2(key)
             known == IF IndexOf(table, key) = {} THEN Append(table, NewFlow(key, time)) ELSE table
  <1>1. back \in Keys /\ Peers(back) = Peers(key)
    BY DEF Reverse2, Peers, Keys
  <1>2. \A i \in DOMAIN table : table[i].key \in Keys /\ table[i] \in Flow
    BY TableFacts
  <1>3. ASSUME NEW other \in Keys, Peers(other) = Peers(key) PROVE other = key \/ other = back
    BY <1>3 DEF Peers, Keys, Reverse2
  <1>4. CASE IndexOf(table, back) # {}
    <2> DEFINE p == CHOOSE i \in IndexOf(table, back) : TRUE
               r == Replied(table[p])
    <2>1. p \in IndexOf(table, back)
      BY <1>4
    <2>2. p \in DOMAIN table /\ table[p].key = back
      BY <2>1 DEF IndexOf
    <2> HIDE DEF p
    <2>3. table[p] \in Flow /\ r \in Flow /\ r.key = table[p].key /\ r.unsent = table[p].unsent + 1
          /\ Packets(r) = Packets(table[p]) + 1
      BY <1>2, <2>2, EntryFacts
    <2> HIDE DEF r
    <2>4. OneMore(table, [table EXCEPT ![p] = r], key)
      BY <1>1, <2>2, <2>3, BumpFacts
    <2>5. Count(table, key, time) = [table EXCEPT ![p] = r]
      BY <1>4, Zenon DEF Count, p, r
    <2> QED
      BY <2>4, <2>5
  <1>5. CASE IndexOf(table, back) = {} /\ IndexOf(table, key) # {}
    <2> DEFINE p == CHOOSE i \in IndexOf(table, key) : TRUE
               r == Originated(table[p])
    <2>1. p \in IndexOf(table, key)
      BY <1>5
    <2>2. p \in DOMAIN table /\ table[p].key = key
      BY <2>1 DEF IndexOf
    <2> HIDE DEF p
    <2>3. table[p] \in Flow /\ r \in Flow /\ r.key = table[p].key /\ r.unsent = table[p].unsent + 1
          /\ Packets(r) = Packets(table[p]) + 1
      BY <1>2, <2>2, EntryFacts
    <2> HIDE DEF r
    <2>4. OneMore(table, [table EXCEPT ![p] = r], key)
      BY <1>1, <2>2, <2>3, BumpFacts
    <2>5. Count(table, key, time) = [table EXCEPT ![p] = r]
      BY <1>5, Zenon DEF Count, p, r
    <2> QED
      BY <2>4, <2>5
  <1>6. CASE IndexOf(table, back) = {} /\ IndexOf(table, key) = {}
    <2> DEFINE new == NewFlow(key, time)
               r == Originated(new)
               n == Len(table) + 1
               added == Append(table, new)
    <2>1. \A i \in DOMAIN table : table[i].key # key /\ table[i].key # back
      BY <1>6 DEF IndexOf
    <2>2. \A i \in DOMAIN table : Peers(table[i].key) # Peers(key)
      BY <1>2, <1>3, <2>1
    <2>3. new \in Flow /\ r \in Flow /\ r.key = key /\ Packets(r) = 1 /\ r.unsent = 1 /\ new.key = key
      <3>1. new \in Flow /\ new.key = key /\ Packets(new) = 0 /\ new.unsent = 0
        BY DEF NewFlow, Flow, Packets
      <3> HIDE DEF new
      <3>2. r \in Flow /\ r.key = new.key /\ r.unsent = new.unsent + 1 /\ Packets(r) = Packets(new) + 1
        BY <3>1, EntryFacts
      <3> HIDE DEF r
      <3> QED
        BY <3>1, <3>2
    <2>4. OneMore(table, Append(table, r), key)
      BY <2>2, <2>3, NewFacts
    <2> HIDE DEF new
    <2>5. /\ table \in Seq(Flow) /\ Len(table) \in Nat /\ added \in Seq(Flow) /\ Len(added) = n
          /\ DOMAIN added = 1 .. n /\ DOMAIN table = 1 .. Len(table)
          /\ added[n] = new /\ \A i \in DOMAIN table : added[i] = table[i]
      BY <2>3 DEF Table
    <2>6. IndexOf(added, key) = {n}
      BY <2>1, <2>3, <2>5 DEF IndexOf
    <2>7. (CHOOSE i \in IndexOf(added, key) : TRUE) = n
      BY <2>6
    <2>8. Count(table, key, time) = [added EXCEPT ![n] = Originated(added[n])]
      BY <1>6, <2>7, Zenon DEF Count, new
    <2> HIDE DEF r
    <2>9. [added EXCEPT ![n] = r] = Append(table, r)
      <3> DEFINE a == [added EXCEPT ![n] = r]
                 b == Append(table, r)
      <3>1. a \in Seq(Flow) /\ b \in Seq(Flow) /\ Len(a) = n /\ Len(b) = n
        BY <2>3, <2>5
      <3>2. ASSUME NEW i \in 1 .. n PROVE a[i] = b[i]
        <4>1. CASE i = n
          BY <2>3, <2>5, <4>1
        <4>2. CASE i # n
          <5>1. i \in 1 .. Len(table) /\ a[i] = added[i]
            <6>1. i \in 1 .. Len(table) /\ i \in DOMAIN added
              BY <2>5, <4>2
            <6> HIDE DEF added, n
            <6> QED
              BY <4>2, <6>1
          <5>2. b[i] = table[i]
            BY <2>3, <2>5, <5>1
          <5> QED
            BY <2>5, <5>1, <5>2
        <4> QED
          BY <4>1, <4>2
      <3> QED
        BY <3>1, <3>2, SeqEqual
    <2> QED
      BY <2>4, <2>5, <2>8, <2>9 DEF r
  <1> QED
    BY <1>4, <1>5, <1>6

-----------------------------------------------------------------------------
(***************************************************************************)
(* The emission of the table, and the eviction.                            *)
(***************************************************************************)
LEMMA SnapshotFacts ==
    ASSUME NEW table, Table(table)
    PROVE  /\ Table(Snapshot(table)) /\ Len(Snapshot(table)) = Len(table) /\ Await(Snapshot(table)) = 0
           /\ \A c : InAll(Snapshot(table), c) = InAll(table, c)
  <1> DEFINE next == Snapshot(table)
             D == DOMAIN table
             g == [i \in DOMAIN next |-> next[i].unsent]
  <1>1. ASSUME NEW i \in D
        PROVE  /\ next[i] \in Flow /\ next[i].key = table[i].key
               /\ Packets(next[i]) = Packets(table[i]) /\ next[i].unsent = 0
    <2>1. table[i] \in Flow /\ next[i] = [table[i] EXCEPT !.unsent = 0]
      BY TableFacts DEF Snapshot
    <2> HIDE DEF next
    <2> QED
      BY <2>1 DEF Flow, Packets
  <1>2. DOMAIN next = D /\ D = 1 .. Len(table) /\ Len(table) \in Nat /\ IsFiniteSet(D)
    BY TableFacts DEF Snapshot
  <1>3. next = [i \in 1 .. Len(table) |-> next[i]]
    BY <1>2 DEF Snapshot
  <1> HIDE DEF next
  <1>4. next \in Seq(Flow) /\ Len(next) = Len(table)
    BY <1>1, <1>2, <1>3
  <1>5. Table(next)
    <2>1. \A i \in D : Packets(next[i]) >= next[i].unsent
      BY <1>1, TableFacts
    <2>2. \A i, j \in D : Peers(next[i].key) = Peers(next[j].key) => i = j
      BY <1>1 DEF Table
    <2> QED
      BY <1>2, <1>4, <2>1, <2>2 DEF Table
  <1>6. Await(next) = 0
    <2>1. \A i \in DOMAIN next : g[i] = 0
      BY <1>1, <1>2
    <2>2. Await(next) = SumFunctionOnSet(g, DOMAIN next)
      BY <1>5, AwaitFacts
    <2> HIDE DEF g
    <2> QED
      BY <1>2, <2>1, <2>2, SumZero
  <1>7. ASSUME NEW c PROVE InAll(next, c) = InAll(table, c)
    <2>1. CASE \A i \in D : Peers(table[i].key) # c
      <3>1. \A i \in DOMAIN next : Peers(next[i].key) # c
        BY <1>1, <1>2, <2>1
      <3> QED
        BY <1>5, <2>1, <3>1, OneTerm DEF InAll
    <2>2. ASSUME NEW i \in D, Peers(table[i].key) = c PROVE InAll(next, c) = InAll(table, c)
      <3>1. i \in DOMAIN next /\ Peers(next[i].key) = c
        BY <1>1, <1>2, <2>2
      <3>2. InAll(next, c) = Packets(next[i]) /\ InAll(table, c) = Packets(table[i])
        BY <1>5, <2>2, <3>1, OneTerm DEF InAll
      <3> QED
        BY <1>1, <3>2
    <2> QED
      BY <2>1, <2>2
  <1> QED
    BY <1>4, <1>5, <1>6, <1>7 DEF next

\* sorted() has a first element: the least start, and the least index there.
LEMMA OldestFacts ==
    ASSUME NEW table, Table(table), Len(table) > 0
    PROVE  Oldest(table) \in DOMAIN table
  <1> DEFINE D == DOMAIN table
             starts == {table[i].start : i \in D}
  <1>1. D = 1 .. Len(table) /\ Len(table) \in Nat /\ \A i \in D : table[i].start \in Nat /\ i \in Nat
    BY TableFacts
  <1>2. starts \in SUBSET Nat /\ starts # {}
    BY <1>1
  <1>3. PICK m \in starts : \A n \in starts : m <= n
    <2> HIDE DEF starts
    <2> QED
      BY <1>2, NatMinimum
  <1> DEFINE first == {i \in D : table[i].start = m}
  <1>4. first \in SUBSET Nat /\ first # {}
    BY <1>1, <1>3
  <1>5. PICK i \in first : \A j \in first : i <= j
    <2> HIDE DEF first
    <2> QED
      BY <1>4, NatMinimum
  <1>6. ASSUME NEW j \in D
        PROVE  table[i].start < table[j].start \/ (table[i].start = table[j].start /\ i <= j)
    <2>1. table[i].start = m /\ table[j].start \in starts /\ m \in Nat /\ table[j].start \in Nat
      BY <1>1, <1>2, <1>5
    <2>2. m <= table[j].start
      BY <1>3, <2>1
    <2>3. CASE table[j].start = m
      BY <1>5, <2>1, <2>3
    <2>4. CASE table[j].start # m
      BY <2>1, <2>2, <2>4
    <2> QED
      BY <2>3, <2>4
  <1>7. i \in D
    BY <1>5
  <1> QED
    BY <1>6, <1>7 DEF Oldest

LEMMA RemoveFacts ==
    ASSUME NEW table, Table(table), NEW o \in DOMAIN table
    PROVE  /\ Table(RemoveAt(table, o)) /\ Len(RemoveAt(table, o)) = Len(table) - 1
           /\ Await(RemoveAt(table, o)) <= Await(table)
           /\ \A c : InAll(RemoveAt(table, o), c) = PacketsOf(table, DOMAIN table \ {o}, c)
  <1> DEFINE next == RemoveAt(table, o)
             n == Len(table)
             D == DOMAIN table
             E == DOMAIN next
             h == [k \in 1 .. (n - 1) |-> IF k < o THEN k ELSE k + 1]
  <1>1. n \in Nat /\ D = 1 .. n /\ IsFiniteSet(D) /\ table \in Seq(Flow) /\ o \in 1 .. n
    BY TableFacts DEF Table
  <1>2. next \in Seq(Flow) /\ Len(next) = n - 1 /\ E = 1 .. (n - 1)
        /\ \A k \in 1 .. (n - 1) : next[k] = table[IF k < o THEN k ELSE k + 1]
    <2> DEFINE s == SubSeq(table, 1, o - 1)
               t == SubSeq(table, o + 1, n)
    <2>1. s \in Seq(Flow) /\ Len(s) = o - 1 /\ \A k \in 1 .. (o - 1) : s[k] = table[k]
      BY <1>1
    <2>2. t \in Seq(Flow) /\ Len(t) = n - o /\ \A k \in 1 .. (n - o) : t[k] = table[o + k]
      BY <1>1
    <2>3. next = s \o t
      BY DEF RemoveAt
    <2> HIDE DEF s, t, next
    <2>4. next \in Seq(Flow) /\ Len(next) = n - 1 /\ E = 1 .. (n - 1)
      <3>0. s \in Seq(Flow) /\ t \in Seq(Flow)
        BY <2>1, <2>2
      <3>1. next \in Seq(Flow) /\ Len(next) = Len(s) + Len(t)
        BY <2>3, <3>0, ConcatProperties
      <3>2. Len(s) + Len(t) = n - 1
        BY <1>1, <2>1, <2>2
      <3>3. DOMAIN next = 1 .. Len(next)
        BY <3>1
      <3> QED
        BY <3>1, <3>2, <3>3
    <2>5. ASSUME NEW k \in 1 .. (n - 1) PROVE next[k] = table[IF k < o THEN k ELSE k + 1]
      <3>1. CASE k < o
        BY <1>1, <2>1, <2>2, <2>3, <3>1
      <3>2. CASE ~(k < o)
        <4>1. next[k] = t[k - (o - 1)] /\ k - (o - 1) \in 1 .. (n - o)
          BY <1>1, <2>1, <2>2, <2>3, <3>2, SMTT(30)
        <4>2. t[k - (o - 1)] = table[o + (k - (o - 1))] /\ o + (k - (o - 1)) = k + 1
          BY <1>1, <2>2, <4>1
        <4> QED
          BY <3>2, <4>1, <4>2
      <3> QED
        BY <3>1, <3>2
    <2> QED
      BY <2>4, <2>5
  <1> HIDE DEF next
  <1>3. /\ h \in [E -> D \ {o}]
        /\ \A k \in E : h[k] \in D \ {o} /\ next[k] = table[h[k]]
        /\ \A j, k \in E : h[j] = h[k] => j = k
        /\ \A i \in D \ {o} : \E k \in E : h[k] = i
    <2>1. \A k \in E : h[k] = (IF k < o THEN k ELSE k + 1) /\ h[k] \in D \ {o}
      BY <1>1, <1>2
    <2>2. h \in [E -> D \ {o}]
      BY <1>2, <2>1
    <2>3. \A j, k \in E : h[j] = h[k] => j = k
      BY <1>1, <1>2, <2>1
    <2>4. ASSUME NEW i \in D \ {o} PROVE \E k \in E : h[k] = i
      <3>1. CASE i < o
        <4>1. i \in E /\ h[i] = i
          BY <1>1, <1>2, <2>1, <3>1
        <4> QED
          BY <4>1
      <3>2. CASE ~(i < o)
        <4>1. i - 1 \in E
          BY <1>1, <1>2, <3>2
        <4>2. h[i - 1] = i
          BY <1>1, <2>1, <3>2, <4>1
        <4> QED
          BY <4>1, <4>2
      <3> QED
        BY <3>1, <3>2
    <2>5. \A k \in E : next[k] = table[h[k]]
      BY <1>2, <2>1
    <2> HIDE DEF h, E
    <2> QED
      BY <2>1, <2>2, <2>3, <2>4, <2>5
  <1> HIDE DEF h
  <1>4. Table(next)
    <2>1. \A k \in E : Packets(next[k]) >= next[k].unsent
      BY <1>3 DEF Table
    <2>2. ASSUME NEW j \in E, NEW k \in E, Peers(next[j].key) = Peers(next[k].key) PROVE j = k
      <3>1. h[j] = h[k]
        BY <1>3, <2>2 DEF Table
      <3> QED
        BY <1>3, <3>1
    <2> QED
      BY <1>2, <2>1, <2>2 DEF Table
  <1>5. Await(next) <= Await(table)
    <2> DEFINE f == [i \in DOMAIN table |-> table[i].unsent]
               g == [i \in DOMAIN next |-> next[i].unsent]
    <2>1. Await(table) = SumFunctionOnSet(f, D) /\ Await(next) = SumFunctionOnSet(g, E)
      BY <1>4, AwaitFacts
    <2>2. \A i \in D : f[i] = table[i].unsent /\ f[i] \in Nat
      BY TableFacts
    <2>3. \A k \in E : g[k] = next[k].unsent /\ g[k] \in Nat
      BY <1>4, TableFacts
    <2> HIDE DEF f, g
    <2>4. \A k \in E : g[k] <= f[h[k]]
      BY <1>3, <2>2, <2>3
    <2>5. IsFiniteSet(E) /\ h \in [E -> D]
      BY <1>3, <1>4, TableFacts
    <2> QED
      BY <1>1, <1>3, <2>1, <2>2, <2>3, <2>4, <2>5, SumMoved
  <1>6. ASSUME NEW c PROVE InAll(next, c) = PacketsOf(table, D \ {o}, c)
    <2>0. D \ {o} \in SUBSET DOMAIN table
      OBVIOUS
    <2>1. CASE \A i \in D \ {o} : Peers(table[i].key) # c
      <3>1. \A k \in E : Peers(next[k].key) # c
        BY <1>3, <2>1
      <3>2. InAll(next, c) = 0
        BY <1>4, <3>1, OneTerm DEF InAll
      <3>3. PacketsOf(table, D \ {o}, c) = 0
        BY <2>0, <2>1, OneTerm
      <3> QED
        BY <3>2, <3>3
    <2>2. ASSUME NEW i \in D \ {o}, Peers(table[i].key) = c
          PROVE  InAll(next, c) = PacketsOf(table, D \ {o}, c)
      <3>1. PICK k \in E : h[k] = i
        BY <1>3
      <3>2. next[k] = table[i]
        BY <1>3, <3>1
      <3>3. InAll(next, c) = Packets(next[k])
        BY <1>4, <2>2, <3>2, OneTerm DEF InAll
      <3>4. PacketsOf(table, D \ {o}, c) = Packets(table[i])
        BY <2>0, <2>2, OneTerm
      <3> QED
        BY <3>2, <3>3, <3>4
    <2> QED
      BY <2>1, <2>2
  <1> QED
    BY <1>2, <1>4, <1>5, <1>6 DEF next

\* The table within the cap again, and what left it.
LEMMA EvictFacts ==
    ASSUME NEW table, Table(table), Len(table) <= MaxFlows + 1
    PROVE  /\ Table(Remaining(table)) /\ Len(Remaining(table)) <= MaxFlows
           /\ Await(Remaining(table)) <= Await(table)
           /\ Evicted(table) \in SUBSET DOMAIN table
           /\ \A c : InAll(Remaining(table), c) = PacketsOf(table, DOMAIN table \ Evicted(table), c)
  <1>0. MaxFlows \in Nat \ {0} /\ Len(table) \in Nat /\ Await(table) \in Nat
    BY PcapAssumption, TableFacts, AwaitFacts
  <1>1. CASE Len(table) > MaxFlows
    <2> DEFINE o == Oldest(table)
    <2>1. o \in DOMAIN table
      BY <1>0, <1>1, OldestFacts
    <2>2. Evicted(table) = {o} /\ Remaining(table) = RemoveAt(table, o)
      BY <1>1 DEF Evicted, Remaining
    <2> HIDE DEF o
    <2>3. Len(Remaining(table)) = Len(table) - 1
      BY <2>1, <2>2, RemoveFacts
    <2>4. Len(Remaining(table)) <= MaxFlows
      BY <1>0, <2>3
    <2> QED
      BY <2>1, <2>2, <2>4, RemoveFacts
  <1>2. CASE ~(Len(table) > MaxFlows)
    <2>1. Evicted(table) = {} /\ Remaining(table) = table
      BY <1>2 DEF Evicted, Remaining
    <2>2. DOMAIN table \ {} = DOMAIN table
      OBVIOUS
    <2> QED
      BY <1>0, <1>2, <2>1, <2>2 DEF InAll
  <1> QED
    BY <1>1, <1>2

LEMMA ModFacts ==
    ASSUME NEW n \in Nat, NEW p \in Nat \ {0}
    PROVE  /\ n % p \in 0 .. (p - 1)
           /\ (n + 1) % p # 0 => (n + 1) % p = (n % p) + 1
  <1> DEFINE q == n \div p
             r == n % p
             u == (n + 1) \div p
             v == (n + 1) % p
             d == u - q
  <1>1. q \in Int /\ r \in 0 .. (p - 1) /\ n = p * q + r
    OBVIOUS
  <1>2. u \in Int /\ v \in 0 .. (p - 1) /\ n + 1 = p * u + v
    OBVIOUS
  <1> HIDE DEF q, r, u, v
  <1>3. d \in Int /\ p * d = r + 1 - v
    BY <1>1, <1>2
  <1> HIDE DEF d
  <1>4. ASSUME v # 0 PROVE d = 0
    <2>1. r + 1 - v < p /\ r + 1 - v > -p
      BY <1>1, <1>2, <1>4
    <2>2. d >= 1 => p * d >= p
      BY <1>3
    <2>3. d <= -1 => p * d <= -p
      BY <1>3
    <2> QED
      BY <1>3, <2>1, <2>2, <2>3
  <1>5. v # 0 => v = r + 1
    BY <1>1, <1>2, <1>3, <1>4
  <1> QED
    BY <1>1, <1>5 DEF r, v

-----------------------------------------------------------------------------
(***************************************************************************)
(* The invariant: one entry per conversation, every packet accounted for,  *)
(* and no more packets awaiting their first emission than were read since  *)
(* the last Period-th one.                                                 *)
(***************************************************************************)
PendingOK == ~skipped => Await(flows) <= count % Period

PassInv ==
    /\ TypeOK /\ OneEntryPerConversation /\ PendingOK
    /\ \A c \in Conversations : counted[c] = reported[c] + lost[c] + InTable(c)
    /\ run = "done" => flows = <<>>

LEMMA PassFacts ==
    ASSUME PassInv
    PROVE  /\ Table(flows) /\ Len(flows) \in 0 .. MaxFlows /\ \A c : InTable(c) = InAll(flows, c)
           /\ count \in Nat /\ MaxPackets \in Nat /\ Period \in Nat \ {0} /\ MaxFlows \in Nat
  BY PcapAssumption DEF PassInv, TypeOK, OneEntryPerConversation, Table, InTable, InAll

LEMMA EmptyTable == Table(<<>>) /\ Await(<<>>) = 0 /\ \A c : InAll(<<>>, c) = 0
  <1>1. Table(<<>>)
    BY DEF Table
  <1>2. DOMAIN <<>> = {}
    OBVIOUS
  <1>3. ASSUME NEW c PROVE InAll(<<>>, c) = 0
    BY <1>1, <1>2, OneTerm DEF InAll
  <1>4. Await(<<>>) = 0
    BY <1>1, <1>2, AwaitFacts, SumEmpty
  <1> QED
    BY <1>1, <1>3, <1>4

LEMMA PassInit == Init => PassInv
  <1> SUFFICES ASSUME Init PROVE PassInv
    OBVIOUS
  <1> USE PcapAssumption DEF Init
  <1>1. TypeOK /\ OneEntryPerConversation
    <2>1. flows \in Seq(Flow) /\ Len(flows) = 0 /\ DOMAIN flows = {}
      OBVIOUS
    <2>2. count \in 0 .. MaxPackets /\ Len(flows) <= MaxFlows
      BY <2>1
    <2>3. [c \in Conversations |-> 0] \in [Conversations -> Nat]
      OBVIOUS
    <2> QED
      BY <2>1, <2>2, <2>3 DEF TypeOK, OneEntryPerConversation
  <1>2. Await(flows) <= count % Period
    BY EmptyTable, ModFacts
  <1>3. \A c \in Conversations : InTable(c) = 0
    BY EmptyTable DEF InTable, InAll
  <1> QED
    BY <1>1, <1>2, <1>3 DEF PassInv, PendingOK

\* A last emission moves packets of the table to what was sent or lost.
LEMMA EmitFacts ==
    ASSUME PassInv, NEW table, Table(table), NEW places \in SUBSET DOMAIN table, EmitLast(table, places)
    PROVE  /\ reported' \in [Conversations -> Nat] /\ lost' \in [Conversations -> Nat]
           /\ \A c \in Conversations :
                 reported'[c] + lost'[c] = reported[c] + lost[c] + PacketsOf(table, places, c)
  <1>1. PICK sent \in SUBSET places :
          /\ reported' = [c \in Conversations |-> reported[c] + PacketsOf(table, sent, c)]
          /\ lost' = [c \in Conversations |-> lost[c] + PacketsOf(table, places \ sent, c)]
    BY DEF EmitLast
  <1>2. ASSUME NEW c \in Conversations
        PROVE  /\ PacketsOf(table, places, c) = PacketsOf(table, sent, c) + PacketsOf(table, places \ sent, c)
               /\ PacketsOf(table, sent, c) \in Nat /\ PacketsOf(table, places \ sent, c) \in Nat
    BY PacketsSplit
  <1>3. \A c \in Conversations : reported[c] \in Nat /\ lost[c] \in Nat
    BY DEF PassInv, TypeOK
  <1>4. ASSUME NEW c \in Conversations
        PROVE  /\ reported'[c] \in Nat /\ lost'[c] \in Nat
               /\ reported'[c] + lost'[c] = reported[c] + lost[c] + PacketsOf(table, places, c)
    <2>1. /\ reported'[c] = reported[c] + PacketsOf(table, sent, c)
          /\ lost'[c] = lost[c] + PacketsOf(table, places \ sent, c)
      BY <1>1
    <2> DEFINE x == PacketsOf(table, sent, c)
               y == PacketsOf(table, places \ sent, c)
    <2>2. x \in Nat /\ y \in Nat /\ PacketsOf(table, places, c) = x + y
      BY <1>2
    <2>3. reported[c] \in Nat /\ lost[c] \in Nat
      BY <1>3
    <2> HIDE DEF x, y
    <2>4. reported'[c] = reported[c] + x /\ lost'[c] = lost[c] + y
      BY <2>1 DEF x, y
    <2> QED
      BY <2>2, <2>3, <2>4
  <1>5. /\ reported' = [c \in Conversations |-> reported'[c]]
        /\ lost' = [c \in Conversations |-> lost'[c]]
    BY <1>1
  <1> QED
    BY <1>4, <1>5

LEMMA PacketStep ==
    ASSUME PassInv, NEW key \in Keys, NEW time \in 0 .. MaxTime, Packet(key, time)
    PROVE  PassInv'
  <1> DEFINE table == Count(flows, key, time)
             seen == IF IsBeat(count + 1) THEN Snapshot(table) ELSE table
             gone == Evicted(seen)
             one(c) == IF c = Peers(key) THEN 1 ELSE 0
  <1>0. /\ Table(flows) /\ Len(flows) \in 0 .. MaxFlows /\ \A c : InTable(c) = InAll(flows, c)
        /\ count \in Nat /\ MaxPackets \in Nat /\ Period \in Nat \ {0} /\ MaxFlows \in Nat /\ time \in Nat
        /\ Await(flows) \in Nat
    <2>1. time \in Nat
      BY PcapAssumption
    <2> QED
      BY <2>1, PassFacts, AwaitFacts
  <1>1. /\ run = "reading" /\ count < MaxPackets /\ count' = count + 1
        /\ counted' = [counted EXCEPT ![Peers(key)] = @ + 1]
        /\ EmitLast(seen, gone) /\ flows' = Remaining(seen) /\ run' = run /\ skipped' = skipped
    BY DEF Packet
  <1>2. OneMore(flows, table, key)
    BY <1>0, CountFacts
  <1> HIDE DEF table
  <1>3. /\ Table(seen) /\ Len(seen) <= MaxFlows + 1
        /\ Await(seen) = (IF IsBeat(count + 1) THEN 0 ELSE Await(flows) + 1)
        /\ \A c : InAll(seen, c) = InAll(flows, c) + one(c)
    <2>1. /\ Table(table) /\ Len(table) <= MaxFlows + 1 /\ Await(table) = Await(flows) + 1
          /\ \A c : InAll(table, c) = InAll(flows, c) + one(c)
      <3>1. Table(table) /\ Len(table) <= Len(flows) + 1
        BY <1>2 DEF OneMore
      <3>2. Len(table) \in Nat
        BY <3>1, TableFacts
      <3>3. Len(table) <= MaxFlows + 1
        BY <1>0, <3>1, <3>2
      <3> QED
        BY <1>2, <3>1, <3>3 DEF OneMore
    <2> QED
      BY <2>1, SnapshotFacts
  <1> HIDE DEF seen
  <1>4. /\ Table(flows') /\ Len(flows') <= MaxFlows /\ Await(flows') <= Await(seen)
        /\ gone \in SUBSET DOMAIN seen
        /\ \A c : InAll(flows', c) = PacketsOf(seen, DOMAIN seen \ gone, c)
    BY <1>1, <1>3, EvictFacts
  <1> HIDE DEF gone
  <1>5. /\ reported' \in [Conversations -> Nat] /\ lost' \in [Conversations -> Nat]
        /\ \A c \in Conversations :
              reported'[c] + lost'[c] = reported[c] + lost[c] + PacketsOf(seen, gone, c)
    BY <1>1, <1>3, <1>4, EmitFacts
  <1>6. Peers(key) \in Conversations /\ counted \in [Conversations -> Nat]
        /\ \A c \in Conversations : counted'[c] = counted[c] + one(c)
    <2>1. Peers(key) \in Conversations /\ counted \in [Conversations -> Nat]
      BY DEF Conversations, PassInv, TypeOK
    <2> QED
      BY <1>1, <2>1
  <1>7. TypeOK'
    <2>1. flows' \in Seq(Flow) /\ \A i \in DOMAIN flows' : Packets(flows'[i]) >= flows'[i].unsent
      BY <1>4 DEF Table
    <2>2. count' \in 0 .. MaxPackets
      BY <1>0, <1>1
    <2>3. counted' \in [Conversations -> Nat]
      BY <1>1, <1>6
    <2>4. run \in {"reading", "done", "failed"} /\ skipped \in BOOLEAN
      BY DEF PassInv, TypeOK
    <2> QED
      BY <1>1, <1>4, <1>5, <2>1, <2>2, <2>3, <2>4 DEF TypeOK, Packets
  <1>8. OneEntryPerConversation'
    BY <1>4 DEF Table, OneEntryPerConversation
  <1>9. PendingOK'
    <2> SUFFICES ASSUME ~skipped PROVE Await(flows') <= (count + 1) % Period
      BY <1>1 DEF PendingOK, Await
    <2>1. Await(flows) <= count % Period
      BY DEF PassInv, PendingOK
    <2>2. Await(flows') \in Nat /\ Await(seen) \in Nat
      BY <1>3, <1>4, AwaitFacts
    <2>3. CASE IsBeat(count + 1)
      BY <1>3, <1>4, <2>2, <2>3 DEF IsBeat
    <2>4. CASE ~IsBeat(count + 1)
      <3>1. count % Period \in Nat /\ (count + 1) % Period = (count % Period) + 1
        <4>1. (count + 1) % Period # 0
          BY <2>4 DEF IsBeat
        <4>2. count % Period \in 0 .. (Period - 1) /\ (count + 1) % Period = (count % Period) + 1
          BY <1>0, <4>1, ModFacts
        <4> QED
          BY <4>2
      <3> QED
        BY <1>0, <1>3, <1>4, <2>1, <2>2, <2>4, <3>1
    <2> QED
      BY <2>3, <2>4
  <1>10. ASSUME NEW c \in Conversations
         PROVE  counted'[c] = reported'[c] + lost'[c] + InTable(c)'
    <2>1. InTable(c)' = InAll(flows', c)
      BY DEF InTable, InAll
    <2>2. /\ InAll(seen, c) = PacketsOf(seen, gone, c) + InAll(flows', c)
          /\ PacketsOf(seen, gone, c) \in Nat /\ InAll(flows', c) \in Nat
      <3> DEFINE all == DOMAIN seen
      <3>1. /\ PacketsOf(seen, all, c) = PacketsOf(seen, gone, c) + PacketsOf(seen, all \ gone, c)
            /\ PacketsOf(seen, gone, c) \in Nat /\ PacketsOf(seen, all \ gone, c) \in Nat
        <4>1. Table(seen) /\ gone \in SUBSET all /\ all \in SUBSET DOMAIN seen
          BY <1>3, <1>4
        <4> QED
          BY <4>1, PacketsSplit
      <3>2. InAll(flows', c) = PacketsOf(seen, all \ gone, c) /\ InAll(seen, c) = PacketsOf(seen, all, c)
        BY <1>4 DEF InAll
      <3> QED
        BY <3>1, <3>2
    <2>3. counted[c] = reported[c] + lost[c] + InAll(flows, c)
      BY <1>0 DEF PassInv
    <2>4. /\ reported[c] \in Nat /\ lost[c] \in Nat /\ reported'[c] \in Nat /\ lost'[c] \in Nat
          /\ InAll(flows, c) \in Nat /\ one(c) \in Nat
      BY <1>0, <1>5, OneTerm DEF PassInv, TypeOK, InAll
    <2> HIDE DEF one
    <2>5. InAll(seen, c) = InAll(flows, c) + one(c) /\ counted'[c] = counted[c] + one(c)
          /\ reported'[c] + lost'[c] = reported[c] + lost[c] + PacketsOf(seen, gone, c)
      BY <1>3, <1>5, <1>6
    <2> QED
      BY <2>1, <2>2, <2>3, <2>4, <2>5
  <1> QED
    BY <1>1, <1>7, <1>8, <1>9, <1>10 DEF PassInv

LEMMA SkipStep ==
    ASSUME PassInv, Skip
    PROVE  PassInv'
  <1>0. count \in Nat /\ MaxPackets \in Nat /\ Period \in Nat \ {0} /\ Await(flows) \in Nat
    BY PassFacts, AwaitFacts
  <1>1. /\ run = "reading" /\ count < MaxPackets /\ count' = count + 1
        /\ skipped' = (skipped \/ IsBeat(count + 1))
        /\ UNCHANGED <<run, flows, counted, reported, lost>>
    BY DEF Skip
  <1>2. TypeOK'
    <2>1. count' \in 0 .. MaxPackets /\ skipped' \in BOOLEAN
      BY <1>0, <1>1
    <2> QED
      BY <1>1, <2>1 DEF PassInv, TypeOK, Packets
  <1>3. OneEntryPerConversation'
    BY <1>1 DEF PassInv, OneEntryPerConversation
  <1>4. PendingOK'
    <2> SUFFICES ASSUME ~skipped, ~IsBeat(count + 1) PROVE Await(flows) <= (count + 1) % Period
      BY <1>1 DEF PendingOK, Await
    <2>1. Await(flows) <= count % Period
      BY DEF PassInv, PendingOK
    <2>2. count % Period \in Nat /\ (count + 1) % Period = (count % Period) + 1
      <3>1. (count + 1) % Period # 0
        BY DEF IsBeat
      <3>2. count % Period \in 0 .. (Period - 1) /\ (count + 1) % Period = (count % Period) + 1
        BY <1>0, <3>1, ModFacts
      <3> QED
        BY <3>2
    <2> QED
      BY <1>0, <2>1, <2>2
  <1>5. \A c \in Conversations : counted'[c] = reported'[c] + lost'[c] + InTable(c)'
    BY <1>1 DEF PassInv, InTable
  <1> QED
    BY <1>1, <1>2, <1>3, <1>4, <1>5 DEF PassInv

LEMMA FlushStep ==
    ASSUME PassInv, FinalFlush
    PROVE  PassInv'
  <1>0. Table(flows) /\ (\A c : InTable(c) = InAll(flows, c)) /\ MaxFlows \in Nat
        /\ count \in Nat /\ Period \in Nat \ {0}
    BY PassFacts
  <1>1. /\ run' \in {"done", "failed"} /\ EmitLast(flows, DOMAIN flows) /\ flows' = <<>>
        /\ UNCHANGED <<count, counted, skipped>>
    BY DEF FinalFlush
  <1>2. /\ reported' \in [Conversations -> Nat] /\ lost' \in [Conversations -> Nat]
        /\ \A c \in Conversations :
              reported'[c] + lost'[c] = reported[c] + lost[c] + InAll(flows, c)
    BY <1>0, <1>1, EmitFacts DEF InAll
  <1>3. TypeOK' /\ OneEntryPerConversation'
    BY <1>0, <1>1, <1>2 DEF PassInv, TypeOK, OneEntryPerConversation
  <1>4. PendingOK'
    <2>1. Await(flows') = 0 /\ count % Period \in Nat
      BY <1>0, <1>1, EmptyTable, ModFacts
    <2>2. Await(flows)' = Await(flows')
      BY DEF Await
    <2> QED
      BY <1>1, <2>1, <2>2 DEF PendingOK
  <1>5. ASSUME NEW c \in Conversations
        PROVE  counted'[c] = reported'[c] + lost'[c] + InTable(c)'
    <2>1. InTable(c)' = 0
      BY <1>1, EmptyTable DEF InTable, InAll
    <2>2. counted[c] = reported[c] + lost[c] + InAll(flows, c)
      BY <1>0 DEF PassInv
    <2>3. reported'[c] \in Nat /\ lost'[c] \in Nat
      BY <1>2
    <2> QED
      BY <1>1, <1>2, <2>1, <2>2, <2>3
  <1> QED
    BY <1>1, <1>3, <1>4, <1>5 DEF PassInv

LEMMA PassNext == PassInv /\ [Next]_vars => PassInv'
  <1> SUFFICES ASSUME PassInv, [Next]_vars PROVE PassInv'
    OBVIOUS
  <1>1. ASSUME NEW key \in Keys, NEW time \in 0 .. MaxTime, Packet(key, time) PROVE PassInv'
    BY <1>1, PacketStep
  <1>2. CASE Skip
    BY <1>2, SkipStep
  <1>3. CASE FinalFlush
    BY <1>3, FlushStep
  <1>4. CASE ReaderFails
    BY <1>4 DEF ReaderFails, PassInv, TypeOK, OneEntryPerConversation, PendingOK, Await, InTable, Packets
  <1>5. CASE UNCHANGED vars
    BY <1>5 DEF vars, PassInv, TypeOK, OneEntryPerConversation, PendingOK, Await, InTable, Packets
  <1> QED
    BY <1>1, <1>2, <1>3, <1>4, <1>5 DEF Next

LEMMA PassInvariant == Spec => []PassInv
  BY PassInit, PassNext, PTL DEF Spec

(***************************************************************************)
(* Between packets the flow table is within MAX_FLOWS and well formed,     *)
(* whatever the capture.                                                   *)
(***************************************************************************)
THEOREM PcapTypeOK == Spec => []TypeOK
  <1>1. PassInv => TypeOK
    BY DEF PassInv
  <1> QED
    BY <1>1, PassInvariant, PTL

(***************************************************************************)
(* The two directions of a conversation never occupy two entries of the    *)
(* flow table, in whichever order packets, evictions and replies come.     *)
(***************************************************************************)
THEOREM PcapOneEntryPerConversation == Spec => []OneEntryPerConversation
  <1>1. PassInv => OneEntryPerConversation
    BY DEF PassInv
  <1> QED
    BY <1>1, PassInvariant, PTL

(***************************************************************************)
(* ingest_pcap counts no packet twice and mislays none: all that was       *)
(* counted for two endpoints is in the table, or was in the last emission  *)
(* of exactly one flow, and after the final flush all of it was.           *)
(***************************************************************************)
THEOREM PcapPacketsAccounted == Spec => []PacketsAccounted
  <1>1. PassInv => PacketsAccounted
    <2> SUFFICES ASSUME PassInv PROVE PacketsAccounted
      OBVIOUS
    <2>1. \A c \in Conversations : counted[c] = reported[c] + lost[c] + InTable(c)
      BY DEF PassInv
    <2>2. ASSUME run = "done", NEW c \in Conversations PROVE counted[c] = reported[c] + lost[c]
      <3>1. InTable(c) = 0
        BY <2>2, EmptyTable DEF PassInv, InTable, InAll
      <3>2. reported[c] \in Nat /\ lost[c] \in Nat
        BY DEF PassInv, TypeOK
      <3> QED
        BY <2>1, <3>1, <3>2
    <2> QED
      BY <2>1, <2>2 DEF PacketsAccounted
  <1> QED
    BY <1>1, PassInvariant, PTL

(***************************************************************************)
(* Fewer than Period packets of live flows await their first emission,     *)
(* unless a Period-th packet of the capture was one that ingest_pcap       *)
(* skips.                                                                  *)
(***************************************************************************)
THEOREM PcapSnapshotsAreRegular == Spec => []SnapshotsAreRegular
  <1>1. PassInv => SnapshotsAreRegular
    <2> SUFFICES ASSUME PassInv, ~skipped PROVE Await(flows) < Period
      BY DEF SnapshotsAreRegular, Await
    <2>1. count \in Nat /\ Period \in Nat \ {0} /\ Await(flows) \in Nat
      BY PassFacts, AwaitFacts
    <2>2. Await(flows) <= count % Period /\ count % Period \in 0 .. (Period - 1)
      BY <2>1, ModFacts DEF PassInv, PendingOK
    <2> QED
      BY <2>1, <2>2
  <1> QED
    BY <1>1, PassInvariant, PTL

-----------------------------------------------------------------------------
(***************************************************************************)
(* The log tailer.                                                         *)
(***************************************************************************)
\* A line in hand was read, and is where its validity sends it.
HandInv ==
    \A f \in Logs :
        /\ reader[f] \in {"parsing", "publishing", "rejecting"} => pos[f] >= 1
        /\ reader[f] = "publishing" => Valid(Kind(f))
        /\ reader[f] = "rejecting" => ~Valid(Kind(f))

TailInv == TailerTypeOK /\ HandInv /\ NoLineDropped

LEMMA TailInitInv == TailerInit => TailInv
  BY TailerAssumption DEF TailerInit, TailInv, TailerTypeOK, HandInv, NoLineDropped, Topics

\* What a step of the reader of f must show.  The lines before the one it
\* moves past keep their traces; the one it lets go of has one.
LEMMA ReaderStep ==
    ASSUME TailInv, NEW f \in Logs, process # "exited", TailerTypeOK', HandInv',
           log' = log, process' = process,
           buffered \subseteq buffered', topics' = topics, undelivered' = undelivered,
           printed \subseteq printed',
           \A g \in Logs \ {f} : pos'[g] = pos[g] /\ reader'[g] = reader[g],
           pos'[f] \in {pos[f], pos[f] + 1},
           \A n \in 1 .. pos'[f] : n > pos[f] \/ InHand(f, n) => Traced(f, n)' \/ InHand(f, n)'
    PROVE  TailInv'
  <1> SUFFICES ASSUME NEW g \in Logs, NEW n \in 1 .. pos'[g]
               PROVE  Traced(g, n)' \/ InHand(g, n)'
    BY DEF TailInv, NoLineDropped
  <1>1. Traced(g, n) => Traced(g, n)'
    BY DEF Traced
  <1>2. pos[g] \in Nat /\ pos'[g] \in Nat /\ pos[f] \in Nat /\ n \in Nat
    BY DEF TailInv, TailerTypeOK
  <1>3. CASE g # f
    <2>1. n \in 1 .. pos[g] /\ (InHand(g, n) => InHand(g, n)')
      BY <1>3 DEF InHand
    <2> QED
      BY <2>1, <1>1 DEF TailInv, NoLineDropped
  <1>4. CASE g = f
    <2>1. CASE n > pos[f] \/ InHand(f, n)
      BY <2>1, <1>4
    <2>2. CASE ~(n > pos[f]) /\ ~InHand(f, n)
      BY <2>2, <1>1, <1>2, <1>4 DEF TailInv, NoLineDropped
    <2> QED
      BY <2>1, <2>2
  <1> QED
    BY <1>3, <1>4

LEMMA TailNextInv == TailInv /\ [TailerNext]_tailerVars => TailInv'
  <1> SUFFICES ASSUME TailInv, [TailerNext]_tailerVars PROVE TailInv'
    OBVIOUS
  <1> USE TailerAssumption
  <1>i. TailerTypeOK /\ HandInv /\ NoLineDropped
    BY DEF TailInv
  <1>1. ASSUME NEW f \in Logs, LoopHead(f) PROVE TailInv'
    <2>1. TailerTypeOK' /\ HandInv'
      BY <1>1, <1>i DEF LoopHead, Goto, TailerTypeOK, HandInv, Kind
    <2>2. /\ \A g \in Logs \ {f} : pos'[g] = pos[g] /\ reader'[g] = reader[g]
          /\ pos'[f] = pos[f] /\ \A n \in 1 .. pos'[f] : ~(n > pos[f]) /\ ~InHand(f, n)
      BY <1>1, <1>i DEF LoopHead, Goto, InHand, TailerTypeOK
    <2> QED
      BY <1>1, <2>1, <2>2, ReaderStep DEF LoopHead
  <1>2. ASSUME NEW f \in Logs, ReadLine(f) PROVE TailInv'
    <2>1. /\ pos[f] \in Nat /\ pos'[f] = pos[f] + 1 /\ pos[f] + 1 <= Len(log[f])
          /\ log' = log /\ \A g \in Logs \ {f} : pos'[g] = pos[g] /\ reader'[g] = reader[g]
          /\ reader'[f] = IF log[f][pos[f] + 1] = "blank" THEN "head" ELSE "parsing"
      BY <1>2, <1>i DEF ReadLine, NextLine, Goto, TailerTypeOK
    <2>2. TailerTypeOK' /\ HandInv'
      BY <1>2, <1>i, <2>1 DEF ReadLine, NextLine, Goto, TailerTypeOK, HandInv, Kind
    <2>3. ASSUME NEW n \in 1 .. pos'[f], n > pos[f] \/ InHand(f, n)
          PROVE  Traced(f, n)' \/ InHand(f, n)'
      BY <1>2, <2>1, <2>3 DEF ReadLine, InHand, Traced
    <2> QED
      BY <1>2, <2>1, <2>2, <2>3, ReaderStep DEF ReadLine
  <1>3. ASSUME NEW f \in Logs, EmptyRead(f) PROVE TailInv'
    <2>1. TailerTypeOK' /\ HandInv'
      BY <1>3, <1>i DEF EmptyRead, Goto, TailerTypeOK, HandInv, Kind
    <2>2. /\ \A g \in Logs \ {f} : pos'[g] = pos[g] /\ reader'[g] = reader[g]
          /\ pos'[f] = pos[f] /\ \A n \in 1 .. pos'[f] : ~(n > pos[f]) /\ ~InHand(f, n)
      BY <1>3, <1>i DEF EmptyRead, Goto, InHand, TailerTypeOK
    <2> QED
      BY <1>3, <2>1, <2>2, ReaderStep DEF EmptyRead
  <1>r. ASSUME NEW f \in Logs, ReadRaises(f) PROVE TailInv'
    <2>1. TailerTypeOK' /\ HandInv'
      BY <1>r, <1>i DEF ReadRaises, Goto, TailerTypeOK, HandInv, Kind
    <2>2. /\ \A g \in Logs \ {f} : pos'[g] = pos[g] /\ reader'[g] = reader[g]
          /\ pos'[f] = pos[f] /\ \A n \in 1 .. pos'[f] : ~(n > pos[f]) /\ ~InHand(f, n)
      BY <1>r, <1>i DEF ReadRaises, Goto, InHand, TailerTypeOK
    <2> QED
      BY <1>r, <2>1, <2>2, ReaderStep DEF ReadRaises
  <1>4. ASSUME NEW f \in Logs, Parse(f) PROVE TailInv'
    <2>1. TailerTypeOK' /\ HandInv'
      BY <1>4, <1>i DEF Parse, Route, Goto, TailerTypeOK, HandInv, Kind
    <2>2. \A g \in Logs \ {f} : pos'[g] = pos[g] /\ reader'[g] = reader[g]
      BY <1>4, <1>i DEF Parse, Goto, TailerTypeOK
    <2>3. ASSUME NEW n \in 1 .. pos'[f], n > pos[f] \/ InHand(f, n)
          PROVE  Traced(f, n)' \/ InHand(f, n)'
      BY <1>4, <1>i, <2>3 DEF Parse, Route, Goto, InHand, TailerTypeOK
    <2> QED
      BY <1>4, <2>1, <2>2, <2>3, ReaderStep DEF Parse
  <1>p. ASSUME NEW f \in Logs, ParseRaises(f) PROVE TailInv'
    <2>1. TailerTypeOK' /\ HandInv'
      BY <1>p, <1>i DEF ParseRaises, Goto, TailerTypeOK, HandInv, Kind
    <2>2. \A g \in Logs \ {f} : pos'[g] = pos[g] /\ reader'[g] = reader[g]
      BY <1>p, <1>i DEF ParseRaises, Goto, TailerTypeOK
    <2>3. Traced(f, pos[f])'
      BY <1>p DEF ParseRaises, Traced
    <2>4. \A n \in 1 .. pos'[f] : n > pos[f] \/ InHand(f, n) => Traced(f, n)'
      BY <1>p, <1>i, <2>3 DEF ParseRaises, InHand, TailerTypeOK
    <2> QED
      BY <1>p, <2>1, <2>2, <2>4, ReaderStep DEF ParseRaises
  <1>5. ASSUME NEW f \in Logs, Publish(f) PROVE TailInv'
    <2>1. TailerTypeOK' /\ HandInv'
      BY <1>5, <1>i DEF Publish, Goto, TailerTypeOK, HandInv, Kind, Topics
    <2>2. \A g \in Logs \ {f} : pos'[g] = pos[g] /\ reader'[g] = reader[g]
      BY <1>5, <1>i DEF Publish, Goto, TailerTypeOK
    <2>3. Traced(f, pos[f])'
      BY <1>5, <1>i DEF Publish, Traced, Destination, Kind, HandInv
    <2>4. \A n \in 1 .. pos'[f] : n > pos[f] \/ InHand(f, n) => Traced(f, n)'
      BY <1>5, <1>i, <2>3 DEF Publish, InHand, TailerTypeOK
    <2> QED
      BY <1>5, <2>1, <2>2, <2>4, ReaderStep DEF Publish
  <1>6. ASSUME NEW f \in Logs, PublishRaises(f) PROVE TailInv'
    <2>1. TailerTypeOK' /\ HandInv'
      BY <1>6, <1>i DEF PublishRaises, KeepsReading, Goto, TailerTypeOK, HandInv, Kind
    <2>2. \A g \in Logs \ {f} : pos'[g] = pos[g] /\ reader'[g] = reader[g]
      BY <1>6, <1>i DEF PublishRaises, Goto, TailerTypeOK
    <2>3. Traced(f, pos[f])'
      BY <1>6 DEF PublishRaises, Traced
    <2>4. \A n \in 1 .. pos'[f] : n > pos[f] \/ InHand(f, n) => Traced(f, n)'
      BY <1>6, <1>i, <2>3 DEF PublishRaises, InHand, TailerTypeOK
    <2> QED
      BY <1>6, <2>1, <2>2, <2>4, ReaderStep DEF PublishRaises
  <1>7. ASSUME NEW f \in Logs, Reject(f) PROVE TailInv'
    <2>1. TailerTypeOK' /\ HandInv'
      BY <1>7, <1>i DEF Reject, Goto, TailerTypeOK, HandInv, Kind, Topics
    <2>2. \A g \in Logs \ {f} : pos'[g] = pos[g] /\ reader'[g] = reader[g]
      BY <1>7, <1>i DEF Reject, Goto, TailerTypeOK
    <2>3. Traced(f, pos[f])'
      BY <1>7, <1>i DEF Reject, Traced, Destination, Kind, HandInv
    <2>4. \A n \in 1 .. pos'[f] : n > pos[f] \/ InHand(f, n) => Traced(f, n)'
      BY <1>7, <1>i, <2>3 DEF Reject, InHand, TailerTypeOK
    <2> QED
      BY <1>7, <2>1, <2>2, <2>4, ReaderStep DEF Reject
  <1>8. ASSUME NEW f \in Logs, RejectRaises(f) PROVE TailInv'
    <2>1. TailerTypeOK' /\ HandInv'
      BY <1>8, <1>i DEF RejectRaises, Goto, TailerTypeOK, HandInv, Kind
    <2>2. \A g \in Logs \ {f} : pos'[g] = pos[g] /\ reader'[g] = reader[g]
      BY <1>8, <1>i DEF RejectRaises, Goto, TailerTypeOK
    <2>3. Traced(f, pos[f])'
      BY <1>8 DEF RejectRaises, Traced
    <2>4. \A n \in 1 .. pos'[f] : n > pos[f] \/ InHand(f, n) => Traced(f, n)'
      BY <1>8, <1>i, <2>3 DEF RejectRaises, InHand, TailerTypeOK
    <2> QED
      BY <1>8, <2>1, <2>2, <2>4, ReaderStep DEF RejectRaises
  <1>9. ASSUME NEW f \in Logs, Stop(f) PROVE TailInv'
    <2>1. TailerTypeOK' /\ HandInv'
      BY <1>9, <1>i DEF Stop, Goto, TailerTypeOK, HandInv, Kind
    <2>2. /\ \A g \in Logs \ {f} : pos'[g] = pos[g] /\ reader'[g] = reader[g]
          /\ pos'[f] = pos[f] /\ \A n \in 1 .. pos'[f] : ~(n > pos[f]) /\ ~InHand(f, n)
      BY <1>9, <1>i DEF Stop, Goto, InHand, TailerTypeOK
    <2> QED
      BY <1>9, <2>1, <2>2, ReaderStep DEF Stop
  <1>10. ASSUME NEW f \in Logs, TailDies(f) PROVE TailInv'
    BY <1>10, <1>i DEF TailDies, TailInv, TailerTypeOK, HandInv, NoLineDropped, Traced,
       InHand, Kind
  <1>11. ASSUME NEW f \in Logs, NEW k \in LineKinds, WriteLine(f, k) PROVE TailInv'
    <2>1. /\ \A g \in Logs : log[g] \in Seq(LineKinds) /\ pos[g] \in Nat /\ pos[g] <= Len(log[g])
          /\ log' = [log EXCEPT ![f] = Append(log[f], k)]
          /\ UNCHANGED <<eof, reader, pos, buffered, topics, printed, undelivered, process>>
      BY <1>11, <1>i DEF WriteLine, TailerTypeOK
    <2>2. \A g \in Logs : Len(log'[g]) >= Len(log[g])
                          /\ \A n \in 1 .. pos[g] : log'[g][n] = log[g][n]
      BY <1>i, <2>1 DEF TailerTypeOK
    <2>3. TailerTypeOK'
      BY <1>i, <2>1, <2>2 DEF TailerTypeOK
    <2>4. HandInv'
      BY <1>i, <2>1, <2>2 DEF HandInv, Kind
    <2>5. ASSUME process # "exited", NEW g \in Logs, NEW n \in 1 .. pos[g]
          PROVE  Traced(g, n)' \/ InHand(g, n)'
      <3>1. Traced(g, n) \/ InHand(g, n)
        BY <1>i, <2>5 DEF NoLineDropped
      <3>2. log'[g][n] = log[g][n]
        BY <2>2
      <3>3. Traced(g, n) => Traced(g, n)'
        BY <2>1, <3>2 DEF Traced
      <3>4. InHand(g, n) => InHand(g, n)'
        BY <2>1 DEF InHand
      <3> QED
        BY <3>1, <3>3, <3>4
    <2>6. NoLineDropped'
      BY <2>1, <2>5 DEF NoLineDropped
    <2> QED
      BY <2>3, <2>4, <2>6 DEF TailInv
  <1>12. ASSUME NEW r \in buffered, Deliver(r) \/ ProducerGivesUp(r) PROVE TailInv'
    <2>1. /\ UNCHANGED <<eof, log, reader, pos, printed, process>>
          /\ buffered' \cup topics' \cup undelivered' = buffered \cup topics \cup undelivered
      BY <1>12 DEF Deliver, ProducerGivesUp
    <2> QED
      BY <1>i, <2>1 DEF TailInv, TailerTypeOK, HandInv, Kind, NoLineDropped, Traced,
         InHand
  <1>13. CASE Sigint
    BY <1>13, <1>i DEF Sigint, TailInv, TailerTypeOK, HandInv, NoLineDropped, Traced,
       InHand, Kind
  <1>14. CASE Exit
    BY <1>14, <1>i DEF Exit, TailInv, TailerTypeOK, HandInv, NoLineDropped, Kind
  <1>15. CASE UNCHANGED tailerVars
    BY <1>15, <1>i DEF tailerVars, TailInv, TailerTypeOK, HandInv, NoLineDropped, Traced,
       InHand, Kind
  <1> QED
    BY <1>1, <1>2, <1>3, <1>r, <1>4, <1>p, <1>5, <1>6, <1>7, <1>8, <1>9, <1>10, <1>11, <1>12, <1>13,
       <1>14, <1>15 DEF TailerNext, ProcessLog

LEMMA TailInvariant == TailerSpec => []TailInv
  <1>1. TailerInit => TailInv
    BY TailInitInv
  <1>2. TailInv /\ [TailerNext]_tailerVars => TailInv'
    BY TailNextInv
  <1> QED
    BY <1>1, <1>2, PTL DEF TailerSpec

(***************************************************************************)
(* Between the pipe and the topics no line is dropped: whatever the        *)
(* producer, the tails and a signal do, every line readline returned is    *)
(* blank, in hand, queued, delivered to the topic its validity calls for,  *)
(* reported, or known to be one the producer gave up on.                   *)
(***************************************************************************)
THEOREM TailerNoLineDropped == TailerSpec => []NoLineDropped
  <1>1. TailInv => NoLineDropped
    BY DEF TailInv
  <1>2. TailerSpec => []TailInv
    BY TailInvariant
  <1> QED
    BY <1>1, <1>2, PTL

-----------------------------------------------------------------------------
(***************************************************************************)
(* The dead-letter file.                                                   *)
(***************************************************************************)
\* A writer past Acquire holds the lock.
LockInv == \A w \in Writers : pc[w] # "idle" => lock = w

\* A file that does not exist has no entries.
PresentInv == \A k \in Gens : k \notin present => files[k] = {}

\* The loop has emptied the generation it is about to fill, unless that is the
\* last one.
ShiftInv ==
    \A w \in Writers :
        /\ pc[w] = "shift" => /\ gen[w] \in 0 .. (RotateCount - 1)
                              /\ gen[w] + 1 < RotateCount => files[gen[w] + 1] = {}
        /\ pc[w] = "swap" /\ 1 < RotateCount => files[1] = {}

\* Entries are numbers of past writes.
NumberInv ==
    /\ \A k \in Gens : \A x \in files[k] : x <= written
    /\ \A x \in discarded : x <= written

\* A generation with a larger number holds older entries: every os.replace
\* moves a file to the next generation.
GenerationsOrdered ==
    \A j, k \in Gens : j < k => \A x \in files[j], y \in files[k] : y < x

DlqInv ==
    /\ DlqTypeOK /\ LockInv /\ PresentInv /\ ShiftInv /\ NumberInv
    /\ GenerationsOrdered /\ OldestLostFirst

LEMMA DlqInitInv == DlqInit => DlqInv
  BY DlqAssumption DEF DlqInit, DlqInv, DlqTypeOK, LockInv, PresentInv, ShiftInv, NumberInv,
     GenerationsOrdered,
      OldestLostFirst, Gens

\* os.replace of file k keeps the order when the generation it fills is empty
\* or the last one.
LEMMA ReplaceFacts ==
    ASSUME DlqTypeOK, PresentInv, NumberInv, GenerationsOrdered,
           OldestLostFirst,
           NEW k \in 0 .. (RotateCount - 1),
           k + 1 < RotateCount => files[k + 1] = {},
           Replace(k), written' = written
    PROVE  /\ files' \in [Gens -> SUBSET Nat] /\ discarded' \subseteq Nat /\ present' \subseteq Gens
           /\ PresentInv' /\ NumberInv' /\ GenerationsOrdered' /\ OldestLostFirst'
           /\ discarded' \subseteq discarded \cup files[RotateCount]
           /\ files'[k] = {}
  <1> USE DlqAssumption
  <1>1. k \in Gens /\ k + 1 \in Gens /\ k \in Nat /\ RotateCount \in Gens
    BY DEF Gens
  <1>2. /\ files'[k + 1] = files[k] /\ files'[k] = {}
        /\ \A j \in Gens \ {k, k + 1} : files'[j] = files[j]
        /\ discarded' = discarded \cup files[k + 1]
        /\ present' = (present \ {k}) \cup {k + 1}
    BY <1>1 DEF Replace, DlqTypeOK
  <1>3. files' \in [Gens -> SUBSET Nat] /\ discarded' \subseteq Nat /\ present' \subseteq Gens
    <2>1. /\ files' = [files EXCEPT ![k + 1] = files[k], ![k] = {}]
          /\ files \in [Gens -> SUBSET Nat] /\ discarded \subseteq Nat /\ present \subseteq Gens
      BY DEF Replace, DlqTypeOK
    <2>2. files[k] \subseteq Nat /\ files[k + 1] \subseteq Nat
      BY <1>1, <2>1
    <2>3. files' \in [Gens -> SUBSET Nat]
      BY <2>1, <2>2
    <2>4. discarded' \subseteq Nat /\ present' \subseteq Gens
      BY <1>1, <1>2, <2>1, <2>2
    <2> QED
      BY <2>3, <2>4
  <1>4. PresentInv' /\ NumberInv'
    <2>1. PresentInv'
      BY <1>1, <1>2 DEF PresentInv
    <2>2. NumberInv'
      BY <1>1, <1>2 DEF NumberInv
    <2> QED
      BY <2>1, <2>2
  <1>5. discarded' \subseteq discarded \cup files[RotateCount]
    BY <1>1, <1>2
  <1>6. \A j \in Gens : files'[j] \subseteq Nat /\ files[j] \subseteq Nat
    BY <1>3 DEF DlqTypeOK
  <1>7. GenerationsOrdered'
    <2> SUFFICES ASSUME NEW j \in Gens, NEW l \in Gens, j < l,
                        NEW x \in files'[j], NEW y \in files'[l]
                 PROVE  y < x
      BY DEF GenerationsOrdered
    <2>1. j \in Nat /\ l \in Nat /\ x \in Nat /\ y \in Nat /\ j # k /\ l # k
      BY <1>2, <1>6 DEF Gens
    <2>2. CASE j = k + 1
      BY <2>1, <2>2, <1>1, <1>2 DEF GenerationsOrdered
    <2>3. CASE l = k + 1
      BY <2>1, <2>3, <1>1, <1>2 DEF GenerationsOrdered
    <2>4. CASE j # k + 1 /\ l # k + 1
      BY <2>1, <2>4, <1>2 DEF GenerationsOrdered
    <2> QED
      BY <2>2, <2>3, <2>4
  <1>8. OldestLostFirst'
    <2> SUFFICES ASSUME NEW x \in discarded', NEW j \in Gens, NEW y \in files'[j] PROVE x < y
      BY DEF OldestLostFirst
    <2>1. \E l \in Gens : y \in files[l] /\ (x \in files[k + 1] => l < k + 1)
      <3>1. CASE j = k + 1
        BY <3>1, <1>1, <1>2
      <3>2. CASE j # k + 1
        <4>1. y \in files[j] /\ j # k
          BY <3>2, <1>2
        <4>2. x \in files[k + 1] => k + 1 = RotateCount
          BY <1>1
        <4> QED
          BY <3>2, <4>1, <4>2, <1>1 DEF Gens
      <3> QED
        BY <3>1, <3>2
    <2>2. CASE x \in discarded
      BY <2>1, <2>2 DEF OldestLostFirst
    <2>3. CASE x \in files[k + 1]
      BY <2>1, <2>3, <1>1 DEF GenerationsOrdered
    <2> QED
      BY <2>2, <2>3, <1>2
  <1> QED
    BY <1>2, <1>3, <1>4, <1>5, <1>7, <1>8

\* Moving one writer's program counter.
LEMMA OneWriter ==
    ASSUME DlqTypeOK, LockInv, NEW w \in Writers, pc[w] # "idle"
    PROVE  lock = w /\ \A v \in Writers : v # w => pc[v] = "idle"
  BY DEF LockInv

LEMMA DlqNextInv == DlqInv /\ [DlqNext]_dlqVars => DlqInv'
  <1> SUFFICES ASSUME DlqInv, [DlqNext]_dlqVars PROVE DlqInv'
    OBVIOUS
  <1> USE DlqAssumption
  <1>i. /\ DlqTypeOK /\ LockInv /\ PresentInv /\ ShiftInv /\ NumberInv
        /\ GenerationsOrdered /\ OldestLostFirst
    BY DEF DlqInv
  <1>0. CASE UNCHANGED dlqVars
    BY <1>0, <1>i DEF dlqVars, DlqInv, DlqTypeOK, LockInv, PresentInv, ShiftInv, NumberInv,
       GenerationsOrdered, OldestLostFirst
  \* A step that touches neither the files nor the history.
  <1>f. ASSUME UNCHANGED <<present, files, discarded, written>>
        PROVE  PresentInv' /\ NumberInv' /\ GenerationsOrdered' /\ OldestLostFirst'
    BY <1>f, <1>i DEF PresentInv, NumberInv, GenerationsOrdered, OldestLostFirst
  <1>1. ASSUME NEW w \in Writers, Acquire(w) PROVE DlqInv'
    <2>1. DlqTypeOK' /\ LockInv'
      BY <1>1, <1>i DEF Acquire, LockFree, DlqTypeOK, LockInv
    <2>2. ShiftInv'
      BY <1>1, <1>i DEF Acquire, DlqTypeOK, ShiftInv
    <2> QED
      BY <1>1, <1>f, <2>1, <2>2 DEF Acquire, DlqInv
  <1>2. ASSUME NEW w \in Writers, Check(w) PROVE DlqInv'
    <2>1. DlqTypeOK' /\ LockInv'
      BY <1>2, <1>i, SMTT(30) DEF Check, DlqTypeOK, LockInv, Gens
    <2>2. ShiftInv'
      BY <1>2, <1>i, OneWriter DEF Check, DlqTypeOK, ShiftInv, Gens
    <2> QED
      BY <1>2, <1>f, <2>1, <2>2 DEF Check, DlqInv
  <1>3. ASSUME NEW w \in Writers, Shift(w) PROVE DlqInv'
    <2> DEFINE k == gen[w]
    <2>1. /\ k \in 0 .. (RotateCount - 1) /\ (k + 1 < RotateCount => files[k + 1] = {})
          /\ pc[w] = "shift" /\ written' = written /\ lock' = lock
      BY <1>3, <1>i DEF Shift, ShiftInv
    <2>2. \A v \in Writers : v # w => pc[v] = "idle"
      BY <1>i, <2>1, OneWriter
    <2>3. CASE k >= 1 /\ k \in present
      <3>1. /\ Replace(k) /\ pc' = pc /\ gen' = [gen EXCEPT ![w] = k - 1]
        BY <1>3, <2>1, <2>3 DEF Shift, NextGen
      <3>2. /\ files' \in [Gens -> SUBSET Nat] /\ discarded' \subseteq Nat /\ present' \subseteq Gens
            /\ PresentInv' /\ NumberInv' /\ GenerationsOrdered' /\ OldestLostFirst'
            /\ files'[k] = {}
        BY <1>i, <2>1, <3>1, ReplaceFacts
      <3>3. DlqTypeOK' /\ LockInv'
        BY <1>i, <2>1, <2>3, <3>1, <3>2 DEF DlqTypeOK, LockInv, Gens
      <3>4. gen'[w] = k - 1 /\ k - 1 \in 0 .. (RotateCount - 1) /\ (k - 1) + 1 = k
        BY <1>i, <2>1, <2>3, <3>1 DEF DlqTypeOK
      <3>5. ShiftInv'
        BY <2>1, <2>2, <3>1, <3>2, <3>4 DEF ShiftInv
      <3> QED
        BY <3>2, <3>3, <3>5 DEF DlqInv
    <2>4. CASE k >= 1 /\ k \notin present
      <3>1. /\ UNCHANGED <<present, files, discarded, pc>> /\ gen' = [gen EXCEPT ![w] = k - 1]
        BY <1>3, <2>1, <2>4 DEF Shift, NextGen
      <3>2. DlqTypeOK' /\ LockInv'
        BY <1>i, <2>1, <2>4, <3>1 DEF DlqTypeOK, LockInv, Gens
      <3>3. gen'[w] = k - 1 /\ k - 1 \in 0 .. (RotateCount - 1) /\ (k - 1) + 1 = k
            /\ files'[k] = {}
        BY <1>i, <2>1, <2>4, <3>1 DEF DlqTypeOK, PresentInv, Gens
      <3>4. ShiftInv'
        BY <2>1, <2>2, <3>1, <3>3 DEF ShiftInv
      <3> QED
        BY <1>f, <2>1, <3>1, <3>2, <3>4 DEF DlqInv
    <2>5. CASE ~(k >= 1)
      <3>1. /\ UNCHANGED <<present, files, discarded, gen>> /\ pc' = [pc EXCEPT ![w] = "swap"]
            /\ k = 0
        BY <1>3, <2>1, <2>5 DEF Shift
      <3>2. DlqTypeOK' /\ LockInv'
        BY <1>i, <2>1, <3>1 DEF DlqTypeOK, LockInv
      <3>3. ShiftInv'
        BY <1>i, <2>1, <2>2, <3>1 DEF ShiftInv, DlqTypeOK
      <3> QED
        BY <1>f, <2>1, <3>1, <3>2, <3>3 DEF DlqInv
    <2> QED
      BY <2>3, <2>4, <2>5
  <1>4. ASSUME NEW w \in Writers, Swap(w) PROVE DlqInv'
    <2>1. /\ pc[w] = "swap" /\ (1 < RotateCount => files[1] = {}) /\ Replace(0)
          /\ written' = written /\ lock' = lock /\ gen' = gen
          /\ pc' = [pc EXCEPT ![w] = "create"]
      BY <1>4, <1>i DEF Swap, ShiftInv
    <2>2. \A v \in Writers : v # w => pc[v] = "idle"
      BY <1>i, <2>1, OneWriter
    <2>3. 0 \in 0 .. (RotateCount - 1) /\ 0 + 1 = 1
      OBVIOUS
    <2>4. /\ files' \in [Gens -> SUBSET Nat] /\ discarded' \subseteq Nat /\ present' \subseteq Gens
          /\ PresentInv' /\ NumberInv' /\ GenerationsOrdered' /\ OldestLostFirst'
      BY <1>i, <2>1, <2>3, ReplaceFacts
    <2>5. DlqTypeOK' /\ LockInv' /\ ShiftInv'
      BY <1>i, <2>1, <2>2, <2>4 DEF DlqTypeOK, LockInv, ShiftInv
    <2> QED
      BY <2>4, <2>5 DEF DlqInv
  <1>5. ASSUME NEW w \in Writers, Create(w) PROVE DlqInv'
    <2>1. DlqTypeOK' /\ LockInv'
      BY <1>5, <1>i DEF Create, DlqTypeOK, LockInv, Gens
    <2>2. ShiftInv'
      BY <1>5, <1>i, OneWriter DEF Create, DlqTypeOK, ShiftInv
    <2>3. PresentInv' /\ NumberInv' /\ GenerationsOrdered' /\ OldestLostFirst'
      BY <1>5, <1>i DEF Create, PresentInv, NumberInv, GenerationsOrdered, OldestLostFirst
    <2> QED
      BY <2>1, <2>2, <2>3 DEF DlqInv
  <1>6. ASSUME NEW w \in Writers, RotationFails(w) PROVE DlqInv'
    <2>1. DlqTypeOK' /\ LockInv' /\ ShiftInv'
      BY <1>6, <1>i, OneWriter DEF RotationFails, DlqTypeOK, LockInv, ShiftInv
    <2> QED
      BY <1>6, <1>f, <2>1 DEF RotationFails, DlqInv
  <1>7. ASSUME NEW w \in Writers, AppendEntry(w) PROVE DlqInv'
    <2>1. \A v \in Writers : v # w => pc[v] = "idle"
      BY <1>7, <1>i, OneWriter DEF AppendEntry
    <2>2. DlqTypeOK'
      BY <1>7, <1>i DEF AppendEntry, DlqTypeOK, Gens
    <2>3. LockInv' /\ ShiftInv'
      BY <1>7, <1>i, <2>1 DEF AppendEntry, DlqTypeOK, LockInv, ShiftInv
    <2>4. /\ written \in Nat /\ written' = written + 1 /\ discarded' = discarded /\ 0 \in Gens
          /\ files'[0] = files[0] \cup {written + 1}
          /\ \A j \in Gens : j # 0 => files'[j] = files[j]
          /\ \A j \in Gens : files[j] \subseteq Nat /\ j \in Nat
          /\ discarded \subseteq Nat /\ present' = present \cup {0}
      BY <1>7, <1>i DEF AppendEntry, DlqTypeOK, Gens
    <2>5. PresentInv'
      BY <1>i, <2>4 DEF PresentInv
    <2>6. NumberInv'
      BY <1>i, <2>4 DEF NumberInv
    <2>7. OldestLostFirst'
      BY <1>i, <2>4 DEF NumberInv, OldestLostFirst
    <2>8. GenerationsOrdered'
      BY <1>i, <2>4 DEF NumberInv, GenerationsOrdered
    <2> QED
      BY <2>2, <2>3, <2>5, <2>6, <2>7, <2>8 DEF DlqInv
  <1>8. ASSUME NEW w \in Writers, GiveUp(w) PROVE DlqInv'
    <2>1. \A v \in Writers : v # w => pc[v] = "idle"
      BY <1>8, <1>i, OneWriter DEF GiveUp
    <2>2. DlqTypeOK' /\ LockInv' /\ ShiftInv'
      BY <1>8, <1>i, <2>1 DEF GiveUp, DlqTypeOK, LockInv, ShiftInv
    <2> QED
      BY <1>8, <1>f, <2>2 DEF GiveUp, DlqInv
  <1> QED
    BY <1>0, <1>1, <1>2, <1>3, <1>4, <1>5, <1>6, <1>7, <1>8 DEF DlqNext, Write

\* The inductive invariant of the dead-letter file.
THEOREM DlqInvariant == DlqSpec => []DlqInv
  <1>1. DlqInit => DlqInv
    BY DlqInitInv
  <1>2. DlqInv /\ [DlqNext]_dlqVars => DlqInv'
    BY DlqNextInv
  <1> QED
    BY <1>1, <1>2, PTL DEF DlqSpec

\* A rotation never discards an entry while it keeps an older one.
THEOREM DlqOldestLostFirst == DlqSpec => []OldestLostFirst
  <1>1. DlqInv => OldestLostFirst
    BY DEF DlqInv
  <1>2. DlqSpec => []DlqInv
    BY DlqInvariant
  <1> QED
    BY <1>1, <1>2, PTL

\* Only the last generation is ever discarded.
THEOREM DlqLastDiscarded == DlqSpec => OnlyLastGenerationDiscarded
  <1> USE DlqAssumption
  <1>1. DlqInv /\ [DlqNext]_dlqVars =>
          [discarded' \subseteq discarded \cup files[RotateCount]]_dlqVars
    <2> SUFFICES ASSUME DlqInv, [DlqNext]_dlqVars
                 PROVE  discarded' \subseteq discarded \cup files[RotateCount]
      OBVIOUS
    <2>1. ASSUME NEW w \in Writers, Shift(w), Replace(gen[w])
          PROVE  discarded' \subseteq discarded \cup files[RotateCount]
      <3>1. /\ gen[w] \in 0 .. (RotateCount - 1) /\ written' = written
            /\ (gen[w] + 1 < RotateCount => files[gen[w] + 1] = {})
        BY <2>1 DEF Shift, DlqInv, ShiftInv
      <3> QED
        BY <2>1, <3>1, ReplaceFacts DEF DlqInv
    <2>2. ASSUME NEW w \in Writers, Swap(w)
          PROVE  discarded' \subseteq discarded \cup files[RotateCount]
      <3>1. /\ 0 \in 0 .. (RotateCount - 1) /\ 0 + 1 = 1 /\ written' = written /\ Replace(0)
            /\ (1 < RotateCount => files[1] = {})
        BY <2>2 DEF Swap, DlqInv, ShiftInv
      <3> QED
        BY <3>1, ReplaceFacts DEF DlqInv
    <2>3. CASE UNCHANGED discarded
      BY <2>3
    <2> QED
      BY <2>1, <2>2, <2>3
      DEF DlqNext, Write, Acquire, Check, Shift, Create, RotationFails,
          AppendEntry, GiveUp, dlqVars
  <1>2. DlqSpec => []DlqInv
    BY DlqInvariant
  <1> QED
    BY <1>1, <1>2, PTL DEF DlqSpec, OnlyLastGenerationDiscarded

-----------------------------------------------------------------------------
(***************************************************************************)
(* The model files.                                                        *)
(***************************************************************************)
\* What a file of version v's time can hold.
Trained(v) == {Torn, None} \cup 1 .. v

\* No file and no digest is of a model still to be trained.
FilesAreOld ==
    /\ temp \in Trained(version) /\ tempSha \in Trained(version)
    /\ prod \in Trained(version) /\ prodSha \in Trained(version)
    /\ expected \in Trained(version) /\ served \in Trained(version)

\* What the trainer knows of the files it is about to move: the steps between
\* the save and the move leave the new model alone, and a stop loses its place.
TrainerInv ==
    /\ trainer \in {"saved", "writingTempSha", "trained", "deploying"} => temp = version
    /\ trainer = "trained" => tempSha = version
    /\ trainer = "deploying" => prodSha = version
    /\ trainer \in {"hashingProd", "writingProdSha"} => prod = version

DeployInv == DeployTypeOK /\ FilesAreOld /\ TrainerInv /\ ServesWholeModel

LEMMA TrainedGrows ==
    ASSUME NEW v \in Nat, NEW w \in Nat, v <= w
    PROVE  Trained(v) \subseteq Trained(w)
  BY DEF Trained

LEMMA DeployInitInv == DeployInit => DeployInv
  BY DeployAssumption DEF DeployInit, DeployInv, DeployTypeOK, Contents,
     FilesAreOld, Trained, TrainerInv, ServesWholeModel, None, Torn

\* The two steps that start a model: the version is new, and every file that
\* is not torn holds an older one.
LEMMA NewVersion ==
    ASSUME DeployInv, version < MaxVersions, version' = version + 1,
           SaveTemp \/ SaveProd
    PROVE  DeployInv'
  <1>1. version \in Nat /\ version' \in 1 .. MaxVersions /\ MaxVersions \in Nat
    BY DeployAssumption DEF DeployInv, DeployTypeOK
  <1>2. Trained(version) \subseteq Trained(version')
    BY <1>1, TrainedGrows
  <1>3. Torn \in Trained(version')
    BY DEF Trained
  <1>4. FilesAreOld'
    BY <1>2, <1>3 DEF DeployInv, FilesAreOld, SaveTemp, SaveProd, engine
  <1>5. Trained(version') \subseteq Contents
    BY <1>1, DeployAssumption DEF Trained, Contents
  <1>6. DeployTypeOK'
    BY <1>1, <1>3, <1>5 DEF DeployInv, DeployTypeOK, SaveTemp, SaveProd,
       engine, Contents
  <1>7. TrainerInv'
    BY DEF DeployInv, TrainerInv, SaveTemp, SaveProd
  <1>8. ServesWholeModel'
    BY <1>1 DEF DeployInv, ServesWholeModel, SaveTemp, SaveProd, engine
  <1> QED
    BY <1>4, <1>6, <1>7, <1>8 DEF DeployInv

LEMMA DeployNextInv == DeployInv /\ [DeployNext]_deployVars => DeployInv'
  <1> SUFFICES ASSUME DeployInv, [DeployNext]_deployVars PROVE DeployInv'
    OBVIOUS
  <1>i. DeployTypeOK /\ FilesAreOld /\ TrainerInv /\ ServesWholeModel
    BY DEF DeployInv
  <1>c. version \in 1 .. MaxVersions /\ version \in Trained(version) /\ version \in Contents
        /\ Torn \in Trained(version) /\ None \in Trained(version)
        /\ Torn \in Contents /\ None \in Contents
    BY <1>i, DeployAssumption DEF DeployTypeOK, Trained, Contents
  <1>1. CASE SaveTemp \/ SaveProd
    BY <1>1, NewVersion DEF SaveTemp, SaveProd
  <1>2. CASE TempSaved \/ OpenTempSha \/ HashTemp \/ DeploySha \/ DeployModel
    <2>1. version' = version /\ UNCHANGED <<engine, stops, inPlace>>
      BY <1>2 DEF TempSaved, OpenTempSha, HashTemp, DeploySha, DeployModel
    <2>2. DeployTypeOK'
      BY <1>2, <1>i, <1>c, <2>1 DEF TempSaved, OpenTempSha, HashTemp, DeploySha,
         DeployModel, DeployTypeOK, engine
    <2>3. FilesAreOld'
      BY <1>2, <1>i, <1>c, <2>1 DEF TempSaved, OpenTempSha, HashTemp, DeploySha,
         DeployModel, FilesAreOld, engine
    <2>4. TrainerInv'
      BY <1>2, <1>i DEF TempSaved, OpenTempSha, HashTemp, DeploySha, DeployModel,
         TrainerInv
    <2>5. ServesWholeModel'
      BY <1>i, <2>1 DEF ServesWholeModel, engine
    <2> QED
      BY <2>2, <2>3, <2>4, <2>5 DEF DeployInv
  <1>3. CASE ProdSaved \/ OpenProdSha \/ ProdHashed
    <2>1. version' = version /\ UNCHANGED <<engine, stops, inPlace>>
      BY <1>3 DEF ProdSaved, OpenProdSha, ProdHashed
    <2>2. DeployTypeOK'
      BY <1>3, <1>i, <1>c, <2>1 DEF ProdSaved, OpenProdSha, ProdHashed,
         DeployTypeOK, engine
    <2>3. FilesAreOld'
      BY <1>3, <1>i, <1>c, <2>1 DEF ProdSaved, OpenProdSha, ProdHashed,
         FilesAreOld, engine
    <2>4. TrainerInv'
      BY <1>3, <1>i DEF ProdSaved, OpenProdSha, ProdHashed, TrainerInv
    <2>5. ServesWholeModel'
      BY <1>i, <2>1 DEF ServesWholeModel, engine
    <2> QED
      BY <2>2, <2>3, <2>4, <2>5 DEF DeployInv
  <1>4. CASE StopTrainer \/ StartTrainer
    <2>1. UNCHANGED <<modelFiles, version, engine>> /\ trainer' \in {"stopped", "train"}
      BY <1>4 DEF StopTrainer, StartTrainer, NewCycle
    <2>2. DeployTypeOK'
      BY <1>4, <1>i, <2>1, DeployAssumption DEF StopTrainer, StartTrainer, DeployTypeOK,
         modelFiles, engine
    <2> QED
      BY <1>i, <2>1, <2>2 DEF DeployInv, FilesAreOld, TrainerInv, ServesWholeModel,
         modelFiles, engine
  <1>5. CASE StartProcessor \/ StopProcessor \/ LoadRefused
    <2>1. UNCHANGED <<modelFiles, version, trainer, expected, served, stops>>
          /\ processor' \in {"readSha", "down"} /\ loads' \in 0 .. MaxLoads
      BY <1>5, <1>i, DeployAssumption DEF StartProcessor, StopProcessor,
         LoadRefused, InitRaises, DeployTypeOK
    <2> QED
      BY <1>i, <2>1 DEF DeployInv, DeployTypeOK, FilesAreOld, TrainerInv, ServesWholeModel,
         modelFiles
  <1>6. CASE ReadSha
    <2>1. UNCHANGED <<modelFiles, version, trainer, served, loads, stops>>
          /\ expected' = prodSha /\ processor' = "readModel"
      BY <1>6 DEF ReadSha
    <2> QED
      BY <1>i, <2>1 DEF DeployInv, DeployTypeOK, FilesAreOld, TrainerInv, ServesWholeModel,
         modelFiles
  <1>7. CASE LoadModel
    <2>1. UNCHANGED <<modelFiles, version, trainer, expected, loads, stops>>
          /\ served' = prod /\ processor' = "serving" /\ prod \notin {Torn, None}
      BY <1>7 DEF LoadModel, ShaMatches
    <2>2. prod \in 1 .. version
      BY <1>i, <2>1 DEF FilesAreOld, Trained
    <2> QED
      BY <1>i, <2>1, <2>2 DEF DeployInv, DeployTypeOK, FilesAreOld, TrainerInv,
         ServesWholeModel, modelFiles
  <1>8. CASE UNCHANGED deployVars
    BY <1>8, <1>i
    DEF deployVars, modelFiles, engine, DeployInv, DeployTypeOK, FilesAreOld,
        TrainerInv, ServesWholeModel
  <1> QED
    BY <1>1, <1>2, <1>3, <1>4, <1>5, <1>6, <1>7, <1>8 DEF DeployNext, Trainer, Processor

LEMMA DeployInvariant == DeploySpec => []DeployInv
  <1>1. DeployInit => DeployInv
    BY DeployInitInv
  <1>2. DeployInv /\ [DeployNext]_deployVars => DeployInv'
    BY DeployNextInv
  <1> QED
    BY <1>1, <1>2, PTL DEF DeploySpec

(***************************************************************************)
(* A processor that serves holds a model that was completely trained and   *)
(* completely written, whatever DeepLearningEngine's two reads fall        *)
(* between.                                                                *)
(***************************************************************************)
THEOREM DeployServesWholeModel == DeploySpec => []ServesWholeModel
  <1>1. DeployInv => ServesWholeModel
    BY DEF DeployInv
  <1>2. DeploySpec => []DeployInv
    BY DeployInvariant
  <1> QED
    BY <1>1, <1>2, PTL

(***************************************************************************)
(* The last step of either trainer's deployment leaves a model file and a  *)
(* sidecar of the same whole version, however many earlier deployments     *)
(* were stopped half way.                                                  *)
(***************************************************************************)
THEOREM DeployCompletedMatches == DeploySpec => CompletedDeploymentMatches
  <1>1. ASSUME DeployInv, DeployModel \/ ProdHashed
        PROVE  prod' = prodSha' /\ prod' \in 1 .. version
    <2>1. version \in 1 .. version
      BY <1>1 DEF DeployInv, DeployTypeOK
    <2> QED
      BY <1>1, <2>1 DEF DeployInv, TrainerInv, DeployModel, ProdHashed
  <1>2. DeployInv /\ [DeployNext]_deployVars
          => [DeployModel \/ ProdHashed =>
                prod' = prodSha' /\ prod' \in 1 .. version]_deployVars
    BY <1>1
  <1>3. DeploySpec => []DeployInv
    BY DeployInvariant
  <1> QED
    BY <1>2, <1>3, PTL DEF DeploySpec, CompletedDeploymentMatches
=============================================================================
