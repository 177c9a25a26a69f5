------------------------------ MODULE PcapFlows ------------------------------
(***************************************************************************)
(* ingest_pcap of ingest/pcap_ingester.py: one pass over a capture that    *)
(* folds packets into a bounded table of bidirectional flows, re-emits the *)
(* whole table every Period packets, emits a flow a last time when it is   *)
(* evicted, and flushes the rest at the end.                               *)
(*                                                                         *)
(* A key is <<source, destination>>, an endpoint being address, port and   *)
(* protocol.  Byte sums and durations grow like the packet counts and are  *)
(* left out; a packet's time is not, for eviction goes by it, and it may   *)
(* run backwards in a capture.                                             *)
(***************************************************************************)
EXTENDS Integers, Sequences, FiniteSets, FiniteSetsExt, SequencesExt

CONSTANTS
    Endpoint,     \* address, port and protocol of a peer
    Period,       \* packets between two emissions of the table (500)
    MaxFlows,     \* MAX_FLOWS (50000)
    MaxPackets,   \* bound: packets of a capture
    MaxTime       \* bound: packet times

ASSUME PcapAssumption ==
    /\ Period \in Nat \ {0} /\ MaxFlows \in Nat \ {0}
    /\ MaxPackets \in Nat /\ MaxTime \in Nat

VARIABLES
    run,        \* "reading", "done" or "failed"
    count,      \* packet_count
    flows,      \* the table, in order of insertion
    counted,    \* history: packets counted, per pair of endpoints
    reported,   \* history: packets in last emissions given to the producer
    lost,       \* history: packets in last emissions whose send raised
    skipped     \* history: some Period-th packet was no TCP or UDP packet

vars == <<run, count, flows, counted, reported, lost, skipped>>

Keys == Endpoint \X Endpoint
Reverse2(key) == <<key[2], key[1]>>
Peers(key) == {key[1], key[2]}
Conversations == {Peers(key) : key \in Keys}

Init ==
    /\ run = "reading" /\ count = 0 /\ flows = <<>> /\ skipped = FALSE
    /\ counted = [c \in Conversations |-> 0]
    /\ reported = [c \in Conversations |-> 0]
    /\ lost = [c \in Conversations |-> 0]

-----------------------------------------------------------------------------
\* A table entry: packet counts per direction, and the packets since its last
\* emission.
Flow == [key : Keys, start : Nat, orig : Nat, resp : Nat, unsent : Nat]

NewFlow(key, time) == [key |-> key, start |-> time, orig |-> 0, resp |-> 0, unsent |-> 0]

Packets(flow) == flow.orig + flow.resp

IndexOf(table, key) == {i \in DOMAIN table : table[i].key = key}

\* The packet goes to the entry of the opposite direction if there is one, and
\* to the entry of its own direction, created on demand, otherwise.
OwnDirectionOnly(table, key, time) ==
    LET known == IF IndexOf(table, key) = {} THEN Append(table, NewFlow(key, time)) ELSE table
    IN  [known EXCEPT ![CHOOSE i \in IndexOf(known, key) : TRUE].orig = @ + 1]

Replied(flow) == [flow EXCEPT !.resp = @ + 1, !.unsent = @ + 1]
Originated(flow) == [flow EXCEPT !.orig = @ + 1, !.unsent = @ + 1]

Count(table, key, time) ==
    LET known == IF IndexOf(table, key) = {} THEN Append(table, NewFlow(key, time)) ELSE table
    IN  IF IndexOf(table, Reverse2(key)) # {}
        THEN [table EXCEPT ![CHOOSE i \in IndexOf(table, Reverse2(key)) : TRUE] = Replied(@)]
        ELSE [known EXCEPT ![CHOOSE i \in IndexOf(known, key) : TRUE] = Originated(@)]

EverySecondBeat(n) == n % (2 * Period) = 0
IsBeat(n) == n % Period = 0

\* "emit flow periodically without destroying state": every entry is offered to
\* the producer; a failed send is logged and not repeated.
Snapshot(table) == [i \in DOMAIN table |-> [table[i] EXCEPT !.unsent = 0]]

\* sorted by start_time is stable: among equals the one inserted first.
Oldest(table) ==
    CHOOSE i \in DOMAIN table :
        \A j \in DOMAIN table :
            table[i].start < table[j].start \/ (table[i].start = table[j].start /\ i <= j)

\* A table over the cap is over it by the one flow just added.
Evicted(table) == IF Len(table) > MaxFlows THEN {Oldest(table)} ELSE {}

KeepAll(table) == table
DropNewest(table) == IF Evicted(table) = {} THEN table ELSE Front(table)
Remaining(table) == IF Evicted(table) = {} THEN table ELSE RemoveAt(table, Oldest(table))

\* The packets of a conversation in the flows at these places.
PacketsOf(table, places, c) ==
    SumFunctionOnSet([i \in DOMAIN table |-> Packets(table[i])],
                     {i \in places : Peers(table[i].key) = c})

\* The last emissions of the flows at these places, each sent or failed.
EmitLast(table, places) ==
    \E sent \in SUBSET places :
        /\ reported' = [c \in Conversations |-> reported[c] + PacketsOf(table, sent, c)]
        /\ lost' = [c \in Conversations |-> lost[c] + PacketsOf(table, places \ sent, c)]

-----------------------------------------------------------------------------
\* An IP packet that carries TCP or UDP.
Packet(key, time) ==
    LET table == Count(flows, key, time)
        seen == IF IsBeat(count + 1) THEN Snapshot(table) ELSE table
    IN  /\ run = "reading" /\ count < MaxPackets
        /\ count' = count + 1
        /\ counted' = [counted EXCEPT ![Peers(key)] = @ + 1]
        /\ EmitLast(seen, Evicted(seen))
        /\ flows' = Remaining(seen)
        /\ UNCHANGED <<run, skipped>>

\* An oversized packet, or neither TCP nor UDP: counted by packet_count, but
\* nothing below it runs, the periodic emission included.
Skip ==
    /\ run = "reading" /\ count < MaxPackets
    /\ count' = count + 1
    /\ skipped' = (skipped \/ IsBeat(count + 1))
    /\ UNCHANGED <<run, flows, counted, reported, lost>>

\* The capture ends: every remaining flow is emitted and the producer flushed,
\* which may raise.  The table is garbage from then on.
FinalFlush ==
    /\ run = "reading"
    /\ run' \in {"done", "failed"}
    /\ EmitLast(flows, DOMAIN flows)
    /\ flows' = <<>>
    /\ UNCHANGED <<count, counted, skipped>>

\* The reader raises (a truncated capture): the table is abandoned.
ReaderFails ==
    /\ run = "reading" /\ run' = "failed"
    /\ UNCHANGED <<count, flows, counted, reported, lost, skipped>>

Next ==
    \/ \E key \in Keys, time \in 0 .. MaxTime : Packet(key, time)
    \/ Skip \/ FinalFlush \/ ReaderFails

Spec == Init /\ [][Next]_vars

-----------------------------------------------------------------------------
(***************************************************************************)
(* Type invariant of the ingester; between packets the table is within     *)
(* MAX_FLOWS, whatever the capture.                                        *)
(***************************************************************************)
TypeOK ==
    /\ run \in {"reading", "done", "failed"} /\ count \in 0 .. MaxPackets
    /\ flows \in Seq(Flow) /\ Len(flows) <= MaxFlows
    /\ \A i \in DOMAIN flows : Packets(flows[i]) >= flows[i].unsent
    /\ counted \in [Conversations -> Nat] /\ reported \in [Conversations -> Nat]
    /\ lost \in [Conversations -> Nat] /\ skipped \in BOOLEAN

InTable(c) == PacketsOf(flows, DOMAIN flows, c)

(***************************************************************************)
(* No packet is counted twice and none goes missing: what was counted for  *)
(* two endpoints is still in the table, or was in the last emission of     *)
(* exactly one flow, however often their flow was evicted and begun again, *)
(* in either direction.  Once the pass is done nothing is in the table.    *)
(***************************************************************************)
PacketsAccounted ==
    /\ \A c \in Conversations : counted[c] = reported[c] + lost[c] + InTable(c)
    /\ run = "done" => \A c \in Conversations : counted[c] = reported[c] + lost[c]

(***************************************************************************)
(* The two directions of a conversation never occupy two entries: an entry *)
(* begun by a reply after an eviction takes over the whole conversation.   *)
(***************************************************************************)
OneEntryPerConversation ==
    \A i, j \in DOMAIN flows : i # j => Peers(flows[i].key) # Peers(flows[j].key)

(***************************************************************************)
(* Fewer than Period packets of live flows await their first emission,     *)
(* unless some Period-th packet of the capture was one that is skipped,    *)
(* which silently drops that emission.                                     *)
(***************************************************************************)
SnapshotsAreRegular ==
    ~skipped => SumFunction([i \in DOMAIN flows |-> flows[i].unsent]) < Period
=============================================================================
