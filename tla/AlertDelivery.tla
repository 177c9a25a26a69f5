---------------------------- MODULE AlertDelivery ----------------------------
(***************************************************************************)
(* What the alert sink (api/kafka_sink.py) promises, with nothing of how   *)
(* it keeps the promise: at-least-once delivery of the topic's records.    *)
(* A record is settled once it has left a trace outside the consumer's     *)
(* memory: a database row, a dead-letter entry, or, when neither could be  *)
(* made, an error log line.  The consumer group's committed offset is the  *)
(* place a restarted consumer resumes from, so it may move, forwards or    *)
(* backwards, only to a place all of whose predecessors are settled.       *)
(***************************************************************************)
EXTENDS Integers

CONSTANT Partitions

VARIABLES arrived,    \* arrived[p]: number of records of partition p
          committed,  \* committed[p]: the group's committed offset
          settled     \* the records <<p, offset>> that left a trace

vars == <<arrived, committed, settled>>

Records == Partitions \X Nat

Init ==
    /\ arrived = [p \in Partitions |-> 0]
    /\ committed = [p \in Partitions |-> 0]
    /\ settled = {}

Arrive(p) ==
    /\ arrived' = [arrived EXCEPT ![p] = @ + 1]
    /\ UNCHANGED <<committed, settled>>

Settle ==
    /\ settled \subseteq settled'
    /\ \A r \in settled' \ settled : r \in Records /\ r[2] < arrived[r[1]]
    /\ UNCHANGED <<arrived, committed>>

Commit ==
    /\ committed' \in [Partitions -> Nat]
    /\ \A p \in Partitions :
          /\ committed'[p] <= arrived[p]
          /\ \A o \in 0 .. (committed'[p] - 1) : <<p, o>> \in settled
    /\ UNCHANGED <<arrived, settled>>

Next == (\E p \in Partitions : Arrive(p)) \/ Settle \/ Commit

Spec == Init /\ [][Next]_vars
=============================================================================
