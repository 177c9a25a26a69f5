------------------------------- MODULE DlqFile -------------------------------
(***************************************************************************)
(* api/kafka_sink.py: the dead-letter file, its lock and its rotation      *)
(* (write_to_file_dlq, _rotate_dlq_if_needed).                             *)
(*                                                                         *)
(* File 0 is DLQ_PATH and file k is DLQ_PATH.k.  An entry is the number of *)
(* the write that made it; a file is the set of its entries (a file's size *)
(* is how many).  The rotation is modelled one os.replace at a time,       *)
(* because each of them may raise (the exception is swallowed and the      *)
(* append goes on) and because the process may die between any two.  The   *)
(* file system (os.replace, O_APPEND, flock released at process death) is  *)
(* outside the repository.                                                 *)
(***************************************************************************)
EXTENDS Integers, FiniteSets

CONSTANTS
    Writers,       \* threads and processes that share the file
    RotateCount,   \* DLQ_ROTATE_COUNT
    MaxSize,       \* DLQ_MAX_SIZE_MB, in entries
    MaxWrites      \* bound: writes

ASSUME DlqAssumption ==
    /\ RotateCount \in Nat \ {0} /\ MaxSize \in Nat /\ MaxWrites \in Nat
    /\ "nobody" \notin Writers

VARIABLES
    present,     \* the files that exist
    files,       \* files[k]: the entries of file k
    discarded,   \* history: entries of files that were replaced
    written,     \* the number of the last write
    lock,        \* who holds _dlq_thread_lock and the flock
    pc,          \* pc[w]: "idle", "check", "shift", "swap", "create", "append"
    gen          \* gen[w]: the loop's i

dlqVars == <<present, files, discarded, written, lock, pc, gen>>

Gens == 0 .. RotateCount

DlqInit ==
    /\ present = {}
    /\ files = [k \in Gens |-> {}]
    /\ discarded = {} /\ written = 0 /\ lock = "nobody"
    /\ pc = [w \in Writers |-> "idle"]
    /\ gen = [w \in Writers |-> 0]

-----------------------------------------------------------------------------
\* The thread lock, then the lock file.
LockIgnored(w) == TRUE
LockFree(w) == lock = "nobody"

Acquire(w) ==
    /\ pc[w] = "idle" /\ LockFree(w) /\ written < MaxWrites
    /\ lock' = w
    /\ pc' = [pc EXCEPT ![w] = "check"]
    /\ UNCHANGED <<present, files, discarded, written, gen>>

\* Rotate when the file is larger than the limit: the loop starts at the last
\* generation but one.
Check(w) ==
    /\ pc[w] = "check"
    /\ IF 0 \in present /\ Cardinality(files[0]) > MaxSize
          THEN /\ gen' = [gen EXCEPT ![w] = RotateCount - 1]
               /\ pc' = [pc EXCEPT ![w] = "shift"]
          ELSE /\ pc' = [pc EXCEPT ![w] = "append"]
               /\ UNCHANGED gen
    /\ UNCHANGED <<present, files, discarded, written, lock>>

\* os.replace(file k, file k + 1)
Replace(k) ==
    /\ files' = [files EXCEPT ![k + 1] = files[k], ![k] = {}]
    /\ present' = (present \ {k}) \cup {k + 1}
    /\ discarded' = discarded \cup files[k + 1]

\* One turn of the loop over the generations, the oldest first.
NextGen(g) == g - 1

Shift(w) ==
    /\ pc[w] = "shift"
    /\ LET k == gen[w]
       IN  IF k >= 1
             THEN /\ IF k \in present THEN Replace(k) ELSE UNCHANGED <<present, files, discarded>>
                  /\ gen' = [gen EXCEPT ![w] = NextGen(k)]
                  /\ UNCHANGED pc
             ELSE /\ pc' = [pc EXCEPT ![w] = "swap"]
                  /\ UNCHANGED <<present, files, discarded, gen>>
    /\ UNCHANGED <<written, lock>>

\* os.replace(DLQ_PATH, DLQ_PATH.1)
Swap(w) ==
    /\ pc[w] = "swap"
    /\ Replace(0)
    /\ pc' = [pc EXCEPT ![w] = "create"]
    /\ UNCHANGED <<written, lock, gen>>

\* open(DLQ_PATH, 'a').close()
Create(w) ==
    /\ pc[w] = "create"
    /\ present' = present \cup {0}
    /\ pc' = [pc EXCEPT ![w] = "append"]
    /\ UNCHANGED <<files, discarded, written, lock, gen>>

\* A call of the rotation raises: logged, and the append goes on.
RotationFails(w) ==
    /\ pc[w] \in {"shift", "swap", "create"}
    /\ pc' = [pc EXCEPT ![w] = "append"]
    /\ UNCHANGED <<present, files, discarded, written, lock, gen>>

\* The append, flushed and synced, then both locks are released.
AppendEntry(w) ==
    /\ pc[w] = "append" /\ written < MaxWrites
    /\ written' = written + 1
    /\ files' = [files EXCEPT ![0] = @ \cup {written + 1}]
    /\ present' = present \cup {0}
    /\ lock' = IF lock = w THEN "nobody" ELSE lock
    /\ pc' = [pc EXCEPT ![w] = "idle"]
    /\ UNCHANGED <<discarded, gen>>

\* The append raises (logged by write_to_file_dlq), or the process dies here:
\* the operating system releases its flock.
GiveUp(w) ==
    /\ pc[w] # "idle"
    /\ lock' = IF lock = w THEN "nobody" ELSE lock
    /\ pc' = [pc EXCEPT ![w] = "idle"]
    /\ UNCHANGED <<present, files, discarded, written, gen>>

Write(w) ==
    \/ Acquire(w) \/ Check(w) \/ Shift(w) \/ Swap(w) \/ Create(w) \/ RotationFails(w)
    \/ AppendEntry(w)

DlqNext == \E w \in Writers : Write(w) \/ GiveUp(w)

DlqSpec == DlqInit /\ [][DlqNext]_dlqVars

-----------------------------------------------------------------------------
(***************************************************************************)
(* Type invariant of the dead-letter file.                                 *)
(***************************************************************************)
DlqTypeOK ==
    /\ present \subseteq Gens
    /\ files \in [Gens -> SUBSET Nat]
    /\ discarded \subseteq Nat
    /\ written \in Nat
    /\ lock \in Writers \cup {"nobody"}
    /\ pc \in [Writers -> {"idle", "check", "shift", "swap", "create", "append"}]
    /\ gen \in [Writers -> Gens]

(***************************************************************************)
(* A rotation discards only the oldest entries: no entry is lost while an  *)
(* older one is kept.  It depends on the order of the loop, on the loop    *)
(* stopping at the first os.replace that fails, and on the lock.           *)
(***************************************************************************)
OldestLostFirst ==
    \A x \in discarded, k \in Gens : \A y \in files[k] : x < y

(***************************************************************************)
(* Entries are discarded from the last generation only.                    *)
(***************************************************************************)
OnlyLastGenerationDiscarded ==
    [][discarded' \subseteq discarded \cup files[RotateCount]]_dlqVars
=============================================================================
