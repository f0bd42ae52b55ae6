---------------------------- MODULE LaggingStore ----------------------------
(***************************************************************************)
(* What a writer of records in the background promises: the file lags      *)
(* behind the records, but it holds what all of the first so many records  *)
(* make of it, and never fewer than before.  A restart goes on from the    *)
(* file.  Only while other writers are left from before the restart may    *)
(* the file become something else, until the next save.                    *)
(***************************************************************************)
EXTENDS Integers, Sequences

CONSTANTS Name, Value

VARIABLES
    base,      \* what was loaded
    records,   \* what has been recorded since, in order
    kept,      \* how many of them the file holds
    file,
    others     \* other writers are left

storeVars == <<base, records, kept, file, others>>

Written(n, k) == {i \in 1 .. n : records[i].key = k}

(* f is what the first n records make of what was loaded.                  *)
Holds(f, n) ==
    /\ f \in [Name -> Value]
    /\ \A k \in Name :
         \/ Written(n, k) = {} /\ f[k] = base[k]
         \/ \E i \in Written(n, k) :
               f[k] = records[i].value /\ \A j \in Written(n, k) : j <= i

StoreInit ==
    /\ base \in [Name -> Value]
    /\ records = <<>> /\ kept = 0 /\ file = base /\ others = FALSE

AddRecord ==
    /\ \E k \in Name, v \in Value : records' = Append(records, [key |-> k, value |-> v])
    /\ UNCHANGED <<base, kept, file, others>>

Save ==
    /\ kept' \in kept .. Len(records)
    /\ Holds(file', kept')
    /\ UNCHANGED <<base, records, others>>

(* Another writer: the records stay, and what is kept of them comes back   *)
(* with the next save.  Before the first one the file may be loaded late.  *)
Overwrite ==
    /\ others /\ others' \in BOOLEAN
    /\ file' \in [Name -> Value]
    /\ base' = base \/ (kept = 0 /\ base = file /\ base' = file')
    /\ UNCHANGED <<records, kept>>

OthersEnd == others' = FALSE /\ UNCHANGED <<base, records, kept, file>>

(* What the file does not hold is lost.                                    *)
Reopen ==
    /\ base' = file /\ records' = <<>> /\ kept' = 0
    /\ UNCHANGED file /\ others' \in BOOLEAN

StoreNext == AddRecord \/ Save \/ Overwrite \/ OthersEnd \/ Reopen

StoreSpec == StoreInit /\ [][StoreNext]_storeVars
=============================================================================
