----------------------------- MODULE TinyReaders -----------------------------
(***************************************************************************)
(* code/concurrent/tiny_rwc.cpp: one writer appends lines to a vector that *)
(* nobody shortens, five readers walk along it under the shared lock, and  *)
(* main ends the process after a second.  Line k is the k-th element, so   *)
(* the vector is its size.                                                 *)
(***************************************************************************)
EXTENDS Integers

CONSTANTS
    TinyReads,             \* the reader threads
    FileLines,             \* lines of the file
    threshold, max_size    \* 10 and 20

VARIABLES
    data_pool,   \* data_pool.size()
    do_write,    \* where the writer is: getline; full or above, its two loops
    index,       \* each reader's next element
    sharing,     \* the readers that hold the shared lock
    ended        \* main has returned

vars == <<data_pool, do_write, index, sharing, ended>>

Init ==
    /\ data_pool = 0
    /\ do_write = "getline"
    /\ index = [r \in TinyReads |-> 0]
    /\ sharing = {}
    /\ ended = FALSE

\* One turn with the lock: sleep again in one of the loops, or append.
Write ==
    /\ ~ended /\ sharing = {} /\ data_pool < FileLines
    /\ CASE do_write # "above" /\ data_pool >= max_size -> do_write' = "full" /\ UNCHANGED data_pool
         [] do_write = "above" /\ data_pool >= threshold -> UNCHANGED <<do_write, data_pool>>
         [] do_write # "above" /\ data_pool \in threshold .. max_size - 1 ->
               do_write' = "above" /\ UNCHANGED data_pool
         [] OTHER -> do_write' = "getline" /\ data_pool' = data_pool + 1
    /\ UNCHANGED <<index, sharing, ended>>

ReadLock(r) ==
    /\ ~ended /\ r \notin sharing
    /\ sharing' = sharing \cup {r}
    /\ UNCHANGED <<data_pool, do_write, index, ended>>

ReadOnceOnly(r) ==
    /\ ~ended /\ r \in sharing
    /\ index' = [index EXCEPT ![r] = IF @ = 0 /\ @ < data_pool THEN @ + 1 ELSE @]
    /\ sharing' = sharing \ {r}
    /\ UNCHANGED <<data_pool, do_write, ended>>

\* if(index < data_pool.size()) printf(... data_pool[index++]), and unlock.
Read(r) ==
    /\ ~ended /\ r \in sharing
    /\ index' = [index EXCEPT ![r] = IF @ < data_pool THEN @ + 1 ELSE @]
    /\ sharing' = sharing \ {r}
    /\ UNCHANGED <<data_pool, do_write, ended>>

End ==
    /\ ~ended
    /\ ended' = TRUE
    /\ UNCHANGED <<data_pool, do_write, index, sharing>>

ReaderStep(r) == ReadLock(r) \/ Read(r)

Next == Write \/ End \/ \E r \in TinyReads : ReaderStep(r)

-----------------------------------------------------------------------------
\* With nobody to shorten the vector the writer stops for good at threshold: the
\* loop on max_size is never entered, and no reader is ahead of the vector.
StopsAtThreshold ==
    /\ data_pool <= threshold /\ do_write # "full"
    /\ \A r \in TinyReads : index[r] <= data_pool

\* Every reader prints every line that was appended, unless the process ends.
EveryLineRead ==
    \A r \in TinyReads, k \in 1 .. threshold : data_pool >= k ~> (index[r] >= k \/ ended)
=============================================================================
