---------------------------- MODULE SharedObject ----------------------------
(***************************************************************************)
(* code/IPC/SHM/SystemV/placement.cpp: processes that take commands from   *)
(* their users and share a counter, constructed by placement new in a      *)
(* System V segment.  A process's pointers are addresses of its own space; *)
(* what shmat maps where is the kernel's choice.  The value of the counter *)
(* is left out: it is changed without the mutex it comes with, and nothing *)
(* depends on it.                                                          *)
(***************************************************************************)
EXTENDS Integers, FiniteSets

CONSTANTS
    Servers, Clients,   \* the processes, by argv[1]
    MaxSegments,        \* bound on the segments made under the key
    Addresses           \* where shmat may map: positive

VARIABLES
    segment,      \* of each segment: none, keyed, doomed (IPC_RMID), gone
    mapped,       \* what each process has at each address; 0 for nothing
    shm_id, shm_addr, shm_object,
    at,           \* of each process: CMD (at the prompt), shmat, shmctl, crashed, quit
    left,         \* segments each process has detached from
    freed         \* addresses it has detached, and nothing was mapped there again

vars == <<segment, mapped, shm_id, shm_addr, shm_object, at, left, freed>>

Processes == Servers \cup Clients
Segments == 1 .. MaxSegments
NULL == 0
Failed == -1    \* (void *) -1, and the -1 of shmget

Init ==
    /\ segment = [s \in Segments |-> "none"]
    /\ mapped = [p \in Processes |-> [a \in Addresses |-> 0]]
    /\ shm_id = [p \in Processes |-> 0]
    /\ shm_addr = [p \in Processes |-> NULL] /\ shm_object = [p \in Processes |-> NULL]
    /\ at = [p \in Processes |-> "CMD"]
    /\ left = [p \in Processes |-> {}] /\ freed = [p \in Processes |-> {}]

Go(p, place) == at' = [at EXCEPT ![p] = place]

Used(m) == {m[p][a] : p \in Processes, a \in Addresses}

\* A segment that is to be removed goes when nobody has it mapped.
Reap(seg, m) == [s \in Segments |-> IF seg[s] = "doomed" /\ s \notin Used(m) THEN "gone" ELSE seg[s]]

Valid(p, pointer) == pointer \in Addresses /\ mapped[p][pointer] # 0

\* The end of a process unmaps everything.
Ends(p, how) ==
    LET m == [mapped EXCEPT ![p] = [a \in Addresses |-> 0]]
    IN /\ Go(p, how)
       /\ mapped' = m /\ segment' = Reap(segment, m)
       /\ UNCHANGED <<shm_id, shm_addr, shm_object, left, freed>>

-----------------------------------------------------------------------------
\* attach: shmget, which makes the segment for a server if there is none; ...
shmget(p) ==
    /\ at[p] = "CMD"
    /\ \/ \E s \in Segments :
             /\ \/ segment[s] = "keyed" /\ UNCHANGED segment
                \/ /\ p \in Servers /\ segment[s] = "none"
                   /\ \A t \in Segments : segment[t] # "keyed" /\ (segment[t] = "none" => s <= t)
                   /\ segment' = [segment EXCEPT ![s] = "keyed"]
             /\ shm_id' = [shm_id EXCEPT ![p] = s] /\ Go(p, "shmat")
       \/ /\ p \in Clients /\ \A s \in Segments : segment[s] # "keyed"
          /\ shm_id' = [shm_id EXCEPT ![p] = Failed]
          /\ UNCHANGED <<segment, at>>
    /\ UNCHANGED <<mapped, shm_addr, shm_object, left, freed>>

\* ... and shmat.  It fails if the segment has gone meanwhile, with a value that
\* the comparison with NULL does not catch.
shmat(p) ==
    /\ at[p] = "shmat"
    /\ IF segment[shm_id[p]] = "gone"
       THEN shm_addr' = [shm_addr EXCEPT ![p] = Failed] /\ UNCHANGED <<mapped, freed>>
       ELSE \E a \in Addresses :
               /\ mapped[p][a] = 0
               /\ mapped' = [mapped EXCEPT ![p][a] = shm_id[p]]
               /\ freed' = [freed EXCEPT ![p] = @ \ {a}]
               /\ shm_addr' = [shm_addr EXCEPT ![p] = a]
    /\ Go(p, "CMD")
    /\ UNCHANGED <<segment, shm_id, shm_object, left>>

\* The address is given up; the pointers keep their values.
Unmap(p) ==
    LET m == [mapped EXCEPT ![p][shm_addr[p]] = 0]
    IN /\ mapped' = m /\ segment' = Reap(segment, m)
       /\ left' = [left EXCEPT ![p] = @ \cup {mapped[p][shm_addr[p]]}]
       /\ freed' = [freed EXCEPT ![p] = @ \cup {shm_addr[p]}]
       /\ UNCHANGED <<shm_id, shm_addr, shm_object>>

DetachOnly(p) == at[p] = "CMD" /\ Valid(p, shm_addr[p]) /\ Unmap(p) /\ UNCHANGED at

\* dettach: shmdt, which fails on an address that is not mapped; ...
shmdt(p) == at[p] = "CMD" /\ Valid(p, shm_addr[p]) /\ Unmap(p) /\ Go(p, "shmctl")

\* ... and IPC_RMID, which fails on a segment that is gone.
shmctl(p) ==
    /\ at[p] = "shmctl"
    /\ LET seg == [s \in Segments |->
                     IF s = shm_id[p] /\ segment[s] = "keyed" THEN "doomed" ELSE segment[s]]
       IN segment' = Reap(seg, mapped)
    /\ Go(p, "CMD")
    /\ UNCHANGED <<mapped, shm_id, shm_addr, shm_object, left, freed>>

\* create: a server constructs the object, a client believes that there is one.
create(p) ==
    /\ at[p] = "CMD"
    /\ IF p \in Servers /\ ~Valid(p, shm_addr[p])
       THEN Ends(p, "crashed")
       ELSE /\ shm_object' = [shm_object EXCEPT ![p] = shm_addr[p]]
            /\ UNCHANGED <<segment, mapped, shm_id, shm_addr, at, left, freed>>

UseUnchecked(p) == at[p] = "CMD" /\ ~Valid(p, shm_object[p]) /\ Ends(p, "crashed")

\* increase, decrease and print all dereference shm_object if it is not NULL.
use(p) == at[p] = "CMD" /\ shm_object[p] # NULL /\ ~Valid(p, shm_object[p]) /\ Ends(p, "crashed")

quit(p) == at[p] = "CMD" /\ Ends(p, "quit")

Next ==
    \E p \in Processes :
        \/ shmget(p) \/ shmat(p) \/ shmdt(p) \/ shmctl(p) \/ create(p)
        \/ use(p) \/ quit(p)

-----------------------------------------------------------------------------
\* Whatever the other processes do to the segment, dettach with its IPC_RMID
\* included, a process crashes only on a pointer it spoiled itself: it has detached
\* that address before, its shmat failed unnoticed, or it is a server that creates
\* without having attached.
OwnFault ==
    \A p \in Processes :
        at[p] = "crashed" =>
            \/ {shm_addr[p], shm_object[p]} \cap freed[p] # {}
            \/ Failed \in {shm_addr[p], shm_object[p]}
            \/ p \in Servers /\ shm_addr[p] = NULL

\* A segment that some process has dettached from is not found under the key
\* again, although shm_id and shm_addr may come from different calls of attach,
\* except between that process's shmdt and its shmctl.
NothingLeft ==
    \A p \in Processes : \A s \in left[p] :
        segment[s] = "keyed" => at[p] = "shmctl" /\ s = shm_id[p]
=============================================================================
