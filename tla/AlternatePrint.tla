--------------------------- MODULE AlternatePrint ---------------------------
(***************************************************************************)
(* code/concurrent/alternate_print_nt.cpp: max_p detached threads take     *)
(* turns printing num.  The loop condition num <= 100 is read without the  *)
(* lock (a data race on an aligned int: the read yields the value of the   *)
(* moment), so a thread may enter its wait and find its turn never comes.  *)
(***************************************************************************)
EXTENDS Integers, Sequences, FiniteSets

CONSTANTS
    max_p,   \* hardware_concurrency() - 1
    Limit    \* 100 in the code

VARIABLES
    num,
    cv,     \* the threads blocked in cv.wait
    pc,     \* of each thread: "while", "lock", "wait", "done"
    out     \* the pairs (id, num) printed so far

vars == <<num, cv, pc, out>>

Ids == 0 .. max_p - 1

Init ==
    /\ num = 0
    /\ cv = {}
    /\ pc = [id \in Ids |-> "while"]
    /\ out = <<>>

WhileNotAbove(id) ==
    /\ pc[id] = "while"
    /\ num <= Limit + max_p + 1
    /\ pc' = [pc EXCEPT ![id] = "lock"]
    /\ UNCHANGED <<num, cv, out>>

\* while(num <= 100), unlocked.
While(id) ==
    /\ pc[id] = "while"
    /\ pc' = [pc EXCEPT ![id] = IF num <= Limit THEN "lock" ELSE "done"]
    /\ UNCHANGED <<num, cv, out>>

\* The predicate num % max_p == id is false.
Wait(id) ==
    /\ pc[id] = "lock"
    /\ num % max_p # id
    /\ cv' = cv \cup {id}
    /\ pc' = [pc EXCEPT ![id] = "wait"]
    /\ UNCHANGED <<num, out>>

PrintLosingWaiters(id) ==
    /\ pc[id] = "lock"
    /\ num % max_p = id
    /\ out' = Append(out, <<id, num>>)
    /\ num' = num + 1
    /\ cv' = {}
    /\ pc' = [pc EXCEPT ![id] = "while"]

\* The predicate holds: print, ++num, notify_all, unlock.
PrintTurn(id) ==
    /\ pc[id] = "lock"
    /\ num % max_p = id
    /\ out' = Append(out, <<id, num>>)
    /\ num' = num + 1
    /\ cv' = {}
    /\ pc' = [i \in Ids |-> IF i = id THEN "while" ELSE IF i \in cv THEN "lock" ELSE pc[i]]

SpuriousWakeup(id) ==
    /\ id \in cv
    /\ cv' = cv \ {id}
    /\ pc' = [pc EXCEPT ![id] = "lock"]
    /\ UNCHANGED <<num, out>>

ThreadStep(id) == While(id) \/ Wait(id) \/ PrintTurn(id)

Next == \E id \in Ids : ThreadStep(id) \/ SpuriousWakeup(id)

-----------------------------------------------------------------------------
\* The comment on the wait: it makes the threads take turns.  Whoever is
\* scheduled, the k-th line is number k and comes from thread k % max_p.
TakeTurns == \A k \in 1 .. Len(out) : out[k] = <<(k - 1) % max_p, k - 1>>

\* A thread that read num before the limit was passed still prints afterwards,
\* but at most once: no line goes beyond Limit + max_p - 1.
OvershootBounded == num <= Limit + max_p

\* Nobody is stuck before Limit has been printed.  (Afterwards a thread may be:
\* one that read num in time can wait for a turn nobody is left to pass on.)
ReachesLimit == <>(num > Limit)
=============================================================================
