---------------------------- MODULE SharedCounter ----------------------------
(***************************************************************************)
(* code/concurrent/rw.cpp: readers and writers print the value of a        *)
(* ThreadSaferCounter, holding mtx from before the call of get or          *)
(* increment until the line is printed.  The counter's own lock covers one *)
(* access, which is one step.                                              *)
(***************************************************************************)
EXTENDS Integers

CONSTANTS
    Getters, Writers,   \* the reader and the writer threads
    Unlocked,           \* mtx has no owner
    UINT                \* 2^32, the values of an unsigned int

VARIABLES
    mtx, value_,
    at,      \* of each thread: sleep, call, print
    got,     \* what its call returned
    shown    \* the value printed last

vars == <<mtx, value_, at, got, shown>>

All == Getters \cup Writers

Init ==
    /\ mtx = Unlocked
    /\ value_ = 0
    /\ at = [t \in All |-> "sleep"]
    /\ got = [t \in All |-> 0]
    /\ shown = 0

LockNothing(t) ==
    /\ at[t] = "sleep"
    /\ at' = [at EXCEPT ![t] = "call"]
    /\ UNCHANGED <<mtx, value_, got, shown>>

Lock(t) ==
    /\ at[t] = "sleep" /\ mtx = Unlocked
    /\ mtx' = t
    /\ at' = [at EXCEPT ![t] = "call"]
    /\ UNCHANGED <<value_, got, shown>>

get(t) == UNCHANGED value_

increment(t) == value_' = (value_ + 1) % UINT

Call(t) ==
    /\ at[t] = "call"
    /\ IF t \in Getters THEN get(t) ELSE increment(t)
    /\ got' = [got EXCEPT ![t] = value_']
    /\ at' = [at EXCEPT ![t] = "print"]
    /\ UNCHANGED <<mtx, shown>>

Show(t) ==
    /\ at[t] = "print"
    /\ shown' = got[t]
    /\ mtx' = Unlocked
    /\ at' = [at EXCEPT ![t] = "sleep"]
    /\ UNCHANGED <<value_, got>>

Next == \E t \in All : Lock(t) \/ Call(t) \/ Show(t)

-----------------------------------------------------------------------------
\* The lines come out in the order of the calls: a reader repeats the value shown
\* last, a writer shows the next one, also when the counter wraps around.
ShownInOrder ==
    value_ = (IF \E w \in Writers : at[w] = "print" THEN (shown + 1) % UINT ELSE shown)
=============================================================================
