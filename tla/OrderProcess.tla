---------------------------- MODULE OrderProcess ----------------------------
(***************************************************************************)
(* code/concurrent/order_process.cpp: two threads use two mutexes as       *)
(* signals, each unlocking the one the other locks.  In the build an       *)
(* unlock by another thread frees the mutex, and one of a free mutex is    *)
(* lost.                                                                   *)
(***************************************************************************)
EXTENDS Integers

CONSTANT MaxAhead   \* bound on the lead of one thread

VARIABLES
    from, to,        \* the mutex is locked
    do_from, do_to,  \* of each thread: print, unlock, lock
    lead             \* lines of do_from less lines of do_to

vars == <<from, to, do_from, do_to, lead>>

Init ==
    /\ from = FALSE /\ to = FALSE
    /\ do_from = "print" /\ do_to = "print"
    /\ lead = 0

FromPrint ==
    /\ do_from = "print" /\ lead < MaxAhead
    /\ do_from' = "unlock"
    /\ lead' = lead + 1
    /\ UNCHANGED <<from, to, do_to>>

FromUnlock ==
    /\ do_from = "unlock"
    /\ from' = FALSE
    /\ do_from' = "lock"
    /\ UNCHANGED <<to, do_to, lead>>

FromLock ==
    /\ do_from = "lock" /\ ~to
    /\ to' = TRUE
    /\ do_from' = "print"
    /\ UNCHANGED <<from, do_to, lead>>

ToPrint ==
    /\ do_to = "print" /\ lead > -MaxAhead
    /\ do_to' = "unlock"
    /\ lead' = lead - 1
    /\ UNCHANGED <<from, to, do_from>>

ToUnlock ==
    /\ do_to = "unlock"
    /\ to' = FALSE
    /\ do_to' = "lock"
    /\ UNCHANGED <<from, do_from, lead>>

ToLockNothing ==
    /\ do_to = "lock"
    /\ do_to' = "print"
    /\ UNCHANGED <<from, to, do_from, lead>>

ToLock ==
    /\ do_to = "lock" /\ ~from
    /\ from' = TRUE
    /\ do_to' = "print"
    /\ UNCHANGED <<to, do_from, lead>>

FromStep == FromPrint \/ FromUnlock \/ FromLock
ToStep == ToPrint \/ ToUnlock \/ ToLock

Next == FromStep \/ ToStep

-----------------------------------------------------------------------------
\* Neither thread gets more than two lines ahead of the other: the first lock of
\* each succeeds at once, every later one takes a signal.
WithinTwo == lead \in -2 .. 2

\* Lost signals never leave both threads waiting: both go on printing for ever.
BothKeepPrinting == []<>(do_from = "print") /\ []<>(do_to = "print")
=============================================================================
