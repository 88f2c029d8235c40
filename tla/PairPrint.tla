------------------------------ MODULE PairPrint ------------------------------
(***************************************************************************)
(* code/concurrent/print.cpp: print_even writes two odd numbers, print_odd *)
(* one even number, in turns kept by the atomic flag odd.  print_even      *)
(* adopts the mutex in every round, although only the first time it holds  *)
(* it: its waits and its unlocks then release a mutex that may be the      *)
(* other thread's, which the build allows.                                 *)
(***************************************************************************)
EXTENDS Integers

CONSTANT MAX   \* 100

VARIABLES
    print,      \* the mutex is locked
    odd, odd_end,
    even_pc,    \* print_even: test, block, wait, relock, print, store, notify, unlock, end, notify_all, done
    odd_pc,     \* print_odd: lock, test, block, wait, relock, print, load, store, notify, unlock
    evens,      \* even numbers printed, by print_odd
    odds        \* odd numbers printed, by print_even

vars == <<print, odd, odd_end, even_pc, odd_pc, evens, odds>>

\* main locks the mutex before it starts the threads.
Init ==
    /\ print = TRUE /\ odd = TRUE /\ odd_end = FALSE
    /\ even_pc = "test" /\ odd_pc = "lock"
    /\ evens = 0 /\ odds = 0

WakeOdd == odd_pc' = IF odd_pc = "wait" THEN "relock" ELSE odd_pc
WakeEven == even_pc' = IF even_pc = "wait" THEN "relock" ELSE even_pc

-----------------------------------------------------------------------------
(* print_even; its next number is 2 * odds + 1 *)

EvenTest ==
    /\ even_pc = "test"
    /\ even_pc' = IF odd THEN "print" ELSE "block"
    /\ UNCHANGED <<print, odd, odd_end, odd_pc, evens, odds>>

EvenBlock ==
    /\ even_pc = "block"
    /\ print' = FALSE
    /\ even_pc' = "wait"
    /\ UNCHANGED <<odd, odd_end, odd_pc, evens, odds>>

EvenRelock ==
    /\ even_pc = "relock" /\ ~print
    /\ print' = TRUE
    /\ even_pc' = "test"
    /\ UNCHANGED <<odd, odd_end, odd_pc, evens, odds>>

\* Both numbers, start += 4.
EvenPrint ==
    /\ even_pc = "print"
    /\ odds' = odds + (IF 2 * odds + 3 < MAX THEN 2 ELSE 1)
    /\ even_pc' = "store"
    /\ UNCHANGED <<print, odd, odd_end, odd_pc, evens>>

EvenStore ==
    /\ even_pc = "store"
    /\ odd' = FALSE
    /\ even_pc' = "notify"
    /\ UNCHANGED <<print, odd_end, odd_pc, evens, odds>>

EvenNotify ==
    /\ even_pc = "notify"
    /\ WakeOdd
    /\ even_pc' = "unlock"
    /\ UNCHANGED <<print, odd, odd_end, evens, odds>>

EvenUnlock ==
    /\ even_pc = "unlock"
    /\ print' = FALSE
    /\ even_pc' = IF 2 * odds + 1 < MAX THEN "test" ELSE "end"
    /\ UNCHANGED <<odd, odd_end, odd_pc, evens, odds>>

EvenEnd ==
    /\ even_pc = "end"
    /\ odd_end' = TRUE
    /\ even_pc' = "notify_all"
    /\ UNCHANGED <<print, odd, odd_pc, evens, odds>>

\* Then main joins this thread and returns.
EvenNotifyAll ==
    /\ even_pc = "notify_all"
    /\ WakeOdd
    /\ even_pc' = "done"
    /\ UNCHANGED <<print, odd, odd_end, evens, odds>>

-----------------------------------------------------------------------------
(* print_odd; its next number is 2 * evens + 2 *)

OddLock ==
    /\ odd_pc \in {"lock", "relock"} /\ ~print
    /\ 2 * evens + 2 <= MAX
    /\ print' = TRUE
    /\ odd_pc' = "test"
    /\ UNCHANGED <<odd, odd_end, even_pc, evens, odds>>

\* The predicate is tested and the wait entered with the mutex locked; the other
\* thread may change odd and notify in between all the same.
OddTest ==
    /\ odd_pc = "test"
    /\ odd_pc' = IF odd THEN "block" ELSE "print"
    /\ UNCHANGED <<print, odd, odd_end, even_pc, evens, odds>>

OddBlock ==
    /\ odd_pc = "block"
    /\ print' = FALSE
    /\ odd_pc' = "wait"
    /\ UNCHANGED <<odd, odd_end, even_pc, evens, odds>>

OddPrint ==
    /\ odd_pc = "print"
    /\ evens' = evens + 1
    /\ odd_pc' = "load"
    /\ UNCHANGED <<print, odd, odd_end, even_pc, odds>>

\* odd_end is read, and odd set afterwards.
OddLoad ==
    /\ odd_pc = "load"
    /\ odd_pc' = IF odd_end THEN "notify" ELSE "store"
    /\ UNCHANGED <<print, odd, odd_end, even_pc, evens, odds>>

OddStore ==
    /\ odd_pc = "store"
    /\ odd' = TRUE
    /\ odd_pc' = "notify"
    /\ UNCHANGED <<print, odd_end, even_pc, evens, odds>>

OddNotify ==
    /\ odd_pc = "notify"
    /\ WakeEven
    /\ odd_pc' = "unlock"
    /\ UNCHANGED <<print, odd, odd_end, evens, odds>>

OddUnlock ==
    /\ odd_pc = "unlock"
    /\ print' = FALSE
    /\ odd_pc' = "lock"
    /\ UNCHANGED <<odd, odd_end, even_pc, evens, odds>>

SpuriousWakeup ==
    /\ \/ even_pc = "wait" /\ WakeEven /\ UNCHANGED odd_pc
       \/ odd_pc = "wait" /\ WakeOdd /\ UNCHANGED even_pc
    /\ UNCHANGED <<print, odd, odd_end, evens, odds>>

Next ==
    \/ EvenTest \/ EvenBlock \/ EvenRelock \/ EvenPrint \/ EvenStore \/ EvenNotify \/ EvenUnlock
    \/ EvenEnd \/ EvenNotifyAll
    \/ OddLock \/ OddTest \/ OddBlock \/ OddPrint \/ OddLoad \/ OddStore \/ OddNotify \/ OddUnlock
    \/ SpuriousWakeup

-----------------------------------------------------------------------------
\* The broken use of the mutex does not disturb the order: the flag alone makes
\* the threads alternate, two odd numbers to one even number, until print_even
\* has written its last.
PairsAlternate == odd_end \/ odds - 2 * evens \in -1 .. 2
=============================================================================
