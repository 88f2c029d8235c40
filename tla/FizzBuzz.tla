------------------------------ MODULE FizzBuzz ------------------------------
(***************************************************************************)
(* class FizzBuzz (code/concurrent/order_print.cpp): four threads share    *)
(* one counter, one mutex and one condition variable, and each waits for   *)
(* the numbers that are its own.  All of an iteration runs under           *)
(* protecter, so an iteration up to its wait or to its end is one step.    *)
(***************************************************************************)
EXTENDS Integers, Sequences, FiniteSets

CONSTANT MaxN   \* bound on the constructor's argument (23 in main)

ASSUME MaxNAssumption == MaxN \in Nat \ {0}

VARIABLES
    n, current,
    cv,     \* the threads blocked in cv.wait
    pc,     \* of each thread: "lock", "wait" or "done" (it has left its loop)
    out     \* what has been printed

vars == <<n, current, cv, pc, out>>

Threads == {"Fizz", "Buzz", "FizzBuzz", "number"}

is_3x(x) == x % 3 = 0

is_5x(x) == x % 5 = 0

is_15x(x) == x % 15 = 0

is_simple(x) == ~(is_3x(x) \/ is_5x(x))

Init ==
    /\ n \in 1 .. MaxN
    /\ current = 1
    /\ cv = {}
    /\ pc = [p \in Threads |-> "lock"]
    /\ out = <<>>

\* The predicate of the wait is false.
Block(p, mine) ==
    /\ pc[p] = "lock"
    /\ ~mine
    /\ cv' = cv \cup {p}
    /\ pc' = [pc EXCEPT ![p] = "wait"]
    /\ UNCHANGED <<n, current, out>>

\* The predicate is true: print, ++current, maybe go_on = false, notify_all.
PrintOwn(p, mine, text) ==
    /\ pc[p] = "lock"
    /\ mine
    /\ out' = Append(out, text)
    /\ current' = current + 1
    /\ cv' = {}
    /\ pc' = [q \in Threads |->
                 CASE q = p /\ current' > n -> "done"
                   [] q \in cv -> "lock"
                   [] OTHER -> pc[q]]
    /\ UNCHANGED n

Turn(p, mine, text) == Block(p, mine) \/ PrintOwn(p, mine, text)

fizz == Turn("Fizz", ~is_15x(current) /\ is_3x(current), "Fizz")

buzzGreedy == Turn("Buzz", is_5x(current), "Buzz")

buzz == Turn("Buzz", ~is_15x(current) /\ is_5x(current), "Buzz")

fizzbuzz == Turn("FizzBuzz", is_15x(current), "FizzBuzz")

number == Turn("number", is_simple(current), current)

SpuriousWakeup(p) ==
    /\ p \in cv
    /\ cv' = cv \ {p}
    /\ pc' = [pc EXCEPT ![p] = "lock"]
    /\ UNCHANGED <<n, current, out>>

Next == fizz \/ buzz \/ fizzbuzz \/ number \/ \E p \in Threads : SpuriousWakeup(p)

-----------------------------------------------------------------------------
\* What one thread alone would print for x.
Word(x) ==
    CASE x % 3 = 0 /\ x % 5 = 0 -> "FizzBuzz"
      [] x % 3 = 0 /\ x % 5 # 0 -> "Fizz"
      [] x % 5 = 0 /\ x % 3 # 0 -> "Buzz"
      [] OTHER -> x

\* go_on is tested only by the thread that has just printed, so the others may
\* run past n; each does so at most once, the one that reached n not at all.
OvershootBounded == current <= n + Cardinality(Threads)

\* The four threads never block one another before n words are out.
ReachesN == <>(Len(out) >= n)
=============================================================================
