------------------------------ MODULE Printers ------------------------------
(***************************************************************************)
(* The programs of code/concurrent whose threads print in a fixed order,   *)
(* and the samples in which main waits for its threads; which one runs is  *)
(* chosen at the start.                                                    *)
(*                                                                         *)
(*   order_print          a counter and a condition variable  FizzBuzz     *)
(*   alternate_print_nt   the same, pthreads                AlternatePrint *)
(*   print                a flag, an adopted mutex            PairPrint    *)
(*   order_process        mutexes as signals                  OrderProcess *)
(*   the samples          flags, queues and futures          ThreadSamples *)
(***************************************************************************)
EXTENDS FizzBuzz

CONSTANTS
    max_p, Limit,   \* of AlternatePrint
    MAX,            \* of PairPrint
    MaxAhead        \* of OrderProcess

ASSUME PrintersAssumption == max_p \in Nat \ {0} /\ {Limit, MAX, MaxAhead} \subseteq Nat

VARIABLES
    program,
    print, odd, odd_end, even_pc, odd_pc, evens, odds,
    from, to, do_from, do_to, lead,
    main, thread, flag, future, told

pairVars == <<print, odd, odd_end, even_pc, odd_pc, evens, odds>>
orderVars == <<from, to, do_from, do_to, lead>>
sampleVars == <<main, thread, flag, future, told>>
all == <<program, vars, pairVars, orderVars, sampleVars>>

Alt == INSTANCE AlternatePrint WITH num <- current
Pair == INSTANCE PairPrint
Order == INSTANCE OrderProcess
Sample == INSTANCE ThreadSamples

Samples == {"notify", "consume", "promise", "atomic_bool", "set_value", "wait_fororuntil"}

PrintersInit ==
    /\ Pair!Init /\ Order!Init
    /\ \/ program = "order_print" /\ Init
       \/ /\ program \in {"alternate_print_nt", "print", "order_process"} \cup Samples
          /\ Alt!Init /\ n = Limit
    /\ Sample!Init

Own(step) == program = "order_print" /\ step /\ UNCHANGED <<program, pairVars, orderVars, sampleVars>>
Turns(step) == program = "alternate_print_nt" /\ step /\ UNCHANGED <<program, n, pairVars, orderVars, sampleVars>>
Signals(step) == program = "order_process" /\ step /\ UNCHANGED <<program, vars, pairVars, sampleVars>>
Sampled(step) == program \in Samples /\ step /\ UNCHANGED <<vars, pairVars, orderVars>>

PrintersNext ==
    \/ Own(Next)
    \/ Turns(Alt!Next)
    \/ program = "print" /\ Pair!Next /\ UNCHANGED <<program, vars, orderVars, sampleVars>>
    \/ Signals(Order!Next)
    \/ Sampled(Sample!Next)

\* Every thread that is not blocked gets its turn at the mutex; a thread of
\* order_process that keeps finding its mutex free in the end locks it.
Spec ==
    /\ PrintersInit
    /\ [][PrintersNext]_all
    /\ WF_all(Own(fizz)) /\ WF_all(Own(buzz)) /\ WF_all(Own(fizzbuzz)) /\ WF_all(Own(number))
    /\ \A id \in 0 .. max_p - 1 : WF_all(Turns(Alt!ThreadStep(id)))
    /\ WF_all(Signals(Order!FromStep) \/ Sampled(Sample!MainStep))
    /\ WF_all(Signals(Order!ToStep))
    /\ \A t \in Sample!Threads : WF_all(Sampled(Sample!ThreadStep(t)))

-----------------------------------------------------------------------------
\* Whoever is scheduled, each line is the next one in the program's order, from
\* the thread whose turn it is: none is skipped, repeated or out of place.
InOrder ==
    /\ [][program = "order_print" => out' = Append(out, Word(Len(out) + 1))]_out
    /\ [](program = "alternate_print_nt" => Alt!TakeTurns)

\* Both counting programs test their limit too early or too late and print past
\* it, each thread at most once.
PastTheLimit == IF program = "order_print" THEN OvershootBounded ELSE Alt!OvershootBounded

\* Where a mutex is unlocked by a thread that does not hold it the threads still
\* alternate: two odd numbers to one even number in print, and in order_process
\* neither thread is ever more than two lines ahead.
InStep == Pair!PairsAlternate /\ Order!WithinTwo

\* The threads never block one another before the limit is reached; those of
\* order_process never do; and main of the samples gets what it waits for.
ReachesEnd ==
    /\ program = "order_print" => ReachesN
    /\ program = "alternate_print_nt" => Alt!ReachesLimit
    /\ program = "order_process" => Order!BothKeepPrinting
    /\ program \in Samples => Sample!EndsOrPasses

\* The futures and flags of the samples hold main back as long as they should: it
\* never returns before a detached thread that still uses its frame, and never sees a
\* value that only its own exit would make ready (the comment in wait_fororuntil
\* that the call works in a thread only).
MainHeldBack == program \in Samples => Sample!NoThreadLeft /\ Sample!OnlyInAThread
=============================================================================
