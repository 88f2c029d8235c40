----------------------------- MODULE BatchWaitIf -----------------------------
(***************************************************************************)
(* The consumer of code/concurrent/1p1c_cv.cpp: it waits with a predicate  *)
(* and looks at end_flag three times per round: at the head of the loop,   *)
(* unlocked; in the predicate; and when it decides how much to take.       *)
(***************************************************************************)
EXTENDS BatchProducer

\* while(!end_flag.load())
While ==
    /\ consumer = "start"
    /\ consumer' = IF end_flag THEN "done" ELSE "lock"
    /\ UNCHANGED <<data_pool, end_flag, producer, rounds, consumed>>

\* Lock protecter (again, after a wake-up) and evaluate the predicate.
Test ==
    /\ consumer \in {"lock", "woken"}
    /\ consumer' = IF data_pool >= BATCH \/ end_flag THEN "take" ELSE "block"
    /\ UNCHANGED <<data_pool, end_flag, producer, rounds, consumed>>

Block ==
    /\ consumer = "block"
    /\ consumer' = "wait"
    /\ UNCHANGED <<data_pool, end_flag, producer, rounds, consumed>>

SpuriousWakeup ==
    /\ consumer = "wait"
    /\ consumer' = "woken"
    /\ UNCHANGED <<data_pool, end_flag, producer, rounds, consumed>>

\* batch_size = data_pool.size() if the end is announced by now, else BATCH;
\* print and erase that many, and unlock.
Take ==
    LET batch == IF end_flag THEN data_pool ELSE BATCH IN
    /\ consumer = "take"
    /\ consumed' = consumed + batch
    /\ data_pool' = data_pool - batch
    /\ consumer' = "start"
    /\ UNCHANGED <<end_flag, producer, rounds>>

ConsumerStep == While \/ Test \/ Block \/ Take

-----------------------------------------------------------------------------
\* With the predicate a spurious wake-up takes nothing: what was consumed before
\* the end was announced is a whole number of batches, and erase is only reached
\* with that much in the pool.
WholeBatches ==
    /\ ~end_flag => consumed % BATCH = 0
    /\ consumer = "take" => data_pool >= BATCH \/ end_flag

\* No lost wake-up: the consumer is not asleep on a full batch.  The push, the
\* count and notify_one are one critical section, and so are the test of the
\* predicate and the start of the wait.
NoSleepOnFullBatch == consumer = "wait" => data_pool < BATCH
=============================================================================
