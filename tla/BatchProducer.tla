---------------------------- MODULE BatchProducer ----------------------------
(***************************************************************************)
(* The producer that code/concurrent/1p1c.cpp and 1p1c_cv.cpp share: until *)
(* its time is up it appends CHUNK items to data_pool under protecter and  *)
(* notifies the consumer when there is a full batch; then it raises the    *)
(* atomic end_flag and notifies once more, both WITHOUT the lock.  The     *)
(* consumers are in BatchWait, BatchWaitIf and PollingConsumer.  Items are *)
(* only counted; the time limit may end the loop after any round.          *)
(***************************************************************************)
EXTENDS Integers

CONSTANTS
    CHUNK,      \* items per round (8 in the code)
    BATCH,      \* items the consumer waits for (100 in the code)
    MaxRounds   \* bound on the producer's rounds

ASSUME BatchAssumption == CHUNK \in Nat \ {0} /\ BATCH \in Nat \ {0} /\ MaxRounds \in Nat

VARIABLES
    data_pool,  \* data_pool.size()
    end_flag,
    producer,   \* "loop", "notify" (between the store and notify_one), "done"
    consumer,   \* where the consumer is; "wait": blocked in cv.wait
    rounds,     \* rounds of the producer so far
    consumed    \* items erased by the consumer so far

vars == <<data_pool, end_flag, producer, consumer, rounds, consumed>>

Init ==
    /\ data_pool = 0
    /\ end_flag = FALSE
    /\ producer = "loop"
    /\ consumer = "start"
    /\ rounds = 0
    /\ consumed = 0

\* The states in which the consumer owns protecter.
Holding == {"block", "take"}

\* cv.notify_one(): there is only one possible waiter.
notify_one == consumer' = IF consumer = "wait" THEN "woken" ELSE consumer

ProduceSilently ==
    /\ producer = "loop"
    /\ rounds < MaxRounds
    /\ consumer \notin Holding
    /\ rounds' = rounds + 1
    /\ data_pool' = data_pool + CHUNK
    /\ UNCHANGED <<end_flag, producer, consumer, consumed>>

\* One round: the block under lock_guard, notification included.
Produce ==
    /\ producer = "loop"
    /\ rounds < MaxRounds
    /\ consumer \notin Holding
    /\ rounds' = rounds + 1
    /\ data_pool' = data_pool + CHUNK
    /\ IF data_pool' >= BATCH THEN notify_one ELSE UNCHANGED consumer
    /\ UNCHANGED <<end_flag, producer, consumed>>

\* The time limit is reached: end_flag.store(true), with no lock held.
End ==
    /\ producer = "loop"
    /\ end_flag' = TRUE
    /\ producer' = "notify"
    /\ UNCHANGED <<data_pool, consumer, rounds, consumed>>

EndUnnotified ==
    /\ producer = "notify"
    /\ producer' = "done"
    /\ UNCHANGED <<data_pool, end_flag, consumer, rounds, consumed>>

EndNotify ==
    /\ producer = "notify"
    /\ notify_one
    /\ producer' = "done"
    /\ UNCHANGED <<data_pool, end_flag, rounds, consumed>>

ProducerStep == Produce \/ End \/ EndNotify
=============================================================================
