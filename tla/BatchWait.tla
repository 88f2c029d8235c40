------------------------------ MODULE BatchWait ------------------------------
(***************************************************************************)
(* The consumer of code/concurrent/1p1c.cpp: it waits on cv with no        *)
(* predicate and takes a full batch whenever the wait returns; told to     *)
(* stop, it erases the rest after it has let go of protecter.              *)
(***************************************************************************)
EXTENDS BatchProducer

\* Locking protecter and entering cv.wait; nothing is tested in between.
Wait ==
    /\ consumer = "start"
    /\ consumer' = "wait"
    /\ UNCHANGED <<data_pool, end_flag, producer, rounds, consumed>>

SpuriousWakeup ==
    /\ consumer = "wait"
    /\ consumer' = "woken"
    /\ UNCHANGED <<data_pool, end_flag, producer, rounds, consumed>>

\* erase(begin, next(begin, BATCH)).  A std::list is a ring through its end
\* node, so stepping past the end comes round to the front again: with fewer
\* than BATCH items this erases BATCH modulo the number of nodes.
Erased == IF data_pool >= BATCH THEN BATCH ELSE BATCH % (data_pool + 1)

TakeUnwrapped ==
    /\ consumer = "woken"
    /\ ~end_flag
    /\ data_pool' = data_pool - BATCH
    /\ consumed' = consumed + BATCH
    /\ consumer' = "start"
    /\ UNCHANGED <<end_flag, producer, rounds>>

\* The wait has returned and end_flag is down.
Take ==
    /\ consumer = "woken"
    /\ ~end_flag
    /\ data_pool' = data_pool - Erased
    /\ consumed' = consumed + Erased
    /\ consumer' = "start"
    /\ UNCHANGED <<end_flag, producer, rounds>>

\* The wait has returned and end_flag is up: break, which unlocks.
Quit ==
    /\ consumer = "woken"
    /\ end_flag
    /\ consumer' = "drain"
    /\ UNCHANGED <<data_pool, end_flag, producer, rounds, consumed>>

\* After the loop, without the lock.
Drain ==
    /\ consumer = "drain"
    /\ consumed' = consumed + data_pool
    /\ data_pool' = 0
    /\ consumer' = "done"
    /\ UNCHANGED <<end_flag, producer, rounds>>

ConsumerStep == Wait \/ Take \/ Quit \/ Drain

-----------------------------------------------------------------------------
\* The drain runs without protecter, which is only right because the producer
\* raises end_flag after its last push: from the drain on no push can come, and
\* when the consumer finishes, everything ever produced has been consumed.
DrainedCompletely ==
    /\ consumer \in {"drain", "done"} => producer # "loop"
    /\ consumer = "done" => data_pool = 0 /\ consumed = CHUNK * rounds
=============================================================================
