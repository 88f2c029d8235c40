--------------------------- MODULE PollingConsumer ---------------------------
(***************************************************************************)
(* code/concurrent/1p1c_mutex.cpp: producer and consumer with a mutex and  *)
(* no condition variable.  The producer pushes one item per round; the     *)
(* consumer takes the last one, if any, and sleeps, until it sees          *)
(* end_flag.  CHUNK stands for one item here.                              *)
(***************************************************************************)
EXTENDS BatchProducer

Push ==
    /\ producer = "loop"
    /\ rounds < MaxRounds
    /\ rounds' = rounds + 1
    /\ data_pool' = data_pool + CHUNK
    /\ UNCHANGED <<end_flag, producer, consumer, consumed>>

\* do ... while: the first push comes before the first look at the clock.
Stop ==
    /\ producer = "loop"
    /\ rounds > 0
    /\ end_flag' = TRUE
    /\ producer' = "done"
    /\ UNCHANGED <<data_pool, consumer, rounds, consumed>>

While ==
    /\ consumer = "start"
    /\ consumer' = IF end_flag THEN "done" ELSE "lock"
    /\ UNCHANGED <<data_pool, end_flag, producer, rounds, consumed>>

\* The block under lock_guard.
Pop ==
    /\ consumer = "lock"
    /\ consumer' = "start"
    /\ IF data_pool # 0
       THEN data_pool' = data_pool - CHUNK /\ consumed' = consumed + CHUNK
       ELSE UNCHANGED <<data_pool, consumed>>
    /\ UNCHANGED <<end_flag, producer, rounds>>

ConsumerStep == While \/ Pop

-----------------------------------------------------------------------------
\* The consumer stops at the first look at end_flag, so it may leave items
\* behind, but it always ends, and the producer has pushed its last by then.
ConsumerEnds == <>(consumer = "done" /\ producer = "done")
=============================================================================
