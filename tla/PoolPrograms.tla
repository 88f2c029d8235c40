---------------------------- MODULE PoolPrograms ----------------------------
(***************************************************************************)
(* The programs of code/concurrent in which threads share a pool of data;  *)
(* which one runs is chosen at the start.                                  *)
(*                                                                         *)
(*   1p1c        wait without a predicate             BatchWait            *)
(*   1p1c_cv     wait with a predicate                BatchWaitIf          *)
(*   1p1c_mutex  a mutex and polling                  PollingConsumer      *)
(*   1w_nr       one writer, many readers, a cleaner  OneWriter            *)
(*   tiny_rwc    one writer, polling readers          TinyReaders          *)
(*   rw          a counter behind two locks           SharedCounter        *)
(*   sum         ranges of data for a thread pool     ChunkSum             *)
(***************************************************************************)
EXTENDS BatchProducer

CONSTANTS
    Cores, Lines, warn_threshhold, MaxReads,     \* of OneWriter
    TinyReads, FileLines, threshold, max_size,   \* of TinyReaders
    Getters, Writers, Unlocked, UINT,            \* of SharedCounter
    Lengths, batch_size, thread_count, Mantissa  \* of ChunkSum

ASSUME PoolAssumption ==
    /\ {Lines, warn_threshhold, MaxReads, FileLines} \subseteq Nat
    /\ threshold \in Nat /\ max_size \in Nat /\ threshold < max_size
    /\ Cores \subseteq Nat /\ Mantissa \in Nat /\ Lengths \subseteq 0 .. Mantissa - 1
    /\ {batch_size, thread_count} \subseteq Nat \ {0}
    /\ UINT \in Nat \ {0} /\ Unlocked \notin Getters \cup Writers /\ Getters \cap Writers = {}

VARIABLES
    program,
    reader_count, data_list, pool_size, stray, line, writer, reader, clear,
    aready_read, write_end_flag, clear_end_flag, crashed, cleared, lost, seen, extra,
    tiny_pool, do_write, index, sharing, ended,
    mtx, value_, at, got, shown,
    local_size, maximum_thread, mt, start, offset, epoch_count, tasks, worker, is_shutdown_

Plain == INSTANCE BatchWait
Guarded == INSTANCE BatchWaitIf
Polling == INSTANCE PollingConsumer
OneW == INSTANCE OneWriter
Tiny == INSTANCE TinyReaders WITH data_pool <- tiny_pool
Counter == INSTANCE SharedCounter
Sum == INSTANCE ChunkSum

oneVars == <<reader_count, data_list, pool_size, stray, line, writer, reader, clear,
             aready_read, write_end_flag, clear_end_flag, crashed, cleared, lost, seen, extra>>
tinyVars == <<tiny_pool, do_write, index, sharing, ended>>
counterVars == <<mtx, value_, at, got, shown>>
sumVars == <<local_size, maximum_thread, mt, start, offset, epoch_count, tasks, worker, is_shutdown_>>
others == <<oneVars, tinyVars, counterVars, sumVars>>
all == <<program, vars, others>>

PoolInit ==
    /\ program \in {"1p1c", "1p1c_cv", "1p1c_mutex", "1w_nr", "tiny_rwc", "rw", "sum"}
    /\ Init /\ OneW!Init /\ Tiny!Init /\ Counter!Init
    /\ Sum!Init
    /\ program # "sum" => <<local_size, maximum_thread>> = CHOOSE x \in Lengths \X Cores : TRUE
    /\ program # "1w_nr" => reader_count = (CHOOSE n \in Cores : TRUE) - 2

-----------------------------------------------------------------------------
(* The producer and consumer programs *)

Consume ==
    \/ program = "1p1c" /\ Plain!ConsumerStep
    \/ program = "1p1c_cv" /\ Guarded!ConsumerStep
    \/ program = "1p1c_mutex" /\ Polling!ConsumerStep

Wakeup ==
    \/ program = "1p1c" /\ Plain!SpuriousWakeup
    \/ program = "1p1c_cv" /\ Guarded!SpuriousWakeup

Supply ==
    \/ program \in {"1p1c", "1p1c_cv"} /\ ProducerStep
    \/ program = "1p1c_mutex" /\ (Polling!Push \/ Polling!Stop)

TimeIsUp ==
    \/ program \in {"1p1c", "1p1c_cv"} /\ (End \/ EndNotify)
    \/ program = "1p1c_mutex" /\ (Polling!Stop \/ (rounds = 0 /\ Polling!Push))

Batch(step) == step /\ UNCHANGED <<program, others>>

Summing(step) ==
    program = "sum" /\ step /\ UNCHANGED <<program, vars, oneVars, tinyVars, counterVars>>

-----------------------------------------------------------------------------
Next ==
    \/ Batch(Consume \/ Wakeup \/ Supply)
    \/ program = "1w_nr" /\ OneW!Next /\ UNCHANGED <<program, vars, tinyVars, counterVars, sumVars>>
    \/ program = "tiny_rwc" /\ Tiny!Next /\ UNCHANGED <<program, vars, oneVars, counterVars, sumVars>>
    \/ program = "rw" /\ Counter!Next /\ UNCHANGED <<program, vars, oneVars, tinyVars, sumVars>>
    \/ Summing(Sum!Next)

TinyReader(r) ==
    program = "tiny_rwc" /\ Tiny!ReaderStep(r) /\ UNCHANGED <<program, vars, oneVars, counterVars, sumVars>>

\* The producer's time runs out and both threads are scheduled; so are the
\* readers of tiny_rwc, whom only the writer's short sections can delay.  Nothing
\* is assumed of that writer, which the readers may keep from its lock.
Spec ==
    /\ PoolInit
    /\ [][Next]_all
    /\ WF_all(Batch(Consume))
    /\ WF_all(Batch(TimeIsUp) \/ Summing(Sum!MainStep))
    /\ \A r \in TinyReads : WF_all(TinyReader(r))

-----------------------------------------------------------------------------
\* No item is consumed twice or vanishes: what 1p1c's unlocked drain and the
\* erase past a short list's end take is still accounted for and was there, and
\* 1p1c ends with an empty pool; in 1p1c_cv only whole batches are taken before
\* the end.
NothingVanishes ==
    /\ data_pool >= 0
    /\ consumed + data_pool = CHUNK * rounds
    /\ program = "1p1c" => Plain!DrainedCompletely
    /\ program = "1p1c_cv" => Guarded!WholeBatches

\* In 1p1c_cv the consumer is never asleep while a full batch is in the pool.
NoSleepOnFullBatch == program = "1p1c_cv" => Guarded!NoSleepOnFullBatch

\* The producer's final notification, sent without the lock, ends a consumer that
\* is already blocked; the polling consumer always ends.  (A consumer of 1p1c or
\* 1p1c_cv that has not reached its wait by then sleeps for ever.)
EndReachesConsumer ==
    /\ (producer = "notify" /\ consumer = "wait") ~> consumer = "done"
    /\ program = "1p1c_mutex" => Polling!ConsumerEnds

\* In tiny_rwc every line that is appended reaches every reader, however long the
\* writer sleeps, unless main ends the process; sum comes to its end.
LinesReadSumEnds == Tiny!EveryLineRead /\ (program = "sum" => Sum!SumEnds)

\* The ranges sum hands to its pool tile the data.
RangesTile == program = "sum" => Sum!RangesTile

\* In 1w_nr a line is removed after exactly reader_count reads counted for it.
ReadsAccountedFor == OneW!ReadsAccountedFor

\* The pool of tiny_rwc stops at threshold, and the lines rw prints are in the
\* order of the calls.
LimitsAndOrder == Tiny!StopsAtThreshold /\ Counter!ShownInOrder
=============================================================================
