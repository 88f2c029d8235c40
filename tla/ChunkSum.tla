------------------------------ MODULE ChunkSum ------------------------------
(***************************************************************************)
(* code/concurrent/sum.cpp: manual_mt cuts its data into ranges and gives  *)
(* one task for each to a fixed_thread_pool of its own.  The tasks only    *)
(* sleep and print, so that nothing ever comes back (the comment on line   *)
(* 189 says that it does not work); the numbers summed are left out.       *)
(***************************************************************************)
EXTENDS Integers, Sequences, FiniteSets

CONSTANTS
    Lengths,       \* sizes of the data to try
    batch_size,    \* 3000
    thread_count,  \* 12, before it is adjusted
    Mantissa,      \* 2^24: the whole numbers below it are floats
    Cores          \* values of hardware_concurrency(): 0 when it is unknown

VARIABLES
    local_size,    \* local_date.size()
    maximum_thread,
    mt,            \* where manual_mt stands: pool, while, execute, notify, swap, destroy, return, end; or terminated
    start, offset, epoch_count,
    tasks, worker, is_shutdown_

vars == <<local_size, maximum_thread, mt, start, offset, epoch_count, tasks, worker, is_shutdown_>>

Init ==
    /\ local_size \in Lengths /\ maximum_thread \in Cores
    /\ mt = "pool"
    /\ start = 0 /\ offset = 0 /\ epoch_count = 0
    /\ tasks = <<>> /\ worker = <<>> /\ is_shutdown_ = FALSE

Adjusted == IF thread_count >= maximum_thread THEN maximum_thread - 1 ELSE thread_count

\* The pool's constructor takes a size_t: -1 asks for more threads than there can
\* be, and std::thread throws.
Construct ==
    /\ mt = "pool"
    /\ IF Adjusted < 0
       THEN mt' = "terminated" /\ UNCHANGED worker
       ELSE mt' = "while" /\ worker' = [w \in 1 .. Adjusted |-> "test"]
    /\ UNCHANGED <<local_size, maximum_thread, start, offset, epoch_count, tasks, is_shutdown_>>

FirstOffset(size) == size % batch_size

\* The first range takes what does not fill a batch; the others are batches.
Offset(size) == IF size % batch_size = 0 THEN batch_size ELSE size % batch_size

\* The quotient local_size / batch_size is a float: it is m / s for the power of two
\* s that the mantissa has room for, and m the whole number nearest to the exact
\* value, either one of two.
FloatQuotients(size) ==
    {q \in [m : 0 .. Mantissa, s : 1 .. Mantissa] :
        /\ \E i \in 0 .. q.s : q.s = 2^i
        /\ q.s * size < Mantissa * batch_size /\ 2 * q.s * size >= Mantissa * batch_size
        /\ 2 * (q.m * batch_size - q.s * size) \in -batch_size .. batch_size}

While ==
    /\ mt = "while"
    /\ IF local_size >= batch_size
       THEN /\ \E q \in FloatQuotients(local_size) : epoch_count' = (q.m + q.s - 1) \div q.s
            /\ offset' = Offset(local_size)
            /\ start' = 0
            /\ mt' = "execute"
       ELSE mt' = "destroy" /\ UNCHANGED <<start, offset, epoch_count>>
    /\ UNCHANGED <<local_size, maximum_thread, tasks, worker, is_shutdown_>>

Execute ==
    /\ mt = "execute"
    /\ tasks' = Append(tasks, <<start, offset>>)
    /\ mt' = "notify"
    /\ UNCHANGED <<local_size, maximum_thread, start, offset, epoch_count, worker, is_shutdown_>>

notify_one ==
    \/ \E w \in DOMAIN worker : worker[w] = "wait" /\ worker' = [worker EXCEPT ![w] = "test"]
    \/ (\A w \in DOMAIN worker : worker[w] # "wait") /\ UNCHANGED worker

\* The notification, start += offset, and the test of --epoch_count.
Advance ==
    /\ mt = "notify"
    /\ notify_one
    /\ start' = start + offset
    /\ offset' = batch_size
    /\ epoch_count' = epoch_count - 1
    /\ mt' = IF epoch_count' = 0 THEN "swap" ELSE "execute"
    /\ UNCHANGED <<local_size, maximum_thread, tasks, is_shutdown_>>

\* next_data, to which no task adds anything.
Swap ==
    /\ mt = "swap"
    /\ local_size' = 0
    /\ mt' = "while"
    /\ UNCHANGED <<maximum_thread, start, offset, epoch_count, tasks, worker, is_shutdown_>>

\* ~fixed_thread_pool, after 100 ms: the threads are detached, so it does not wait.
Destroy ==
    /\ mt = "destroy"
    /\ is_shutdown_' = TRUE
    /\ worker' = [w \in DOMAIN worker |-> IF worker[w] = "wait" THEN "test" ELSE worker[w]]
    /\ mt' = "return"
    /\ UNCHANGED <<local_size, maximum_thread, start, offset, epoch_count, tasks>>

\* main returns, and the threads end with it.
Return ==
    /\ mt = "return" /\ mt' = "end"
    /\ UNCHANGED <<local_size, maximum_thread, start, offset, epoch_count, tasks, worker, is_shutdown_>>

\* One turn of a pool thread's loop, under the lock; a task runs without it.
Work(w) ==
    /\ mt # "end" /\ worker[w] = "test"
    /\ \/ tasks # <<>> /\ tasks' = Tail(tasks) /\ worker' = [worker EXCEPT ![w] = "run"]
       \/ /\ tasks = <<>> /\ UNCHANGED tasks
          /\ worker' = [worker EXCEPT ![w] = IF is_shutdown_ THEN "exit" ELSE "wait"]
    /\ UNCHANGED <<local_size, maximum_thread, mt, start, offset, epoch_count, is_shutdown_>>

\* A task ends, or a wait ends spuriously.
Resume(w) ==
    /\ mt # "end" /\ worker[w] \in {"run", "wait"}
    /\ worker' = [worker EXCEPT ![w] = "test"]
    /\ UNCHANGED <<local_size, maximum_thread, mt, start, offset, epoch_count, tasks, is_shutdown_>>

MainStep == Construct \/ While \/ Execute \/ Advance \/ Swap \/ Destroy \/ Return

Next == MainStep \/ \E w \in DOMAIN worker : Work(w) \/ Resume(w)

-----------------------------------------------------------------------------
\* The ranges tile the data: what is left is one range of offset elements and
\* whole batches for the remaining rounds, none reaches past the end, and the last
\* one ends there.
RangesTile ==
    /\ mt = "execute" => start + offset + (epoch_count - 1) * batch_size = local_size
    /\ mt \in {"execute", "notify"} => offset \in 1 .. batch_size /\ start + offset <= local_size
    /\ mt = "swap" => start = local_size

\* manual_mt comes to its end with any number of workers, none included: nothing
\* in it waits for a task.  Only where the number of cores is unknown does the
\* adjusted thread count end the program instead.
SumEnds == <>(mt = "end" \/ (mt = "terminated" /\ maximum_thread = 0))
=============================================================================
