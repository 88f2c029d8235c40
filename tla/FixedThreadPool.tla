--------------------------- MODULE FixedThreadPool ---------------------------
(***************************************************************************)
(* class fixed_thread_pool (code/concurrent/threadpool.cpp, and the same   *)
(* class again in code/concurrent/sum.cpp): detached workers share a queue *)
(* guarded by mtx_ and sleep on cond_; the destructor raises is_shutdown_  *)
(* and wakes everybody.                                                    *)
(*                                                                         *)
(* A worker keeps mtx_ across several steps.  The block that execute and   *)
(* the destructor run under a lock_guard is one step, taken when mtx_ is   *)
(* free; the notification that follows it, outside the lock, is another.   *)
(***************************************************************************)
EXTENDS Sequences, FiniteSets, Naturals

CONSTANTS
    Workers,   \* the threads the constructor starts
    Callers,   \* the threads that call execute
    Tasks,     \* the function objects handed to execute, each of them once
    Free       \* "no thread owns mtx_", and "this worker holds no task"

ASSUME WorkersAssumption == Workers # {} /\ IsFiniteSet(Workers)
ASSUME FreeAssumption == Free \notin Workers \cup Tasks

VARIABLES
    mtx_,          \* the owner of the mutex, or Free
    cond_,         \* the workers blocked in cond_.wait
    is_shutdown_,
    tasks_,
    pc,            \* where each worker is: see WorkerStates
    current,       \* the task a worker has moved out of the queue
    caller,        \* "idle", or "notify" between the unlock and notify_one
    owner,         \* "alive", "notify" inside the destructor, "destroyed"
    accepted,      \* history: the tasks pushed, in order
    taken,         \* history: the tasks popped, in order
    done           \* history: the tasks that have been run

vars == <<mtx_, cond_, is_shutdown_, tasks_, pc, current, caller, owner,
          accepted, taken, done>>

shared == <<is_shutdown_, tasks_, caller, owner, accepted, taken, done>>

\* lock: about to acquire mtx_; loop: owns it, at the top of for(;;);
\* block: owns it, about to call cond_.wait; wait: inside cond_.wait;
\* run: inside current(); exited: left the loop.
WorkerStates == {"lock", "loop", "block", "wait", "run", "exited"}

Elems(s) == {s[i] : i \in DOMAIN s}

Init ==
    /\ mtx_ = Free
    /\ cond_ = {}
    /\ is_shutdown_ = FALSE
    /\ tasks_ = <<>>
    /\ pc = [w \in Workers |-> "lock"]
    /\ current = [w \in Workers |-> Free]
    /\ caller = [c \in Callers |-> "idle"]
    /\ owner = "alive"
    /\ accepted = <<>>
    /\ taken = <<>>
    /\ done = {}

-----------------------------------------------------------------------------
(* The worker's lambda *)

Lock(w) ==
    /\ pc[w] = "lock"
    /\ mtx_ = Free
    /\ mtx_' = w
    /\ pc' = [pc EXCEPT ![w] = "loop"]
    /\ UNCHANGED <<shared, cond_, current>>

TakeWithoutPop(w) ==
    /\ pc[w] = "loop"
    /\ tasks_ # <<>>
    /\ current' = [current EXCEPT ![w] = Head(tasks_)]
    /\ taken' = Append(taken, Head(tasks_))
    /\ Len(taken) < Cardinality(Tasks)
    /\ mtx_' = Free
    /\ pc' = [pc EXCEPT ![w] = "run"]
    /\ UNCHANGED <<cond_, is_shutdown_, tasks_, caller, owner, accepted, done>>

\* if (!tasks_.empty()): move the front out, pop it, unlock.
Take(w) ==
    /\ pc[w] = "loop"
    /\ tasks_ # <<>>
    /\ current' = [current EXCEPT ![w] = Head(tasks_)]
    /\ tasks_' = Tail(tasks_)
    /\ taken' = Append(taken, Head(tasks_))
    /\ mtx_' = Free
    /\ pc' = [pc EXCEPT ![w] = "run"]
    /\ UNCHANGED <<cond_, is_shutdown_, caller, owner, accepted, done>>

Run(w) ==
    /\ pc[w] = "run"
    /\ done' = done \cup {current[w]}
    /\ current' = [current EXCEPT ![w] = Free]
    /\ pc' = [pc EXCEPT ![w] = "lock"]
    /\ UNCHANGED <<mtx_, cond_, is_shutdown_, tasks_, caller, owner, accepted, taken>>

\* What breaking out of the loop does: the unique_lock's destructor unlocks.
Leave(w) ==
    /\ mtx_' = Free
    /\ pc' = [pc EXCEPT ![w] = "exited"]
    /\ UNCHANGED <<shared, cond_, current>>

BreakWithWorkLeft(w) == pc[w] = "loop" /\ is_shutdown_ /\ Leave(w)

\* else if (is_shutdown_) break
Break(w) == pc[w] = "loop" /\ tasks_ = <<>> /\ is_shutdown_ /\ Leave(w)

\* else: the worker has made up its mind to wait and still owns mtx_.
Decide(w) ==
    /\ pc[w] = "loop"
    /\ tasks_ = <<>>
    /\ ~is_shutdown_
    /\ pc' = [pc EXCEPT ![w] = "block"]
    /\ UNCHANGED <<shared, mtx_, cond_, current>>

\* cond_.wait(lk) releases mtx_ and blocks in one step.
Wait(w) ==
    /\ pc[w] = "block"
    /\ cond_' = cond_ \cup {w}
    /\ mtx_' = Free
    /\ pc' = [pc EXCEPT ![w] = "wait"]
    /\ UNCHANGED <<shared, current>>

\* A wait may return with no notification; the loop tests everything again.
SpuriousWakeup(w) ==
    /\ w \in cond_
    /\ cond_' = cond_ \ {w}
    /\ pc' = [pc EXCEPT ![w] = "lock"]
    /\ UNCHANGED <<shared, mtx_, current>>

-----------------------------------------------------------------------------
(* The calling threads and the thread that owns the pool *)

Woken(ws) == [w \in Workers |-> IF w \in ws THEN "lock" ELSE pc[w]]

\* notify_one: any one waiter, or nobody when there is none.
notify_one ==
    \/ /\ cond_ = {}
       /\ UNCHANGED <<cond_, pc>>
    \/ \E w \in cond_ : cond_' = cond_ \ {w} /\ pc' = Woken({w})

notify_all == cond_' = {} /\ pc' = Woken(cond_)

\* The locked block of execute.
Execute(c, t) ==
    /\ owner = "alive"
    /\ caller[c] = "idle"
    /\ t \notin Elems(accepted)
    /\ mtx_ = Free
    /\ tasks_' = Append(tasks_, t)
    /\ accepted' = Append(accepted, t)
    /\ caller' = [caller EXCEPT ![c] = "notify"]
    /\ UNCHANGED <<mtx_, cond_, is_shutdown_, pc, current, owner, taken, done>>

ForgetNotify(c) ==
    /\ caller[c] = "notify"
    /\ caller' = [caller EXCEPT ![c] = "idle"]
    /\ UNCHANGED <<mtx_, cond_, is_shutdown_, tasks_, pc, current, owner, accepted, taken, done>>

\* cond_.notify_one() after the block, with mtx_ released.
ExecuteNotify(c) ==
    /\ caller[c] = "notify"
    /\ notify_one
    /\ caller' = [caller EXCEPT ![c] = "idle"]
    /\ UNCHANGED <<mtx_, is_shutdown_, tasks_, current, owner, accepted, taken, done>>

\* The locked block of ~fixed_thread_pool; no call of execute is in progress.
Shutdown ==
    /\ owner = "alive"
    /\ \A c \in Callers : caller[c] = "idle"
    /\ mtx_ = Free
    /\ is_shutdown_' = TRUE
    /\ owner' = "notify"
    /\ UNCHANGED <<mtx_, cond_, tasks_, pc, current, caller, accepted, taken, done>>

ShutdownNotifyOne ==
    /\ owner = "notify"
    /\ notify_one
    /\ owner' = "destroyed"
    /\ UNCHANGED <<mtx_, is_shutdown_, tasks_, current, caller, accepted, taken, done>>

ShutdownNotify ==
    /\ owner = "notify"
    /\ notify_all
    /\ owner' = "destroyed"
    /\ UNCHANGED <<mtx_, is_shutdown_, tasks_, current, caller, accepted, taken, done>>

-----------------------------------------------------------------------------
WorkerStep(w) == Lock(w) \/ Take(w) \/ Run(w) \/ Break(w) \/ Decide(w) \/ Wait(w)

\* Every worker has left its loop: the only state with nothing left to do.
Terminated ==
    /\ \A w \in Workers : pc[w] = "exited"
    /\ UNCHANGED vars

Next ==
    \/ \E w \in Workers : WorkerStep(w) \/ SpuriousWakeup(w)
    \/ \E c \in Callers : ExecuteNotify(c) \/ \E t \in Tasks : Execute(c, t)
    \/ Shutdown
    \/ ShutdownNotify
    \/ Terminated

\* Threads that have something to do are scheduled.  Nobody has to call
\* execute or to destroy the pool, and a spurious wake-up need not happen.
Fairness ==
    /\ \A w \in Workers : WF_vars(WorkerStep(w))
    /\ \A c \in Callers : WF_vars(ExecuteNotify(c))
    /\ WF_vars(ShutdownNotify)

Spec == Init /\ [][Next]_vars /\ Fairness

-----------------------------------------------------------------------------
\* The pool's state keeps its types through every interleaving of workers, execute
\* and the destructor.
TypeOK ==
    /\ mtx_ \in Workers \cup {Free}
    /\ cond_ \in SUBSET Workers
    /\ is_shutdown_ \in BOOLEAN
    /\ tasks_ \in Seq(Tasks)
    /\ pc \in [Workers -> WorkerStates]
    /\ current \in [Workers -> Tasks \cup {Free}]
    /\ caller \in [Callers -> {"idle", "notify"}]
    /\ owner \in {"alive", "notify", "destroyed"}
    /\ accepted \in Seq(Tasks)
    /\ taken \in Seq(Tasks)
    /\ done \in SUBSET Tasks

\* The queue hands tasks out in the order execute pushed them: what was pushed
\* is what was popped followed by what is still queued, with nothing lost,
\* repeated or overtaken, whatever the workers and the callers interleave.
FirstInFirstOut == accepted = taken \o tasks_

\* execute notifies after it has unlocked mtx_, and notify_one may find nobody
\* waiting.  Still, queued work never meets a pool that is fast asleep: either
\* some worker is on its way to the queue or a notification is about to come.
NoLostWakeup ==
    tasks_ # <<>> =>
        \/ \E w \in Workers : pc[w] \in {"lock", "loop", "run"}
        \/ \E c \in Callers : caller[c] = "notify"

\* Once the destructor has returned no worker is asleep or can fall asleep, so
\* none is left behind by the one and only notify_all.
ShutdownReachesAll == owner = "destroyed" => cond_ = {}

\* A worker leaves its loop only after shutdown and with the queue drained:
\* work accepted before the destructor is not dropped.
ExitOnlyDrained ==
    \A w \in Workers : pc[w] = "exited" => is_shutdown_ /\ tasks_ = <<>>

\* Every task given to execute is eventually run, pool destroyed or not.
EveryTaskRuns == \A t \in Tasks : t \in Elems(accepted) ~> t \in done

\* After the destructor every detached worker eventually ends.
WorkersEnd == owner = "notify" ~> \A w \in Workers : pc[w] = "exited"

\* The pool implements an executor of width |Workers|, fairness included: a
\* worker popping a task is a Start, its return from current() a Finish.
Executor == INSTANCE TaskExecutor WITH
    Tasks <- Tasks,
    Width <- Cardinality(Workers),
    queue <- tasks_,
    running <- {current[w] : w \in {v \in Workers : pc[v] = "run"}},
    finished <- done

ImplementsExecutor == Executor!Spec
=============================================================================
