----------------------------- MODULE CommitPool -----------------------------
(***************************************************************************)
(* class std::threadpool (code/boost_doc/Function/threadpool.cpp): commit  *)
(* queues a packaged_task and returns its future; the destructor sets the  *)
(* atomic stoped WITHOUT holding m_lock, notifies once and joins.  A       *)
(* running task may itself call commit.                                    *)
(***************************************************************************)
EXTENDS Sequences, FiniteSets, Integers

CONSTANTS
    Workers,   \* the threads in pool
    Callers,   \* the other threads that call commit
    Tasks,     \* the packaged_tasks, each committed at most once
    Free       \* m_lock has no owner; a thread has no task in hand

ASSUME PoolAssumption ==
    /\ Workers # {}
    /\ IsFiniteSet(Workers)
    /\ Free \notin Workers \cup Tasks

VARIABLES
    m_lock, waiters, stoped, tasks, idlThrNum,
    pc,        \* where each worker is
    task,      \* the task a worker has taken
    commits,   \* where each thread is in commit: idle, push or notify
    owner,     \* the destructor: alive, notify, join, destroyed
    future     \* each task's future; "called": inside commit, not queued yet

vars == <<m_lock, waiters, stoped, tasks, idlThrNum, pc, task, commits, owner, future>>

Threads == Workers \cup Callers

Goto(w, from, to) == pc[w] = from /\ pc' = [pc EXCEPT ![w] = to]

Init ==
    /\ m_lock = Free
    /\ waiters = {}
    /\ stoped = FALSE
    /\ tasks = <<>>
    /\ idlThrNum = Cardinality(Workers)
    /\ pc = [w \in Workers |-> "while"]
    /\ task = [w \in Workers |-> Free]
    /\ commits = [c \in Threads |-> "idle"]
    /\ owner = "alive"
    /\ future = [t \in Tasks |-> "none"]

-----------------------------------------------------------------------------
(* The worker's lambda *)

\* while(!this->stoped): the flag is read with no lock held.
While(w) ==
    /\ Goto(w, "while", IF stoped THEN "exited" ELSE "lock")
    /\ UNCHANGED <<m_lock, waiters, stoped, tasks, idlThrNum, task, commits, owner, future>>

\* unique_lock, and relocking when a wait returns.
Lock(w) ==
    /\ m_lock = Free
    /\ m_lock' = w
    /\ Goto(w, "lock", "test")
    /\ UNCHANGED <<waiters, stoped, tasks, idlThrNum, task, commits, owner, future>>

\* The predicate of cv_task.wait, evaluated under m_lock.
Predicate(w) ==
    /\ Goto(w, "test", IF stoped \/ tasks # <<>> THEN "take" ELSE "block")
    /\ UNCHANGED <<m_lock, waiters, stoped, tasks, idlThrNum, task, commits, owner, future>>

\* The predicate was false: release m_lock and block.
Block(w) ==
    /\ Goto(w, "block", "wait")
    /\ m_lock' = Free
    /\ waiters' = waiters \cup {w}
    /\ UNCHANGED <<stoped, tasks, idlThrNum, task, commits, owner, future>>

SpuriousWakeup(w) ==
    /\ w \in waiters
    /\ waiters' = waiters \ {w}
    /\ Goto(w, "wait", "lock")
    /\ UNCHANGED <<m_lock, stoped, tasks, idlThrNum, task, commits, owner, future>>

\* if (stoped && tasks.empty()) return
Return(w) ==
    /\ stoped
    /\ tasks = <<>>
    /\ Goto(w, "take", "exited")
    /\ m_lock' = Free
    /\ UNCHANGED <<waiters, stoped, tasks, idlThrNum, task, commits, owner, future>>

TakeWithoutPop(w) ==
    /\ tasks # <<>>
    /\ Goto(w, "take", "dec")
    /\ task' = [task EXCEPT ![w] = Head(tasks)]
    /\ m_lock' = Free
    /\ UNCHANGED <<waiters, stoped, tasks, idlThrNum, commits, owner, future>>

\* task = std::move(tasks.front()); tasks.pop(); end of the locked block
Take(w) ==
    /\ tasks # <<>>
    /\ Goto(w, "take", "dec")
    /\ task' = [task EXCEPT ![w] = Head(tasks)]
    /\ tasks' = Tail(tasks)
    /\ m_lock' = Free
    /\ UNCHANGED <<waiters, stoped, idlThrNum, commits, owner, future>>

Busy(w) ==
    /\ Goto(w, "dec", "run")
    /\ idlThrNum' = idlThrNum - 1
    /\ UNCHANGED <<m_lock, waiters, stoped, tasks, task, commits, owner, future>>

\* task() returns: the packaged_task makes its future ready.
Run(w) ==
    /\ Goto(w, "run", "inc")
    /\ commits[w] = "idle"
    /\ future' = [future EXCEPT ![task[w]] = "ready"]
    /\ task' = [task EXCEPT ![w] = Free]
    /\ UNCHANGED <<m_lock, waiters, stoped, tasks, idlThrNum, commits, owner>>

Idle(w) ==
    /\ Goto(w, "inc", "while")
    /\ idlThrNum' = idlThrNum + 1
    /\ UNCHANGED <<m_lock, waiters, stoped, tasks, task, commits, owner, future>>

-----------------------------------------------------------------------------
(* commit, called by a caller while the pool lives or by a running task *)

MayCommit(c) ==
    /\ commits[c] = "idle"
    /\ IF c \in Workers THEN pc[c] = "run" ELSE owner = "alive"

\* if (stoped.load()) throw: the caller gets no future.
CommitTest(c, t) ==
    /\ MayCommit(c)
    /\ ~stoped
    /\ future[t] = "none"
    /\ future' = [future EXCEPT ![t] = "called"]
    /\ commits' = [commits EXCEPT ![c] = "push"]
    /\ UNCHANGED <<m_lock, waiters, stoped, tasks, idlThrNum, pc, task, owner>>

CommitRejected(c, t) ==
    /\ MayCommit(c)
    /\ stoped
    /\ future[t] = "none"
    /\ future' = [future EXCEPT ![t] = "rejected"]
    /\ UNCHANGED <<m_lock, waiters, stoped, tasks, idlThrNum, pc, task, commits, owner>>

CommitPush(c, t) ==
    /\ commits[c] = "push"
    /\ future[t] = "called"
    /\ m_lock = Free
    /\ tasks' = Append(tasks, t)
    /\ future' = [future EXCEPT ![t] = "pending"]
    /\ commits' = [commits EXCEPT ![c] = "notify"]
    /\ UNCHANGED <<m_lock, waiters, stoped, idlThrNum, pc, task, owner>>

ForgetNotify(c) ==
    /\ commits[c] = "notify"
    /\ commits' = [commits EXCEPT ![c] = "idle"]
    /\ UNCHANGED <<m_lock, waiters, stoped, tasks, idlThrNum, pc, task, owner, future>>

Wake(ws) ==
    /\ waiters' = waiters \ ws
    /\ pc' = [w \in Workers |-> IF w \in ws THEN "lock" ELSE pc[w]]

CommitNotify(c) ==
    /\ commits[c] = "notify"
    /\ IF waiters = {} THEN Wake({}) ELSE \E w \in waiters : Wake({w})
    /\ commits' = [commits EXCEPT ![c] = "idle"]
    /\ UNCHANGED <<m_lock, stoped, tasks, idlThrNum, task, owner, future>>

-----------------------------------------------------------------------------
(* ~threadpool, run when no caller is inside commit *)

Stop ==
    /\ owner = "alive"
    /\ \A c \in Callers : commits[c] = "idle"
    /\ stoped' = TRUE
    /\ owner' = "notify"
    /\ UNCHANGED <<m_lock, waiters, tasks, idlThrNum, pc, task, commits, future>>

StopNotify ==
    /\ owner = "notify"
    /\ Wake(waiters)
    /\ owner' = "join"
    /\ UNCHANGED <<m_lock, stoped, tasks, idlThrNum, task, commits, future>>

\* Destroying the queue destroys its packaged_tasks and breaks their promises.
Destroyed ==
    /\ owner' = "destroyed"
    /\ future' = [t \in Tasks |->
                    IF \E i \in DOMAIN tasks : tasks[i] = t THEN "broken" ELSE future[t]]
    /\ tasks' = <<>>
    /\ UNCHANGED <<m_lock, waiters, stoped, idlThrNum, pc, task, commits>>

\* thread.join() on every element of pool, then the members are destroyed.
Join == owner = "join" /\ (\A w \in Workers : pc[w] = "exited") /\ Destroyed

-----------------------------------------------------------------------------
WorkerStep(w) ==
    \/ While(w) \/ Lock(w) \/ Predicate(w) \/ Block(w) \/ Return(w) \/ Take(w)
    \/ Busy(w) \/ Run(w) \/ Idle(w)

CommitStep(c) == CommitNotify(c) \/ \E t \in Tasks : CommitPush(c, t)

Next ==
    \/ \E w \in Workers : WorkerStep(w) \/ SpuriousWakeup(w)
    \/ \E c \in Threads : CommitStep(c) \/ \E t \in Tasks : CommitTest(c, t) \/ CommitRejected(c, t)
    \/ Stop
    \/ StopNotify
    \/ Join

\* Every thread that can take its next step keeps being scheduled; nobody has
\* to commit or to destroy the pool, and no spurious wake-up has to come.  A
\* thread that keeps finding m_lock free in the end acquires it.
Fairness ==
    /\ \A w \in Workers : WF_vars(WorkerStep(w)) /\ SF_vars(Lock(w))
    /\ \A c \in Threads : SF_vars(CommitStep(c))
    /\ WF_vars(StopNotify)
    /\ WF_vars(Join)

Spec == Init /\ [][Next]_vars /\ Fairness

-----------------------------------------------------------------------------
\* A future is pending exactly while its task is in the queue or in the hands
\* of one worker, and it is there once: no task is run twice or forgotten.
PendingAccountedFor ==
    \A t \in Tasks :
        Cardinality({i \in DOMAIN tasks : tasks[i] = t} \cup {w \in Workers : task[w] = t})
            = (IF future[t] = "pending" THEN 1 ELSE 0)

\* While the pool is not stopped, queued work has an awake worker or a
\* notification on its way.
NoLostWakeup ==
    (tasks # <<>> /\ ~stoped) =>
        \/ \E w \in Workers : pc[w] \notin {"block", "wait", "exited"}
        \/ \E c \in Threads : commits[c] = "notify"

\* Unless the pool is destroyed, every committed task is eventually run.
FutureReady ==
    \A t \in Tasks : future[t] = "pending" ~> (future[t] = "ready" \/ stoped)

\* The comment on commit: get() waits for the task to be executed and yields
\* its value, so a future that was handed out is never broken.
GetAlwaysYields == \A t \in Tasks : future[t] # "broken"

\* The comment on join: the threads will certainly run to their end, so the
\* destructor comes back.
DestructorReturns == owner = "join" ~> owner = "destroyed"
=============================================================================
