------------------------- MODULE CommitPool_proofs -------------------------
(***************************************************************************)
(* Proofs that CommitPool loses no wake-up and no task, settles every      *)
(* future once and is an executor until it is destroyed, for any finite,   *)
(* non-empty set of workers and any callers and tasks.                     *)
(***************************************************************************)
EXTENDS CommitPool, FiniteSetTheorems, TLAPS

\* The provers tried on a leaf, in turn, and the time each of them gets.
USE SMTT(30), ZenonT(20), SMTT(31)

Types ==
    /\ waiters \subseteq Workers
    /\ stoped \in BOOLEAN
    /\ tasks \in Seq(Tasks)
    /\ pc \in [Workers -> {"while", "lock", "test", "block", "wait", "take", "dec", "run", "inc", "exited"}]
    /\ commits \in [Threads -> {"idle", "push", "notify"}]

\* The waiters of cv_task are the workers blocked in its wait.
Waiting == \A w \in Workers : w \in waiters <=> pc[w] = "wait"

\* Between the lock and the end of the block a worker owns m_lock.
OwnsLock == \A w \in Workers : pc[w] \in {"test", "block", "take"} => m_lock = w

\* What made a worker decide to wait is still true when it blocks.
DecisionHolds == \A w \in Workers : pc[w] = "block" => tasks = <<>>

\* Workers end only after stoped was set.
EndsStopped == \A w \in Workers : pc[w] = "exited" => stoped

IInv == Types /\ Waiting /\ OwnsLock /\ DecisionHolds /\ EndsStopped /\ NoLostWakeup

\* A new pool has no work, no waiter and every worker before its loop.
LEMMA Initially == Init => IInv
<1> SUFFICES ASSUME Init PROVE IInv OBVIOUS
<1>1. tasks \in Seq(Tasks) BY DEF Init
<1>2. Types BY <1>1, Zenon DEF Init, Types
<1>3. Waiting /\ OwnsLock /\ DecisionHolds /\ EndsStopped /\ NoLostWakeup
  BY DEF Init, Waiting, OwnsLock, DecisionHolds, EndsStopped, NoLostWakeup
<1> QED BY <1>2, <1>3 DEF IInv

\* The steps of a worker: only the one that holds m_lock decides and takes.
LEMMA WorkerKeeps ==
    ASSUME IInv, NEW w \in Workers, WorkerStep(w) \/ SpuriousWakeup(w) PROVE IInv'
<1> USE PoolAssumption DEF IInv, Goto
<1>1. CASE While(w)
  BY <1>1 DEF While, Types, Waiting, OwnsLock, DecisionHolds, EndsStopped, NoLostWakeup, Threads
<1>2. CASE Lock(w)
  BY <1>2 DEF Lock, Types, Waiting, OwnsLock, DecisionHolds, EndsStopped, NoLostWakeup, Threads
<1>3. CASE Predicate(w)
  <2>1. Types' /\ Waiting' /\ OwnsLock' /\ DecisionHolds' /\ EndsStopped'
    BY <1>3 DEF Predicate, Types, Waiting, OwnsLock, DecisionHolds, EndsStopped
  <2>2. NoLostWakeup' BY <1>3 DEF Predicate, Types, NoLostWakeup
  <2> QED BY <2>1, <2>2
<1>4. CASE Block(w)
  <2>1. Types' /\ Waiting' /\ DecisionHolds' /\ EndsStopped'
    BY <1>4 DEF Block, Types, Waiting, DecisionHolds, EndsStopped
  <2>2. OwnsLock' BY <1>4 DEF Block, Types, OwnsLock
  <2>3. NoLostWakeup' BY <1>4 DEF Block, DecisionHolds, NoLostWakeup
  <2> QED BY <2>1, <2>2, <2>3
<1>5. CASE Return(w)
  BY <1>5 DEF Return, Types, Waiting, OwnsLock, DecisionHolds, EndsStopped, NoLostWakeup, Threads
<1>6. CASE Take(w)
  <2>1. Tail(tasks) \in Seq(Tasks) BY <1>6 DEF Take, Types
  <2>2. Types' BY <1>6, <2>1 DEF Take, Types
  <2>3. Waiting' /\ OwnsLock' /\ EndsStopped' BY <1>6 DEF Take, Types, Waiting, OwnsLock, EndsStopped
  <2>4. DecisionHolds' BY <1>6 DEF Take, Types, OwnsLock, DecisionHolds
  <2>5. NoLostWakeup' BY <1>6 DEF Take, Types, NoLostWakeup
  <2> QED BY <2>2, <2>3, <2>4, <2>5
<1>7. CASE Busy(w) \/ Run(w) \/ Idle(w)
  BY <1>7 DEF Busy, Run, Idle, Types, Waiting, OwnsLock, DecisionHolds, EndsStopped, NoLostWakeup, Threads
<1>8. CASE SpuriousWakeup(w)
  BY <1>8 DEF SpuriousWakeup, Types, Waiting, OwnsLock, DecisionHolds, EndsStopped, NoLostWakeup, Threads
<1> QED BY <1>1, <1>2, <1>3, <1>4, <1>5, <1>6, <1>7, <1>8 DEF WorkerStep

\* commit: nothing is pushed while a worker that decided to wait holds m_lock, and
\* the notification finds a waiter or leaves somebody who has yet to test.
LEMMA CommitKeeps ==
    ASSUME IInv, NEW c \in Threads,
           CommitStep(c) \/ \E t \in Tasks : CommitTest(c, t) \/ CommitRejected(c, t)
    PROVE  IInv'
<1> USE PoolAssumption DEF IInv
<1>1. ASSUME NEW t \in Tasks, CommitTest(c, t) \/ CommitRejected(c, t) PROVE IInv'
  <2>1. Types' BY <1>1 DEF CommitTest, CommitRejected, Types
  <2>2. Waiting' /\ OwnsLock' /\ DecisionHolds' /\ EndsStopped'
    BY <1>1 DEF CommitTest, CommitRejected, Waiting, OwnsLock, DecisionHolds, EndsStopped
  <2>3. NoLostWakeup' BY <1>1 DEF CommitTest, CommitRejected, MayCommit, Types, NoLostWakeup
  <2> QED BY <2>1, <2>2, <2>3
<1>2. ASSUME NEW t \in Tasks, CommitPush(c, t) PROVE IInv'
  <2>1. Types' BY <1>2 DEF CommitPush, Types
  <2>2. Waiting' /\ OwnsLock' /\ EndsStopped' BY <1>2 DEF CommitPush, Waiting, OwnsLock, EndsStopped
  <2>3. DecisionHolds' BY <1>2 DEF CommitPush, OwnsLock, DecisionHolds
  <2>4. NoLostWakeup' BY <1>2 DEF CommitPush, Types, NoLostWakeup
  <2> QED BY <2>1, <2>2, <2>3, <2>4
<1>3. CASE CommitNotify(c)
  <2>1. CASE waiters = {}
    <3>1. Wake({}) /\ commits' = [commits EXCEPT ![c] = "idle"] /\ UNCHANGED <<m_lock, stoped, tasks>>
      BY <1>3, <2>1 DEF CommitNotify
    <3>2. UNCHANGED <<waiters, pc>> BY <3>1 DEF Wake, Types
    <3>3. Types' /\ Waiting' /\ OwnsLock' /\ DecisionHolds' /\ EndsStopped'
      BY <3>1, <3>2 DEF Types, Waiting, OwnsLock, DecisionHolds, EndsStopped
    <3>4. NoLostWakeup'
      <4> SUFFICES ASSUME tasks' # <<>>, ~stoped'
                   PROVE  \E w \in Workers : pc'[w] \notin {"block", "wait", "exited"}
        BY DEF NoLostWakeup
      <4>1. PICK w \in Workers : TRUE OBVIOUS
      <4>2. pc[w] \notin {"block", "wait", "exited"}
        BY <2>1, <3>1 DEF Waiting, DecisionHolds, EndsStopped
      <4> QED BY <3>2, <4>2
    <3> QED BY <3>3, <3>4
  <2>2. CASE waiters # {}
    <3>1. PICK w \in waiters : Wake({w}) BY <1>3, <2>2 DEF CommitNotify
    <3>2. commits' = [commits EXCEPT ![c] = "idle"] /\ UNCHANGED <<m_lock, stoped, tasks>>
      BY <1>3 DEF CommitNotify
    <3>3. Types' /\ Waiting' /\ OwnsLock' /\ DecisionHolds' /\ EndsStopped'
      BY <3>1, <3>2 DEF Wake, Types, Waiting, OwnsLock, DecisionHolds, EndsStopped
    <3>4. NoLostWakeup' BY <3>1 DEF Wake, Types, NoLostWakeup
    <3> QED BY <3>3, <3>4
  <2> QED BY <2>1, <2>2
<1> QED BY <1>1, <1>2, <1>3 DEF CommitStep

\* The destructor: it sets the flag that ends the waiting, and wakes everybody.
LEMMA OwnerKeeps == ASSUME IInv, Stop \/ StopNotify \/ Join PROVE IInv'
<1> USE DEF IInv
<1>1. CASE Stop
  BY <1>1 DEF Stop, Types, Waiting, OwnsLock, DecisionHolds, EndsStopped, NoLostWakeup
<1>2. CASE StopNotify
  <2>1. Types' /\ Waiting' /\ OwnsLock' /\ DecisionHolds' /\ EndsStopped'
    BY <1>2 DEF StopNotify, Wake, Types, Waiting, OwnsLock, DecisionHolds, EndsStopped
  <2>2. NoLostWakeup' BY <1>2 DEF StopNotify, Wake, Types, NoLostWakeup
  <2> QED BY <2>1, <2>2
<1>3. CASE Join
  BY <1>3 DEF Join, Destroyed, Types, Waiting, OwnsLock, DecisionHolds, EndsStopped, NoLostWakeup
<1> QED BY <1>1, <1>2, <1>3

\* All of it together.
LEMMA Keeps == IInv /\ [Next]_vars => IInv'
<1> SUFFICES ASSUME IInv, [Next]_vars PROVE IInv' OBVIOUS
<1>1. CASE UNCHANGED vars
  BY <1>1 DEF vars, IInv, Types, Waiting, OwnsLock, DecisionHolds, EndsStopped, NoLostWakeup
<1>2. CASE Next BY <1>2, WorkerKeeps, CommitKeeps, OwnerKeeps DEF Next
<1> QED BY <1>1, <1>2

\* While the pool is not stopped, queued work always has a worker that is awake,
\* or a commit whose notify_one has yet to come, although commit notifies after it
\* has released m_lock.
THEOREM CommitWakesSomebody == Spec => []NoLostWakeup
<1>1. IInv => NoLostWakeup BY DEF IInv
<1> QED BY Initially, Keeps, <1>1, PTL DEF Spec
-----------------------------------------------------------------------------
(* Where a committed task is *)

\* The places of the queue and the workers that hold t.
Queued(t) == {i \in DOMAIN tasks : tasks[i] = t}
Holding(t) == {w \in Workers : task[w] = t}

HeldTypes ==
    /\ task \in [Workers -> Tasks \cup {Free}]
    /\ future \in [Tasks -> {"none", "called", "rejected", "pending", "ready", "broken"}]
    /\ \A w \in Workers : pc[w] \in {"dec", "run"} <=> task[w] # Free

\* No task is in two places of the queue, in the queue and with a worker, or with
\* two workers; and it is somewhere exactly while its future is pending.
Apart ==
    /\ \A i, j \in DOMAIN tasks : tasks[i] = tasks[j] => i = j
    /\ \A i \in DOMAIN tasks, w \in Workers : tasks[i] # task[w]
    /\ \A v, w \in Workers : task[v] = task[w] /\ task[v] # Free => v = w
    /\ \A i \in DOMAIN tasks : future[tasks[i]] = "pending"
    /\ \A w \in Workers : task[w] # Free => future[task[w]] = "pending"
    /\ \A t \in Tasks : future[t] = "pending" =>
          (\E i \in DOMAIN tasks : tasks[i] = t) \/ (\E w \in Workers : task[w] = t)

HeldInv == HeldTypes /\ Apart

\* A step that moves no task.
LEMMA StillKeeps ==
    ASSUME HeldInv, UNCHANGED <<tasks, task>>,
           HeldTypes', \A t \in Tasks : future[t] = "pending" <=> future'[t] = "pending", IInv
    PROVE  HeldInv'
<1>1. \A i \in DOMAIN tasks : tasks[i] \in Tasks BY DEF IInv, Types
<1>2. \A w \in Workers : task[w] # Free => task[w] \in Tasks BY DEF HeldInv, HeldTypes
<1>3. Apart' BY <1>1, <1>2 DEF HeldInv, Apart
<1> QED BY <1>3 DEF HeldInv

\* A worker takes the first task of the queue, and no other has it.
LEMMA TakeHolds == ASSUME IInv, HeldInv, NEW w \in Workers, Take(w) PROVE HeldInv'
<1> DEFINE h == Head(tasks)
<1>1. /\ tasks # <<>> /\ pc[w] = "take" /\ pc' = [pc EXCEPT ![w] = "dec"]
      /\ task' = [task EXCEPT ![w] = h] /\ tasks' = Tail(tasks) /\ future' = future
  BY DEF Take, Goto
<1>2. tasks \in Seq(Tasks) BY DEF IInv, Types
<1>3. /\ 1 \in DOMAIN tasks /\ h = tasks[1] /\ h \in Tasks
      /\ \A i \in DOMAIN tasks' : i + 1 \in DOMAIN tasks /\ i + 1 # 1 /\ tasks'[i] = tasks[i + 1] /\ i \in Int
      /\ \A i \in DOMAIN tasks : i # 1 => i - 1 \in DOMAIN tasks' /\ tasks'[i - 1] = tasks[i]
  <2>1. /\ DOMAIN tasks = 1 .. Len(tasks) /\ Len(tasks) \in Nat \ {0} /\ DOMAIN tasks' = 1 .. Len(tasks) - 1
        /\ \A i \in 1 .. Len(tasks) - 1 : tasks'[i] = tasks[i + 1]
        /\ h = tasks[1] /\ h \in Tasks
    BY <1>1, <1>2
  <2> HIDE DEF h
  <2>2. \A i \in DOMAIN tasks' : i + 1 \in DOMAIN tasks /\ i + 1 # 1 /\ tasks'[i] = tasks[i + 1] /\ i \in Int
    BY <2>1
  <2>3. ASSUME NEW i \in DOMAIN tasks, i # 1 PROVE i - 1 \in DOMAIN tasks' /\ tasks'[i - 1] = tasks[i]
    <3>1. i - 1 \in 1 .. Len(tasks) - 1 /\ (i - 1) + 1 = i BY <2>1, <2>3
    <3> QED BY <2>1, <3>1
  <2> QED BY <2>1, <2>2, <2>3
<1> HIDE DEF h
<1>4. h # Free /\ task[w] = Free BY <1>1, <1>3, PoolAssumption DEF HeldInv, HeldTypes
<1>5. HeldTypes' BY <1>1, <1>3, <1>4 DEF HeldInv, HeldTypes, IInv, Types
<1>6. \A v \in Workers : task'[v] = IF v = w THEN h ELSE task[v] BY <1>1 DEF HeldInv, HeldTypes
<1>7. \A i, j \in DOMAIN tasks' : tasks'[i] = tasks'[j] => i = j BY <1>3 DEF HeldInv, Apart
<1>8. \A i \in DOMAIN tasks', v \in Workers : tasks'[i] # task'[v] BY <1>3, <1>6 DEF HeldInv, Apart
<1>9. \A u, v \in Workers : task'[u] = task'[v] /\ task'[u] # Free => u = v BY <1>3, <1>6 DEF HeldInv, Apart
<1>10. /\ \A i \in DOMAIN tasks' : future'[tasks'[i]] = "pending"
       /\ \A v \in Workers : task'[v] # Free => future'[task'[v]] = "pending"
  BY <1>1, <1>3, <1>6 DEF HeldInv, Apart
<1>11. ASSUME NEW t \in Tasks, future'[t] = "pending"
       PROVE  (\E i \in DOMAIN tasks' : tasks'[i] = t) \/ (\E v \in Workers : task'[v] = t)
  <2>1. CASE \E v \in Workers : task[v] = t BY <1>4, <1>6, <2>1, PoolAssumption
  <2>2. CASE \E i \in DOMAIN tasks : tasks[i] = t BY <1>3, <1>6, <2>2
  <2> QED BY <1>1, <1>11, <2>1, <2>2 DEF HeldInv, Apart
<1>12. Apart' BY <1>7, <1>8, <1>9, <1>10, <1>11 DEF Apart
<1> QED BY <1>5, <1>12 DEF HeldInv

\* The task a worker has run is ready, and nobody else has it.
LEMMA RunHolds == ASSUME IInv, HeldInv, NEW w \in Workers, Run(w) PROVE HeldInv'
<1>1. /\ pc[w] = "run" /\ pc' = [pc EXCEPT ![w] = "inc"] /\ tasks' = tasks
      /\ future' = [future EXCEPT ![task[w]] = "ready"] /\ task' = [task EXCEPT ![w] = Free]
  BY DEF Run, Goto
<1>2. tasks \in Seq(Tasks) /\ \A i \in DOMAIN tasks : tasks[i] \in Tasks BY DEF IInv, Types
<1>3. task[w] \in Tasks /\ task[w] # Free BY <1>1 DEF HeldInv, HeldTypes
<1>4. HeldTypes' BY <1>1, <1>3 DEF HeldInv, HeldTypes, IInv, Types
<1>5. /\ \A v \in Workers : task'[v] = IF v = w THEN Free ELSE task[v]
      /\ \A t \in Tasks : future'[t] = IF t = task[w] THEN "ready" ELSE future[t]
  BY <1>1, <1>3 DEF HeldInv, HeldTypes
<1>6. \A v \in Workers : task[v] # Free => task[v] \in Tasks BY DEF HeldInv, HeldTypes
<1>7. \A i \in DOMAIN tasks, v \in Workers : tasks'[i] # task'[v]
  BY <1>1, <1>2, <1>5, PoolAssumption DEF HeldInv, Apart
<1>8. \A u, v \in Workers : task'[u] = task'[v] /\ task'[u] # Free => u = v BY <1>5 DEF HeldInv, Apart
<1>9. \A i \in DOMAIN tasks : future'[tasks'[i]] = "pending" BY <1>1, <1>2, <1>5 DEF HeldInv, Apart
<1>10. \A v \in Workers : task'[v] # Free => future'[task'[v]] = "pending" BY <1>3, <1>5, <1>6 DEF HeldInv, Apart
<1>11. \A t \in Tasks : future'[t] = "pending" =>
         (\E i \in DOMAIN tasks' : tasks'[i] = t) \/ (\E v \in Workers : task'[v] = t)
  BY <1>1, <1>5 DEF HeldInv, Apart
<1>12. Apart' BY <1>1, <1>7, <1>8, <1>9, <1>10, <1>11 DEF HeldInv, Apart
<1> QED BY <1>4, <1>12 DEF HeldInv

\* commit queues a task that is nowhere yet.
LEMMA PushHolds ==
    ASSUME IInv, HeldInv, NEW c \in Threads, NEW t \in Tasks, CommitPush(c, t) PROVE HeldInv'
<1>1. /\ future[t] = "called" /\ tasks' = Append(tasks, t) /\ future' = [future EXCEPT ![t] = "pending"]
      /\ UNCHANGED <<pc, task>>
  BY DEF CommitPush
<1>2. tasks \in Seq(Tasks) /\ \A i \in DOMAIN tasks : tasks[i] \in Tasks BY DEF IInv, Types
<1> DEFINE n == Len(tasks) + 1
<1>3. /\ DOMAIN tasks' = DOMAIN tasks \cup {n} /\ n \notin DOMAIN tasks
      /\ \A i \in DOMAIN tasks : tasks'[i] = tasks[i]
      /\ tasks'[n] = t
  <2>1. /\ DOMAIN tasks = 1 .. Len(tasks) /\ Len(tasks) \in Nat /\ DOMAIN tasks' = 1 .. Len(tasks) + 1
        /\ \A i \in DOMAIN tasks : tasks'[i] = tasks[i]
        /\ tasks'[Len(tasks) + 1] = t
    BY <1>1, <1>2
  <2> QED BY <2>1
<1> HIDE DEF n
<1>4. HeldTypes' BY <1>1 DEF HeldInv, HeldTypes
<1>5. \A u \in Tasks : future'[u] = IF u = t THEN "pending" ELSE future[u] BY <1>1 DEF HeldInv, HeldTypes
<1>6. (\A i \in DOMAIN tasks : tasks[i] # t) /\ (\A w \in Workers : task[w] # t)
  BY <1>1, PoolAssumption DEF HeldInv, Apart
<1>7. \A v \in Workers : task[v] # Free => task[v] \in Tasks BY DEF HeldInv, HeldTypes
<1>8. \A i, j \in DOMAIN tasks' : tasks'[i] = tasks'[j] => i = j BY <1>3, <1>6 DEF HeldInv, Apart
<1>9. \A i \in DOMAIN tasks', v \in Workers : tasks'[i] # task'[v] BY <1>1, <1>3, <1>6 DEF HeldInv, Apart
<1>10. \A i \in DOMAIN tasks' : future'[tasks'[i]] = "pending" BY <1>2, <1>3, <1>5 DEF HeldInv, Apart
<1>11. \A v \in Workers : task'[v] # Free => future'[task'[v]] = "pending" BY <1>1, <1>5, <1>7 DEF HeldInv, Apart
<1>12. \A u \in Tasks : future'[u] = "pending" =>
         (\E i \in DOMAIN tasks' : tasks'[i] = u) \/ (\E v \in Workers : task'[v] = u)
  BY <1>1, <1>3, <1>5 DEF HeldInv, Apart
<1>13. Apart' BY <1>1, <1>8, <1>9, <1>10, <1>11, <1>12 DEF HeldInv, Apart
<1> QED BY <1>4, <1>13 DEF HeldInv

\* The destructor breaks the promises of the tasks it finds in the queue.
LEMMA JoinHolds == ASSUME IInv, HeldInv, Join PROVE HeldInv'
<1>1. /\ tasks' = <<>> /\ UNCHANGED <<pc, task>> /\ \A w \in Workers : pc[w] = "exited"
      /\ future' = [t \in Tasks |-> IF \E i \in DOMAIN tasks : tasks[i] = t THEN "broken" ELSE future[t]]
  BY DEF Join, Destroyed
<1>2. \A w \in Workers : task[w] = Free BY <1>1 DEF HeldInv, HeldTypes
<1>3. HeldTypes' BY <1>1 DEF HeldInv, HeldTypes
<1>4. \A t \in Tasks : future'[t] # "pending" BY <1>1, <1>2, PoolAssumption DEF HeldInv, Apart
<1>5. DOMAIN tasks' = {} BY <1>1
<1>6. Apart' BY <1>1, <1>2, <1>4, <1>5 DEF Apart
<1> QED BY <1>3, <1>6 DEF HeldInv

\* Every step keeps the tasks apart.
LEMMA HeldKeeps == ASSUME IInv, HeldInv, [Next]_vars PROVE HeldInv'
<1>1. ASSUME NEW w \in Workers,
             While(w) \/ Lock(w) \/ Predicate(w) \/ Block(w) \/ Return(w) \/ Busy(w) \/ Idle(w) \/ SpuriousWakeup(w)
      PROVE  HeldInv'
  <2>1. UNCHANGED <<tasks, task, future>>
    BY <1>1 DEF While, Lock, Predicate, Block, Return, Busy, Idle, SpuriousWakeup
  <2>2. \A v \in Workers : pc'[v] \in {"dec", "run"} <=> pc[v] \in {"dec", "run"}
    BY <1>1 DEF While, Lock, Predicate, Block, Return, Busy, Idle, SpuriousWakeup, Goto, IInv, Types
  <2>3. HeldTypes' BY <2>1, <2>2 DEF HeldInv, HeldTypes
  <2> QED BY <2>1, <2>3, StillKeeps
<1>2. ASSUME NEW c \in Threads, NEW t \in Tasks, CommitTest(c, t) \/ CommitRejected(c, t) PROVE HeldInv'
  <2>1. UNCHANGED <<tasks, task, pc>> /\ future[t] = "none"
        /\ \/ future' = [future EXCEPT ![t] = "called"]
           \/ future' = [future EXCEPT ![t] = "rejected"]
    BY <1>2 DEF CommitTest, CommitRejected
  <2>2. HeldTypes' BY <2>1 DEF HeldInv, HeldTypes
  <2>3. \A u \in Tasks : future[u] = "pending" <=> future'[u] = "pending" BY <2>1 DEF HeldInv, HeldTypes
  <2> QED BY <2>1, <2>2, <2>3, StillKeeps
<1>3. ASSUME NEW c \in Threads, CommitNotify(c) PROVE HeldInv'
  <2>1. UNCHANGED <<tasks, task, future>> BY <1>3 DEF CommitNotify
  <2>2. \A v \in Workers : pc'[v] \in {"dec", "run"} <=> pc[v] \in {"dec", "run"}
    BY <1>3 DEF CommitNotify, Wake, IInv, Types, Waiting
  <2>3. HeldTypes' BY <2>1, <2>2 DEF HeldInv, HeldTypes
  <2> QED BY <2>1, <2>3, StillKeeps
<1>4. CASE Stop \/ StopNotify
  <2>1. UNCHANGED <<tasks, task, future>> BY <1>4 DEF Stop, StopNotify
  <2>2. \A v \in Workers : pc'[v] \in {"dec", "run"} <=> pc[v] \in {"dec", "run"}
    BY <1>4 DEF Stop, StopNotify, Wake, IInv, Types, Waiting
  <2>3. HeldTypes' BY <2>1, <2>2 DEF HeldInv, HeldTypes
  <2> QED BY <2>1, <2>3, StillKeeps
<1>5. CASE UNCHANGED vars
  <2>1. UNCHANGED <<tasks, task, future, pc>> BY <1>5 DEF vars
  <2>2. HeldTypes' BY <2>1 DEF HeldInv, HeldTypes
  <2> QED BY <2>1, <2>2, StillKeeps
<1> QED BY <1>1, <1>2, <1>3, <1>4, <1>5, TakeHolds, RunHolds, PushHolds, JoinHolds
        DEF Next, WorkerStep, CommitStep

\* At first there is no task anywhere.
LEMMA HeldInitially == Init => HeldInv
<1> SUFFICES ASSUME Init PROVE HeldInv OBVIOUS
<1>1. DOMAIN tasks = {} /\ task = [w \in Workers |-> Free] /\ future = [t \in Tasks |-> "none"]
      /\ pc = [w \in Workers |-> "while"]
  BY DEF Init
<1> QED BY <1>1, PoolAssumption DEF HeldInv, HeldTypes, Apart

\* Both invariants hold in every reachable state.
THEOREM Inductive == Spec => [](IInv /\ HeldInv)
<1>1. IInv /\ HeldInv /\ [Next]_vars => HeldInv' BY HeldKeeps
<1> QED BY Initially, HeldInitially, Keeps, <1>1, PTL DEF Spec

\* A future that commit has handed out is pending exactly while its task is in one
\* place, the queue or a worker's hands: no task is forgotten, and none is run twice.
THEOREM EveryTaskOnce == Spec => []PendingAccountedFor
<1>1. HeldInv => PendingAccountedFor
  <2> SUFFICES ASSUME HeldInv, NEW t \in Tasks
               PROVE  Cardinality(Queued(t) \cup Holding(t)) = (IF future[t] = "pending" THEN 1 ELSE 0)
    BY DEF PendingAccountedFor, Queued, Holding
  <2>1. CASE future[t] = "pending"
    <3>1. PICK x : Queued(t) \cup Holding(t) = {x}
      <4>1. CASE \E i \in DOMAIN tasks : tasks[i] = t
        <5>1. PICK i \in DOMAIN tasks : tasks[i] = t BY <4>1
        <5>2. Queued(t) = {i} /\ Holding(t) = {} BY <5>1 DEF Queued, Holding, HeldInv, Apart
        <5> QED BY <5>2
      <4>2. CASE \E w \in Workers : task[w] = t
        <5>1. PICK w \in Workers : task[w] = t BY <4>2
        <5>2. Queued(t) = {} /\ Holding(t) = {w}
          BY <5>1, PoolAssumption DEF Queued, Holding, HeldInv, Apart
        <5> QED BY <5>2
      <4> QED BY <2>1, <4>1, <4>2, Zenon DEF HeldInv, Apart
    <3> QED BY <2>1, <3>1, FS_Singleton
  <2>2. CASE future[t] # "pending"
    <3>1. Queued(t) = {} /\ Holding(t) = {} BY <2>2, PoolAssumption DEF Queued, Holding, HeldInv, Apart
    <3> QED BY <2>2, <3>1, FS_EmptySet
  <2> QED BY <2>1, <2>2
<1> QED BY Inductive, <1>1, PTL
-----------------------------------------------------------------------------
(* What a future and the pool as a whole promise, step by step *)

\* The tasks in the workers' hands, and those whose future is ready.
Running == {task[w] : w \in {v \in Workers : task[v] # Free}}
Done == {t \in Tasks : future[t] = "ready"}

Executor == INSTANCE TaskExecutor WITH
    Tasks <- Tasks,
    Width <- Cardinality(Workers),
    queue <- tasks,
    running <- Running,
    finished <- Done

\* A future that is ready, refused or broken stays so; one becomes ready when a
\* worker that held its task returns, and is broken only when every worker has
\* ended and the task is still in the queue.
Settles ==
    \A t \in Tasks :
        /\ future[t] \in {"ready", "rejected", "broken"} => future'[t] = future[t]
        /\ future[t] # "ready" /\ future'[t] = "ready" =>
              \E w \in Workers : task[w] = t /\ task'[w] = Free
        /\ future[t] # "broken" /\ future'[t] = "broken" =>
              /\ \A w \in Workers : pc[w] = "exited"
              /\ \E i \in DOMAIN tasks : tasks[i] = t

\* Steps at which no task is queued, taken, run or dropped.
Quiet ==
    /\ UNCHANGED <<tasks, task>>
    /\ \A t \in Tasks :
          \/ future'[t] = future[t]
          \/ future[t] = "none" /\ future'[t] \in {"called", "rejected"}

\* Every step is a push, a pop, the return of a task, the end of the pool, or quiet.
LEMMA Kinds ==
    ASSUME IInv, HeldInv, [Next]_vars
    PROVE  \/ Quiet
           \/ \E c \in Threads, t \in Tasks : CommitPush(c, t)
           \/ \E w \in Workers : Take(w) \/ Run(w)
           \/ Join
<1>1. ASSUME NEW w \in Workers,
             While(w) \/ Lock(w) \/ Predicate(w) \/ Block(w) \/ Return(w) \/ Busy(w) \/ Idle(w) \/ SpuriousWakeup(w)
      PROVE  Quiet
  BY <1>1 DEF While, Lock, Predicate, Block, Return, Busy, Idle, SpuriousWakeup, Quiet
<1>2. ASSUME NEW c \in Threads, NEW t \in Tasks, CommitTest(c, t) \/ CommitRejected(c, t) PROVE Quiet
  BY <1>2 DEF CommitTest, CommitRejected, Quiet, HeldInv, HeldTypes
<1>3. ASSUME NEW c \in Threads, CommitNotify(c) PROVE Quiet BY <1>3 DEF CommitNotify, Quiet
<1>4. CASE Stop \/ StopNotify \/ UNCHANGED vars BY <1>4 DEF Stop, StopNotify, vars, Quiet
<1> QED BY <1>1, <1>2, <1>3, <1>4 DEF Next, WorkerStep, CommitStep

\* A quiet step changes nothing the executor sees.
LEMMA QuietStutters == ASSUME HeldInv, Quiet PROVE Settles /\ UNCHANGED Executor!vars
<1>1. Settles BY DEF Quiet, Settles, HeldInv, HeldTypes
<1>2. Running' = Running BY DEF Quiet, Running
<1>3. Done' = Done BY DEF Quiet, Done
<1> QED BY <1>1, <1>2, <1>3 DEF Executor!vars, Quiet

\* commit queues a task that was neither queued, nor running, nor done: a Submit.
LEMMA PushSubmits ==
    ASSUME IInv, HeldInv, NEW c \in Threads, NEW t \in Tasks, CommitPush(c, t)
    PROVE  Settles /\ Executor!Submit(t)
<1>1. /\ future[t] = "called" /\ tasks' = Append(tasks, t) /\ future' = [future EXCEPT ![t] = "pending"]
      /\ task' = task
  BY DEF CommitPush
<1>2. \A u \in Tasks : future'[u] = IF u = t THEN "pending" ELSE future[u] BY <1>1 DEF HeldInv, HeldTypes
<1>3. Settles BY <1>1, <1>2 DEF Settles
<1>4. Running' = Running /\ Done' = Done BY <1>1, <1>2 DEF Running, Done
<1>5. (\A i \in DOMAIN tasks : tasks[i] # t) /\ t \notin Running /\ t \notin Done
  BY <1>1 DEF HeldInv, Apart, Running, Done
<1> QED BY <1>1, <1>3, <1>4, <1>5 DEF Executor!Submit, Executor!Queued

\* A worker with no task in hand leaves room for one more.
LEMMA RoomToRun ==
    ASSUME NEW w \in Workers, task[w] = Free
    PROVE  Cardinality(Running) < Cardinality(Workers)
<1> DEFINE Holders == {v \in Workers : task[v] # Free}
<1> DEFINE f == [v \in Holders |-> task[v]]
<1>1. IsFiniteSet(Workers \ {w}) /\ Cardinality(Workers \ {w}) = Cardinality(Workers) - 1
  BY FS_RemoveElement, PoolAssumption
<1>2. Holders \in SUBSET (Workers \ {w}) OBVIOUS
<1>3. IsFiniteSet(Holders) /\ Cardinality(Holders) <= Cardinality(Workers \ {w})
  BY <1>1, <1>2, FS_Subset
<1>4. f \in Surjection(Holders, Running) BY DEF Surjection, Running
<1>5. IsFiniteSet(Running) /\ Cardinality(Running) <= Cardinality(Holders)
  <2> HIDE DEF f, Holders
  <2> QED BY <1>3, <1>4, FS_Surjection
<1>6. Cardinality(Running) \in Nat /\ Cardinality(Holders) \in Nat /\ Cardinality(Workers) \in Nat
  BY <1>3, <1>5, FS_CardinalityType, PoolAssumption
<1> QED BY <1>1, <1>3, <1>5, <1>6

\* A worker takes the oldest task: a Start.
LEMMA TakeStarts == ASSUME IInv, HeldInv, NEW w \in Workers, Take(w) PROVE Settles /\ Executor!Start
<1>1. /\ tasks # <<>> /\ pc[w] = "take" /\ tasks' = Tail(tasks) /\ future' = future
      /\ task' = [task EXCEPT ![w] = Head(tasks)]
  BY DEF Take, Goto
<1>2. Head(tasks) \in Tasks /\ Head(tasks) # Free BY <1>1, PoolAssumption DEF IInv, Types
<1>3. task[w] = Free BY <1>1 DEF HeldInv, HeldTypes
<1>4. Running' = Running \cup {Head(tasks)} BY <1>1, <1>2, <1>3 DEF Running, HeldInv, HeldTypes
<1>5. Settles /\ Done' = Done BY <1>1 DEF Settles, Done
<1>6. Cardinality(Running) < Cardinality(Workers) BY <1>3, RoomToRun
<1>7. Executor!Cardinality(Running) = Cardinality(Running) BY DEF Executor!Cardinality, Cardinality
<1> QED BY <1>1, <1>4, <1>5, <1>6, <1>7 DEF Executor!Start

\* A task returns: a Finish.
LEMMA RunFinishes ==
    ASSUME IInv, HeldInv, NEW w \in Workers, Run(w) PROVE Settles /\ \E t \in Tasks : Executor!Finish(t)
<1>1. /\ pc[w] = "run" /\ tasks' = tasks /\ future' = [future EXCEPT ![task[w]] = "ready"]
      /\ task' = [task EXCEPT ![w] = Free]
  BY DEF Run, Goto
<1>2. task[w] \in Tasks /\ task[w] # Free /\ future[task[w]] = "pending"
  BY <1>1 DEF HeldInv, HeldTypes, Apart
<1>3. /\ \A v \in Workers : task'[v] = IF v = w THEN Free ELSE task[v]
      /\ \A t \in Tasks : future'[t] = IF t = task[w] THEN "ready" ELSE future[t]
  BY <1>1, <1>2 DEF HeldInv, HeldTypes
<1>4. Settles BY <1>2, <1>3 DEF Settles
<1>5. Done' = Done \cup {task[w]} BY <1>2, <1>3 DEF Done
<1>6. Running' = Running \ {task[w]}
  <2>1. \A v \in Workers : v # w /\ task[v] # Free => task[v] # task[w] BY DEF HeldInv, Apart
  <2> QED BY <1>2, <1>3, <2>1 DEF Running
<1>7. PICK t \in Tasks : t = task[w] BY <1>2
<1>8. t \in Running BY <1>2, <1>7 DEF Running
<1>9. Executor!Finish(t) BY <1>1, <1>5, <1>6, <1>7, <1>8 DEF Executor!Finish
<1> QED BY <1>4, <1>9

\* The end of the pool finds no task running.
LEMMA JoinSettles == ASSUME IInv, HeldInv, Join PROVE Settles /\ Running = {}
<1>1. /\ \A w \in Workers : pc[w] = "exited"
      /\ \A t \in Tasks : future'[t] = IF \E i \in DOMAIN tasks : tasks[i] = t THEN "broken" ELSE future[t]
  BY DEF Join, Destroyed
<1>2. \A i \in DOMAIN tasks : future[tasks[i]] = "pending" BY DEF HeldInv, Apart
<1>3. Running = {} BY <1>1 DEF Running, HeldInv, HeldTypes
<1>4. Settles BY <1>1, <1>2 DEF Settles
<1> QED BY <1>3, <1>4

\* One step of the pool, in both views.
LEMMA StepView ==
    ASSUME IInv, HeldInv, [Next]_vars
    PROVE  Settles /\ IF Join THEN Running = {} ELSE [Executor!Next]_(Executor!vars)
<1>1. CASE Join BY <1>1, JoinSettles
<1>2. CASE Quiet BY <1>1, <1>2, QuietStutters
<1>3. ASSUME NEW c \in Threads, NEW t \in Tasks, CommitPush(c, t) PROVE Settles /\ Executor!Next
  BY <1>3, PushSubmits DEF Executor!Next
<1>4. ASSUME NEW w \in Workers, Take(w) PROVE Settles /\ Executor!Next
  BY <1>4, TakeStarts DEF Executor!Next
<1>5. ASSUME NEW w \in Workers, Run(w) PROVE Settles /\ Executor!Next
  BY <1>5, RunFinishes DEF Executor!Next
<1> QED BY <1>1, <1>2, <1>3, <1>4, <1>5, Kinds

\* The outcome of a committed task is final whatever workers, callers and the
\* destructor interleave: no ready future is broken by the destructor, no broken or
\* refused one becomes ready, and a promise breaks only when the last worker has
\* ended with its task still queued.
THEOREM FuturesSettleOnce == Spec => [][Settles]_vars
<1>1. IInv /\ HeldInv /\ [Next]_vars => [Settles]_vars BY StepView
<1> QED BY <1>1, Inductive, PTL DEF Spec

\* Up to the end of the destructor the pool's steps are those of an executor with
\* one slot per worker: tasks start in the order of commit, none twice and never more
\* at a time than there are workers.  The destructor's last step, which drops what is
\* still queued, is the only one that is not, and it finds nothing running.
THEOREM ExecutorUntilJoined ==
    Spec => Executor!Init /\ [][IF Join THEN Running = {} ELSE [Executor!Next]_(Executor!vars)]_vars
<1>1. Init => Executor!Init
  <2> SUFFICES ASSUME Init PROVE Executor!Init OBVIOUS
  <2>1. Running = {} /\ Done = {} BY DEF Init, Running, Done
  <2> QED BY <2>1 DEF Init, Executor!Init
<1>2. IInv /\ HeldInv /\ [Next]_vars => [IF Join THEN Running = {} ELSE [Executor!Next]_(Executor!vars)]_vars
  BY StepView
<1> QED BY <1>1, <1>2, Inductive, PTL DEF Spec
=============================================================================
