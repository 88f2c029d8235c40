------------------------ MODULE FixedThreadPool_proofs ------------------------
(***************************************************************************)
(* Proofs about FixedThreadPool for any number of workers, callers and     *)
(* tasks.  The invariant that carries them says who owns mtx_, who is      *)
(* counted as waiting, and what a worker that has decided to wait may      *)
(* still rely on because it has not let go of mtx_ since it looked.        *)
(***************************************************************************)
EXTENDS FixedThreadPool, FiniteSetTheorems, TLAPS

\* The provers tried on a leaf, in turn, and the time each of them gets.
USE SMTT(30), ZenonT(20), SMTT(31)

\* mtx_ is owned by w exactly while w is between lock and unlock or wait.
OwnsMutex == \A w \in Workers : pc[w] \in {"loop", "block"} <=> mtx_ = w

\* cond_ holds exactly the workers inside cond_.wait.
Waiting == cond_ = {w \in Workers : pc[w] = "wait"}

\* What the branch taken under mtx_ found is still so when wait is called.
DecisionHolds ==
    \A w \in Workers : pc[w] = "block" => tasks_ = <<>> /\ ~is_shutdown_

\* The destructor runs alone: from its first step on execute is over.
ShutdownIsLast ==
    /\ is_shutdown_ <=> owner # "alive"
    /\ is_shutdown_ => \A c \in Callers : caller[c] = "idle"

\* A worker inside current() has a task to run, and only then.
HoldsTask == \A w \in Workers : pc[w] = "run" <=> current[w] # Free

IInv ==
    /\ TypeOK
    /\ HoldsTask
    /\ OwnsMutex
    /\ Waiting
    /\ DecisionHolds
    /\ ShutdownIsLast
    /\ NoLostWakeup
    /\ ShutdownReachesAll
    /\ ExitOnlyDrained

-----------------------------------------------------------------------------
\* The initial state satisfies the inductive invariant.
LEMMA InitIInv == Init => IInv
<1> SUFFICES ASSUME Init PROVE IInv
  OBVIOUS
<1> USE DEF Init
<1>1. TypeOK
  <2>1. <<>> \in Seq(Tasks)
    OBVIOUS
  <2> QED
    BY <2>1, Zenon DEF TypeOK, WorkerStates
<1>2. OwnsMutex
  BY FreeAssumption DEF OwnsMutex
<1>3. Waiting
  BY DEF Waiting
<1>4. HoldsTask /\ DecisionHolds /\ NoLostWakeup /\ ExitOnlyDrained
  BY DEF HoldsTask, DecisionHolds, NoLostWakeup, ExitOnlyDrained
<1>5. ShutdownIsLast /\ ShutdownReachesAll
  BY DEF ShutdownIsLast, ShutdownReachesAll
<1> QED
  BY <1>1, <1>2, <1>3, <1>4, <1>5 DEF IInv

\* Every step of a worker, a caller or the owner preserves the type invariant.
LEMMA TypeStep == TypeOK /\ HoldsTask /\ [Next]_vars => TypeOK'
<1> SUFFICES ASSUME TypeOK, HoldsTask, [Next]_vars PROVE TypeOK'
  OBVIOUS
<1> USE DEF TypeOK, WorkerStates
<1>1. ASSUME NEW w \in Workers, Lock(w) PROVE TypeOK'
  BY <1>1 DEF Lock, shared
<1>2. ASSUME NEW w \in Workers, Take(w) PROVE TypeOK'
  <2>1. Head(tasks_) \in Tasks /\ Tail(tasks_) \in Seq(Tasks)
    BY <1>2 DEF Take
  <2>2. taken' \in Seq(Tasks)
    BY <1>2, <2>1 DEF Take
  <2>3. current' \in [Workers -> Tasks \cup {Free}] /\ tasks_' \in Seq(Tasks)
    BY <1>2, <2>1 DEF Take
  <2>4. /\ mtx_' \in Workers \cup {Free}
        /\ pc' \in [Workers -> WorkerStates]
        /\ UNCHANGED <<cond_, is_shutdown_, caller, owner, accepted, done>>
    BY <1>2 DEF Take
  <2> QED
    BY <2>2, <2>3, <2>4
<1>3. ASSUME NEW w \in Workers, Run(w) PROVE TypeOK'
  BY <1>3 DEF Run, HoldsTask
<1>4. ASSUME NEW w \in Workers, Break(w) PROVE TypeOK'
  BY <1>4 DEF Break, Leave, shared
<1>5. ASSUME NEW w \in Workers, Decide(w) PROVE TypeOK'
  BY <1>5 DEF Decide, shared
<1>6. ASSUME NEW w \in Workers, Wait(w) PROVE TypeOK'
  BY <1>6 DEF Wait, shared
<1>7. ASSUME NEW w \in Workers, SpuriousWakeup(w) PROVE TypeOK'
  BY <1>7 DEF SpuriousWakeup, shared
<1>8. ASSUME NEW c \in Callers, NEW t \in Tasks, Execute(c, t) PROVE TypeOK'
  BY <1>8 DEF Execute
<1>9. ASSUME NEW c \in Callers, ExecuteNotify(c) PROVE TypeOK'
  BY <1>9 DEF ExecuteNotify, notify_one, Woken
<1>10. CASE Shutdown
  BY <1>10 DEF Shutdown
<1>11. CASE ShutdownNotify
  BY <1>11 DEF ShutdownNotify, notify_all, Woken
<1>12. CASE Terminated \/ UNCHANGED vars
  BY <1>12 DEF Terminated, vars
<1> QED
  BY <1>1, <1>2, <1>3, <1>4, <1>5, <1>6, <1>7, <1>8, <1>9, <1>10, <1>11, <1>12
     DEF Next, WorkerStep

\* Mutual exclusion, the bookkeeping of waiters and of tasks in hand are
\* preserved by every step.
LEMMA OwnershipStep ==
    TypeOK /\ HoldsTask /\ OwnsMutex /\ Waiting /\ [Next]_vars
        => HoldsTask' /\ OwnsMutex' /\ Waiting'
<1> SUFFICES ASSUME TypeOK, HoldsTask, OwnsMutex, Waiting, [Next]_vars
             PROVE  HoldsTask' /\ OwnsMutex' /\ Waiting'
  OBVIOUS
<1> DEFINE Goal == HoldsTask' /\ OwnsMutex' /\ Waiting'
<1> USE FreeAssumption DEF TypeOK, WorkerStates, HoldsTask, OwnsMutex, Waiting
<1>1. ASSUME NEW w \in Workers, Lock(w) PROVE Goal
  BY <1>1 DEF Lock, shared
<1>2. ASSUME NEW w \in Workers, Take(w) PROVE Goal
  <2>1. Head(tasks_) \in Tasks
    BY <1>2 DEF Take
  <2>2. HoldsTask'
    BY <1>2, <2>1 DEF Take
  <2>3. OwnsMutex' /\ Waiting'
    BY <1>2 DEF Take
  <2> QED
    BY <2>2, <2>3
<1>3. ASSUME NEW w \in Workers, Run(w) PROVE Goal
  BY <1>3 DEF Run
<1>4. ASSUME NEW w \in Workers, Break(w) PROVE Goal
  BY <1>4 DEF Break, Leave, shared
<1>5. ASSUME NEW w \in Workers, Decide(w) PROVE Goal
  BY <1>5 DEF Decide, shared
<1>6. ASSUME NEW w \in Workers, Wait(w) PROVE Goal
  BY <1>6 DEF Wait, shared
<1>7. ASSUME NEW w \in Workers, SpuriousWakeup(w) PROVE Goal
  BY <1>7 DEF SpuriousWakeup, shared
<1>8. ASSUME NEW c \in Callers, NEW t \in Tasks, Execute(c, t) PROVE Goal
  BY <1>8 DEF Execute
<1>9. ASSUME NEW c \in Callers, ExecuteNotify(c) PROVE Goal
  BY <1>9 DEF ExecuteNotify, notify_one, Woken
<1>10. CASE Shutdown
  BY <1>10 DEF Shutdown
<1>11. CASE ShutdownNotify
  BY <1>11 DEF ShutdownNotify, notify_all, Woken
<1>12. CASE Terminated \/ UNCHANGED vars
  BY <1>12 DEF Terminated, vars
<1> QED
  BY <1>1, <1>2, <1>3, <1>4, <1>5, <1>6, <1>7, <1>8, <1>9, <1>10, <1>11, <1>12
     DEF Next, WorkerStep

\* What a worker found under mtx_ stays true until it blocks, and nothing is
\* submitted once the destructor has begun.
LEMMA DecisionStep ==
    IInv /\ [Next]_vars => DecisionHolds' /\ ShutdownIsLast' /\ ExitOnlyDrained'
<1> SUFFICES ASSUME IInv, [Next]_vars
             PROVE  DecisionHolds' /\ ShutdownIsLast' /\ ExitOnlyDrained'
  OBVIOUS
<1> DEFINE Goal == DecisionHolds' /\ ShutdownIsLast' /\ ExitOnlyDrained'
<1> USE FreeAssumption
    DEF IInv, TypeOK, WorkerStates, OwnsMutex, Waiting, DecisionHolds, ShutdownIsLast,
        ExitOnlyDrained
<1>1. ASSUME NEW w \in Workers, Lock(w) PROVE Goal
  BY <1>1 DEF Lock, shared
<1>2. ASSUME NEW w \in Workers, Take(w) PROVE Goal
  BY <1>2 DEF Take
<1>3. ASSUME NEW w \in Workers, Run(w) PROVE Goal
  BY <1>3 DEF Run
<1>4. ASSUME NEW w \in Workers, Break(w) PROVE Goal
  BY <1>4 DEF Break, Leave, shared
<1>5. ASSUME NEW w \in Workers, Decide(w) PROVE Goal
  BY <1>5 DEF Decide, shared
<1>6. ASSUME NEW w \in Workers, Wait(w) PROVE Goal
  BY <1>6 DEF Wait, shared
<1>7. ASSUME NEW w \in Workers, SpuriousWakeup(w) PROVE Goal
  BY <1>7 DEF SpuriousWakeup, shared
<1>8. ASSUME NEW c \in Callers, NEW t \in Tasks, Execute(c, t) PROVE Goal
  BY <1>8 DEF Execute
<1>9. ASSUME NEW c \in Callers, ExecuteNotify(c) PROVE Goal
  BY <1>9 DEF ExecuteNotify, notify_one, Woken
<1>10. CASE Shutdown
  BY <1>10 DEF Shutdown
<1>11. CASE ShutdownNotify
  BY <1>11 DEF ShutdownNotify, notify_all, Woken
<1>12. CASE Terminated \/ UNCHANGED vars
  BY <1>12 DEF Terminated, vars
<1> QED
  BY <1>1, <1>2, <1>3, <1>4, <1>5, <1>6, <1>7, <1>8, <1>9, <1>10, <1>11, <1>12
     DEF Next, WorkerStep

\* Queued work keeps an awake worker or a pending notification, and after the
\* destructor's notify_all nobody sleeps.
LEMMA WakeupStep == IInv /\ [Next]_vars => NoLostWakeup' /\ ShutdownReachesAll'
<1> SUFFICES ASSUME IInv, [Next]_vars PROVE NoLostWakeup' /\ ShutdownReachesAll'
  OBVIOUS
<1> DEFINE Goal == NoLostWakeup' /\ ShutdownReachesAll'
<1> USE FreeAssumption, WorkersAssumption
    DEF IInv, TypeOK, WorkerStates, OwnsMutex, Waiting, DecisionHolds, ShutdownIsLast,
        ExitOnlyDrained, NoLostWakeup, ShutdownReachesAll
<1>1. ASSUME NEW w \in Workers, Lock(w) PROVE Goal
  BY <1>1 DEF Lock, shared
<1>2. ASSUME NEW w \in Workers, Take(w) PROVE Goal
  BY <1>2 DEF Take
<1>3. ASSUME NEW w \in Workers, Run(w) PROVE Goal
  BY <1>3 DEF Run
<1>4. ASSUME NEW w \in Workers, Break(w) PROVE Goal
  BY <1>4 DEF Break, Leave, shared
<1>5. ASSUME NEW w \in Workers, Decide(w) PROVE Goal
  BY <1>5 DEF Decide, shared
<1>6. ASSUME NEW w \in Workers, Wait(w) PROVE Goal
  BY <1>6 DEF Wait, shared
<1>7. ASSUME NEW w \in Workers, SpuriousWakeup(w) PROVE Goal
  BY <1>7 DEF SpuriousWakeup, shared
<1>8. ASSUME NEW c \in Callers, NEW t \in Tasks, Execute(c, t) PROVE Goal
  BY <1>8 DEF Execute
<1>9. ASSUME NEW c \in Callers, ExecuteNotify(c) PROVE Goal
  <2>1. owner = "alive" /\ ~is_shutdown_
    BY <1>9 DEF ExecuteNotify
  <2>2. CASE cond_ = {} /\ UNCHANGED <<cond_, pc>>
    \* Nobody was waiting: since nobody has exited either, somebody is awake.
    <3>1. PICK w \in Workers : TRUE
      OBVIOUS
    <3>2. pc[w] \notin {"wait", "exited"}
      BY <2>1, <2>2
    <3>3. pc[w] = "block" => tasks_ = <<>>
      OBVIOUS
    <3>4. tasks_ # <<>> => pc[w] \in {"lock", "loop", "run"}
      BY <3>2, <3>3
    <3> QED
      BY <1>9, <2>1, <2>2, <3>4 DEF ExecuteNotify
  <2>3. ASSUME NEW w \in cond_, cond_' = cond_ \ {w}, pc' = Woken({w})
        PROVE  Goal
    <3>1. w \in Workers /\ pc'[w] = "lock"
      BY <2>3 DEF Woken
    <3> QED
      BY <1>9, <2>1, <3>1 DEF ExecuteNotify
  <2> QED
    BY <1>9, <2>2, <2>3, Zenon DEF ExecuteNotify, notify_one
<1>10. CASE Shutdown
  BY <1>10 DEF Shutdown
<1>11. CASE ShutdownNotify
  BY <1>11 DEF ShutdownNotify, notify_all, Woken
<1>12. CASE Terminated \/ UNCHANGED vars
  BY <1>12 DEF Terminated, vars
<1> QED
  BY <1>1, <1>2, <1>3, <1>4, <1>5, <1>6, <1>7, <1>8, <1>9, <1>10, <1>11, <1>12
     DEF Next, WorkerStep

\* IInv holds in every reachable state.
THEOREM Inductive == Spec => []IInv
<1>1. IInv /\ [Next]_vars => IInv'
  BY TypeStep, OwnershipStep, DecisionStep, WakeupStep DEF IInv
<1> QED
  BY <1>1, InitIInv, PTL DEF Spec

\* Type correctness of the pool, for any sets of workers, callers and tasks.
THEOREM TypeCorrect == Spec => []TypeOK
BY Inductive, PTL DEF IInv

\* No wake-up is lost: execute's notify_one outside the lock is enough.
THEOREM WakeupNeverLost == Spec => []NoLostWakeup
BY Inductive, PTL DEF IInv

\* The destructor's single notify_all, issued after is_shutdown_ was set under
\* the lock, leaves no worker asleep.
THEOREM ShutdownWakesEveryone == Spec => []ShutdownReachesAll
BY Inductive, PTL DEF IInv

\* Workers leave only a drained pool that is shutting down.
THEOREM ExitsOnlyWhenDrained == Spec => []ExitOnlyDrained
BY Inductive, PTL DEF IInv

\* Tasks leave the queue in the order execute put them in.
THEOREM QueueIsFifo == Spec => []FirstInFirstOut
<1>1. Init => FirstInFirstOut
  BY DEF Init, FirstInFirstOut
<1>2. TypeOK /\ FirstInFirstOut /\ [Next]_vars => FirstInFirstOut'
  <2> SUFFICES ASSUME TypeOK, FirstInFirstOut, [Next]_vars PROVE FirstInFirstOut'
    OBVIOUS
  <2> USE DEF TypeOK, FirstInFirstOut
  <2>1. ASSUME NEW w \in Workers, Take(w) PROVE FirstInFirstOut'
    <3>1. taken \o tasks_ = Append(taken, Head(tasks_)) \o Tail(tasks_)
      BY <2>1 DEF Take
    <3> QED
      BY <2>1, <3>1 DEF Take
  <2>2. ASSUME NEW c \in Callers, NEW t \in Tasks, Execute(c, t) PROVE FirstInFirstOut'
    <3>1. Append(taken \o tasks_, t) = taken \o Append(tasks_, t)
      OBVIOUS
    <3> QED
      BY <2>2, <3>1 DEF Execute
  <2>3. CASE UNCHANGED <<accepted, taken, tasks_>>
    BY <2>3
  <2> QED
    BY <2>1, <2>2, <2>3
       DEF Next, WorkerStep, Lock, Run, Break, Leave, Decide, Wait, SpuriousWakeup,
           ExecuteNotify, Shutdown, ShutdownNotify, Terminated, vars, shared
<1> QED
  BY <1>1, <1>2, TypeCorrect, PTL DEF Spec

-----------------------------------------------------------------------------
(* The steps of the pool are steps of TaskExecutor; fairness is left to TLC. *)

Running == {current[w] : w \in {v \in Workers : pc[v] = "run"}}

\* Whatever is queued, running or done was given to execute.
Known == Elems(tasks_) \cup Running \cup done \subseteq Elems(accepted)

\* No task is in two places of the queue, in the queue and in a worker's hands, or
\* in the hands of two workers.
Apart ==
    /\ \A i, j \in DOMAIN tasks_ : tasks_[i] = tasks_[j] => i = j
    /\ \A i \in DOMAIN tasks_, w \in Workers : tasks_[i] # current[w]
    /\ \A v, w \in Workers : current[v] = current[w] /\ pc[v] = "run" => v = w

RInv == IInv /\ Known /\ Apart

\* The elements of a queue that grows.
LEMMA Pushed ==
    ASSUME NEW S, NEW s \in Seq(S), NEW x \in S
    PROVE  /\ Elems(Append(s, x)) = Elems(s) \cup {x}
           /\ DOMAIN Append(s, x) = DOMAIN s \cup {Len(s) + 1} /\ Len(s) + 1 \notin DOMAIN s
           /\ \A i \in DOMAIN s : Append(s, x)[i] = s[i]
           /\ Append(s, x)[Len(s) + 1] = x
<1>1. /\ DOMAIN s = 1 .. Len(s) /\ Len(s) \in Nat /\ DOMAIN Append(s, x) = 1 .. Len(s) + 1
      /\ \A i \in DOMAIN s : Append(s, x)[i] = s[i]
      /\ Append(s, x)[Len(s) + 1] = x
  OBVIOUS
<1>2. DOMAIN Append(s, x) = DOMAIN s \cup {Len(s) + 1} /\ Len(s) + 1 \notin DOMAIN s BY <1>1
<1>3. Elems(Append(s, x)) = Elems(s) \cup {x} BY <1>1, <1>2 DEF Elems
<1> QED BY <1>1, <1>2, <1>3

\* The elements of a queue that shrinks.
LEMMA Popped ==
    ASSUME NEW S, NEW s \in Seq(S), s # <<>>
    PROVE  /\ 1 \in DOMAIN s /\ Head(s) = s[1] /\ Head(s) \in S /\ Head(s) \in Elems(s)
           /\ \A i \in DOMAIN Tail(s) : i + 1 \in DOMAIN s /\ i + 1 # 1 /\ Tail(s)[i] = s[i + 1] /\ i \in Int
           /\ Elems(Tail(s)) \subseteq Elems(s)
<1>1. /\ DOMAIN s = 1 .. Len(s) /\ Len(s) \in Nat \ {0} /\ DOMAIN Tail(s) = 1 .. Len(s) - 1
      /\ \A i \in 1 .. Len(s) - 1 : Tail(s)[i] = s[i + 1]
      /\ Head(s) = s[1] /\ Head(s) \in S
  OBVIOUS
<1>2. \A i \in DOMAIN Tail(s) : i + 1 \in DOMAIN s /\ i + 1 # 1 /\ Tail(s)[i] = s[i + 1] /\ i \in Int BY <1>1
<1>3. 1 \in DOMAIN s BY <1>1
<1> QED BY <1>1, <1>2, <1>3 DEF Elems

\* Wherever the workers' hands, the queue and the histories stay as they are.
Idle == UNCHANGED <<tasks_, accepted, done, current>> /\ \A w \in Workers : pc[w] = "run" <=> pc'[w] = "run"

\* Such a step is a stutter of the executor.
LEMMA IdleKeeps == ASSUME RInv, Idle PROVE Known' /\ Apart' /\ UNCHANGED Executor!vars
<1>1. Running' = Running BY DEF Idle, Running
<1>2. Known' BY <1>1 DEF RInv, Known, Idle
<1>3. Apart' BY DEF RInv, Apart, Idle
<1> QED BY <1>1, <1>2, <1>3 DEF Executor!vars, Running, Idle

\* Every step is one of execute's push, a worker's pop and its return, or idle.
LEMMA Kinds ==
    ASSUME IInv, [Next]_vars
    PROVE  \/ Idle
           \/ \E c \in Callers, t \in Tasks : Execute(c, t)
           \/ \E w \in Workers : Take(w) \/ Run(w)
<1> USE DEF IInv, TypeOK, WorkerStates, Idle
<1>1. ASSUME NEW w \in Workers, Lock(w) \/ Break(w) \/ Decide(w) \/ Wait(w) PROVE Idle
  BY <1>1 DEF Lock, Break, Leave, Decide, Wait, shared
<1>2. ASSUME NEW w \in Workers, SpuriousWakeup(w) PROVE Idle
  BY <1>2 DEF SpuriousWakeup, shared, Waiting
<1>3. ASSUME NEW c \in Callers, ExecuteNotify(c) PROVE Idle
  BY <1>3 DEF ExecuteNotify, notify_one, Woken, Waiting
<1>4. CASE Shutdown BY <1>4 DEF Shutdown
<1>5. CASE ShutdownNotify BY <1>5 DEF ShutdownNotify, notify_all, Woken, Waiting
<1>6. CASE Terminated \/ UNCHANGED vars BY <1>6 DEF Terminated, vars
<1> HIDE DEF IInv, TypeOK, WorkerStates, Idle
<1> QED BY <1>1, <1>2, <1>3, <1>4, <1>5, <1>6 DEF Next, WorkerStep

\* execute pushes a task nobody has seen: a Submit.
LEMMA ExecuteSubmits ==
    ASSUME RInv, NEW c \in Callers, NEW t \in Tasks, Execute(c, t)
    PROVE  Known' /\ Apart' /\ Executor!Submit(t)
<1>1. /\ t \notin Elems(accepted) /\ tasks_' = Append(tasks_, t) /\ accepted' = Append(accepted, t)
      /\ UNCHANGED <<pc, current, done>>
  BY DEF Execute
<1>2. tasks_ \in Seq(Tasks) /\ accepted \in Seq(Tasks) BY DEF RInv, IInv, TypeOK
<1>3. Elems(tasks_') = Elems(tasks_) \cup {t} /\ Elems(accepted') = Elems(accepted) \cup {t}
  BY <1>1, <1>2, Pushed
<1>4. Running' = Running BY <1>1 DEF Running
<1>5. t \notin Elems(tasks_) /\ t \notin Running /\ t \notin done BY <1>1 DEF RInv, Known
<1>6. Known' BY <1>1, <1>3, <1>4 DEF RInv, Known
<1>7. Apart'
  <2>1. /\ DOMAIN tasks_' = DOMAIN tasks_ \cup {Len(tasks_) + 1}
        /\ \A i \in DOMAIN tasks_ : tasks_'[i] = tasks_[i]
        /\ tasks_'[Len(tasks_) + 1] = t
    BY <1>1, <1>2, Pushed
  <2>2. \A i \in DOMAIN tasks_ : tasks_[i] # t BY <1>5 DEF Elems
  <2>3. \A w \in Workers : current[w] # t
    BY <1>5, FreeAssumption DEF Running, RInv, IInv, HoldsTask
  <2> QED BY <1>1, <2>1, <2>2, <2>3 DEF RInv, Apart
<1> QED BY <1>1, <1>5, <1>6, <1>7 DEF Executor!Submit, Executor!Queued, Elems, Running

\* A worker at the top of its loop runs nothing, so fewer tasks run than there are
\* workers.
LEMMA RoomToRun ==
    ASSUME NEW w \in Workers, pc[w] # "run"
    PROVE  Cardinality(Running) < Cardinality(Workers)
<1> DEFINE Runners == {v \in Workers : pc[v] = "run"}
<1> DEFINE f == [v \in Runners |-> current[v]]
<1>1. IsFiniteSet(Workers \ {w}) /\ Cardinality(Workers \ {w}) = Cardinality(Workers) - 1
  BY FS_RemoveElement, WorkersAssumption
<1>2. Runners \in SUBSET (Workers \ {w}) OBVIOUS
<1>3. IsFiniteSet(Runners) /\ Cardinality(Runners) <= Cardinality(Workers \ {w})
  BY <1>1, <1>2, FS_Subset
<1>4. f \in Surjection(Runners, Running) BY DEF Surjection, Running
<1>5. IsFiniteSet(Running) /\ Cardinality(Running) <= Cardinality(Runners)
  <2> HIDE DEF f, Runners
  <2> QED BY <1>3, <1>4, FS_Surjection
<1>6. Cardinality(Running) \in Nat /\ Cardinality(Runners) \in Nat /\ Cardinality(Workers) \in Nat
  BY <1>3, <1>5, FS_CardinalityType, WorkersAssumption
<1> QED BY <1>1, <1>3, <1>5, <1>6

\* A worker pops the oldest task: a Start.
LEMMA TakeStarts ==
    ASSUME RInv, NEW w \in Workers, Take(w)
    PROVE  Known' /\ Apart' /\ Executor!Start
<1> DEFINE h == Head(tasks_)
<1>1. /\ pc[w] = "loop" /\ tasks_ # <<>> /\ tasks_' = Tail(tasks_)
      /\ current' = [current EXCEPT ![w] = h] /\ pc' = [pc EXCEPT ![w] = "run"]
      /\ UNCHANGED <<accepted, done>>
  BY DEF Take
<1>2. tasks_ \in Seq(Tasks) /\ pc \in [Workers -> WorkerStates] /\ current \in [Workers -> Tasks \cup {Free}]
  BY DEF RInv, IInv, TypeOK
<1>3. /\ 1 \in DOMAIN tasks_ /\ h = tasks_[1] /\ h \in Tasks /\ h \in Elems(tasks_)
      /\ \A i \in DOMAIN tasks_' :
            i + 1 \in DOMAIN tasks_ /\ i + 1 # 1 /\ tasks_'[i] = tasks_[i + 1] /\ i \in Int
      /\ Elems(tasks_') \subseteq Elems(tasks_)
  BY <1>1, <1>2, Popped
<1> HIDE DEF h
<1>4. Running' = Running \cup {h} BY <1>1, <1>2 DEF Running
<1>5. Known' BY <1>1, <1>3, <1>4 DEF RInv, Known
<1>6. Apart'
  <2>1. \A i, j \in DOMAIN tasks_' : tasks_'[i] = tasks_'[j] => i = j BY <1>3 DEF RInv, Apart
  <2>2. \A i \in DOMAIN tasks_' : tasks_'[i] # h BY <1>3 DEF RInv, Apart
  <2>3. \A i \in DOMAIN tasks_', v \in Workers : tasks_'[i] # current'[v]
    BY <1>1, <1>2, <1>3, <2>2 DEF RInv, Apart
  <2>4. \A v \in Workers : current[v] # h BY <1>3 DEF RInv, Apart
  <2>5. \A u, v \in Workers : current'[u] = current'[v] /\ pc'[u] = "run" => u = v
    BY <1>1, <1>2, <2>4 DEF RInv, Apart
  <2> QED BY <2>1, <2>3, <2>5 DEF Apart
<1>7. Cardinality(Running) < Cardinality(Workers) BY <1>1, RoomToRun
<1>8. Executor!Cardinality(Running) = Cardinality(Running) BY DEF Executor!Cardinality, Cardinality
<1> QED BY <1>1, <1>4, <1>5, <1>6, <1>7, <1>8 DEF Executor!Start, Running, h

\* A worker returns from current(): a Finish.
LEMMA RunFinishes ==
    ASSUME RInv, NEW w \in Workers, Run(w)
    PROVE  Known' /\ Apart' /\ \E t \in Tasks : Executor!Finish(t)
<1>1. /\ pc[w] = "run" /\ done' = done \cup {current[w]} /\ UNCHANGED <<tasks_, accepted>>
      /\ current' = [current EXCEPT ![w] = Free] /\ pc' = [pc EXCEPT ![w] = "lock"]
  BY DEF Run
<1>2. /\ tasks_ \in Seq(Tasks) /\ pc \in [Workers -> WorkerStates]
      /\ current \in [Workers -> Tasks \cup {Free}]
  BY DEF RInv, IInv, TypeOK
<1>3. current[w] \in Running /\ current[w] \in Tasks
  BY <1>1, <1>2 DEF Running, RInv, IInv, HoldsTask
<1>4. Running' = Running \ {current[w]}
  <2>1. \A v \in Workers : pc'[v] = "run" <=> pc[v] = "run" /\ v # w BY <1>1, <1>2
  <2>2. \A v \in Workers : v # w => current'[v] = current[v] BY <1>1, <1>2
  <2>3. \A v \in Workers : v # w => current[v] # current[w] BY <1>1 DEF RInv, Apart
  <2> QED BY <2>1, <2>2, <2>3 DEF Running
<1>5. Known' BY <1>1, <1>3, <1>4 DEF RInv, Known
<1>6. Apart'
  <2>1. \A i \in DOMAIN tasks_ : tasks_[i] \in Tasks BY <1>2
  <2>2. \A i \in DOMAIN tasks_, v \in Workers : tasks_[i] # current'[v]
    BY <1>1, <1>2, <2>1, FreeAssumption DEF RInv, Apart
  <2>3. \A u, v \in Workers : current'[u] = current'[v] /\ pc'[u] = "run" => u = v
    BY <1>1, <1>2, FreeAssumption DEF RInv, IInv, HoldsTask, Apart
  <2> QED BY <1>1, <2>2, <2>3 DEF RInv, Apart
<1>7. PICK t \in Tasks : t = current[w] BY <1>3
<1>8. Executor!Finish(t) BY <1>1, <1>3, <1>4, <1>7 DEF Executor!Finish, Running
<1> QED BY <1>5, <1>6, <1>8

\* Seen through tasks_, the tasks in the workers' hands and done, the pool's steps
\* are those of an executor with one slot per worker: tasks start in the order of
\* execute, none twice, and never more of them at a time than there are workers.
THEOREM PoolIsAnExecutor == Spec => Executor!Init /\ [][Executor!Next]_(Executor!vars)
<1>1. Init => Executor!Init /\ Known /\ Apart
  <2> SUFFICES ASSUME Init PROVE Executor!Init /\ Known /\ Apart OBVIOUS
  <2>1. Running = {} /\ Elems(tasks_) = {} /\ done = {} BY DEF Init, Running, Elems
  <2>2. Apart BY DEF Init, Apart
  <2> QED BY <2>1, <2>2 DEF Init, Executor!Init, Known, Running
<1>2. RInv /\ [Next]_vars => Known' /\ Apart' /\ [Executor!Next]_(Executor!vars)
  <2> SUFFICES ASSUME RInv, [Next]_vars PROVE Known' /\ Apart' /\ [Executor!Next]_(Executor!vars)
    OBVIOUS
  <2>1. CASE Idle BY <2>1, IdleKeeps
  <2>2. ASSUME NEW c \in Callers, NEW t \in Tasks, Execute(c, t)
        PROVE  Known' /\ Apart' /\ Executor!Next
    BY <2>2, ExecuteSubmits DEF Executor!Next
  <2>3. ASSUME NEW w \in Workers, Take(w) PROVE Known' /\ Apart' /\ Executor!Next
    BY <2>3, TakeStarts DEF Executor!Next
  <2>4. ASSUME NEW w \in Workers, Run(w) PROVE Known' /\ Apart' /\ Executor!Next
    BY <2>4, RunFinishes DEF Executor!Next
  <2> QED BY <2>1, <2>2, <2>3, <2>4, Kinds DEF RInv
<1> QED BY <1>1, <1>2, Inductive, PTL DEF Spec, RInv
=============================================================================
