---------------------------- MODULE ThreadSamples ----------------------------
(***************************************************************************)
(* The samples of code/concurrent in which main waits for its threads      *)
(* through a flag, a queue of one task, or futures:                        *)
(*                                                                         *)
(*   notify           threads wait for ready, go wakes one of them         *)
(*   consume          a thread waits for the task main queues              *)
(*   promise          two detached threads, an end flag                    *)
(*   atomic_bool      a thread told to end, then another one               *)
(*   set_value        a value set at the exit of the main thread           *)
(*   wait_fororuntil  the same, after waits with a time-out                *)
(*                                                                         *)
(* Sleeps and time limits may take any time.                               *)
(***************************************************************************)
EXTENDS Integers

VARIABLES
    program,
    main,     \* where main stands: the call it makes next
    thread,   \* of each thread: none, start, loop, wait, done
    flag,     \* ready, end_flag, or that task_q holds the task
    future,   \* unset, late (ready when its thread exits), ready
    told      \* the threads of atomic_bool that ended because of end_flag

vars == <<program, main, thread, flag, future, told>>

Threads == 1 .. 3

Init ==
    /\ main = "first"
    /\ thread = [t \in Threads |-> IF program = "notify" \/ (program = "consume" /\ t = 1)
                                   THEN "start" ELSE "none"]
    /\ flag = FALSE
    /\ future = [i \in 1 .. 2 |-> "unset"]
    /\ told = {}

Goes(next) == main' = next

Moves(t, place) == thread' = [thread EXCEPT ![t] = place]

At(sample, place) == program = sample /\ main = place /\ UNCHANGED program

\* The exit of thread t makes the value it has stored in future i ready.
Exits(t, i) == Moves(t, "done") /\ future' = [future EXCEPT ![i] = "ready"]

-----------------------------------------------------------------------------
(* notify.cpp and consume.cpp: a wait under a mutex *)

\* print_id tests ready, thread_1 the queue, before every wait.
Wait(t) ==
    /\ program \in {"notify", "consume"} /\ thread[t] = "start" /\ ~flag
    /\ Moves(t, "wait")
    /\ UNCHANGED <<program, main, flag, future, told>>

SpuriousWakeup(t) ==
    /\ thread[t] = "wait"
    /\ Moves(t, "start")
    /\ UNCHANGED <<program, main, flag, future, told>>

print_id(t) ==
    /\ program = "notify" /\ thread[t] = "start" /\ flag
    /\ Moves(t, "done")
    /\ UNCHANGED <<program, main, flag, future, told>>

\* Take the task and run it.
thread_1 ==
    /\ program = "consume" /\ thread[1] = "start" /\ flag
    /\ flag' = FALSE
    /\ Exits(1, 1)
    /\ UNCHANGED <<program, main, told>>

notify_one ==
    \/ \E t \in Threads : thread[t] = "wait" /\ Moves(t, "start")
    \/ (\A t \in Threads : thread[t] # "wait") /\ UNCHANGED thread

\* go sets ready and notifies under the lock; consume's main queues the task under
\* it and notifies afterwards.
go == At("notify", "first") /\ flag' = TRUE /\ notify_one /\ Goes("join") /\ UNCHANGED <<future, told>>

Push == At("consume", "first") /\ flag' = TRUE /\ Goes("notify") /\ UNCHANGED <<thread, future, told>>

Notify == At("consume", "notify") /\ notify_one /\ Goes("join") /\ UNCHANGED <<flag, future, told>>

join ==
    /\ main = "join" /\ \A t \in Threads : thread[t] \in {"none", "done"}
    /\ Goes("end")
    /\ UNCHANGED <<program, thread, flag, future, told>>

-----------------------------------------------------------------------------
(* promise.cpp: thread 1 is Myfunction, thread 2 print_process *)

Spawn ==
    /\ At("promise", "first")
    /\ thread' = [thread EXCEPT ![1] = "start", ![2] = "start"]
    /\ Goes("get") /\ UNCHANGED <<flag, future, told>>

\* set_value makes the value ready at once, before the thread ends.
Myfunction ==
    /\ program = "promise"
    /\ \/ thread[1] = "start" /\ Moves(1, "loop") /\ future' = [future EXCEPT ![1] = "ready"]
       \/ thread[1] = "loop" /\ Moves(1, "done") /\ UNCHANGED future
    /\ UNCHANGED <<program, main, flag, told>>

print_process ==
    /\ program = "promise"
    /\ \/ thread[2] = "start" /\ Moves(2, "loop") /\ future' = [future EXCEPT ![2] = "late"]
       \/ thread[2] = "loop" /\ flag /\ Exits(2, 2)
    /\ UNCHANGED <<program, main, flag, told>>

GetFirst ==
    /\ At("promise", "get") /\ future[1] = "ready"
    /\ flag' = TRUE
    /\ Goes("tmp") /\ UNCHANGED <<thread, future, told>>

-----------------------------------------------------------------------------
(* atomic_bool.cpp: func runs in thread 1, then in thread 2 *)

func(t) ==
    /\ program = "atomic_bool"
    /\ \/ /\ thread[t] = "start"
          /\ Moves(t, "loop") /\ future' = [future EXCEPT ![t] = "late"] /\ UNCHANGED told
       \/ /\ thread[t] = "loop" /\ Exits(t, t)
          /\ told' \in IF flag THEN {told, told \cup {t}} ELSE {told}
    /\ UNCHANGED <<program, main, flag>>

Begin ==
    /\ At("atomic_bool", "first")
    /\ Moves(1, "start")
    /\ Goes("store") /\ UNCHANGED <<flag, future, told>>

StoreTrue ==
    /\ At("atomic_bool", "store")
    /\ flag' = TRUE
    /\ Goes("get") /\ UNCHANGED <<thread, future, told>>

AgainLeavingFlag ==
    /\ At("atomic_bool", "get") /\ future[1] = "ready"
    /\ Moves(2, "start")
    /\ Goes("last") /\ UNCHANGED <<flag, future, told>>

\* res.get, store(false), and the second thread.
Again ==
    /\ At("atomic_bool", "get") /\ future[1] = "ready"
    /\ flag' = FALSE
    /\ Moves(2, "start")
    /\ Goes("last") /\ UNCHANGED <<future, told>>

-----------------------------------------------------------------------------
(* set_value.cpp and wait_fororuntil.cpp: thread 1 stores future 1 and exits, *)
(* main itself stores future 2                                                *)

Detached ==
    /\ program \in {"set_value", "wait_fororuntil"}
    /\ \/ thread[1] = "start" /\ Moves(1, "loop") /\ future' = [future EXCEPT ![1] = "late"]
       \/ thread[1] = "loop" /\ Exits(1, 1)
    /\ UNCHANGED <<program, main, flag, told>>

Start(sample, next) ==
    /\ At(sample, "first")
    /\ Moves(1, "start")
    /\ Goes(next) /\ UNCHANGED <<flag, future, told>>

\* wait_until may time out or not; wait_for too, and get is called if it did not.
WaitUntil ==
    /\ At("wait_fororuntil", "wait_until")
    /\ Goes("wait_for") /\ UNCHANGED <<thread, flag, future, told>>

WaitFor ==
    /\ At("wait_fororuntil", "wait_for")
    /\ Goes("task") /\ UNCHANGED <<thread, flag, future, told>>

\* set_value_at_thread_exit, called in main: by func, or by the task that main
\* runs when the wait for its result has timed out, as it always does.
SetAtExit(sample, place) ==
    /\ At(sample, place)
    /\ future' = [future EXCEPT ![2] = "late"]
    /\ Goes("sh_fu") /\ UNCHANGED <<thread, flag, told>>

-----------------------------------------------------------------------------
\* The last calls of get or wait, with the future each waits for and what follows;
\* the loop of wait_for on sh_fu is one of them.
Gets ==
    {<<"promise", "tmp", 2, "end">>, <<"atomic_bool", "last", 2, "end">>,
     <<"set_value", "sh_fu", 2, "f">>, <<"set_value", "f", 1, "end">>,
     <<"wait_fororuntil", "sh_fu", 2, "end">>}

Get ==
    \E g \in Gets :
        /\ At(g[1], g[2]) /\ future[g[3]] = "ready"
        /\ Goes(g[4]) /\ UNCHANGED <<thread, flag, future, told>>

-----------------------------------------------------------------------------
MainStep ==
    \/ go \/ Push \/ Notify \/ join
    \/ Spawn \/ GetFirst \/ Get
    \/ Begin \/ StoreTrue \/ Again
    \/ Start("set_value", "func") \/ SetAtExit("set_value", "func")
    \/ Start("wait_fororuntil", "wait_until") \/ WaitUntil \/ WaitFor
    \/ SetAtExit("wait_fororuntil", "task")

ThreadStep(t) ==
    \/ Wait(t) \/ print_id(t) \/ func(t)
    \/ t = 1 /\ (thread_1 \/ Myfunction \/ Detached)
    \/ t = 2 /\ print_process

Next == MainStep \/ \E t \in Threads : ThreadStep(t) \/ SpuriousWakeup(t)

-----------------------------------------------------------------------------
\* A thread that main detached with a reference into its own frame has ended when
\* main returns, but for Myfunction, which may have its return to make; the second
\* thread of atomic_bool does not see the flag that was meant for the first.
NoThreadLeft ==
    /\ main = "end" => \A t \in Threads :
          thread[t] \in {"none", "done"} \/ (program = "promise" /\ t = 1 /\ thread[t] = "loop")
    /\ 2 \notin told

\* The comment "必须是以线程的方式此语句才起左右" (wait_fororuntil.cpp:44): a value
\* set for the exit of the main thread is never there while main looks for it, so
\* set_value and wait_fororuntil never come to their end.
OnlyInAThread == program \in {"set_value", "wait_fororuntil"} => main \notin {"f", "end"}

\* In notify a thread that has not gone to sleep when ready is set passes; the
\* other programs end (notify ends only if at most one thread was asleep).
EndsOrPasses ==
    /\ \A t \in Threads : (program = "notify" /\ flag /\ thread[t] = "start") ~> thread[t] = "done"
    /\ <>(program \in {"consume", "promise", "atomic_bool"} => main = "end")
=============================================================================
