---------------------------- MODULE TaskExecutor ----------------------------
(***************************************************************************)
(* What a thread pool promises its callers, with no thread, mutex or       *)
(* condition variable in sight: a submitted task is queued, at most Width  *)
(* tasks run at a time, tasks start in the order of their submission, each *)
(* one starts once, and every one of them finishes.                        *)
(***************************************************************************)
EXTENDS Sequences, FiniteSets, Naturals

CONSTANTS Tasks, Width

VARIABLES queue, running, finished

vars == <<queue, running, finished>>

Queued == {queue[i] : i \in DOMAIN queue}

Init ==
    /\ queue = <<>>
    /\ running = {}
    /\ finished = {}

Submit(t) ==
    /\ t \notin Queued \cup running \cup finished
    /\ queue' = Append(queue, t)
    /\ UNCHANGED <<running, finished>>

Start ==
    /\ queue # <<>>
    /\ Cardinality(running) < Width
    /\ running' = running \cup {Head(queue)}
    /\ queue' = Tail(queue)
    /\ UNCHANGED finished

Finish(t) ==
    /\ t \in running
    /\ running' = running \ {t}
    /\ finished' = finished \cup {t}
    /\ UNCHANGED queue

Next ==
    \/ \E t \in Tasks : Submit(t) \/ Finish(t)
    \/ Start

Spec == Init /\ [][Next]_vars /\ WF_vars(Start) /\ \A t \in Tasks : WF_vars(Finish(t))
=============================================================================
