------------------------------ MODULE MyFuture ------------------------------
(***************************************************************************)
(* MyFuture and MyFutureInner (code/concurrent/MyFuture.cpp): handles that *)
(* share one heap-allocated inner state through a hand-written reference   *)
(* count; set publishes a value, get waits for it and moves or copies it.  *)
(* Each handle belongs to one thread; the threads interleave freely.       *)
(***************************************************************************)
EXTENDS Integers, FiniteSets

CONSTANTS
    Handles,   \* the MyFuture objects that may ever be constructed
    Values,    \* the values given to set
    None       \* mutex_ has no owner

ASSUME HandlesAssumption == IsFiniteSet(Handles) /\ None \notin Handles

VARIABLES
    count_, mutex_, condition_, value_, value_set_,
    freed,     \* the inner state has been deleted
    state,     \* of each handle: unborn, live, null (moved from), deleting, dead
    getting,   \* where the handle's owner is inside get: out, block, wait, relock
    copying,   \* the argument of that get
    result     \* what the handle's last get returned

vars == <<count_, mutex_, condition_, value_, value_set_, freed, state, getting, copying, result>>

inner == <<count_, mutex_, condition_, value_, value_set_, freed>>

\* main constructs the first handle.
Init ==
    /\ count_ = 1
    /\ mutex_ = None
    /\ condition_ = {}
    /\ value_ = "unset"
    /\ value_set_ = FALSE
    /\ freed = FALSE
    /\ \E first \in Handles : state = [h \in Handles |-> IF h = first THEN "live" ELSE "unborn"]
    /\ getting = [h \in Handles |-> "out"]
    /\ copying = [h \in Handles |-> FALSE]
    /\ result = [h \in Handles |-> "none"]

Usable(h) == state[h] = "live" /\ getting[h] = "out"

-----------------------------------------------------------------------------
(* Handles and the reference count *)

CopyUncounted(h, g) ==
    /\ Usable(h)
    /\ state[g] = "unborn"
    /\ state' = [state EXCEPT ![g] = "live"]
    /\ UNCHANGED <<inner, getting, copying, result>>

Copy(h, g) ==
    /\ Usable(h)
    /\ state[g] = "unborn"
    /\ state' = [state EXCEPT ![g] = "live"]
    /\ count_' = count_ + 1
    /\ UNCHANGED <<mutex_, condition_, value_, value_set_, freed, getting, copying, result>>

MoveKeepingSource(h, g) ==
    /\ Usable(h)
    /\ state[g] = "unborn"
    /\ state' = [state EXCEPT ![g] = "live"]
    /\ UNCHANGED <<inner, getting, copying, result>>

Move(h, g) ==
    /\ Usable(h)
    /\ state[g] = "unborn"
    /\ state' = [state EXCEPT ![g] = "live", ![h] = "null"]
    /\ UNCHANGED <<inner, getting, copying, result>>

\* ~MyFuture up to the fetch_add; a moved-from handle has nothing to release.
Release(h) ==
    /\ getting[h] = "out"
    /\ \/ /\ state[h] = "null"
          /\ state' = [state EXCEPT ![h] = "dead"]
          /\ UNCHANGED count_
       \/ /\ state[h] = "live"
          /\ count_' = count_ - 1
          /\ state' = [state EXCEPT ![h] = IF count_' = 0 THEN "deleting" ELSE "dead"]
    /\ UNCHANGED <<mutex_, condition_, value_, value_set_, freed, getting, copying, result>>

Delete(h) ==
    /\ state[h] = "deleting"
    /\ freed' = TRUE
    /\ state' = [state EXCEPT ![h] = "dead"]
    /\ UNCHANGED <<count_, mutex_, condition_, value_, value_set_, getting, copying, result>>

-----------------------------------------------------------------------------
(* set and get *)

SetNotifyOne(h, v) ==
    /\ Usable(h)
    /\ mutex_ = None
    /\ value_' = v
    /\ value_set_' = TRUE
    /\ \E woken \in SUBSET condition_ :
          /\ Cardinality(woken) <= 1
          /\ woken = {} => condition_ = {}
          /\ condition_' = condition_ \ woken
          /\ getting' = [g \in Handles |-> IF g \in woken THEN "relock" ELSE getting[g]]
    /\ UNCHANGED <<count_, mutex_, freed, state, copying, result>>

\* set: the assignments and notify_all, all of it under mutex_.
Set(h, v) ==
    /\ Usable(h)
    /\ mutex_ = None
    /\ value_' = v
    /\ value_set_' = TRUE
    /\ condition_' = {}
    /\ getting' = [g \in Handles |-> IF g \in condition_ THEN "relock" ELSE getting[g]]
    /\ UNCHANGED <<count_, mutex_, freed, state, copying, result>>

\* The return of copy() or move(): the value comes out, the lock is released.
Yield(h, copy) ==
    /\ result' = [result EXCEPT ![h] = value_]
    /\ value_' = IF copy THEN value_ ELSE "moved"
    /\ getting' = [getting EXCEPT ![h] = "out"]

\* get finds value_set_ and returns at once ...
GetSet(h, copy) ==
    /\ Usable(h)
    /\ mutex_ = None
    /\ value_set_
    /\ Yield(h, copy)
    /\ UNCHANGED <<count_, mutex_, condition_, value_set_, freed, state, copying>>

\* ... or does not, and goes on to condition_.wait with mutex_ held.
GetUnset(h, copy) ==
    /\ Usable(h)
    /\ mutex_ = None
    /\ ~value_set_
    /\ mutex_' = h
    /\ getting' = [getting EXCEPT ![h] = "block"]
    /\ copying' = [copying EXCEPT ![h] = copy]
    /\ UNCHANGED <<count_, condition_, value_, value_set_, freed, state, result>>

Wait(h) ==
    /\ getting[h] = "block"
    /\ mutex_' = None
    /\ condition_' = condition_ \cup {h}
    /\ getting' = [getting EXCEPT ![h] = "wait"]
    /\ UNCHANGED <<count_, value_, value_set_, freed, state, copying, result>>

SpuriousWakeup(h) ==
    /\ h \in condition_
    /\ condition_' = condition_ \ {h}
    /\ getting' = [getting EXCEPT ![h] = "relock"]
    /\ UNCHANGED <<count_, mutex_, value_, value_set_, freed, state, copying, result>>

\* wait returns with mutex_ reacquired; value_set_ is not tested again.
GetResume(h) ==
    /\ getting[h] = "relock"
    /\ mutex_ = None
    /\ Yield(h, copying[h])
    /\ UNCHANGED <<count_, mutex_, condition_, value_set_, freed, state, copying>>

-----------------------------------------------------------------------------
Next ==
    \E h \in Handles :
        \/ \E g \in Handles : Copy(h, g) \/ Move(h, g)
        \/ Release(h) \/ Delete(h)
        \/ \E v \in Values : Set(h, v)
        \/ \E copy \in BOOLEAN : GetSet(h, copy) \/ GetUnset(h, copy)
        \/ Wait(h) \/ SpuriousWakeup(h) \/ GetResume(h)

\* A thread inside get that can go on does; nobody has to call anything.
Fairness == \A h \in Handles : WF_vars(Wait(h)) /\ SF_vars(GetResume(h))

Spec == Init /\ [][Next]_vars /\ Fairness

-----------------------------------------------------------------------------
\* The count is the number of handles that point to the inner state.
CountIsHandles == count_ = Cardinality({h \in Handles : state[h] = "live"})

\* The inner state is deleted once, by the last handle, and never under a handle
\* that may still use it or a thread that is inside set or get.
NoUseAfterFree ==
    /\ freed => \A h \in Handles : state[h] \notin {"live", "deleting"} /\ getting[h] = "out"
    /\ \A g, h \in Handles : state[g] = "deleting" =>
          state[h] # "live" /\ (state[h] = "deleting" => g = h)

\* A get that waits comes back once some handle has called set.
GetReturns ==
    \A h \in Handles : (getting[h] # "out" /\ value_set_) ~> getting[h] = "out"

\* The notes say that wait may return with its condition false and is therefore
\* to be put in a loop on the condition: a get returns only what set stored.
GetYieldsSetValue == \A h \in Handles : result[h] # "unset"
=============================================================================
