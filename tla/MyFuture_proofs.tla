--------------------------- MODULE MyFuture_proofs ---------------------------
(***************************************************************************)
(* Proofs about MyFuture's hand-written reference count and about what get *)
(* yields, for any finite set of handles and any values.                   *)
(***************************************************************************)
EXTENDS MyFuture, FiniteSetTheorems, TLAPS

\* The provers tried on a leaf, in turn, and the time each of them gets.
USE SMTT(30), ZenonT(20), SMTT(31)

Live == {h \in Handles : state[h] = "live"}

Types ==
    /\ condition_ \subseteq Handles
    /\ freed \in BOOLEAN
    /\ state \in [Handles -> {"unborn", "live", "null", "deleting", "dead"}]
    /\ getting \in [Handles -> {"out", "block", "wait", "relock"}]

\* A thread inside get keeps its handle, and waiters are inside wait.
HandleHeld ==
    /\ \A h \in Handles : getting[h] # "out" => state[h] = "live"
    /\ \A h \in condition_ : getting[h] = "wait"

IInv == Types /\ HandleHeld /\ CountIsHandles /\ NoUseAfterFree

\* The live handles are finitely many, before and after any step.
LEMMA LiveFinite == IsFiniteSet(Live) /\ IsFiniteSet(Live') /\ Cardinality(Live) \in Nat /\ Cardinality(Live') \in Nat
<1>1. Live \in SUBSET Handles /\ Live' \in SUBSET Handles BY DEF Live
<1>2. IsFiniteSet(Live) /\ IsFiniteSet(Live') BY <1>1, FS_Subset, HandlesAssumption
<1> QED BY <1>2, FS_CardinalityType

\* One handle at first, and a count of one.
LEMMA Initially == Init => IInv
<1> SUFFICES ASSUME Init PROVE IInv OBVIOUS
<1>1. PICK first \in Handles : state = [h \in Handles |-> IF h = first THEN "live" ELSE "unborn"]
  BY DEF Init
<1>2. Live = {first} BY <1>1 DEF Live
<1>3. CountIsHandles BY <1>2, FS_Singleton, Zenon DEF Init, CountIsHandles, Live
<1>4. Types /\ HandleHeld /\ NoUseAfterFree BY <1>1, Zenon DEF Init, Types, HandleHeld, NoUseAfterFree
<1> QED BY <1>3, <1>4 DEF IInv

\* The constructors: copying counts the new handle, moving exchanges one for one.
LEMMA ConstructKeeps ==
    ASSUME IInv, NEW h \in Handles, NEW g \in Handles, Copy(h, g) \/ Move(h, g) PROVE IInv'
<1> USE DEF IInv
<1>1. h # g /\ h \in Live /\ g \notin Live BY DEF Copy, Move, Usable, Live
<1>2. getting[h] = "out" /\ state[g] = "unborn" BY DEF Copy, Move, Usable
<1>3. UNCHANGED <<condition_, freed, getting>> BY DEF Copy, Move, inner
<1>4. getting[g] = "out" /\ ~freed /\ \A x \in Handles : state[x] # "deleting"
  BY <1>1, <1>2 DEF HandleHeld, Types, NoUseAfterFree, Live
<1>5. CASE Copy(h, g)
  <2>1. state' = [state EXCEPT ![g] = "live"] /\ count_' = count_ + 1 BY <1>5 DEF Copy
  <2>2. Live' = Live \cup {g} BY <2>1 DEF Live, Types
  <2>3. Cardinality(Live') = Cardinality(Live) + 1 BY <1>1, <2>2, LiveFinite, FS_AddElement
  <2>4. CountIsHandles' BY <2>1, <2>3 DEF CountIsHandles, Live
  <2>5. Types' /\ HandleHeld' BY <1>3, <2>1 DEF Types, HandleHeld
  <2>6. NoUseAfterFree' BY <1>3, <1>4, <2>1 DEF Types, NoUseAfterFree
  <2> QED BY <2>4, <2>5, <2>6
<1>6. CASE Move(h, g)
  <2>1. state' = [state EXCEPT ![g] = "live", ![h] = "null"] /\ count_' = count_ BY <1>6 DEF Move, inner
  <2>2. Live' = (Live \ {h}) \cup {g} BY <1>1, <2>1 DEF Live, Types
  <2>3. IsFiniteSet(Live \ {h}) /\ Cardinality(Live \ {h}) = Cardinality(Live) - 1
    BY <1>1, LiveFinite, FS_RemoveElement
  <2>4. Cardinality(Live') = Cardinality(Live \ {h}) + 1 BY <1>1, <2>2, <2>3, FS_AddElement
  <2>5. Cardinality(Live') = Cardinality(Live) BY <2>3, <2>4, LiveFinite
  <2>6. CountIsHandles' BY <2>1, <2>5 DEF CountIsHandles, Live
  <2>7. Types' /\ HandleHeld' BY <1>2, <1>3, <2>1 DEF Types, HandleHeld
  <2>8. NoUseAfterFree' BY <1>3, <1>4, <2>1 DEF Types, NoUseAfterFree
  <2> QED BY <2>6, <2>7, <2>8
<1> QED BY <1>5, <1>6

\* The destructor: the count reaches zero with the last live handle, and only then.
LEMMA DestructKeeps == ASSUME IInv, NEW h \in Handles, Release(h) \/ Delete(h) PROVE IInv'
<1> USE DEF IInv
<1>1. CASE Delete(h)
  <2>1. state[h] = "deleting" /\ freed' = TRUE /\ state' = [state EXCEPT ![h] = "dead"]
        /\ UNCHANGED <<count_, condition_, getting>>
    BY <1>1 DEF Delete
  <2>2. Live' = Live BY <2>1 DEF Live, Types
  <2>3. CountIsHandles' BY <2>1, <2>2 DEF CountIsHandles, Live
  <2>4. Types' /\ HandleHeld' BY <2>1 DEF Types, HandleHeld
  <2>5. NoUseAfterFree' BY <2>1 DEF Types, HandleHeld, NoUseAfterFree
  <2> QED BY <2>3, <2>4, <2>5
<1>2. CASE Release(h) /\ state[h] = "null"
  <2>1. state' = [state EXCEPT ![h] = "dead"] /\ UNCHANGED <<count_, condition_, freed, getting>>
    BY <1>2 DEF Release
  <2>2. Live' = Live BY <1>2, <2>1 DEF Live, Types
  <2>3. CountIsHandles' BY <2>1, <2>2 DEF CountIsHandles, Live
  <2>4. Types' /\ HandleHeld' BY <1>2, <2>1 DEF Types, HandleHeld
  <2>5. NoUseAfterFree' BY <2>1 DEF Types, NoUseAfterFree
  <2> QED BY <2>3, <2>4, <2>5
<1>3. CASE Release(h) /\ state[h] = "live"
  <2>1. /\ getting[h] = "out" /\ count_' = count_ - 1
        /\ state' = [state EXCEPT ![h] = IF count_' = 0 THEN "deleting" ELSE "dead"]
        /\ UNCHANGED <<condition_, freed, getting>>
    BY <1>3 DEF Release
  <2>2. Live' = Live \ {h} /\ h \in Live BY <1>3, <2>1 DEF Live, Types
  <2>3. Cardinality(Live') = Cardinality(Live) - 1 BY <2>2, LiveFinite, FS_RemoveElement
  <2>4. CountIsHandles' BY <2>1, <2>3 DEF CountIsHandles, Live
  <2>5. Types' /\ HandleHeld' BY <2>1 DEF Types, HandleHeld
  <2>6. ~freed /\ \A x \in Handles : state[x] # "deleting" BY <1>3 DEF NoUseAfterFree
  <2>7. count_' = 0 => Live' = {} BY <2>4, LiveFinite, FS_EmptySet, Zenon DEF CountIsHandles, Live
  <2>8. NoUseAfterFree'
    <3>1. ~freed' BY <2>1, <2>6
    <3>2. \A x \in Handles : state'[x] = "deleting" => x = h /\ count_' = 0 BY <2>1, <2>6 DEF Types
    <3>3. count_' = 0 => \A x \in Handles : state'[x] # "live" BY <2>7 DEF Live
    <3> QED BY <3>1, <3>2, <3>3 DEF NoUseAfterFree
  <2> QED BY <2>4, <2>5, <2>8
<1> QED BY <1>1, <1>2, <1>3 DEF Release

\* set and get change no handle, and only a live one's owner is inside them.
LEMMA AccessKeeps ==
    ASSUME IInv, NEW h \in Handles,
           \/ \E v \in Values : Set(h, v)
           \/ \E copy \in BOOLEAN : GetSet(h, copy) \/ GetUnset(h, copy)
           \/ Wait(h) \/ SpuriousWakeup(h) \/ GetResume(h)
    PROVE  IInv'
<1> USE DEF IInv
<1>1. UNCHANGED <<count_, state, freed>> BY DEF Set, GetSet, GetUnset, Wait, SpuriousWakeup, GetResume
<1>2. CountIsHandles' BY <1>1 DEF CountIsHandles
<1>3. Types' /\ HandleHeld'
  <2>1. ASSUME NEW v \in Values, Set(h, v) PROVE Types' /\ HandleHeld'
    BY <1>1, <2>1 DEF Set, Types, HandleHeld
  <2>2. ASSUME NEW copy \in BOOLEAN, GetSet(h, copy) \/ GetUnset(h, copy) PROVE Types' /\ HandleHeld'
    BY <1>1, <2>2 DEF GetSet, GetUnset, Yield, Usable, Types, HandleHeld
  <2>3. CASE Wait(h) BY <1>1, <2>3 DEF Wait, Types, HandleHeld
  <2>4. CASE SpuriousWakeup(h) BY <1>1, <2>4 DEF SpuriousWakeup, Types, HandleHeld
  <2>5. CASE GetResume(h) BY <1>1, <2>5 DEF GetResume, Yield, Types, HandleHeld
  <2> QED BY <2>1, <2>2, <2>3, <2>4, <2>5
<1>4. NoUseAfterFree'
  <2>1. freed' => \A x \in Handles : state'[x] \notin {"live", "deleting"} BY <1>1 DEF NoUseAfterFree
  <2>2. freed' => \A x \in Handles : getting'[x] = "out" BY <1>3, <2>1 DEF HandleHeld
  <2> QED BY <1>1, <2>1, <2>2 DEF NoUseAfterFree
<1> QED BY <1>2, <1>3, <1>4

\* IInv holds in every reachable state.
THEOREM Inductive == Spec => []IInv
<1>1. IInv /\ [Next]_vars => IInv'
  <2> SUFFICES ASSUME IInv, [Next]_vars PROVE IInv' OBVIOUS
  <2>1. CASE UNCHANGED vars
    BY <2>1 DEF vars, IInv, Types, HandleHeld, CountIsHandles, NoUseAfterFree
  <2>2. CASE Next BY <2>2, ConstructKeeps, DestructKeeps, AccessKeeps DEF Next
  <2> QED BY <2>1, <2>2
<1> QED BY Initially, <1>1, PTL DEF Spec

\* count_, incremented and decremented by copies and destructors in any order, is
\* the number of handles that point to the inner state.
THEOREM CountNeverDrifts == Spec => []CountIsHandles
BY Inductive, PTL DEF IInv

\* The inner state is deleted once, by the last handle, when no thread is inside
\* set or get and no handle is left to call them.
THEOREM DeletedOnceUnused == Spec => []NoUseAfterFree
BY Inductive, PTL DEF IInv
-----------------------------------------------------------------------------
(* What get yields when nobody is woken for nothing *)

\* Every step but a wake-up that no set has caused.
Undisturbed == Next /\ \A h \in Handles : ~SpuriousWakeup(h)

\* set has published a value before anybody is on the way back from the wait, and
\* what is published is a value of set or what a moving get has left of it.
Published ==
    /\ getting \in [Handles -> {"out", "block", "wait", "relock"}]
    /\ result \in [Handles -> Values \cup {"none", "moved"}]
    /\ value_set_ => value_ \in Values \cup {"moved"}
    /\ \A h \in Handles : getting[h] = "relock" => value_set_

\* The steps of set and get keep it, the handles' comings and goings do not touch it.
LEMMA PublishedKeeps == ASSUME Published, [Undisturbed]_vars PROVE Published'
<1>1. CASE UNCHANGED vars BY <1>1 DEF vars, Published
<1>2. ASSUME NEW h \in Handles, NEW g \in Handles, Copy(h, g) \/ Move(h, g) \/ Release(h) \/ Delete(h)
      PROVE  Published'
  <2>1. UNCHANGED <<value_, value_set_, getting, result>> BY <1>2 DEF Copy, Move, Release, Delete, inner
  <2> QED BY <2>1 DEF Published
<1>3. ASSUME NEW h \in Handles, NEW v \in Values, Set(h, v) PROVE Published'
  BY <1>3 DEF Set, Published
<1>4. ASSUME NEW h \in Handles, NEW copy \in BOOLEAN, GetSet(h, copy) PROVE Published'
  BY <1>4 DEF GetSet, Yield, Published
<1>5. ASSUME NEW h \in Handles, NEW copy \in BOOLEAN, GetUnset(h, copy) PROVE Published'
  BY <1>5 DEF GetUnset, Published
<1>6. ASSUME NEW h \in Handles, Wait(h) PROVE Published'
  BY <1>6 DEF Wait, Published
<1>7. ASSUME NEW h \in Handles, GetResume(h) PROVE Published'
  BY <1>7 DEF GetResume, Yield, Published
<1> QED BY <1>1, <1>2, <1>3, <1>4, <1>5, <1>6, <1>7 DEF Undisturbed, Next

\* The spurious wake-up is all that the missing loop around condition_.wait leaves
\* open: as long as none comes, no get of any handle returns a value before set has
\* stored one, whatever copies, moves, releases, sets and gets are interleaved.
THEOREM OnlySpuriousYieldsUnset ==
    ASSUME "unset" \notin Values
    PROVE  Init /\ [][Undisturbed]_vars => []GetYieldsSetValue
<1>1. Init => Published BY DEF Init, Published
<1>2. Published /\ [Undisturbed]_vars => Published' BY PublishedKeeps
<1>3. Published => GetYieldsSetValue BY DEF Published, GetYieldsSetValue
<1> QED BY <1>1, <1>2, <1>3, PTL
=============================================================================
