--------------------------- MODULE Printers_proofs ---------------------------
(***************************************************************************)
(* Proofs about the printing programs and the samples, for any number of   *)
(* threads and any limit.  Each program has an inductive invariant of its  *)
(* own; a step of PrintersNext is a step of one program and leaves the     *)
(* variables of the others alone.                                          *)
(***************************************************************************)
EXTENDS Printers, FiniteSetTheorems, TLAPS

\* The provers tried on a leaf, in turn, and the time each of them gets.
USE SMTT(30), ZenonT(20), SMTT(31)

-----------------------------------------------------------------------------
(* order_print and alternate_print_nt: a counter under a condition variable *)

\* The program is chosen once.
LEMMA ProgramFixed == [PrintersNext]_all => UNCHANGED program
<1>1. Sample!Next => UNCHANGED program
  <2> USE DEF Sample!At
  <2>1. Sample!MainStep => UNCHANGED program
    BY DEF Sample!MainStep, Sample!go, Sample!Push, Sample!Notify, Sample!join, Sample!Spawn,
           Sample!GetFirst, Sample!Get, Sample!Begin, Sample!StoreTrue, Sample!Again, Sample!Start,
           Sample!SetAtExit, Sample!WaitUntil, Sample!WaitFor
  <2>2. ASSUME NEW t \in Sample!Threads, Sample!ThreadStep(t) \/ Sample!SpuriousWakeup(t)
        PROVE  UNCHANGED program
    BY <2>2 DEF Sample!ThreadStep, Sample!SpuriousWakeup, Sample!Wait, Sample!print_id, Sample!func,
                Sample!thread_1, Sample!Myfunction, Sample!Detached, Sample!print_process
  <2> QED BY <2>1, <2>2 DEF Sample!Next
<1> QED BY <1>1 DEF PrintersNext, all, Own, Turns, Signals, Sampled

\* What a step of PrintersNext is to the two counting programs.
LEMMA CountersOnly ==
    [PrintersNext]_all =>
        \/ program = "order_print" /\ Next
        \/ program = "alternate_print_nt" /\ Alt!Next /\ UNCHANGED n
        \/ UNCHANGED vars
  BY DEF PrintersNext, all, Own, Turns, Signals, Sampled

\* The threads of order_print that have left their loop.
Gone == {p \in Threads : pc[p] = "done"}

\* A number beyond n has been printed by a thread that is gone.
FizzInv ==
    /\ n \in Nat /\ current \in Nat
    /\ cv \subseteq Threads
    /\ pc \in [Threads -> {"lock", "wait", "done"}]
    /\ \A p \in cv : pc[p] = "wait"
    /\ current = Len(out) + 1
    /\ out \in Seq(Nat \cup Threads)
    /\ current <= n + Cardinality(Gone)

\* There are four threads.
LEMMA FourThreads == IsFiniteSet(Threads) /\ Cardinality(Threads) = 4
<1>1. IsFiniteSet({}) /\ Cardinality({}) = 0 BY FS_EmptySet
<1>2. IsFiniteSet({"Fizz"}) /\ Cardinality({"Fizz"}) = 1 BY FS_Singleton
<1>3. IsFiniteSet({"Fizz"} \cup {"Buzz"}) /\ Cardinality({"Fizz"} \cup {"Buzz"}) = 2
  BY <1>2, FS_AddElement
<1>4. /\ IsFiniteSet(({"Fizz"} \cup {"Buzz"}) \cup {"FizzBuzz"})
      /\ Cardinality(({"Fizz"} \cup {"Buzz"}) \cup {"FizzBuzz"}) = 3
  BY <1>3, FS_AddElement
<1>5. /\ IsFiniteSet((({"Fizz"} \cup {"Buzz"}) \cup {"FizzBuzz"}) \cup {"number"})
      /\ Cardinality((({"Fizz"} \cup {"Buzz"}) \cup {"FizzBuzz"}) \cup {"number"}) = 4
  BY <1>4, FS_AddElement
<1>6. Threads = (({"Fizz"} \cup {"Buzz"}) \cup {"FizzBuzz"}) \cup {"number"} BY DEF Threads
<1> QED BY <1>5, <1>6

\* The threads that are gone are finitely many.
LEMMA GoneFinite == IsFiniteSet(Gone) /\ Cardinality(Gone) \in Nat /\ Cardinality(Gone) <= 4
  BY FourThreads, FS_Subset, FS_CardinalityType DEF Gone

\* A turn of a thread of order_print keeps FizzInv.
LEMMA TurnKeeps ==
    ASSUME FizzInv, NEW p \in Threads, NEW mine \in BOOLEAN, NEW text \in Nat \cup Threads, Turn(p, mine, text)
    PROVE  FizzInv'
<1>1. CASE Block(p, mine)
  <2>1. /\ UNCHANGED <<n, current, out>> /\ cv' = cv \cup {p} /\ pc[p] = "lock"
        /\ pc' = [pc EXCEPT ![p] = "wait"]
    BY <1>1 DEF Block
  <2>2. Gone' = Gone BY <2>1 DEF Gone, FizzInv
  <2> QED BY <2>1, <2>2 DEF FizzInv
<1>2. CASE PrintOwn(p, mine, text)
  <2>1. /\ pc[p] = "lock" /\ out' = Append(out, text) /\ current' = current + 1 /\ cv' = {} /\ n' = n
        /\ pc' = [q \in Threads |-> CASE q = p /\ current' > n -> "done"
                                      [] q \in cv -> "lock"
                                      [] OTHER -> pc[q]]
    BY <1>2 DEF PrintOwn
  <2>2. p \notin cv BY <2>1 DEF FizzInv
  <2>3. pc' \in [Threads -> {"lock", "wait", "done"}] BY <2>1 DEF FizzInv
  <2>4. \A q \in Threads : q # p => (pc'[q] = "done" <=> pc[q] = "done") BY <2>1 DEF FizzInv
  <2>5. pc'[p] = "done" <=> current' > n BY <2>1, <2>2
  <2>6. p \notin Gone BY <2>1 DEF Gone
  <2>7. current' <= n' + Cardinality(Gone)'
    <3>1. CASE current' > n
      <4>1. Gone' = Gone \cup {p} BY <2>4, <2>5, <3>1 DEF Gone
      <4>2. Cardinality(Gone \cup {p}) = Cardinality(Gone) + 1 BY <2>6, GoneFinite, FS_AddElement
      <4>3. Cardinality(Gone)' = Cardinality(Gone) + 1 BY <4>1, <4>2
      <4> QED BY <2>1, <4>3, GoneFinite DEF FizzInv
    <3>2. CASE ~(current' > n)
      <4>1. Gone' = Gone BY <2>4, <2>5, <2>6, <3>2 DEF Gone
      <4> QED BY <2>1, <3>2, <4>1, GoneFinite DEF FizzInv
    <3> QED BY <3>1, <3>2
  <2>8. out' \in Seq(Nat \cup Threads) /\ Len(out') = Len(out) + 1 BY <2>1 DEF FizzInv
  <2> QED BY <2>1, <2>3, <2>7, <2>8 DEF FizzInv
<1> QED BY <1>1, <1>2 DEF Turn

\* Every step of order_print keeps FizzInv.
LEMMA FizzKeeps == FizzInv /\ Next => FizzInv'
<1> SUFFICES ASSUME FizzInv, Next PROVE FizzInv' OBVIOUS
<1>0. {"Fizz", "Buzz", "FizzBuzz", "number"} \subseteq Threads /\ current \in Nat BY DEF Threads, FizzInv
<1>1. CASE fizz BY <1>0, <1>1, TurnKeeps, Zenon DEF fizz, is_15x, is_3x
<1>2. CASE buzz BY <1>0, <1>2, TurnKeeps, Zenon DEF buzz, is_15x, is_5x
<1>3. CASE fizzbuzz BY <1>0, <1>3, TurnKeeps, Zenon DEF fizzbuzz, is_15x
<1>4. CASE number BY <1>0, <1>4, TurnKeeps, Zenon DEF number, is_simple, is_3x, is_5x
<1>5. CASE \E p \in Threads : SpuriousWakeup(p)
  <2>1. PICK p \in Threads : SpuriousWakeup(p) BY <1>5
  <2>2. /\ p \in cv /\ cv' = cv \ {p} /\ pc' = [pc EXCEPT ![p] = "lock"] /\ UNCHANGED <<n, current, out>>
    BY <2>1 DEF SpuriousWakeup
  <2>3. pc[p] = "wait" BY <2>2 DEF FizzInv
  <2>4. Gone' = Gone BY <2>2, <2>3 DEF Gone, FizzInv
  <2> QED BY <2>2, <2>4 DEF FizzInv
<1> QED BY <1>1, <1>2, <1>3, <1>4, <1>5 DEF Next

-----------------------------------------------------------------------------
\* The threads of alternate_print_nt that have entered the loop body.
Inside == {id \in Alt!Ids : pc[id] \in {"lock", "wait"}}

\* Past the limit nobody enters the body any more, and each line takes one out.
TurnsInv ==
    /\ n = Limit /\ current \in Nat
    /\ cv \subseteq Alt!Ids
    /\ pc \in [Alt!Ids -> {"while", "lock", "wait", "done"}]
    /\ \A id \in cv : pc[id] = "wait"
    /\ out \in Seq(Nat \X Nat)
    /\ current = Len(out)
    /\ Alt!TakeTurns
    /\ current > Limit => current + Cardinality(Inside) <= Limit + max_p

\* There are max_p threads.
LEMMA ThreadCount == IsFiniteSet(Alt!Ids) /\ Cardinality(Alt!Ids) = max_p
<1>1. max_p \in Nat /\ max_p - 1 \in Int /\ max_p >= 1 BY PrintersAssumption
<1>2. IsFiniteSet(0 .. max_p - 1) /\ Cardinality(0 .. max_p - 1) = (max_p - 1) - 0 + 1
  BY <1>1, FS_Interval
<1> QED BY <1>1, <1>2 DEF Alt!Ids

\* Those inside are finitely many.
LEMMA InsideFinite == IsFiniteSet(Inside) /\ Cardinality(Inside) \in Nat /\ Cardinality(Inside) <= max_p
  BY ThreadCount, FS_Subset, FS_CardinalityType DEF Inside

\* Every step of alternate_print_nt keeps TurnsInv.
LEMMA TurnsKeeps == TurnsInv /\ Alt!Next /\ UNCHANGED n => TurnsInv'
<1> SUFFICES ASSUME TurnsInv, Alt!Next, UNCHANGED n PROVE TurnsInv' OBVIOUS
<1>0. PICK id \in Alt!Ids : Alt!ThreadStep(id) \/ Alt!SpuriousWakeup(id) BY DEF Alt!Next
<1>a. Limit \in Nat /\ max_p \in Nat /\ max_p > 0 /\ id \in Nat BY PrintersAssumption DEF Alt!Ids
<1>1. CASE Alt!While(id)
  <2>1. /\ pc[id] = "while" /\ UNCHANGED <<current, cv, out>>
        /\ pc' = [pc EXCEPT ![id] = IF current <= Limit THEN "lock" ELSE "done"]
    BY <1>1 DEF Alt!While
  <2>2. current > Limit => Inside' = Inside BY <2>1, <1>a DEF Inside, TurnsInv
  <2>3. current > Limit => current + Cardinality(Inside)' <= Limit + max_p BY <2>2 DEF TurnsInv
  <2>4. pc' \in [Alt!Ids -> {"while", "lock", "wait", "done"}] /\ \A i \in cv : pc'[i] = "wait"
    BY <2>1 DEF TurnsInv
  <2>5. Alt!TakeTurns' BY <2>1 DEF Alt!TakeTurns, TurnsInv
  <2> QED BY <2>1, <2>3, <2>4, <2>5 DEF TurnsInv
<1>2. CASE Alt!Wait(id)
  <2>1. pc[id] = "lock" /\ UNCHANGED <<current, out>> /\ cv' = cv \cup {id} /\ pc' = [pc EXCEPT ![id] = "wait"]
    BY <1>2 DEF Alt!Wait
  <2>2. Inside' = Inside BY <2>1 DEF Inside, TurnsInv
  <2>5. Alt!TakeTurns' BY <2>1 DEF Alt!TakeTurns, TurnsInv
  <2> QED BY <2>1, <2>2, <2>5 DEF TurnsInv
<1>3. CASE Alt!PrintTurn(id)
  <2>1. /\ pc[id] = "lock" /\ current % max_p = id /\ out' = Append(out, <<id, current>>)
        /\ current' = current + 1 /\ cv' = {}
        /\ pc' = [i \in Alt!Ids |-> IF i = id THEN "while" ELSE IF i \in cv THEN "lock" ELSE pc[i]]
    BY <1>3 DEF Alt!PrintTurn
  <2>2. Inside' = Inside \ {id} /\ id \in Inside BY <2>1 DEF Inside, TurnsInv
  <2>3. Cardinality(Inside \ {id}) = Cardinality(Inside) - 1 BY <2>2, InsideFinite, FS_RemoveElement
  <2>4. Cardinality(Inside)' = Cardinality(Inside) - 1 BY <2>2, <2>3
  <2>5. current' > Limit => current' + Cardinality(Inside)' <= Limit + max_p
    BY <1>a, <2>1, <2>4, InsideFinite DEF TurnsInv
  <2>6. /\ out' \in Seq(Nat \X Nat) /\ Len(out') = Len(out) + 1
        /\ \A k \in 1 .. Len(out) : out'[k] = out[k]
        /\ out'[Len(out) + 1] = <<id, current>>
    <3>1. out \in Seq(Nat \X Nat) /\ <<id, current>> \in Nat \X Nat BY <1>a DEF TurnsInv
    <3> QED BY <2>1, <3>1
  <2>7. Alt!TakeTurns'
    <3> SUFFICES ASSUME NEW k \in 1 .. Len(out') PROVE out'[k] = <<(k - 1) % max_p, k - 1>>
      BY DEF Alt!TakeTurns
    <3>1. CASE k \in 1 .. Len(out) BY <2>6, <3>1, Zenon DEF Alt!TakeTurns, TurnsInv
    <3>2. CASE k = Len(out) + 1
      <4>1. k - 1 = current BY <3>2 DEF TurnsInv
      <4> QED BY <2>1, <2>6, <3>2, <4>1
    <3>3. Len(out) \in Nat BY DEF TurnsInv
    <3> QED BY <2>6, <3>1, <3>2, <3>3
  <2>8. pc' \in [Alt!Ids -> {"while", "lock", "wait", "done"}] BY <2>1 DEF TurnsInv
  <2> QED BY <2>1, <2>5, <2>6, <2>7, <2>8 DEF TurnsInv
<1>4. CASE Alt!SpuriousWakeup(id)
  <2>1. id \in cv /\ UNCHANGED <<current, out>> /\ cv' = cv \ {id} /\ pc' = [pc EXCEPT ![id] = "lock"]
    BY <1>4 DEF Alt!SpuriousWakeup
  <2>2. Inside' = Inside BY <2>1 DEF Inside, TurnsInv
  <2>5. Alt!TakeTurns' BY <2>1 DEF Alt!TakeTurns, TurnsInv
  <2> QED BY <2>1, <2>2, <2>5 DEF TurnsInv
<1> QED BY <1>0, <1>1, <1>2, <1>3, <1>4 DEF Alt!ThreadStep

\* Of the program that runs, its invariant.
CounterInv == IF program = "order_print" THEN FizzInv ELSE TurnsInv

\* It holds at the start,
LEMMA CounterStarts == PrintersInit => CounterInv
<1> SUFFICES ASSUME PrintersInit PROVE CounterInv OBVIOUS
<1>0. PrintersInit => \/ program = "order_print" /\ Init
                      \/ program # "order_print" /\ Alt!Init /\ n = Limit
  BY DEF PrintersInit, Samples
<1>1. CASE program = "order_print" /\ Init
  <2>1. Gone = {} BY <1>1 DEF Gone, Init
  <2>2. n \in Nat /\ 1 <= n BY <1>1, MaxNAssumption DEF Init
  <2>3. Cardinality(Gone) = 0 BY <2>1, FS_EmptySet
  <2> QED BY <1>1, <2>2, <2>3 DEF CounterInv, FizzInv, Init
<1>2. CASE program # "order_print" /\ Alt!Init /\ n = Limit
  <2>1. Limit \in Nat BY PrintersAssumption
  <2> QED BY <1>2, <2>1 DEF CounterInv, TurnsInv, Alt!Init, Alt!TakeTurns
<1> QED BY <1>0, <1>1, <1>2

\* and every step keeps it.
LEMMA CounterKeeps == CounterInv /\ [PrintersNext]_all => CounterInv'
<1> SUFFICES ASSUME CounterInv, [PrintersNext]_all PROVE CounterInv' OBVIOUS
<1>1. CASE program = "order_print" /\ Next BY <1>1, ProgramFixed, FizzKeeps DEF CounterInv
<1>2. CASE program = "alternate_print_nt" /\ Alt!Next /\ UNCHANGED n
  BY <1>2, ProgramFixed, TurnsKeeps DEF CounterInv
<1>3. CASE UNCHANGED vars
  <2>1. UNCHANGED <<program, n, current, cv, pc, out>> BY <1>3, ProgramFixed DEF vars
  <2>2. Gone' = Gone /\ Inside' = Inside BY <2>1 DEF Gone, Inside
  <2>3. FizzInv => FizzInv' BY <2>1, <2>2 DEF FizzInv
  <2>4. TurnsInv => TurnsInv' BY <2>1, <2>2 DEF TurnsInv, Alt!TakeTurns
  <2> QED BY <2>1, <2>3, <2>4 DEF CounterInv
<1> QED BY <1>1, <1>2, <1>3, CountersOnly

\* The counters pass their limits by one line per thread at most, however the
\* threads are scheduled (PastTheLimit of FizzBuzz and AlternatePrint).
THEOREM LimitNearlyKept == Spec => []PastTheLimit
<1>1. CounterInv => PastTheLimit
  <2> SUFFICES ASSUME CounterInv PROVE PastTheLimit OBVIOUS
  <2>1. CASE program = "order_print"
    <3>1. FizzInv BY <2>1 DEF CounterInv
    <3>2. current <= n + Cardinality(Threads) BY <3>1, GoneFinite, FourThreads DEF FizzInv
    <3> QED BY <2>1, <3>2 DEF PastTheLimit, OvershootBounded
  <2>2. CASE program # "order_print"
    <3>1. TurnsInv BY <2>2 DEF CounterInv
    <3>2. current <= Limit + max_p
      <4>1. Limit \in Nat /\ max_p \in Nat BY PrintersAssumption
      <4>2. current \in Nat /\ (current > Limit => current + Cardinality(Inside) <= Limit + max_p)
        BY <3>1 DEF TurnsInv
      <4>3. Cardinality(Inside) \in Nat BY InsideFinite
      <4> QED BY <4>1, <4>2, <4>3
    <3> QED BY <2>2, <3>2 DEF PastTheLimit, Alt!OvershootBounded
  <2> QED BY <2>1, <2>2
<1> QED BY <1>1, CounterStarts, CounterKeeps, PTL DEF Spec

\* Fifteen is three times five.
LEMMA Fifteen == \A x \in Nat : x % 15 = 0 <=> x % 3 = 0 /\ x % 5 = 0
  OBVIOUS

\* The predicates of the four waits share out the numbers.
LEMMA OwnWord ==
    ASSUME FizzInv, Next
    PROVE  out' = Append(out, Word(Len(out) + 1)) \/ out' = out
<1>0. current = Len(out) + 1 /\ current \in Nat BY DEF FizzInv
<1>1. CASE fizz
  <2>1. out' = out \/ (current % 3 = 0 /\ current % 15 # 0 /\ out' = Append(out, "Fizz"))
    BY <1>1 DEF fizz, Turn, Block, PrintOwn, is_15x, is_3x
  <2> QED BY <1>0, <2>1, Fifteen DEF Word
<1>2. CASE buzz
  <2>1. out' = out \/ (current % 5 = 0 /\ current % 15 # 0 /\ out' = Append(out, "Buzz"))
    BY <1>2 DEF buzz, Turn, Block, PrintOwn, is_15x, is_5x
  <2> QED BY <1>0, <2>1, Fifteen DEF Word
<1>3. CASE fizzbuzz
  <2>1. out' = out \/ (current % 15 = 0 /\ out' = Append(out, "FizzBuzz"))
    BY <1>3 DEF fizzbuzz, Turn, Block, PrintOwn, is_15x
  <2> QED BY <1>0, <2>1, Fifteen DEF Word
<1>4. CASE number
  <2>1. out' = out \/ (current % 3 # 0 /\ current % 5 # 0 /\ out' = Append(out, current))
    BY <1>4 DEF number, Turn, Block, PrintOwn, is_simple, is_3x, is_5x
  <2> QED BY <1>0, <2>1 DEF Word
<1>5. CASE \E p \in Threads : SpuriousWakeup(p) BY <1>5 DEF SpuriousWakeup
<1> QED BY <1>1, <1>2, <1>3, <1>4, <1>5 DEF Next

\* Whatever thread the scheduler picks, the next line is the next word of FizzBuzz,
\* or comes from the thread whose turn it is.
THEOREM LinesInOrder == Spec => InOrder
<1>1. CounterInv /\ [PrintersNext]_all => [program = "order_print" => out' = Append(out, Word(Len(out) + 1))]_out
  <2> SUFFICES ASSUME CounterInv, [PrintersNext]_all, program = "order_print", out' # out
               PROVE  out' = Append(out, Word(Len(out) + 1))
    OBVIOUS
  <2>1. FizzInv /\ Next BY CountersOnly DEF CounterInv, vars
  <2> QED BY <2>1, OwnWord
<1>2. CounterInv => (program = "alternate_print_nt" => Alt!TakeTurns) BY DEF CounterInv, TurnsInv
<1> QED BY <1>1, <1>2, CounterStarts, CounterKeeps, PTL DEF Spec, InOrder

-----------------------------------------------------------------------------
(* print and order_process: mutexes unlocked by others *)

\* What a step of PrintersNext is to print.
LEMMA PairOnly == [PrintersNext]_all => [Pair!Next]_pairVars
  BY DEF PrintersNext, all, Own, Turns, Signals, Sampled, pairVars

\* What it is to order_process.
LEMMA OrderOnly == [PrintersNext]_all => [Order!Next]_orderVars
  BY DEF PrintersNext, all, Own, Turns, Signals, Sampled, orderVars

\* How far the odd numbers are ahead.
Ahead == odds - 2 * evens

\* Before its last number print_even is here.
EvenLoop == {"test", "block", "wait", "relock", "print"}

PairTypes == odds \in Nat /\ evens \in Nat /\ odd \in BOOLEAN /\ odd_end \in BOOLEAN

\* A thread prints, and gives its turn away, only when the flag says so.
FlagTurns ==
    /\ even_pc \in {"print", "store"} => odd
    /\ odd_pc \in {"print", "load", "store"} => ~odd \/ odd_end
    /\ even_pc \in {"notify_all", "done"} <=> odd_end

\* The flag and whether its owner has printed tell how many numbers there are; a
\* round of print_even with one number is its last.
AheadBy ==
    ~odd_end =>
        /\ Ahead \in IF even_pc = "store" \/ (~odd /\ odd_pc \notin {"load", "store"}) THEN {1, 2} ELSE {-1, 0}
        /\ Ahead \in {-1, 1} => ~(2 * odds + 1 < MAX)
        /\ even_pc \in EvenLoop => Ahead \in {0, 2}

PairInv == PairTypes /\ FlagTurns /\ AheadBy

\* A step that neither prints nor changes the flags, and moves no thread between the
\* places the invariant tells apart, keeps it.
LEMMA PairMoves ==
    ASSUME PairInv, UNCHANGED <<odds, evens, odd, odd_end>>,
           even_pc' \in {"print", "store"} => odd,
           odd_pc' \in {"print", "load", "store"} => ~odd \/ odd_end,
           even_pc' \in {"notify_all", "done"} <=> even_pc \in {"notify_all", "done"},
           even_pc' = "store" <=> even_pc = "store",
           odd_end \/ (odd_pc' \in {"load", "store"} <=> odd_pc \in {"load", "store"}),
           even_pc' \in EvenLoop => even_pc \in EvenLoop \/ 2 * odds + 1 < MAX
    PROVE  PairInv'
<1>1. PairTypes' /\ FlagTurns' BY Zenon DEF PairInv, PairTypes, FlagTurns
<1>2. Ahead' = Ahead BY DEF Ahead
<1>3. ASSUME ~odd_end PROVE Ahead \in {-1, 0, 1, 2} BY <1>3, Zenon DEF PairInv, AheadBy
<1>4. AheadBy'
  <2> SUFFICES ASSUME ~odd_end PROVE AheadBy' BY Zenon DEF AheadBy
  <2>1. Ahead \in IF even_pc' = "store" \/ (~odd' /\ odd_pc' \notin {"load", "store"}) THEN {1, 2} ELSE {-1, 0}
    BY Zenon DEF PairInv, AheadBy
  <2>2. Ahead \in {-1, 1} => ~(2 * odds' + 1 < MAX) BY Zenon DEF PairInv, AheadBy
  <2>3. even_pc' \in EvenLoop => Ahead \in {0, 2} BY <1>3 DEF PairInv, AheadBy
  <2> QED BY <1>2, <2>1, <2>2, <2>3, Zenon DEF AheadBy
<1> QED BY <1>1, <1>4 DEF PairInv

\* Every step of the two threads keeps it, whoever holds the mutex.
LEMMA PairKeeps == PairInv /\ [PrintersNext]_all => PairInv'
<1> SUFFICES ASSUME PairInv, [Pair!Next]_pairVars PROVE PairInv' BY PairOnly
<1>0. MAX \in Nat BY PrintersAssumption
<1>1. CASE UNCHANGED pairVars BY <1>1, PairMoves DEF pairVars, PairInv, FlagTurns
<1>2. CASE Pair!EvenTest BY <1>2, PairMoves DEF Pair!EvenTest, PairInv, FlagTurns, EvenLoop
<1>3. CASE Pair!EvenBlock BY <1>3, PairMoves DEF Pair!EvenBlock, PairInv, FlagTurns, EvenLoop
<1>4. CASE Pair!EvenRelock BY <1>4, PairMoves DEF Pair!EvenRelock, PairInv, FlagTurns, EvenLoop
<1>5. CASE Pair!EvenPrint
  <2>1. /\ even_pc = "print" /\ even_pc' = "store" /\ UNCHANGED <<odd, odd_end, evens, odd_pc>>
        /\ odds' = odds + (IF 2 * odds + 3 < MAX THEN 2 ELSE 1)
    BY <1>5 DEF Pair!EvenPrint
  <2>2. ~odd_end /\ odd BY <2>1 DEF PairInv, FlagTurns
  <2>3. Ahead = 0
    <3>1. Ahead \in {-1, 0} /\ Ahead \in {0, 2} BY <2>1, <2>2 DEF PairInv, AheadBy, EvenLoop, FlagTurns
    <3> QED BY <3>1
  <2>4. PairTypes' BY <2>1 DEF PairInv, PairTypes
  <2>5. FlagTurns' BY <2>1, <2>2 DEF PairInv, FlagTurns
  <2>6. Ahead' \in {1, 2} /\ (Ahead' \in {-1, 1} => ~(2 * odds' + 1 < MAX))
    BY <1>0, <2>1, <2>3 DEF PairInv, PairTypes, Ahead
  <2>7. AheadBy' BY <2>1, <2>6 DEF AheadBy, EvenLoop
  <2> QED BY <2>4, <2>5, <2>7 DEF PairInv
<1>6. CASE Pair!EvenStore
  <2>1. /\ even_pc = "store" /\ even_pc' = "notify" /\ odd' = FALSE
        /\ UNCHANGED <<odd_end, odd_pc, evens, odds>>
    BY <1>6 DEF Pair!EvenStore
  <2>2. ~odd_end /\ odd_pc \notin {"print", "load", "store"} BY <2>1 DEF PairInv, FlagTurns
  <2>3. PairTypes' BY <2>1, Zenon DEF PairInv, PairTypes
  <2>4. FlagTurns' BY <2>1, <2>2 DEF FlagTurns
  <2>5. Ahead' = Ahead BY <2>1 DEF Ahead
  <2>6. AheadBy' BY <2>1, <2>2, <2>5 DEF PairInv, AheadBy, EvenLoop
  <2> QED BY <2>3, <2>4, <2>6 DEF PairInv
<1>7. CASE Pair!EvenNotify BY <1>7, PairMoves DEF Pair!EvenNotify, Pair!WakeOdd, PairInv, FlagTurns, EvenLoop
<1>8. CASE Pair!EvenUnlock BY <1>8, PairMoves DEF Pair!EvenUnlock, PairInv, FlagTurns, EvenLoop
<1>9. CASE Pair!EvenEnd
  <2>1. /\ even_pc' = "notify_all" /\ odd_end' = TRUE /\ UNCHANGED <<odd, odd_pc, evens, odds>>
    BY <1>9 DEF Pair!EvenEnd
  <2>2. PairTypes' BY <2>1, Zenon DEF PairInv, PairTypes
  <2>3. FlagTurns' BY <2>1 DEF FlagTurns
  <2>4. AheadBy' BY <2>1 DEF AheadBy
  <2> QED BY <2>2, <2>3, <2>4 DEF PairInv
<1>10. CASE Pair!EvenNotifyAll BY <1>10, PairMoves DEF Pair!EvenNotifyAll, Pair!WakeOdd, PairInv, FlagTurns, EvenLoop
<1>11. CASE Pair!OddLock BY <1>11, PairMoves DEF Pair!OddLock, PairInv, FlagTurns
<1>12. CASE Pair!OddTest BY <1>12, PairMoves DEF Pair!OddTest, PairInv, FlagTurns
<1>13. CASE Pair!OddBlock BY <1>13, PairMoves DEF Pair!OddBlock, PairInv, FlagTurns
<1>14. CASE Pair!OddPrint
  <2>1. /\ odd_pc = "print" /\ odd_pc' = "load" /\ evens' = evens + 1
        /\ UNCHANGED <<odd, odd_end, even_pc, odds>>
    BY <1>14 DEF Pair!OddPrint
  <2>2. PairTypes' BY <2>1 DEF PairInv, PairTypes
  <2>3. FlagTurns' BY <2>1 DEF PairInv, FlagTurns
  <2>4. AheadBy'
    <3> SUFFICES ASSUME ~odd_end PROVE AheadBy' BY <2>1 DEF AheadBy
    <3>1. ~odd /\ even_pc # "store" BY <2>1 DEF PairInv, FlagTurns
    <3>2. Ahead \in {1, 2} BY <2>1, <3>1 DEF PairInv, AheadBy
    <3>3. Ahead' = Ahead - 2 BY <2>1 DEF PairInv, PairTypes, Ahead
    <3>4. Ahead' \in {-1, 0} /\ (Ahead' = -1 => Ahead = 1) BY <3>2, <3>3
    <3>5. even_pc \in EvenLoop => Ahead = 2 BY <3>2 DEF PairInv, AheadBy
    <3>6. even_pc \in EvenLoop => Ahead' = 0 BY <3>3, <3>5
    <3>7. Ahead = 1 => ~(2 * odds + 1 < MAX) BY DEF PairInv, AheadBy
    <3> QED BY <2>1, <3>1, <3>4, <3>6, <3>7 DEF AheadBy
  <2> QED BY <2>2, <2>3, <2>4 DEF PairInv
<1>15. CASE Pair!OddLoad BY <1>15, PairMoves DEF Pair!OddLoad, PairInv, FlagTurns
<1>16. CASE Pair!OddStore
  <2>1. /\ odd_pc = "store" /\ odd_pc' = "notify" /\ odd' = TRUE
        /\ UNCHANGED <<odd_end, even_pc, evens, odds>>
    BY <1>16 DEF Pair!OddStore
  <2>2. PairTypes' BY <2>1, Zenon DEF PairInv, PairTypes
  <2>3. FlagTurns' BY <2>1 DEF PairInv, FlagTurns
  <2>4. ~odd_end => even_pc # "store" BY <2>1 DEF PairInv, FlagTurns
  <2>5. Ahead' = Ahead BY <2>1 DEF Ahead
  <2>6. AheadBy' BY <2>1, <2>4, <2>5 DEF PairInv, AheadBy
  <2> QED BY <2>2, <2>3, <2>6 DEF PairInv
<1>17. CASE Pair!OddNotify BY <1>17, PairMoves DEF Pair!OddNotify, Pair!WakeEven, PairInv, FlagTurns, EvenLoop
<1>18. CASE Pair!OddUnlock BY <1>18, PairMoves DEF Pair!OddUnlock, PairInv, FlagTurns
<1>19. CASE Pair!SpuriousWakeup
  BY <1>19, PairMoves DEF Pair!SpuriousWakeup, Pair!WakeEven, Pair!WakeOdd, PairInv, FlagTurns, EvenLoop
<1> QED BY <1>1, <1>2, <1>3, <1>4, <1>5, <1>6, <1>7, <1>8, <1>9, <1>10, <1>11, <1>12, <1>13, <1>14, <1>15, <1>16,
           <1>17, <1>18, <1>19 DEF Pair!Next

One(b) == IF b THEN 1 ELSE 0

\* A thread locks once for every signal it gets, and once more.
OrderInv ==
    /\ from \in BOOLEAN /\ to \in BOOLEAN /\ lead \in Int
    /\ do_from \in {"print", "unlock", "lock"} /\ do_to \in {"print", "unlock", "lock"}
    /\ lead <= One(do_from # "print") - One(do_to = "unlock") + One(to = TRUE)
    /\ -lead <= One(do_to # "print") - One(do_from = "unlock") + One(from = TRUE)

\* Every step of the two threads keeps it, also where a signal is lost.
LEMMA OrderKeeps == OrderInv /\ [PrintersNext]_all => OrderInv'
<1> SUFFICES ASSUME OrderInv, [Order!Next]_orderVars PROVE OrderInv' BY OrderOnly
<1> USE DEF OrderInv, One
<1>1. CASE UNCHANGED orderVars BY <1>1 DEF orderVars
<1>2. CASE Order!FromPrint BY <1>2 DEF Order!FromPrint
<1>3. CASE Order!FromUnlock
  <2>1. /\ lead' = lead /\ do_from = "unlock" /\ do_from' = "lock" /\ do_to' = do_to
        /\ to' = to /\ from' = FALSE
    BY <1>3 DEF Order!FromUnlock
  <2>2. ~(from' = TRUE) BY <2>1
  <2>3. from' \in BOOLEAN /\ to' \in BOOLEAN BY <2>1, Zenon
  <2> QED BY <2>1, <2>2, <2>3
<1>4. CASE Order!FromLock BY <1>4 DEF Order!FromLock
<1>5. CASE Order!ToPrint BY <1>5 DEF Order!ToPrint
<1>6. CASE Order!ToUnlock
  <2>1. /\ lead' = lead /\ do_to = "unlock" /\ do_to' = "lock" /\ do_from' = do_from
        /\ from' = from /\ to' = FALSE
    BY <1>6 DEF Order!ToUnlock
  <2>2. ~(to' = TRUE) BY <2>1
  <2>3. to' \in BOOLEAN /\ from' \in BOOLEAN BY <2>1, Zenon
  <2> QED BY <2>1, <2>2, <2>3
<1>7. CASE Order!ToLock BY <1>7 DEF Order!ToLock
<1> QED BY <1>1, <1>2, <1>3, <1>4, <1>5, <1>6, <1>7, Zenon DEF Order!Next, Order!FromStep, Order!ToStep

\* Unlocking a mutex held by somebody else does not let the threads drift apart: two
\* odd numbers go with each even one in print, and in order_process no thread is more
\* than two lines ahead, although a signal given twice counts once.
THEOREM ThreadsKeepStep == Spec => []InStep
<1>1. PrintersInit => PairInv /\ OrderInv
  <2> SUFFICES ASSUME PrintersInit PROVE PairInv /\ OrderInv OBVIOUS
  <2>0. /\ odd = TRUE /\ odd_end = FALSE /\ even_pc = "test" /\ odd_pc = "lock" /\ evens = 0 /\ odds = 0
    BY DEF PrintersInit, Pair!Init
  <2>a. odd \in BOOLEAN /\ odd_end \in BOOLEAN /\ odd /\ ~odd_end BY <2>0, Zenon
  <2>b. Ahead = 0 BY <2>0 DEF Ahead
  <2>1. PairInv BY <2>0, <2>a, <2>b DEF PairInv, PairTypes, FlagTurns, AheadBy
  <2>2. from = FALSE /\ to = FALSE /\ do_from = "print" /\ do_to = "print" /\ lead = 0
    BY DEF PrintersInit, Order!Init
  <2>3. ~(from = TRUE) /\ ~(to = TRUE) /\ from \in BOOLEAN /\ to \in BOOLEAN BY <2>2, Zenon
  <2>4. OrderInv BY <2>2, <2>3 DEF OrderInv, One
  <2> QED BY <2>1, <2>4
<1>2. PairInv => Pair!PairsAlternate
  <2> SUFFICES ASSUME PairInv, ~odd_end PROVE odds - 2 * evens \in -1 .. 2 BY DEF Pair!PairsAlternate
  <2>1. odds - 2 * evens \in {-1, 0, 1, 2} BY DEF PairInv, AheadBy, Ahead
  <2> QED BY <2>1
<1>3. OrderInv => Order!WithinTwo
  <2> SUFFICES ASSUME OrderInv PROVE lead \in -2 .. 2 BY DEF Order!WithinTwo
  <2>1. lead \in Int /\ lead <= 2 BY DEF OrderInv, One
  <2>2. -lead <= 2 BY DEF OrderInv, One
  <2> QED BY <2>1, <2>2
<1>4. PairInv /\ OrderInv => InStep BY <1>2, <1>3 DEF InStep
<1> QED BY <1>1, <1>4, PairKeeps, OrderKeeps, PTL DEF Spec

-----------------------------------------------------------------------------
(* the samples *)

\* What a step of PrintersNext is to them.
LEMMA SamplesOnly == [PrintersNext]_all => Sample!Next \/ UNCHANGED <<program, sampleVars>>
  BY Zenon DEF PrintersNext, all, Own, Turns, Signals, Sampled

\* Which thread a ready future speaks for, and how far main can be.
SampleTypes ==
    /\ thread \in [1 .. 3 -> {"none", "start", "loop", "wait", "done"}]
    /\ future \in [1 .. 2 -> {"unset", "late", "ready"}]

JoinInv ==
    /\ main = "join" => program \in {"notify", "consume"}
    /\ program \in {"notify", "consume"} => main \in {"first", "notify", "join", "end"}
    /\ program \in {"notify", "consume"} /\ main = "end" => \A t \in 1 .. 3 : thread[t] \in {"none", "done"}

PromiseInv == program = "promise" =>
    /\ main \in {"first", "get", "tmp", "end"}
    /\ \A t \in 1 .. 3 : thread[t] # "wait" /\ (t = 3 \/ main = "first" => thread[t] = "none")
    /\ future[1] = "ready" => thread[1] \in {"loop", "done"}
    /\ future[2] = "ready" => thread[2] = "done"
    /\ main \in {"tmp", "end"} => future[1] = "ready"
    /\ main = "end" => future[2] = "ready"

ToldInv ==
    /\ 2 \notin told
    /\ program = "atomic_bool" =>
         /\ main \in {"first", "store", "get", "last", "end"}
         /\ \A t \in 1 .. 3 : thread[t] # "wait" /\ (t = 3 \/ main = "first" => thread[t] = "none")
         /\ \A t \in 1 .. 2 : future[t] = "ready" => thread[t] = "done"
         /\ thread[2] # "none" => main \in {"last", "end"} /\ flag = FALSE
         /\ main \in {"last", "end"} => future[1] = "ready" /\ flag = FALSE
         /\ main = "end" => future[2] = "ready"

LateInv == program \in {"set_value", "wait_fororuntil"} =>
    /\ main \in {"first", "func", "sh_fu", "wait_until", "wait_for", "task"}
    /\ future[2] # "ready"

SampleInv == SampleTypes /\ JoinInv /\ PromiseInv /\ ToldInv /\ LateInv

\* A step of main keeps it,
LEMMA MainKeeps == SampleInv /\ Sample!MainStep => SampleInv'
<1> SUFFICES ASSUME SampleInv, Sample!MainStep PROVE SampleInv' OBVIOUS
<1> USE DEF SampleInv, SampleTypes, JoinInv, PromiseInv, ToldInv, LateInv, Sample!At, Sample!Goes, Sample!Moves,
            Sample!Threads
<1>1. CASE Sample!go BY <1>1 DEF Sample!go, Sample!notify_one
<1>2. CASE Sample!Push BY <1>2 DEF Sample!Push
<1>3. CASE Sample!Notify BY <1>3 DEF Sample!Notify, Sample!notify_one
<1>4. CASE Sample!join BY <1>4 DEF Sample!join
<1>5. CASE Sample!Spawn BY <1>5 DEF Sample!Spawn
<1>6. CASE Sample!GetFirst BY <1>6 DEF Sample!GetFirst
<1>7. CASE Sample!Get
  <2>1. PICK g \in Sample!Gets : /\ program = g[1] /\ main = g[2] /\ future[g[3]] = "ready" /\ main' = g[4]
                                 /\ UNCHANGED <<program, thread, flag, future, told>>
    BY <1>7 DEF Sample!Get
  <2>2. CASE g = <<"promise", "tmp", 2, "end">> BY <2>1, <2>2
  <2>3. CASE g = <<"atomic_bool", "last", 2, "end">> BY <2>1, <2>3
  <2>4. CASE g = <<"set_value", "sh_fu", 2, "f">> BY <2>1, <2>4
  <2>5. CASE g = <<"set_value", "f", 1, "end">> BY <2>1, <2>5
  <2>6. CASE g = <<"wait_fororuntil", "sh_fu", 2, "end">> BY <2>1, <2>6
  <2> QED BY <2>2, <2>3, <2>4, <2>5, <2>6, Zenon DEF Sample!Gets
<1>8. CASE Sample!Begin BY <1>8 DEF Sample!Begin
<1>9. CASE Sample!StoreTrue BY <1>9 DEF Sample!StoreTrue
<1>10. CASE Sample!Again BY <1>10 DEF Sample!Again
<1>11. CASE Sample!Start("set_value", "func") BY <1>11 DEF Sample!Start
<1>12. CASE Sample!SetAtExit("set_value", "func") BY <1>12 DEF Sample!SetAtExit
<1>13. CASE Sample!Start("wait_fororuntil", "wait_until") BY <1>13 DEF Sample!Start
<1>14. CASE Sample!WaitUntil BY <1>14 DEF Sample!WaitUntil
<1>15. CASE Sample!WaitFor BY <1>15 DEF Sample!WaitFor
<1>16. CASE Sample!SetAtExit("wait_fororuntil", "task") BY <1>16 DEF Sample!SetAtExit
<1> QED BY <1>1, <1>2, <1>3, <1>4, <1>5, <1>6, <1>7, <1>8, <1>9, <1>10, <1>11, <1>12, <1>13, <1>14, <1>15, <1>16, Zenon
        DEF Sample!MainStep

\* and so does a step of a thread.
LEMMA ThreadKeeps ==
    ASSUME SampleInv, NEW t \in 1 .. 3, Sample!ThreadStep(t) \/ Sample!SpuriousWakeup(t)
    PROVE  SampleInv'
<1> USE DEF SampleInv, SampleTypes, JoinInv, PromiseInv, ToldInv, LateInv, Sample!Moves, Sample!Exits
<1>1. CASE Sample!Wait(t) BY <1>1 DEF Sample!Wait
<1>2. CASE Sample!print_id(t) BY <1>2 DEF Sample!print_id
<1>3. CASE Sample!func(t) BY <1>3 DEF Sample!func
<1>4. CASE t = 1 /\ Sample!thread_1 BY <1>4 DEF Sample!thread_1
<1>5. CASE t = 1 /\ Sample!Myfunction BY <1>5 DEF Sample!Myfunction
<1>6. CASE t = 1 /\ Sample!Detached BY <1>6 DEF Sample!Detached
<1>7. CASE t = 2 /\ Sample!print_process BY <1>7 DEF Sample!print_process
<1>8. CASE Sample!SpuriousWakeup(t) BY <1>8 DEF Sample!SpuriousWakeup
<1> QED BY <1>1, <1>2, <1>3, <1>4, <1>5, <1>6, <1>7, <1>8, Zenon DEF Sample!ThreadStep

\* main of the samples returns only after the threads that use its frame are through,
\* the flag of atomic_bool ends the first thread only, and a value that main sets for
\* its own exit is never there while main waits for it.
THEOREM MainWaitsLongEnough == Spec => []MainHeldBack
<1>1. PrintersInit => SampleInv
  <2> SUFFICES ASSUME PrintersInit PROVE SampleInv OBVIOUS
  <2>1. /\ main = "first" /\ flag = FALSE /\ future = [i \in 1 .. 2 |-> "unset"] /\ told = {}
        /\ thread = [t \in 1 .. 3 |-> IF program = "notify" \/ (program = "consume" /\ t = 1)
                                      THEN "start" ELSE "none"]
    BY DEF PrintersInit, Sample!Init, Sample!Threads
  <2> QED BY <2>1 DEF SampleInv, SampleTypes, JoinInv, PromiseInv, ToldInv, LateInv
<1>2. SampleInv /\ [PrintersNext]_all => SampleInv'
  <2> SUFFICES ASSUME SampleInv, [PrintersNext]_all PROVE SampleInv' OBVIOUS
  <2>1. CASE UNCHANGED <<program, sampleVars>>
    BY <2>1 DEF sampleVars, SampleInv, SampleTypes, JoinInv, PromiseInv, ToldInv, LateInv
  <2>2. CASE Sample!Next BY <2>2, MainKeeps, ThreadKeeps DEF Sample!Next, Sample!Threads
  <2> QED BY <2>1, <2>2, SamplesOnly
<1>3. SampleInv => MainHeldBack
  <2> SUFFICES ASSUME SampleInv, program \in Samples PROVE Sample!NoThreadLeft /\ Sample!OnlyInAThread
    BY DEF MainHeldBack
  <2>1. ASSUME main = "end", NEW t \in 1 .. 3
        PROVE  thread[t] \in {"none", "done"} \/ (program = "promise" /\ t = 1 /\ thread[t] = "loop")
    <3>1. t = 1 \/ t = 2 \/ t = 3 OBVIOUS
    <3>2. CASE program \in {"notify", "consume"} BY <2>1, <3>2 DEF SampleInv, JoinInv
    <3>3. CASE program = "promise" BY <2>1, <3>1, <3>3 DEF SampleInv, PromiseInv
    <3>4. CASE program = "atomic_bool" BY <2>1, <3>1, <3>4 DEF SampleInv, ToldInv
    <3>5. CASE program \in {"set_value", "wait_fororuntil"} BY <2>1, <3>5 DEF SampleInv, LateInv
    <3> QED BY <3>2, <3>3, <3>4, <3>5 DEF Samples
  <2>2. Sample!NoThreadLeft BY <2>1 DEF Sample!NoThreadLeft, Sample!Threads, SampleInv, ToldInv
  <2>3. Sample!OnlyInAThread BY DEF Sample!OnlyInAThread, SampleInv, LateInv
  <2> QED BY <2>2, <2>3
<1> QED BY <1>1, <1>2, <1>3, PTL DEF Spec
=============================================================================
