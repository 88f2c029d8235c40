------------------------ MODULE PoolPrograms_proofs ------------------------
(***************************************************************************)
(* Proofs about the programs of PoolPrograms, for every value of the       *)
(* constants that BatchAssumption and PoolAssumption allow.  The three     *)
(* producer and consumer programs share their variables and an inductive   *)
(* invariant; each of the others has variables and an invariant of its     *)
(* own, which the steps of the other programs leave alone.                 *)
(***************************************************************************)
EXTENDS PoolPrograms, Sequences, TLAPS

\* The provers tried on a leaf, in turn, and the time each of them gets.
USE SMTT(30), ZenonT(20), SMTT(31)

-----------------------------------------------------------------------------
(* 1p1c, 1p1c_cv and 1p1c_mutex *)

\* What a step of Next is to the producer and consumer programs.
LEMMA BatchOnly ==
    ASSUME [Next]_all PROVE UNCHANGED program /\ (Consume \/ Wakeup \/ Supply \/ UNCHANGED vars)
  BY DEF Next, Batch, Summing, all, others

BatchTypes ==
    /\ data_pool \in Nat /\ rounds \in Nat /\ consumed \in Nat /\ end_flag \in BOOLEAN
    /\ producer \in {"loop", "notify", "done"}
    /\ consumer \in {"start", "lock", "block", "wait", "woken", "take", "drain", "done"}

\* The polling consumer takes CHUNK items at a time.
Polled == program = "1p1c_mutex" => \E k \in 0 .. rounds : consumed = CHUNK * k

\* end_flag goes up after the last push.
EndIsLast == end_flag => producer # "loop"

\* In 1p1c the drain comes after the end, and takes all there is.
Drained ==
    program = "1p1c" =>
        /\ consumer \in {"drain", "done"} => end_flag
        /\ consumer = "done" => data_pool = 0

\* In 1p1c_cv the consumer goes to sleep with the lock held since it looked.
Guards ==
    program = "1p1c_cv" =>
        /\ ~end_flag => consumed % BATCH = 0
        /\ consumer = "take" => data_pool >= BATCH \/ end_flag
        /\ consumer \in {"block", "wait"} => data_pool < BATCH

Conserved == consumed + data_pool = CHUNK * rounds

BatchInv == BatchTypes /\ Conserved /\ Polled /\ EndIsLast /\ Drained /\ Guards

\* The invariant holds at the start.
LEMMA BatchStarts == ASSUME Init PROVE BatchInv
<1> USE BatchAssumption
<1>0. CHUNK * 0 = 0 OBVIOUS
<1>1. BatchTypes BY Zenon DEF Init, BatchTypes
<1>5. Conserved
  <2>1. consumed = 0 /\ data_pool = 0 /\ rounds = 0 BY DEF Init
  <2> QED BY <1>0, <2>1 DEF Conserved
<1>2. Polled
  <2>1. 0 \in 0 .. rounds /\ consumed = CHUNK * 0 BY DEF Init
  <2> QED BY <2>1 DEF Polled
<1>3. 0 % BATCH = 0 OBVIOUS
<1>4. EndIsLast /\ Drained /\ Guards BY <1>3 DEF Init, EndIsLast, Drained, Guards
<1> QED BY <1>1, <1>2, <1>4, <1>5 DEF BatchInv

\* One batch more is still a whole number of batches.
LEMMA BatchMore == ASSUME NEW c \in Nat, NEW b \in Nat \ {0}, c % b = 0 PROVE (c + b) % b = 0
<1> DEFINE q == c \div b
<1> DEFINE p == (c + b) \div b
<1> DEFINE r == (c + b) % b
<1>1. q \in Int /\ c = b * q BY DEF q
<1>2. p \in Int /\ r \in 0 .. b - 1 /\ c + b = b * p + r OBVIOUS
<1> HIDE DEF p, q, r
<1>3. b * (q + 1) = b * p + r BY <1>1, <1>2
<1>4. CASE p <= q
  <2>1. b * p <= b * q BY <1>1, <1>2, <1>4
  <2> QED BY <1>1, <1>2, <1>3, <2>1
<1>5. CASE p >= q + 2
  <2>1. b * p >= b * (q + 2) BY <1>1, <1>2, <1>5
  <2> QED BY <1>1, <1>2, <1>3, <2>1
<1>6. CASE p = q + 1
  <2>1. r = 0 BY <1>1, <1>2, <1>3, <1>6
  <2> QED BY <2>1 DEF r
<1> QED BY <1>1, <1>2, <1>4, <1>5, <1>6

\* A round more adds CHUNK items.
LEMMA OneRoundMore ==
    ASSUME BatchInv, rounds' = rounds + 1, data_pool' = data_pool + CHUNK, consumed' = consumed
    PROVE  Conserved'
<1> USE BatchAssumption DEF BatchInv, BatchTypes, Conserved
<1>1. CHUNK * (rounds + 1) = CHUNK * rounds + CHUNK OBVIOUS
<1>2. CHUNK * rounds \in Nat OBVIOUS
<1> QED BY <1>1, <1>2

\* The producer of 1p1c and 1p1c_cv.
LEMMA ProducerKeeps ==
    ASSUME BatchInv, program \in {"1p1c", "1p1c_cv"}, ProducerStep, UNCHANGED program PROVE BatchInv'
<1> USE BatchAssumption DEF BatchInv, notify_one
<1>1. CASE Produce
  <2> USE DEF Produce
  <2>1. BatchTypes' BY <1>1 DEF BatchTypes
  <2>2. Conserved'
    <3> HIDE DEF BatchInv
    <3> QED BY <1>1, OneRoundMore
  <2>3. Polled' BY DEF Polled
  <2>4. EndIsLast' BY <1>1 DEF EndIsLast
  <2>5. Drained' BY <1>1 DEF Drained, EndIsLast
  <2>6. Guards' BY <1>1 DEF Guards, BatchTypes, Holding
  <2> QED BY <2>1, <2>2, <2>3, <2>4, <2>5, <2>6
<1>2. CASE End \/ EndNotify
  <2> USE DEF End, EndNotify
  <2>1. BatchTypes' BY <1>2, Zenon DEF BatchTypes
  <2>2. Conserved' BY <1>2 DEF Conserved
  <2>3. Polled' BY DEF Polled
  <2>4. EndIsLast' BY <1>2, Zenon DEF EndIsLast
  <2>5. Drained' BY <1>2 DEF Drained
  <2>6. Guards' BY <1>2 DEF Guards, BatchTypes
  <2> QED BY <2>1, <2>2, <2>3, <2>4, <2>5, <2>6
<1> QED BY <1>1, <1>2 DEF ProducerStep

\* The consumer of 1p1c, which may be woken by nobody.
LEMMA PlainKeeps ==
    ASSUME BatchInv, program = "1p1c", Plain!ConsumerStep \/ Plain!SpuriousWakeup, UNCHANGED program
    PROVE  BatchInv'
<1> USE BatchAssumption DEF BatchInv
<1>0. Polled' /\ Guards' BY DEF Polled, Guards
<1>1. CASE Plain!Wait \/ Plain!SpuriousWakeup \/ Plain!Quit
  BY <1>0, <1>1 DEF Plain!Wait, Plain!SpuriousWakeup, Plain!Quit, BatchTypes, Conserved, EndIsLast, Drained
<1>2. CASE Plain!Take
  <2>1. Plain!Erased \in 0 .. data_pool
    <3>1. CASE data_pool >= BATCH BY <3>1 DEF Plain!Erased, BatchTypes
    <3>2. CASE ~(data_pool >= BATCH)
      <4>1. data_pool + 1 \in Nat \ {0} BY DEF BatchTypes
      <4>2. BATCH % (data_pool + 1) \in 0 .. (data_pool + 1) - 1 BY <4>1
      <4>3. (data_pool + 1) - 1 = data_pool BY DEF BatchTypes
      <4> QED BY <3>2, <4>2, <4>3 DEF Plain!Erased
    <3> QED BY <3>1, <3>2
  <2>2. /\ data_pool' = data_pool - Plain!Erased /\ consumed' = consumed + Plain!Erased
        /\ consumer' = "start" /\ UNCHANGED <<end_flag, producer, rounds>>
    BY <1>2 DEF Plain!Take
  <2>3. BatchTypes' BY <2>1, <2>2 DEF BatchTypes
  <2>4. Conserved'
    <3>1. CHUNK * rounds \in Nat BY DEF BatchTypes
    <3> QED BY <2>1, <2>2, <3>1 DEF Conserved, BatchTypes
  <2>5. EndIsLast' /\ Drained' BY <2>2 DEF EndIsLast, Drained
  <2> QED BY <1>0, <2>3, <2>4, <2>5
<1>3. CASE Plain!Drain
  BY <1>0, <1>3 DEF Plain!Drain, BatchTypes, Conserved, EndIsLast, Drained
<1> QED BY <1>1, <1>2, <1>3 DEF Plain!ConsumerStep

\* The consumer of 1p1c_cv.
LEMMA GuardedKeeps ==
    ASSUME BatchInv, program = "1p1c_cv", Guarded!ConsumerStep \/ Guarded!SpuriousWakeup, UNCHANGED program
    PROVE  BatchInv'
<1> USE BatchAssumption DEF BatchInv
<1>0. Polled' /\ Drained' BY DEF Polled, Drained
<1>1. CASE Guarded!While \/ Guarded!SpuriousWakeup \/ Guarded!Block
  BY <1>0, <1>1 DEF Guarded!While, Guarded!SpuriousWakeup, Guarded!Block, BatchTypes, Conserved, EndIsLast, Guards
<1>2. CASE Guarded!Test BY <1>0, <1>2 DEF Guarded!Test, BatchTypes, Conserved, EndIsLast, Guards
<1>3. CASE Guarded!Take
  <2> DEFINE batch == IF end_flag THEN data_pool ELSE BATCH
  <2>1. /\ consumer = "take" /\ consumed' = consumed + batch /\ data_pool' = data_pool - batch
        /\ consumer' = "start" /\ UNCHANGED <<end_flag, producer, rounds>>
    BY <1>3 DEF Guarded!Take
  <2>2. batch \in 0 .. data_pool /\ (~end_flag => batch = BATCH) BY <2>1 DEF Guards, BatchTypes
  <2> HIDE DEF batch
  <2>3. BatchTypes' BY <2>1, <2>2 DEF BatchTypes
  <2>4. Conserved'
    <3>1. CHUNK * rounds \in Nat BY DEF BatchTypes
    <3> QED BY <2>1, <2>2, <3>1 DEF Conserved, BatchTypes
  <2>5. EndIsLast' BY <2>1 DEF EndIsLast
  <2>6. ~end_flag => consumed' % BATCH = 0
    <3>1. consumed \in Nat BY DEF BatchTypes
    <3> HIDE DEF BatchInv
    <3>2. ASSUME ~end_flag PROVE consumed % BATCH = 0 BY <3>2 DEF BatchInv, Guards
    <3> QED BY <2>1, <2>2, <3>1, <3>2, BatchMore, Zenon
  <2>7. Guards' BY <2>1, <2>6 DEF Guards
  <2> QED BY <1>0, <2>3, <2>4, <2>5, <2>7
<1> QED BY <1>1, <1>2, <1>3 DEF Guarded!ConsumerStep

\* 1p1c_mutex.
LEMMA PollingKeeps ==
    ASSUME BatchInv, program = "1p1c_mutex", UNCHANGED program,
           Polling!ConsumerStep \/ Polling!Push \/ Polling!Stop
    PROVE  BatchInv'
<1> USE BatchAssumption DEF BatchInv
<1>0. Drained' /\ Guards' BY DEF Drained, Guards
<1>1. CASE Polling!While \/ Polling!Stop
  <2> USE DEF Polling!While, Polling!Stop
  <2>0. end_flag' \in BOOLEAN BY <1>1, Zenon DEF BatchTypes
  <2>1. BatchTypes' BY <1>1, <2>0 DEF BatchTypes
  <2>4. EndIsLast' BY <1>1, Zenon DEF EndIsLast
  <2>2. UNCHANGED <<data_pool, rounds, consumed>> BY <1>1
  <2>3. Conserved' /\ Polled' BY <2>2 DEF Conserved, Polled
  <2> QED BY <1>0, <2>1, <2>3, <2>4
<1>2. CASE Polling!Push
  <2>1. BatchTypes' /\ EndIsLast' BY <1>2 DEF Polling!Push, BatchTypes, EndIsLast
  <2>2. Conserved'
    <3> HIDE DEF BatchInv
    <3> QED BY <1>2, OneRoundMore DEF Polling!Push
  <2>3. Polled' BY <1>2 DEF Polling!Push, Polled, BatchTypes
  <2> QED BY <1>0, <2>1, <2>2, <2>3
<1>3. CASE Polling!Pop
  <2>1. PICK k \in 0 .. rounds : consumed = CHUNK * k BY DEF Polled
  <2>2. CASE data_pool = 0
    BY <1>0, <1>3, <2>2 DEF Polling!Pop, BatchTypes, Conserved, EndIsLast, Polled
  <2>3. CASE data_pool # 0
    <3>1. /\ data_pool' = data_pool - CHUNK /\ consumed' = consumed + CHUNK
          /\ consumer' = "start" /\ UNCHANGED <<end_flag, producer, rounds>>
      BY <1>3, <2>3 DEF Polling!Pop
    <3>2. k # rounds BY <2>1, <2>3 DEF Conserved, BatchTypes
    <3>3. k + 1 \in 0 .. rounds BY <2>1, <3>2 DEF BatchTypes
    <3>4. CHUNK * k + CHUNK = CHUNK * (k + 1) /\ CHUNK * (k + 1) <= CHUNK * rounds
          /\ CHUNK * rounds \in Nat /\ CHUNK * k \in Nat
      BY <2>1, <3>3 DEF BatchTypes
    <3>5. data_pool >= CHUNK BY <2>1, <3>4 DEF Conserved, BatchTypes
    <3>6. BatchTypes' BY <3>1, <3>5 DEF BatchTypes
    <3>7. Conserved' BY <3>1, <3>4 DEF Conserved, BatchTypes
    <3>8. Polled' BY <2>1, <3>1, <3>3, <3>4 DEF Polled
    <3>9. EndIsLast' BY <3>1 DEF EndIsLast
    <3> QED BY <1>0, <3>6, <3>7, <3>8, <3>9
  <2> QED BY <2>2, <2>3
<1> QED BY <1>1, <1>2, <1>3 DEF Polling!ConsumerStep

\* Every step keeps it.
LEMMA BatchKeeps == BatchInv /\ [Next]_all => BatchInv'
<1> SUFFICES ASSUME BatchInv, [Next]_all PROVE BatchInv' OBVIOUS
<1>1. UNCHANGED program BY BatchOnly
<1>2. CASE UNCHANGED vars
  BY <1>1, <1>2 DEF vars, BatchInv, BatchTypes, Conserved, Polled, EndIsLast, Drained, Guards
<1>3. CASE Consume BY <1>1, <1>3, PlainKeeps, GuardedKeeps, PollingKeeps DEF Consume
<1>4. CASE Wakeup BY <1>1, <1>4, PlainKeeps, GuardedKeeps DEF Wakeup
<1>5. CASE Supply BY <1>1, <1>5, ProducerKeeps, PollingKeeps DEF Supply
<1> QED BY <1>2, <1>3, <1>4, <1>5, BatchOnly

\* For every chunk, batch and number of rounds, in whatever order producer and
\* consumer step and however often a wait ends by itself: no item of 1p1c, 1p1c_cv
\* and 1p1c_mutex is consumed twice or lost, 1p1c's unlocked drain leaves nothing,
\* and 1p1c_cv takes whole batches until the end.
THEOREM EveryItemCounted == Spec => []NothingVanishes
<1>1. PoolInit => BatchInv BY BatchStarts DEF PoolInit
<1>2. BatchInv => NothingVanishes
  <2> SUFFICES ASSUME BatchInv PROVE NothingVanishes OBVIOUS
  <2>1. data_pool >= 0 /\ consumed + data_pool = CHUNK * rounds BY DEF BatchInv, BatchTypes, Conserved
  <2>2. program = "1p1c" => Plain!DrainedCompletely
    BY <2>1 DEF BatchInv, BatchTypes, Drained, EndIsLast, Plain!DrainedCompletely
  <2>3. program = "1p1c_cv" => Guarded!WholeBatches BY DEF BatchInv, Guards, Guarded!WholeBatches
  <2> QED BY <2>1, <2>2, <2>3 DEF NothingVanishes
<1> QED BY <1>1, <1>2, BatchKeeps, PTL DEF Spec

\* The consumer of 1p1c_cv is never asleep on a full batch.
THEOREM BatchIsNoticed == Spec => []NoSleepOnFullBatch
<1>1. PoolInit => BatchInv BY BatchStarts DEF PoolInit
<1>2. BatchInv => NoSleepOnFullBatch BY DEF BatchInv, Guards, NoSleepOnFullBatch, Guarded!NoSleepOnFullBatch
<1> QED BY <1>1, <1>2, BatchKeeps, PTL DEF Spec

-----------------------------------------------------------------------------
(* sum *)

\* What a step of Next is to sum.
LEMMA SumOnly == [Next]_all => [Sum!Next]_sumVars
  BY DEF Next, Batch, Summing, all, others, sumVars

\* What its proof needs of the constants.
LEMMA SumConstants == Lengths \subseteq 0 .. Mantissa - 1 /\ Mantissa \in Nat /\ batch_size \in Nat \ {0}
  BY PoolAssumption

SumTypes ==
    /\ local_size \in Nat /\ (local_size > 0 => local_size < Mantissa)
    /\ start \in Nat /\ offset \in Nat /\ epoch_count \in Int
    /\ mt \in {"pool", "while", "execute", "notify", "swap", "destroy", "return", "end", "terminated"}

\* The rounds that are left cover what is left of the data.
Left ==
    mt \in {"execute", "notify"} =>
        /\ epoch_count >= 1
        /\ offset \in 1 .. batch_size
        /\ start + offset + (epoch_count - 1) * batch_size = local_size

SumInv == SumTypes /\ Left /\ (mt = "swap" => start = local_size)

\* Rounding down: k batches fit, and another does not.
LEMMA Quotient ==
    ASSUME NEW b \in Nat \ {0}, NEW m \in Nat, NEW k \in Nat, k * b <= m, m < k * b + b
    PROVE  m \div b = k
<1> DEFINE q == m \div b
<1>1. q \in Int /\ b * q <= m /\ m < b * q + b OBVIOUS
<1> HIDE DEF q
<1>2. ASSUME q >= k + 1 PROVE FALSE
  <2>1. b * q >= b * (k + 1) BY <1>1, <1>2
  <2> QED BY <1>1, <2>1
<1>3. ASSUME q <= k - 1 PROVE FALSE
  <2>1. b * q <= b * (k - 1) BY <1>1, <1>3
  <2> QED BY <1>1, <2>1
<1>4. q = k BY <1>1, <1>2, <1>3
<1> QED BY <1>4 DEF q

\* Rounding up: the first range and the batches after it are all of the data.
LEMMA FirstRange ==
    ASSUME NEW b \in Nat \ {0}, NEW n \in Nat, n >= b
    PROVE  LET o == IF n % b = 0 THEN b ELSE n % b
               e == (n + b - 1) \div b
           IN  e \in Int /\ e >= 1 /\ o \in 1 .. b /\ o + (e - 1) * b = n
<1> DEFINE q == n \div b
<1> DEFINE r == n % b
<1>1. q \in Int /\ r \in 0 .. b - 1 /\ n = b * q + r OBVIOUS
<1> HIDE DEF q, r
<1>2. q >= 1
  <2>1. ASSUME q <= 0 PROVE b * q <= 0 BY <1>1, <2>1
  <2> QED BY <1>1, <2>1
<1>3. CASE r = 0
  <2>1. (n + b - 1) \div b = q
    <3>1. q * b <= n + b - 1 /\ n + b - 1 < q * b + b /\ n + b - 1 \in Nat BY <1>1, <1>3
    <3> QED BY <1>1, <1>2, <3>1, Quotient
  <2>2. b + (q - 1) * b = n BY <1>1, <1>3
  <2> QED BY <1>1, <1>2, <1>3, <2>1, <2>2 DEF r
<1>4. CASE r # 0
  <2>1. (n + b - 1) \div b = q + 1
    <3>1. (q + 1) * b <= n + b - 1 /\ n + b - 1 < (q + 1) * b + b /\ n + b - 1 \in Nat BY <1>1, <1>4
    <3> QED BY <1>1, <1>2, <3>1, Quotient
  <2>2. r + ((q + 1) - 1) * b = n BY <1>1
  <2> QED BY <1>1, <1>2, <1>4, <2>1, <2>2 DEF r
<1> QED BY <1>3, <1>4

\* The float m / s is the one nearest to n / b, or one of two, where a float has
\* room for the whole numbers below M.
Nearest(b, n, M, s, m) ==
    /\ b \in Nat \ {0} /\ n \in Nat /\ n >= b /\ M \in Nat /\ n < M
    /\ s \in Nat \ {0} /\ m \in Nat /\ 2 * s * n >= M * b
    /\ 2 * (m * b - s * n) \in -b .. b

\* The float quotient of a whole number below the mantissa is rounded up to what the
\* exact one is: its steps 1 / s are short enough, 2 * s being more than b.
LEMMA FloatRoundsUp ==
    ASSUME NEW b, NEW n, NEW M, NEW s, NEW m, Nearest(b, n, M, s, m)
    PROVE  (m + s - 1) \div s = (n + b - 1) \div b
<1> USE DEF Nearest
<1> DEFINE q == n \div b
<1> DEFINE r == n % b
<1> DEFINE d == m - s * q
<1>1. q \in Int /\ r \in 0 .. b - 1 /\ n = b * q + r OBVIOUS
<1> HIDE DEF q, r
<1>2. q >= 1
  <2>1. ASSUME q <= 0 PROVE b * q <= 0 BY <1>1, <2>1
  <2> QED BY <1>1, <2>1
<1>3. 2 * s > b
  <2>1. M * b > n * b OBVIOUS
  <2>2. (2 * s) * n > b * n BY <2>1
  <2> QED BY <2>2
<1>4. d \in Int /\ m = s * q + d BY <1>1
<1> HIDE DEF d
<1>5. m * b - s * n = b * d - s * r
  <2>1. s * n = s * (b * q) + s * r BY <1>1
  <2>2. m * b = (s * q) * b + d * b BY <1>1, <1>4
  <2>3. (s * q) * b = s * (b * q) BY <1>1
  <2> QED BY <1>1, <1>4, <2>1, <2>2, <2>3
<1> DEFINE x == b * d
<1> DEFINE y == s * r
<1>6. x \in Int /\ y \in Int /\ 2 * x - 2 * y >= -b /\ 2 * x - 2 * y <= b
  <2>1. x \in Int /\ y \in Int BY <1>1, <1>4
  <2>2. 2 * (x - y) \in -b .. b BY <1>5
  <2> HIDE DEF x, y
  <2> QED BY <2>1, <2>2
<1>7. CASE r = 0
  <2>1. y = 0 BY <1>7
  <2>2. d = 0
    <3>1. ASSUME d >= 1 PROVE x >= b BY <1>4, <3>1
    <3>2. ASSUME d <= -1 PROVE x <= -b BY <1>4, <3>2
    <3> HIDE DEF x, y
    <3> QED BY <1>4, <1>6, <2>1, <3>1, <3>2
  <2>3. (n + b - 1) \div b = q
    <3>1. q * b <= n + b - 1 /\ n + b - 1 < q * b + b /\ n + b - 1 \in Nat BY <1>1, <1>7
    <3> QED BY <1>1, <1>2, <3>1, Quotient
  <2>4. (m + s - 1) \div s = q
    <3>1. q * s <= m + s - 1 /\ m + s - 1 < q * s + s /\ m + s - 1 \in Nat BY <1>1, <1>4, <2>2
    <3> QED BY <1>1, <1>2, <3>1, Quotient
  <2> QED BY <2>3, <2>4
<1>8. CASE r # 0
  <2>1. y >= s /\ y <= s * b - s
    <3>1. r >= 1 /\ r <= b - 1 BY <1>1, <1>8
    <3>2. s * r >= s * 1 /\ s * r <= s * (b - 1) BY <1>1, <3>1
    <3> QED BY <3>2
  <2>2. d >= 1
    <3>1. ASSUME d <= 0 PROVE x <= 0 BY <1>4, <3>1
    <3> HIDE DEF x, y
    <3> QED BY <1>3, <1>4, <1>6, <2>1, <3>1
  <2>3. d <= s
    <3>1. ASSUME d >= s + 1 PROVE x >= s * b + b
      <4>1. b * d >= b * (s + 1) BY <1>4, <3>1
      <4> QED BY <4>1
    <3>2. s * b \in Int OBVIOUS
    <3> HIDE DEF x, y
    <3> QED BY <1>3, <1>4, <1>6, <2>1, <3>1, <3>2
  <2>4. (n + b - 1) \div b = q + 1
    <3>1. (q + 1) * b <= n + b - 1 /\ n + b - 1 < (q + 1) * b + b /\ n + b - 1 \in Nat BY <1>1, <1>8
    <3> QED BY <1>1, <1>2, <3>1, Quotient
  <2>5. (m + s - 1) \div s = q + 1
    <3>1. (q + 1) * s <= m + s - 1 /\ m + s - 1 < (q + 1) * s + s /\ m + s - 1 \in Nat
      BY <1>1, <1>4, <2>2, <2>3
    <3> QED BY <1>1, <1>2, <3>1, Quotient
  <2> QED BY <2>4, <2>5
<1> QED BY <1>7, <1>8

\* The loop of manual_mt: the first range of a round, then a batch at a time.
LEMMA SumMainKeeps == ASSUME SumInv, Sum!MainStep PROVE SumInv'
<1> USE SumConstants DEF SumInv
<1>1. CASE Sum!Construct BY <1>1 DEF Sum!Construct, SumTypes, Left
<1>2. CASE Sum!While
  <2>1. CASE local_size >= batch_size
    <3>1. /\ epoch_count' \in Int /\ epoch_count' >= 1 /\ offset' \in 1 .. batch_size
          /\ offset' + (epoch_count' - 1) * batch_size = local_size
      <4> DEFINE o == IF local_size % batch_size = 0 THEN batch_size ELSE local_size % batch_size
      <4> DEFINE e == (local_size + batch_size - 1) \div batch_size
      <4>1. local_size \in Nat /\ local_size < Mantissa BY <2>1 DEF SumTypes
      <4>2. e \in Int /\ e >= 1 /\ o \in 1 .. batch_size /\ o + (e - 1) * batch_size = local_size
        <5> HIDE DEF SumInv
        <5> QED BY <2>1, <4>1, FirstRange, Zenon
      <4>3. offset' = o BY <1>2, <2>1 DEF Sum!While, Sum!Offset
      <4>4. epoch_count' = e
        <5>1. PICK f \in Sum!FloatQuotients(local_size) : epoch_count' = (f.m + f.s - 1) \div f.s
          BY <1>2, <2>1 DEF Sum!While
        <5> DEFINE fm == f.m
        <5> DEFINE fs == f.s
        <5>2. Nearest(batch_size, local_size, Mantissa, fs, fm)
          BY <2>1, <4>1 DEF Sum!FloatQuotients, Nearest
        <5>3. epoch_count' = (fm + fs - 1) \div fs BY <5>1
        <5> HIDE DEF SumInv, fm, fs
        <5>4. (fm + fs - 1) \div fs = (local_size + batch_size - 1) \div batch_size
          BY ONLY <5>2, FloatRoundsUp
        <5> QED BY <5>3, <5>4
      <4> HIDE DEF o, e
      <4> QED BY <4>2, <4>3, <4>4
    <3>2. start' = 0 /\ local_size' = local_size /\ mt' = "execute" BY <1>2, <2>1 DEF Sum!While
    <3>3. SumTypes' BY <3>1, <3>2 DEF SumTypes
    <3>4. start' + offset' + (epoch_count' - 1) * batch_size = local_size' BY <3>1, <3>2
    <3>5. Left' BY <3>1, <3>4 DEF Left
    <3> QED BY <3>2, <3>3, <3>5
  <2>2. CASE ~(local_size >= batch_size) BY <1>2, <2>2 DEF Sum!While, SumTypes, Left
  <2> QED BY <2>1, <2>2
<1>3. CASE Sum!Execute BY <1>3 DEF Sum!Execute, SumTypes, Left
<1>4. CASE Sum!Advance
  <2>1. /\ mt = "notify" /\ start' = start + offset /\ offset' = batch_size
        /\ epoch_count' = epoch_count - 1 /\ local_size' = local_size
        /\ mt' = IF epoch_count - 1 = 0 THEN "swap" ELSE "execute"
    BY <1>4 DEF Sum!Advance
  <2>2. epoch_count \in Int /\ epoch_count >= 1 /\ start + offset + (epoch_count - 1) * batch_size = local_size
    BY <2>1 DEF SumTypes, Left
  <2>3. SumTypes' BY <2>1 DEF SumTypes
  <2>4. CASE epoch_count = 1
    <3>1. start' = local_size BY <2>1, <2>2, <2>4 DEF SumTypes
    <3> QED BY <2>1, <2>3, <2>4, <3>1 DEF Left
  <2>5. CASE epoch_count # 1
    <3>1. (epoch_count - 1) * batch_size = batch_size + (epoch_count - 1 - 1) * batch_size BY <2>2
    <3>2. (epoch_count - 1 - 1) * batch_size \in Int BY <2>2
    <3>3. start' + offset' + (epoch_count' - 1) * batch_size = local_size' BY <2>1, <2>2, <3>1, <3>2 DEF SumTypes
    <3>4. Left' BY <2>1, <2>2, <2>5, <3>3 DEF Left
    <3> QED BY <2>1, <2>2, <2>3, <2>5, <3>4
  <2> QED BY <2>4, <2>5
<1>5. CASE Sum!Swap BY <1>5 DEF Sum!Swap, SumTypes, Left
<1>6. CASE Sum!Destroy \/ Sum!Return BY <1>6 DEF Sum!Destroy, Sum!Return, SumTypes, Left
<1> QED BY <1>1, <1>2, <1>3, <1>4, <1>5, <1>6 DEF Sum!MainStep

\* For every length below 2^24, which a float holds exactly, and whatever quotient the
\* division by a float rounds to: what is left of the data while manual_mt cuts it is
\* one range of offset elements and epoch_count - 1 whole batches, so that no range
\* reaches past the end and the last one ends there.
THEOREM EveryElementOnce == Spec => []RangesTile
<1> USE SumConstants
<1>1. PoolInit => SumInv BY DEF PoolInit, Sum!Init, SumInv, SumTypes, Left
<1>2. SumInv /\ [Next]_all => SumInv'
  <2> SUFFICES ASSUME SumInv, [Sum!Next]_sumVars PROVE SumInv' BY SumOnly
  <2>1. CASE Sum!MainStep BY <2>1, SumMainKeeps
  <2>2. CASE UNCHANGED sumVars BY <2>2 DEF sumVars, SumInv, SumTypes, Left
  <2>3. ASSUME NEW w \in DOMAIN worker, Sum!Work(w) \/ Sum!Resume(w) PROVE SumInv'
    BY <2>3 DEF Sum!Work, Sum!Resume, SumInv, SumTypes, Left
  <2> QED BY <2>1, <2>2, <2>3 DEF Sum!Next
<1>3. SumInv => RangesTile
  <2> SUFFICES ASSUME SumInv PROVE Sum!RangesTile BY DEF RangesTile
  <2>1. ASSUME mt \in {"execute", "notify"}
        PROVE  offset \in 1 .. batch_size /\ start + offset <= local_size
    <3>1. epoch_count \in Int /\ epoch_count - 1 >= 0 BY <2>1 DEF SumInv, Left, SumTypes
    <3>2. (epoch_count - 1) * batch_size >= 0 /\ (epoch_count - 1) * batch_size \in Int BY <3>1
    <3> QED BY <2>1, <3>2 DEF SumInv, Left, SumTypes
  <2> QED BY <2>1 DEF SumInv, Left, Sum!RangesTile
<1> QED BY <1>1, <1>2, <1>3, PTL DEF Spec

-----------------------------------------------------------------------------
(* tiny_rwc and rw *)

\* What a step of Next is to tiny_rwc.
LEMMA TinyOnly == [Next]_all => [Tiny!Next]_tinyVars
  BY DEF Next, Batch, Summing, all, others, tinyVars

\* What it is to rw.
LEMMA CounterOnly == [Next]_all => [Counter!Next]_counterVars
  BY DEF Next, Batch, Summing, all, others, counterVars

TinyInv ==
    /\ tiny_pool \in 0 .. threshold /\ do_write \in {"getline", "above"}
    /\ index \in [TinyReads -> Nat] /\ \A r \in TinyReads : index[r] <= tiny_pool

\* The writer appends below threshold only, and a reader follows.
LEMMA TinyKeeps == TinyInv /\ [Next]_all => TinyInv'
<1> SUFFICES ASSUME TinyInv, [Next]_all PROVE TinyInv' OBVIOUS
<1>0. threshold \in Nat /\ max_size \in Nat /\ threshold < max_size BY PoolAssumption
<1>1. CASE UNCHANGED tinyVars BY <1>1 DEF tinyVars, TinyInv
<1>2. CASE Tiny!Write
  <2>1. index' = index BY <1>2 DEF Tiny!Write
  <2>2. tiny_pool < max_size BY <1>0 DEF TinyInv
  <2>3. CASE tiny_pool = threshold
    <3>1. tiny_pool' = tiny_pool /\ do_write' = "above"
      <4>1. tiny_pool \in threshold .. max_size - 1 BY <1>0, <2>3
      <4> QED BY <1>0, <1>2, <2>2, <2>3, <4>1 DEF Tiny!Write, TinyInv
    <3> QED BY <2>1, <3>1 DEF TinyInv
  <2>4. CASE tiny_pool # threshold
    <3>1. tiny_pool < threshold /\ tiny_pool \notin threshold .. max_size - 1 BY <1>0, <2>4 DEF TinyInv
    <3>2. tiny_pool' = tiny_pool + 1 /\ do_write' = "getline"
      BY <1>0, <1>2, <2>2, <3>1 DEF Tiny!Write, TinyInv
    <3> QED BY <1>0, <2>1, <3>1, <3>2 DEF TinyInv
  <2> QED BY <2>3, <2>4
<1>3. CASE Tiny!End BY <1>3 DEF Tiny!End, TinyInv
<1>4. ASSUME NEW r \in TinyReads, Tiny!ReaderStep(r) PROVE TinyInv'
  BY <1>0, <1>4 DEF Tiny!ReaderStep, Tiny!ReadLock, Tiny!Read, TinyInv
<1> QED BY <1>1, <1>2, <1>3, <1>4, TinyOnly DEF Tiny!Next

\* Who is between its call and its line holds mtx, and knows the value.
CounterInv ==
    /\ value_ \in 0 .. UINT - 1 /\ shown \in 0 .. UINT - 1
    /\ at \in [Counter!All -> {"sleep", "call", "print"}] /\ got \in [Counter!All -> Int]
    /\ \A t \in Counter!All : at[t] # "sleep" => mtx = t
    /\ \A t \in Counter!All : at[t] = "print" => got[t] = value_
    /\ Counter!ShownInOrder

\* Nobody calls the counter while somebody has yet to print.
LEMMA CounterKeeps == CounterInv /\ [Next]_all => CounterInv'
<1> SUFFICES ASSUME CounterInv, [Next]_all PROVE CounterInv' OBVIOUS
<1>0. UINT \in Nat \ {0} /\ Unlocked \notin Counter!All /\ Getters \cap Writers = {}
  BY PoolAssumption DEF Counter!All
<1>1. CASE UNCHANGED counterVars BY <1>1 DEF counterVars, CounterInv, Counter!ShownInOrder
<1>2. ASSUME NEW t \in Counter!All, Counter!Lock(t) PROVE CounterInv'
  <2>1. \A s \in Counter!All : at[s] = "sleep" BY <1>0, <1>2 DEF Counter!Lock, CounterInv
  <2>2. \A s \in Counter!All : at'[s] # "print" BY <1>2, <2>1 DEF Counter!Lock, CounterInv
  <2>3. value_ = shown BY <2>1 DEF CounterInv, Counter!ShownInOrder, Counter!All
  <2>4. Counter!ShownInOrder' BY <1>2, <2>2, <2>3 DEF Counter!Lock, Counter!ShownInOrder, Counter!All
  <2> QED BY <1>2, <2>1, <2>2, <2>4 DEF Counter!Lock, CounterInv
<1>3. ASSUME NEW t \in Counter!All, Counter!Call(t) PROVE CounterInv'
  <2> USE DEF Counter!Call
  <2>1. mtx = t BY <1>3 DEF CounterInv
  <2>2. \A s \in Counter!All \ {t} : at[s] = "sleep" BY <2>1 DEF CounterInv
  <2>3. value_ = shown BY <1>3, <2>2 DEF CounterInv, Counter!ShownInOrder, Counter!All
  <2>4. value_' = IF t \in Getters THEN value_ ELSE (value_ + 1) % UINT
    BY <1>3 DEF Counter!get, Counter!increment
  <2>5. value_' \in 0 .. UINT - 1
    <3>1. value_ \in 0 .. UINT - 1 /\ value_ + 1 \in Nat BY DEF CounterInv
    <3>2. (value_ + 1) % UINT \in 0 .. UINT - 1 BY <1>0, <3>1
    <3> QED BY <2>4, <3>1, <3>2
  <2>6. at' = [at EXCEPT ![t] = "print"] /\ got' = [got EXCEPT ![t] = value_'] /\ mtx' = mtx /\ shown' = shown
    BY <1>3
  <2>7. Counter!ShownInOrder'
    <3>1. CASE t \in Getters
      <4>1. ~\E w \in Writers : at'[w] = "print" BY <1>0, <2>2, <2>6, <3>1 DEF Counter!All, CounterInv
      <4> QED BY <2>3, <2>4, <2>6, <3>1, <4>1 DEF Counter!ShownInOrder
    <3>2. CASE t \notin Getters
      <4>1. t \in Writers /\ at'[t] = "print" BY <2>6, <3>2 DEF Counter!All, CounterInv
      <4> QED BY <2>3, <2>4, <2>6, <3>2, <4>1 DEF Counter!ShownInOrder
    <3> QED BY <3>1, <3>2
  <2> QED BY <2>1, <2>2, <2>5, <2>6, <2>7 DEF CounterInv
<1>4. ASSUME NEW t \in Counter!All, Counter!Show(t) PROVE CounterInv'
  <2>1. mtx = t /\ got[t] = value_ BY <1>4 DEF CounterInv, Counter!Show
  <2>2. \A s \in Counter!All \ {t} : at[s] = "sleep" BY <2>1 DEF CounterInv
  <2>3. /\ shown' = value_ /\ at' = [at EXCEPT ![t] = "sleep"] /\ value_' = value_ /\ got' = got
    BY <1>4, <2>1 DEF Counter!Show
  <2>4. \A s \in Counter!All : at'[s] = "sleep" BY <2>2, <2>3 DEF CounterInv
  <2>5. Counter!ShownInOrder' BY <2>3, <2>4 DEF Counter!ShownInOrder, Counter!All
  <2> QED BY <2>3, <2>4, <2>5 DEF CounterInv
<1> QED BY <1>1, <1>2, <1>3, <1>4, CounterOnly DEF Counter!Next

\* For every threshold below max_size and any readers, tiny_rwc's pool stops at
\* threshold with no reader ahead of it; and whatever the numbers of readers and
\* writers, rw prints the counter's values in the order of the calls, also where
\* the counter wraps around.
THEOREM LimitsHold == Spec => []LimitsAndOrder
<1>1. PoolInit => TinyInv
  <2>1. threshold \in Nat BY PoolAssumption
  <2> QED BY <2>1 DEF PoolInit, Tiny!Init, TinyInv
<1>2. PoolInit => CounterInv
  <2>1. UINT \in Nat \ {0} BY PoolAssumption
  <2> QED BY <2>1 DEF PoolInit, Counter!Init, CounterInv, Counter!ShownInOrder, Counter!All
<1>3. TinyInv /\ CounterInv => LimitsAndOrder
  BY DEF TinyInv, CounterInv, LimitsAndOrder, Tiny!StopsAtThreshold
<1> QED BY <1>1, <1>2, <1>3, TinyKeeps, CounterKeeps, PTL DEF Spec

-----------------------------------------------------------------------------
(* 1w_nr *)

\* What a step of Next is to 1w_nr.
LEMMA OneWOnly == [Next]_all => [OneW!Next]_oneVars
  BY DEF Next, Batch, Summing, all, others, oneVars

Size(s) == OneW!Cardinality(s)

\* How many of n readers a set of them has.
Counts(n) ==
    \A s \in SUBSET (0 .. n - 1) :
        /\ Size(s) \in Nat
        /\ \A r \in 0 .. n - 1 : r \notin s => Size(s \cup {r}) = Size(s) + 1
        /\ Size(s) = n => s = 0 .. n - 1

\* The end of the module shows this, with the library's theorems.
ReadersCount == Size({}) = 0 /\ \A n \in Int : Counts(n)

OneTypes ==
    /\ reader_count \in Int /\ Lines \in Nat /\ line \in 0 .. Lines
    /\ cleared \in Nat /\ lost \in Nat /\ aready_read \in Nat
    /\ data_list \in Seq(1 .. Lines)
    /\ seen \in [1 .. Lines + 1 -> SUBSET (0 .. reader_count - 1)]
    /\ extra \in [1 .. Lines + 1 -> Nat]

Ended == clear \in {"break", "done"}

\* Lines the writer has taken and not pushed.
InHand == IF writer = "append" THEN 1 ELSE 0

\* Every line taken is removed, in the pool, lost or in the writer's hand; the pool
\* has the lines after the removed ones, in order, until a line is lost.
InThePool ==
    /\ cleared + Len(data_list) + lost + InHand = line
    /\ stray => lost > 0
    /\ lost > 0 => Ended
    /\ \A i \in 1 .. Len(data_list) :
          data_list[i] >= cleared + i /\ (lost = 0 => data_list[i] = cleared + i)

\* The reads counted for line l, by what S and E say.
Count(S, E, l) == Size(S[l]) + E[l]

\* Every read is counted for the line at the head until that is removed.
Counted ==
    /\ \A l \in 1 .. cleared : Count(seen, extra, l) = reader_count
    /\ ~Ended => /\ Count(seen, extra, cleared + 1) = aready_read
                 /\ \A l \in cleared + 2 .. Lines + 1 : Count(seen, extra, l) = 0

OneInv == OneTypes /\ InThePool /\ Counted

\* Nothing is in the pool and nothing has been read.
LEMMA OneStarts == ASSUME ReadersCount, OneW!Init PROVE OneInv
<1> USE PoolAssumption DEF OneW!Init
<1>1. OneTypes BY DEF OneTypes
<1>2. InThePool
  <2>1. Len(data_list) = 0 OBVIOUS
  <2> QED BY <2>1 DEF InThePool, InHand
<1>3. \A l \in 1 .. Lines + 1 : Count(seen, extra, l) = 0 BY DEF ReadersCount, Count
<1>4. Counted
  <2>1. cleared = 0 /\ aready_read = 0 /\ Lines \in Nat BY Zenon
  <2> HIDE DEF OneW!Init
  <2>2. 1 \in 1 .. Lines + 1 /\ \A l \in 2 .. Lines + 1 : l \in 1 .. Lines + 1 BY <2>1
  <2>3. 1 .. 0 = {} OBVIOUS
  <2> QED BY <1>3, <2>1, <2>2, <2>3 DEF Counted
<1> QED BY <1>1, <1>2, <1>4 DEF OneInv

\* Where the readers stand, and the flags, are nothing to the invariant.
LEMMA OneSame ==
    ASSUME OneInv, UNCHANGED <<reader_count, data_list, stray, aready_read, cleared, lost, seen, extra>>,
           Ended' <=> Ended, line' \in 0 .. Lines,
           \/ line' = line /\ InHand' = InHand
           \/ line' = line + 1 /\ InHand = 0 /\ InHand' = 1
    PROVE  OneInv'
<1>0. InHand \in {0, 1} /\ InHand' \in {0, 1} BY DEF InHand
<1>1. OneTypes' BY DEF OneInv, OneTypes
<1>2. InThePool'
  <2>1. Len(data_list) \in Nat BY DEF OneInv, OneTypes
  <2>2. /\ cleared \in Nat /\ lost \in Nat /\ line \in Int /\ line' \in Int
        /\ cleared + Len(data_list) + lost + InHand = line
    BY DEF OneInv, OneTypes, InThePool
  <2>3. cleared + Len(data_list) + lost + InHand' = line'
    <3>1. CASE line' = line /\ InHand' = InHand BY <2>2, <3>1
    <3>2. CASE line' = line + 1 /\ InHand = 0 /\ InHand' = 1
      <4> DEFINE n == Len(data_list)
      <4>1. n \in Nat /\ cleared + n + lost + 0 = line BY <2>1, <2>2, <3>2
      <4> HIDE DEF n
      <4>2. cleared + n + lost + 1 = line + 1 BY <2>2, <4>1
      <4> QED BY <3>2, <4>2 DEF n
    <3> QED BY <3>1, <3>2
  <2> QED BY <2>3 DEF OneInv, InThePool
<1>3. Counted' BY DEF OneInv, Counted
<1> QED BY <1>1, <1>2, <1>3 DEF OneInv

\* A push: the line comes to the end of the pool, or is lost behind its stray end.
LEMMA OnePushKeeps ==
    ASSUME OneInv, OneW!Push, line' \in 0 .. Lines, line' = line - InHand + 1, InHand' = 0,
           UNCHANGED <<reader_count, stray, clear, aready_read, cleared, seen, extra>>
    PROVE  OneInv'
<1> DEFINE n == Len(data_list)
<1>0. InHand \in {0, 1} BY DEF InHand
<1>1. /\ data_list \in Seq(1 .. Lines) /\ n \in Nat /\ cleared \in Nat /\ lost \in Nat /\ line \in Nat
      /\ line' = cleared + n + lost + 1 /\ line' \in 1 .. Lines
  BY <1>0 DEF OneInv, OneTypes, InThePool
<1>2. Counted' BY DEF OneInv, Counted, Ended
<1>3. CASE stray
  <2>1. lost' = lost + 1 /\ data_list' = data_list BY <1>3 DEF OneW!Push
  <2>2. lost > 0 /\ Ended BY <1>3 DEF OneInv, InThePool
  <2>3. OneTypes' BY <2>1 DEF OneInv, OneTypes
  <2>4. cleared' + Len(data_list') + lost' + InHand' = line' BY <1>1, <2>1
  <2>5. InThePool' BY <1>1, <2>1, <2>2, <2>4 DEF OneInv, InThePool, Ended
  <2> QED BY <1>2, <2>3, <2>5 DEF OneInv
<1>4. CASE ~stray
  <2>1. data_list' = Append(data_list, line') /\ lost' = lost BY <1>4 DEF OneW!Push
  <2>2. /\ Len(data_list') = n + 1 /\ data_list' \in Seq(1 .. Lines)
        /\ data_list'[n + 1] = line' /\ \A i \in 1 .. n : data_list'[i] = data_list[i]
    BY <1>1, <2>1
  <2>3. OneTypes' BY <2>1, <2>2 DEF OneInv, OneTypes
  <2>4. cleared' + Len(data_list') + lost' + InHand' = line' BY <1>1, <2>1, <2>2
  <2>5. \A i \in 1 .. n + 1 :
           data_list'[i] >= cleared + i /\ (lost = 0 => data_list'[i] = cleared + i)
    <3> SUFFICES ASSUME NEW i \in 1 .. n + 1
        PROVE data_list'[i] >= cleared + i /\ (lost = 0 => data_list'[i] = cleared + i)
      OBVIOUS
    <3>1. CASE i = n + 1 BY <1>1, <2>2, <3>1
    <3>2. CASE i # n + 1
      <4>1. i \in 1 .. n BY <1>1, <3>2
      <4> QED BY <2>2, <4>1 DEF OneInv, InThePool
    <3> QED BY <3>1, <3>2
  <2>6. InThePool' BY <2>1, <2>2, <2>4, <2>5 DEF OneInv, InThePool, Ended
  <2> QED BY <1>2, <2>3, <2>6 DEF OneInv
<1> QED BY <1>3, <1>4

\* The writer.
LEMMA OneWriterKeeps ==
    ASSUME OneInv,
           OneW!WriteLine \/ OneW!Warn \/ OneW!AppendUnlocked \/ OneW!NotifyUnlocked \/ OneW!EndOfFile
    PROVE  OneInv'
<1>0. line \in 0 .. Lines /\ Lines \in Nat BY DEF OneInv, OneTypes
<1>1. CASE OneW!Warn \/ OneW!NotifyUnlocked \/ OneW!EndOfFile
  <2>1. /\ line' \in 0 .. Lines
        /\ \/ line' = line /\ InHand' = InHand
           \/ line' = line + 1 /\ InHand = 0 /\ InHand' = 1
    BY <1>0, <1>1 DEF OneW!Warn, OneW!NotifyUnlocked, OneW!EndOfFile, InHand
  <2>2. UNCHANGED <<reader_count, data_list, stray, aready_read, cleared, lost, seen, extra, clear>>
    BY <1>1 DEF OneW!Warn, OneW!NotifyUnlocked, OneW!EndOfFile, OneW!history
  <2> QED BY <2>1, <2>2, OneSame DEF Ended
<1>2. CASE OneW!WriteLine \/ OneW!AppendUnlocked
  <2>1. line' \in 0 .. Lines /\ line' = line - InHand + 1 /\ InHand' = 0 /\ OneW!Push
    <3>1. CASE OneW!WriteLine BY <1>0, <3>1 DEF OneW!WriteLine, InHand
    <3>2. CASE OneW!AppendUnlocked
      <4>1. line' = line /\ InHand = 1 /\ InHand' = 0 /\ OneW!Push BY <3>2 DEF OneW!AppendUnlocked, InHand
      <4> QED BY <1>0, <4>1
    <3> QED BY <1>2, <3>1, <3>2
  <2>2. UNCHANGED <<reader_count, stray, clear, aready_read, cleared, seen, extra>>
    BY <1>2 DEF OneW!WriteLine, OneW!AppendUnlocked
  <2> QED BY <2>1, <2>2, OnePushKeeps
<1> QED BY <1>1, <1>2

\* One read more is counted for line h, which has not been removed.
LEMMA OneMoreRead ==
    ASSUME OneInv, NEW h \in 1 .. Lines + 1, h > cleared, ~Ended => h = cleared + 1,
           Count(seen', extra', h) = Count(seen, extra, h) + 1, \A l \in 1 .. Lines + 1 \ {h} : Count(seen', extra', l) = Count(seen, extra, l),
           aready_read' = aready_read + 1, UNCHANGED <<reader_count, cleared, clear>>
    PROVE  Counted'
<1>1. cleared \in Nat /\ Lines \in Nat /\ cleared <= Lines
  <2>1. Len(data_list) \in Nat /\ InHand \in Nat BY DEF OneInv, OneTypes, InHand
  <2> QED BY <2>1 DEF OneInv, OneTypes, InThePool
<1>2. \A l \in 1 .. cleared : Count(seen', extra', l) = reader_count BY <1>1 DEF OneInv, Counted
<1>3. ASSUME ~Ended
      PROVE  Count(seen', extra', cleared + 1) = aready_read + 1 /\ \A l \in cleared + 2 .. Lines + 1 : Count(seen', extra', l) = 0
  <2>1. h = cleared + 1 BY <1>3
  <2>2. Count(seen, extra, h) = aready_read BY <1>3, <2>1 DEF OneInv, Counted
  <2>3. ASSUME NEW l \in cleared + 2 .. Lines + 1 PROVE Count(seen', extra', l) = 0
    <3>1. l \in 1 .. Lines + 1 \ {h} BY <1>1, <2>1
    <3> QED BY <1>3, <3>1 DEF OneInv, Counted
  <2> QED BY <2>1, <2>2, <2>3
<1> QED BY <1>2, <1>3 DEF Counted, Ended

\* A reader reads the line at the head, or reads the empty pool.
LEMMA OneReadKeeps ==
    ASSUME ReadersCount, OneInv, NEW r \in OneW!Readers, OneW!ReadFront(r) \/ OneW!ReadNothing(r)
    PROVE  OneInv'
<1> DEFINE Ids == 0 .. reader_count - 1
<1>0. /\ aready_read' = aready_read + 1
      /\ UNCHANGED <<reader_count, data_list, stray, line, writer, clear, cleared, lost>>
  BY DEF OneW!ReadFront, OneW!ReadNothing
<1>1. /\ reader_count \in Int /\ Lines \in Nat /\ cleared \in Nat /\ aready_read \in Nat
      /\ seen \in [1 .. Lines + 1 -> SUBSET Ids] /\ extra \in [1 .. Lines + 1 -> Nat] /\ r \in Ids
  BY DEF OneInv, OneTypes, OneW!Readers
<1>2. InThePool' BY <1>0 DEF OneInv, InThePool, InHand, Ended
<1>3. PICK h \in 1 .. Lines + 1 :
        /\ h = IF data_list = <<>> THEN cleared + 1 ELSE Head(data_list)
        /\ h > cleared /\ (~Ended => h = cleared + 1)
  <2> DEFINE g == IF data_list = <<>> THEN cleared + 1 ELSE Head(data_list)
  <2> SUFFICES g \in 1 .. Lines + 1 /\ g > cleared /\ (~Ended => g = cleared + 1) OBVIOUS
  <2>1. /\ Len(data_list) \in Nat /\ InHand \in Nat /\ lost \in Nat /\ line \in 0 .. Lines
        /\ cleared + Len(data_list) + lost + InHand = line
    BY DEF OneInv, OneTypes, InHand, InThePool
  <2>2. CASE data_list = <<>>
    <3>1. cleared <= Lines BY <1>1, <2>1
    <3> QED BY <1>1, <2>2, <3>1
  <2>3. CASE data_list # <<>>
    <3>1. Len(data_list) >= 1 /\ Head(data_list) = data_list[1] /\ data_list[1] \in 1 .. Lines
      BY <2>3 DEF OneInv, OneTypes
    <3>2. data_list[1] >= cleared + 1 /\ (lost = 0 => data_list[1] = cleared + 1)
      BY <2>1, <3>1 DEF OneInv, InThePool
    <3>3. ~Ended => lost = 0 BY <2>1 DEF OneInv, InThePool
    <3> QED BY <1>1, <2>3, <3>1, <3>2, <3>3
  <2> QED BY <2>2, <2>3
<1>4. \/ r \notin seen[h] /\ seen' = [seen EXCEPT ![h] = @ \cup {r}] /\ extra' = extra
      \/ seen' = seen /\ extra' = [extra EXCEPT ![h] = @ + 1]
  BY <1>3 DEF OneW!ReadFront, OneW!ReadNothing
<1>5. seen[h] \in SUBSET Ids /\ Size(seen[h]) \in Nat /\ (r \notin seen[h] => Size(seen[h] \cup {r}) = Size(seen[h]) + 1)
  <2>1. seen[h] \in SUBSET Ids BY <1>1, Zenon
  <2> HIDE DEF Ids
  <2>2. Counts(reader_count) BY <1>1, Zenon DEF ReadersCount
  <2>3. \A t \in SUBSET Ids : Size(t) \in Nat /\ \A x \in Ids : x \notin t => Size(t \cup {x}) = Size(t) + 1
    BY <2>2, Zenon DEF Ids, Counts
  <2> QED BY <1>1, <2>1, <2>3, Zenon
<1>6. Count(seen', extra', h) = Count(seen, extra, h) + 1
  <2>1. CASE r \notin seen[h] /\ seen' = [seen EXCEPT ![h] = @ \cup {r}] /\ extra' = extra
    <3>1. seen'[h] = seen[h] \cup {r} /\ extra'[h] = extra[h] /\ extra[h] \in Nat BY <1>1, <1>3, <2>1
    <3> DEFINE x == Size(seen[h])
               y == extra[h]
    <3>2. Size(seen'[h]) = x + 1 /\ extra'[h] = y /\ x \in Nat /\ y \in Nat BY <1>5, <2>1, <3>1, Zenon
    <3> HIDE DEF x, y
    <3>3. Size(seen'[h]) + extra'[h] = x + y + 1 BY <3>2
    <3> QED BY <3>3 DEF Count, x, y
  <2>2. CASE seen' = seen /\ extra' = [extra EXCEPT ![h] = @ + 1]
    <3>1. seen'[h] = seen[h] /\ extra'[h] = extra[h] + 1 /\ extra[h] \in Nat BY <1>1, <1>3, <2>2
    <3> DEFINE x == Size(seen[h])
               y == extra[h]
    <3>2. Size(seen'[h]) = x /\ extra'[h] = y + 1 /\ x \in Nat /\ y \in Nat BY <1>5, <3>1, Zenon
    <3> HIDE DEF x, y
    <3>3. Size(seen'[h]) + extra'[h] = x + y + 1 BY <3>2
    <3> QED BY <3>3 DEF Count, x, y
  <2> QED BY <1>4, <2>1, <2>2
<1>7. \A l \in 1 .. Lines + 1 \ {h} : Count(seen', extra', l) = Count(seen, extra, l)
  <2> SUFFICES ASSUME NEW l \in 1 .. Lines + 1 \ {h} PROVE Count(seen', extra', l) = Count(seen, extra, l)
    OBVIOUS
  <2>1. seen'[l] = seen[l] /\ extra'[l] = extra[l] BY <1>1, <1>4
  <2> QED BY <2>1, Zenon DEF Count
<1>8. Counted' BY <1>0, <1>3, <1>6, <1>7, OneMoreRead
<1>9. OneTypes'
  <2>1. seen' \in [1 .. Lines + 1 -> SUBSET Ids] /\ extra' \in [1 .. Lines + 1 -> Nat]
    <3> HIDE DEF Ids
    <3>1. CASE seen' = [seen EXCEPT ![h] = @ \cup {r}] /\ extra' = extra
      <4>1. seen[h] \cup {r} \in SUBSET Ids BY <1>1, <1>5
      <4> QED BY <1>1, <3>1, <4>1
    <3>2. CASE seen' = seen /\ extra' = [extra EXCEPT ![h] = @ + 1] BY <1>1, <3>2
    <3> QED BY <1>4, <3>1, <3>2
  <2> QED BY <1>0, <1>1, <2>1 DEF OneInv, OneTypes
<1> QED BY <1>2, <1>8, <1>9 DEF OneInv

\* clear removes the line at the head after reader_count reads.
LEMMA OnePopKeeps == ASSUME OneInv, OneW!Pop PROVE OneInv'
<1> DEFINE n == Len(data_list)
<1>0. /\ aready_read = reader_count /\ aready_read' = 0 /\ data_list' = Tail(data_list) /\ cleared' = cleared + 1
      /\ UNCHANGED <<reader_count, line, writer, stray, lost, seen, extra>> /\ ~Ended /\ data_list # <<>>
  BY DEF OneW!Pop, Ended
<1>1. data_list \in Seq(1 .. Lines) /\ cleared \in Nat /\ lost = 0 /\ lost \in Nat /\ InHand \in Nat /\ Lines \in Nat
  BY <1>0 DEF OneInv, OneTypes, InThePool, InHand
<1>2. /\ n \in Nat /\ n >= 1 /\ data_list' \in Seq(1 .. Lines) /\ Len(data_list') = n - 1
      /\ \A i \in 1 .. n - 1 : data_list'[i] = data_list[i + 1]
  BY <1>0, <1>1
<1>3. OneTypes' BY <1>0, <1>1, <1>2 DEF OneInv, OneTypes
<1>4. \A i \in 1 .. n - 1 : data_list'[i] = cleared' + i /\ data_list'[i] >= cleared' + i
  <2> TAKE i \in 1 .. n - 1
  <2>1. i + 1 \in 1 .. n BY <1>2
  <2>2. data_list[i + 1] = cleared + (i + 1) BY <1>1, <2>1 DEF OneInv, InThePool
  <2> QED BY <1>0, <1>1, <1>2, <2>2
<1>5. cleared' + Len(data_list') + lost' + InHand' = line'
  <2>1. InHand' = InHand BY <1>0 DEF InHand
  <2>2. cleared + n + lost + InHand = line BY DEF OneInv, InThePool
  <2> QED BY <1>0, <1>1, <1>2, <2>1, <2>2
<1>6. InThePool' BY <1>0, <1>1, <1>2, <1>4, <1>5 DEF OneInv, InThePool
<1>7. Counted'
  <2>1. \A l \in 1 .. Lines + 1 : Count(seen', extra', l) = Count(seen, extra, l) BY <1>0 DEF Count
  <2>2. /\ \A l \in 1 .. cleared : Count(seen, extra, l) = reader_count
        /\ Count(seen, extra, cleared + 1) = reader_count /\ \A l \in cleared + 2 .. Lines + 1 : Count(seen, extra, l) = 0
    BY <1>0 DEF OneInv, Counted
  <2>3. cleared + 1 <= Lines
    <3>1. cleared + n + lost + InHand = line /\ line \in 0 .. Lines BY DEF OneInv, OneTypes, InThePool
    <3> QED BY <1>1, <1>2, <3>1
  <2>4. \A l \in 1 .. cleared' : Count(seen', extra', l) = reader_count' BY <1>0, <1>1, <2>1, <2>2, <2>3
  <2>5. Count(seen', extra', cleared' + 1) = aready_read'
    <3>1. cleared + 2 \in 1 .. Lines + 1 /\ cleared + 2 \in cleared + 2 .. Lines + 1 BY <1>1, <2>3
    <3>2. Count(seen', extra', cleared + 2) = 0 BY <2>1, <2>2, <3>1
    <3>3. cleared' + 1 = cleared + 2 BY <1>0, <1>1
    <3> QED BY <1>0, <3>2, <3>3
  <2>6. \A l \in cleared' + 2 .. Lines + 1 : Count(seen', extra', l) = 0
    <3> SUFFICES ASSUME NEW l \in cleared' + 2 .. Lines + 1 PROVE Count(seen', extra', l) = 0 OBVIOUS
    <3>1. l \in cleared + 2 .. Lines + 1 /\ l \in 1 .. Lines + 1 BY <1>0, <1>1
    <3> QED BY <2>1, <2>2, <3>1
  <2> QED BY <2>4, <2>5, <2>6 DEF Counted
<1> QED BY <1>3, <1>6, <1>7 DEF OneInv

\* With an empty pool clear removes nothing, and ends.
LEMMA OnePopNothingKeeps == ASSUME OneInv, OneW!PopNothing PROVE OneInv'
<1>0. /\ aready_read' = 0 /\ Ended' /\ UNCHANGED <<reader_count, data_list, line, writer, stray, cleared, lost, seen, extra>>
  BY DEF OneW!PopNothing, Ended, OneW!history
<1>1. OneTypes' BY <1>0 DEF OneInv, OneTypes
<1>2. InThePool' BY <1>0 DEF OneInv, InThePool, InHand
<1>3. Counted' BY <1>0 DEF OneInv, Counted
<1> QED BY <1>1, <1>2, <1>3 DEF OneInv

\* The removal that races with the append: the line in the writer's hand is lost,
\* and clear ends.
LEMMA OnePopRacingKeeps == ASSUME OneInv, OneW!PopRacing PROVE OneInv'
<1> DEFINE n == Len(data_list)
<1>0. /\ aready_read = reader_count /\ aready_read' = 0 /\ data_list' = <<>> /\ cleared' = cleared + n /\ n <= 1
      /\ lost' = lost + 1 /\ writer = "append" /\ writer' = "notify" /\ ~Ended /\ Ended'
      /\ UNCHANGED <<reader_count, line, seen, extra>>
  BY DEF OneW!PopRacing, Ended
<1>1. n \in {0, 1} /\ cleared \in Nat /\ lost \in Nat /\ line \in 0 .. Lines /\ Lines \in Nat
  <2>1. n \in Nat BY DEF OneInv, OneTypes
  <2>2. n \in {0, 1}
    <3> HIDE DEF n
    <3> QED BY <1>0, <2>1
  <2> QED BY <2>2 DEF OneInv, OneTypes
<1>2. OneTypes' BY <1>0, <1>1 DEF OneInv, OneTypes
<1>3. cleared' + Len(data_list') + lost' + InHand' = line' /\ Len(data_list') = 0
  <2>1. InHand = 1 /\ InHand' = 0 BY <1>0 DEF InHand
  <2>2. cleared + n + lost + InHand = line BY DEF OneInv, InThePool
  <2>3. Len(data_list') = 0 BY <1>0
  <2> QED BY <1>0, <1>1, <2>1, <2>2, <2>3
<1>4. InThePool' BY <1>0, <1>1, <1>3 DEF InThePool
<1>5. Counted'
  <2>1. \A l \in 1 .. cleared' : l \in 1 .. cleared \/ l = cleared + 1 BY <1>0, <1>1
  <2>2. \A l : Count(seen', extra', l) = Count(seen, extra, l) BY <1>0 DEF Count
  <2>3. Count(seen, extra, cleared + 1) = reader_count /\ \A l \in 1 .. cleared : Count(seen, extra, l) = reader_count
    BY <1>0 DEF OneInv, Counted
  <2> QED BY <1>0, <2>1, <2>2, <2>3 DEF Counted
<1> QED BY <1>2, <1>4, <1>5 DEF OneInv

\* Every step keeps it; the others touch none of this.
LEMMA OneKeeps == ASSUME ReadersCount PROVE OneInv /\ [Next]_all => OneInv'
<1> SUFFICES ASSUME OneInv, [OneW!Next]_oneVars PROVE OneInv' BY OneWOnly
<1>1. ASSUME UNCHANGED <<reader_count, data_list, stray, aready_read, cleared, lost, seen, extra>>,
             UNCHANGED <<line, writer>>, Ended' <=> Ended
      PROVE  OneInv'
  <2>1. line' \in 0 .. Lines /\ line' = line /\ InHand' = InHand BY <1>1 DEF OneInv, OneTypes, InHand
  <2> QED BY <1>1, <2>1, OneSame
<1>2. CASE UNCHANGED oneVars BY <1>1, <1>2 DEF oneVars, Ended
<1>3. CASE OneW!ClearWait \/ OneW!ClearSpurious \/ OneW!ClearNotify \/ OneW!ClearEnd
  BY <1>1, <1>3 DEF OneW!ClearWait, OneW!ClearSpurious, OneW!ClearNotify, OneW!ClearEnd, OneW!history, Ended
<1>4. ASSUME NEW r \in OneW!Readers, OneW!EnterWait(r) \/ OneW!SpuriousWakeup(r) \/ OneW!NotifyClear(r)
      PROVE  OneInv'
  BY <1>1, <1>4 DEF OneW!EnterWait, OneW!SpuriousWakeup, OneW!NotifyClear, OneW!history, Ended
<1> QED BY <1>2, <1>3, <1>4, OneWriterKeeps, OneReadKeeps, OnePopKeeps, OnePopNothingKeeps, OnePopRacingKeeps
     DEF OneW!Next

-----------------------------------------------------------------------------
(* 1w_nr, whatever the number of cores *)

Fin == INSTANCE FiniteSetTheorems

\* The readers are finitely many.
LEMMA CountsReaders == ReadersCount
<1>1. \A s : Size(s) = Fin!Cardinality(s) BY DEF Fin!Cardinality, OneW!Cardinality, Size
<1>2. Size({}) = 0 BY <1>1, Fin!FS_EmptySet, Zenon
<1> SUFFICES ASSUME NEW n \in Int, NEW s \in SUBSET (0 .. n - 1)
    PROVE  /\ Size(s) \in Nat
           /\ \A r \in 0 .. n - 1 : r \notin s => Size(s \cup {r}) = Size(s) + 1
           /\ Size(s) = n => s = 0 .. n - 1
  BY <1>2, Zenon DEF ReadersCount, Counts
<1> DEFINE I == 0 .. n - 1
<1>0. n - 1 \in Int /\ 0 \in Int OBVIOUS
<1>3. /\ Fin!IsFiniteSet(I)
      /\ Fin!Cardinality(I) = IF 0 > n - 1 THEN 0 ELSE (n - 1) - 0 + 1
  BY <1>0, Fin!FS_Interval, Zenon
<1>4. Fin!IsFiniteSet(s) BY <1>3, Fin!FS_Subset, Zenon
<1>5. Fin!Cardinality(s) \in Nat BY <1>4, Fin!FS_CardinalityType, Zenon
<1>6. \A r : r \notin s => Fin!Cardinality(s \cup {r}) = Fin!Cardinality(s) + 1 BY <1>4, Fin!FS_AddElement, Zenon
<1>7. Fin!Cardinality(s) = n => s = I
  <2> SUFFICES ASSUME Fin!Cardinality(s) = n PROVE s = I OBVIOUS
  <2>1. n >= 0 BY <1>5
  <2>3. Fin!Cardinality(I) = n
    <3> HIDE DEF I
    <3> QED BY <1>3, <2>1
  <2> QED BY <1>3, <2>3, Fin!FS_Subset, Zenon
<1> QED BY <1>1, <1>5, <1>6, <1>7, Zenon

\* For every file, warning line and number of cores, and although the writer appends
\* without the lock at the warning line and readers may read an empty pool: a line
\* of 1w_nr leaves the pool after exactly reader_count reads counted for it, so that
\* every reader has read it when none of these was a reader's second or one of the
\* empty pool; and an append loses a line only when clear ends.
THEOREM EveryReadCounted == Spec => []ReadsAccountedFor
<1>1. PoolInit => OneInv BY CountsReaders, OneStarts DEF PoolInit
<1>2. OneInv => ReadsAccountedFor
  <2> SUFFICES ASSUME OneInv PROVE OneW!ReadsAccountedFor BY DEF ReadsAccountedFor
  <2>0. /\ reader_count \in Int /\ cleared \in Nat /\ Lines \in Nat /\ cleared <= Lines
        /\ \A l \in 1 .. Lines + 1 : seen[l] \in SUBSET (0 .. reader_count - 1) /\ extra[l] \in Nat
    <3>1. Len(data_list) \in Nat /\ InHand \in Nat BY DEF OneInv, OneTypes, InHand
    <3> QED BY <3>1 DEF OneInv, OneTypes, InThePool
  <2>1. ASSUME NEW l \in 1 .. cleared PROVE OneW!Reads(l) = reader_count /\ (extra[l] = 0 => seen[l] = OneW!Readers)
    <3>1. OneW!Reads(l) = reader_count BY DEF OneInv, Counted, OneW!Reads, Count, Size
    <3>2. seen[l] \in SUBSET (0 .. reader_count - 1) BY <2>0
    <3>3. Size(seen[l]) \in Nat /\ (Size(seen[l]) = reader_count => seen[l] = 0 .. reader_count - 1)
      BY <2>0, <3>2, CountsReaders, Zenon DEF ReadersCount, Counts
    <3>4. extra[l] = 0 => Size(seen[l]) = reader_count BY <3>1, <3>3 DEF OneW!Reads, Size
    <3> QED BY <3>1, <3>3, <3>4 DEF OneW!Readers
  <2>2. lost > 0 => Ended BY DEF OneInv, InThePool
  <2>3. ASSUME ~Ended
        PROVE  /\ data_list # <<>> => Head(data_list) = cleared + 1
               /\ OneW!Reads(cleared + 1) = aready_read
               /\ \A l \in cleared + 2 .. Lines : OneW!Reads(l) = 0
    <3>1. data_list \in Seq(1 .. Lines) /\ lost = 0 BY <2>3 DEF OneInv, OneTypes, InThePool
    <3>2. ASSUME data_list # <<>> PROVE Head(data_list) = cleared + 1
      <4>1. 1 \in 1 .. Len(data_list) /\ Head(data_list) = data_list[1] BY <3>1, <3>2
      <4> QED BY <3>1, <4>1 DEF OneInv, InThePool
    <3>3. \A l \in cleared + 2 .. Lines : l \in cleared + 2 .. Lines + 1 BY <2>0
    <3> QED BY <2>3, <3>2, <3>3 DEF OneInv, Counted, OneW!Reads, Count, Size
  <2> QED BY <2>1, <2>2, <2>3 DEF OneW!ReadsAccountedFor, Ended
<1>3. OneInv /\ [Next]_all => OneInv' BY CountsReaders, OneKeeps
<1> QED BY <1>1, <1>2, <1>3, PTL DEF Spec
=============================================================================
