----------------------- MODULE StreamPrograms_proofs -----------------------
(***************************************************************************)
(* Proofs about the programs of StreamPrograms, for every value of the     *)
(* constants that StreamAssumption allows.  Every step of StreamNext is a  *)
(* step of one component and leaves the variables of the others alone, so  *)
(* that each component has an inductive invariant of its own.              *)
(***************************************************************************)
EXTENDS StreamPrograms, TLAPS

\* The provers tried on a leaf, in turn, and the time each of them gets.
USE SMTT(30), ZenonT(20), SMTT(31)

\* What a step of StreamNext is to placement.cpp.
LEMMA SharedOnly == [StreamNext]_all => [Shared!Next]_sharedVars
  BY DEF StreamNext, all, Copies, Quote, Echo, sharedVars

\* What it is to the stock server and its clients.
LEMMA QuotesOnly == [StreamNext]_all => [Quotes!Next]_quoteVars
  BY DEF StreamNext, all, Copies, Quote, Echo, quoteVars

\* What it is to the UDP server.
LEMMA UdpOnly == [StreamNext]_all => [Udp!Next]_udpVars
  BY DEF StreamNext, all, Copies, Quote, Echo, udpVars

-----------------------------------------------------------------------------
(* placement.cpp *)

\* What its proofs need of the constants: addresses are positive numbers, and
\* segments are numbered from 1.
LEMMA SharedConstants == MaxSegments \in Nat /\ Addresses \subseteq Nat \ {0}
  BY StreamAssumption

SharedTypes ==
    /\ segment \in [Shared!Segments -> {"none", "keyed", "doomed", "gone"}]
    /\ mapped \in [Shared!Processes -> [Addresses -> Shared!Segments \cup {0}]]
    /\ shm_id \in [Shared!Processes -> Shared!Segments \cup {0, Shared!Failed}]
    /\ shm_addr \in [Shared!Processes -> Addresses \cup {Shared!NULL, Shared!Failed}]
    /\ shm_object \in [Shared!Processes -> Addresses \cup {Shared!NULL, Shared!Failed}]
    /\ at \in [Shared!Processes -> {"CMD", "shmat", "shmctl", "crashed", "quit"}]
    /\ left \in [Shared!Processes -> SUBSET Shared!Segments]
    /\ freed \in [Shared!Processes -> SUBSET Addresses]

\* One segment at most is found under the key.
OneKeyed == \A s, t \in Shared!Segments : segment[s] = "keyed" /\ segment[t] = "keyed" => s = t

\* What is mapped or was left has been made, and what shmget found too.
Made ==
    \A p \in Shared!Processes :
        /\ \A a \in Addresses : mapped[p][a] # 0 => segment[mapped[p][a]] # "none"
        /\ \A s \in left[p] : segment[s] # "none"
        /\ at[p] = "shmat" => shm_id[p] \in Shared!Segments /\ segment[shm_id[p]] # "none"

\* What a process has mapped and can still be found is what its shm_id names: an
\* attach that gave it another shm_id found another segment under the key, or none.
NamesTheKeyed ==
    \A p \in Shared!Processes : \A a \in Addresses :
        mapped[p][a] # 0 /\ segment[mapped[p][a]] = "keyed" => mapped[p][a] = shm_id[p]

\* Pointers that are neither NULL nor (void *) -1 are valid until the process
\* detaches them.
PointersValid ==
    \A p \in Shared!Processes :
        at[p] \in {"CMD", "shmat", "shmctl"} =>
            \A x \in {shm_addr[p], shm_object[p]} :
                x \in Addresses => mapped[p][x] # 0 \/ x \in freed[p]

LeftInv == SharedTypes /\ OneKeyed /\ Made /\ NamesTheKeyed /\ Shared!NothingLeft

-----------------------------------------------------------------------------
\* A removal takes segments from doomed to gone and does nothing else.
LEMMA ReapType ==
    ASSUME NEW seg \in [Shared!Segments -> {"none", "keyed", "doomed", "gone"}], NEW m
    PROVE  /\ Shared!Reap(seg, m) \in [Shared!Segments -> {"none", "keyed", "doomed", "gone"}]
           /\ \A s \in Shared!Segments : (Shared!Reap(seg, m)[s] = "keyed") = (seg[s] = "keyed")
           /\ \A s \in Shared!Segments : (Shared!Reap(seg, m)[s] = "none") = (seg[s] = "none")
  BY DEF Shared!Reap

\* At first there is no segment and nobody holds one.
LEMMA LeftInit == ASSUME Shared!Init PROVE LeftInv
  BY SharedConstants DEF Shared!Init, LeftInv, SharedTypes, OneKeyed, Made, NamesTheKeyed, Shared!NothingLeft, Shared!NULL, Shared!Failed

\* The end of a process: its mappings become empty, nothing is keyed anew.
LEMMA LeftEnds ==
    ASSUME LeftInv, NEW p \in Shared!Processes, NEW how \in {"crashed", "quit"},
           at[p] = "CMD", Shared!Ends(p, how)
    PROVE  LeftInv'
<1> DEFINE m == [mapped EXCEPT ![p] = [a \in Addresses |-> 0]]
<1>1. /\ m \in [Shared!Processes -> [Addresses -> Shared!Segments \cup {0}]]
      /\ \A q \in Shared!Processes : \A a \in Addresses : m[q][a] # 0 => q # p /\ m[q][a] = mapped[q][a]
  BY DEF LeftInv, SharedTypes
<1>2. mapped' = m /\ segment' = Shared!Reap(segment, m) /\ at' = [at EXCEPT ![p] = how]
      /\ UNCHANGED <<shm_id, shm_addr, shm_object, left, freed>>
  BY DEF Shared!Ends, Shared!Go
<1> HIDE DEF m
<1>3. /\ segment' \in [Shared!Segments -> {"none", "keyed", "doomed", "gone"}]
      /\ \A s \in Shared!Segments : (segment'[s] = "keyed") = (segment[s] = "keyed")
      /\ \A s \in Shared!Segments : (segment'[s] = "none") = (segment[s] = "none")
  BY <1>2, ReapType DEF LeftInv, SharedTypes
<1>4. SharedTypes'
  BY <1>1, <1>2, <1>3 DEF LeftInv, SharedTypes
<1>5. OneKeyed' /\ Shared!NothingLeft'
  BY <1>2, <1>3 DEF LeftInv, SharedTypes, OneKeyed, Shared!NothingLeft
<1>6. Made'
  BY <1>1, <1>2, <1>3 DEF LeftInv, SharedTypes, Made
<1>7. NamesTheKeyed'
  BY <1>1, <1>2, <1>3 DEF LeftInv, SharedTypes, NamesTheKeyed
<1> QED BY <1>4, <1>5, <1>6, <1>7 DEF LeftInv
\* attach, first half: a segment that is found is the keyed one, a new one has a
\* number that is neither mapped nor left, and a client finds nothing only where
\* nothing is keyed.
LEMMA LeftShmget ==
    ASSUME LeftInv, NEW p \in Shared!Processes, Shared!shmget(p) PROVE LeftInv'
<1>1. ASSUME NEW s \in Shared!Segments, segment[s] = "keyed", UNCHANGED segment,
             shm_id' = [shm_id EXCEPT ![p] = s], at[p] = "CMD", Shared!Go(p, "shmat"),
             UNCHANGED <<mapped, shm_addr, shm_object, left, freed>>
      PROVE  LeftInv'
  <2>1. SharedTypes' BY <1>1 DEF LeftInv, SharedTypes, Shared!Go
  <2>2. OneKeyed' /\ Shared!NothingLeft' BY <1>1 DEF LeftInv, SharedTypes, OneKeyed, Shared!NothingLeft, Shared!Go
  <2>3. Made' BY <1>1 DEF LeftInv, SharedTypes, Made, Shared!Go
  <2>4. NamesTheKeyed' BY <1>1 DEF LeftInv, SharedTypes, NamesTheKeyed, OneKeyed
  <2> QED BY <2>1, <2>2, <2>3, <2>4 DEF LeftInv
<1>2. ASSUME NEW s \in Shared!Segments, segment[s] = "none",
             \A t \in Shared!Segments : segment[t] # "keyed",
             segment' = [segment EXCEPT ![s] = "keyed"],
             shm_id' = [shm_id EXCEPT ![p] = s], at[p] = "CMD", Shared!Go(p, "shmat"),
             UNCHANGED <<mapped, shm_addr, shm_object, left, freed>>
      PROVE  LeftInv'
  <2>1. SharedTypes' BY <1>2 DEF LeftInv, SharedTypes, Shared!Go
  <2>2. OneKeyed' BY <1>2 DEF LeftInv, SharedTypes, OneKeyed
  <2>3. Shared!NothingLeft' BY <1>2 DEF LeftInv, SharedTypes, Shared!NothingLeft, Made, Shared!Go
  <2>4. Made' BY <1>2 DEF LeftInv, SharedTypes, Made, Shared!Go
  <2>5. NamesTheKeyed' BY <1>2 DEF LeftInv, SharedTypes, NamesTheKeyed, Made
  <2> QED BY <2>1, <2>2, <2>3, <2>4, <2>5 DEF LeftInv
<1>3. ASSUME \A s \in Shared!Segments : segment[s] # "keyed",
             shm_id' = [shm_id EXCEPT ![p] = Shared!Failed],
             UNCHANGED <<segment, at, mapped, shm_addr, shm_object, left, freed>>, at[p] = "CMD"
      PROVE  LeftInv'
  <2>1. SharedTypes' BY <1>3 DEF LeftInv, SharedTypes
  <2>2. OneKeyed' /\ Shared!NothingLeft' BY <1>3 DEF LeftInv, SharedTypes, OneKeyed, Shared!NothingLeft
  <2>3. Made' BY <1>3 DEF LeftInv, SharedTypes, Made
  <2>4. NamesTheKeyed' BY <1>3 DEF LeftInv, SharedTypes, NamesTheKeyed
  <2> QED BY <2>1, <2>2, <2>3, <2>4 DEF LeftInv
<1> QED BY <1>1, <1>2, <1>3 DEF Shared!shmget

\* attach, second half: what it maps is what shm_id names.
LEMMA LeftShmat ==
    ASSUME LeftInv, NEW p \in Shared!Processes, Shared!shmat(p) PROVE LeftInv'
<1>1. shm_id[p] \in Shared!Segments /\ segment[shm_id[p]] # "none" /\ UNCHANGED <<segment, shm_id, shm_object, left>>
      /\ at[p] = "shmat" /\ at' = [at EXCEPT ![p] = "CMD"]
  BY DEF Shared!shmat, LeftInv, Made, Shared!Go
<1>2. CASE segment[shm_id[p]] = "gone"
  <2>1. shm_addr' = [shm_addr EXCEPT ![p] = Shared!Failed] /\ UNCHANGED <<mapped, freed>> BY <1>2 DEF Shared!shmat
  <2>2. SharedTypes' BY <1>1, <2>1 DEF LeftInv, SharedTypes
  <2>3. OneKeyed' /\ Shared!NothingLeft' /\ NamesTheKeyed'
    BY <1>1, <2>1 DEF LeftInv, SharedTypes, OneKeyed, Shared!NothingLeft, NamesTheKeyed
  <2>4. Made' BY <1>1, <2>1 DEF LeftInv, SharedTypes, Made
  <2> QED BY <2>2, <2>3, <2>4 DEF LeftInv
<1>3. CASE segment[shm_id[p]] # "gone"
  <2>1. PICK a \in Addresses : /\ mapped' = [mapped EXCEPT ![p][a] = shm_id[p]]
                               /\ freed' = [freed EXCEPT ![p] = @ \ {a}]
                               /\ shm_addr' = [shm_addr EXCEPT ![p] = a]
    BY <1>3 DEF Shared!shmat
  <2>2. SharedTypes' BY <1>1, <2>1 DEF LeftInv, SharedTypes
  <2>3. OneKeyed' /\ Shared!NothingLeft' BY <1>1 DEF LeftInv, SharedTypes, OneKeyed, Shared!NothingLeft
  <2>4. Made' BY <1>1, <2>1 DEF LeftInv, SharedTypes, Made
  <2>5. NamesTheKeyed' BY <1>1, <2>1 DEF LeftInv, SharedTypes, NamesTheKeyed
  <2> QED BY <2>2, <2>3, <2>4, <2>5 DEF LeftInv
<1> QED BY <1>2, <1>3

\* dettach, first half: the segment left is not keyed, or is the one that shm_id
\* names.
LEMMA LeftShmdt ==
    ASSUME LeftInv, NEW p \in Shared!Processes, Shared!shmdt(p) PROVE LeftInv'
<1> DEFINE m == [mapped EXCEPT ![p][shm_addr[p]] = 0]
           gone == mapped[p][shm_addr[p]]
<1>1. /\ shm_addr[p] \in Addresses /\ gone # 0 /\ gone \in Shared!Segments
      /\ m \in [Shared!Processes -> [Addresses -> Shared!Segments \cup {0}]]
      /\ \A q \in Shared!Processes : \A a \in Addresses : m[q][a] # 0 => m[q][a] = mapped[q][a]
  BY DEF Shared!shmdt, Shared!Valid, LeftInv, SharedTypes
<1>2. /\ mapped' = m /\ segment' = Shared!Reap(segment, m)
      /\ left' = [left EXCEPT ![p] = @ \cup {gone}]
      /\ freed' = [freed EXCEPT ![p] = @ \cup {shm_addr[p]}]
      /\ at[p] = "CMD" /\ at' = [at EXCEPT ![p] = "shmctl"]
      /\ UNCHANGED <<shm_id, shm_addr, shm_object>>
  BY DEF Shared!shmdt, Shared!Unmap, Shared!Go
<1>3. segment[gone] # "none" /\ (segment[gone] = "keyed" => gone = shm_id[p])
  BY <1>1 DEF LeftInv, Made, NamesTheKeyed
<1> HIDE DEF m, gone
<1>4. /\ segment' \in [Shared!Segments -> {"none", "keyed", "doomed", "gone"}]
      /\ \A s \in Shared!Segments : (segment'[s] = "keyed") = (segment[s] = "keyed")
      /\ \A s \in Shared!Segments : (segment'[s] = "none") = (segment[s] = "none")
  BY <1>2, ReapType DEF LeftInv, SharedTypes
<1>5. SharedTypes' BY <1>1, <1>2, <1>4 DEF LeftInv, SharedTypes
<1>6. OneKeyed' BY <1>4 DEF LeftInv, OneKeyed
<1>7. Made' BY <1>1, <1>2, <1>3, <1>4 DEF LeftInv, SharedTypes, Made
<1>8. NamesTheKeyed' BY <1>1, <1>2, <1>4 DEF LeftInv, SharedTypes, NamesTheKeyed
<1>9. Shared!NothingLeft' BY <1>1, <1>2, <1>3, <1>4 DEF LeftInv, SharedTypes, Shared!NothingLeft
<1> QED BY <1>5, <1>6, <1>7, <1>8, <1>9 DEF LeftInv

\* dettach, second half: what shm_id names is not keyed any more.
LEMMA LeftShmctl ==
    ASSUME LeftInv, NEW p \in Shared!Processes, Shared!shmctl(p) PROVE LeftInv'
<1> DEFINE seg == [s \in Shared!Segments |->
                     IF s = shm_id[p] /\ segment[s] = "keyed" THEN "doomed" ELSE segment[s]]
<1>1. /\ seg \in [Shared!Segments -> {"none", "keyed", "doomed", "gone"}]
      /\ \A s \in Shared!Segments : seg[s] = "keyed" => segment[s] = "keyed" /\ s # shm_id[p]
      /\ \A s \in Shared!Segments : (seg[s] = "none") = (segment[s] = "none")
  BY DEF LeftInv, SharedTypes
<1>2. /\ segment' = Shared!Reap(seg, mapped)
      /\ at[p] = "shmctl" /\ at' = [at EXCEPT ![p] = "CMD"]
      /\ UNCHANGED <<mapped, shm_id, shm_addr, shm_object, left, freed>>
  BY DEF Shared!shmctl, Shared!Go
<1> HIDE DEF seg
<1>3. /\ segment' \in [Shared!Segments -> {"none", "keyed", "doomed", "gone"}]
      /\ \A s \in Shared!Segments : segment'[s] = "keyed" => segment[s] = "keyed" /\ s # shm_id[p]
      /\ \A s \in Shared!Segments : (segment'[s] = "none") = (segment[s] = "none")
  BY <1>1, <1>2, ReapType
<1>4. SharedTypes' BY <1>2, <1>3 DEF LeftInv, SharedTypes
<1>5. OneKeyed' BY <1>3 DEF LeftInv, OneKeyed
<1>6. Made' BY <1>2, <1>3 DEF LeftInv, SharedTypes, Made
<1>7. NamesTheKeyed' BY <1>2, <1>3 DEF LeftInv, SharedTypes, NamesTheKeyed
<1>8. Shared!NothingLeft' BY <1>2, <1>3 DEF LeftInv, SharedTypes, Shared!NothingLeft
<1> QED BY <1>4, <1>5, <1>6, <1>7, <1>8 DEF LeftInv

\* create puts an object into a segment and changes none.
LEMMA LeftCreate ==
    ASSUME LeftInv, NEW p \in Shared!Processes, Shared!create(p) PROVE LeftInv'
<1>1. CASE Shared!Ends(p, "crashed") BY <1>1, LeftEnds DEF Shared!create
<1>2. CASE /\ shm_object' = [shm_object EXCEPT ![p] = shm_addr[p]]
           /\ UNCHANGED <<segment, mapped, shm_id, shm_addr, at, left, freed>>
  <2>1. SharedTypes' BY <1>2 DEF LeftInv, SharedTypes
  <2>2. OneKeyed' /\ Made' /\ NamesTheKeyed' /\ Shared!NothingLeft'
    BY <1>2 DEF LeftInv, OneKeyed, Made, NamesTheKeyed, Shared!NothingLeft
  <2> QED BY <2>1, <2>2 DEF LeftInv
<1> QED BY <1>1, <1>2 DEF Shared!create

\* Every step keeps what is known of keys and segments.
LEMMA LeftNext == ASSUME LeftInv, [Shared!Next]_sharedVars PROVE LeftInv'
<1>1. CASE Shared!Next
  <2>1. PICK p \in Shared!Processes : Shared!shmget(p) \/ Shared!shmat(p) \/ Shared!shmdt(p) \/ Shared!shmctl(p) \/ Shared!create(p) \/ Shared!use(p) \/ Shared!quit(p)
    BY <1>1 DEF Shared!Next
  <2>2. CASE Shared!use(p) BY <2>2, LeftEnds DEF Shared!use
  <2>3. CASE Shared!quit(p) BY <2>3, LeftEnds DEF Shared!quit
  <2> QED BY <2>1, <2>2, <2>3, LeftShmget, LeftShmat, LeftShmdt, LeftShmctl, LeftCreate
<1>2. CASE UNCHANGED sharedVars
  BY <1>2 DEF sharedVars, LeftInv, SharedTypes, OneKeyed, Made, NamesTheKeyed, Shared!NothingLeft
<1> QED BY <1>1, <1>2

\* A segment that some process has dettached from is not found under the key again
\* once its dettach has returned: dettach removes by shm_id and unmaps by shm_addr,
\* and where the two name different segments the mapped one has been removed before.
THEOREM DetachedIsRemoved == StreamSpec => []NothingLeft
<1>1. StreamInit => LeftInv BY LeftInit DEF StreamInit
<1>2. LeftInv /\ [StreamNext]_all => LeftInv' BY SharedOnly, LeftNext
<1>3. LeftInv => NothingLeft BY DEF LeftInv, NothingLeft
<1> QED BY <1>1, <1>2, <1>3, PTL DEF StreamSpec
-----------------------------------------------------------------------------
FaultInv == LeftInv /\ PointersValid /\ Shared!OwnFault

\* A process that ends on an invalid pointer has spoiled it itself.
LEMMA FaultEnds ==
    ASSUME FaultInv, LeftInv', NEW p \in Shared!Processes, at[p] = "CMD",
           NEW how \in {"crashed", "quit"}, Shared!Ends(p, how),
           how = "crashed" =>
               \/ p \in Servers /\ ~Shared!Valid(p, shm_addr[p])
               \/ shm_object[p] # Shared!NULL /\ ~Shared!Valid(p, shm_object[p])
    PROVE  FaultInv'
<1>1. /\ at' = [at EXCEPT ![p] = how] /\ UNCHANGED <<shm_addr, shm_object, left, freed>>
      /\ mapped' = [mapped EXCEPT ![p] = [a \in Addresses |-> 0]]
  BY DEF Shared!Ends, Shared!Go
<1>2. PointersValid'
  BY <1>1 DEF FaultInv, LeftInv, SharedTypes, PointersValid
<1>3. how = "crashed" => \/ {shm_addr[p], shm_object[p]} \cap freed[p] # {}
                         \/ Shared!Failed \in {shm_addr[p], shm_object[p]}
                         \/ p \in Servers /\ shm_addr[p] = Shared!NULL
  BY DEF FaultInv, LeftInv, SharedTypes, PointersValid, Shared!Valid
<1>4. Shared!OwnFault'
  BY <1>1, <1>3 DEF FaultInv, LeftInv, SharedTypes, Shared!OwnFault
<1> QED BY <1>2, <1>4 DEF FaultInv

\* Every step keeps a pointer valid or its process to blame.
LEMMA FaultNext == ASSUME FaultInv, [Shared!Next]_sharedVars PROVE FaultInv'
<1>1. LeftInv' BY LeftNext DEF FaultInv
<1>2. CASE UNCHANGED sharedVars
  BY <1>1, <1>2 DEF sharedVars, FaultInv, PointersValid, Shared!OwnFault
<1>3. ASSUME NEW p \in Shared!Processes, Shared!shmget(p) PROVE FaultInv'
  <2>1. UNCHANGED <<mapped, shm_addr, shm_object, left, freed>> /\ at[p] = "CMD"
        /\ (at' = [at EXCEPT ![p] = "shmat"] \/ UNCHANGED at)
    BY <1>3 DEF Shared!shmget, Shared!Go
  <2>2. PointersValid' BY <2>1 DEF FaultInv, LeftInv, SharedTypes, PointersValid
  <2>3. Shared!OwnFault' BY <2>1 DEF FaultInv, LeftInv, SharedTypes, Shared!OwnFault
  <2> QED BY <1>1, <2>2, <2>3 DEF FaultInv
<1>4. ASSUME NEW p \in Shared!Processes, Shared!shmat(p) PROVE FaultInv'
  <2>1. /\ at[p] = "shmat" /\ at' = [at EXCEPT ![p] = "CMD"]
        /\ UNCHANGED <<shm_object, left>> /\ shm_id[p] \in Shared!Segments
    BY <1>4 DEF Shared!shmat, Shared!Go, FaultInv, LeftInv, Made
  <2>2. \/ shm_addr' = [shm_addr EXCEPT ![p] = Shared!Failed] /\ UNCHANGED <<mapped, freed>>
        \/ \E a \in Addresses : /\ mapped' = [mapped EXCEPT ![p][a] = shm_id[p]]
                                /\ freed' = [freed EXCEPT ![p] = @ \ {a}]
                                /\ shm_addr' = [shm_addr EXCEPT ![p] = a]
    BY <1>4 DEF Shared!shmat
  <2>3. shm_id[p] # 0 /\ Shared!Failed \notin Addresses
    BY <2>1, SharedConstants DEF Shared!Segments, Shared!Failed
  <2>4. PointersValid' BY <2>1, <2>2, <2>3 DEF FaultInv, LeftInv, SharedTypes, PointersValid
  <2>5. Shared!OwnFault' BY <2>1, <2>2 DEF FaultInv, LeftInv, SharedTypes, Shared!OwnFault
  <2> QED BY <1>1, <2>4, <2>5 DEF FaultInv
<1>5. ASSUME NEW p \in Shared!Processes, Shared!shmdt(p) PROVE FaultInv'
  <2>1. /\ at[p] = "CMD" /\ at' = [at EXCEPT ![p] = "shmctl"] /\ UNCHANGED <<shm_addr, shm_object>>
        /\ mapped' = [mapped EXCEPT ![p][shm_addr[p]] = 0]
        /\ freed' = [freed EXCEPT ![p] = @ \cup {shm_addr[p]}]
    BY <1>5 DEF Shared!shmdt, Shared!Unmap, Shared!Go
  <2>2. PointersValid' BY <2>1 DEF FaultInv, LeftInv, SharedTypes, PointersValid
  <2>3. Shared!OwnFault' BY <2>1 DEF FaultInv, LeftInv, SharedTypes, Shared!OwnFault
  <2> QED BY <1>1, <2>2, <2>3 DEF FaultInv
<1>6. ASSUME NEW p \in Shared!Processes, Shared!shmctl(p) PROVE FaultInv'
  <2>1. /\ at[p] = "shmctl" /\ at' = [at EXCEPT ![p] = "CMD"]
        /\ UNCHANGED <<mapped, shm_addr, shm_object, freed>>
    BY <1>6 DEF Shared!shmctl, Shared!Go
  <2>2. PointersValid' BY <2>1 DEF FaultInv, LeftInv, SharedTypes, PointersValid
  <2>3. Shared!OwnFault' BY <2>1 DEF FaultInv, LeftInv, SharedTypes, Shared!OwnFault
  <2> QED BY <1>1, <2>2, <2>3 DEF FaultInv
<1>7. ASSUME NEW p \in Shared!Processes, Shared!create(p) PROVE FaultInv'
  <2>1. CASE p \in Servers /\ ~Shared!Valid(p, shm_addr[p])
    BY <1>1, <1>7, <2>1, FaultEnds DEF Shared!create
  <2>2. CASE ~(p \in Servers /\ ~Shared!Valid(p, shm_addr[p]))
    <3>1. /\ at[p] = "CMD" /\ shm_object' = [shm_object EXCEPT ![p] = shm_addr[p]]
          /\ UNCHANGED <<mapped, shm_addr, at, left, freed>>
      BY <1>7, <2>2 DEF Shared!create
    <3>2. PointersValid' BY <3>1 DEF FaultInv, LeftInv, SharedTypes, PointersValid
    <3>3. Shared!OwnFault' BY <3>1 DEF FaultInv, LeftInv, SharedTypes, Shared!OwnFault
    <3> QED BY <1>1, <3>2, <3>3 DEF FaultInv
  <2> QED BY <2>1, <2>2
<1>8. ASSUME NEW p \in Shared!Processes, Shared!use(p) \/ Shared!quit(p) PROVE FaultInv'
  BY <1>1, <1>8, FaultEnds DEF Shared!use, Shared!quit
<1> QED BY <1>2, <1>3, <1>4, <1>5, <1>6, <1>7, <1>8 DEF Shared!Next

\* Whatever the other processes do, a process crashes only on an address it has
\* detached itself, after ignoring a failing shmat, or by creating an object before
\* attaching.
THEOREM CrashIsOwnFault == StreamSpec => []OwnFault
<1>1. StreamInit => FaultInv
  <2> SUFFICES ASSUME StreamInit PROVE FaultInv OBVIOUS
  <2>1. Shared!Init BY DEF StreamInit
  <2>2. PointersValid /\ Shared!OwnFault
    BY <2>1, SharedConstants DEF Shared!Init, PointersValid, Shared!OwnFault, Shared!NULL
  <2> QED BY <2>1, <2>2, LeftInit DEF FaultInv
<1>2. FaultInv /\ [StreamNext]_all => FaultInv' BY SharedOnly, FaultNext
<1>3. FaultInv => OwnFault BY DEF FaultInv, OwnFault
<1> QED BY <1>1, <1>2, <1>3, PTL DEF StreamSpec

-----------------------------------------------------------------------------
(* demo.cpp *)

\* What its proofs need of the constants.
LEMMA UdpConstants == max_length \in Nat \ {0}
  BY StreamAssumption

UdpTypes ==
    /\ arrivals \in Seq(Senders \X Nat) /\ fetched \in 0 .. Len(arrivals)
    /\ replies \in Seq(Senders \X Seq(Nat))

\* While something is being sent nothing is received: it is the datagram received
\* last, still in the buffer, to the client it came from, and is not answered yet.
Turns ==
    sending # {} =>
        /\ ~receiving /\ fetched > 0 /\ Udp!Received(fetched) > 0
        /\ sending = {<<arrivals[fetched][1], Udp!Received(fetched)>>}
        /\ \A i \in 1 .. Udp!Received(fetched) : data_[i] = fetched
        /\ \A i \in DOMAIN replies : replies[i][2][1] < fetched

\* What was answered has been received.
Latest == \A i \in DOMAIN replies : replies[i][2][1] <= fetched

UdpInv == UdpTypes /\ Turns /\ Latest /\ Udp!EchoesGoHome

\* What Append does, element by element.
LEMMA Appended ==
    ASSUME NEW S, NEW s \in Seq(S), NEW x \in S
    PROVE  /\ Append(s, x) \in Seq(S)
           /\ DOMAIN Append(s, x) = 1 .. Len(s) + 1 /\ DOMAIN s = 1 .. Len(s) /\ Len(s) \in Nat
           /\ \A i \in DOMAIN s : Append(s, x)[i] = s[i]
           /\ Append(s, x)[Len(s) + 1] = x
  OBVIOUS

\* The length received of a datagram and what it is answered are fixed when it comes.
LEMMA ReceivedIs ==
    ASSUME UdpTypes, NEW n \in 1 .. Len(arrivals)
    PROVE  /\ Udp!Received(n) \in 0 .. max_length
           /\ arrivals[n] \in Senders \X Nat
           /\ Udp!Answer(n) \in Senders \X Seq(Nat)
           /\ Udp!Received(n) > 0 => Udp!Answer(n)[2][1] = n
<1>1. arrivals[n] \in Senders \X Nat BY DEF UdpTypes
<1>2. Udp!Received(n) \in 0 .. max_length BY <1>1, UdpConstants DEF Udp!Received
<1> DEFINE b == [i \in 1 .. Udp!Received(n) |-> n]
<1>4. b \in Seq(Nat) BY <1>2, UdpConstants DEF UdpTypes
<1>5. Udp!Received(n) > 0 => b[1] = n BY <1>2, UdpConstants
<1>6. Udp!Answer(n) = <<arrivals[n][1], b>> BY DEF Udp!Answer
<1> HIDE DEF b
<1> QED BY <1>1, <1>2, <1>4, <1>5, <1>6

\* A datagram that comes changes nothing about those before it.
LEMMA ArriveKeeps ==
    ASSUME UdpInv, NEW s \in Senders, NEW size \in Nat, Udp!Arrive(s, size) PROVE UdpInv'
<1> DEFINE d == <<s, size>>
<1> USE DEF UdpInv
<1>1. d \in Senders \X Nat OBVIOUS
<1>2. arrivals' = Append(arrivals, d) /\ UNCHANGED <<fetched, receiving, sending, data_, replies>>
  BY DEF Udp!Arrive
<1> HIDE DEF d
<1>3. /\ arrivals' \in Seq(Senders \X Nat)
      /\ DOMAIN arrivals' = 1 .. Len(arrivals) + 1 /\ DOMAIN arrivals = 1 .. Len(arrivals) /\ Len(arrivals) \in Nat
      /\ \A i \in DOMAIN arrivals : arrivals'[i] = arrivals[i]
  BY <1>1, <1>2, Appended DEF UdpTypes
<1>4. Len(arrivals') = Len(arrivals) + 1 BY <1>1, <1>2 DEF UdpTypes
<1>5. UdpTypes' BY <1>2, <1>3, <1>4 DEF UdpTypes
<1>6. \A n \in 1 .. fetched : arrivals'[n] = arrivals[n]
  <2>1. \A n \in 1 .. fetched : n \in 1 .. Len(arrivals) BY <1>3 DEF UdpTypes
  <2> QED BY <1>3, <2>1, Zenon
<1>7. \A n \in 1 .. fetched : Udp!Received(n)' = Udp!Received(n) BY <1>6 DEF Udp!Received
<1>8. \A n \in 1 .. fetched : Udp!Answer(n)' = Udp!Answer(n) BY <1>6, <1>7 DEF Udp!Answer
<1>9. Turns'
  <2> SUFFICES ASSUME sending # {} PROVE Turns' BY <1>2, Zenon DEF Turns
  <2>1. fetched \in 1 .. fetched BY DEF Turns, UdpTypes
  <2>2. arrivals'[fetched] = arrivals[fetched] /\ Udp!Received(fetched)' = Udp!Received(fetched)
    <3>1. arrivals'[fetched] = arrivals[fetched] BY <1>6, <2>1
    <3> QED BY <1>2, <3>1 DEF Udp!Received
  <2> QED BY <1>2, <2>2 DEF Turns
<1>10. Latest' BY <1>2 DEF Latest
<1>11. Udp!EchoesGoHome'
  BY <1>2, <1>7, <1>8 DEF Udp!EchoesGoHome
<1> QED BY <1>5, <1>9, <1>10, <1>11

\* The next datagram is taken into a buffer that nothing is being sent from.
LEMMA ReceiveKeeps == ASSUME UdpInv, Udp!do_receive PROVE UdpInv'
<1> DEFINE n == fetched + 1
<1> USE DEF UdpInv
<1>1. /\ n \in DOMAIN arrivals /\ fetched' = n /\ receiving
      /\ data_' = [i \in 1 .. max_length |-> IF i <= Udp!Received(n) THEN n ELSE data_[i]]
      /\ UNCHANGED <<arrivals, replies>>
  BY DEF Udp!do_receive, Udp!Receive
<1>2. n \in 1 .. Len(arrivals) /\ fetched < n /\ n > 0 BY <1>1 DEF UdpTypes
<1>3. sending = {} BY <1>1 DEF Turns
<1>4. \/ /\ Udp!Received(n) > 0 /\ ~receiving'
         /\ sending' = {<<arrivals[n][1], Udp!Received(n)>>}
      \/ sending' = {} /\ receiving' = receiving
  BY <1>1, <1>3, Zenon DEF Udp!do_receive
<1> HIDE DEF n
<1>5. Udp!Received(n) \in 0 .. max_length BY <1>2, ReceivedIs
<1>6. \A i \in 1 .. Udp!Received(n) : data_'[i] = n BY <1>1, <1>5, UdpConstants
<1>7. UdpTypes' BY <1>1, <1>2, <1>4 DEF UdpTypes
<1>8. \A i \in DOMAIN replies : replies[i][2][1] < n
  <2> SUFFICES ASSUME NEW i \in DOMAIN replies PROVE replies[i][2][1] < n OBVIOUS
  <2>1. replies[i][2][1] <= fetched BY DEF Latest
  <2>2. PICK k \in 1 .. fetched : Udp!Received(k) > 0 /\ replies[i] = Udp!Answer(k) BY DEF Udp!EchoesGoHome
  <2>3. replies[i][2][1] = k BY <2>2, ReceivedIs DEF UdpTypes
  <2> QED BY <1>2, <2>2, <2>3 DEF UdpTypes
<1>9. \A k : Udp!Received(k)' = Udp!Received(k) /\ Udp!Answer(k)' = Udp!Answer(k)
  BY <1>1 DEF Udp!Received, Udp!Answer
<1>10. Turns'
  <2> SUFFICES ASSUME sending' # {} PROVE Turns' BY DEF Turns
  <2>1. Udp!Received(fetched)' = Udp!Received(n) BY <1>1 DEF Udp!Received
  <2> QED BY <1>1, <1>2, <1>4, <1>6, <1>8, <2>1, Zenon DEF Turns
<1>11. Latest'
  <2> SUFFICES ASSUME NEW i \in DOMAIN replies PROVE replies[i][2][1] <= n BY <1>1 DEF Latest
  <2>1. PICK k \in 1 .. fetched : Udp!Received(k) > 0 /\ replies[i] = Udp!Answer(k) BY DEF Udp!EchoesGoHome
  <2>2. replies[i][2][1] = k BY <2>1, ReceivedIs DEF UdpTypes
  <2> QED BY <1>2, <2>1, <2>2 DEF UdpTypes
<1>12. Udp!EchoesGoHome'
  <2>1. \A k \in 1 .. fetched : k \in 1 .. n BY <1>2 DEF UdpTypes
  <2> QED BY <1>1, <1>9, <2>1 DEF Udp!EchoesGoHome
<1> QED BY <1>7, <1>10, <1>11, <1>12

\* What is sent is the right answer to the datagram received last, or nothing.
LEMMA SendKeeps == ASSUME UdpInv, Udp!do_send PROVE UdpInv'
<1> USE DEF UdpInv
<1>1. PICK o \in sending :
          /\ \/ replies' = Append(replies, <<o[1], [i \in 1 .. o[2] |-> data_[i]]>>)
             \/ UNCHANGED replies
          /\ sending' = sending \ {o} /\ receiving' = TRUE
          /\ UNCHANGED <<arrivals, fetched, data_>>
  BY Zenon DEF Udp!do_send
<1>2. /\ fetched \in 1 .. Len(arrivals) /\ Udp!Received(fetched) > 0
      /\ o = <<arrivals[fetched][1], Udp!Received(fetched)>>
      /\ \A i \in 1 .. Udp!Received(fetched) : data_[i] = fetched
      /\ \A i \in DOMAIN replies : replies[i][2][1] < fetched
      /\ sending' = {}
  <2>1. sending # {} BY <1>1
  <2>2. /\ Udp!Received(fetched) > 0 /\ fetched > 0
        /\ sending = {<<arrivals[fetched][1], Udp!Received(fetched)>>}
        /\ \A i \in 1 .. Udp!Received(fetched) : data_[i] = fetched
        /\ \A i \in DOMAIN replies : replies[i][2][1] < fetched
    BY <2>1, Zenon DEF Turns
  <2>3. fetched \in 1 .. Len(arrivals) BY <2>2 DEF UdpTypes
  <2>4. o = <<arrivals[fetched][1], Udp!Received(fetched)>> /\ sending' = {} BY <1>1, <2>2, Zenon
  <2> QED BY <2>2, <2>3, <2>4, Zenon
<1>3. \A k : Udp!Received(k)' = Udp!Received(k) /\ Udp!Answer(k)' = Udp!Answer(k)
  BY <1>1 DEF Udp!Received, Udp!Answer
<1>4. Turns' BY <1>2 DEF Turns
<1>5. CASE UNCHANGED replies
  <2>1. UdpTypes' BY <1>1, <1>5 DEF UdpTypes
  <2>2. Latest' BY <1>1, <1>5 DEF Latest
  <2>3. Udp!EchoesGoHome' BY <1>1, <1>3, <1>5 DEF Udp!EchoesGoHome
  <2> QED BY <1>4, <2>1, <2>2, <2>3
<1>6. CASE replies' = Append(replies, <<o[1], [i \in 1 .. o[2] |-> data_[i]]>>)
  <2> DEFINE a == Udp!Answer(fetched)
  <2>1. replies' = Append(replies, a) BY <1>2, <1>6, Zenon DEF Udp!Answer
  <2>2. a \in Senders \X Seq(Nat) /\ a[2][1] = fetched BY <1>2, ReceivedIs
  <2> HIDE DEF a
  <2>3. /\ replies' \in Seq(Senders \X Seq(Nat))
        /\ DOMAIN replies' = 1 .. Len(replies) + 1 /\ DOMAIN replies = 1 .. Len(replies) /\ Len(replies) \in Nat
        /\ \A i \in DOMAIN replies : replies'[i] = replies[i]
        /\ replies'[Len(replies) + 1] = a
    BY <2>1, <2>2, Appended DEF UdpTypes
  <2>4. UdpTypes' BY <1>1, <2>3 DEF UdpTypes
  <2>5. \A i \in DOMAIN replies' : i \in DOMAIN replies \/ i = Len(replies) + 1 BY <2>3
  <2>6. Latest'
    <3> SUFFICES ASSUME NEW i \in DOMAIN replies' PROVE replies'[i][2][1] <= fetched BY <1>1 DEF Latest
    <3>1. CASE i \in DOMAIN replies BY <2>3, <3>1 DEF Latest
    <3>2. CASE i = Len(replies) + 1 BY <1>2, <2>2, <2>3, <3>2
    <3> QED BY <2>5, <3>1, <3>2
  <2>7. Udp!EchoesGoHome'
    <3>1. \A i \in DOMAIN replies' : \E k \in 1 .. fetched : Udp!Received(k) > 0 /\ replies'[i] = Udp!Answer(k)
      <4> SUFFICES ASSUME NEW i \in DOMAIN replies'
          PROVE  \E k \in 1 .. fetched : Udp!Received(k) > 0 /\ replies'[i] = Udp!Answer(k)
        OBVIOUS
      <4>1. CASE i \in DOMAIN replies BY <2>3, <4>1 DEF Udp!EchoesGoHome
      <4>2. CASE i = Len(replies) + 1
        <5>1. fetched \in 1 .. fetched BY <1>2
        <5> QED BY <1>2, <2>3, <4>2, <5>1 DEF a
      <4> QED BY <2>5, <4>1, <4>2
    <3>2. \A i, j \in DOMAIN replies' : i < j => replies'[i][2][1] < replies'[j][2][1]
      <4> SUFFICES ASSUME NEW i \in DOMAIN replies', NEW j \in DOMAIN replies', i < j
          PROVE  replies'[i][2][1] < replies'[j][2][1]
        OBVIOUS
      <4>1. i \in DOMAIN replies BY <2>3
      <4>2. CASE j \in DOMAIN replies BY <2>3, <4>1, <4>2 DEF Udp!EchoesGoHome
      <4>3. CASE j = Len(replies) + 1 BY <1>2, <2>2, <2>3, <4>1, <4>3
      <4> QED BY <2>5, <4>2, <4>3
    <3> QED BY <1>1, <1>3, <3>1, <3>2 DEF Udp!EchoesGoHome
  <2> QED BY <1>4, <2>4, <2>6, <2>7
<1> QED BY <1>1, <1>5, <1>6

\* Whatever the network loses, repeats and reorders: data_ is not overwritten
\* between do_receive's handler and the end of do_send, so that every reply is the
\* bytes of one datagram, as many as were received, to the client it came from; no
\* empty datagram is answered, none is answered twice, and the replies keep the order
\* of arrival.
THEOREM RepliesGoHome == StreamSpec => []EchoesGoHome
<1>1. StreamInit => UdpInv
  <2> SUFFICES ASSUME Udp!Init PROVE UdpInv BY DEF StreamInit
  <2>1. /\ arrivals \in Seq(Senders \X Nat) /\ Len(arrivals) = 0
        /\ replies \in Seq(Senders \X Seq(Nat)) /\ DOMAIN replies = {}
    BY DEF Udp!Init
  <2>2. UdpTypes BY <2>1 DEF Udp!Init, UdpTypes
  <2>3. Turns BY DEF Udp!Init, Turns
  <2>4. Latest /\ Udp!EchoesGoHome BY <2>1 DEF Latest, Udp!EchoesGoHome
  <2> QED BY <2>2, <2>3, <2>4 DEF UdpInv
<1>2. UdpInv /\ [Udp!Next]_udpVars => UdpInv'
  <2> SUFFICES ASSUME UdpInv, [Udp!Next]_udpVars PROVE UdpInv' OBVIOUS
  <2>1. CASE UNCHANGED udpVars
    <3> USE <2>1 DEF udpVars, UdpInv
    <3>1. UdpTypes' BY DEF UdpTypes
    <3>2. Turns' BY DEF Turns, Udp!Received
    <3>3. Latest' BY DEF Latest
    <3>4. Udp!EchoesGoHome' BY DEF Udp!EchoesGoHome, Udp!Received, Udp!Answer
    <3> QED BY <3>1, <3>2, <3>3, <3>4
  <2>2. ASSUME NEW s \in Senders, NEW size \in 0 .. MaxSize, Udp!Arrive(s, size) PROVE UdpInv'
    <3>1. size \in Nat BY StreamAssumption
    <3> QED BY <2>2, <3>1, ArriveKeeps
  <2>3. CASE Udp!Next BY <2>2, <2>3, ReceiveKeeps, SendKeeps DEF Udp!Next, Udp!Step
  <2> QED BY <2>1, <2>3
<1>3. UdpInv => EchoesGoHome BY DEF UdpInv, EchoesGoHome
<1> QED BY <1>1, <1>2, <1>3, UdpOnly, PTL DEF StreamSpec

-----------------------------------------------------------------------------
(* The stock server *)

\* What its proofs need of the constants.
LEMMA QuoteConstants ==
    RADIX \in Nat /\ RADIX > 1 /\ header_length \in Nat \ {0} /\ MaxData \in Nat \ {0} /\ Endpoints \in Nat \ {0}
  BY StreamAssumption

QuoteTypes ==
    /\ outbound \in Nat /\ accepting \in BOOLEAN
    /\ op \in [Users -> {"none", "write", "post", "done"}]
    /\ link \in [Users -> {"none", "backlog", "open", "closed", "broken", "dropped"}]
    /\ put \in [Users -> Nat]
    /\ state \in [Users -> {"connect", "header", "data", "ok", "error"}]
    /\ tries \in [Users -> 1 .. Endpoints]
    /\ inbound \in [Users -> Nat]

\* Only what fits the header is ever written.
WrittenFits == \A u \in Users : op[u] = "write" \/ put[u] > 0 => Quotes!Fits(outbound)

\* An error is posted only for what does not fit; what fits was written whole
\* when the server closes; nobody is dropped while the server accepts; and who
\* is still connecting has no connection.
EndsWhole ==
    \A u \in Users :
        /\ op[u] = "post" => ~Quotes!Fits(outbound)
        /\ link[u] = "closed" /\ Quotes!Fits(outbound) => put[u] = header_length + outbound
        /\ link[u] = "dropped" => ~accepting
        /\ state[u] = "connect" => link[u] = "none"

QuoteInv == QuoteTypes /\ WrittenFits /\ EndsWhole /\ Quotes!HeaderIsBelieved /\ Quotes!ErrorsHaveCause

\* The invariant holds when the server starts.
LEMMA QuoteStarts == ASSUME Quotes!Init PROVE QuoteInv
  BY QuoteConstants DEF Quotes!Init, Quotes!ServerInit, Quotes!ClientInit, QuoteInv, QuoteTypes, WrittenFits,
     EndsWhole, Quotes!HeaderIsBelieved, Quotes!ErrorsHaveCause

\* A header that fits is read back as the number it was made from, which is less
\* than what its digits can hold.
HeadersParse ==
    \A n \in Nat : Quotes!Fits(n) =>
        /\ n < Quotes!power[header_length]
        /\ Quotes!Parse(SubSeq(Quotes!Header(n), 1, header_length)) = n

\* Whether the stocks fit does not change.
LEMMA FitsStays == ASSUME outbound' = outbound PROVE Quotes!Fits(outbound)' <=> Quotes!Fits(outbound)
  BY DEF Quotes!Fits

\* Every handler keeps it.
LEMMA QuoteKeeps == ASSUME HeadersParse PROVE QuoteInv /\ [Quotes!Next]_quoteVars => QuoteInv'
<1> SUFFICES ASSUME QuoteInv, [Quotes!Next]_quoteVars PROVE QuoteInv' OBVIOUS
<1> USE QuoteConstants
<1>1. CASE Quotes!Exit
  <2>0. /\ UNCHANGED <<outbound, accepting, op, put, state, tries, inbound>> /\ ~accepting
        /\ link' = [u \in Users |-> IF link[u] = "backlog" THEN "dropped" ELSE link[u]]
    BY <1>1 DEF Quotes!Exit
  <2>1. Quotes!Fits(outbound)' <=> Quotes!Fits(outbound) BY <2>0, FitsStays
  <2>2. QuoteTypes' BY <2>0, Zenon DEF QuoteInv, QuoteTypes
  <2>3. WrittenFits' BY <2>0, <2>1 DEF QuoteInv, WrittenFits
  <2>4. EndsWhole' BY <2>0, <2>1 DEF QuoteInv, QuoteTypes, EndsWhole
  <2>5. Quotes!HeaderIsBelieved' BY <2>0 DEF QuoteInv, Quotes!HeaderIsBelieved
  <2>6. Quotes!ErrorsHaveCause' BY <2>0, <2>1 DEF QuoteInv, QuoteTypes, Quotes!ErrorsHaveCause
  <2> QED BY <2>2, <2>3, <2>4, <2>5, <2>6 DEF QuoteInv
<1>2. ASSUME NEW u \in Users, Quotes!handle_accept(u) PROVE QuoteInv'
  <2>0. /\ UNCHANGED <<outbound, accepting, put, state, tries, inbound>>
        /\ link[u] \in {"backlog", "broken"}
        /\ link' = [link EXCEPT ![u] = IF @ = "backlog" THEN "open" ELSE @]
        /\ op' = [op EXCEPT ![u] = IF Quotes!Fits(outbound) THEN "write" ELSE "post"]
    BY <1>2 DEF Quotes!handle_accept
  <2>1. Quotes!Fits(outbound)' <=> Quotes!Fits(outbound) BY <2>0, FitsStays
  <2>2. QuoteTypes' BY <2>0 DEF QuoteInv, QuoteTypes
  <2>3. WrittenFits' BY <2>0, <2>1 DEF QuoteInv, QuoteTypes, WrittenFits
  <2>4. EndsWhole' BY <2>0, <2>1 DEF QuoteInv, QuoteTypes, EndsWhole
  <2>5. Quotes!HeaderIsBelieved' BY <2>0 DEF QuoteInv, Quotes!HeaderIsBelieved
  <2>6. Quotes!ErrorsHaveCause' BY <2>0, <2>1 DEF QuoteInv, QuoteTypes, Quotes!ErrorsHaveCause
  <2> QED BY <2>2, <2>3, <2>4, <2>5, <2>6 DEF QuoteInv
<1>3. ASSUME NEW u \in Users, Quotes!WriteSome(u) PROVE QuoteInv'
  <2> USE DEF Quotes!WriteSome, Quotes!handle_write
  <2>0. Quotes!Fits(outbound) /\ Len(Quotes!Header(outbound)) = header_length
    BY <1>3 DEF QuoteInv, QuoteTypes, WrittenFits, Quotes!Fits
  <2>1. PICK n \in put[u] + 1 .. header_length + outbound :
          /\ put' = [put EXCEPT ![u] = n]
          /\ IF n = header_length + outbound THEN Quotes!handle_write(u) ELSE UNCHANGED <<op, link>>
    BY <1>3, <2>0, Zenon
  <2>2. n \in Nat BY <2>1 DEF QuoteInv, QuoteTypes
  <2>3. /\ UNCHANGED <<outbound, accepting, state, tries, inbound>>
        /\ op[u] = "write" /\ link[u] = "open"
    BY <1>3
  <2>4. Quotes!Fits(outbound)' BY <2>0, <2>3, FitsStays
  <2>5. /\ op' = op \/ op' = [op EXCEPT ![u] = "done"]
        /\ \/ link' = link
           \/ link' = [link EXCEPT ![u] = "closed"] /\ n = header_length + outbound
    BY <2>1, <2>3 DEF QuoteInv, QuoteTypes
  <2>6. QuoteTypes' BY <2>1, <2>2, <2>3, <2>5 DEF QuoteInv, QuoteTypes
  <2>7. WrittenFits' BY <2>4 DEF WrittenFits
  <2>8. EndsWhole'
    <3> SUFFICES ASSUME NEW v \in Users
        PROVE  /\ op'[v] # "post"
               /\ link'[v] = "closed" => put'[v] = header_length + outbound'
               /\ link'[v] = "dropped" => ~accepting'
               /\ state'[v] = "connect" => link'[v] = "none"
      BY Zenon DEF EndsWhole
    <3>1. op'[v] # "post" BY <2>0, <2>5 DEF QuoteInv, QuoteTypes, EndsWhole
    <3>2. CASE v = u BY <2>1, <2>3, <2>5, <3>1, <3>2 DEF QuoteInv, QuoteTypes, EndsWhole
    <3>3. CASE v # u
      <4>1. link'[v] = link[v] /\ put'[v] = put[v] BY <2>1, <2>5, <3>3 DEF QuoteInv, QuoteTypes
      <4> QED BY <2>0, <2>3, <3>1, <4>1 DEF QuoteInv, EndsWhole
    <3> QED BY <3>2, <3>3
  <2>9. Quotes!HeaderIsBelieved' BY <2>3 DEF QuoteInv, Quotes!HeaderIsBelieved
  <2>10. Quotes!ErrorsHaveCause' BY <2>0, <2>3, <2>4, <2>5 DEF QuoteInv, QuoteTypes, Quotes!ErrorsHaveCause
  <2> QED BY <2>6, <2>7, <2>8, <2>9, <2>10 DEF QuoteInv
<1>4. ASSUME NEW u \in Users, Quotes!WriteEnds(u) PROVE QuoteInv'
  <2>0. /\ UNCHANGED <<outbound, accepting, put, state, tries, inbound>>
        /\ op[u] = "post" \/ link[u] = "broken"
        /\ op' = [op EXCEPT ![u] = "done"]
        /\ link' = [link EXCEPT ![u] = IF @ = "open" THEN "closed" ELSE @]
    BY <1>4 DEF Quotes!WriteEnds, Quotes!handle_write
  <2>1. Quotes!Fits(outbound)' <=> Quotes!Fits(outbound) BY <2>0, FitsStays
  <2>2. QuoteTypes' BY <2>0 DEF QuoteInv, QuoteTypes
  <2>3. WrittenFits' BY <2>0, <2>1 DEF QuoteInv, QuoteTypes, WrittenFits
  <2>4. EndsWhole' BY <2>0, <2>1 DEF QuoteInv, QuoteTypes, EndsWhole
  <2>5. Quotes!HeaderIsBelieved' BY <2>0 DEF QuoteInv, Quotes!HeaderIsBelieved
  <2>6. Quotes!ErrorsHaveCause' BY <2>0, <2>1 DEF QuoteInv, QuoteTypes, Quotes!ErrorsHaveCause
  <2> QED BY <2>2, <2>3, <2>4, <2>5, <2>6 DEF QuoteInv
<1>5. CASE Quotes!AcceptFails
  <2>0. UNCHANGED <<outbound, op, link, put, state, tries, inbound>> /\ accepting' = FALSE
    BY <1>5 DEF Quotes!AcceptFails
  <2>1. Quotes!Fits(outbound)' <=> Quotes!Fits(outbound) BY <2>0, FitsStays
  <2>2. QuoteTypes' BY <2>0, Zenon DEF QuoteInv, QuoteTypes
  <2>3. WrittenFits' BY <2>0, <2>1 DEF QuoteInv, WrittenFits
  <2>4. EndsWhole' BY <2>0, <2>1 DEF QuoteInv, EndsWhole
  <2>5. Quotes!HeaderIsBelieved' BY <2>0 DEF QuoteInv, Quotes!HeaderIsBelieved
  <2>6. Quotes!ErrorsHaveCause' BY <2>0, <2>1 DEF QuoteInv, Quotes!ErrorsHaveCause
  <2> QED BY <2>2, <2>3, <2>4, <2>5, <2>6 DEF QuoteInv
<1>6. ASSUME NEW u \in Users, NEW success \in BOOLEAN, Quotes!handle_connect(u, success) PROVE QuoteInv'
  <2>0. UNCHANGED <<outbound, accepting, op, put, inbound>> /\ state[u] = "connect" BY <1>6 DEF Quotes!handle_connect
  <2>1. \/ /\ state' = [state EXCEPT ![u] = "header"] /\ link' = [link EXCEPT ![u] = "backlog"]
           /\ UNCHANGED tries
        \/ /\ tries[u] < Endpoints /\ tries' = [tries EXCEPT ![u] = @ + 1] /\ UNCHANGED <<state, link>>
        \/ /\ ~(tries[u] < Endpoints) /\ state' = [state EXCEPT ![u] = "error"] /\ UNCHANGED <<link, tries>>
    BY <1>6 DEF Quotes!handle_connect
  <2>2. Quotes!Fits(outbound)' <=> Quotes!Fits(outbound) BY <2>0, FitsStays
  <2>3. link[u] = "none" BY <2>0 DEF QuoteInv, EndsWhole
  <2>4. QuoteTypes' BY <2>0, <2>1 DEF QuoteInv, QuoteTypes
  <2>5. WrittenFits' BY <2>0, <2>2 DEF QuoteInv, WrittenFits
  <2>6. EndsWhole' BY <2>0, <2>1, <2>2 DEF QuoteInv, QuoteTypes, EndsWhole
  <2>7. Quotes!HeaderIsBelieved'
    <3> SUFFICES ASSUME NEW v \in Users, state'[v] \in {"data", "ok"}
        PROVE inbound'[v] = outbound' /\ outbound' < Quotes!power[header_length]
      BY DEF Quotes!HeaderIsBelieved
    <3>1. state'[v] = state[v] BY <2>0, <2>1 DEF QuoteInv, QuoteTypes
    <3> QED BY <2>0, <3>1 DEF QuoteInv, Quotes!HeaderIsBelieved
  <2>8. Quotes!ErrorsHaveCause' BY <2>0, <2>1, <2>2, <2>3 DEF QuoteInv, QuoteTypes, Quotes!ErrorsHaveCause
  <2> QED BY <2>4, <2>5, <2>6, <2>7, <2>8 DEF QuoteInv
<1>7. ASSUME NEW u \in Users, Quotes!handle_read_header(u) PROVE QuoteInv'
  <2> USE DEF Quotes!handle_read_header
  <2>0. outbound \in Nat /\ put[u] > 0 BY <1>7 DEF QuoteInv, QuoteTypes
  <2>1. Quotes!Fits(outbound) BY <2>0 DEF QuoteInv, QuoteTypes, WrittenFits
  <2>2. inbound' = [inbound EXCEPT ![u] = outbound] /\ outbound < Quotes!power[header_length]
    BY <1>7, <2>0, <2>1, Zenon DEF HeadersParse
  <2>3. /\ UNCHANGED <<outbound, accepting, op, link, put, tries>>
        /\ state[u] = "header" /\ state' = [state EXCEPT ![u] = "data"]
    BY <1>7
  <2> USE DEF QuoteInv
  <2>4. Quotes!Fits(outbound)' <=> Quotes!Fits(outbound) BY <2>3, FitsStays
  <2>5. QuoteTypes' BY <2>0, <2>2, <2>3 DEF QuoteTypes
  <2>6. WrittenFits' BY <2>3, <2>4 DEF WrittenFits
  <2>7. EndsWhole' BY <2>3, <2>4 DEF QuoteTypes, EndsWhole
  <2>8. Quotes!HeaderIsBelieved' BY <2>2, <2>3 DEF QuoteTypes, Quotes!HeaderIsBelieved
  <2>9. Quotes!ErrorsHaveCause' BY <2>3, <2>4 DEF QuoteTypes, Quotes!ErrorsHaveCause
  <2> QED BY <2>5, <2>6, <2>7, <2>8, <2>9
<1>8. ASSUME NEW u \in Users, Quotes!handle_read_data(u) \/ Quotes!ReadFails(u) PROVE QuoteInv'
  <2>0. /\ UNCHANGED <<outbound, accepting, op, link, put, tries, inbound>>
        /\ state[u] \in {"header", "data"}
    BY <1>8, Zenon DEF Quotes!handle_read_data, Quotes!ReadFails
  <2>1. \/ state[u] = "data" /\ state' = [state EXCEPT ![u] = "ok"]
        \/ /\ state' = [state EXCEPT ![u] = "error"]
           /\ \/ link[u] \in {"broken", "dropped"}
              \/ link[u] = "closed" /\ put[u] < header_length + (IF state[u] = "data" THEN inbound[u] ELSE 0)
    BY <1>8 DEF Quotes!handle_read_data, Quotes!ReadFails, Quotes!handle_read, QuoteInv, Quotes!HeaderIsBelieved
  <2>2. Quotes!Fits(outbound)' <=> Quotes!Fits(outbound) BY <2>0, FitsStays
  <2>3. QuoteTypes' BY <2>0, <2>1 DEF QuoteInv, QuoteTypes
  <2>4. WrittenFits' BY <2>0, <2>2 DEF QuoteInv, WrittenFits
  <2>5. EndsWhole' BY <2>0, <2>1, <2>2 DEF QuoteInv, QuoteTypes, EndsWhole
  <2>6. Quotes!HeaderIsBelieved'
    <3> SUFFICES ASSUME NEW v \in Users, state'[v] \in {"data", "ok"}
        PROVE inbound'[v] = outbound' /\ outbound' < Quotes!power[header_length]
      BY DEF Quotes!HeaderIsBelieved
    <3>1. state[v] \in {"data", "ok"} BY <2>1 DEF QuoteInv, QuoteTypes
    <3> QED BY <2>0, <3>1 DEF QuoteInv, Quotes!HeaderIsBelieved
  <2>7. state'[u] = "error" /\ Quotes!Fits(outbound) => link[u] \in {"broken", "dropped"}
    <3> SUFFICES ASSUME Quotes!Fits(outbound), link[u] = "closed",
                        put[u] < header_length + (IF state[u] = "data" THEN inbound[u] ELSE 0)
                 PROVE  FALSE
      BY <2>1 DEF QuoteInv, QuoteTypes
    <3>1. put[u] = header_length + outbound /\ outbound \in Nat BY DEF QuoteInv, QuoteTypes, EndsWhole
    <3>2. state[u] = "data" => inbound[u] = outbound BY DEF QuoteInv, Quotes!HeaderIsBelieved
    <3> QED BY <3>1, <3>2
  <2>8. Quotes!ErrorsHaveCause'
    <3> SUFFICES ASSUME NEW v \in Users, state'[v] = "error", Quotes!Fits(outbound)
        PROVE  \/ link[v] = "none" /\ tries[v] = Endpoints
               \/ link[v] = "broken"
               \/ link[v] = "dropped" /\ ~accepting
      BY <2>0, <2>2, Zenon DEF Quotes!ErrorsHaveCause
    <3>1. CASE v = u BY <2>7, <3>1 DEF QuoteInv, EndsWhole
    <3>2. CASE v # u
      <4>1. state[v] = "error" BY <2>1, <3>2 DEF QuoteInv, QuoteTypes
      <4> QED BY <4>1 DEF QuoteInv, Quotes!ErrorsHaveCause
    <3> QED BY <3>1, <3>2
  <2> QED BY <2>3, <2>4, <2>5, <2>6, <2>8 DEF QuoteInv
<1>9. ASSUME NEW u \in Users, Quotes!Break(u) PROVE QuoteInv'
  <2>0. /\ UNCHANGED <<outbound, accepting, op, put, state, tries, inbound>>
        /\ link[u] # "none" /\ link' = [link EXCEPT ![u] = "broken"]
    BY <1>9 DEF Quotes!Break
  <2>1. Quotes!Fits(outbound)' <=> Quotes!Fits(outbound) BY <2>0, FitsStays
  <2>2. QuoteTypes' BY <2>0 DEF QuoteInv, QuoteTypes
  <2>3. WrittenFits' BY <2>0, <2>1 DEF QuoteInv, WrittenFits
  <2>4. EndsWhole' BY <2>0, <2>1 DEF QuoteInv, QuoteTypes, EndsWhole
  <2>5. Quotes!HeaderIsBelieved' BY <2>0 DEF QuoteInv, Quotes!HeaderIsBelieved
  <2>6. Quotes!ErrorsHaveCause' BY <2>0, <2>1 DEF QuoteInv, QuoteTypes, Quotes!ErrorsHaveCause
  <2> QED BY <2>2, <2>3, <2>4, <2>5, <2>6 DEF QuoteInv
<1>10. CASE UNCHANGED quoteVars
  <2>0. UNCHANGED <<outbound, accepting, op, link, put, state, tries, inbound>> BY <1>10 DEF quoteVars
  <2>1. Quotes!Fits(outbound)' <=> Quotes!Fits(outbound) BY <2>0, FitsStays
  <2>2. QuoteTypes' /\ WrittenFits' /\ EndsWhole' BY <2>0, <2>1 DEF QuoteInv, QuoteTypes, WrittenFits, EndsWhole
  <2>3. Quotes!HeaderIsBelieved' /\ Quotes!ErrorsHaveCause'
    BY <2>0, <2>1 DEF QuoteInv, Quotes!HeaderIsBelieved, Quotes!ErrorsHaveCause
  <2> QED BY <2>2, <2>3 DEF QuoteInv
<1> QED BY <1>1, <1>2, <1>3, <1>4, <1>5, <1>6, <1>7, <1>8, <1>9, <1>10
     DEF Quotes!Next, Quotes!ServerStep, Quotes!ClientStep

-----------------------------------------------------------------------------
(* The copying programs *)

\* What a step of StreamNext is to them.
LEMMA CopiesOnly ==
    ASSUME [StreamNext]_all
    PROVE  UNCHANGED program /\ (CopyNext \/ UNCHANGED copyVars)
  BY DEF StreamNext, all, Copies, Quote, Echo

\* What the copying programs need of the constants.
LEMMA CopyConstants == Bytes \in Nat \ {0} /\ N \in Nat \ {0} /\ Capacity \in Nat \ {0}
  BY StreamAssumption

CopyTypes ==
    /\ written \in 0 .. Bytes /\ taken \in 0 .. written
    /\ lost \in BOOLEAN
    /\ buffer \in [1 .. N -> Int] /\ out \in Seq(Int)

\* What the buffer holds besides the bytes of one read is older than they are.
BufferIsOld == \A i \in 1 .. N : buffer[i] <= taken

\* The writer closes when the whole file is in the channel, of which only the named
\* pipe loses anything; transfer_data.cpp moves everything at once.
WholeFile ==
    /\ writer \in {"closed", "end"} => written = Bytes
    /\ lost => program = "fifo"
    /\ program = "transfer" => written \in {0, Bytes} /\ (reader # "end" => taken = 0)
    /\ reader \in {"end", "served"} => taken = Bytes

CopyInv == CopyTypes /\ BufferIsOld /\ WholeFile /\ NothingSkipped

\* A nonempty set of natural numbers has a least element. This is what the proofs
\* by induction use; the end of the module shows it, with the library's theorem.
WellOrdered == \A T \in SUBSET Nat : T # {} => \E x \in T : \A y \in T : x <= y

\* Min is the least element of a nonempty set of natural numbers.
LEMMA MinIsLeast ==
    ASSUME WellOrdered, NEW T \in SUBSET Nat, T # {} PROVE Min(T) \in T /\ \A y \in T : Min(T) <= y
  BY Zenon DEF Min, WellOrdered

\* What a concatenation holds, element by element.
LEMMA Joined ==
    ASSUME NEW s \in Seq(Int), NEW t \in Seq(Int)
    PROVE  /\ s \o t \in Seq(Int) /\ Len(s) \in Nat /\ Len(t) \in Nat
           /\ DOMAIN s = 1 .. Len(s) /\ DOMAIN t = 1 .. Len(t) /\ DOMAIN (s \o t) = 1 .. Len(s) + Len(t)
           /\ \A i \in 1 .. Len(s) : (s \o t)[i] = s[i]
           /\ \A i \in 1 .. Len(t) : (s \o t)[Len(s) + i] = t[i]
  OBVIOUS

\* A piece that starts with the next n bytes, whatever older ones follow, goes on
\* where the output stopped.
LEMMA CoversMore ==
    ASSUME NEW s \in Seq(Int), NEW t \in Seq(Int), NEW k \in Nat, NEW n \in Nat, n <= Len(t),
           \A i \in 1 .. n : t[i] = k + i,
           \A i \in n + 1 .. Len(t) : t[i] <= k,
           Covers(s, k)
    PROVE  Covers(s \o t, k + n)
<1> DEFINE u == s \o t
<1>1. /\ Len(s) \in Nat /\ Len(t) \in Nat
      /\ DOMAIN s = 1 .. Len(s) /\ DOMAIN t = 1 .. Len(t) /\ DOMAIN u = 1 .. Len(s) + Len(t)
      /\ \A i \in 1 .. Len(s) : u[i] = s[i]
      /\ \A i \in 1 .. Len(t) : u[Len(s) + i] = t[i]
  BY Joined
<1>2. \A i \in DOMAIN s : s[i] \in Int /\ s[i] <= k BY DEF Covers
<1>3. \A i \in DOMAIN t : t[i] \in Int /\ t[i] <= k + n
  BY <1>1
<1> HIDE DEF u
<1>4. \A i \in DOMAIN u : i \in 1 .. Len(s) \/ (i - Len(s) \in 1 .. Len(t) /\ i = Len(s) + (i - Len(s)))
  BY <1>1
<1>5. \A i \in DOMAIN u : u[i] <= k + n
  BY <1>1, <1>2, <1>3, <1>4
<1>6. ASSUME NEW b \in 1 .. k + n
      PROVE  \E i \in DOMAIN u : u[i] = b /\ \A j \in 1 .. i - 1 : u[j] < b
  <2>1. CASE b <= k
    <3>0. b \in 1 .. k BY <2>1
    <3>1. PICK i \in DOMAIN s : s[i] = b /\ \A j \in 1 .. i - 1 : s[j] < b BY <3>0, Zenon DEF Covers
    <3>2. i \in DOMAIN u /\ u[i] = b /\ \A j \in 1 .. i - 1 : u[j] < b BY <1>1, <3>1
    <3> QED BY <3>2
  <2>2. CASE b > k
    <3>0. b \in Nat /\ b - k \in 1 .. n /\ k + (b - k) = b BY <2>2
    <3>1. t[b - k] = b /\ Len(s) + (b - k) \in DOMAIN u /\ u[Len(s) + (b - k)] = b
      <4>1. t[b - k] = k + (b - k) BY <3>0
      <4>2. b - k \in 1 .. Len(t) BY <1>1, <3>0
      <4>3. u[Len(s) + (b - k)] = t[b - k] BY <1>1, <4>2
      <4>4. Len(s) + (b - k) \in 1 .. Len(s) + Len(t) BY <1>1, <4>2
      <4> QED BY <1>1, <3>0, <4>1, <4>3, <4>4
    <3>2. ASSUME NEW j \in 1 .. (Len(s) + (b - k)) - 1 PROVE u[j] < b
      <4>0. j \in Nat \ {0} /\ Len(s) \in Nat BY <1>1, <3>0
      <4>1. CASE j <= Len(s)
        <5>1. j \in 1 .. Len(s) BY <4>0, <4>1
        <5>2. u[j] = s[j] /\ s[j] \in Int /\ s[j] <= k BY <1>1, <1>2, <5>1, Zenon
        <5> QED BY <2>2, <3>0, <5>2
      <4>2. CASE j > Len(s)
        <5>1. j - Len(s) \in 1 .. n /\ j = Len(s) + (j - Len(s)) /\ j - Len(s) < b - k BY <3>0, <4>0, <4>2
        <5>2. u[j] = k + (j - Len(s)) BY <1>1, <5>1
        <5> QED BY <3>0, <4>0, <5>1, <5>2
      <4> QED BY <4>0, <4>1, <4>2
    <3> QED BY <1>1, <3>1, <3>2, Zenon
  <2> QED BY <2>1, <2>2
<1> QED BY <1>5, <1>6, Zenon DEF Covers, u

\* A buffer without a NUL in its first n bytes gives a string that has all of them,
\* and after them only what is in the buffer, or Junk.
LEMMA StringOf ==
    ASSUME WellOrdered,
           NEW b \in [1 .. N -> Int], NEW n \in 1 .. N, \A i \in 1 .. n : b[i] # NUL, NEW s \in CString(b)
    PROVE  /\ s \in Seq(Int) /\ n <= Len(s)
           /\ \A i \in 1 .. n : s[i] = b[i]
           /\ \A i \in n + 1 .. Len(s) : s[i] = Junk \/ (i \in 1 .. N /\ s[i] = b[i])
<1> DEFINE nuls == {i \in 1 .. N : b[i] = NUL}
<1>1. b \in Seq(Int) /\ Len(b) = N BY CopyConstants
<1>2. CASE nuls # {}
  <2>1. nuls \in SUBSET Nat OBVIOUS
  <2>2. Min(nuls) \in nuls BY <1>2, <2>1, MinIsLeast
  <2>3. Min(nuls) \in 1 .. N /\ Min(nuls) > n BY <2>2
  <2>4. s = SubSeq(b, 1, Min(nuls) - 1) BY <1>2 DEF CString
  <2> HIDE DEF nuls
  <2>5. s \in Seq(Int) /\ Len(s) = Min(nuls) - 1 /\ \A i \in 1 .. Len(s) : s[i] = b[i]
    BY <1>1, <2>3, <2>4, CopyConstants
  <2> QED BY <2>3, <2>5, CopyConstants
<1>3. CASE nuls = {}
  <2>1. s = b \/ s = Append(b, Junk) BY <1>3 DEF CString
  <2> QED BY <1>1, <2>1, CopyConstants DEF Junk
<1> QED BY <1>2, <1>3

\* One round of the copying loop.
LEMMA ReadKeeps == ASSUME WellOrdered, CopyInv, Read, UNCHANGED program PROVE CopyInv'
<1> DEFINE n == Min({N, Available})
<1> USE CopyConstants
<1>1. Available \in Nat \ {0} /\ (~lost => Available = written - taken) /\ ~lost
  BY DEF Read, Available, CopyInv, CopyTypes
<1>2. n \in {N, Available} /\ n <= N /\ n <= Available
  <2>1. {N, Available} \in SUBSET Nat /\ {N, Available} # {} BY <1>1
  <2>2. n \in {N, Available} /\ \A y \in {N, Available} : n <= y
    <3> HIDE DEF n
    <3> QED BY <2>1, MinIsLeast DEF n
  <2> QED BY <2>2
<1>3. PICK s \in IF program = "fifo" THEN {SubSeq(Filled(n), 1, n)} ELSE CString(Filled(n)) : out' = out \o s
  BY Zenon DEF Read
<1>4. /\ program # "transfer" /\ reader = "read" /\ taken' = taken + n
      /\ buffer' = IF program = "unix" THEN Filled(n) ELSE Zeroed
      /\ UNCHANGED <<writer, reader, written, lost, stale>>
  BY DEF Read
<1> HIDE DEF n
<1>5. n \in 1 .. N /\ taken \in Nat /\ taken + n <= written /\ written <= Bytes
  BY <1>1, <1>2 DEF CopyInv, CopyTypes
<1>6. /\ Filled(n) \in [1 .. N -> Int]
      /\ \A i \in 1 .. n : Filled(n)[i] = taken + i
      /\ \A i \in n + 1 .. N : Filled(n)[i] = buffer[i] /\ buffer[i] <= taken
      /\ \A i \in 1 .. N : Filled(n)[i] <= taken + n
  BY <1>5 DEF Filled, CopyInv, CopyTypes, BufferIsOld
<1>7. /\ s \in Seq(Int) /\ n <= Len(s)
      /\ \A i \in 1 .. n : s[i] = taken + i
      /\ \A i \in n + 1 .. Len(s) : s[i] <= taken
      /\ program = "fifo" => Len(s) = n
  <2>1. CASE program = "fifo"
    <3>1. s = SubSeq(Filled(n), 1, n) BY <1>3, <2>1
    <3>2. Filled(n) \in Seq(Int) /\ Len(Filled(n)) = N BY <1>6
    <3>3. s \in Seq(Int) /\ Len(s) = n /\ \A i \in 1 .. n : s[i] = Filled(n)[i] BY <1>5, <3>1, <3>2
    <3> QED BY <1>5, <1>6, <3>3
  <2>2. CASE program # "fifo"
    <3>1. s \in CString(Filled(n)) BY <1>3, <2>2
    <3>2. \A i \in 1 .. n : Filled(n)[i] # NUL BY <1>5, <1>6 DEF NUL
    <3>3. /\ s \in Seq(Int) /\ n <= Len(s)
          /\ \A i \in 1 .. n : s[i] = Filled(n)[i]
          /\ \A i \in n + 1 .. Len(s) : s[i] = Junk \/ (i \in 1 .. N /\ s[i] = Filled(n)[i])
      BY <1>5, <1>6, <3>1, <3>2, StringOf, Zenon
    <3>4. \A i \in n + 1 .. Len(s) : s[i] <= taken
      <4> SUFFICES ASSUME NEW i \in n + 1 .. Len(s) PROVE s[i] <= taken OBVIOUS
      <4>1. CASE s[i] = Junk BY <1>5, <4>1 DEF Junk
      <4>2. CASE i \in 1 .. N /\ s[i] = Filled(n)[i]
        <5>1. i \in n + 1 .. N BY <1>5, <3>3, <4>2
        <5> QED BY <1>6, <4>2, <5>1
      <4> QED BY <3>3, <4>1, <4>2
    <3>5. \A i \in 1 .. n : s[i] = taken + i BY <1>6, <3>3
    <3> QED BY <2>2, <3>3, <3>4, <3>5
  <2> QED BY <2>1, <2>2
<1>8. CopyTypes'
  <2>1. out' \in Seq(Int) BY <1>3, <1>7, Joined DEF CopyInv, CopyTypes
  <2>2. buffer' \in [1 .. N -> Int] BY <1>4, <1>6 DEF Zeroed, NUL
  <2> QED BY <1>4, <1>5, <2>1, <2>2 DEF CopyInv, CopyTypes
<1>9. BufferIsOld' BY <1>4, <1>5, <1>6 DEF BufferIsOld, Zeroed, NUL
<1>10. WholeFile' BY <1>4 DEF CopyInv, WholeFile
<1>11. Covers(out', taken')
  <2>1. Covers(out, taken) /\ out \in Seq(Int) BY DEF CopyInv, NothingSkipped, CopyTypes
  <2>2. n \in Nat /\ taken \in Nat BY <1>5
  <2>3. Covers(out \o s, taken + n) BY <1>7, <2>1, <2>2, CoversMore, Zenon
  <2> QED BY <1>3, <1>4, <2>3
<1>12. ASSUME program = "fifo" PROVE out' = [i \in 1 .. taken' |-> i]
  <2>1. out = [i \in 1 .. taken |-> i] /\ out \in Seq(Int) BY <1>12 DEF CopyInv, NothingSkipped, CopyTypes
  <2>2. Len(out) = taken BY <1>5, <2>1
  <2>3. /\ out' \in Seq(Int) /\ DOMAIN out' = 1 .. taken + n
        /\ \A i \in 1 .. taken : out'[i] = out[i]
        /\ \A i \in 1 .. n : out'[taken + i] = s[i]
    <3>1. Len(s) = n /\ s \in Seq(Int) BY <1>7, <1>12
    <3>2. /\ out \o s \in Seq(Int) /\ DOMAIN (out \o s) = 1 .. Len(out) + Len(s)
          /\ \A i \in 1 .. Len(out) : (out \o s)[i] = out[i]
          /\ \A i \in 1 .. Len(s) : (out \o s)[Len(out) + i] = s[i]
      BY <2>1, <3>1, Joined, Zenon
    <3> QED BY <1>3, <2>2, <3>1, <3>2
  <2>4. \A i \in 1 .. taken + n : out'[i] = i
    <3> SUFFICES ASSUME NEW i \in 1 .. taken + n PROVE out'[i] = i OBVIOUS
    <3>1. CASE i <= taken BY <1>5, <2>1, <2>3, <3>1
    <3>2. CASE i > taken
      <4>1. i - taken \in 1 .. n /\ i = taken + (i - taken) BY <1>5, <3>2
      <4> QED BY <1>5, <1>7, <2>3, <4>1, Zenon
    <3> QED BY <1>5, <3>1, <3>2
  <2> QED BY <1>4, <2>3, <2>4
<1>13. NothingSkipped' BY <1>11, <1>12 DEF NothingSkipped
<1> QED BY <1>8, <1>9, <1>10, <1>13 DEF CopyInv

\* The one recv: it finds the whole struct.
LEMMA StructKeeps == ASSUME CopyInv, ReadStruct, UNCHANGED program PROVE CopyInv'
<1> USE CopyConstants
<1>1. /\ program = "transfer" /\ taken = 0 /\ ~lost /\ written = Bytes /\ Available = Bytes
  BY DEF ReadStruct, Available, CopyInv, CopyTypes, WholeFile
<1>2. /\ out' = [i \in 1 .. Bytes |-> i] /\ taken' = Bytes /\ reader' = "end"
      /\ UNCHANGED <<writer, written, lost, stale, buffer>>
  BY <1>1 DEF ReadStruct
<1>3. out' \in Seq(Int) BY <1>2
<1>4. CopyTypes' BY <1>1, <1>2, <1>3 DEF CopyInv, CopyTypes
<1>5. BufferIsOld' BY <1>1, <1>2 DEF CopyInv, CopyTypes, BufferIsOld
<1>6. WholeFile' BY <1>1, <1>2 DEF CopyInv, WholeFile
<1>7. Covers(out', taken')
  <2>1. \A b \in 1 .. Bytes : b \in DOMAIN out' /\ out'[b] = b /\ \A j \in 1 .. b - 1 : out'[j] < b BY <1>2
  <2> QED BY <1>2, <2>1 DEF Covers
<1>8. NothingSkipped' BY <1>1, <1>7 DEF NothingSkipped
<1> QED BY <1>4, <1>5, <1>6, <1>8 DEF CopyInv

\* The steps that move no byte out of the channel.
LEMMA OtherCopiesKeep ==
    ASSUME WellOrdered, CopyInv, UNCHANGED program, UNCHANGED <<taken, out>>,
           \/ Write \/ Close \/ Kill \/ Connect \/ Install \/ Open \/ Listen \/ Accept \/ EndOfInput
           \/ UNCHANGED copyVars
    PROVE  CopyInv'
<1> USE CopyConstants
<1>1. buffer' = buffer \/ buffer' = Zeroed
  BY DEF Write, Close, Kill, Connect, Install, Open, Listen, Accept, EndOfInput, copyVars
<1>2. buffer' \in [1 .. N -> Int] /\ BufferIsOld'
  BY <1>1 DEF CopyInv, CopyTypes, BufferIsOld, Zeroed, NUL
<1>3. written' \in taken .. Bytes
  <2>1. CASE Write
    <3>1. CASE program = "transfer" BY <2>1, <3>1 DEF Write, CopyInv, CopyTypes
    <3>2. CASE program # "transfer"
      <4>1. {Bytes, taken + Capacity} \in SUBSET Nat /\ {Bytes, taken + Capacity} # {} BY DEF CopyInv, CopyTypes
      <4>2. Min({Bytes, taken + Capacity}) <= Bytes /\ Min({Bytes, taken + Capacity}) \in Nat BY <4>1, MinIsLeast
      <4>3. written' \in written + 1 .. Min({Bytes, taken + Capacity}) BY <2>1, <3>2 DEF Write
      <4> QED BY <4>2, <4>3 DEF CopyInv, CopyTypes
    <3> QED BY <3>1, <3>2
  <2>2. CASE UNCHANGED written BY <2>2 DEF CopyInv, CopyTypes
  <2> QED BY <2>1, <2>2 DEF Close, Kill, Connect, Install, Open, Listen, Accept, EndOfInput, copyVars
<1>4. lost' \in BOOLEAN
  BY Zenon DEF CopyInv, CopyTypes, Write, Close, Kill, Connect, Install, Open, Listen, Accept, EndOfInput, copyVars
<1>5. CopyTypes' BY <1>2, <1>3, <1>4 DEF CopyInv, CopyTypes
<1>6. NothingSkipped' BY DEF CopyInv, NothingSkipped
<1>7. WholeFile'
  <2> USE DEF CopyInv, CopyTypes, WholeFile
  <2>1. CASE Write BY <2>1 DEF Write
  <2>2. CASE Close \/ Kill BY <2>2 DEF Close, Kill
  <2>3. CASE Connect \/ Install BY <2>3 DEF Connect, Install
  <2>6. CASE Open \/ Listen BY <2>6 DEF Open, Listen, Sockets
  <2>7. CASE Accept BY <2>7 DEF Accept
  <2>4. CASE EndOfInput BY <2>4 DEF EndOfInput, Available
  <2>5. CASE UNCHANGED copyVars BY <2>5 DEF copyVars
  <2> HIDE DEF CopyInv, CopyTypes, WholeFile
  <2> QED BY <2>1, <2>2, <2>3, <2>4, <2>5, <2>6, <2>7, Zenon
<1> QED BY <1>2, <1>5, <1>6, <1>7, Zenon DEF CopyInv

\* All of it together.
LEMMA CopyKeeps == ASSUME WellOrdered PROVE CopyInv /\ [StreamNext]_all => CopyInv'
<1> SUFFICES ASSUME CopyInv, [StreamNext]_all PROVE CopyInv' OBVIOUS
<1>1. UNCHANGED program /\ (CopyNext \/ UNCHANGED copyVars) BY CopiesOnly
<1>2. CASE Read BY <1>1, <1>2, ReadKeeps
<1>3. CASE ReadStruct BY <1>1, <1>3, StructKeeps
<1>4. CASE \/ Write \/ Close \/ Kill \/ Connect \/ Install \/ Open \/ Listen \/ Accept \/ EndOfInput
           \/ UNCHANGED copyVars
  <2>1. UNCHANGED <<taken, out>>
    BY <1>4 DEF Write, Close, Kill, Connect, Install, Open, Listen, Accept, EndOfInput, copyVars
  <2> QED BY <1>1, <1>4, <2>1, OtherCopiesKeep, Zenon
<1> QED BY <1>1, <1>2, <1>3, <1>4, Zenon DEF CopyNext, WriterStep, ReaderStep

\* Nothing has been read at the start, into a buffer that may hold Junk.
LEMMA CopyStarts == StreamInit => CopyInv
<1> SUFFICES ASSUME CopyInit PROVE CopyInv BY DEF StreamInit
<1> USE CopyConstants
<1>1. buffer \in [1 .. N -> Int] /\ \A i \in 1 .. N : buffer[i] <= 0
  BY DEF CopyInit, Zeroed, NUL, Junk
<1>2. out = <<>> /\ out \in Seq(Int) /\ DOMAIN out = {} /\ taken = 0 /\ written = 0 /\ lost = FALSE
  BY DEF CopyInit
<1>3. lost \in BOOLEAN BY <1>2, Zenon
<1>6. CopyTypes /\ BufferIsOld BY <1>1, <1>2, <1>3 DEF CopyTypes, BufferIsOld
<1>4. WholeFile BY <1>2 DEF WholeFile, CopyInit, Sockets
<1>5. NothingSkipped BY <1>2 DEF NothingSkipped, Covers
<1> QED BY <1>4, <1>5, <1>6 DEF CopyInv

-----------------------------------------------------------------------------
(* Numbers in the header of the stock server *)

\* A recursion from n to down[n], which ends in stop.
Descends(stop, down) == \A n \in Nat : n \in stop \/ down[n] < n

Solution(f, stop, base, down, step) ==
    \A n \in Nat : f[n] = IF n \in stop THEN base[n] ELSE step[<<n, f[down[n]]>>]

\* A definition by recursion from n to a smaller number has a solution.
LEMMA Recursion ==
    ASSUME WellOrdered, NEW S, NEW stop \in SUBSET Nat, NEW base \in [Nat -> S],
           NEW down \in [Nat -> Nat], Descends(stop, down), NEW step \in [Nat \X S -> S]
    PROVE  \E f \in [Nat -> S] : Solution(f, stop, base, down, step)
<1> USE DEF Descends
<1> DEFINE Solves(g, k) ==
             \A n \in 0 .. k : g[n] = IF n \in stop THEN base[n] ELSE step[<<n, g[down[n]]>>]
<1>1. \A k \in Nat : \E g \in [0 .. k -> S] : Solves(g, k)
  <2> DEFINE T == {k \in Nat : ~\E g \in [0 .. k -> S] : Solves(g, k)}
  <2> SUFFICES ASSUME T # {} PROVE FALSE BY Zenon
  <2>1. PICK k \in T : \A y \in T : k <= y
    <3>1. T \in SUBSET Nat OBVIOUS
    <3> HIDE DEF T
    <3> QED BY <3>1 DEF WellOrdered
  <2>2. k \in Nat /\ ~\E g \in [0 .. k -> S] : Solves(g, k) BY Zenon
  <2>3. CASE k = 0
    <3> DEFINE g == [n \in 0 .. 0 |-> base[0]]
    <3>1. 0 \in stop OBVIOUS
    <3>2. g \in [0 .. 0 -> S] /\ \A n \in 0 .. 0 : n = 0 /\ g[n] = base[0] OBVIOUS
    <3>3. Solves(g, 0) BY <3>1, <3>2
    <3> QED BY <2>2, <2>3, <3>2, <3>3
  <2>4. CASE k # 0
    <3>0. k - 1 \in Nat /\ ~(k <= k - 1) BY <2>2, <2>4
    <3>1. k - 1 \notin T
      <4> HIDE DEF T
      <4> QED BY <2>1, <3>0
    <3>2. PICK g \in [0 .. k - 1 -> S] : Solves(g, k - 1) BY <3>0, <3>1, Zenon
    <3> DEFINE last == IF k \in stop THEN base[k] ELSE step[<<k, g[down[k]]>>]
    <3> DEFINE h == [n \in 0 .. k |-> IF n = k THEN last ELSE g[n]]
    <3>3. k \notin stop => down[k] \in 0 .. k - 1 BY <2>2
    <3>4. last \in S BY <2>2, <3>3, Zenon
    <3> HIDE DEF last
    <3>5. h \in [0 .. k -> S] /\ h[k] = last /\ \A n \in 0 .. k - 1 : h[n] = g[n] BY <2>2, <3>4
    <3> HIDE DEF h
    <3>6. ASSUME NEW n \in 0 .. k PROVE h[n] = IF n \in stop THEN base[n] ELSE step[<<n, h[down[n]]>>]
      <4>1. CASE n = k BY <3>3, <3>5, <4>1, Zenon DEF last
      <4>2. CASE n # k
        <5>1. n \in 0 .. k - 1 /\ n \in Nat BY <2>2, <4>2
        <5>2. n \notin stop => down[n] \in 0 .. k - 1 BY <2>2, <5>1
        <5>3. g[n] = IF n \in stop THEN base[n] ELSE step[<<n, g[down[n]]>>] BY <3>2, <5>1, Zenon
        <5> QED BY <3>5, <5>1, <5>2, <5>3, Zenon
      <4> QED BY <4>1, <4>2
    <3>7. Solves(h, k) BY <3>6, Zenon
    <3> QED BY <2>2, <3>5, <3>7, Zenon
  <2> QED BY <2>3, <2>4
<1>2. ASSUME NEW k \in Nat, NEW g \in [0 .. k -> S], Solves(g, k),
             NEW m \in Nat, NEW h \in [0 .. m -> S], Solves(h, m)
      PROVE  \A n \in Nat : n <= k /\ n <= m => g[n] = h[n]
  <2> DEFINE T == {n \in Nat : n <= k /\ n <= m /\ g[n] # h[n]}
  <2> SUFFICES ASSUME T # {} PROVE FALSE BY Zenon
  <2>1. PICK n \in T : \A y \in T : n <= y
    <3>1. T \in SUBSET Nat OBVIOUS
    <3> HIDE DEF T
    <3> QED BY <3>1, Zenon DEF WellOrdered
  <2>2. n \in Nat /\ n \in 0 .. k /\ n \in 0 .. m /\ g[n] # h[n] OBVIOUS
  <2>3. g[n] = IF n \in stop THEN base[n] ELSE step[<<n, g[down[n]]>>] BY <1>2, <2>2, Zenon
  <2>4. h[n] = IF n \in stop THEN base[n] ELSE step[<<n, h[down[n]]>>] BY <1>2, <2>2, Zenon
  <2>5. n \notin stop /\ g[down[n]] # h[down[n]] BY <2>2, <2>3, <2>4, Zenon
  <2>6. down[n] \in Nat /\ down[n] < n BY <2>2, <2>5
  <2>7. down[n] \in T BY <2>2, <2>5, <2>6
  <2> QED BY <2>1, <2>2, <2>6, <2>7
<1> DEFINE G == [k \in Nat |-> CHOOSE g \in [0 .. k -> S] : Solves(g, k)]
<1> DEFINE f == [n \in Nat |-> G[n][n]]
<1>3. \A k \in Nat : G[k] \in [0 .. k -> S] /\ Solves(G[k], k)
  <2> SUFFICES ASSUME NEW k \in Nat PROVE G[k] \in [0 .. k -> S] /\ Solves(G[k], k) BY Zenon
  <2>1. G[k] = CHOOSE g \in [0 .. k -> S] : Solves(g, k) BY Zenon
  <2>2. \E g \in [0 .. k -> S] : Solves(g, k) BY <1>1, Zenon
  <2> HIDE DEF G, Solves
  <2> QED BY <2>1, <2>2
<1> HIDE DEF G
<1>4. f \in [Nat -> S] BY <1>3
<1>5. ASSUME NEW n \in Nat PROVE f[n] = IF n \in stop THEN base[n] ELSE step[<<n, f[down[n]]>>]
  <2>1. f[n] = G[n][n] OBVIOUS
  <2>2. G[n][n] = IF n \in stop THEN base[n] ELSE step[<<n, G[n][down[n]]>>]
    <3>1. n \in 0 .. n OBVIOUS
    <3>2. Solves(G[n], n)
      <4> HIDE DEF Solves, f
      <4> QED BY <1>3
    <3> QED BY <3>1, <3>2
  <2>3. CASE n \notin stop
    <3>1. down[n] \in Nat /\ down[n] < n BY <2>3
    <3>2. f[down[n]] = G[down[n]][down[n]] BY <3>1
    <3>3. G[down[n]][down[n]] = G[n][down[n]]
      <4>1. down[n] <= n /\ down[n] <= down[n] BY <3>1
      <4> HIDE DEF Solves, f
      <4> QED BY <1>2, <1>3, <3>1, <4>1, Zenon
    <3> QED BY <2>1, <2>2, <2>3, <3>2, <3>3
  <2> QED BY <2>1, <2>2, <2>3
<1> HIDE DEF f
<1> QED BY <1>4, <1>5 DEF Solution

-----------------------------------------------------------------------------
(* The header of the stock server *)

Digit == 0 .. RADIX - 1

\* Dividing by the radix leaves a smaller number and a digit.
LEMMA Division ==
    ASSUME NEW n \in Nat
    PROVE  /\ n \div RADIX \in Nat /\ n % RADIX \in Digit
           /\ n = RADIX * (n \div RADIX) + (n % RADIX)
           /\ n >= RADIX => n \div RADIX < n
<1> USE QuoteConstants DEF Digit
<1> DEFINE q == n \div RADIX
<1> DEFINE r == n % RADIX
<1>1. q \in Int /\ r \in 0 .. RADIX - 1 /\ n = RADIX * q + r OBVIOUS
<1> HIDE DEF q, r
<1>2. q >= 0
  <2>1. ASSUME q <= -1 PROVE RADIX * q <= -RADIX BY <1>1, <2>1
  <2> QED BY <1>1, <2>1
<1>3. ASSUME n >= RADIX PROVE q < n
  <2>1. ASSUME q >= n PROVE RADIX * q >= 2 * q BY <1>1, <1>2, <2>1
  <2> QED BY <1>1, <1>3, <2>1
<1>4. q \in Nat /\ r \in 0 .. RADIX - 1 /\ n = RADIX * q + r /\ (n >= RADIX => q < n)
  BY <1>1, <1>2, <1>3
<1> QED BY <1>4 DEF q, r

\* What digits computes: the recursion ends, with at least one digit.
LEMMA DigitsDef ==
    ASSUME WellOrdered
    PROVE  \A n \in Nat :
             /\ Quotes!digits[n] = IF n < RADIX THEN <<n>> ELSE Append(Quotes!digits[n \div RADIX], n % RADIX)
             /\ Quotes!digits[n] \in Seq(Digit)
<1> USE QuoteConstants
<1> DEFINE S == Seq(Digit)
<1> DEFINE base == [n \in Nat |-> IF n < RADIX THEN <<n>> ELSE <<>>]
<1> DEFINE down == [n \in Nat |-> n \div RADIX]
<1> DEFINE step == [x \in Nat \X S |-> Append(x[2], x[1] % RADIX)]
<1>1. base \in [Nat -> S]
  <2>1. \A n \in Nat : n < RADIX => <<n>> \in S BY DEF Digit
  <2>2. <<>> \in S OBVIOUS
  <2> HIDE DEF S
  <2> QED BY <2>1, <2>2
<1>2. down \in [Nat -> Nat] /\ Descends(Digit, down)
  BY Division DEF Digit, Descends
<1>3. step \in [Nat \X S -> S]
  <2>1. \A x \in Nat \X S : x[2] \in S /\ x[1] % RADIX \in Digit BY Division
  <2>2. \A x \in Nat \X S : Append(x[2], x[1] % RADIX) \in S BY <2>1
  <2> HIDE DEF S
  <2> QED BY <2>2
<1>4. Digit \in SUBSET Nat BY DEF Digit
<1>5. PICK f \in [Nat -> S] : Solution(f, Digit, base, down, step)
  <2> HIDE DEF S, base, down, step
  <2> QED BY <1>1, <1>2, <1>3, <1>4, Recursion, Zenon
<1>6. \A n \in Nat : f[n] = IF n < RADIX THEN <<n>> ELSE Append(f[n \div RADIX], n % RADIX)
  <2> SUFFICES ASSUME NEW n \in Nat
               PROVE  f[n] = IF n < RADIX THEN <<n>> ELSE Append(f[n \div RADIX], n % RADIX)
    BY Zenon
  <2>1. CASE n < RADIX
    <3>1. n \in Digit /\ base[n] = <<n>> BY <2>1 DEF Digit
    <3> HIDE DEF base
    <3> QED BY <1>5, <2>1, <3>1, Zenon DEF Solution
  <2>2. CASE ~(n < RADIX)
    <3>1. n \notin Digit BY <2>2 DEF Digit
    <3>2. f[n] = step[<<n, f[down[n]]>>] BY <1>5, <3>1, Zenon DEF Solution
    <3>3. down[n] = n \div RADIX /\ f[n \div RADIX] \in S BY Division, Zenon
    <3>4. step[<<n, f[n \div RADIX]>>] = Append(f[n \div RADIX], n % RADIX)
      <4>1. <<n, f[n \div RADIX]>> \in Nat \X S BY <3>3, Zenon
      <4> HIDE DEF S
      <4> QED BY <4>1
    <3> HIDE DEF step, S, down, base
    <3> QED BY <2>2, <3>2, <3>3, <3>4
  <2> QED BY <2>1, <2>2
<1> HIDE DEF base, down, step
<1>7. f = [n \in Nat |-> IF n < RADIX THEN <<n>> ELSE Append(f[n \div RADIX], n % RADIX)]
  BY <1>6, Zenon
<1>8. Quotes!digits = [n \in Nat |-> IF n < RADIX THEN <<n>>
                                     ELSE Append(Quotes!digits[n \div RADIX], n % RADIX)]
  <2> HIDE DEF S
  <2> QED BY <1>7, Zenon DEF Quotes!digits
<1>9. \A n \in Nat : Quotes!digits[n] = IF n < RADIX THEN <<n>>
                                        ELSE Append(Quotes!digits[n \div RADIX], n % RADIX)
  BY <1>8, Zenon
<1>10. \A n \in Nat : Quotes!digits[n] \in S
  <2> DEFINE T == {n \in Nat : Quotes!digits[n] \notin S}
  <2> SUFFICES ASSUME T # {} PROVE FALSE BY Zenon
  <2>1. PICK n \in T : \A y \in T : n <= y
    <3>1. T \in SUBSET Nat OBVIOUS
    <3> HIDE DEF T
    <3> QED BY <3>1 DEF WellOrdered
  <2>2. n \in Nat /\ Quotes!digits[n] \notin S OBVIOUS
  <2>3. CASE n < RADIX
    <3>1. Quotes!digits[n] = <<n>> BY <1>9, <2>2, <2>3, Zenon
    <3> QED BY <2>2, <2>3, <3>1 DEF Digit
  <2>4. CASE ~(n < RADIX)
    <3>0. n >= RADIX BY <2>2, <2>4
    <3>1. n \div RADIX \in Nat /\ n \div RADIX < n /\ n % RADIX \in Digit BY <2>2, <3>0, Division, Zenon
    <3>2. n \div RADIX \notin T
      <4> HIDE DEF T
      <4> QED BY <2>1, <2>2, <3>1
    <3>3. Quotes!digits[n \div RADIX] \in S BY <3>1, <3>2
    <3>4. Append(Quotes!digits[n \div RADIX], n % RADIX) \in S BY <3>1, <3>3
    <3> HIDE DEF S, T
    <3> QED BY <1>9, <2>2, <2>4, <3>4, Zenon
  <2> QED BY <2>3, <2>4
<1> QED BY <1>9, <1>10, Zenon

\* The digits s stand for n: u[k] is what the first k of them stand for.
HasValue(s, n) ==
    \E u \in [0 .. Len(s) -> Nat] :
        /\ u[0] = 0 /\ u[Len(s)] = n
        /\ \A k \in 1 .. Len(s) : u[k] = RADIX * u[k - 1] + s[k]

\* value computes what the digits stand for, of which there is only one.
LEMMA ValueIs ==
    ASSUME WellOrdered, NEW s \in Seq(Digit), NEW n, HasValue(s, n) PROVE Quotes!value(s) = n
<1> USE QuoteConstants
<1>1. PICK u \in [0 .. Len(s) -> Nat] :
         /\ u[0] = 0 /\ u[Len(s)] = n
         /\ \A k \in 1 .. Len(s) : u[k] = RADIX * u[k - 1] + s[k]
  BY DEF HasValue
<1>2. Len(s) \in Nat /\ \A k \in 1 .. Len(s) : s[k] \in Digit OBVIOUS
<1>3. u = [k \in 0 .. Len(s) |-> IF k = 0 THEN 0 ELSE RADIX * u[k - 1] + s[k]]
  <2>1. \A k \in 0 .. Len(s) : u[k] = IF k = 0 THEN 0 ELSE RADIX * u[k - 1] + s[k]
    BY <1>1, <1>2
  <2> QED BY <2>1
<1> DEFINE v == CHOOSE x : x = [k \in 0 .. Len(s) |-> IF k = 0 THEN 0 ELSE RADIX * x[k - 1] + s[k]]
<1>4. v = [k \in 0 .. Len(s) |-> IF k = 0 THEN 0 ELSE RADIX * v[k - 1] + s[k]]
  BY <1>3
<1>5. Quotes!value(s) = v[Len(s)] BY DEF Quotes!value
<1> HIDE DEF v
<1>6. \A k \in 0 .. Len(s) : v[k] = IF k = 0 THEN 0 ELSE RADIX * v[k - 1] + s[k]
  BY <1>4
<1> DEFINE T == {k \in 0 .. Len(s) : v[k] # u[k]}
<1>7. ASSUME T # {} PROVE FALSE
  <2>1. PICK k \in T : \A y \in T : k <= y
    <3>1. T \in SUBSET Nat BY <1>2
    <3> HIDE DEF T
    <3> QED BY <1>7, <3>1 DEF WellOrdered
  <2>2. k \in 0 .. Len(s) /\ v[k] # u[k] OBVIOUS
  <2>3. k # 0 BY <1>1, <1>2, <1>6, <2>2
  <2>4. k \in 1 .. Len(s) /\ k - 1 \in 0 .. Len(s) /\ ~(k <= k - 1) BY <1>2, <2>2, <2>3
  <2>5. k - 1 \notin T
    <3> HIDE DEF T
    <3> QED BY <2>1, <2>4
  <2>6. v[k - 1] = u[k - 1] BY <2>4, <2>5
  <2>7. v[k] = RADIX * v[k - 1] + s[k] BY <1>6, <2>2, <2>3
  <2>8. u[k] = RADIX * u[k - 1] + s[k] BY <1>1, <2>4
  <2> HIDE DEF T
  <2> QED BY <2>2, <2>6, <2>7, <2>8
<1>8. Len(s) \in 0 .. Len(s) BY <1>2
<1>9. v[Len(s)] = u[Len(s)] BY <1>7, <1>8
<1> QED BY <1>1, <1>5, <1>9

\* One more digit.
LEMMA OneDigitMore ==
    ASSUME NEW s \in Seq(Digit), NEW m \in Nat, HasValue(s, m), NEW d \in Digit
    PROVE  HasValue(Append(s, d), RADIX * m + d)
<1> USE QuoteConstants DEF Digit
<1>1. PICK u \in [0 .. Len(s) -> Nat] :
         /\ u[0] = 0 /\ u[Len(s)] = m
         /\ \A k \in 1 .. Len(s) : u[k] = RADIX * u[k - 1] + s[k]
  BY Zenon DEF HasValue
<1> DEFINE t == Append(s, d)
<1> DEFINE L == Len(s)
<1>2. L \in Nat /\ Len(t) = L + 1 /\ t[L + 1] = d /\ \A k \in 1 .. L : t[k] = s[k] OBVIOUS
<1> HIDE DEF t
<1>3. RADIX * m + d \in Nat
  <2>1. RADIX * m >= 0 OBVIOUS
  <2> QED BY <2>1
<1> DEFINE w == [k \in 0 .. L + 1 |-> IF k = L + 1 THEN RADIX * m + d ELSE u[k]]
<1>4. w \in [0 .. L + 1 -> Nat] /\ w[L + 1] = RADIX * m + d /\ \A k \in 0 .. L : w[k] = u[k]
  BY <1>2, <1>3
<1> HIDE DEF w
<1>5. w[0] = 0 BY <1>1, <1>2, <1>4
<1>6. \A k \in 1 .. L + 1 : w[k] = RADIX * w[k - 1] + t[k]
  <2> SUFFICES ASSUME NEW k \in 1 .. L + 1 PROVE w[k] = RADIX * w[k - 1] + t[k] OBVIOUS
  <2>1. CASE k = L + 1
    <3>1. w[k - 1] = m /\ t[k] = d /\ w[k] = RADIX * m + d BY <1>1, <1>2, <1>4, <2>1
    <3> QED BY <3>1
  <2>2. CASE k # L + 1
    <3>1. k \in 1 .. L /\ k - 1 \in 0 .. L /\ k \in 0 .. L BY <1>2, <2>2
    <3>2. w[k] = u[k] /\ w[k - 1] = u[k - 1] /\ t[k] = s[k] BY <1>2, <1>4, <3>1, Zenon
    <3>3. u[k] = RADIX * u[k - 1] + s[k] BY <1>1, <3>1
    <3> QED BY <3>2, <3>3
  <2> QED BY <2>1, <2>2
<1>7. HasValue(t, RADIX * m + d) BY <1>2, <1>4, <1>5, <1>6, Zenon DEF HasValue
<1> QED BY <1>7 DEF t

\* digits writes a number that value reads back.
LEMMA DigitsHaveValue == ASSUME WellOrdered PROVE \A n \in Nat : HasValue(Quotes!digits[n], n)
<1> USE QuoteConstants
<1> DEFINE T == {n \in Nat : ~HasValue(Quotes!digits[n], n)}
<1> SUFFICES ASSUME T # {} PROVE FALSE OBVIOUS
<1>1. PICK n \in T : \A y \in T : n <= y
  <2>1. T \in SUBSET Nat OBVIOUS
  <2> HIDE DEF T
  <2> QED BY <2>1 DEF WellOrdered
<1>2. n \in Nat /\ ~HasValue(Quotes!digits[n], n) OBVIOUS
<1>3. CASE n < RADIX
  <2>1. Quotes!digits[n] = <<n>> BY <1>2, <1>3, DigitsDef, Zenon
  <2>2. <<>> \in Seq(Digit) /\ Append(<<>>, n) = <<n>> /\ n \in Digit /\ RADIX * 0 + n = n
    BY <1>2, <1>3 DEF Digit
  <2>3. HasValue(<<>>, 0)
    <3> DEFINE u == [k \in 0 .. 0 |-> 0]
    <3>1. u \in [0 .. 0 -> Nat] /\ u[0] = 0 /\ Len(<<>>) = 0 OBVIOUS
    <3>2. \A k \in 1 .. 0 : FALSE OBVIOUS
    <3> HIDE DEF u
    <3> QED BY <3>1, <3>2 DEF HasValue
  <2>4. HasValue(Append(<<>>, n), RADIX * 0 + n) BY <2>2, <2>3, OneDigitMore, Zenon
  <2> QED BY <1>2, <2>1, <2>2, <2>4
<1>4. CASE ~(n < RADIX)
  <2> DEFINE q == n \div RADIX
  <2> DEFINE r == n % RADIX
  <2>0. n >= RADIX BY <1>2, <1>4
  <2>1. q \in Nat /\ q < n /\ r \in Digit /\ n = RADIX * q + r BY <1>2, <2>0, Division
  <2>2. Quotes!digits[n] = Append(Quotes!digits[q], r) BY <1>2, <1>4, DigitsDef, Zenon
  <2> HIDE DEF q, r
  <2>3. q \notin T
    <3> HIDE DEF T
    <3> QED BY <1>1, <1>2, <2>1
  <2>4. HasValue(Quotes!digits[q], q) BY <2>1, <2>3
  <2>5. Quotes!digits[q] \in Seq(Digit) BY <2>1, DigitsDef, Zenon
  <2>6. HasValue(Append(Quotes!digits[q], r), RADIX * q + r) BY <2>1, <2>4, <2>5, OneDigitMore
  <2> QED BY <1>2, <2>1, <2>2, <2>6
<1> QED BY <1>3, <1>4

\* What power computes.
LEMMA PowerDef ==
    ASSUME WellOrdered
    PROVE  /\ Quotes!power[0] = 1
           /\ \A k \in Nat : Quotes!power[k] \in Nat /\ Quotes!power[k + 1] = RADIX * Quotes!power[k]
<1> USE QuoteConstants
<1> DEFINE base == [k \in Nat |-> 1]
<1> DEFINE down == [k \in Nat |-> IF k = 0 THEN 0 ELSE k - 1]
<1> DEFINE step == [x \in Nat \X Nat |-> RADIX * x[2]]
<1>1. base \in [Nat -> Nat] /\ down \in [Nat -> Nat] /\ Descends({0}, down) /\ {0} \in SUBSET Nat
  BY DEF Descends
<1>2. step \in [Nat \X Nat -> Nat]
  <2>1. \A x \in Nat \X Nat : RADIX * x[2] \in Nat OBVIOUS
  <2> QED BY <2>1
<1>3. PICK f \in [Nat -> Nat] : Solution(f, {0}, base, down, step)
  <2> HIDE DEF base, down, step
  <2> QED BY <1>1, <1>2, Recursion, Zenon
<1>4. \A k \in Nat : f[k] = IF k = 0 THEN 1 ELSE RADIX * f[k - 1]
  <2> SUFFICES ASSUME NEW k \in Nat PROVE f[k] = IF k = 0 THEN 1 ELSE RADIX * f[k - 1] OBVIOUS
  <2>1. f[k] = IF k \in {0} THEN base[k] ELSE step[<<k, f[down[k]]>>] BY <1>3, Zenon DEF Solution
  <2>2. CASE k = 0 BY <2>1, <2>2
  <2>3. CASE k # 0
    <3>1. k - 1 \in Nat /\ down[k] = k - 1 /\ f[k - 1] \in Nat BY <2>3
    <3>2. step[<<k, f[k - 1]>>] = RADIX * f[k - 1]
      <4>1. <<k, f[k - 1]>> \in Nat \X Nat BY <3>1
      <4> QED BY <4>1
    <3> HIDE DEF base, down, step
    <3> QED BY <2>1, <2>3, <3>1, <3>2
  <2> QED BY <2>2, <2>3
<1> HIDE DEF base, down, step
<1>5. f = [k \in Nat |-> IF k = 0 THEN 1 ELSE RADIX * f[k - 1]] BY <1>4
<1>6. Quotes!power = [k \in Nat |-> IF k = 0 THEN 1 ELSE RADIX * Quotes!power[k - 1]]
  BY <1>5 DEF Quotes!power
<1>7. \A k \in Nat : Quotes!power[k] = IF k = 0 THEN 1 ELSE RADIX * Quotes!power[k - 1] BY <1>6
<1>8. \A k \in Nat : Quotes!power[k + 1] = RADIX * Quotes!power[k] BY <1>7
<1>9. \A k \in Nat : Quotes!power[k] \in Nat
  <2> DEFINE T == {k \in Nat : Quotes!power[k] \notin Nat}
  <2> SUFFICES ASSUME T # {} PROVE FALSE OBVIOUS
  <2>1. PICK k \in T : \A y \in T : k <= y
    <3>1. T \in SUBSET Nat OBVIOUS
    <3> HIDE DEF T
    <3> QED BY <3>1 DEF WellOrdered
  <2>2. k \in Nat /\ Quotes!power[k] \notin Nat OBVIOUS
  <2>3. k # 0 BY <1>7, <2>2
  <2>4. k - 1 \in Nat /\ ~(k <= k - 1) BY <2>2, <2>3
  <2>5. k - 1 \notin T
    <3> HIDE DEF T
    <3> QED BY <2>1, <2>4
  <2>6. Quotes!power[k - 1] \in Nat BY <2>4, <2>5
  <2> HIDE DEF T
  <2>7. Quotes!power[k] = RADIX * Quotes!power[k - 1] BY <1>7, <2>2, <2>3
  <2>8. RADIX * Quotes!power[k - 1] \in Nat BY <2>6
  <2> QED BY <2>2, <2>7, <2>8
<1> QED BY <1>7, <1>8, <1>9

\* More digits hold more.
LEMMA PowerGrows ==
    ASSUME WellOrdered PROVE \A h \in Nat : \A k \in 0 .. h : Quotes!power[k] <= Quotes!power[h]
<1> USE QuoteConstants
<1> DEFINE T == {h \in Nat : ~\A k \in 0 .. h : Quotes!power[k] <= Quotes!power[h]}
<1> SUFFICES ASSUME T # {} PROVE FALSE OBVIOUS
<1>1. PICK h \in T : \A y \in T : h <= y
  <2>1. T \in SUBSET Nat OBVIOUS
  <2> HIDE DEF T
  <2> QED BY <2>1 DEF WellOrdered
<1>2. h \in Nat /\ ~\A k \in 0 .. h : Quotes!power[k] <= Quotes!power[h] OBVIOUS
<1>3. h # 0 BY <1>2, PowerDef
<1>4. h - 1 \in Nat /\ ~(h <= h - 1) /\ h = (h - 1) + 1 BY <1>2, <1>3
<1>5. h - 1 \notin T
  <2> HIDE DEF T
  <2> QED BY <1>1, <1>4
<1>6. \A k \in 0 .. h - 1 : Quotes!power[k] <= Quotes!power[h - 1] BY <1>4, <1>5
<1> HIDE DEF T
<1>7. Quotes!power[h - 1] \in Nat /\ Quotes!power[h] = RADIX * Quotes!power[h - 1] /\ Quotes!power[h] \in Nat
  BY <1>2, <1>4, PowerDef
<1>8. Quotes!power[h - 1] <= Quotes!power[h]
  <2> DEFINE x == Quotes!power[h - 1]
  <2>1. x \in Nat BY <1>7
  <2> HIDE DEF x
  <2>2. x <= RADIX * x BY <2>1
  <2> QED BY <1>7, <2>2 DEF x
<1>9. \A k \in 0 .. h : Quotes!power[k] <= Quotes!power[h]
  <2> SUFFICES ASSUME NEW k \in 0 .. h PROVE Quotes!power[k] <= Quotes!power[h] OBVIOUS
  <2>1. CASE k = h BY <1>7, <2>1
  <2>2. CASE k # h
    <3>1. k \in 0 .. h - 1 /\ k \in Nat BY <1>2, <2>2
    <3>2. Quotes!power[k] \in Nat BY <3>1, PowerDef
    <3> QED BY <1>6, <1>7, <1>8, <3>1, <3>2
  <2> QED BY <2>1, <2>2
<1> QED BY <1>2, <1>9

\* A number is less than what its digits can hold.
LEMMA DigitsHold == ASSUME WellOrdered PROVE \A n \in Nat : n < Quotes!power[Len(Quotes!digits[n])]
<1> USE QuoteConstants
<1> DEFINE T == {n \in Nat : ~(n < Quotes!power[Len(Quotes!digits[n])])}
<1> SUFFICES ASSUME T # {} PROVE FALSE OBVIOUS
<1>1. PICK n \in T : \A y \in T : n <= y
  <2>1. T \in SUBSET Nat OBVIOUS
  <2> HIDE DEF T
  <2> QED BY <2>1 DEF WellOrdered
<1>2. n \in Nat /\ ~(n < Quotes!power[Len(Quotes!digits[n])]) OBVIOUS
<1>3. CASE n < RADIX
  <2>1. Quotes!digits[n] = <<n>> BY <1>2, <1>3, DigitsDef, Zenon
  <2>2. Len(<<n>>) = 0 + 1 OBVIOUS
  <2>3. Quotes!power[0 + 1] = RADIX * 1 BY PowerDef, Zenon
  <2> HIDE DEF T
  <2> QED BY <1>2, <1>3, <2>1, <2>2, <2>3
<1>4. CASE ~(n < RADIX)
  <2> DEFINE q == n \div RADIX
  <2> DEFINE r == n % RADIX
  <2> DEFINE L == Len(Quotes!digits[q])
  <2>0. n >= RADIX BY <1>2, <1>4
  <2>1. q \in Nat /\ q < n /\ r \in Digit /\ n = RADIX * q + r BY <1>2, <2>0, Division, Zenon
  <2>2. Quotes!digits[n] = Append(Quotes!digits[q], r) BY <1>2, <1>4, DigitsDef, Zenon
  <2> HIDE DEF q, r
  <2>3. q \notin T
    <3> HIDE DEF T
    <3> QED BY <1>1, <1>2, <2>1
  <2>4. q < Quotes!power[L] BY <2>1, <2>3
  <2>5. Quotes!digits[q] \in Seq(Digit) BY <2>1, DigitsDef, Zenon
  <2>6. L \in Nat /\ Len(Quotes!digits[n]) = L + 1 BY <2>2, <2>5
  <2> HIDE DEF T, L
  <2>7. Quotes!power[L] \in Nat /\ Quotes!power[L + 1] = RADIX * Quotes!power[L] BY <2>6, PowerDef, Zenon
  <2>8. RADIX * (q + 1) <= RADIX * Quotes!power[L]
    <3> DEFINE x == Quotes!power[L]
    <3>1. x \in Nat /\ q + 1 <= x BY <2>1, <2>4, <2>7
    <3> HIDE DEF x
    <3>2. RADIX * (q + 1) <= RADIX * x BY <2>1, <3>1
    <3> QED BY <3>2 DEF x
  <2>9. n < RADIX * (q + 1) BY <2>1 DEF Digit
  <2>10. n < Quotes!power[L + 1] BY <1>2, <2>1, <2>7, <2>8, <2>9
  <2> QED BY <1>2, <2>6, <2>10
<1> QED BY <1>3, <1>4

\* What the header needs of sequences.
LEMMA NothingJoined == ASSUME NEW S, NEW s \in Seq(S) PROVE <<>> \o s = s
  OBVIOUS

\* What a concatenation holds at each place.
LEMMA JoinedAt ==
    ASSUME NEW S, NEW s \in Seq(S), NEW t \in Seq(S)
    PROVE  /\ s \o t \in Seq(S)
           /\ \A i \in 1 .. Len(s) + Len(t) : (s \o t)[i] = IF i <= Len(s) THEN s[i] ELSE t[i - Len(s)]
  OBVIOUS

\* The part of a sequence from the first to the last element is all of it.
LEMMA WholeSubSeq == ASSUME NEW S, NEW s \in Seq(S) PROVE SubSeq(s, 1, Len(s)) = s
  OBVIOUS

\* What a part of a sequence holds.
LEMMA PartOf ==
    ASSUME NEW S, NEW s \in Seq(S), NEW m \in 1 .. Len(s), NEW n \in m .. Len(s)
    PROVE  /\ SubSeq(s, m, n) \in Seq(S) /\ Len(SubSeq(s, m, n)) = n - m + 1
           /\ \A i \in 1 .. n - m + 1 : SubSeq(s, m, n)[i] = s[m + i - 1]
  OBVIOUS

\* Sequences that hold the same are the same.
LEMMA SameSeq ==
    ASSUME NEW S, NEW s \in Seq(S), NEW t \in Seq(S), Len(s) = Len(t),
           \A i \in 1 .. Len(s) : s[i] = t[i]
    PROVE  s = t
  OBVIOUS

\* A header that fits is read back.
LEMMA HeaderParsed ==
    ASSUME WellOrdered, NEW n \in Nat, Quotes!Fits(n)
    PROVE  /\ n < Quotes!power[header_length]
           /\ Quotes!Parse(SubSeq(Quotes!Header(n), 1, header_length)) = n
<1> USE QuoteConstants
<1> DEFINE d == Quotes!digits[n]
<1> DEFINE L == Len(d)
<1> DEFINE H == Quotes!Header(n)
<1>0. d \in Seq(Digit) BY DigitsDef, Zenon
<1>1. d \in Seq(Digit) /\ L \in Nat
  <2> HIDE DEF d
  <2> QED BY <1>0
<1>2. L >= 1
  <2>1. CASE n < RADIX
    <3>1. d = <<n>> BY <2>1, DigitsDef, Zenon
    <3> HIDE DEF d
    <3> QED BY <3>1
  <2>2. CASE ~(n < RADIX)
    <3> DEFINE q == n \div RADIX
    <3>1. n >= RADIX BY <2>2
    <3>2. q \in Nat BY <3>1, Division
    <3>3. d = Append(Quotes!digits[q], n % RADIX) BY <2>2, DigitsDef, Zenon
    <3> HIDE DEF q
    <3>4. Quotes!digits[q] \in Seq(Digit) BY <3>2, DigitsDef, Zenon
    <3> QED BY <3>3, <3>4
  <2> QED BY <2>1, <2>2
<1> DEFINE p == header_length - L
<1> DEFINE pad == [i \in 1 .. p |-> Quotes!Blank]
<1>4. Len(H) = header_length BY DEF Quotes!Fits
<1> DEFINE S == Digit \cup {-1}
<1>5. d \in Seq(S) /\ \A i \in 1 .. L : d[i] # -1
  BY <1>1 DEF Digit
<1>6. p \in Int BY <1>1
<1>7. p >= 0 /\ H = pad \o d
  <2>1. CASE L < header_length
    <3>1. p >= 0 BY <1>1, <2>1
    <3>2. H = pad \o d BY <2>1 DEF Quotes!Header
    <3> QED BY <3>1, <3>2
  <2>2. CASE ~(L < header_length)
    <3>1. H = d BY <2>2 DEF Quotes!Header
    <3>2. L = header_length BY <1>4, <3>1
    <3>3. p = 0 BY <1>1, <3>2
    <3>4. pad = <<>> BY <3>3
    <3>5. pad \o d = d BY <1>5, <3>4, NothingJoined, Zenon
    <3>6. H = pad \o d BY <3>1, <3>5, Zenon
    <3> HIDE DEF p, pad, d, H
    <3>7. p >= 0 BY <3>3
    <3> QED BY <3>6, <3>7
  <2> QED BY <2>1, <2>2, Zenon
<1>8. p \in Nat /\ p < header_length BY <1>1, <1>2, <1>6, <1>7
<1>9. pad \in Seq(S) /\ Len(pad) = p /\ \A i \in 1 .. p : pad[i] = -1 BY <1>8 DEF Quotes!Blank
<1> HIDE DEF d, H, p, pad, S
<1>10. /\ H \in Seq(S)
       /\ \A i \in 1 .. p + L : H[i] = IF i <= p THEN pad[i] ELSE d[i - p]
  BY <1>5, <1>7, <1>9, JoinedAt
<1>11. p + L = header_length BY <1>1 DEF p
<1>12. SubSeq(H, 1, header_length) = H BY <1>4, <1>10, WholeSubSeq
<1>13. \A i \in 1 .. p : H[i] = -1
  <2> TAKE i \in 1 .. p
  <2>1. i \in 1 .. p + L /\ i <= p BY <1>1, <1>8
  <2> QED BY <1>9, <1>10, <2>1
<1>14. \A i \in 1 .. L : H[p + i] = d[i]
  <2> TAKE i \in 1 .. L
  <2>1. p + i \in 1 .. p + L /\ ~(p + i <= p) /\ (p + i) - p = i BY <1>1, <1>8
  <2> QED BY <1>10, <2>1
<1> DEFINE ok(i) == H[i] # Quotes!Blank /\ \A j \in 1 .. i - 1 : H[j] = Quotes!Blank
<1>15. DOMAIN H = 1 .. header_length BY <1>4, <1>10
<1>16. p + 1 \in DOMAIN H /\ ok(p + 1)
  <2>1. 1 \in 1 .. L BY <1>1, <1>2
  <2>2. H[p + 1] # -1 BY <1>5, <1>14, <2>1
  <2>3. (p + 1) - 1 = p BY <1>8
  <2> QED BY <1>8, <1>13, <1>15, <2>2, <2>3 DEF Quotes!Blank
<1>17. ASSUME NEW i \in DOMAIN H, ok(i) PROVE i = p + 1
  <2>1. i \in 1 .. header_length BY <1>15
  <2>2. ~(i <= p)
    <3> SUFFICES ASSUME i <= p PROVE FALSE OBVIOUS
    <3>1. i \in 1 .. p BY <1>8, <2>1
    <3> QED BY <1>13, <1>17, <3>1 DEF Quotes!Blank
  <2>3. ~(i > p + 1)
    <3> SUFFICES ASSUME i > p + 1 PROVE FALSE OBVIOUS
    <3>1. p + 1 \in 1 .. i - 1 BY <1>8, <2>1
    <3> QED BY <1>16, <1>17, <3>1
  <2> QED BY <1>8, <2>1, <2>2, <2>3
<1> DEFINE first == CHOOSE i \in DOMAIN H : ok(i)
<1>18. first = p + 1 BY <1>16, <1>17
<1>19. Quotes!Parse(H) = Quotes!value(SubSeq(H, first, Len(H))) BY DEF Quotes!Parse
<1> HIDE DEF first, ok
<1>20. SubSeq(H, p + 1, header_length) = d
  <2>1. p + 1 \in 1 .. Len(H) /\ header_length \in p + 1 .. Len(H) BY <1>4, <1>8
  <2> DEFINE t == SubSeq(H, p + 1, header_length)
  <2>2. /\ t \in Seq(S)
        /\ Len(t) = header_length - (p + 1) + 1
        /\ \A i \in 1 .. header_length - (p + 1) + 1 : t[i] = H[p + 1 + i - 1]
    BY <1>10, <2>1, PartOf
  <2> HIDE DEF t
  <2>3. header_length - (p + 1) + 1 = L /\ p + 1 <= header_length BY <1>1, <1>8, <1>11
  <2>4. \A i \in 1 .. L : t[i] = d[i]
    <3> TAKE i \in 1 .. L
    <3>1. p + 1 + i - 1 = p + i BY <1>1, <1>8
    <3>2. t[i] = H[p + 1 + i - 1] BY <2>2, <2>3
    <3> QED BY <1>14, <3>1, <3>2
  <2>5. Len(t) = Len(d) BY <2>2, <2>3
  <2>6. t = d BY <1>5, <2>2, <2>4, <2>5, SameSeq
  <2> QED BY <2>6 DEF t
<1>21. Quotes!value(d) = n BY <1>1, DigitsHaveValue, ValueIs DEF d
<1>22. n < Quotes!power[header_length]
  <2>1. n < Quotes!power[L] BY DigitsHold DEF d
  <2>2. L \in 0 .. header_length BY <1>1, <1>8, <1>11
  <2>3. Quotes!power[L] <= Quotes!power[header_length] BY <2>2, PowerGrows
  <2>4. Quotes!power[L] \in Nat /\ Quotes!power[header_length] \in Nat BY <1>1, PowerDef
  <2> QED BY <2>1, <2>3, <2>4
<1>23. Quotes!Parse(H) = n BY <1>4, <1>18, <1>19, <1>20, <1>21, Zenon
<1> QED BY <1>4, <1>12, <1>22, <1>23, Zenon DEF H

-----------------------------------------------------------------------------
(* The copying programs and the stock server, whatever the constants *)

Ind == INSTANCE WellFoundedInduction

\* The natural numbers are well ordered.
LEMMA Least == WellOrdered
<1> SUFFICES ASSUME NEW T \in SUBSET Nat, T # {} PROVE \E x \in T : \A y \in T : x <= y BY DEF WellOrdered
<1> DEFINE R == Ind!OpToRel(<, Nat)
<1>1. Ind!IsWellFoundedOn(R, Nat) BY Ind!NatLessThanWellFounded, Zenon
<1>2. PICK x \in T : \A y \in T : ~ (<<y, x>> \in R)
  <2> HIDE DEF R
  <2> QED BY <1>1, Ind!WFMin, Zenon
<1>3. \A y \in T : y < x => <<y, x>> \in R BY DEF Ind!OpToRel
<1>4. \A y \in T : ~(y < x) BY <1>2, <1>3, Zenon
<1> HIDE DEF R
<1> QED BY <1>4

\* Whatever the sizes of the file, of the buffer and of the pieces in which the
\* bytes come, the readers of dpipe.cpp, fifo_pipe.cpp, UNIX_socket.cpp and
\* transfer_data.cpp output every byte, for the first time in the order of the
\* file, and fifo_pipe.cpp's outputs nothing else.
THEOREM EveryByteInOrder == StreamSpec => []NothingSkipped
<1>1. CopyInv => NothingSkipped BY DEF CopyInv
<1>2. CopyInv /\ [StreamNext]_all => CopyInv' BY Least, CopyKeeps
<1> QED BY <1>1, <1>2, CopyStarts, PTL DEF StreamSpec

\* A reader that has seen the end of its input, or has received the struct, has
\* taken the whole file: the last conjunct of CopiedToTheEnd.
THEOREM EndMeansWholeFile == StreamSpec => [](reader \in {"end", "served"} => taken = Bytes)
<1>1. CopyInv => (reader \in {"end", "served"} => taken = Bytes) BY DEF CopyInv, WholeFile
<1>2. CopyInv /\ [StreamNext]_all => CopyInv' BY Least, CopyKeeps
<1> QED BY <1>1, <1>2, CopyStarts, PTL DEF StreamSpec

\* The headers of the stock server are read back.
LEMMA Headers == HeadersParse
  BY Least, HeaderParsed, Zenon DEF HeadersParse

\* However many clients there are, whatever pieces are written and whatever breaks, a
\* client of the stock server that is accepted and stays connected reports no error,
\* unless the stocks do not fit the header.
THEOREM NoErrorWithoutCause == StreamSpec => []ErrorsHaveCause
<1>1. StreamInit => QuoteInv BY QuoteStarts DEF StreamInit
<1>2. QuoteInv /\ [StreamNext]_all => QuoteInv' BY Headers, QuotesOnly, QuoteKeeps
<1>3. QuoteInv => ErrorsHaveCause BY DEF QuoteInv, ErrorsHaveCause
<1> QED BY <1>1, <1>2, <1>3, PTL DEF StreamSpec

\* For every radix, header length and size of the stocks, a client that has read a
\* header waits for exactly the data that follow it, and whatever does not fit the
\* header is never announced.
THEOREM HeadersAreBelieved == StreamSpec => []HeaderIsBelieved
<1>1. StreamInit => QuoteInv BY QuoteStarts DEF StreamInit
<1>2. QuoteInv /\ [StreamNext]_all => QuoteInv' BY Headers, QuotesOnly, QuoteKeeps
<1>3. QuoteInv => HeaderIsBelieved BY DEF QuoteInv, HeaderIsBelieved
<1> QED BY <1>1, <1>2, <1>3, PTL DEF StreamSpec
=============================================================================
