------------------------ MODULE EpollPrograms_proofs ------------------------
(***************************************************************************)
(* Proofs about the programs around epoll, for any number of clients,      *)
(* messages and bytes: events are true when they are handled, the shared   *)
(* buffers go from one owner to the next, and nobody is cut off.           *)
(***************************************************************************)
EXTENDS EpollPrograms, TLAPS

\* The provers tried on a leaf, in turn, and the time each of them gets.
USE SMTT(30), ZenonT(20), SMTT(31)

-----------------------------------------------------------------------------
(* long_connection *)

\* What a step of EpollNext is to it.
LEMMA LongOnly == [EpollNext]_all => [Long!Next]_(Long!vars)
  BY DEF EpollNext, Serve, Use, Keep, all, longVars, Long!vars, Long!counts

\* The constants it depends on.
LEMMA LongConstants ==
    /\ IsFiniteSet(Clients) /\ Nobody \notin Clients /\ Listen \notin Clients
    /\ MaxBytes \in Nat
  BY ProgramsAssumption, EpollAssumption

LongTypes ==
    /\ alive \in BOOLEAN /\ fault \in BOOLEAN
    /\ link \in [Clients -> {"none", "backlog", "open", "closed"}]
    /\ watch \in [Clients -> {"none", "in", "out"}]
    /\ rdllist \subseteq Clients /\ batch \subseteq Clients \cup {Listen} /\ writing \in Clients \cup {Nobody}
    /\ far \in [Clients -> {"up", "fin", "shut", "reset", "lost"}]
    /\ client \in [Clients -> {"type", "read", "left"}]
    /\ out \in [Clients -> Nat] /\ arrived \in [Clients -> Nat] /\ taken \in [Clients -> Nat]
    /\ echoed \in [Clients -> Nat] /\ got \in [Clients -> Nat]

\* No byte is taken before it has arrived, and none is echoed before it was taken.
InOrder ==
    \A c \in Clients : got[c] <= echoed[c] /\ echoed[c] <= taken[c] /\ taken[c] <= arrived[c] /\ arrived[c] <= out[c]

\* Only what is open is watched, reported or written to, one thing at a time.
OpenOnly ==
    \A c \in Clients :
        /\ c \in rdllist \/ c \in batch \/ writing = c => link[c] = "open"
        /\ watch[c] # "none" <=> link[c] = "open"
        /\ ~(c \in batch /\ writing = c)

\* The event of a connection in the batch is still there when it is reached.
BatchTrue == \A c \in Clients : c \in batch => Long!HasEvent(c, watch[c])

\* Who is at the end of its stream has sent all, and who reset it has not read all.
EndIsTrue ==
    \A c \in Clients :
        /\ far[c] \in {"fin", "shut"} => client[c] = "left" /\ arrived[c] = out[c]
        /\ far[c] = "reset" => client[c] = "left" /\ got[c] < echoed[c]

LongInv == LongTypes /\ InOrder /\ OpenOnly /\ BatchTrue /\ EndIsTrue /\ Long!EndsOnlyWithClient

\* At the start nobody is connected.
LEMMA LongBegins == ASSUME Long!Init PROVE LongInv /\ Long!EdgeNotLost
<1> USE LongConstants DEF Long!Init, Long!Zero
<1>1. LongTypes BY DEF LongTypes
<1>2. InOrder /\ OpenOnly BY DEF InOrder, OpenOnly
<1>3. BatchTrue /\ EndIsTrue BY DEF BatchTrue, EndIsTrue
<1>4. Long!EndsOnlyWithClient BY DEF Long!EndsOnlyWithClient
<1>5. Long!EdgeNotLost BY DEF Long!EdgeNotLost, Long!HasEvent
<1> QED BY <1>1, <1>2, <1>3, <1>4, <1>5 DEF LongInv

\* The bounds of a run of bytes.
LEMMA Between ==
    ASSUME NEW m \in Nat, NEW k \in Nat, NEW n \in m + 1 .. k PROVE n \in Nat /\ m < n /\ n <= k
  OBVIOUS

\* What the clients do, and what the network tells the server of it.
LEMMA LongClientKeeps ==
    ASSUME LongInv, NEW c \in Clients,
           \/ Long!Connect(c) \/ Long!SendLine(c) \/ Long!ReadReply(c) \/ Long!Leave(c) \/ Long!Arrive(c)
           \/ \E how \in {"fin", "shut", "reset", "lost"} : Long!PeerEnds(c, how)
    PROVE  LongInv'
<1>0. LongTypes /\ InOrder /\ OpenOnly /\ BatchTrue /\ EndIsTrue /\ Long!EndsOnlyWithClient BY DEF LongInv
<1> USE LongConstants DEF LongTypes
<1>1. CASE Long!Connect(c)
  <2>1. /\ link[c] = "none" /\ link' = [link EXCEPT ![c] = "backlog"]
        /\ UNCHANGED <<alive, fault, watch, rdllist, batch, writing, bufs, far, client, out, arrived, taken, echoed, got>>
    BY <1>0, <1>1 DEF Long!Connect, Long!counts
  <2>2. LongTypes' /\ InOrder' /\ EndIsTrue' BY <1>0, <2>1 DEF InOrder, EndIsTrue
  <2>3. OpenOnly' BY <1>0, <2>1 DEF OpenOnly
  <2>4. BatchTrue' BY <1>0, <2>1 DEF BatchTrue, Long!HasEvent
  <2>5. Long!EndsOnlyWithClient' BY <1>0, <2>1 DEF Long!EndsOnlyWithClient
  <2> QED BY <2>2, <2>3, <2>4, <2>5 DEF LongInv
<1>2. CASE Long!SendLine(c)
  <2>1. PICK n \in out[c] + 1 .. MaxBytes : out' = [out EXCEPT ![c] = n] BY <1>2, Zenon DEF Long!SendLine
  <2>2. out' = [out EXCEPT ![c] = n] /\ n \in Nat /\ out[c] < n BY <1>0, <2>1
  <2>3. /\ client[c] = "type" /\ client' = [client EXCEPT ![c] = "read"]
        /\ UNCHANGED <<alive, fault, link, watch, rdllist, batch, writing, bufs, far, arrived, taken, echoed, got>>
    BY <1>0, <1>2 DEF Long!SendLine
  <2>4. LongTypes' /\ InOrder' BY <1>0, <2>1, <2>2, <2>3 DEF InOrder
  <2>5. OpenOnly' BY <1>0, <2>1, <2>2, <2>3 DEF OpenOnly
  <2>6. BatchTrue' BY <1>0, <2>1, <2>2, <2>3 DEF BatchTrue, Long!HasEvent
  <2>7. EndIsTrue' BY <1>0, <2>1, <2>2, <2>3 DEF EndIsTrue
  <2>8. Long!EndsOnlyWithClient' BY <1>0, <2>1, <2>2, <2>3 DEF InOrder, Long!EndsOnlyWithClient
  <2> QED BY <2>4, <2>5, <2>6, <2>7, <2>8 DEF LongInv
<1>3. CASE Long!ReadReply(c)
  <2>1. /\ client[c] = "read"
        /\ UNCHANGED <<alive, fault, link, watch, rdllist, batch, writing, bufs, far, out, arrived, taken, echoed>>
    BY <1>0, <1>3 DEF Long!ReadReply
  <2>2. client' \in [Clients -> {"type", "read", "left"}] /\ \A p \in Clients : p # c => client'[p] = client[p]
    BY <1>0, <1>3 DEF Long!ReadReply
  <2>3. /\ got' \in [Clients -> Nat] /\ \A p \in Clients : p # c => got'[p] = got[p]
        /\ got'[c] <= echoed[c]
    BY <1>0, <1>3, Between DEF Long!ReadReply, InOrder
  <2>4. LongTypes' /\ InOrder' BY <1>0, <2>1, <2>2, <2>3 DEF InOrder
  <2>5. OpenOnly' BY <1>0, <2>1, <2>2, <2>3 DEF OpenOnly
  <2>6. BatchTrue' BY <1>0, <2>1, <2>2, <2>3 DEF BatchTrue, Long!HasEvent
  <2>7. EndIsTrue' BY <1>0, <2>1, <2>2, <2>3 DEF EndIsTrue
  <2>8. Long!EndsOnlyWithClient' BY <1>0, <2>1, <2>2, <2>3 DEF Long!EndsOnlyWithClient
  <2> QED BY <2>4, <2>5, <2>6, <2>7, <2>8 DEF LongInv
<1>4. CASE Long!Leave(c)
  <2>1. /\ client[c] = "type" /\ client' = [client EXCEPT ![c] = "left"]
        /\ UNCHANGED <<alive, fault, link, watch, rdllist, batch, writing, bufs, far, out, arrived, taken, echoed, got>>
    BY <1>0, <1>4 DEF Long!Leave, Long!counts
  <2>2. LongTypes' /\ InOrder' BY <1>0, <2>1 DEF InOrder
  <2>3. OpenOnly' BY <1>0, <2>1 DEF OpenOnly
  <2>4. BatchTrue' BY <1>0, <2>1 DEF BatchTrue, Long!HasEvent
  <2>5. EndIsTrue' BY <1>0, <2>1 DEF EndIsTrue
  <2>6. Long!EndsOnlyWithClient' BY <1>0, <2>1 DEF Long!EndsOnlyWithClient
  <2> QED BY <2>2, <2>3, <2>4, <2>5, <2>6 DEF LongInv
<1>5. CASE Long!Arrive(c)
  <2>1. PICK n \in arrived[c] + 1 .. out[c] : arrived' = [arrived EXCEPT ![c] = n] BY <1>5, Zenon DEF Long!Arrive
  <2>2. arrived' = [arrived EXCEPT ![c] = n] /\ n \in Nat /\ arrived[c] < n /\ n <= out[c] BY <1>0, <2>1
  <2>3. /\ link[c] \in {"backlog", "open"} /\ far[c] = "up"
        /\ rdllist' = IF watch[c] = "in" THEN rdllist \cup {c} ELSE rdllist
        /\ UNCHANGED <<alive, fault, link, watch, batch, writing, bufs, far, client, out, taken, echoed, got>>
    BY <1>0, <1>5 DEF Long!Arrive
  <2>4. LongTypes' BY <1>0, <2>1, <2>2, <2>3
  <2>5. InOrder' BY <1>0, <2>1, <2>2, <2>3 DEF InOrder
  <2>6. OpenOnly' BY <1>0, <2>1, <2>2, <2>3 DEF OpenOnly
  <2>7. BatchTrue' BY <1>0, <2>1, <2>2, <2>3 DEF BatchTrue, Long!HasEvent
  <2>8. EndIsTrue' BY <1>0, <2>1, <2>2, <2>3 DEF EndIsTrue
  <2>9. Long!EndsOnlyWithClient' BY <1>0, <2>1, <2>2, <2>3 DEF Long!EndsOnlyWithClient
  <2> QED BY <2>4, <2>5, <2>6, <2>7, <2>8, <2>9 DEF LongInv
<1>6. ASSUME NEW how \in {"fin", "shut", "reset", "lost"}, Long!PeerEnds(c, how) PROVE LongInv'
  <2>1. /\ far' = [far EXCEPT ![c] = how] /\ far[c] \in {"up", "fin"}
        /\ how = "fin" => client[c] = "left" /\ arrived[c] = out[c]
        /\ how = "shut" => far[c] = "fin"
        /\ how = "reset" => client[c] = "left" /\ echoed[c] > got[c]
        /\ rdllist' = rdllist \/ (watch[c] # "none" /\ rdllist' = rdllist \cup {c})
        /\ UNCHANGED <<alive, fault, link, watch, batch, writing, bufs, client, out, arrived, taken, echoed, got>>
    BY <1>0, <1>6 DEF Long!PeerEnds, Long!counts
  <2>2. LongTypes' BY <1>0, <2>1
  <2>3. InOrder' BY <1>0, <2>1 DEF InOrder
  <2>4. OpenOnly' BY <1>0, <2>1 DEF OpenOnly
  <2>5. BatchTrue' BY <1>0, <2>1 DEF BatchTrue, Long!HasEvent
  <2>6. EndIsTrue' BY <1>0, <2>1 DEF EndIsTrue
  <2>7. Long!EndsOnlyWithClient' BY <1>0, <2>1 DEF Long!EndsOnlyWithClient
  <2> QED BY <2>2, <2>3, <2>4, <2>5, <2>6, <2>7 DEF LongInv
<1> HIDE DEF LongTypes
<1> QED BY <1>1, <1>2, <1>3, <1>4, <1>5, <1>6

\* run: what it reports, it has just seen; what it accepts was not watched.
LEMMA LongRunKeeps == ASSUME LongInv, Long!Wait \/ \E c \in Clients : Long!Accept(c) PROVE LongInv'
<1>0. LongTypes /\ InOrder /\ OpenOnly /\ BatchTrue /\ EndIsTrue /\ Long!EndsOnlyWithClient BY DEF LongInv
<1> USE LongConstants DEF LongTypes
<1>1. CASE Long!Wait
  <2>1. /\ batch' \ {Listen} \subseteq {c \in rdllist : Long!HasEvent(c, watch[c])}
        /\ batch' \subseteq Clients \cup {Listen} /\ rdllist' = {} /\ writing = Nobody
        /\ UNCHANGED <<alive, fault, link, watch, writing, bufs, far, client, out, arrived, taken, echoed, got>>
    BY <1>0, <1>1 DEF Long!Wait, Long!counts
  <2>2. LongTypes' BY <1>0, <2>1
  <2>3. InOrder' /\ EndIsTrue' BY <1>0, <2>1 DEF InOrder, EndIsTrue
  <2>4. Long!EndsOnlyWithClient' BY <1>0, <2>1 DEF Long!EndsOnlyWithClient
  <2>5. OpenOnly' BY <1>0, <2>1 DEF OpenOnly
  <2>6. BatchTrue' BY <1>0, <2>1 DEF BatchTrue, Long!HasEvent
  <2> QED BY <2>2, <2>3, <2>4, <2>5, <2>6 DEF LongInv
<1>2. ASSUME NEW c \in Clients, Long!Accept(c) PROVE LongInv'
  <2>1. /\ link[c] = "backlog" /\ batch' = batch \ {Listen}
        /\ link' = [link EXCEPT ![c] = "open"] /\ watch' = [watch EXCEPT ![c] = "in"]
        /\ rdllist' \in {rdllist, rdllist \cup {c}}
        /\ UNCHANGED <<alive, fault, writing, bufs, far, client, out, arrived, taken, echoed, got>>
    BY <1>0, <1>2 DEF Long!Accept, Long!Backlog, Long!Notice, Long!counts
  <2>2. LongTypes' BY <1>0, <2>1
  <2>3. InOrder' /\ EndIsTrue' BY <1>0, <2>1 DEF InOrder, EndIsTrue
  <2>4. OpenOnly' BY <1>0, <2>1 DEF OpenOnly
  <2>5. BatchTrue' BY <1>0, <2>1 DEF OpenOnly, BatchTrue, Long!HasEvent
  <2>6. Long!EndsOnlyWithClient' BY <1>0, <2>1 DEF Long!EndsOnlyWithClient
  <2> QED BY <2>2, <2>3, <2>4, <2>5, <2>6 DEF LongInv
<1> HIDE DEF LongTypes
<1> QED BY <1>1, <1>2

\* events_handle, for the connection it has reached.
LEMMA LongHandleKeeps == ASSUME LongInv, NEW c \in Clients, Long!Handle(c) PROVE LongInv'
<1>0. LongTypes /\ InOrder /\ OpenOnly /\ BatchTrue /\ EndIsTrue /\ Long!EndsOnlyWithClient BY DEF LongInv
<1> USE LongConstants DEF LongTypes
<1>1. CASE Long!Close(c)
  <2>1. /\ c \in batch /\ watch[c] = "in" /\ writing = Nobody
        /\ far[c] = "lost" \/ (far[c] # "reset" /\ arrived[c] = taken[c])
        /\ link' = [link EXCEPT ![c] = "closed"] /\ watch' = [watch EXCEPT ![c] = "none"]
        /\ rdllist' = rdllist \ {c} /\ batch' = batch \ {c}
        /\ UNCHANGED <<alive, fault, writing, far, client, out, arrived, taken, echoed, got>>
    BY <1>0, <1>1 DEF Long!Close, Long!Event, Long!counts
  <2>2. LongTypes' BY <1>0, <2>1
  <2>3. InOrder' /\ EndIsTrue' BY <1>0, <2>1 DEF InOrder, EndIsTrue
  <2>4. OpenOnly' BY <1>0, <2>1 DEF OpenOnly
  <2>5. BatchTrue' BY <1>0, <2>1 DEF BatchTrue, Long!HasEvent
  <2>6. Long!EndsOnlyWithClient'
    <3>1. arrived[c] > taken[c] \/ far[c] # "up" BY <1>0, <2>1 DEF BatchTrue, Long!HasEvent
    <3>2. far[c] = "lost" \/ (client[c] = "left" /\ taken[c] = out[c]) BY <1>0, <2>1, <3>1 DEF EndIsTrue
    <3> QED BY <1>0, <2>1, <3>1, <3>2 DEF Long!EndsOnlyWithClient
  <2> QED BY <2>2, <2>3, <2>4, <2>5, <2>6 DEF LongInv
<1>2. CASE Long!ReadFails(c) \/ Long!WriteFails(c)
  <2>1. /\ alive' = FALSE
        /\ UNCHANGED <<fault, link, watch, rdllist, batch, writing, bufs, far, client, out, arrived, taken, echoed, got>>
    BY <1>0, <1>2 DEF Long!ReadFails, Long!WriteFails, Long!Exit, Long!counts
  <2>2. LongTypes' BY <1>0, <2>1, Zenon
  <2>3. InOrder' /\ EndIsTrue' BY <1>0, <2>1 DEF InOrder, EndIsTrue
  <2>4. OpenOnly' BY <1>0, <2>1 DEF OpenOnly
  <2>5. BatchTrue' BY <1>0, <2>1 DEF BatchTrue, Long!HasEvent
  <2>6. Long!EndsOnlyWithClient'
    <3>1. \/ far[c] \in {"reset", "lost"}
          \/ far[c] = "shut" /\ echoed[c] < taken[c]
      BY <1>0, <1>2 DEF Long!ReadFails, Long!WriteFails
    <3>2. far[c] = "lost" \/ (client[c] = "left" /\ got[c] < out[c]) BY <1>0, <3>1 DEF EndIsTrue, InOrder
    <3> QED BY <1>0, <2>1, <3>2 DEF Long!EndsOnlyWithClient
  <2> QED BY <2>2, <2>3, <2>4, <2>5, <2>6 DEF LongInv
<1>3. CASE Long!ReadAll(c)
  <2>1. /\ c \in batch /\ watch[c] = "in" /\ writing = Nobody
        /\ taken' = [taken EXCEPT ![c] = arrived[c]] /\ watch' = [watch EXCEPT ![c] = "out"]
        /\ rdllist' \in {rdllist, rdllist \cup {c}} /\ batch' = batch \ {c}
        /\ UNCHANGED <<alive, fault, link, writing, far, client, out, arrived, echoed, got>>
    BY <1>0, <1>3 DEF Long!ReadAll, Long!Event, Long!Notice
  <2>2. LongTypes' BY <1>0, <2>1
  <2>3. InOrder' BY <1>0, <2>1 DEF InOrder
  <2>4. EndIsTrue' BY <1>0, <2>1 DEF EndIsTrue
  <2>5. OpenOnly' BY <1>0, <2>1 DEF OpenOnly
  <2>6. BatchTrue' BY <1>0, <2>1 DEF BatchTrue, Long!HasEvent
  <2>7. Long!EndsOnlyWithClient'
    <3>1. link[c] = "open" BY <1>0, <2>1 DEF OpenOnly
    <3> QED BY <1>0, <2>1, <3>1 DEF Long!EndsOnlyWithClient
  <2> QED BY <2>2, <2>3, <2>4, <2>5, <2>6, <2>7 DEF LongInv
<1>4. CASE Long!StartWrite(c)
  <2>1. /\ c \in batch /\ writing' = c /\ batch' = batch \ {c}
        /\ UNCHANGED <<alive, fault, link, watch, rdllist, bufs, far, client, out, arrived, taken, echoed, got>>
    BY <1>0, <1>4 DEF Long!StartWrite, Long!Event, Long!counts
  <2>2. LongTypes' BY <1>0, <2>1
  <2>3. InOrder' /\ EndIsTrue' BY <1>0, <2>1 DEF InOrder, EndIsTrue
  <2>4. OpenOnly' BY <1>0, <2>1 DEF OpenOnly
  <2>5. BatchTrue' BY <1>0, <2>1 DEF BatchTrue, Long!HasEvent
  <2>6. Long!EndsOnlyWithClient' BY <1>0, <2>1 DEF Long!EndsOnlyWithClient
  <2> QED BY <2>2, <2>3, <2>4, <2>5, <2>6 DEF LongInv
<1>5. CASE Long!WriteSome(c)
  <2>1. PICK n \in echoed[c] + 1 .. taken[c] : echoed' = [echoed EXCEPT ![c] = n] BY <1>5, Zenon DEF Long!WriteSome
  <2>2. echoed' = [echoed EXCEPT ![c] = n] /\ n \in Nat /\ echoed[c] < n /\ n <= taken[c] BY <1>0, <2>1
  <2>3. UNCHANGED <<alive, fault, link, watch, rdllist, batch, writing, bufs, far, client, out, arrived, taken, got>>
    BY <1>0, <1>5 DEF Long!WriteSome
  <2>4. LongTypes' BY <1>0, <2>1, <2>2, <2>3
  <2>5. InOrder' BY <1>0, <2>1, <2>2, <2>3 DEF InOrder
  <2>6. EndIsTrue' BY <1>0, <2>1, <2>2, <2>3 DEF EndIsTrue, InOrder
  <2>7. OpenOnly' BY <1>0, <2>1, <2>2, <2>3 DEF OpenOnly
  <2>8. BatchTrue' BY <1>0, <2>1, <2>2, <2>3 DEF BatchTrue, Long!HasEvent
  <2>9. Long!EndsOnlyWithClient' BY <1>0, <2>1, <2>2, <2>3 DEF Long!EndsOnlyWithClient
  <2> QED BY <2>4, <2>5, <2>6, <2>7, <2>8, <2>9 DEF LongInv
<1>6. CASE Long!WriteDone(c)
  <2>1. /\ writing = c /\ writing' = Nobody /\ watch' = [watch EXCEPT ![c] = "in"]
        /\ rdllist' \in {rdllist, rdllist \cup {c}}
        /\ UNCHANGED <<alive, fault, link, batch, far, client, out, arrived, taken, echoed, got>>
    BY <1>0, <1>6 DEF Long!WriteDone, Long!Watch, Long!Notice, Long!counts
  <2>2. LongTypes' BY <1>0, <2>1
  <2>3. InOrder' /\ EndIsTrue' BY <1>0, <2>1 DEF InOrder, EndIsTrue
  <2>4. OpenOnly' BY <1>0, <2>1 DEF OpenOnly
  <2>5. BatchTrue' BY <1>0, <2>1 DEF OpenOnly, BatchTrue, Long!HasEvent
  <2>6. Long!EndsOnlyWithClient' BY <1>0, <2>1 DEF Long!EndsOnlyWithClient
  <2> QED BY <2>2, <2>3, <2>4, <2>5, <2>6 DEF LongInv
<1> HIDE DEF LongTypes
<1> QED BY <1>1, <1>2, <1>3, <1>4, <1>5, <1>6 DEF Long!Handle

\* An exit for a call that failed.
LEMMA LongFaultKeeps == ASSUME LongInv, Long!CallFails PROVE LongInv'
<1>1. /\ alive' = FALSE /\ fault' = TRUE
      /\ UNCHANGED <<link, watch, rdllist, batch, writing, bufs, far, client, out, arrived, taken, echoed, got>>
  BY DEF Long!CallFails, Long!WaitFails, Long!AcceptFails, Long!ControlFails, Long!Fault, Long!counts
<1> USE <1>1 DEF LongInv
<1>2. LongTypes' BY Zenon DEF LongTypes
<1>3. InOrder' /\ EndIsTrue' BY DEF InOrder, EndIsTrue
<1>4. OpenOnly' BY DEF OpenOnly
<1>5. BatchTrue' BY DEF BatchTrue, Long!HasEvent
<1>6. Long!EndsOnlyWithClient' BY DEF Long!EndsOnlyWithClient
<1> QED BY <1>2, <1>3, <1>4, <1>5, <1>6

\* All of it together.
LEMMA LongKeeps == ASSUME LongInv, [Long!Next]_(Long!vars) PROVE LongInv'
<1>1. CASE UNCHANGED Long!vars
  BY <1>1 DEF Long!vars, Long!counts, LongInv, LongTypes, InOrder, OpenOnly, BatchTrue, Long!HasEvent,
       EndIsTrue, Long!EndsOnlyWithClient
<1>2. CASE Long!Next BY <1>2, LongClientKeeps, LongRunKeeps, LongHandleKeeps, LongFaultKeeps DEF Long!Next,
     Long!ServerStep, Long!NetworkStep
<1> QED BY <1>1, <1>2

\* Whatever changes what epoll would report also makes epoll notice it.
LEMMA NoticedKeeps == ASSUME LongInv, Long!EdgeNotLost, [Long!Next]_(Long!vars) PROVE (Long!EdgeNotLost)'
<1> DEFINE Seen(c) == c \in rdllist \/ c \in batch \/ writing = c
<1> DEFINE Noticed == \A c \in Clients : alive /\ Long!HasEvent(c, watch[c]) => Seen(c)
<1>0. Noticed BY DEF Long!EdgeNotLost
<1>1. LongInv' BY LongKeeps
<1> SUFFICES Noticed' BY <1>1 DEF Long!EdgeNotLost, LongInv, OpenOnly
<1> USE <1>0, LongConstants DEF LongInv, LongTypes, OpenOnly, Long!HasEvent, Long!counts
<1>2. CASE UNCHANGED Long!vars BY <1>2 DEF Long!vars
<1>3. ASSUME NEW c \in Clients, Long!Connect(c) \/ Long!SendLine(c) \/ Long!ReadReply(c) \/ Long!Leave(c) PROVE Noticed'
  BY <1>3, Zenon DEF Long!Connect, Long!SendLine, Long!ReadReply, Long!Leave
<1>4. ASSUME NEW c \in Clients, Long!Arrive(c) PROVE Noticed'
  <2>1. /\ rdllist' = IF watch[c] = "in" THEN rdllist \cup {c} ELSE rdllist
        /\ \A p \in Clients : p # c => arrived'[p] = arrived[p]
        /\ UNCHANGED <<alive, fault, watch, batch, writing, far, taken>>
    BY <1>4 DEF Long!Arrive
  <2> QED BY <2>1
<1>5. ASSUME NEW c \in Clients, NEW how \in {"fin", "shut", "reset", "lost"}, Long!PeerEnds(c, how) PROVE Noticed'
  <2>1. /\ rdllist \subseteq rdllist' /\ (watch[c] = "in" => c \in rdllist')
        /\ \A p \in Clients : p # c => far'[p] = far[p]
        /\ UNCHANGED <<alive, fault, watch, batch, writing, arrived, taken>>
    BY <1>5 DEF Long!PeerEnds
  <2> QED BY <2>1
<1>6. CASE Long!Wait
  <2>1. /\ \A c \in rdllist : Long!HasEvent(c, watch[c]) => c \in batch'
        /\ batch = {} /\ writing = Nobody
        /\ UNCHANGED <<alive, fault, watch, writing, far, arrived, taken>>
    BY <1>6 DEF Long!Wait
  <2> QED BY <2>1
<1>7. ASSUME NEW c \in Clients, Long!Accept(c) PROVE Noticed'
  <2>1. /\ rdllist' = IF Long!HasEvent(c, "in") THEN rdllist \cup {c} ELSE rdllist
        /\ watch' = [watch EXCEPT ![c] = "in"] /\ batch' = batch \ {Listen}
        /\ UNCHANGED <<alive, fault, writing, far, arrived, taken>>
    BY <1>7 DEF Long!Accept, Long!Notice
  <2> QED BY <2>1
<1>8. ASSUME NEW c \in Clients, Long!Handle(c) PROVE Noticed'
  <2>1. CASE Long!Close(c) BY <2>1 DEF Long!Close, Long!Event
  <2>2. CASE Long!ReadFails(c) \/ Long!WriteFails(c) BY <2>2 DEF Long!ReadFails, Long!WriteFails, Long!Exit
  <2>3. CASE Long!ReadAll(c) BY <2>3 DEF Long!ReadAll, Long!Event, Long!Notice
  <2>4. CASE Long!StartWrite(c) BY <2>4 DEF Long!StartWrite, Long!Event
  <2>5. CASE Long!WriteSome(c) BY <2>5 DEF Long!WriteSome
  <2>6. CASE Long!WriteDone(c) BY <2>6 DEF Long!WriteDone, Long!Watch, Long!Notice
  <2> QED BY <1>8, <2>1, <2>2, <2>3, <2>4, <2>5, <2>6 DEF Long!Handle
<1>9. CASE Long!CallFails
  <2>1. alive' = FALSE
    BY <1>9 DEF Long!CallFails, Long!WaitFails, Long!AcceptFails, Long!ControlFails, Long!Fault
  <2> QED BY <2>1
<1> HIDE DEF LongInv, LongTypes, OpenOnly, Long!HasEvent, Long!counts, Noticed
<1> QED BY <1>2, <1>3, <1>4, <1>5, <1>6, <1>7, <1>8, <1>9 DEF Long!Next, Long!ServerStep, Long!NetworkStep

\* Those who hold a buffer, or have taken one with them.
Holders == {c \in Clients : watch[c] = "out" \/ link[c] = "closed"}

\* A connection is written to only while it is watched for output.
WritesOut == \A c \in Clients : writing = c => watch[c] = "out"

\* What a step may do to them: nothing, or one more of both, or one less.
BufferMoves ==
    \/ bufs' = bufs /\ Holders' = Holders
    \/ \E c \in Clients : c \notin Holders /\ Holders' = Holders \cup {c} /\ bufs' = bufs + 1
    \/ \E c \in Clients : c \in Holders /\ Holders' = Holders \ {c} /\ bufs' = bufs - 1

\* malloc in events_handle, and the one free, at the end of a write.
LEMMA BufferSteps ==
    ASSUME LongInv, WritesOut, [Long!Next]_(Long!vars) PROVE WritesOut' /\ BufferMoves /\ (alive' => alive)
<1>0. LongTypes /\ OpenOnly BY DEF LongInv
<1>1. ASSUME NEW c \in Clients, Long!Close(c) \/ Long!ReadAll(c) PROVE WritesOut' /\ BufferMoves /\ (alive' => alive)
  <2>1. /\ c \in batch /\ watch[c] = "in" /\ writing = Nobody /\ writing' = Nobody
        /\ bufs' = bufs + 1 /\ alive' = alive
        /\ \/ watch' = [watch EXCEPT ![c] = "none"] /\ link' = [link EXCEPT ![c] = "closed"]
           \/ watch' = [watch EXCEPT ![c] = "out"] /\ link' = link
    BY <1>1 DEF Long!Close, Long!ReadAll, Long!Event
  <2>2. link[c] = "open" BY <1>0, <2>1 DEF OpenOnly
  <2>3. c \notin Holders /\ Holders' = Holders \cup {c} BY <1>0, <2>1, <2>2 DEF Holders, LongTypes
  <2>4. WritesOut' BY <2>1, LongConstants DEF WritesOut
  <2> QED BY <2>1, <2>3, <2>4 DEF BufferMoves
<1>2. ASSUME NEW c \in Clients, Long!WriteDone(c) PROVE WritesOut' /\ BufferMoves /\ (alive' => alive)
  <2>1. /\ writing = c /\ writing' = Nobody /\ watch' = [watch EXCEPT ![c] = "in"] /\ link' = link
        /\ bufs' = bufs - 1 /\ alive' = alive
    BY <1>2 DEF Long!WriteDone, Long!Watch
  <2>2. link[c] = "open" /\ watch[c] = "out" BY <1>0, <2>1 DEF OpenOnly, WritesOut
  <2>3. c \in Holders /\ Holders' = Holders \ {c} BY <1>0, <2>1, <2>2 DEF Holders, LongTypes
  <2>4. WritesOut' BY <2>1, LongConstants DEF WritesOut
  <2> QED BY <2>1, <2>3, <2>4 DEF BufferMoves
<1>3. ASSUME NEW c \in Clients, Long!Accept(c) PROVE WritesOut' /\ BufferMoves /\ (alive' => alive)
  <2>1. /\ link[c] = "backlog" /\ writing = Nobody /\ writing' = Nobody
        /\ watch' = [watch EXCEPT ![c] = "in"] /\ link' = [link EXCEPT ![c] = "open"]
        /\ bufs' = bufs /\ alive' = alive
    BY <1>3 DEF Long!Accept, Long!Backlog
  <2>2. watch[c] = "none" BY <1>0, <2>1 DEF OpenOnly, LongTypes
  <2>3. Holders' = Holders BY <1>0, <2>1, <2>2 DEF Holders, LongTypes
  <2>4. WritesOut' BY <2>1, LongConstants DEF WritesOut
  <2> QED BY <2>1, <2>3, <2>4 DEF BufferMoves
<1>4. ASSUME NEW c \in Clients, Long!Connect(c) PROVE WritesOut' /\ BufferMoves /\ (alive' => alive)
  <2>1. /\ link[c] = "none" /\ link' = [link EXCEPT ![c] = "backlog"]
        /\ UNCHANGED <<alive, fault, watch, writing, bufs>>
    BY <1>4 DEF Long!Connect
  <2>2. Holders' = Holders BY <1>0, <2>1 DEF Holders, LongTypes
  <2>3. WritesOut' BY <2>1 DEF WritesOut
  <2> QED BY <2>1, <2>2, <2>3 DEF BufferMoves
<1>5. ASSUME NEW c \in Clients, Long!StartWrite(c) PROVE WritesOut' /\ BufferMoves /\ (alive' => alive)
  <2>1. watch[c] = "out" /\ writing' = c /\ UNCHANGED <<alive, fault, watch, link, bufs>>
    BY <1>5 DEF Long!StartWrite, Long!Event
  <2>2. Holders' = Holders /\ WritesOut' BY <2>1 DEF Holders, WritesOut
  <2> QED BY <2>1, <2>2 DEF BufferMoves
<1>6. ASSUME alive' => alive, UNCHANGED <<watch, link, writing, bufs>>
      PROVE  WritesOut' /\ BufferMoves /\ (alive' => alive)
  BY <1>6 DEF Holders, WritesOut, BufferMoves
<1>7. ASSUME NEW c \in Clients, Long!Handle(c) PROVE WritesOut' /\ BufferMoves /\ (alive' => alive)
  <2>1. ASSUME Long!ReadFails(c) \/ Long!WriteFails(c) \/ Long!WriteSome(c)
        PROVE  (alive' => alive) /\ UNCHANGED <<watch, link, writing, bufs>>
    BY <1>0, <2>1 DEF Long!ReadFails, Long!WriteFails, Long!Exit, Long!WriteSome, LongTypes
  <2> QED BY <1>1, <1>2, <1>5, <1>6, <1>7, <2>1 DEF Long!Handle
<1>8. ASSUME Long!Wait \/ Long!CallFails \/ UNCHANGED Long!vars
      PROVE  (alive' => alive) /\ UNCHANGED <<watch, link, writing, bufs>>
  BY <1>0, <1>8 DEF Long!Wait, Long!CallFails, Long!WaitFails, Long!AcceptFails, Long!ControlFails, Long!Fault,
       Long!vars, LongTypes
<1>9. ASSUME NEW c \in Clients,
             \/ Long!SendLine(c) \/ Long!ReadReply(c) \/ Long!Leave(c) \/ Long!Arrive(c)
             \/ \E how \in {"fin", "shut", "reset", "lost"} : Long!PeerEnds(c, how)
      PROVE  (alive' => alive) /\ UNCHANGED <<watch, link, writing, bufs>>
  BY <1>0, <1>9 DEF Long!SendLine, Long!ReadReply, Long!Leave, Long!Arrive, Long!PeerEnds, LongTypes
<1> QED BY <1>3, <1>4, <1>6, <1>7, <1>8, <1>9, Zenon DEF Long!Next, Long!ServerStep, Long!NetworkStep

-----------------------------------------------------------------------------
(* server *)

\* What a step of EpollNext is to it.
LEMMA ServerOnly == [EpollNext]_all => [Next]_vars
  BY DEF EpollNext, Serve, Use, Keep, all, vars

\* The messages of which there are bytes in buf.
InBuf == {m \in Messages : \E i \in Bytes : buf[i] = m}

ServerTypes ==
    /\ buf \in [Bytes -> {NUL} \cup Messages]
    /\ interest \in [Clients -> {"none", "in", "out"}]
    /\ events \subseteq Clients \cup {Listen}
    /\ conn \in [Clients -> {"none", "backlog", "open", "closed"}]
    /\ sent \in [Clients -> 0 .. MaxMsgs] /\ unread \in [Clients -> Nat]
    /\ \A c \in Clients : unread[c] > 0 => sent[c] > 0
    /\ carried \in [Messages -> Nat]

\* A message that is still to be read is nowhere yet: those in the buffer, or sent
\* back, are older.
Fresh ==
    \A m \in Messages :
        m \in InBuf \/ carried[m] > 0 => m[2] <= sent[m[1]] /\ (unread[m[1]] > 0 => m[2] < sent[m[1]])

\* What is in the buffer has not been sent to anybody.
NotSent == \A m \in InBuf : carried[m] = 0

ServerInv == ServerTypes /\ Fresh /\ NotSent /\ EventsAreLive /\ BufferHasAnOwner /\ CarriedOnce

\* No message is a NUL.
LEMMA NoNul == NUL \notin Messages
<1>1. ASSUME NEW m \in Messages PROVE m # <<>>
  <2>1. PICK c \in Clients, k \in 1 .. MaxMsgs : m = <<c, k>> BY DEF Messages
  <2> QED BY <2>1
<1> QED BY <1>1 DEF NUL

\* The client and the number of a message.
LEMMA MessageParts ==
    ASSUME NEW m \in Messages PROVE m[1] \in Clients /\ m[2] \in Nat /\ m = <<m[1], m[2]>>
  BY EpollAssumption DEF Messages

\* The bytes there are.
LEMMA FirstByte == 1 \in Bytes BY EpollAssumption DEF Bytes

\* The clean buffer.
LEMMA CleanBuf ==
    ASSUME buf = Empty PROVE buf \in [Bytes -> {NUL} \cup Messages] /\ InBuf = {}
  BY NoNul DEF Empty, InBuf

\* The clients: what they send next is fresh.
LEMMA ServerClientKeeps ==
    ASSUME ServerInv, NEW c \in Clients, Connect(c) \/ Send(c) \/ Leave(c) PROVE ServerInv'
<1> USE DEF ServerInv, ServerTypes
<1>0. InBuf' = {m \in Messages : \E i \in Bytes : buf'[i] = m} BY DEF InBuf
<1>1. CASE Connect(c)
  <2>1. /\ conn[c] = "none" /\ conn' = [conn EXCEPT ![c] = "backlog"]
        /\ UNCHANGED <<buf, interest, events, peer, sent, unread, carried>>
    BY <1>1 DEF Connect
  <2>2. InBuf' = InBuf BY <2>1 DEF InBuf
  <2>3. ServerTypes' BY <2>1
  <2>4. Fresh' /\ NotSent' /\ CarriedOnce' /\ BufferHasAnOwner'
    BY <2>1, <2>2, Zenon DEF Fresh, NotSent, CarriedOnce, BufferHasAnOwner
  <2>5. EventsAreLive' BY <2>1 DEF EventsAreLive
  <2> QED BY <2>3, <2>4, <2>5
<1>2. CASE Send(c)
  <2>1. PICK len \in 1 .. MAXSIZE - 1 : unread' = [unread EXCEPT ![c] = len] BY <1>2, Zenon DEF Send
  <2>2. /\ sent' = [sent EXCEPT ![c] = sent[c] + 1]
        /\ UNCHANGED <<buf, interest, events, conn, peer, carried>>
    BY <1>2 DEF Send
  <2>3. len \in Nat /\ sent[c] < MaxMsgs BY <1>2, <2>1, EpollAssumption DEF Send
  <2>4. InBuf' = InBuf BY <2>2 DEF InBuf
  <2>5. ServerTypes' BY <2>1, <2>2, <2>3, EpollAssumption
  <2>6. Fresh'
    <3>1. \A d \in Clients : sent[d] \in Nat /\ sent'[d] = IF d = c THEN sent[d] + 1 ELSE sent[d]
      BY <2>2, EpollAssumption
    <3>2. \A d \in Clients : d # c => unread'[d] = unread[d] BY <2>1
    <3> SUFFICES ASSUME NEW m \in Messages, m \in InBuf \/ carried[m] > 0
                 PROVE  m[2] <= sent'[m[1]] /\ (unread'[m[1]] > 0 => m[2] < sent'[m[1]])
      BY <2>2, <2>4, Zenon DEF Fresh
    <3>3. m[2] <= sent[m[1]] /\ (unread[m[1]] > 0 => m[2] < sent[m[1]]) BY DEF Fresh
    <3>4. m[1] \in Clients /\ m[2] \in Nat BY MessageParts
    <3> QED BY <3>1, <3>2, <3>3, <3>4
  <2>7. NotSent' /\ CarriedOnce' /\ BufferHasAnOwner' BY <2>2, <2>4 DEF NotSent, CarriedOnce, BufferHasAnOwner
  <2>8. EventsAreLive' BY <2>2 DEF EventsAreLive
  <2> QED BY <2>5, <2>6, <2>7, <2>8
<1>3. CASE Leave(c)
  <2>1. /\ unread' = unread \/ unread' = [unread EXCEPT ![c] = 0]
        /\ UNCHANGED <<buf, interest, events, conn, sent, carried>>
    BY <1>3 DEF Leave
  <2>2. InBuf' = InBuf BY <2>1 DEF InBuf
  <2>3. ServerTypes' BY <2>1
  <2>4. \A d \in Clients : unread'[d] > 0 => unread[d] > 0 BY <2>1
  <2>5. Fresh' BY <2>1, <2>2, <2>4, MessageParts DEF Fresh
  <2>6. NotSent' /\ CarriedOnce' /\ BufferHasAnOwner' /\ EventsAreLive'
    BY <2>1, <2>2 DEF NotSent, CarriedOnce, BufferHasAnOwner, EventsAreLive
  <2> QED BY <2>3, <2>5, <2>6
<1> QED BY <1>1, <1>2, <1>3

\* epoll_wait reports open connections only.
LEMMA ServerWaitKeeps ==
    ASSUME ServerInv, NEW some \in SUBSET (Clients \cup {Listen}), Wait(some) PROVE ServerInv'
<1> USE DEF ServerInv, ServerTypes
<1>1. /\ some \subseteq Ready /\ events' = some
      /\ UNCHANGED <<buf, interest, conn, peer, sent, unread, carried>>
  BY DEF Wait
<1>2. InBuf' = InBuf BY <1>1 DEF InBuf
<1>3. ServerTypes' /\ Fresh' /\ NotSent' /\ CarriedOnce' /\ BufferHasAnOwner'
  BY <1>1, <1>2 DEF Fresh, NotSent, CarriedOnce, BufferHasAnOwner
<1>4. \A c \in Clients : c \in Ready => interest[c] # "none" BY EpollAssumption, Zenon DEF Ready
<1>5. EventsAreLive' BY <1>1, <1>4 DEF EventsAreLive
<1> QED BY <1>3, <1>5

\* A connection that is accepted, or dropped, owns nothing in the buffer.
LEMMA ServerAcceptKeeps ==
    ASSUME ServerInv, NEW c \in Clients, handle_accpet(c) \/ AcceptFails(c) PROVE ServerInv'
<1> USE DEF ServerInv, ServerTypes
<1>1. /\ conn[c] = "backlog" /\ events' \subseteq events
      /\ \/ conn' = [conn EXCEPT ![c] = "open"] /\ interest' = [interest EXCEPT ![c] = "in"]
         \/ conn' = [conn EXCEPT ![c] = "closed"] /\ interest' = interest
      /\ UNCHANGED <<buf, peer, sent, unread, carried>>
  BY DEF handle_accpet, AcceptFails, Handle, Pending
<1>2. InBuf' = InBuf BY <1>1 DEF InBuf
<1>3. interest[c] = "none" /\ c \notin events BY <1>1 DEF EventsAreLive
<1>4. ServerTypes' BY <1>1
<1>5. Fresh' /\ NotSent' /\ CarriedOnce' BY <1>1, <1>2 DEF Fresh, NotSent, CarriedOnce
<1>6. EventsAreLive' BY <1>1, <1>3 DEF EventsAreLive
<1>7. BufferHasAnOwner'
  <2>1. CASE buf = Empty BY <1>1, <2>1 DEF BufferHasAnOwner, Empty
  <2>2. CASE buf[1] # NUL /\ interest[buf[1][1]] = "out"
    <3>1. buf[1][1] \in Clients BY <2>2, FirstByte, MessageParts
    <3>2. buf[1][1] # c BY <1>3, <2>2
    <3>3. interest'[buf[1][1]] = interest[buf[1][1]] BY <1>1, <3>1, <3>2
    <3> QED BY <1>1, <2>2, <3>3 DEF BufferHasAnOwner
  <2> QED BY <2>1, <2>2 DEF BufferHasAnOwner
<1> QED BY <1>4, <1>5, <1>6, <1>7

\* A read makes its connection the owner of the buffer.
LEMMA ServerReadKeeps == ASSUME ServerInv, NEW c \in Clients, do_read(c) PROVE ServerInv'
<1> USE DEF ServerInv, ServerTypes
<1>0. /\ c \in events /\ events' = events \ {c} /\ interest[c] = "in" /\ UNCHANGED <<peer, sent, carried>>
  BY DEF do_read, Handle
<1>1. CASE unread[c] > 0
  <2> DEFINE m == <<c, sent[c]>>
  <2>1. /\ buf' = [i \in Bytes |-> IF i <= unread[c] THEN m ELSE buf[i]]
        /\ unread' = [unread EXCEPT ![c] = 0] /\ interest' = [interest EXCEPT ![c] = "out"] /\ conn' = conn
    BY <1>1 DEF do_read, Overwritten
  <2>2. m \in Messages /\ m[1] = c /\ m[2] = sent[c] BY <1>1, EpollAssumption DEF Messages
  <2>3. ServerTypes' BY <1>0, <2>1, <2>2
  <2>4. InBuf' \subseteq InBuf \cup {m} BY <2>1 DEF InBuf
  <2>5. \A d \in Clients : unread'[d] = IF d = c THEN 0 ELSE unread[d] BY <2>1
  <2>6. Fresh'
    <3> SUFFICES ASSUME NEW x \in Messages, x \in InBuf' \/ carried[x] > 0
                 PROVE  x[2] <= sent[x[1]] /\ (unread'[x[1]] > 0 => x[2] < sent[x[1]])
      BY <1>0 DEF Fresh
    <3>0. x[1] \in Clients /\ sent[x[1]] \in Nat BY MessageParts, EpollAssumption
    <3>1. CASE x = m
      <4>1. x[1] = c /\ x[2] = sent[x[1]] BY <2>2, <3>1
      <4> QED BY <2>5, <3>0, <4>1
    <3>2. CASE x # m
      <4>1. x[2] <= sent[x[1]] /\ (unread[x[1]] > 0 => x[2] < sent[x[1]]) BY <2>4, <3>2 DEF Fresh
      <4> QED BY <2>5, <3>0, <4>1
    <3> QED BY <3>1, <3>2
  <2>7. NotSent'
    <3>1. carried[m] = 0
      <4> SUFFICES ASSUME carried[m] > 0 PROVE FALSE BY <2>2
      <4>1. sent[c] \in Nat BY EpollAssumption
      <4>2. sent[c] < sent[c] BY <1>1, <2>2, <4>1 DEF Fresh
      <4> QED BY <4>1, <4>2
    <3> HIDE DEF m
    <3> QED BY <1>0, <2>4, <3>1 DEF NotSent
  <2>8. CarriedOnce' BY <1>0 DEF CarriedOnce
  <2>9. EventsAreLive' BY <1>0, <2>1 DEF EventsAreLive
  <2>10. BufferHasAnOwner'
    <3>1. 1 <= unread[c] BY <1>1
    <3>2. buf'[1] = m BY <2>1, <3>1, FirstByte
    <3>3. interest'[m[1]] = "out" BY <2>1, <2>2
    <3>4. m # NUL BY <2>2, NoNul
    <3> HIDE DEF m
    <3> QED BY <3>2, <3>3, <3>4 DEF BufferHasAnOwner
  <2> QED BY <2>3, <2>6, <2>7, <2>8, <2>9, <2>10
<1>2. CASE ~(unread[c] > 0)
  <2>1. /\ conn' = [conn EXCEPT ![c] = "closed"] /\ interest' = [interest EXCEPT ![c] = "none"]
        /\ UNCHANGED <<buf, unread>>
    BY <1>2 DEF do_read, Close
  <2>2. InBuf' = InBuf BY <2>1 DEF InBuf
  <2>3. ServerTypes' BY <1>0, <2>1
  <2>4. Fresh' /\ NotSent' /\ CarriedOnce' BY <1>0, <2>1, <2>2 DEF Fresh, NotSent, CarriedOnce
  <2>5. EventsAreLive' BY <1>0, <2>1 DEF EventsAreLive
  <2>6. BufferHasAnOwner' BY <1>0, <2>1 DEF BufferHasAnOwner
  <2> QED BY <2>3, <2>4, <2>5, <2>6
<1> QED BY <1>1, <1>2

\* A write empties it, whoever it belonged to.
LEMMA ServerWriteKeeps == ASSUME ServerInv, NEW c \in Clients, do_write(c) PROVE ServerInv'
<1> USE DEF ServerInv, ServerTypes
<1>0. /\ c \in events /\ events' = events \ {c} /\ interest[c] = "out" /\ UNCHANGED <<sent, unread>>
      /\ buf' = Empty
  BY DEF do_write, Handle
<1>1. buf' \in [Bytes -> {NUL} \cup Messages] /\ InBuf' = {}
  BY <1>0, NoNul DEF Empty, InBuf
<1>2. \/ /\ conn' = [conn EXCEPT ![c] = "closed"] /\ interest' = [interest EXCEPT ![c] = "none"]
         /\ carried' = carried
      \/ /\ conn' = conn /\ interest' = [interest EXCEPT ![c] = "in"]
         /\ carried' = Carried
  BY DEF do_write, Close, Write
<1>3. Text \subseteq InBuf \cup {NUL}
  <2> SUFFICES ASSUME NEW j \in Bytes, \A k \in 1 .. j : buf[k] # NUL PROVE buf[j] \in InBuf BY Zenon DEF Text
  <2>1. j \in 1 .. j BY EpollAssumption DEF Bytes
  <2>2. buf[j] # NUL BY <2>1
  <2> QED BY <2>2 DEF InBuf
<1>4. /\ carried' \in [Messages -> Nat]
      /\ \A m \in Messages : \/ carried'[m] = carried[m]
                             \/ m \in InBuf /\ carried'[m] = carried[m] + 1
  <2>0. carried \in [Messages -> Nat] OBVIOUS
  <2> HIDE DEF ServerInv, ServerTypes
  <2>1. CASE carried' = carried BY <2>0, <2>1
  <2>2. CASE carried' = Carried
    <3>1. \A m \in Messages : m \in Text => m \in InBuf BY <1>3, NoNul
    <3>2. \A m \in Messages : carried[m] \in Nat BY <2>0
    <3>3. carried' = [m \in Messages |-> IF m \in Text THEN carried[m] + 1 ELSE carried[m]] BY <2>2 DEF Carried
    <3> HIDE DEF Carried
    <3>4. \A m \in Messages : carried'[m] = IF m \in Text THEN carried[m] + 1 ELSE carried[m] BY <3>3
    <3>5. carried' \in [Messages -> Nat]
      <4>1. \A m \in Messages : (IF m \in Text THEN carried[m] + 1 ELSE carried[m]) \in Nat BY <3>2
      <4> QED BY <3>3, <4>1
    <3> QED BY <3>1, <3>4, <3>5
  <2> QED BY <1>2, <2>1, <2>2
<1>5. ServerTypes' BY <1>0, <1>1, <1>2, <1>4
<1>6. Fresh'
  <2> SUFFICES ASSUME NEW m \in Messages, carried'[m] > 0
               PROVE  m[2] <= sent[m[1]] /\ (unread[m[1]] > 0 => m[2] < sent[m[1]])
    BY <1>0, <1>1 DEF Fresh
  <2>1. m \in InBuf \/ carried[m] > 0 BY <1>4
  <2> QED BY <2>1, Zenon DEF Fresh
<1>7. NotSent' BY <1>1, Zenon DEF NotSent
<1>8. CarriedOnce'
  <2> SUFFICES ASSUME NEW m \in Messages PROVE carried'[m] <= 1 BY DEF CarriedOnce
  <2>1. carried[m] \in Nat /\ carried[m] <= 1 BY DEF CarriedOnce
  <2>2. m \in InBuf => carried[m] = 0 BY DEF NotSent
  <2> QED BY <1>4, <2>1, <2>2
<1>9. EventsAreLive' BY <1>0, <1>2, Zenon DEF EventsAreLive
<1>10. BufferHasAnOwner' BY <1>0, Zenon DEF BufferHasAnOwner
<1> QED BY <1>5, <1>6, <1>7, <1>8, <1>9, <1>10

\* What is left of it when the server is killed.
LEMMA ServerKilledKeeps == ASSUME ServerInv, NEW c \in Clients, BrokenPipe(c) PROVE ServerInv'
<1>1. events' \subseteq events /\ UNCHANGED <<buf, interest, conn, sent, unread, carried>>
  BY Zenon DEF BrokenPipe, Handle
<1>2. InBuf' = InBuf BY <1>1 DEF InBuf
<1> QED BY <1>1, <1>2 DEF ServerInv, ServerTypes, Fresh, NotSent, EventsAreLive, BufferHasAnOwner, CarriedOnce

\* All of it together.
LEMMA ServerKeeps == ServerInv /\ [EpollNext]_all => ServerInv'
<1> SUFFICES ASSUME ServerInv, [Next]_vars PROVE ServerInv' BY ServerOnly
<1>1. CASE UNCHANGED vars
  <2>1. UNCHANGED <<buf, interest, events, conn, peer, sent, unread, carried>> BY <1>1 DEF vars
  <2>2. InBuf' = InBuf BY <2>1 DEF InBuf
  <2> QED BY <2>1, <2>2 DEF ServerInv, ServerTypes, Fresh, NotSent, EventsAreLive, BufferHasAnOwner, CarriedOnce
<1>2. CASE Next
  BY <1>2, ServerClientKeeps, ServerWaitKeeps, ServerAcceptKeeps, ServerReadKeeps, ServerWriteKeeps,
     ServerKilledKeeps
     DEF Next, HandleStep
<1> QED BY <1>1, <1>2

\* At the start the buffer is clean.
LEMMA ServerStarts == EpollInit => ServerInv
<1> SUFFICES ASSUME Init PROVE ServerInv BY DEF EpollInit
<1>1. buf = Empty BY DEF Init
<1>2. buf \in [Bytes -> {NUL} \cup Messages] /\ InBuf = {} BY <1>1, CleanBuf
<1>3. ServerTypes
  <2>1. /\ sent = [c \in Clients |-> 0] /\ unread = [c \in Clients |-> 0] /\ carried = [m \in Messages |-> 0]
        /\ 0 \in 0 .. MaxMsgs
    BY EpollAssumption DEF Init
  <2>2. sent \in [Clients -> 0 .. MaxMsgs] /\ unread \in [Clients -> Nat] BY <2>1
  <2>3. carried \in [Messages -> Nat] BY <2>1
  <2>4. \A c \in Clients : unread[c] > 0 => sent[c] > 0 BY <2>1
  <2>5. /\ interest \in [Clients -> {"none", "in", "out"}] /\ events \subseteq Clients \cup {Listen}
        /\ conn \in [Clients -> {"none", "backlog", "open", "closed"}]
    BY DEF Init
  <2> QED BY <1>2, <2>2, <2>3, <2>4, <2>5 DEF ServerTypes
<1>4. Fresh /\ NotSent /\ CarriedOnce BY <1>2 DEF Init, Fresh, NotSent, CarriedOnce
<1>5. EventsAreLive /\ BufferHasAnOwner BY DEF Init, EventsAreLive, BufferHasAnOwner
<1> QED BY <1>3, <1>4, <1>5 DEF ServerInv

-----------------------------------------------------------------------------
(* client *)

\* What a step of EpollNext is to it.
LEMMA UserOnly == [EpollNext]_all => [User!Next]_(User!vars)
  BY DEF EpollNext, Serve, Use, Keep, all, userVars, User!vars

\* Line or reply x is in the buffer, or has left the client.
Known(x) == x \in text \/ away[x] > 0

UserTypes ==
    /\ read \in Nat
    /\ away \in [User!Items -> Nat]

\* What is in the buffer has not left the client yet.
Once == \A x \in User!Items : away[x] <= 1 /\ (x \in text => away[x] = 0)

\* Lines and replies are numbered by the last line read; before a reply is due,
\* those that were seen are older than it.
Numbered ==
    \A x \in User!Items : Known(x) =>
        /\ x[1] <= read
        /\ x[2] = "reply" /\ (sock = "out" \/ (sock = "in" /\ inbox = {})) => x[1] < read

\* What has arrived is the server's close or a reply that was never seen.
Arrived ==
    \/ inbox = {} \/ inbox = {<<>>}
    \/ /\ sock = "in"
       /\ \E k \in Nat : /\ k <= read
                         /\ inbox = {<<k, "reply">>}
                         /\ <<k, "reply">> \in User!Items => ~Known(<<k, "reply">>)

OnWire == wire # {} => sock = "in" /\ inbox = {}

UserInv ==
    UserTypes /\ Once /\ Numbered /\ Arrived /\ OnWire /\ User!WaitsInVainOnlyEmptied /\ User!CleanWhenIdle

\* The numbered lines and replies.
LEMMA ItemParts ==
    ASSUME NEW x \in User!Items
    PROVE  x = <<x[1], x[2]>> /\ x[1] \in Nat /\ x[2] \in {"line", "reply"}
  BY DEF User!Items

\* Nothing is an item that has no number.
LEMMA NoItem == <<>> \notin User!Items
<1>1. ASSUME NEW x \in User!Items PROVE x # <<>> BY ItemParts
<1> QED BY <1>1

\* The user, the server and epoll_wait.
LEMMA UserOthersKeep ==
    ASSUME UserInv, User!Type \/ User!Reply \/ User!HangUp \/ User!Wait PROVE UserInv'
<1> USE DEF UserInv
<1>1. UNCHANGED <<text, sock, stdout, read, emptied, away>>
  BY DEF User!Type, User!Reply, User!HangUp, User!Wait
<1>2. \A x : Known(x)' <=> Known(x) BY <1>1 DEF Known
<1>3. UserTypes' /\ Once' /\ User!CleanWhenIdle' BY <1>1 DEF UserTypes, Once, User!CleanWhenIdle
<1>4. CASE UNCHANGED <<wire, inbox>>
  BY <1>1, <1>2, <1>3, <1>4 DEF Numbered, Arrived, OnWire, User!WaitsInVainOnlyEmptied
<1>5. CASE User!Reply
  <2>1. wire # {} /\ inbox' = {<<read, "reply">>} /\ wire' = {} BY <1>5 DEF User!Reply
  <2>2. sock = "in" /\ inbox = {} BY <2>1 DEF OnWire
  <2>3. Numbered' BY <1>1, <1>2, <2>2 DEF Numbered
  <2>4. <<read, "reply">> \in User!Items => ~Known(<<read, "reply">>)
    <3> SUFFICES ASSUME <<read, "reply">> \in User!Items, Known(<<read, "reply">>) PROVE FALSE OBVIOUS
    <3>1. read < read BY <2>2 DEF Numbered
    <3> QED BY <3>1 DEF UserTypes
  <2>5. Arrived' BY <1>1, <1>2, <2>1, <2>2, <2>4 DEF Arrived, UserTypes
  <2>6. OnWire' /\ User!WaitsInVainOnlyEmptied' BY <2>1, Zenon DEF OnWire, User!WaitsInVainOnlyEmptied
  <2> QED BY <1>3, <2>3, <2>5, <2>6
<1>6. CASE User!HangUp
  <2>1. inbox = {} /\ inbox' = {<<>>} /\ wire' = {} BY <1>6 DEF User!HangUp
  <2>2. Numbered' BY <1>1, <1>2, <2>1 DEF Numbered
  <2>3. Arrived' /\ OnWire' /\ User!WaitsInVainOnlyEmptied'
    BY <2>1 DEF Arrived, OnWire, User!WaitsInVainOnlyEmptied
  <2> QED BY <1>3, <2>2, <2>3
<1> QED BY <1>4, <1>5, <1>6 DEF User!Type, User!Wait

\* A line read has a number that was not seen before.
LEMMA ReadStdinKeeps == ASSUME UserInv, User!ReadStdin PROVE UserInv'
<1> USE DEF UserInv
<1> DEFINE l == <<read + 1, "line">>
<1>1. /\ read' = read + 1 /\ text' \in {{l}, {l} \cup text}
      /\ sock' = IF sock = "off" THEN "out" ELSE sock
      /\ UNCHANGED <<wire, inbox, emptied, away>>
  BY DEF User!ReadStdin, User!Filled
<1>2. read \in Nat /\ away \in [User!Items -> Nat] BY DEF UserTypes
<1>3. l[1] = read + 1 /\ l[2] = "line" OBVIOUS
<1>4. l \in User!Items => ~Known(l)
  <2> SUFFICES ASSUME l \in User!Items, Known(l) PROVE FALSE OBVIOUS
  <2>1. l[1] <= read BY DEF Numbered
  <2> QED BY <1>2, <1>3, <2>1
<1> HIDE DEF l
<1>5. \A x : x \in text' => x = l \/ x \in text BY <1>1
<1>6. \A x : Known(x)' => x = l \/ Known(x) BY <1>1, <1>5 DEF Known
<1>7. UserTypes' BY <1>1, <1>2 DEF UserTypes
<1>8. Once'
  <2> SUFFICES ASSUME NEW x \in User!Items PROVE away[x] <= 1 /\ (x \in text' => away[x] = 0)
    BY <1>1 DEF Once
  <2>1. away[x] \in Nat BY <1>2
  <2> QED BY <1>4, <1>5, <2>1 DEF Once, Known
<1>9. Numbered'
  <2> SUFFICES ASSUME NEW x \in User!Items, Known(x)'
               PROVE  x[1] <= read' /\ (x[2] = "reply" => x[1] < read')
    BY DEF Numbered
  <2>1. x[1] \in Nat BY ItemParts
  <2>2. CASE x = l BY <1>1, <1>2, <1>3, <2>2
  <2>3. CASE x # l
    <3>1. x[1] <= read BY <1>6, <2>3 DEF Numbered
    <3> QED BY <1>1, <1>2, <2>1, <3>1
  <2> QED BY <2>2, <2>3
<1>10. Arrived'
  <2>1. CASE inbox = {} \/ inbox = {<<>>} BY <1>1, <2>1 DEF Arrived
  <2>2. CASE ~(inbox = {} \/ inbox = {<<>>})
    <3>1. sock = "in" BY <2>2 DEF Arrived
    <3>2. PICK k \in Nat : /\ k <= read /\ inbox = {<<k, "reply">>}
                           /\ <<k, "reply">> \in User!Items => ~Known(<<k, "reply">>)
      BY <2>2 DEF Arrived
    <3>3. <<k, "reply">> # l BY DEF l
    <3>4. <<k, "reply">> \in User!Items => ~Known(<<k, "reply">>)' BY <1>6, <3>2, <3>3
    <3>5. k <= read' BY <1>1, <1>2, <3>2
    <3>6. sock' = "in" BY <1>1, <3>1
    <3> QED BY <1>1, <3>2, <3>4, <3>5, <3>6 DEF Arrived
  <2> QED BY <2>1, <2>2
<1>11. OnWire' BY <1>1 DEF OnWire
<1>12. User!WaitsInVainOnlyEmptied' BY <1>1 DEF User!WaitsInVainOnlyEmptied
<1>13. User!CleanWhenIdle' BY <1>1 DEF User!CleanWhenIdle
<1> QED BY <1>7, <1>8, <1>9, <1>10, <1>11, <1>12, <1>13

\* A reply read was not in the buffer before, and has not been printed.
LEMMA ReadSockKeeps == ASSUME UserInv, User!ReadSock PROVE UserInv'
<1> USE DEF UserInv
<1>1. /\ sock = "in" /\ inbox' = {} /\ sock' \in {"off", "closed"}
      /\ UNCHANGED <<read, wire, emptied, away>>
      /\ text' = text \/ \E x \in inbox : x # <<>> /\ text' \in {{x}, {x} \cup text}
  BY DEF User!ReadSock, User!Filled
<1>2. read \in Nat /\ away \in [User!Items -> Nat] BY DEF UserTypes
<1>3. inbox # {} BY DEF User!ReadSock
<1>4. wire = {} BY <1>3 DEF OnWire
<1>5. UserTypes' BY <1>1, <1>2 DEF UserTypes
<1>6. Arrived' /\ OnWire' BY <1>1, <1>4 DEF Arrived, OnWire
<1>7. User!WaitsInVainOnlyEmptied' /\ User!CleanWhenIdle'
  BY DEF User!ReadSock, User!WaitsInVainOnlyEmptied, User!CleanWhenIdle
<1>8. CASE text' = text
  <2>1. \A x : Known(x)' <=> Known(x) BY <1>1, <1>8 DEF Known
  <2>2. Once' BY <1>1, <1>8 DEF Once
  <2>3. Numbered' BY <1>1, <2>1 DEF Numbered
  <2> QED BY <1>5, <1>6, <1>7, <2>2, <2>3
<1>9. CASE text' # text
  <2>1. PICK x \in inbox : x # <<>> /\ text' \in {{x}, {x} \cup text} BY <1>1, <1>9
  <2>2. x[1] <= read /\ (x \in User!Items => ~Known(x))
    <3>1. PICK k \in Nat : /\ k <= read /\ inbox = {<<k, "reply">>}
                           /\ <<k, "reply">> \in User!Items => ~Known(<<k, "reply">>)
      BY <1>3, <2>1 DEF Arrived
    <3>2. x = <<k, "reply">> BY <2>1, <3>1
    <3> QED BY <3>1, <3>2
  <2>3. \A y : y \in text' => y = x \/ y \in text BY <2>1
  <2>4. \A y : Known(y)' => y = x \/ Known(y) BY <1>1, <2>3 DEF Known
  <2>5. Once'
    <3> SUFFICES ASSUME NEW y \in User!Items PROVE away[y] <= 1 /\ (y \in text' => away[y] = 0)
      BY <1>1 DEF Once
    <3>1. away[y] \in Nat BY <1>2
    <3> QED BY <2>2, <2>3, <3>1 DEF Once, Known
  <2>6. Numbered' BY <1>1, <2>2, <2>4 DEF Numbered
  <2> QED BY <1>5, <1>6, <1>7, <2>5, <2>6
<1> QED BY <1>8, <1>9

\* What a write counts.
LEMMA SentOnce ==
    ASSUME UserInv, away' = User!Sent, text' = {}
    PROVE  /\ away' \in [User!Items -> Nat] /\ Once'
           /\ \A x \in User!Items : Known(x)' => Known(x)
<1>1. away \in [User!Items -> Nat] BY DEF UserInv, UserTypes
<1>2. \A x \in User!Items : away[x] \in Nat /\ away[x] <= 1 /\ (x \in text => away[x] = 0)
  BY <1>1 DEF UserInv, Once
<1>3. \A x \in User!Items : away'[x] = IF x \in text THEN away[x] + 1 ELSE away[x] BY DEF User!Sent
<1>4. away' \in [User!Items -> Nat] BY <1>2 DEF User!Sent
<1>5. Once' BY <1>2, <1>3 DEF Once
<1>6. \A x \in User!Items : Known(x)' => Known(x) BY <1>3 DEF Known
<1> QED BY <1>4, <1>5, <1>6

\* Either write empties the buffer.
LEMMA UserWritesKeep == ASSUME UserInv, User!WriteStdout \/ User!WriteSock PROVE UserInv'
<1>1. text' = {} /\ read' = read /\ inbox' = inbox BY DEF User!WriteStdout, User!WriteSock
<1>2. (away' = User!Sent) \/ (away' = away) BY DEF User!WriteStdout, User!WriteSock
<1>3. /\ away' \in [User!Items -> Nat] /\ Once'
      /\ \A x \in User!Items : Known(x)' => Known(x)
  <2>1. CASE away' = User!Sent BY <1>1, <2>1, SentOnce
  <2>2. CASE away' = away BY <1>1, <2>2 DEF UserInv, UserTypes, Once, Known
  <2> QED BY <1>2, <2>1, <2>2
<1> USE DEF UserInv
<1>4. UserTypes' /\ User!CleanWhenIdle' BY <1>1, <1>3 DEF UserTypes, User!CleanWhenIdle
<1>5. CASE User!WriteStdout
  <2>1. UNCHANGED <<sock, wire, emptied>> BY <1>5 DEF User!WriteStdout
  <2>2. Numbered' BY <1>1, <1>3, <2>1 DEF Numbered
  <2>3. Arrived' BY <1>1, <1>3, <2>1 DEF Arrived
  <2>4. OnWire' /\ User!WaitsInVainOnlyEmptied' BY <1>1, <2>1 DEF OnWire, User!WaitsInVainOnlyEmptied
  <2> QED BY <1>3, <1>4, <2>2, <2>3, <2>4
<1>6. CASE User!WriteSock
  <2>1. sock = "out" BY <1>6 DEF User!WriteSock
  <2>2. wire = {} BY <2>1 DEF OnWire
  <2>3. inbox = {} \/ inbox = {<<>>} BY <2>1 DEF Arrived
  <2>4. Numbered' BY <1>1, <1>3, <2>1 DEF Numbered
  <2>5. Arrived' BY <1>1, <2>3 DEF Arrived
  <2>6. CASE sock' = "closed" /\ UNCHANGED wire
    BY <1>3, <1>4, <2>2, <2>4, <2>5, <2>6 DEF OnWire, User!WaitsInVainOnlyEmptied
  <2>7. CASE /\ sock' = "in" /\ wire' = IF text = {} \/ inbox # {} THEN wire ELSE {text}
             /\ emptied' = (emptied \/ text = {})
    <3>1. OnWire' BY <1>1, <2>2, <2>7 DEF OnWire
    <3>2. (wire' = {} /\ inbox' = {}) => text = {} BY <1>1, <2>7
    <3>3. User!WaitsInVainOnlyEmptied' BY <2>7, <3>2, Zenon DEF User!WaitsInVainOnlyEmptied
    <3> QED BY <1>3, <1>4, <2>4, <2>5, <3>1, <3>3
  <2> QED BY <1>6, <2>6, <2>7 DEF User!WriteSock
<1> QED BY <1>5, <1>6

\* All of it together.
LEMMA UserKeeps == UserInv /\ [EpollNext]_all => UserInv'
<1> SUFFICES ASSUME UserInv, [User!Next]_(User!vars) PROVE UserInv' BY UserOnly
<1>1. CASE UNCHANGED User!vars
  <2>1. UNCHANGED <<text, sock, stdout, read, wire, inbox, emptied, away>> BY <1>1 DEF User!vars
  <2>2. \A x : Known(x)' <=> Known(x) BY <2>1 DEF Known
  <2> QED BY <2>1, <2>2 DEF UserInv, UserTypes, Once, Numbered, Arrived, OnWire, User!WaitsInVainOnlyEmptied,
       User!CleanWhenIdle
<1>2. CASE User!Next
  BY <1>2, UserOthersKeep, ReadStdinKeeps, ReadSockKeeps, UserWritesKeep DEF User!Next, User!ClientStep
<1> QED BY <1>1, <1>2

\* At the start the buffer holds nothing, or garbage.
LEMMA UserStarts == EpollInit => UserInv
<1> SUFFICES ASSUME User!Init PROVE UserInv BY DEF EpollInit
<1>1. /\ read = 0 /\ wire = {} /\ inbox = {} /\ sock = "off" /\ away = [x \in User!Items |-> 0]
      /\ text \in {{}, {Garbage}}
  BY DEF User!Init
<1>2. \A x \in User!Items : x \notin text BY <1>1, ProgramsAssumption DEF User!Items
<1>3. \A x \in User!Items : ~Known(x) BY <1>1, <1>2 DEF Known
<1> QED BY <1>1, <1>2, <1>3 DEF UserInv, UserTypes, Once, Numbered, Arrived, OnWire, User!WaitsInVainOnlyEmptied,
       User!CleanWhenIdle

\* What the run checks follows.
LEMMA UserFacts ==
    UserInv => User!LeavesOnce /\ User!CleanWhenIdle /\ User!OneInFlight /\ User!WaitsInVainOnlyEmptied
<1> SUFFICES ASSUME UserInv PROVE User!LeavesOnce /\ User!OneInFlight BY DEF UserInv
<1>1. User!LeavesOnce BY DEF UserInv, Once, User!LeavesOnce
<1>2. inbox \cap User!Items # {} => sock = "in" BY NoItem DEF UserInv, Arrived
<1>3. User!OneInFlight BY <1>2 DEF UserInv, OnWire, User!OneInFlight
<1> QED BY <1>1, <1>3

-----------------------------------------------------------------------------
(* The buffers of long_connection *)

Fin == INSTANCE FiniteSetTheorems

BuffersCounted == alive => bufs = Cardinality(Holders)

BufInv == WritesOut /\ BuffersCounted /\ (alive => bufs \in Nat)

\* One more holder, or one less, is one more in their number, or one less.
LEMMA OneMore ==
    ASSUME NEW c \in Clients
    PROVE  /\ c \notin Holders /\ Holders' = Holders \cup {c} => Cardinality(Holders') = Cardinality(Holders) + 1
           /\ c \in Holders /\ Holders' = Holders \ {c} => Cardinality(Holders') = Cardinality(Holders) - 1
           /\ Cardinality(Holders) \in Nat /\ Cardinality(Holders') \in Nat
<1>1. Holders \in SUBSET Clients /\ Holders' \in SUBSET Clients BY DEF Holders
<1>2. Fin!IsFiniteSet(Holders) /\ Fin!IsFiniteSet(Holders')
  <2>1. Fin!IsFiniteSet(Clients) BY LongConstants DEF Fin!IsFiniteSet, IsFiniteSet
  <2>2. \A S \in SUBSET Clients : Fin!IsFiniteSet(S) BY <2>1, Fin!FS_Subset
  <2> QED BY <1>1, <2>2
<1>3. Fin!Cardinality(Holders) \in Nat /\ Fin!Cardinality(Holders') \in Nat BY <1>2, Fin!FS_CardinalityType
<1>4. c \notin Holders /\ Holders' = Holders \cup {c} => Fin!Cardinality(Holders') = Fin!Cardinality(Holders) + 1
  BY <1>2, Fin!FS_AddElement
<1>5. c \in Holders /\ Holders' = Holders \ {c} => Fin!Cardinality(Holders') = Fin!Cardinality(Holders) - 1
  BY <1>2, Fin!FS_RemoveElement
<1>6. \A S : Fin!Cardinality(S) = Cardinality(S) BY DEF Fin!Cardinality, Cardinality
<1> QED BY <1>3, <1>4, <1>5, <1>6

\* As many buffers as holders, through every step.
LEMMA BufKeeps == ASSUME LongInv, BufInv, [Long!Next]_(Long!vars) PROVE BufInv'
<1>1. WritesOut' /\ BufferMoves /\ (alive' => alive) BY BufferSteps DEF BufInv
<1>2. alive' => bufs \in Nat /\ bufs = Cardinality(Holders) BY <1>1 DEF BufInv, BuffersCounted
<1>3. CASE bufs' = bufs /\ Holders' = Holders BY <1>1, <1>2, <1>3 DEF BufInv, BuffersCounted
<1>4. ASSUME NEW c \in Clients, c \notin Holders, Holders' = Holders \cup {c}, bufs' = bufs + 1 PROVE BufInv'
  <2>1. Cardinality(Holders') = Cardinality(Holders) + 1 BY <1>4, OneMore
  <2> QED BY <1>1, <1>2, <1>4, <2>1 DEF BufInv, BuffersCounted
<1>5. ASSUME NEW c \in Clients, c \in Holders, Holders' = Holders \ {c}, bufs' = bufs - 1 PROVE BufInv'
  <2>1. Cardinality(Holders') = Cardinality(Holders) - 1 /\ Cardinality(Holders') \in Nat BY <1>5, OneMore
  <2> QED BY <1>1, <1>2, <1>5, <2>1 DEF BufInv, BuffersCounted
<1> QED BY <1>1, <1>3, <1>4, <1>5 DEF BufferMoves

\* At the start nobody holds a buffer.
LEMMA LongStarts == EpollInit => LongInv /\ BufInv /\ Long!EdgeNotLost
<1> SUFFICES ASSUME Long!Init PROVE LongInv /\ BufInv /\ Long!EdgeNotLost BY DEF EpollInit
<1>1. LongInv /\ Long!EdgeNotLost BY LongBegins
<1>2. Holders = {} BY DEF Long!Init, Holders
<1>3. bufs = 0 /\ writing = Nobody BY DEF Long!Init
<1>4. Cardinality({}) = 0 BY Fin!FS_EmptySet DEF Fin!Cardinality, Cardinality
<1>5. BufInv BY <1>2, <1>3, <1>4, LongConstants DEF BufInv, WritesOut, BuffersCounted
<1> QED BY <1>1, <1>5

-----------------------------------------------------------------------------
(* The programs *)

\* All the invariants together.
EpollInv == ServerInv /\ UserInv /\ LongInv /\ BufInv /\ Long!EdgeNotLost

\* They hold in every state of every program.
THEOREM EpollHolds == EpollSpec => []EpollInv
<1>1. EpollInit => EpollInv BY ServerStarts, UserStarts, LongStarts DEF EpollInv
<1>2. EpollInv /\ [EpollNext]_all => EpollInv'
  BY ServerKeeps, UserKeeps, LongOnly, LongKeeps, BufKeeps, NoticedKeeps DEF EpollInv
<1> QED BY <1>1, <1>2, PTL DEF EpollSpec

\* The events both servers act on are true when they reach them: server never
\* handles an event of a connection that an earlier event of the batch closed, and
\* edge triggering loses nothing, because the read goes on until nothing is left
\* and every change of what is watched looks at the descriptor anew.
THEOREM EventsHold == EpollSpec => []EventsAreTrue
<1>1. EpollInv => EventsAreTrue BY DEF EpollInv, ServerInv, EventsAreTrue
<1> QED BY <1>1, EpollHolds, PTL

\* The shared buffer of server is clean unless the connection read last still waits
\* for its write, that of client unless it watches its socket or standard output;
\* and no message, line or reply leaves either of them twice, because do_write
\* clears what it has sent.
THEOREM BuffersHandedOver == EpollSpec => []BufferHandedOver
<1>1. EpollInv => BufferHandedOver BY UserFacts DEF EpollInv, ServerInv, BufferHandedOver
<1> QED BY <1>1, EpollHolds, PTL

\* While a request or its reply is under way the client watches its socket for
\* reading, and it waits for a reply that cannot come only after a write of no
\* bytes.
THEOREM WaitsForReply == EpollSpec => []ClientWaits
<1>1. EpollInv => ClientWaits BY UserFacts DEF EpollInv, ClientWaits
<1> QED BY <1>1, EpollHolds, PTL

\* The edge triggered server closes a connection only because of what its client did
\* or the network lost; it exits only for such a client, or because epoll_wait,
\* accept or epoll_ctl failed; and it loses exactly one buffer per connection it
\* closes.
THEOREM NobodyCutOff == EpollSpec => []EndsOnlyWithClient
<1>1. ASSUME EpollInv PROVE EndsOnlyWithClient
  <2>1. Long!EndsOnlyWithClient BY <1>1 DEF EpollInv, LongInv
  <2>2. Long!Cardinality(Holders) = Cardinality(Holders) BY DEF Long!Cardinality, Cardinality
  <2>3. alive => bufs = Long!Cardinality(Holders) BY <1>1, <2>2 DEF EpollInv, BufInv, BuffersCounted
  <2>4. Long!OneBufferLostPerClose BY <2>3 DEF Long!OneBufferLostPerClose, Holders
  <2> QED BY <2>1, <2>4 DEF EndsOnlyWithClient
<1> QED BY <1>1, EpollHolds, PTL
=============================================================================
