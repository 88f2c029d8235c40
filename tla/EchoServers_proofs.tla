------------------------- MODULE EchoServers_proofs -------------------------
(***************************************************************************)
(* Proofs about the two echo servers, for any number of slots, clients and *)
(* descriptors: what the tables of slots hold, and which read can block.   *)
(***************************************************************************)
EXTENDS EchoServers, FiniteSetTheorems, WellFoundedInduction, TLAPS

\* The provers tried on a leaf, in turn, and the time each of them gets.
USE SMTT(30), ZenonT(20), SMTT(31)

\* A set of numbers with a member has a least one.
LEMMA Least == ASSUME NEW T \in SUBSET Nat, T # {} PROVE \E x \in T : \A y \in T : x <= y
<1> DEFINE R == OpToRel(<, Nat)
<1>1. IsWellFoundedOn(R, Nat) BY NatLessThanWellFounded, Zenon
<1>2. PICK x \in T : \A y \in T : ~ (<<y, x>> \in R)
  <2> HIDE DEF R
  <2> QED BY <1>1, WFMin, Zenon
<1>3. \A y \in T : y < x => <<y, x>> \in R BY DEF OpToRel
<1>4. \A y \in T : ~(y < x) BY <1>2, <1>3, Zenon
<1> HIDE DEF R
<1> QED BY <1>4

\* The slots of a table that hold c.
Places(S, f, c) == {i \in S : f[i] = c}

\* When there is at most one of them, they are as many as they should be.
LEMMA PlaceCount ==
    ASSUME NEW S, NEW f, NEW c,
           \A i, j \in S : f[i] = c /\ f[j] = c => i = j
    PROVE  Cardinality(Places(S, f, c)) = IF \E i \in S : f[i] = c THEN 1 ELSE 0
<1>1. CASE \E i \in S : f[i] = c
  <2>1. PICK i \in S : f[i] = c BY <1>1
  <2>2. Places(S, f, c) = {i} BY <2>1 DEF Places
  <2> QED BY <1>1, <2>2, FS_Singleton, Zenon
<1>2. CASE ~\E i \in S : f[i] = c
  <2>1. Places(S, f, c) = {} BY <1>2 DEF Places
  <2> QED BY <1>2, <2>1, FS_EmptySet
<1> QED BY <1>1, <1>2

\* What a table of slots and the states of the connections say of one another.
Table(slots, fds, clients, states) ==
    /\ fds \in [slots -> clients \cup {NoFd}]
    /\ \A i, j \in slots : fds[i] = fds[j] /\ fds[i] # NoFd => i = j
    /\ \A i \in slots : fds[i] # NoFd => states[fds[i]] = "open"
    /\ \A c \in clients : states[c] = "open" => \E i \in slots : fds[i] = c

\* A connection that was not open takes a free slot.
LEMMA TableStores ==
    ASSUME NEW slots, NEW clients, NoFd \notin clients, NEW fds, NEW states, Table(slots, fds, clients, states),
           DOMAIN states = clients,
           NEW f \in slots, fds[f] = NoFd, NEW c \in clients, states[c] # "open"
    PROVE  Table(slots, [fds EXCEPT ![f] = c], clients, [states EXCEPT ![c] = "open"])
<1> DEFINE fds2 == [fds EXCEPT ![f] = c]
<1> DEFINE st2 == [states EXCEPT ![c] = "open"]
<1>1. /\ fds2 \in [slots -> clients \cup {NoFd}] /\ fds2[f] = c
      /\ \A i \in slots : i # f => fds2[i] = fds[i]
      /\ st2[c] = "open" /\ \A d \in clients : d # c => st2[d] = states[d]
  BY DEF Table
<1>2. \A i \in slots : fds[i] # c BY DEF Table
<1> HIDE DEF fds2, st2
<1>3. \A i, j \in slots : fds2[i] = fds2[j] /\ fds2[i] # NoFd => i = j BY <1>1, <1>2 DEF Table
<1>4. \A i \in slots : fds2[i] # NoFd => st2[fds2[i]] = "open" BY <1>1, <1>2 DEF Table
<1>5. \A d \in clients : st2[d] = "open" => \E i \in slots : fds2[i] = d
  <2> SUFFICES ASSUME NEW d \in clients, st2[d] = "open" PROVE \E i \in slots : fds2[i] = d OBVIOUS
  <2>1. CASE d = c BY <1>1, <2>1
  <2>2. CASE d # c
    <3>1. PICK i \in slots : fds[i] = d BY <1>1, <2>2 DEF Table
    <3>2. i # f BY <3>1
    <3> QED BY <1>1, <3>1, <3>2
  <2> QED BY <2>1, <2>2
<1>6. Table(slots, fds2, clients, st2) BY <1>1, <1>3, <1>4, <1>5 DEF Table
<1> QED BY <1>6 DEF fds2, st2

\* A connection that is closed leaves its slot.
LEMMA TableFrees ==
    ASSUME NEW slots, NEW clients, NoFd \notin clients, NEW fds, NEW states, Table(slots, fds, clients, states),
           DOMAIN states = clients, NEW f \in slots, fds[f] # NoFd
    PROVE  Table(slots, [fds EXCEPT ![f] = NoFd], clients, [states EXCEPT ![fds[f]] = "closed"])
<1> DEFINE fds2 == [fds EXCEPT ![f] = NoFd]
<1> DEFINE st2 == [states EXCEPT ![fds[f]] = "closed"]
<1>0. fds[f] \in clients BY DEF Table
<1>1. /\ fds2 \in [slots -> clients \cup {NoFd}] /\ fds2[f] = NoFd
      /\ \A i \in slots : i # f => fds2[i] = fds[i]
      /\ st2[fds[f]] = "closed" /\ \A d \in clients : d # fds[f] => st2[d] = states[d]
  BY <1>0 DEF Table
<1> HIDE DEF fds2, st2
<1>3. \A i, j \in slots : fds2[i] = fds2[j] /\ fds2[i] # NoFd => i = j BY <1>1 DEF Table
<1>4. \A i \in slots : fds2[i] # NoFd => st2[fds2[i]] = "open"
  <2> SUFFICES ASSUME NEW i \in slots, fds2[i] # NoFd PROVE st2[fds2[i]] = "open" OBVIOUS
  <2>1. i # f /\ fds2[i] = fds[i] BY <1>1
  <2>2. fds[i] \in clients /\ fds[i] # fds[f] /\ states[fds[i]] = "open" BY <2>1 DEF Table
  <2> QED BY <1>1, <2>1, <2>2
<1>5. \A d \in clients : st2[d] = "open" => \E i \in slots : fds2[i] = d
  <2> SUFFICES ASSUME NEW d \in clients, st2[d] = "open" PROVE \E i \in slots : fds2[i] = d OBVIOUS
  <2>1. d # fds[f] BY <1>1
  <2>2. PICK i \in slots : fds[i] = d BY <1>1, <2>1 DEF Table
  <2> QED BY <1>1, <2>1, <2>2
<1>6. Table(slots, fds2, clients, st2) BY <1>1, <1>3, <1>4, <1>5 DEF Table
<1> QED BY <1>6 DEF fds2, st2

\* A connection that neither opens nor was open changes nothing.
LEMMA TableStays ==
    ASSUME NEW slots, NEW clients, NoFd \notin clients, NEW fds, NEW states, Table(slots, fds, clients, states),
           DOMAIN states = clients, NEW c \in clients, states[c] # "open", NEW s, s # "open"
    PROVE  Table(slots, fds, clients, [states EXCEPT ![c] = s])
<1> DEFINE st2 == [states EXCEPT ![c] = s]
<1>1. \A d \in clients : st2[d] = IF d = c THEN s ELSE states[d] OBVIOUS
<1> HIDE DEF st2
<1>2. Table(slots, fds, clients, st2) BY <1>1 DEF Table
<1> QED BY <1>2 DEF st2

-----------------------------------------------------------------------------
(* via_select *)

\* What a step of ServersNext is to the select server,
LEMMA SelectSteps == [ServersNext]_allvars => [Next]_vars
  BY DEF ServersNext, SelectOnly, PollOnly, allvars, pollvars, vars

\* and to the poll server.
LEMMA PollSteps == [ServersNext]_allvars => [Poll!Next]_(Poll!vars)
  BY DEF ServersNext, SelectOnly, PollOnly, allvars, pollvars, Poll!vars

SelectTypes ==
    /\ cli_cnt \in Nat
    /\ ready \subseteq Clients
    /\ conn \in [Clients -> {"none", "backlog", "open", "lost", "closed"}]

SelectInv == SelectTypes /\ Table(Slots, clifds, Clients, conn) /\ OpenIsWatched

\* The first free slot, where there is one.
LEMMA FirstIsFree == FreeSlots # {} => FirstFree \in FreeSlots /\ \A j \in FreeSlots : FirstFree <= j
<1> SUFFICES ASSUME FreeSlots # {} PROVE FirstFree \in FreeSlots /\ \A j \in FreeSlots : FirstFree <= j OBVIOUS
<1>1. FreeSlots \subseteq Nat BY DEF FreeSlots, Slots
<1>2. \E i \in FreeSlots : \A j \in FreeSlots : i <= j BY <1>1, Least
<1> QED BY <1>2 DEF FirstFree

\* Every step of the server and of its clients keeps the table right.
LEMMA SelectKeeps == SelectInv /\ [ServersNext]_allvars => SelectInv'
<1> SUFFICES ASSUME SelectInv, [Next]_vars PROVE SelectInv' BY SelectSteps
<1>0. SIZE \in Nat /\ NoFd \notin Clients BY SelectAssumption
<1>d. DOMAIN conn = Clients /\ Table(Slots, clifds, Clients, conn) BY DEF SelectInv, SelectTypes
<1>s. ASSUME UNCHANGED <<clifds, cli_cnt, conn>>, ready' \subseteq ready \cup Watched PROVE SelectInv'
  <2>1. Watched \subseteq Clients BY DEF Watched, SelectInv, Table
  <2>2. Table(Slots, clifds, Clients, conn)' BY <1>s, <1>d
  <2> QED BY <1>s, <2>1, <2>2 DEF SelectInv, SelectTypes, OpenIsWatched
<1>1. ASSUME NEW c \in Clients, Connect(c) PROVE SelectInv'
  <2>1. conn[c] = "none" /\ conn' = [conn EXCEPT ![c] = "backlog"] /\ UNCHANGED <<clifds, cli_cnt, ready>>
    BY <1>1 DEF Connect
  <2>2. Table(Slots, clifds, Clients, [conn EXCEPT ![c] = "backlog"]) BY <1>0, <1>d, <2>1, TableStays, Zenon
  <2> QED BY <2>1, <2>2 DEF SelectInv, SelectTypes, OpenIsWatched
<1>2. ASSUME NEW c \in Clients, Pong(c) \/ HangUp(c) PROVE SelectInv' BY <1>2, <1>s DEF Pong, HangUp
<1>3. CASE SelectFails BY <1>3, <1>s DEF SelectFails
<1>4. CASE Select BY <1>4, <1>s DEF Select
<1>5. ASSUME NEW c \in Clients, Accept(c) PROVE SelectInv'
  <2>1. conn[c] = "backlog" /\ ready' = ready BY <1>5 DEF Accept, Pending
  <2>2. CASE FreeSlots = {}
    <3>1. conn' = [conn EXCEPT ![c] = "lost"] /\ UNCHANGED <<clifds, cli_cnt>> BY <1>5, <2>2 DEF Accept
    <3>2. Table(Slots, clifds, Clients, [conn EXCEPT ![c] = "lost"]) BY <1>0, <1>d, <2>1, TableStays, Zenon
    <3> QED BY <2>1, <3>1, <3>2 DEF SelectInv, SelectTypes, OpenIsWatched
  <2>3. CASE FreeSlots # {}
    <3>1. /\ conn' = [conn EXCEPT ![c] = "open"] /\ clifds' = [clifds EXCEPT ![FirstFree] = c]
          /\ cli_cnt' = cli_cnt + 1
      BY <1>5, <2>3 DEF Accept
    <3>2. FirstFree \in Slots /\ clifds[FirstFree] = NoFd /\ \A j \in FreeSlots : FirstFree <= j
      BY <2>3, FirstIsFree DEF FreeSlots
    <3>3. Table(Slots, clifds', Clients, conn') BY <1>0, <1>d, <2>1, <3>1, <3>2, TableStores, Zenon
    <3>4. FirstFree <= cli_cnt
      <4> SUFFICES ASSUME FirstFree > cli_cnt PROVE FALSE BY <3>2 DEF Slots, SelectInv, SelectTypes
      <4>1. cli_cnt \in Slots /\ ~(FirstFree <= cli_cnt) BY <1>0, <3>2 DEF Slots, SelectInv, SelectTypes
      <4>2. clifds[cli_cnt] # NoFd BY <3>2, <4>1 DEF FreeSlots
      <4> QED BY <4>1, <4>2 DEF SelectInv, SelectTypes, OpenIsWatched
    <3>5. OpenIsWatched'
      <4> SUFFICES ASSUME NEW i \in Slots, clifds'[i] # NoFd PROVE i < cli_cnt' BY DEF OpenIsWatched
      <4>1. i \in Nat /\ cli_cnt \in Nat BY DEF Slots, SelectInv, SelectTypes
      <4>2. CASE i = FirstFree BY <3>1, <3>4, <4>1, <4>2
      <4>3. CASE i # FirstFree
        <5>1. clifds[i] # NoFd BY <3>1, <4>3
        <5>2. i < cli_cnt BY <5>1 DEF SelectInv, OpenIsWatched
        <5> QED BY <3>1, <4>1, <5>2
      <4> QED BY <4>2, <4>3
    <3> QED BY <2>1, <3>1, <3>3, <3>5 DEF SelectInv, SelectTypes
  <2> QED BY <2>2, <2>3
<1>6. ASSUME NEW i \in Slots, Echo(i) PROVE SelectInv' BY <1>6, <1>s DEF Echo, AtSlot
<1>7. ASSUME NEW i \in Slots, Close(i) PROVE SelectInv'
  <2>1. /\ clifds[i] \in ready /\ ready' = ready \ {clifds[i]} /\ cli_cnt' = cli_cnt
        /\ conn' = [conn EXCEPT ![clifds[i]] = "closed"] /\ clifds' = [clifds EXCEPT ![i] = NoFd]
    BY <1>7 DEF Close, AtSlot
  <2>2. clifds[i] # NoFd BY <1>0, <2>1 DEF SelectInv, SelectTypes
  <2>3. Table(Slots, clifds', Clients, conn') BY <1>0, <1>d, <2>1, <2>2, TableFrees, Zenon
  <2>4. OpenIsWatched' BY <2>1 DEF SelectInv, OpenIsWatched, Table
  <2> QED BY <2>1, <2>3, <2>4 DEF SelectInv, SelectTypes
<1>8. CASE UNCHANGED vars BY <1>8, <1>s DEF vars
<1> QED BY <1>1, <1>2, <1>3, <1>4, <1>5, <1>6, <1>7, <1>8 DEF Next, ServerStep

-----------------------------------------------------------------------------
(* via_poll *)

PollTypes ==
    /\ maxi \in Nat
    /\ todo \subseteq Poll!Slots
    /\ pollconn \in [PollClients -> {"none", "backlog", "open", "closed"}]
    /\ pollpeer \in [PollClients -> {"idle", "sent", "last", "gone", "reset"}]

\* A slot still to be read holds a client.
Occupied == \A i \in todo : clientfds[i] # NoFd

PollInv ==
    /\ PollTypes /\ Occupied
    /\ Table(Poll!Slots, clientfds, PollClients, pollconn)
    /\ Poll!OpenIsPolled
    /\ Poll!StallOnlyOnFreshSlot

\* The first free slot, where there is one.
LEMMA FirstIsFreeToo ==
    Poll!FreeSlots # {} => Poll!FirstFree \in Poll!FreeSlots /\ \A j \in Poll!FreeSlots : Poll!FirstFree <= j
<1> SUFFICES ASSUME Poll!FreeSlots # {}
             PROVE  Poll!FirstFree \in Poll!FreeSlots /\ \A j \in Poll!FreeSlots : Poll!FirstFree <= j
  OBVIOUS
<1>0. OPEN_MAX \in Nat BY PollAssumption
<1>1. Poll!FreeSlots \subseteq Nat BY <1>0 DEF Poll!FreeSlots, Poll!Slots
<1>2. \E i \in Poll!FreeSlots : \A j \in Poll!FreeSlots : i <= j BY <1>1, Least
<1> QED BY <1>2 DEF Poll!FirstFree

\* The clients only ever make a descriptor readable.
LEMMA PollClientKeeps ==
    ASSUME PollInv, NEW c \in PollClients, Poll!Connect(c) \/ Poll!Send(c) \/ Poll!Leave(c) PROVE PollInv'
<1>0. NoFd \notin PollClients BY PollAssumption
<1>1. CASE Poll!Connect(c)
  <2>1. /\ pollconn[c] = "none" /\ pollconn' = [pollconn EXCEPT ![c] = "backlog"]
        /\ UNCHANGED <<clientfds, maxi, garbage, todo, pollpeer>>
    BY <1>1 DEF Poll!Connect
  <2>2. DOMAIN pollconn = PollClients /\ Table(Poll!Slots, clientfds, PollClients, pollconn)
    BY DEF PollInv, PollTypes
  <2>3. Table(Poll!Slots, clientfds, PollClients, [pollconn EXCEPT ![c] = "backlog"])
    BY <1>0, <2>1, <2>2, TableStays, Zenon
  <2> QED BY <2>1, <2>3
          DEF PollInv, PollTypes, Occupied, Poll!OpenIsPolled, Poll!StallOnlyOnFreshSlot, Poll!Readable
<1>2. CASE Poll!Send(c) \/ Poll!Leave(c)
  <2>1. /\ UNCHANGED <<clientfds, maxi, garbage, todo, pollconn>>
        /\ \E s \in {"sent", "last", "gone", "reset"} : pollpeer' = [pollpeer EXCEPT ![c] = s]
    BY <1>2 DEF Poll!Send, Poll!Leave
  <2>2. \A d \in PollClients : pollpeer[d] # "idle" => pollpeer'[d] # "idle" BY <2>1 DEF PollInv, PollTypes
  <2>3. PollTypes' /\ Occupied' /\ Poll!OpenIsPolled'
    BY <2>1 DEF PollInv, PollTypes, Occupied, Poll!OpenIsPolled
  <2>4. Table(Poll!Slots, clientfds, PollClients, pollconn)' BY <2>1 DEF PollInv
  <2>5. \A i \in todo : clientfds[i] \in PollClients BY DEF PollInv, PollTypes, Occupied, Table
  <2>6. Poll!StallOnlyOnFreshSlot'
    BY <2>1, <2>2, <2>5 DEF PollInv, Poll!StallOnlyOnFreshSlot, Poll!Readable
  <2> QED BY <2>3, <2>4, <2>6 DEF PollInv
<1> QED BY <1>1, <1>2

\* do_poll.
LEMMA PollRunKeeps ==
    ASSUME PollInv, Poll!Poll \/ Poll!Fails \/ \E c \in PollClients : Poll!Accept(c) \/ Poll!TooMany(c)
    PROVE  PollInv'
<1>0. NoFd \notin PollClients /\ OPEN_MAX \in Nat BY PollAssumption
<1>1. CASE Poll!Poll
  <2>1. todo' = Poll!Reported /\ UNCHANGED <<clientfds, maxi, garbage, pollconn, pollpeer>>
    BY <1>1 DEF Poll!Poll
  <2>2. Table(Poll!Slots, clientfds, PollClients, pollconn)' BY <2>1 DEF PollInv
  <2> QED BY <2>1, <2>2 DEF PollInv, PollTypes, Occupied, Poll!OpenIsPolled, Poll!StallOnlyOnFreshSlot,
          Poll!Readable, Poll!Reported
<1>2. CASE Poll!Fails \/ \E c \in PollClients : Poll!TooMany(c)
  <2>1. UNCHANGED <<todo, clientfds, maxi, garbage, pollconn, pollpeer>> BY <1>2 DEF Poll!Fails, Poll!TooMany
  <2>2. Table(Poll!Slots, clientfds, PollClients, pollconn)' BY <2>1 DEF PollInv
  <2> QED BY <2>1, <2>2 DEF PollInv, PollTypes, Occupied, Poll!OpenIsPolled, Poll!StallOnlyOnFreshSlot,
          Poll!Readable
<1>3. ASSUME NEW c \in PollClients, Poll!Accept(c) PROVE PollInv'
  <2> DEFINE f == Poll!FirstFree
  <2>1. /\ pollconn[c] = "backlog" /\ Poll!FreeSlots # {}
        /\ clientfds' = [clientfds EXCEPT ![f] = c] /\ maxi' = (IF f > maxi THEN f ELSE maxi)
        /\ pollconn' = [pollconn EXCEPT ![c] = "open"]
        /\ todo' = (IF Poll!Reported = {} THEN {} ELSE Poll!SlotsToRead(f))
        /\ UNCHANGED <<garbage, pollpeer>>
    BY <1>3 DEF Poll!Accept, Poll!Pending
  <2>2. f \in Poll!Slots /\ clientfds[f] = NoFd BY <2>1, FirstIsFreeToo DEF Poll!FreeSlots
  <2> HIDE DEF f
  <2>3. DOMAIN pollconn = PollClients /\ Table(Poll!Slots, clientfds, PollClients, pollconn)
    BY DEF PollInv, PollTypes
  <2>4. Table(Poll!Slots, clientfds', PollClients, pollconn') BY <1>0, <2>1, <2>2, <2>3, TableStores, Zenon
  <2>5. /\ f \in Nat /\ maxi \in Nat /\ maxi' \in Nat /\ f <= maxi' /\ maxi <= maxi'
        /\ f > maxi => f = maxi'
    BY <1>0, <2>1, <2>2 DEF Poll!Slots, PollInv, PollTypes
  <2>6. \A i \in Poll!Slots : clientfds'[i] = IF i = f THEN c ELSE clientfds[i] BY <2>1, <2>3 DEF Table
  <2>7. Poll!OpenIsPolled'
    <3> SUFFICES ASSUME NEW i \in Poll!Slots, clientfds'[i] # NoFd PROVE i <= maxi' BY DEF Poll!OpenIsPolled
    <3>1. i \in Nat BY <1>0 DEF Poll!Slots
    <3>2. CASE i = f BY <2>5, <3>2
    <3>3. CASE i # f
      <4>1. i <= maxi BY <2>6, <3>3 DEF PollInv, Poll!OpenIsPolled
      <4> QED BY <2>5, <3>1, <4>1
    <3> QED BY <3>2, <3>3
  <2>8. \A i \in todo' : i \in Poll!Reported \/ (i = f /\ f > maxi /\ i \in garbage)
    BY <2>1 DEF Poll!SlotsToRead
  <2>9. \A i \in Poll!Reported : i \in Poll!Slots /\ i # f /\ clientfds[i] # NoFd /\ Poll!Readable(clientfds[i])
    BY <2>2 DEF Poll!Reported
  <2>10. todo' \subseteq Poll!Slots /\ Occupied' BY <1>0, <2>2, <2>6, <2>8, <2>9 DEF Occupied
  <2>11. Poll!StallOnlyOnFreshSlot'
    BY <2>1, <2>2, <2>5, <2>6, <2>8, <2>9 DEF Poll!StallOnlyOnFreshSlot, Poll!Readable
  <2>12. PollTypes' BY <2>1, <2>5, <2>10 DEF PollInv, PollTypes
  <2> QED BY <2>4, <2>7, <2>10, <2>11, <2>12 DEF PollInv
<1> QED BY <1>1, <1>2, <1>3

\* handle_connection: the slot it has read is no longer to be read.
LEMMA PollHandleKeeps == ASSUME PollInv, NEW i \in Poll!Slots, Poll!Echo(i) \/ Poll!Close(i) PROVE PollInv'
<1>0. NoFd \notin PollClients BY PollAssumption
<1>1. i \in todo /\ todo' = todo \ {i} /\ UNCHANGED <<maxi, garbage>> BY DEF Poll!Echo, Poll!Close, Poll!AtSlot
<1>2. /\ clientfds[i] \in PollClients
      /\ \A j \in todo' : j \in Poll!Slots /\ clientfds[j] \in PollClients /\ clientfds[j] # clientfds[i]
  BY <1>1 DEF PollInv, PollTypes, Occupied, Table
<1>3. CASE Poll!Echo(i)
  <2>1. /\ UNCHANGED <<clientfds, pollconn>>
        /\ \E s \in {"idle", "gone"} : pollpeer' = [pollpeer EXCEPT ![clientfds[i]] = s]
    BY <1>2, <1>3, Zenon DEF Poll!Echo, PollInv, PollTypes
  <2>2. \A j \in todo' : pollpeer'[clientfds[j]] = pollpeer[clientfds[j]] BY <1>2, <2>1 DEF PollInv, PollTypes
  <2>3. PollTypes' /\ Occupied' /\ Poll!OpenIsPolled'
    BY <1>1, <1>2, <2>1 DEF PollInv, PollTypes, Occupied, Poll!OpenIsPolled
  <2>4. Table(Poll!Slots, clientfds, PollClients, pollconn)' BY <2>1 DEF PollInv
  <2>5. Poll!StallOnlyOnFreshSlot' BY <1>1, <2>1, <2>2 DEF PollInv, Poll!StallOnlyOnFreshSlot, Poll!Readable
  <2> QED BY <2>3, <2>4, <2>5 DEF PollInv
<1>4. CASE Poll!Close(i)
  <2>1. /\ pollconn' = [pollconn EXCEPT ![clientfds[i]] = "closed"]
        /\ clientfds' = [clientfds EXCEPT ![i] = NoFd] /\ pollpeer' = pollpeer
    BY <1>4 DEF Poll!Close
  <2>2. DOMAIN pollconn = PollClients /\ Table(Poll!Slots, clientfds, PollClients, pollconn)
    BY DEF PollInv, PollTypes
  <2>3. Table(Poll!Slots, clientfds', PollClients, pollconn') BY <1>0, <1>2, <2>1, <2>2, TableFrees, Zenon
  <2>4. \A j \in Poll!Slots : clientfds'[j] = IF j = i THEN NoFd ELSE clientfds[j] BY <2>1, <2>2 DEF Table
  <2>5. PollTypes' BY <1>1, <1>2, <2>1 DEF PollInv, PollTypes
  <2>6. Occupied' /\ Poll!OpenIsPolled'
    BY <1>1, <1>2, <2>4 DEF PollInv, PollTypes, Occupied, Poll!OpenIsPolled
  <2>7. Poll!StallOnlyOnFreshSlot'
    BY <1>1, <1>2, <2>1, <2>4 DEF PollInv, Poll!StallOnlyOnFreshSlot, Poll!Readable
  <2> QED BY <2>3, <2>5, <2>6, <2>7 DEF PollInv
<1> QED BY <1>3, <1>4

\* All of it together.
LEMMA PollKeeps == PollInv /\ [ServersNext]_allvars => PollInv'
<1> SUFFICES ASSUME PollInv, [Poll!Next]_(Poll!vars) PROVE PollInv' BY PollSteps
<1>1. CASE UNCHANGED Poll!vars
  <2>1. Table(Poll!Slots, clientfds, PollClients, pollconn)' BY <1>1 DEF PollInv, Poll!vars
  <2> QED BY <1>1, <2>1 DEF Poll!vars, PollInv, PollTypes, Occupied, Poll!OpenIsPolled,
          Poll!StallOnlyOnFreshSlot, Poll!Readable
<1>2. CASE Poll!Next
  BY <1>2, PollClientKeeps, PollRunKeeps, PollHandleKeeps DEF Poll!Next, Poll!ServerStep
<1> QED BY <1>1, <1>2

-----------------------------------------------------------------------------
\* Both servers start with empty tables.
LEMMA ServersStart == ServersInit => SelectInv /\ PollInv
<1> SUFFICES ASSUME ServersInit PROVE SelectInv /\ PollInv OBVIOUS
<1>1. SelectInv
  BY DEF ServersInit, Init, SelectInv, SelectTypes, Table, OpenIsWatched
<1>2. PollInv
  BY DEF ServersInit, Poll!Init, PollInv, PollTypes, Occupied, Table, Poll!OpenIsPolled,
         Poll!StallOnlyOnFreshSlot
<1> QED BY <1>1, <1>2

\* For tables and clients of any number, a connection is open exactly while one slot
\* holds it, and neither the scan of select up to cli_cnt nor that of poll up to maxi
\* leaves out an open connection, although cli_cnt never counts down and both
\* servers reuse the slots in the middle.
THEOREM TablesAreRight == Spec => []SlotsAreScannedClients
<1>1. SelectInv => OneSlotEach /\ OpenIsWatched
  <2> SUFFICES ASSUME SelectInv, NEW c \in Clients
               PROVE  Cardinality({i \in Slots : clifds[i] = c}) = (IF conn[c] = "open" THEN 1 ELSE 0)
    BY DEF OneSlotEach, SelectInv
  <2>1. c # NoFd BY SelectAssumption
  <2>2. /\ \A i, j \in Slots : clifds[i] = c /\ clifds[j] = c => i = j
        /\ (conn[c] = "open") <=> \E i \in Slots : clifds[i] = c
    BY <2>1 DEF SelectInv, Table
  <2>3. Cardinality(Places(Slots, clifds, c)) = (IF conn[c] = "open" THEN 1 ELSE 0) BY <2>2, PlaceCount
  <2> QED BY <2>3 DEF Places
<1>2. PollInv => Poll!OneSlotEach /\ Poll!OpenIsPolled
  <2> SUFFICES ASSUME PollInv, NEW c \in PollClients
               PROVE  Poll!Cardinality({i \in Poll!Slots : clientfds[i] = c})
                        = (IF pollconn[c] = "open" THEN 1 ELSE 0)
    BY DEF Poll!OneSlotEach, PollInv
  <2>1. c # NoFd BY PollAssumption
  <2>2. /\ \A i, j \in Poll!Slots : clientfds[i] = c /\ clientfds[j] = c => i = j
        /\ (pollconn[c] = "open") <=> \E i \in Poll!Slots : clientfds[i] = c
    BY <2>1 DEF PollInv, Table
  <2>3. Cardinality(Places(Poll!Slots, clientfds, c)) = (IF pollconn[c] = "open" THEN 1 ELSE 0)
    BY <2>2, PlaceCount
  <2>4. Poll!Cardinality({i \in Poll!Slots : clientfds[i] = c}) = Cardinality(Places(Poll!Slots, clientfds, c))
    BY DEF Poll!Cardinality, Cardinality, Places
  <2> QED BY <2>3, <2>4
<1>3. SelectInv /\ PollInv => SlotsAreScannedClients BY <1>1, <1>2 DEF SlotsAreScannedClients
<1> QED BY <1>3, ServersStart, SelectKeeps, PollKeeps, PTL DEF Spec

\* The poll server can block in one read only: that of the slot just accepted into
\* beyond all others, whose revents was never written.
THEOREM BlocksOnFreshSlotOnly == Spec => []StallOnlyOnFreshSlot
<1>1. PollInv => StallOnlyOnFreshSlot BY DEF PollInv, StallOnlyOnFreshSlot
<1> QED BY <1>1, ServersStart, PollKeeps, PTL DEF Spec
=============================================================================
