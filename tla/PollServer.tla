----------------------------- MODULE PollServer -----------------------------
(***************************************************************************)
(* The echo server of code/network/IO/multiplexing/via_poll/server.cpp,    *)
(* with clients that send, wait for the echo, hang up or reset.            *)
(*                                                                         *)
(* clientfds is an uninitialised array of which only fd is set: the        *)
(* revents of a slot that has never been passed to poll is whatever the    *)
(* stack held.  poll overwrites revents in slots 0 .. maxi and maxi never  *)
(* decreases, so garbage is only ever seen in a slot that has just become  *)
(* slot maxi.                                                              *)
(***************************************************************************)
EXTENDS Integers, FiniteSets

CONSTANTS
    OPEN_MAX,   \* size of clientfds, slot 0 being the listening socket (1000)
    Clients,    \* the connections made over the server's life
    NoFd        \* an empty slot, -1 in the code

VARIABLES
    clientfds, maxi,
    garbage,   \* the slots whose uninitialised revents has the POLLIN bit
    todo,      \* the slots handle_connection still has to read
    exited,    \* exit(1) was called
    conn,      \* of each connection: none, backlog, open, closed
    peer       \* the client: idle, sent, last (sent, hung up), gone (hung up), reset

vars == <<clientfds, maxi, garbage, todo, exited, conn, peer>>

Slots == 1 .. OPEN_MAX - 1

\* Where socket or bind fails, exit(1).
socket_bind == exited \in BOOLEAN

Init ==
    /\ clientfds = [i \in Slots |-> NoFd]
    /\ maxi = 0
    /\ garbage \in SUBSET Slots
    /\ todo = {}
    /\ socket_bind
    /\ conn = [c \in Clients |-> "none"]
    /\ peer = [c \in Clients |-> "idle"]

-----------------------------------------------------------------------------
(* The clients *)

Connect(c) ==
    /\ ~exited
    /\ conn[c] = "none"
    /\ conn' = [conn EXCEPT ![c] = "backlog"]
    /\ UNCHANGED <<clientfds, maxi, garbage, todo, exited, peer>>

Send(c) ==
    /\ conn[c] \in {"backlog", "open"}
    /\ peer[c] = "idle"
    /\ peer' = [peer EXCEPT ![c] = "sent"]
    /\ UNCHANGED <<clientfds, maxi, garbage, todo, exited, conn>>

\* Orderly end of the client, or a reset, which discards what it has sent.
Leave(c) ==
    /\ conn[c] \in {"backlog", "open"}
    /\ peer[c] \in {"idle", "sent"}
    /\ peer' \in {[peer EXCEPT ![c] = IF peer[c] = "sent" THEN "last" ELSE "gone"],
                  [peer EXCEPT ![c] = "reset"]}
    /\ UNCHANGED <<clientfds, maxi, garbage, todo, exited, conn>>

-----------------------------------------------------------------------------
(* do_poll *)

Readable(c) == peer[c] # "idle"

Pending == {c \in Clients : conn[c] = "backlog"}

\* The slots in which poll reports POLLIN.
Reported == {i \in Slots : i <= maxi /\ clientfds[i] # NoFd /\ Readable(clientfds[i])}

FreeSlots == {i \in Slots : clientfds[i] = NoFd}

FirstFree == CHOOSE i \in FreeSlots : \A j \in FreeSlots : i <= j

\* The slots handle_connection will find with revents & POLLIN after an accept
\* into slot i.
SlotsByEvents(i) == {j \in Slots : j <= maxi \/ j = i} \ (FreeSlots \ {i})

SlotsToRead(i) == Reported \cup (IF i > maxi THEN garbage \cap {i} ELSE {})

AcceptForgettingMaxi(c) ==
    /\ ~exited
    /\ todo = {}
    /\ c \in Pending
    /\ FreeSlots # {}
    /\ clientfds' = [clientfds EXCEPT ![FirstFree] = c]
    /\ conn' = [conn EXCEPT ![c] = "open"]
    /\ todo' = IF Reported = {} THEN {} ELSE SlotsToRead(FirstFree)
    /\ UNCHANGED <<maxi, garbage, exited, peer>>

\* The listening socket is readable: accept, store, and, if poll reported more
\* descriptors than that one (--nready > 0), go on to handle_connection.
Accept(c) ==
    /\ ~exited
    /\ todo = {}
    /\ c \in Pending
    /\ FreeSlots # {}
    /\ clientfds' = [clientfds EXCEPT ![FirstFree] = c]
    /\ maxi' = IF FirstFree > maxi THEN FirstFree ELSE maxi
    /\ conn' = [conn EXCEPT ![c] = "open"]
    /\ todo' = IF Reported = {} THEN {} ELSE SlotsToRead(FirstFree)
    /\ UNCHANGED <<garbage, exited, peer>>

\* i == OPEN_MAX: "too many clients", exit(1); every connection is cut.
TooMany(c) ==
    /\ ~exited
    /\ todo = {}
    /\ c \in Pending
    /\ FreeSlots = {}
    /\ exited' = TRUE
    /\ UNCHANGED <<clientfds, maxi, garbage, todo, conn, peer>>

\* poll fails, or accept does, other than by EINTR: exit(1).  After EINTR poll is
\* called again.
Fails ==
    /\ ~exited
    /\ todo = {}
    /\ exited' = TRUE
    /\ UNCHANGED <<clientfds, maxi, garbage, todo, conn, peer>>

\* Only clients are readable.
Poll ==
    /\ ~exited
    /\ todo = {}
    /\ Pending = {}
    /\ Reported # {}
    /\ todo' = Reported
    /\ UNCHANGED <<clientfds, maxi, garbage, exited, conn, peer>>

\* handle_connection reaches slot i.  The read blocks, and the server with it,
\* as long as there is nothing to read: then none of the steps below can be taken.
AtSlot(i) ==
    /\ ~exited
    /\ i \in todo
    /\ \A j \in todo : i <= j
    /\ todo' = todo \ {i}

\* n > 0: echo; n == -1 (a reset): the failed writes change nothing, and the
\* descriptor reads as closed from now on.
Echo(i) ==
    /\ AtSlot(i)
    /\ peer[clientfds[i]] \in {"sent", "last", "reset"}
    /\ peer' = [peer EXCEPT ![clientfds[i]] = IF @ = "sent" THEN "idle" ELSE "gone"]
    /\ UNCHANGED <<clientfds, maxi, garbage, exited, conn>>

\* n == 0: close the descriptor and empty the slot.
Close(i) ==
    /\ AtSlot(i)
    /\ peer[clientfds[i]] = "gone"
    /\ conn' = [conn EXCEPT ![clientfds[i]] = "closed"]
    /\ clientfds' = [clientfds EXCEPT ![i] = NoFd]
    /\ UNCHANGED <<maxi, garbage, exited, peer>>

-----------------------------------------------------------------------------
ServerStep ==
    \/ Poll
    \/ \E c \in Clients : Accept(c) \/ TooMany(c)
    \/ \E i \in Slots : Echo(i) \/ Close(i)

Next == ServerStep \/ Fails \/ \E c \in Clients : Connect(c) \/ Send(c) \/ Leave(c)

-----------------------------------------------------------------------------
\* A connection is open exactly while one slot, and only one, holds it.
OneSlotEach ==
    \A c \in Clients :
        Cardinality({i \in Slots : clientfds[i] = c}) = (IF conn[c] = "open" THEN 1 ELSE 0)

\* poll is told about slots 0 .. maxi only, and maxi is the largest slot ever
\* used: no open connection lies beyond it.
OpenIsPolled == \A i \in Slots : clientfds[i] # NoFd => i <= maxi

\* The only read that can block the server is that of a slot just accepted into
\* for the first time, whose revents poll has never written.
StallOnlyOnFreshSlot ==
    \A i \in todo : ~Readable(clientfds[i]) => i \in garbage /\ i = maxi

\* The server is blocked in, or on its way to, a read that finds nothing.
Stalled == \E i \in todo : ~Readable(clientfds[i])

\* What a connected client has sent is echoed, unless the server has exited or
\* stays blocked reading from another client.
EveryMessageEchoed ==
    \A c \in Clients :
        (conn[c] = "open" /\ peer[c] \in {"sent", "last"}) ~>
            (peer[c] \notin {"sent", "last"} \/ exited \/ []Stalled)

\* The slot of a client that has hung up or reset its connection becomes free
\* under the same conditions: the -1 read after a reset is not taken for the end,
\* but a read of 0 follows it.
HangUpFreesSlot ==
    \A c \in Clients :
        (conn[c] = "open" /\ peer[c] \in {"last", "gone", "reset"}) ~>
            (conn[c] = "closed" \/ exited \/ []Stalled)

\* A read that is about to be made finds something.
ReadOnlyWhenReady == \A i \in todo : Readable(clientfds[i])
=============================================================================
