---------------------------- MODULE SelectServer ----------------------------
(***************************************************************************)
(* The echo server of code/network/IO/multiplexing/via_select/server.cpp   *)
(* with clients that send, wait for the echo, send again and may hang up   *)
(* at any moment (via_select/client.cpp).  A message is only present or    *)
(* absent; a client sends its next one after the echo of the last.         *)
(*                                                                         *)
(* clifds lies right before allfds in the context, so reading past its end *)
(* reads the descriptor set as a number.  In the scan after select that    *)
(* number exceeds every ready descriptor and nothing happens; in the scan  *)
(* before select it is put into the set, and select fails with EBADF       *)
(* unless a descriptor of that number happens to be open.                  *)
(***************************************************************************)
EXTENDS Integers, FiniteSets

CONSTANTS
    SIZE,      \* the slots of clifds (10 in the code)
    Clients,   \* the connections made over the server's life
    FDs,       \* connections the process has descriptors for (about 1020)
    NoFd       \* an empty slot, -1 in the code

ASSUME SelectAssumption == SIZE \in Nat \ {0} /\ FDs \in Nat /\ FDs > SIZE /\ NoFd \notin Clients

VARIABLES
    clifds, cli_cnt,
    up,       \* main is in handle_client_proc
    ready,    \* what select reported and the scan has not reached yet
    conn,     \* of each connection: none, backlog, open, lost (accepted, no slot), closed
    peer,     \* the client: idle, sent, last (sent and hung up), gone (hung up)
    echoed    \* the connections with an echo on its way back to the client

vars == <<clifds, cli_cnt, up, ready, conn, peer, echoed>>

Slots == 0 .. SIZE - 1

\* Where socket, setsockopt or bind fails, main returns -1 at once.
create_server_proc == up \in BOOLEAN

Init ==
    /\ clifds = [i \in Slots |-> NoFd]
    /\ cli_cnt = 0
    /\ create_server_proc
    /\ ready = {}
    /\ conn = [c \in Clients |-> "none"]
    /\ peer = [c \in Clients |-> "idle"]
    /\ echoed = {}

-----------------------------------------------------------------------------
(* The clients: main and handle_connection of client.cpp *)

Connect(c) ==
    /\ up
    /\ conn[c] = "none"
    /\ conn' = [conn EXCEPT ![c] = "backlog"]
    /\ peer' = [peer EXCEPT ![c] = "sent"]
    /\ UNCHANGED <<clifds, cli_cnt, up, ready, echoed>>

\* The echo arrives and is sent back as the next message.
Pong(c) ==
    /\ c \in echoed
    /\ peer[c] = "idle"
    /\ echoed' = echoed \ {c}
    /\ peer' = [peer EXCEPT ![c] = "sent"]
    /\ UNCHANGED <<clifds, cli_cnt, up, ready, conn>>

\* The client's process ends; a message it has sent still comes before the EOF.
HangUp(c) ==
    /\ conn[c] \in {"backlog", "open", "lost"}
    /\ peer[c] \in {"idle", "sent"}
    /\ peer' = [peer EXCEPT ![c] = IF peer[c] = "sent" THEN "last" ELSE "gone"]
    /\ echoed' = echoed \ {c}
    /\ UNCHANGED <<clifds, cli_cnt, up, ready, conn>>

-----------------------------------------------------------------------------
(* One round of handle_client_proc *)

\* The descriptors the first loop puts into the set.
Watched == {clifds[i] : i \in {j \in Slots : j < cli_cnt}} \ {NoFd}

Readable(c) == peer[c] # "idle"

Pending == {c \in Clients : conn[c] = "backlog"}

\* With SIZE even, clifds[SIZE] is the zeroed padding before allfds (descriptor
\* 0, standard input) and clifds[SIZE + 1] the first word of allfds: once the loop
\* reads that, the number may be no open descriptor, and select returns -1.
SelectFails ==
    /\ up
    /\ ready = {}
    /\ cli_cnt > SIZE + 1
    /\ up' = FALSE
    /\ UNCHANGED <<clifds, cli_cnt, ready, conn, peer, echoed>>

FreeSlots == {i \in Slots : clifds[i] = NoFd}

FirstFree == CHOOSE i \in FreeSlots : \A j \in FreeSlots : i <= j

\* accept has a descriptor to give.  A connection without a slot keeps the one it
\* got, for nobody closes it.
CanAccept == Cardinality({c \in Clients : conn[c] \in {"open", "lost"}}) < FDs

\* srvfd is readable: accept_client_proc, and nothing else in this round.  When
\* accept fails, the round has changed nothing and the next one is the same.
Accept(c) ==
    /\ up
    /\ ready = {}
    /\ c \in Pending /\ CanAccept
    /\ IF FreeSlots = {}
       THEN /\ conn' = [conn EXCEPT ![c] = "lost"]
            /\ UNCHANGED <<clifds, cli_cnt>>
       ELSE /\ conn' = [conn EXCEPT ![c] = "open"]
            /\ clifds' = [clifds EXCEPT ![FirstFree] = c]
            /\ cli_cnt' = cli_cnt + 1
    /\ UNCHANGED <<up, ready, peer, echoed>>

\* Only clients are readable: select returns and recv_client_msg begins.
Select ==
    /\ up
    /\ ready = {}
    /\ Pending = {}
    /\ ready' = {c \in Watched : Readable(c)}
    /\ ready' # {}
    /\ UNCHANGED <<clifds, cli_cnt, up, conn, peer, echoed>>

\* recv_client_msg reaches slot i; the loop goes on while i <= cli_cnt.
AtSlot(i) ==
    /\ clifds[i] \in ready
    /\ i <= cli_cnt
    /\ \A j \in Slots : clifds[j] \in ready => i <= j
    /\ ready' = ready \ {clifds[i]}

Echo(i) ==
    /\ AtSlot(i)
    /\ \/ /\ peer[clifds[i]] = "sent"
          /\ peer' = [peer EXCEPT ![clifds[i]] = "idle"]
          /\ echoed' = echoed \cup {clifds[i]}
       \/ /\ peer[clifds[i]] = "last"
          /\ peer' = [peer EXCEPT ![clifds[i]] = "gone"]
          /\ UNCHANGED echoed
    /\ UNCHANGED <<clifds, cli_cnt, up, conn>>

CloseCounted(i) ==
    /\ AtSlot(i)
    /\ peer[clifds[i]] = "gone"
    /\ conn' = [conn EXCEPT ![clifds[i]] = "closed"]
    /\ clifds' = [clifds EXCEPT ![i] = NoFd]
    /\ cli_cnt' = cli_cnt - 1
    /\ UNCHANGED <<up, peer, echoed>>

\* read returned 0: close the descriptor and empty the slot; cli_cnt stays.
Close(i) ==
    /\ AtSlot(i)
    /\ peer[clifds[i]] = "gone"
    /\ conn' = [conn EXCEPT ![clifds[i]] = "closed"]
    /\ clifds' = [clifds EXCEPT ![i] = NoFd]
    /\ UNCHANGED <<cli_cnt, up, peer, echoed>>

-----------------------------------------------------------------------------
ServerStep ==
    \/ SelectFails
    \/ Select
    \/ \E c \in Clients : Accept(c)
    \/ \E i \in Slots : Echo(i) \/ Close(i)

Next == ServerStep \/ \E c \in Clients : Connect(c) \/ Pong(c) \/ HangUp(c)

-----------------------------------------------------------------------------
\* A connection is open exactly while one slot, and only one, holds it: slots
\* freed by a hang-up are reused without losing or doubling a client.
OneSlotEach ==
    \A c \in Clients :
        Cardinality({i \in Slots : clifds[i] = c}) = (IF conn[c] = "open" THEN 1 ELSE 0)

\* Both scans stop at cli_cnt, the number of clients ever stored, not at the
\* number of slots: still no open connection lies beyond them unwatched.
OpenIsWatched == \A i \in Slots : clifds[i] # NoFd => i < cli_cnt

\* A connection waits that accept has no descriptor for: as srvfd stays readable,
\* the clients are not looked at any more.
Exhausted == Pending # {} /\ ~CanAccept

\* What a connected client has sent is echoed, unless the server goes down or runs
\* out of descriptors.
EveryMessageEchoed ==
    \A c \in Clients :
        (conn[c] = "open" /\ peer[c] \in {"sent", "last"}) ~>
            (peer[c] \in {"idle", "gone"} \/ ~up \/ Exhausted)

\* A hang-up frees the client's slot under the same conditions.
HangUpFreesSlot ==
    \A c \in Clients :
        (conn[c] = "open" /\ peer[c] = "gone") ~> (conn[c] = "closed" \/ ~up \/ Exhausted)
=============================================================================
