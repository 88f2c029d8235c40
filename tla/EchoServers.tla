---------------------------- MODULE EchoServers ----------------------------
(***************************************************************************)
(* The two echo servers of code/network/IO/multiplexing that keep their    *)
(* clients in a table of slots: via_select (SelectServer) and via_poll     *)
(* (PollServer).  Which one runs is chosen at the start.                   *)
(***************************************************************************)
EXTENDS SelectServer

CONSTANTS
    OPEN_MAX,      \* of PollServer
    PollClients    \* the connections made to PollServer

ASSUME PollAssumption == OPEN_MAX \in Nat \ {0, 1} /\ NoFd \notin PollClients

VARIABLES program, clientfds, maxi, garbage, todo, exited, pollconn, pollpeer

Poll == INSTANCE PollServer WITH Clients <- PollClients, conn <- pollconn, peer <- pollpeer

pollvars == <<clientfds, maxi, garbage, todo, exited, pollconn, pollpeer>>

ServersInit ==
    /\ program \in {"select", "poll"}
    /\ Init
    /\ Poll!Init
    /\ IF program = "select" THEN garbage = {} /\ ~exited ELSE up

SelectOnly == program = "select" /\ UNCHANGED <<program, pollvars>>
PollOnly == program = "poll" /\ UNCHANGED <<program, vars>>

ServersNext ==
    \/ SelectOnly /\ Next
    \/ PollOnly /\ Poll!Next

allvars == <<program, vars, pollvars>>

\* The servers keep running their loops; the clients do what they like.
Spec ==
    /\ ServersInit
    /\ [][ServersNext]_allvars
    /\ WF_allvars(SelectOnly /\ ServerStep)
    /\ WF_allvars(PollOnly /\ Poll!ServerStep)

-----------------------------------------------------------------------------
\* A connection is open exactly while one slot, and only one, holds it: slots
\* freed by a hang-up are reused without losing or doubling a client.  Neither
\* server scans its whole table, select stopping at cli_cnt, the number of clients
\* ever stored, poll at maxi, the largest slot ever used; no open connection lies
\* beyond the scan.
SlotsAreScannedClients ==
    /\ program = "select" => OneSlotEach /\ OpenIsWatched
    /\ program = "poll" => Poll!OneSlotEach /\ Poll!OpenIsPolled

\* What a connected client has sent is echoed, and the slot of one that has hung up
\* becomes free, unless the server goes down or, with select, runs out of descriptors
\* or, with poll, stays blocked reading from another client.
EveryClientServed ==
    /\ program = "select" => EveryMessageEchoed /\ HangUpFreesSlot
    /\ program = "poll" => Poll!EveryMessageEchoed /\ Poll!HangUpFreesSlot

\* The only read that can block the poll server is that of a slot accepted into
\* for the first time, whose revents poll has never written.
StallOnlyOnFreshSlot == program = "poll" => Poll!StallOnlyOnFreshSlot

\* The comment in the poll server's handle_connection: the descriptor is tested
\* for readiness, so a read about to be made finds something.
ReadOnlyWhenReady == program = "poll" => Poll!ReadOnlyWhenReady
=============================================================================
