---------------------------- MODULE EpollPrograms ----------------------------
(***************************************************************************)
(* The programs around epoll in code/network; which one runs is chosen at  *)
(* the start.                                                              *)
(*                                                                         *)
(*   server           level triggered, one shared buffer   EpollServer     *)
(*   client           one buffer for both directions       EpollClient     *)
(*   long_connection  edge triggered, server and client    LongConnection  *)
(***************************************************************************)
EXTENDS EpollServer

CONSTANTS
    MaxLines, Garbage,   \* of EpollClient
    Nobody, MaxBytes     \* of LongConnection

ASSUME ProgramsAssumption ==
    /\ {MaxLines, MaxBytes} \subseteq Nat
    /\ Garbage \notin (1 .. MaxLines) \X {"line", "reply"}
    /\ IsFiniteSet(Clients) /\ Nobody \notin Clients

VARIABLES
    program,
    text, sock, stdout, ready, typed, read, wire, inbox, emptied, away,
    alive, fault, link, watch, rdllist, batch, writing, bufs, far, client,
    out, arrived, taken, echoed, got

User == INSTANCE EpollClient WITH buf <- text, events <- ready, taken <- read
Long == INSTANCE LongConnection WITH Peers <- Clients, Listener <- Listen, peer <- far, sent <- out

userVars == <<text, sock, stdout, ready, typed, read, wire, inbox, emptied, away>>
longVars == <<alive, fault, link, watch, rdllist, batch, writing, bufs, far, client,
              out, arrived, taken, echoed, got>>
all == <<program, vars, userVars, longVars>>

EpollInit ==
    /\ Init /\ Long!Init
    /\ program \in {"server", "client", "long_connection"}
    /\ IF program = "client" THEN User!Init ELSE User!Init /\ text = {}

Serve(step) == program = "server" /\ step /\ UNCHANGED <<program, userVars, longVars>>
Use(step) == program = "client" /\ step /\ UNCHANGED <<program, vars, longVars>>
Keep(step) == program = "long_connection" /\ step /\ UNCHANGED <<program, vars, userVars>>

EpollNext == Serve(Next) \/ Use(User!Next) \/ Keep(Long!Next)

Loop == Serve(\E c \in Clients : HandleStep(c)) \/ Keep(Long!ServerStep)

\* Both servers keep running their loops, and epoll_wait rotates its ready list: a
\* connection that stays ready is not left out of every batch.  What is sent
\* arrives, and a client whose answer has come reads it.
EpollSpec ==
    /\ EpollInit
    /\ [][EpollNext]_all
    /\ WF_all(Loop)
    /\ \A c \in Clients : SF_all(Serve(\E some \in SUBSET (Clients \cup {Listen}) : c \in some /\ Wait(some)))
    /\ WF_all(Keep(\E c \in Clients : Long!NetworkStep(c) \/ Long!ReadReply(c)))

-----------------------------------------------------------------------------
\* An event is never about a closed connection in either server, and never lost in
\* the edge triggered one.
EventsAreTrue == EventsAreLive /\ Long!EdgeNotLost

\* The one buffer of server is clean when nobody waits to write it, that of client
\* when it watches neither its socket nor standard output; and no message, line or
\* reply leaves either of them twice.
BufferHandedOver == BufferHasAnOwner /\ CarriedOnce /\ User!CleanWhenIdle /\ User!LeavesOnce

\* The client waits for a reply only while one is due, or after a write of no
\* bytes.
ClientWaits == User!OneInFlight /\ User!WaitsInVainOnlyEmptied

\* The long connection server closes a connection only because of what its client
\* did, exits only for that or because a call of its own failed, and loses one
\* buffer per connection closed.
EndsOnlyWithClient == Long!EndsOnlyWithClient /\ Long!OneBufferLostPerClose

\* A connection waiting for its write gets it and is read again, or is closed; a
\* line on a long connection is answered, and the client that leaves is closed;
\* unless the server is brought down, by SIGPIPE or by an exit.
EveryoneServed == WriteReturnsToRead /\ Long!AnsweredAndClosed
=============================================================================
