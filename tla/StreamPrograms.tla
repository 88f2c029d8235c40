--------------------------- MODULE StreamPrograms ---------------------------
(***************************************************************************)
(* The programs of code/IPC, code/network/TCP and code/boost_doc/IO in     *)
(* which processes pass one another a file, a message or an object; which  *)
(* one runs is chosen at the start.                                        *)
(*                                                                         *)
(*   dpipe, fifo, unix, transfer  a file through a channel   StreamCopy    *)
(*   placement                    an object in a segment     SharedObject  *)
(*   quotes                       asio, header and data      StockQuotes   *)
(*   udp                          asio, datagrams            UdpEcho       *)
(***************************************************************************)
EXTENDS StreamCopy

CONSTANTS
    Servers, Clients, MaxSegments, Addresses,           \* of SharedObject
    Users, Endpoints, RADIX, header_length, MaxData,    \* of StockQuotes
    Senders, max_length, MaxSize, MaxArrivals, QueueSize   \* of UdpEcho

ASSUME StreamAssumption ==
    /\ {Bytes, N, Capacity, MaxSegments} \subseteq Nat \ {0}
    /\ Addresses \subseteq Nat \ {0} /\ Servers \cap Clients = {}
    /\ {Endpoints, header_length, MaxData, max_length, MaxArrivals, QueueSize} \subseteq Nat \ {0}
    /\ MaxSize \in Nat
    /\ RADIX \in Nat /\ RADIX > 1

VARIABLES
    segment, mapped, shm_id, shm_addr, shm_object, at, left, freed,
    outbound, accepting, running, op, link, put, state, tries, inbound,
    arrivals, fetched, receiving, sending, data_, sender_endpoint_, replies

Shared == INSTANCE SharedObject
Quotes == INSTANCE StockQuotes
Udp == INSTANCE UdpEcho

sharedVars == <<segment, mapped, shm_id, shm_addr, shm_object, at, left, freed>>
quoteVars == <<outbound, accepting, running, op, link, put, state, tries, inbound>>
udpVars == <<arrivals, fetched, receiving, sending, data_, sender_endpoint_, replies>>
all == <<program, copyVars, sharedVars, quoteVars, udpVars>>

StreamInit ==
    /\ program \in {"dpipe", "fifo", "unix", "transfer", "placement", "quotes", "udp"}
    /\ CopyInit /\ Shared!Init /\ Udp!Init
    /\ Quotes!Init /\ (program # "quotes" => outbound = MaxData)

Copies(step) == Copying /\ step /\ UNCHANGED <<program, sharedVars, quoteVars, udpVars>>
Quote(step) == program = "quotes" /\ step /\ UNCHANGED <<program, copyVars, sharedVars, udpVars>>
Echo(step) == program = "udp" /\ step /\ UNCHANGED <<program, copyVars, sharedVars, quoteVars>>

StreamNext ==
    \/ Copies(CopyNext)
    \/ program = "placement" /\ Shared!Next /\ UNCHANGED <<program, copyVars, quoteVars, udpVars>>
    \/ Quote(Quotes!Next)
    \/ Echo(Udp!Next)

\* Both processes of a copying program are scheduled, and so is every asio client;
\* each server's io_service.run() goes on calling handlers while operations can
\* complete.  Nothing makes an accept or a connection fail, or a datagram come.
StreamSpec ==
    /\ StreamInit /\ [][StreamNext]_all
    /\ WF_all(Copies(WriterStep) \/ Quote(Quotes!ServerStep) \/ Echo(Udp!Step))
    /\ WF_all(Copies(ReaderStep))
    /\ \A u \in Users : WF_all(Quote(Quotes!ClientStep(u)))

-----------------------------------------------------------------------------
\* A process of placement.cpp crashes only on a pointer it spoiled itself, by
\* detaching it, by ignoring a failed shmat, or by creating before it attached.
OwnFault == Shared!OwnFault

\* A segment somebody has dettached from is not found under its key again once
\* dettach has returned.
NothingLeft == Shared!NothingLeft

\* A client of the stock server waits for exactly the data that follow the header
\* it has parsed, and only sizes that fit the header are announced.
HeaderIsBelieved == program = "quotes" => Quotes!HeaderIsBelieved

\* A client of the stock server reports an error only if it could not connect, its
\* connection broke, the server had stopped accepting, or the stocks do not fit.
ErrorsHaveCause == Quotes!ErrorsHaveCause

\* Every UDP reply goes to the client whose datagram it answers and has the bytes of
\* that one alone; none is answered twice or out of turn.
EchoesGoHome == Udp!EchoesGoHome

\* What the chains of handlers come to.  The comments on the stock server's and
\* client's handlers: with no new operation started, the io_service runs out of
\* work, so the client exits, and so does the server after a failed accept.  The
\* UDP server goes on receiving whatever it got and however its sends ended.
ChainsGoOn ==
    /\ program = "quotes" => Quotes!RunsOutOfWork
    /\ program = "udp" => Udp!QueueEmptied
=============================================================================
