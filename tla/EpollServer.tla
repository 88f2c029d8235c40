---------------------------- MODULE EpollServer ----------------------------
(***************************************************************************)
(* The server of code/network/IO/multiplexing/via_epoll/server.cpp: level  *)
(* triggered epoll, each connection registered for EPOLLIN or for EPOLLOUT *)
(* in turn, and ONE buffer that every connection reads into and writes     *)
(* from.  A byte of the buffer is modelled by the message it came from, so *)
(* that what a write sends can be traced to who wrote it.                  *)
(***************************************************************************)
EXTENDS Integers, FiniteSets

CONSTANTS
    Clients,      \* the connections made over the server's life
    Listen,       \* listenfd
    MAXSIZE,      \* bytes of buf (1024); messages are shorter, so buf keeps its final NUL
    EPOLLEVENTS,  \* most events one epoll_wait returns (100)
    MaxMsgs       \* bound on the messages of one client

ASSUME EpollAssumption ==
    /\ MAXSIZE \in Nat \ {0, 1}
    /\ EPOLLEVENTS \in Nat \ {0}
    /\ MaxMsgs \in Nat
    /\ Listen \notin Clients

VARIABLES
    buf,
    interest,   \* what epoll watches each connection for: none, in, out
    events,     \* the events of this round handle_events has not reached
    conn,       \* of each connection: none, backlog, open, closed
    peer,       \* the client: up, gone (hung up), shut (hung up and written to), reset
    sent,       \* number of messages each client has sent
    unread,     \* length of the message waiting in each connection, 0 for none
    carried,    \* number of writes that carried bytes of each message
    killed      \* a write has raised SIGPIPE

vars == <<buf, interest, events, conn, peer, sent, unread, carried, killed>>

NUL == <<>>
Bytes == 1 .. MAXSIZE
Empty == [i \in Bytes |-> NUL]
Messages == Clients \X (1 .. MaxMsgs)

Init ==
    /\ buf = Empty
    /\ interest = [c \in Clients |-> "none"]
    /\ events = {}
    /\ conn = [c \in Clients |-> "none"]
    /\ peer = [c \in Clients |-> "up"]
    /\ sent = [c \in Clients |-> 0]
    /\ unread = [c \in Clients |-> 0]
    /\ carried = [m \in Messages |-> 0]
    /\ killed = FALSE

-----------------------------------------------------------------------------
(* The clients *)

Connect(c) ==
    /\ ~killed /\ conn[c] = "none"
    /\ conn' = [conn EXCEPT ![c] = "backlog"]
    /\ UNCHANGED <<buf, interest, events, peer, sent, unread, carried, killed>>

Send(c) ==
    /\ ~killed /\ conn[c] \in {"backlog", "open"}
    /\ peer[c] = "up"
    /\ unread[c] = 0
    /\ sent[c] < MaxMsgs
    /\ sent' = [sent EXCEPT ![c] = @ + 1]
    /\ \E len \in 1 .. MAXSIZE - 1 : unread' = [unread EXCEPT ![c] = len]
    /\ UNCHANGED <<buf, interest, events, conn, peer, carried, killed>>

\* An orderly end, or a reset, which may discard what was not read.
Leave(c) ==
    /\ ~killed /\ conn[c] \in {"backlog", "open"}
    /\ peer[c] = "up"
    /\ \/ peer' = [peer EXCEPT ![c] = "gone"] /\ UNCHANGED unread
       \/ peer' = [peer EXCEPT ![c] = "reset"] /\ unread' \in {unread, [unread EXCEPT ![c] = 0]}
    /\ UNCHANGED <<buf, interest, events, conn, sent, carried, killed>>

-----------------------------------------------------------------------------
(* epoll_wait *)

Pending == {c \in Clients : conn[c] = "backlog"}

Ready ==
    {c \in Clients : interest[c] = "in" /\ (unread[c] > 0 \/ peer[c] # "up")}
    \cup {c \in Clients : interest[c] = "out"}
    \cup {x \in {Listen} : Pending # {}}

Wait(batch) ==
    /\ ~killed /\ events = {}
    /\ batch \subseteq Ready
    /\ batch # {}
    /\ Cardinality(batch) = EPOLLEVENTS \/ batch = Ready
    /\ Cardinality(batch) <= EPOLLEVENTS
    /\ events' = batch
    /\ UNCHANGED <<buf, interest, conn, peer, sent, unread, carried, killed>>

-----------------------------------------------------------------------------
(* handle_events, the events in any order *)

Handle(x) == ~killed /\ x \in events /\ events' = events \ {x}

\* close, then delete_event on the closed descriptor, which epoll has already
\* forgotten.
Close(c) ==
    /\ conn' = [conn EXCEPT ![c] = "closed"]
    /\ interest' = [interest EXCEPT ![c] = "none"]

handle_accpet(c) ==
    /\ Handle(Listen)
    /\ c \in Pending
    /\ conn' = [conn EXCEPT ![c] = "open"]
    /\ interest' = [interest EXCEPT ![c] = "in"]
    /\ UNCHANGED <<buf, peer, sent, unread, carried, killed>>

\* cliaddrlen is never initialised: when it happens to be negative, accept fails
\* with EINVAL after taking the connection off the backlog, which is dropped.
AcceptFails(c) ==
    /\ Handle(Listen)
    /\ c \in Pending
    /\ conn' = [conn EXCEPT ![c] = "closed"]
    /\ UNCHANGED <<buf, interest, peer, sent, unread, carried, killed>>

\* The bytes read replace the beginning of buf and leave the rest of it alone.
Overwritten(c) == [i \in Bytes |-> IF i <= unread[c] THEN <<c, sent[c]>> ELSE buf[i]]

do_read(c) ==
    /\ Handle(c)
    /\ interest[c] = "in"
    /\ IF unread[c] > 0
       THEN /\ buf' = Overwritten(c)
            /\ unread' = [unread EXCEPT ![c] = 0]
            /\ interest' = [interest EXCEPT ![c] = "out"]
            /\ UNCHANGED conn
       ELSE Close(c) /\ UNCHANGED <<buf, unread>>
    /\ UNCHANGED <<peer, sent, carried, killed>>

\* What write(fd, buf, strlen(buf)) sends: everything before the first NUL.
Text == {buf[i] : i \in {j \in Bytes : \A k \in 1 .. j : buf[k] # NUL}}

Carried == [m \in Messages |-> IF m \in Text THEN carried[m] + 1 ELSE carried[m]]

\* The bytes go out; those for a client that has hung up are answered by a reset.
Write(c) ==
    /\ carried' = Carried
    /\ peer' = [peer EXCEPT ![c] = IF @ = "gone" /\ Text # {} THEN "shut" ELSE @]

WriteKeepingBuf(c) ==
    /\ Handle(c)
    /\ interest[c] = "out"
    /\ IF peer[c] = "reset"
       THEN Close(c) /\ UNCHANGED <<peer, carried>>
       ELSE /\ Write(c)
            /\ interest' = [interest EXCEPT ![c] = "in"]
            /\ UNCHANGED conn
    /\ UNCHANGED <<buf, sent, unread, killed>>

WriteLeftOut(c) ==
    /\ Handle(c)
    /\ interest[c] = "out"
    /\ IF peer[c] = "reset"
       THEN Close(c) /\ UNCHANGED <<peer, carried>>
       ELSE Write(c) /\ UNCHANGED <<conn, interest>>
    /\ buf' = Empty
    /\ UNCHANGED <<sent, unread, killed>>

\* write fails on a connection that was reset.  Where the reset is the answer to an
\* earlier write it may not have come yet; once it has, write raises SIGPIPE.
do_write(c) ==
    /\ Handle(c)
    /\ interest[c] = "out"
    /\ IF peer[c] = "reset"
       THEN Close(c) /\ UNCHANGED <<peer, carried>>
       ELSE /\ Write(c)
            /\ interest' = [interest EXCEPT ![c] = "in"]
            /\ UNCHANGED conn
    /\ buf' = Empty
    /\ UNCHANGED <<sent, unread, killed>>

BrokenPipe(c) ==
    /\ Handle(c)
    /\ interest[c] = "out" /\ peer[c] = "shut"
    /\ killed' = TRUE
    /\ UNCHANGED <<buf, interest, conn, peer, sent, unread, carried>>

-----------------------------------------------------------------------------
HandleStep(c) == handle_accpet(c) \/ AcceptFails(c) \/ do_read(c) \/ do_write(c) \/ BrokenPipe(c)

Next ==
    \/ \E batch \in SUBSET (Clients \cup {Listen}) : Wait(batch)
    \/ \E c \in Clients : HandleStep(c) \/ Connect(c) \/ Send(c) \/ Leave(c)

\* The loop keeps running, and epoll_wait rotates its ready list: a descriptor
\* that stays ready is not left out of every batch.
Fairness ==
    /\ WF_vars(\E c \in Clients : HandleStep(c))
    /\ \A x \in Clients \cup {Listen} :
           SF_vars(\E batch \in SUBSET (Clients \cup {Listen}) : x \in batch /\ Wait(batch))

Spec == Init /\ [][Next]_vars /\ Fairness

-----------------------------------------------------------------------------
\* epoll watches exactly the open connections, and an event taken from the
\* kernel is still about an open connection when handle_events reaches it, even
\* though earlier events of the same batch close descriptors.
EventsAreLive ==
    \A c \in Clients :
        /\ interest[c] # "none" <=> conn[c] = "open"
        /\ c \in events => conn[c] = "open"

\* Every write clears buf, so what is in it begins with the message of the last
\* connection that was read, and that connection is still waiting for its write:
\* with nobody waiting, buf is clean and the next message is framed correctly.
BufferHasAnOwner ==
    \/ buf = Empty
    \/ buf[1] # NUL /\ interest[buf[1][1]] = "out"

\* The shared buffer sends messages to the wrong client, but none twice, to
\* whomever.
CarriedOnce == \A m \in Messages : carried[m] <= 1

\* A connection waiting for its write gets it and is read again, or is closed,
\* unless a client that hung up before its echo takes the whole server with it.
WriteReturnsToRead == \A c \in Clients : interest[c] = "out" ~> (interest[c] # "out" \/ killed)
=============================================================================
