--------------------------- MODULE LongConnection ---------------------------
(***************************************************************************)
(* code/network/TCP/long_connection.server.c and its client.  The server   *)
(* watches its connections edge triggered, in turn for input (read until   *)
(* nothing is left) and for output (write until all is sent).  The client  *)
(* writes a line and takes whatever its next read returns for the answer.  *)
(* The stream is echoed byte by byte, so a place in it is a count of bytes *)
(* and what is on its way is the difference of two counts.                 *)
(***************************************************************************)
EXTENDS Integers, FiniteSets

CONSTANTS
    Peers,     \* the clients
    Nobody,    \* the server is not inside a write loop
    Listener,  \* listen_sock
    MaxBytes   \* bound on the bytes one client sends, less than MAX_BUF

VARIABLES
    alive,     \* the server has not called exit
    fault,     \* a call of its own failed, and it exits for that
    link,      \* of each connection: none, backlog, open, closed
    watch,     \* what epoll watches it for: none, in, out
    rdllist,   \* the connections epoll has noticed since they were last reported
    batch,     \* the connections of this round not handled yet
    writing,   \* the connection whose echo is being written
    bufs,      \* buffers of events_handle that are allocated
    peer,      \* the other end as the server's kernel sees it: up, fin, shut, reset, lost
    client,    \* type, read, left
    sent, arrived, taken, echoed, got   \* places in each stream, last to first

counts == <<sent, arrived, taken, echoed, got>>
vars == <<alive, fault, link, watch, rdllist, batch, writing, bufs, peer, client, counts>>

Zero == [c \in Peers |-> 0]

Init ==
    /\ alive = TRUE /\ fault = FALSE
    /\ link = [c \in Peers |-> "none"] /\ watch = [c \in Peers |-> "none"]
    /\ rdllist = {} /\ batch = {} /\ writing = Nobody /\ bufs = 0
    /\ peer = [c \in Peers |-> "up"] /\ client = [c \in Peers |-> "type"]
    /\ sent = Zero /\ arrived = Zero /\ taken = Zero /\ echoed = Zero /\ got = Zero

-----------------------------------------------------------------------------
(* epoll: noticing c when it has an event of the kind w it is watched for *)

HasEvent(c, w) ==
    \/ w = "in" /\ (arrived[c] > taken[c] \/ peer[c] # "up")
    \/ w = "out"

Notice(c, w) == rdllist' = IF HasEvent(c, w) THEN rdllist \cup {c} ELSE rdllist

-----------------------------------------------------------------------------
(* The client and the network *)

Connect(c) ==
    /\ alive /\ link[c] = "none"
    /\ link' = [link EXCEPT ![c] = "backlog"]
    /\ UNCHANGED <<alive, fault, watch, rdllist, batch, writing, bufs, peer, client, counts>>

SendLine(c) ==
    /\ link[c] # "none" /\ client[c] = "type"
    /\ \E n \in sent[c] + 1 .. MaxBytes : sent' = [sent EXCEPT ![c] = n]
    /\ client' = [client EXCEPT ![c] = "read"]
    /\ UNCHANGED <<alive, fault, link, watch, rdllist, batch, writing, bufs, peer, arrived, taken, echoed, got>>

\* One read, which returns part of the echo, or nothing when the server is gone.
ReadReply(c) ==
    /\ client[c] = "read"
    /\ \/ /\ \E n \in got[c] + 1 .. echoed[c] : got' = [got EXCEPT ![c] = n]
          /\ client' = [client EXCEPT ![c] = "type"]
       \/ /\ got[c] = echoed[c] /\ (~alive \/ link[c] = "closed")
          /\ client' = [client EXCEPT ![c] = "left"]
          /\ UNCHANGED got
    /\ UNCHANGED <<alive, fault, link, watch, rdllist, batch, writing, bufs, peer, sent, arrived, taken, echoed>>

\* '#' or the end of the input: close.
Leave(c) ==
    /\ link[c] # "none" /\ client[c] = "type"
    /\ client' = [client EXCEPT ![c] = "left"]
    /\ UNCHANGED <<alive, fault, link, watch, rdllist, batch, writing, bufs, peer, counts>>

\* Bytes reach the server; epoll notices if it watches for input.
Arrive(c) ==
    /\ alive /\ link[c] \in {"backlog", "open"} /\ peer[c] = "up"
    /\ \E n \in arrived[c] + 1 .. sent[c] : arrived' = [arrived EXCEPT ![c] = n]
    /\ rdllist' = IF watch[c] = "in" THEN rdllist \cup {c} ELSE rdllist
    /\ UNCHANGED <<alive, fault, link, watch, batch, writing, bufs, peer, client, sent, taken, echoed, got>>

\* The end of the stream; then a reset, when the echo finds the client's socket
\* closed; a reset instead of the end, when the client closed before it had read
\* everything; or the keepalive set up by set_keepalive gives the client up.  All
\* but the first wake up any watch.
PeerEnds(c, how) ==
    /\ alive /\ link[c] \in {"backlog", "open"}
    /\ \/ how = "fin" /\ peer[c] = "up" /\ client[c] = "left" /\ arrived[c] = sent[c]
       \/ how = "shut" /\ peer[c] = "fin" /\ echoed[c] > got[c]
       \/ how = "reset" /\ peer[c] = "up" /\ client[c] = "left" /\ echoed[c] > got[c]
       \/ how = "lost" /\ peer[c] = "up"
    /\ peer' = [peer EXCEPT ![c] = how]
    /\ rdllist' = IF watch[c] = "none" \/ (how = "fin" /\ watch[c] = "out") THEN rdllist
                  ELSE rdllist \cup {c}
    /\ UNCHANGED <<alive, fault, link, watch, batch, writing, bufs, client, counts>>

-----------------------------------------------------------------------------
(* The server: run *)

Backlog == {c \in Peers : link[c] = "backlog"}

\* epoll_wait: what is no longer true is dropped, and an edge is reported once.
\* listen_sock is level triggered, and one connection is accepted per round.  events
\* has room for MAX_EVENTS (1024), as many as the process has descriptors.
Wait ==
    /\ alive /\ batch = {} /\ writing = Nobody
    /\ rdllist \cup Backlog # {}
    /\ batch' = {c \in rdllist : HasEvent(c, watch[c])} \cup {x \in {Listener} : Backlog # {}}
    /\ rdllist' = {}
    /\ UNCHANGED <<alive, fault, link, watch, writing, bufs, peer, client, counts>>

Accept(c) ==
    /\ alive /\ writing = Nobody /\ Listener \in batch
    /\ c \in Backlog
    /\ batch' = batch \ {Listener}
    /\ link' = [link EXCEPT ![c] = "open"]
    /\ watch' = [watch EXCEPT ![c] = "in"]
    /\ Notice(c, "in")
    /\ UNCHANGED <<alive, fault, writing, bufs, peer, client, counts>>

Exit ==
    /\ alive' = FALSE
    /\ UNCHANGED <<fault, link, watch, rdllist, batch, writing, bufs, peer, client, counts>>

\* A call that the kernel refuses ends the server as well.
Fault ==
    /\ alive' = FALSE /\ fault' = TRUE
    /\ UNCHANGED <<link, watch, rdllist, batch, writing, bufs, peer, client, counts>>

\* epoll_wait, interrupted by a signal.
WaitFails == alive /\ batch = {} /\ writing = Nobody /\ Fault

\* accept, when no descriptor is left or the client has given up, or EPOLL_CTL_ADD.
AcceptFails == alive /\ writing = Nobody /\ Listener \in batch /\ Fault

-----------------------------------------------------------------------------
(* The server: events_handle *)

Event(c, w) == alive /\ writing = Nobody /\ c \in batch /\ watch[c] = w

CloseAtEof(c) ==
    /\ Event(c, "in")
    /\ peer[c] \in {"lost", "fin"} \/ (peer[c] # "reset" /\ arrived[c] = taken[c])
    /\ link' = [link EXCEPT ![c] = "closed"]
    /\ watch' = [watch EXCEPT ![c] = "none"]
    /\ rdllist' = rdllist \ {c}
    /\ batch' = batch \ {c}
    /\ bufs' = bufs + 1
    /\ UNCHANGED <<alive, fault, writing, peer, client, counts>>

\* Nothing was read, or the read timed out: stop watching and close.  The buffer
\* allocated at the beginning is not freed.
Close(c) ==
    /\ Event(c, "in")
    /\ peer[c] = "lost" \/ (peer[c] # "reset" /\ arrived[c] = taken[c])
    /\ link' = [link EXCEPT ![c] = "closed"]
    /\ watch' = [watch EXCEPT ![c] = "none"]
    /\ rdllist' = rdllist \ {c}
    /\ batch' = batch \ {c}
    /\ bufs' = bufs + 1
    /\ UNCHANGED <<alive, fault, writing, peer, client, counts>>

\* A reset that came instead of the end of the stream.
ReadFails(c) == Event(c, "in") /\ peer[c] = "reset" /\ Exit

\* Read until EAGAIN or the end of the stream, then watch for output.
ReadAll(c) ==
    /\ Event(c, "in") /\ peer[c] \in {"up", "fin", "shut"} /\ arrived[c] > taken[c]
    /\ taken' = [taken EXCEPT ![c] = arrived[c]]
    /\ watch' = [watch EXCEPT ![c] = "out"]
    /\ Notice(c, "out")
    /\ batch' = batch \ {c}
    /\ bufs' = bufs + 1
    /\ UNCHANGED <<alive, fault, link, writing, peer, client, sent, arrived, echoed, got>>

StartWrite(c) ==
    /\ Event(c, "out")
    /\ writing' = c
    /\ batch' = batch \ {c}
    /\ UNCHANGED <<alive, fault, link, watch, rdllist, bufs, peer, client, counts>>

\* One turn of the loop around write; EAGAIN only tries again.
WriteSome(c) ==
    /\ alive /\ writing = c /\ peer[c] \in {"up", "fin"} /\ echoed[c] < taken[c]
    /\ \E n \in echoed[c] + 1 .. taken[c] : echoed' = [echoed EXCEPT ![c] = n]
    /\ UNCHANGED <<alive, fault, link, watch, rdllist, batch, writing, bufs, peer, client, sent, arrived, taken, got>>

\* write returns an error, or (after fin and reset) raises SIGPIPE.
WriteFails(c) ==
    alive /\ writing = c /\ peer[c] \in {"shut", "reset", "lost"} /\ echoed[c] < taken[c] /\ Exit

Rewatch(c) == watch' = [watch EXCEPT ![c] = "in"] /\ UNCHANGED rdllist

\* EPOLL_CTL_MOD looks at the descriptor anew, so input that came while the
\* connection was watched for output is noticed.
Watch(c) == watch' = [watch EXCEPT ![c] = "in"] /\ Notice(c, "in")

\* All is sent: watch for input again, free the buffer.
WriteDone(c) ==
    /\ alive /\ writing = c /\ echoed[c] = taken[c]
    /\ writing' = Nobody
    /\ Watch(c)
    /\ bufs' = bufs - 1
    /\ UNCHANGED <<alive, fault, link, batch, peer, client, counts>>

\* EPOLL_CTL_DEL or EPOLL_CTL_MOD, after a read or after a write.
ControlFails(c) ==
    /\ \/ Event(c, "in") /\ peer[c] # "reset"
       \/ alive /\ writing = c /\ echoed[c] = taken[c]
    /\ Fault

-----------------------------------------------------------------------------
Handle(c) ==
    Close(c) \/ ReadFails(c) \/ ReadAll(c) \/ StartWrite(c) \/ WriteSome(c) \/ WriteFails(c) \/ WriteDone(c)

ServerStep == Wait \/ \E c \in Peers : Accept(c) \/ Handle(c)

CallFails == WaitFails \/ AcceptFails \/ \E c \in Peers : ControlFails(c)

NetworkStep(c) == Arrive(c) \/ PeerEnds(c, "fin") \/ PeerEnds(c, "shut") \/ PeerEnds(c, "reset")

Next ==
    \/ ServerStep \/ CallFails
    \/ \E c \in Peers :
          NetworkStep(c) \/ PeerEnds(c, "lost") \/ Connect(c) \/ SendLine(c) \/ ReadReply(c) \/ Leave(c)

-----------------------------------------------------------------------------
\* Edge triggering reports a change once, but no change is missed: a connection
\* with something to read or to write has been noticed, or is being handled.  And
\* what is reported in a batch is still open when it is reached.
EdgeNotLost ==
    \A c \in Peers :
        /\ (alive /\ HasEvent(c, watch[c])) => c \in rdllist \cup batch \cup {writing}
        /\ c \in rdllist \cup batch \cup {writing} => link[c] = "open"

\* A connection is closed only when its client has left or was given up, and all
\* its bytes were read; the whole server exits only because some client was given
\* up or left before it had read the whole echo, or because epoll_wait, accept or
\* epoll_ctl failed.
EndsOnlyWithClient ==
    /\ \A c \in Peers : link[c] = "closed" =>
          peer[c] = "lost" \/ (client[c] = "left" /\ taken[c] = sent[c])
    /\ ~alive /\ ~fault => \E c \in Peers : peer[c] = "lost" \/ (client[c] = "left" /\ got[c] < sent[c])

\* A buffer is held by every connection with an echo to write, and one is lost
\* with every connection closed.
OneBufferLostPerClose ==
    alive => bufs = Cardinality({c \in Peers : watch[c] = "out" \/ link[c] = "closed"})

\* Every line gets some answer, and a client that leaves is closed, unless the
\* server exits.
AnsweredAndClosed ==
    \A c \in Peers :
        /\ client[c] = "read" ~> client[c] # "read"
        /\ (client[c] = "left" /\ link[c] = "open") ~> (link[c] = "closed" \/ ~alive)
=============================================================================
