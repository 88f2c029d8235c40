----------------------------- MODULE StockQuotes -----------------------------
(***************************************************************************)
(* code/boost_doc/IO/connection.hpp, server.cpp and client.cpp: a server   *)
(* that sends its stock list to everyone who connects, as a header of      *)
(* fixed length holding the size of the data in hexadecimal and then the   *)
(* data, and the clients that read it.  Asynchronous operations in flight  *)
(* are state; a handler is one step.  io_service.run() returns when no     *)
(* operation is left.                                                      *)
(***************************************************************************)
EXTENDS Integers, Sequences

CONSTANTS
    Users,           \* the client processes
    Endpoints,       \* addresses the resolver gives each of them
    RADIX,           \* 16
    header_length,   \* 8
    MaxData          \* bound on the size of the serialized stocks

VARIABLES
    outbound,    \* outbound_data_.size(): what the stocks of this server serialize to
    accepting,   \* an async_accept is in flight
    running,     \* the server's io_service.run() has not returned
    op,          \* the write of each connection: none, write, post (the error), done
    link,        \* none, backlog, open, closed (by the server), broken, dropped (at exit)
    put,         \* bytes written to each connection so far
    state,       \* of each client: connect, header, data, ok, error
    tries,       \* endpoints it has tried
    inbound      \* inbound_data_.size()

vars == <<outbound, accepting, running, op, link, put, state, tries, inbound>>

\* The server has its stocks and an accept in flight, a client a connect to the
\* first endpoint.
ServerInit ==
    /\ outbound \in 1 .. MaxData
    /\ accepting = TRUE /\ running = TRUE
    /\ op = [u \in Users |-> "none"] /\ link = [u \in Users |-> "none"]
    /\ put = [u \in Users |-> 0]

ClientInit ==
    /\ state = [u \in Users |-> "connect"]
    /\ tries = [u \in Users |-> 1]
    /\ inbound = [u \in Users |-> 0]

Init == ServerInit /\ ClientInit

-----------------------------------------------------------------------------
(* The header: setw pads to header_length, but does not cut what is longer *)

Blank == -1

digits[n \in Nat] == IF n < RADIX THEN <<n>> ELSE Append(digits[n \div RADIX], n % RADIX)

Header(n) ==
    IF Len(digits[n]) < header_length
    THEN [i \in 1 .. header_length - Len(digits[n]) |-> Blank] \o digits[n]
    ELSE digits[n]

value(s) ==
    LET upto[k \in 0 .. Len(s)] == IF k = 0 THEN 0 ELSE RADIX * upto[k - 1] + s[k]
    IN upto[Len(s)]

\* is >> std::hex skips the padding.
Parse(h) ==
    LET first == CHOOSE i \in DOMAIN h : h[i] # Blank /\ \A j \in 1 .. i - 1 : h[j] = Blank
    IN value(SubSeq(h, first, Len(h)))

FitsLoosely(n) == TRUE

\* header_stream.str().size() == header_length
Fits(n) == Len(Header(n)) = header_length

-----------------------------------------------------------------------------
(* The server *)

\* handle_accept without an error: async_write, which refuses what does not fit,
\* and the next async_accept.
handle_accept(u) ==
    /\ running /\ accepting /\ op[u] = "none" /\ link[u] \in {"backlog", "broken"}
    /\ link' = [link EXCEPT ![u] = IF @ = "backlog" THEN "open" ELSE @]
    /\ op' = [op EXCEPT ![u] = IF Fits(outbound) THEN "write" ELSE "post"]
    /\ UNCHANGED <<outbound, accepting, running, put, state, tries, inbound>>

\* handle_accept with an error: no further accept.
AcceptFails ==
    /\ running /\ accepting
    /\ accepting' = FALSE
    /\ UNCHANGED <<outbound, running, op, link, put, state, tries, inbound>>

\* handle_write does nothing: the last reference to the connection goes away.
handle_write(u) == op' = [op EXCEPT ![u] = "done"] /\ link' = [link EXCEPT ![u] = IF @ = "open" THEN "closed" ELSE @]

WriteOnce(u) ==
    /\ op[u] = "write" /\ link[u] = "open"
    /\ \E n \in put[u] + 1 .. Len(Header(outbound)) + outbound :
          put' = [put EXCEPT ![u] = n] /\ handle_write(u)
    /\ UNCHANGED <<outbound, accepting, running, state, tries, inbound>>

\* async_write goes on until all is written.
WriteSome(u) ==
    /\ op[u] = "write" /\ link[u] = "open"
    /\ \E n \in put[u] + 1 .. Len(Header(outbound)) + outbound :
          /\ put' = [put EXCEPT ![u] = n]
          /\ IF n = Len(Header(outbound)) + outbound THEN handle_write(u) ELSE UNCHANGED <<op, link>>
    /\ UNCHANGED <<outbound, accepting, running, state, tries, inbound>>

WriteEnds(u) ==
    /\ op[u] = "post" \/ (op[u] = "write" /\ link[u] = "broken")
    /\ handle_write(u)
    /\ UNCHANGED <<outbound, accepting, running, put, state, tries, inbound>>

\* The io_service runs out of work: main returns, and whoever has connected
\* without being accepted is dropped.
Exit ==
    /\ running /\ ~accepting /\ \A u \in Users : op[u] \in {"none", "done"}
    /\ running' = FALSE
    /\ link' = [u \in Users |-> IF link[u] = "backlog" THEN "dropped" ELSE link[u]]
    /\ UNCHANGED <<outbound, accepting, op, put, state, tries, inbound>>

-----------------------------------------------------------------------------
(* The client, and the network that may break a connection *)

ConnectAgain(u, success) ==
    /\ state[u] = "connect"
    /\ IF success
       THEN /\ running
            /\ state' = [state EXCEPT ![u] = "header"]
            /\ link' = [link EXCEPT ![u] = "backlog"]
            /\ UNCHANGED tries
       ELSE /\ IF tries[u] <= Endpoints
               THEN UNCHANGED <<tries, state>>
               ELSE state' = [state EXCEPT ![u] = "error"] /\ UNCHANGED tries
            /\ UNCHANGED link
    /\ UNCHANGED <<outbound, accepting, running, op, put, inbound>>

\* handle_connect: start reading the header; or try the next endpoint; or give up.
handle_connect(u, success) ==
    /\ state[u] = "connect"
    /\ IF success
       THEN /\ running
            /\ state' = [state EXCEPT ![u] = "header"]
            /\ link' = [link EXCEPT ![u] = "backlog"]
            /\ UNCHANGED tries
       ELSE /\ IF tries[u] < Endpoints
               THEN tries' = [tries EXCEPT ![u] = @ + 1] /\ UNCHANGED state
               ELSE state' = [state EXCEPT ![u] = "error"] /\ UNCHANGED tries
            /\ UNCHANGED link
    /\ UNCHANGED <<outbound, accepting, running, op, put, inbound>>

handle_read_header(u) ==
    /\ state[u] = "header" /\ put[u] >= header_length
    /\ inbound' = [inbound EXCEPT ![u] = Parse(SubSeq(Header(outbound), 1, header_length))]
    /\ state' = [state EXCEPT ![u] = "data"]
    /\ UNCHANGED <<outbound, accepting, running, op, link, put, tries>>

\* handle_read prints the stocks or the error, and starts nothing: the client ends.
handle_read(u, success) == state' = [state EXCEPT ![u] = IF success THEN "ok" ELSE "error"]

\* The archive is decoded if it is whole, neither cut nor followed by anything.
handle_read_data(u) ==
    /\ state[u] = "data" /\ put[u] >= header_length + inbound[u]
    /\ handle_read(u, inbound[u] = outbound)
    /\ UNCHANGED <<outbound, accepting, running, op, link, put, tries, inbound>>

\* async_read fails: at the end of the stream when it wants more, or with a reset,
\* which discards what was not read.
ReadFails(u) ==
    /\ state[u] \in {"header", "data"}
    /\ \/ link[u] \in {"broken", "dropped"}
       \/ link[u] = "closed" /\ put[u] < header_length + (IF state[u] = "data" THEN inbound[u] ELSE 0)
    /\ handle_read(u, FALSE)
    /\ UNCHANGED <<outbound, accepting, running, op, link, put, tries, inbound>>

\* The network, or the peer's host, ends the connection.
Break(u) ==
    /\ link[u] \in {"backlog", "open", "closed"}
    /\ link' = [link EXCEPT ![u] = "broken"]
    /\ UNCHANGED <<outbound, accepting, running, op, put, state, tries, inbound>>

-----------------------------------------------------------------------------
ServerStep == Exit \/ \E u \in Users : handle_accept(u) \/ WriteSome(u) \/ WriteEnds(u)

ClientStep(u) ==
    \/ \E success \in BOOLEAN : handle_connect(u, success)
    \/ handle_read_header(u) \/ handle_read_data(u) \/ ReadFails(u)

Next == ServerStep \/ AcceptFails \/ \E u \in Users : ClientStep(u) \/ Break(u)

-----------------------------------------------------------------------------
\* RADIX to the power k: the first number that k digits do not hold.
power[k \in Nat] == IF k = 0 THEN 1 ELSE RADIX * power[k - 1]

\* The header means to the reader what the writer put into it: a client that has
\* read a header waits for exactly the data that follow, whatever pieces they come
\* in, and only stocks that fit the header are ever announced.
HeaderIsBelieved ==
    \A u \in Users : state[u] \in {"data", "ok"} => inbound[u] = outbound /\ outbound < power[header_length]

\* A client that reports an error was let down by something else than the handlers
\* of either side: no endpoint let it connect, its connection broke, the server
\* had stopped accepting, or the stocks do not fit the header.  Whoever is accepted
\* and stays connected gets them whole, whatever pieces they come in and whoever
\* else is being served.
ErrorsHaveCause ==
    \A u \in Users : state[u] = "error" =>
        \/ link[u] = "none" /\ tries[u] = Endpoints
        \/ link[u] = "broken"
        \/ link[u] = "dropped" /\ ~accepting
        \/ ~Fits(outbound)

\* The comments on the handlers: with no new operation started, the io_service
\* runs out of work; the clients exit, and so does the server after a failed
\* accept.
RunsOutOfWork ==
    /\ ~accepting ~> ~running
    /\ \A u \in Users : <>(state[u] \in {"ok", "error"})
=============================================================================
