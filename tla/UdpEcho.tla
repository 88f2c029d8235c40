------------------------------ MODULE UdpEcho ------------------------------
(***************************************************************************)
(* code/boost_doc/IO/demo.cpp: a UDP echo server with one buffer, which    *)
(* receives and sends in turn, each operation started by the handler of    *)
(* the one before.                                                         *)
(*                                                                         *)
(* The network loses, repeats and reorders, so that any datagram may come  *)
(* next, the same one again included.  What has come is numbered as it     *)
(* comes; a byte is modelled by the number of the datagram it came in.     *)
(***************************************************************************)
EXTENDS Integers, Sequences

CONSTANTS
    Senders,       \* the clients
    max_length,    \* bytes of data_ (1024)
    MaxSize,       \* bound on the size of a datagram, in bytes
    MaxArrivals,   \* bound on the datagrams that come
    QueueSize      \* datagrams the socket's queue holds

VARIABLES
    arrivals,    \* the datagrams that have come: <<sender, size>>
    fetched,     \* how many of them were received; the others are in the queue
    receiving,   \* an async_receive_from is in flight
    sending,     \* the async_send_to's in flight: <<to, length>>
    data_, sender_endpoint_,
    replies      \* what was sent: <<to, bytes>>, oldest first

vars == <<arrivals, fetched, receiving, sending, data_, sender_endpoint_, replies>>

Init ==
    /\ arrivals = <<>> /\ fetched = 0
    /\ receiving = TRUE /\ sending = {}
    /\ data_ = [i \in 1 .. max_length |-> 0] /\ sender_endpoint_ = <<>>
    /\ replies = <<>>

\* What the network brings; what finds the queue full is lost.
Arrive(s, size) ==
    /\ Len(arrivals) < MaxArrivals /\ Len(arrivals) - fetched < QueueSize
    /\ arrivals' = Append(arrivals, <<s, size>>)
    /\ UNCHANGED <<fetched, receiving, sending, data_, sender_endpoint_, replies>>

\* bytes_recvd: what does not fit data_ is cut off.
Received(n) == IF arrivals[n][2] < max_length THEN arrivals[n][2] ELSE max_length

\* async_receive_from completes: the front of data_ is overwritten.
Receive(n) ==
    /\ n \in DOMAIN arrivals
    /\ fetched' = n
    /\ data_' = [i \in 1 .. max_length |-> IF i <= Received(n) THEN n ELSE data_[i]]
    /\ sender_endpoint_' = <<arrivals[n][1]>>
    /\ UNCHANGED <<arrivals, replies>>

ReceiveOn ==
    /\ receiving /\ Receive(fetched + 1)
    /\ sending' = sending \cup
                    {o \in {<<arrivals[fetched + 1][1], Received(fetched + 1)>>} : o[2] > 0}
    /\ UNCHANGED receiving

\* and its handler: do_send, or receive again if nothing was in it.  (After an error
\* it receives again as well.)
do_receive ==
    /\ receiving /\ Receive(fetched + 1)
    /\ IF Received(fetched + 1) > 0
       THEN /\ sending' = sending \cup {<<arrivals[fetched + 1][1], Received(fetched + 1)>>}
            /\ receiving' = FALSE
       ELSE UNCHANGED <<sending, receiving>>

\* async_send_to has copied the endpoint, not the buffer.  It completes, with or
\* without an error: receive the next.
do_send ==
    \E o \in sending :
        /\ \/ replies' = Append(replies, <<o[1], [i \in 1 .. o[2] |-> data_[i]]>>)
           \/ UNCHANGED replies
        /\ sending' = sending \ {o} /\ receiving' = TRUE
        /\ UNCHANGED <<arrivals, fetched, data_, sender_endpoint_>>

Step == do_receive \/ do_send

Next == Step \/ \E s \in Senders, size \in 0 .. MaxSize : Arrive(s, size)

-----------------------------------------------------------------------------
\* The right answer to datagram n: its own bytes, as many as were received, to the
\* client it came from.
Answer(n) == <<arrivals[n][1], [i \in 1 .. Received(n) |-> n]>>

\* Although all datagrams go through one buffer, every reply is the right answer to
\* one that is not empty, with no byte of an earlier or a later one; none is
\* answered twice, and replies keep the order in which the datagrams came.
EchoesGoHome ==
    /\ \A i \in DOMAIN replies : \E n \in 1 .. fetched : Received(n) > 0 /\ replies[i] = Answer(n)
    /\ \A i, j \in DOMAIN replies : i < j => replies[i][2][1] < replies[j][2][1]

\* No datagram in the queue, empty or not, stops the server from going on.
QueueEmptied == fetched < Len(arrivals) ~> fetched = Len(arrivals)
=============================================================================
