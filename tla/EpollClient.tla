---------------------------- MODULE EpollClient ----------------------------
(***************************************************************************)
(* The client of code/network/IO/multiplexing/via_epoll/client.cpp.  One   *)
(* buffer serves both directions: a line read from standard input waits in *)
(* it until the socket is writable, a reply until standard output is.      *)
(*                                                                         *)
(* buf is the set of lines and replies of which bytes stand before its     *)
(* first NUL.  A read that is shorter than what buf held leaves the tail,  *)
(* a longer one covers it.  buf is never initialised, so the first read    *)
(* may be followed by garbage.                                             *)
(***************************************************************************)
EXTENDS Integers, Sequences

CONSTANTS
    MaxLines,   \* bound on the lines typed
    Garbage     \* what the uninitialised buffer held

VARIABLES
    buf,
    sock,      \* the socket in epoll: off, out, in, or closed
    stdout,    \* standard output is in epoll (EPOLLOUT)
    events,    \* the events of this round not yet handled
    typed,     \* lines typed so far
    taken,     \* lines the client has read
    wire,      \* what has been sent and not answered
    inbox,     \* replies not yet read; <<>> stands for the server's close
    emptied,   \* a write of no bytes has been made to the socket
    away       \* times each line or reply has left the client

vars == <<buf, sock, stdout, events, typed, taken, wire, inbox, emptied, away>>

Items == (1 .. MaxLines) \X {"line", "reply"}

Init ==
    /\ buf \in {{}, {Garbage}}
    /\ sock = "off"
    /\ stdout = FALSE
    /\ events = {}
    /\ typed = 0
    /\ taken = 0
    /\ wire = {}
    /\ inbox = {}
    /\ emptied = FALSE
    /\ away = [x \in Items |-> 0]

-----------------------------------------------------------------------------
(* The user and the server *)

\* The end of the input only closes descriptor 0: the user types no more.
Type ==
    /\ typed < MaxLines
    /\ typed' = typed + 1
    /\ UNCHANGED <<buf, sock, stdout, events, taken, wire, inbox, emptied, away>>

\* The reply to a message, numbered like the last line read.
Reply ==
    /\ wire # {}
    /\ inbox' = {<<taken, "reply">>}
    /\ wire' = {}
    /\ UNCHANGED <<buf, sock, stdout, events, typed, taken, emptied, away>>

HangUp ==
    /\ inbox = {}
    /\ sock # "closed"
    /\ inbox' = {<<>>}
    /\ wire' = {}
    /\ UNCHANGED <<buf, sock, stdout, events, typed, taken, emptied, away>>

-----------------------------------------------------------------------------
(* The client's loop *)

Ready ==
    {x \in {"stdin"} : taken < typed}
    \cup {x \in {"sock"} : sock = "out" \/ (sock = "in" /\ inbox # {})}
    \cup {x \in {"stdout"} : stdout}

Wait ==
    /\ events = {}
    /\ Ready # {}
    /\ events' = Ready
    /\ UNCHANGED <<buf, sock, stdout, typed, taken, wire, inbox, emptied, away>>

Handle(x) == x \in events /\ events' = events \ {x}

Filled(x) == {{x}, {x} \cup buf}

\* add_event(sockfd, EPOLLOUT) fails with EEXIST when the socket is watched.
ReadStdin ==
    /\ Handle("stdin")
    /\ taken' = taken + 1
    /\ buf' \in Filled(<<taken + 1, "line">>)
    /\ sock' = IF sock = "off" THEN "out" ELSE sock
    /\ UNCHANGED <<stdout, typed, wire, inbox, emptied, away>>

ReadSockStillWatched ==
    /\ Handle("sock")
    /\ sock = "in"
    /\ \E x \in inbox :
          IF x = <<>>
          THEN sock' = "closed" /\ UNCHANGED <<buf, stdout>>
          ELSE buf' \in Filled(x) /\ sock' = "in" /\ stdout' = TRUE
    /\ inbox' = {}
    /\ UNCHANGED <<typed, taken, wire, emptied, away>>

\* A reply: stop watching the socket, watch standard output.  End of file: close.
ReadSock ==
    /\ Handle("sock")
    /\ sock = "in"
    /\ \E x \in inbox :
          IF x = <<>>
          THEN sock' = "closed" /\ UNCHANGED <<buf, stdout>>
          ELSE buf' \in Filled(x) /\ sock' = "off" /\ stdout' = TRUE
    /\ inbox' = {}
    /\ UNCHANGED <<typed, taken, wire, emptied, away>>

Sent == [x \in Items |-> IF x \in buf THEN away[x] + 1 ELSE away[x]]

WriteStdout ==
    /\ Handle("stdout")
    /\ stdout' = FALSE
    /\ away' = Sent
    /\ buf' = {}
    /\ UNCHANGED <<sock, typed, taken, wire, inbox, emptied>>

\* The write fails once the server has closed and reset the connection.
WriteSock ==
    /\ Handle("sock")
    /\ sock = "out"
    /\ \/ /\ sock' = "in"
          /\ wire' = IF buf = {} \/ inbox # {} THEN wire ELSE {buf}
          /\ emptied' = (emptied \/ buf = {})
          /\ away' = Sent
       \/ /\ inbox = {<<>>}
          /\ sock' = "closed"
          /\ UNCHANGED <<wire, emptied, away>>
    /\ buf' = {}
    /\ UNCHANGED <<stdout, typed, taken, inbox>>

-----------------------------------------------------------------------------
ClientStep == Wait \/ ReadStdin \/ ReadSock \/ WriteStdout \/ WriteSock

Next == ClientStep \/ Type \/ Reply \/ HangUp

\* The client keeps running its loop.
Spec == Init /\ [][Next]_vars /\ WF_vars(ClientStep)

-----------------------------------------------------------------------------
\* Whatever overwrites whatever in the buffer, no line and no reply leaves the
\* client twice: every write clears the buffer it has sent.
LeavesOnce == \A x \in Items : away[x] <= 1

\* With neither the socket nor standard output watched, the buffer holds no line
\* and no reply.  (While the reply is awaited it may: the line whose add_event
\* failed stays there until the reply is read over it or printed with it.)
CleanWhenIdle == (sock = "off" /\ ~stdout) => buf \cap Items = {}

\* The client is a strict request and reply client: while a request or its reply
\* is under way it is watching for the reply and nothing else.
OneInFlight == (wire # {} \/ inbox \cap Items # {}) => sock = "in"

\* The client waits for a reply that cannot come only after a write of no bytes,
\* which happens when a reply and a line meet in the buffer.
WaitsInVainOnlyEmptied ==
    (sock = "in" /\ wire = {} /\ inbox = {}) => emptied
=============================================================================
