---------------------------- MODULE StreamCopy ----------------------------
(***************************************************************************)
(* Programs that fork and copy a file from one process to the other:       *)
(* code/IPC/PIPE/dpipe.cpp through a pipe, code/IPC/PIPE/fifo_pipe.cpp     *)
(* through a named pipe, code/IPC/Socket/UNIX_socket.cpp through a socket. *)
(* code/network/TCP/transfer_data.cpp sends a struct by TCP, in one call.  *)
(*                                                                         *)
(* The bytes of the file, a text without NUL, are the numbers 1 .. Bytes.  *)
(* A cell of the reader's buffer holds one of them, NUL, or Junk.          *)
(***************************************************************************)
EXTENDS Integers, Sequences, FiniteSetsExt

CONSTANTS
    Bytes,      \* the length of the file
    N,          \* sizeof(buffer) of the reader
    Capacity    \* bytes the pipe or the socket holds

VARIABLES
    program,    \* dpipe, fifo, unix, transfer
    writer, reader,
    written, taken,   \* bytes put into and taken out of the channel
    lost,       \* the named pipe was discarded with bytes in it
    stale,      \* the address is taken by an earlier run: bind fails
    buffer,
    out         \* what the reader has given to its output stream

copyVars == <<writer, reader, written, taken, lost, stale, buffer, out>>

NUL == 0
Junk == -1
Zeroed == [i \in 1 .. N |-> NUL]

Sockets == {"unix", "transfer"}
Copying == program \in {"dpipe", "fifo"} \cup Sockets

\* The buffer of dpipe.cpp is not initialized.
CopyInit ==
    /\ writer = IF program \in Sockets THEN "start" ELSE "write"
    /\ reader = IF program = "dpipe" THEN "read" ELSE "start"
    /\ written = 0 /\ taken = 0 /\ lost = FALSE
    /\ stale \in IF program \in Sockets THEN BOOLEAN ELSE {FALSE}
    /\ buffer \in IF program = "dpipe" THEN [1 .. N -> {NUL, Junk}] ELSE {Zeroed}
    /\ out = <<>>

-----------------------------------------------------------------------------
(* The writer *)

\* write blocks while the channel is full.  (The lines, or the blocks readsome
\* gives, are pieces of any size to the reader; the struct fits one segment.)
Write ==
    /\ writer = "write" /\ written < Bytes
    /\ written' \in IF program = "transfer" THEN {Bytes}
                    ELSE written + 1 .. Min({Bytes, taken + Capacity})
    /\ UNCHANGED <<writer, reader, taken, lost, stale, buffer, out>>

\* The whole file is written.  A named pipe that nobody else has open is emptied.
Close ==
    /\ writer = "write" /\ written = Bytes
    /\ writer' = "closed"
    /\ lost' = (program = "fifo" /\ reader \in {"start", "handler"})
    /\ UNCHANGED <<reader, written, taken, stale, buffer, out>>

\* kill(pid, SIGQUIT): fatal until the handler is installed; after that a read it
\* interrupts is restarted.
Kill ==
    /\ program = "fifo" /\ writer = "closed"
    /\ writer' = "end"
    /\ reader' = IF reader = "start" THEN "killed" ELSE reader
    /\ UNCHANGED <<written, taken, lost, stale, buffer, out>>

\* connect, which fails unless the parent listens by now; transfer_data.cpp calls
\* it until it succeeds.  An earlier run that still listens takes the connection,
\* and the file goes there.
Connect ==
    /\ program \in Sockets /\ writer = "start"
    /\ \/ reader = "accept" /\ writer' = "write"
       \/ stale /\ writer' = "elsewhere"
       \/ program = "unix" /\ reader # "accept" /\ writer' = "failed"
    /\ UNCHANGED <<reader, written, taken, lost, stale, buffer, out>>

-----------------------------------------------------------------------------
(* The reader *)

\* signal(SIGQUIT, on_quit), then open; bind and listen, then accept.
Install ==
    /\ program = "fifo" /\ reader = "start"
    /\ reader' = "handler"
    /\ UNCHANGED <<writer, written, taken, lost, stale, buffer, out>>

Open ==
    /\ program = "fifo" /\ reader = "handler"
    /\ reader' = "read"
    /\ UNCHANGED <<writer, written, taken, lost, stale, buffer, out>>

\* A failing bind ends the parent, or goes unnoticed and makes it listen elsewhere.
Listen ==
    /\ program \in Sockets /\ reader = "start"
    /\ reader' = IF stale THEN "dead" ELSE "accept"
    /\ UNCHANGED <<writer, written, taken, lost, stale, buffer, out>>

Accept ==
    /\ program \in Sockets /\ reader = "accept" /\ writer \in {"write", "closed"}
    /\ reader' = "read"
    /\ buffer' = Zeroed
    /\ UNCHANGED <<writer, written, taken, lost, stale, out>>

\* A char array taken as a string: up to the first NUL, and if there is none
\* perhaps on into the memory behind it.
CString(b) ==
    LET nuls == {i \in 1 .. N : b[i] = NUL}
    IN IF nuls # {} THEN {SubSeq(b, 1, Min(nuls) - 1)} ELSE {b, Append(b, Junk)}

\* read puts n bytes at the front of the buffer; the rest stays as it was.
Filled(n) == [i \in 1 .. N |-> IF i <= n THEN taken + i ELSE buffer[i]]

Available == IF lost THEN 0 ELSE written - taken

ReadPastTheCount ==
    /\ program # "transfer" /\ reader = "read" /\ Available > 0
    /\ LET n == Min({N, Available})
       IN /\ \E s \in IF program = "fifo" THEN {Filled(n)} ELSE CString(Filled(n)) : out' = out \o s
          /\ buffer' = IF program = "unix" THEN Filled(n) ELSE Zeroed
          /\ taken' = taken + n
    /\ UNCHANGED <<writer, reader, written, lost, stale>>

\* One round of the copying loop.  Only fifo_pipe.cpp uses the count; only
\* UNIX_socket.cpp does not clear the buffer afterwards.
Read ==
    /\ program # "transfer" /\ reader = "read" /\ Available > 0
    /\ LET n == Min({N, Available})
       IN /\ \E s \in IF program = "fifo" THEN {SubSeq(Filled(n), 1, n)} ELSE CString(Filled(n)) :
                out' = out \o s
          /\ buffer' = IF program = "unix" THEN Filled(n) ELSE Zeroed
          /\ taken' = taken + n
    /\ UNCHANGED <<writer, reader, written, lost, stale>>

\* The one recv of transfer_data.cpp, into a buffer larger than the struct.
ReadStruct ==
    /\ program = "transfer" /\ reader = "read" /\ Available > 0
    /\ out' = [i \in 1 .. Available |-> i]
    /\ taken' = Available
    /\ reader' = "end"
    /\ UNCHANGED <<writer, written, lost, stale, buffer>>

EndOfInputBeforeClose ==
    /\ program \in {"dpipe", "unix"} /\ reader = "read" /\ Available = 0
    /\ reader' = IF program = "unix" THEN "served" ELSE "end"
    /\ UNCHANGED <<writer, written, taken, lost, stale, buffer, out>>

\* read returns 0 once the last writing end is closed.  The reader of the named
\* pipe holds one itself, having opened it with O_RDWR.
EndOfInput ==
    /\ program \in {"dpipe", "unix"} /\ reader = "read" /\ writer = "closed" /\ Available = 0
    /\ reader' = IF program = "unix" THEN "served" ELSE "end"
    /\ UNCHANGED <<writer, written, taken, lost, stale, buffer, out>>

-----------------------------------------------------------------------------
WriterStep == Write \/ Close \/ Kill \/ Connect

ReaderStep == Install \/ Open \/ Listen \/ Accept \/ Read \/ ReadStruct \/ EndOfInput

CopyNext == WriterStep \/ ReaderStep

-----------------------------------------------------------------------------
\* s has the bytes 1 .. k in this order: each comes, and comes first after smaller
\* ones only.
Covers(s, k) ==
    /\ \A i \in DOMAIN s : s[i] <= k
    /\ \A b \in 1 .. k : \E i \in DOMAIN s : s[i] = b /\ \A j \in 1 .. i - 1 : s[j] < b

\* Printing the buffer as a string may add what the memory behind it or an
\* earlier read left there, but never skips or reorders a byte; the named pipe's
\* reader, which writes the count it read, adds nothing either.
NothingSkipped ==
    /\ Covers(out, taken)
    /\ program = "fifo" => out = [i \in 1 .. taken |-> i]

\* The reader goes on to the end of the file: of dpipe.cpp always, of
\* UNIX_socket.cpp when the child found it listening, of transfer_data.cpp, whose
\* child tries again, unless bind failed, of fifo_pipe.cpp when it had the pipe
\* open before the parent closed it; and a reader that saw the end
\* of its input has the whole file.
CopiedToTheEnd ==
    /\ (program = "dpipe" /\ reader = "read") ~> reader = "end"
    /\ (program = "unix" /\ writer = "write") ~> reader = "served"
    /\ (program = "transfer" /\ ~stale) ~> reader = "end"
    /\ (program = "fifo" /\ reader = "read" /\ writer = "write") ~> taken = Bytes
    /\ [](reader \in {"end", "served"} => taken = Bytes)
=============================================================================
