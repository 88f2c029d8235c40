------------------------------ MODULE OneWriter ------------------------------
(***************************************************************************)
(* code/concurrent/1w_nr.cpp: a writer appends the lines of a file to      *)
(* data_list, every reader copies the first line, and clear removes it     *)
(* when aready_read says that as many reads as there are readers have been *)
(* made.  A section run with data_protecter held is one step.  At the      *)
(* warning line the writer gives the lock back and appends without it,     *)
(* which may race with the removal; and nobody looks whether the list is   *)
(* empty before the first line is read or removed.                         *)
(***************************************************************************)
EXTENDS Integers, Sequences, FiniteSets

CONSTANTS
    Cores,             \* values of hardware_concurrency(): 0 when it is unknown
    Lines,             \* lines of the file
    warn_threshhold,   \* 70
    MaxReads           \* bound: with this many reads, no more spurious wake-ups

VARIABLES
    reader_count,
    data_list,     \* the numbers of the lines in the pool
    pool_size,     \* what data_list.size() returns
    stray,         \* the end of the list is a node that is not in it
    line,          \* lines the writer has taken from the file
    writer,        \* getline, append and notify (without the lock), done
    reader,        \* while, wait, woken, notify, done
    clear,         \* lock, wait, after (the lock is released), break, done
    aready_read, write_end_flag, clear_end_flag,
    crashed,       \* the process has used a list node that is not there
    \* history
    cleared,       \* lines clear has removed
    lost,          \* lines pushed that never came into the list
    seen,          \* who has read each line
    extra          \* reads counted for a line beyond each reader's first

history == <<cleared, lost, seen, extra>>
vars == <<reader_count, data_list, pool_size, stray, line, writer, reader, clear,
          aready_read, write_end_flag, clear_end_flag, crashed, history>>

\* The readers' ids: none when there are no more than two cores.
Readers == 0 .. reader_count - 1

Init ==
    /\ \E cores \in Cores : reader_count = cores - 2
    /\ data_list = <<>> /\ pool_size = 0 /\ stray = FALSE /\ line = 0
    /\ writer = "getline"
    /\ reader = [r \in Readers |-> "while"]
    /\ clear = "lock"
    /\ aready_read = 0
    /\ write_end_flag = FALSE /\ clear_end_flag = FALSE /\ crashed = FALSE
    /\ cleared = 0 /\ lost = 0
    /\ seen = [l \in 1 .. Lines + 1 |-> {}] /\ extra = [l \in 1 .. Lines + 1 |-> 0]

\* has_data.notify_all()
NotifyReaders == reader' = [r \in Readers |-> IF reader[r] = "wait" THEN "woken" ELSE reader[r]]

-----------------------------------------------------------------------------
(* writer *)

\* push_back hooks the new node behind the list's last one.
Push ==
    /\ IF stray
       THEN lost' = lost + 1 /\ UNCHANGED data_list
       ELSE data_list' = Append(data_list, line') /\ UNCHANGED lost
    /\ pool_size' = pool_size + 1

\* Below the warning line: append and notify with the lock held.
WriteLine ==
    /\ writer = "getline" /\ line < Lines /\ pool_size < warn_threshhold
    /\ line' = line + 1
    /\ Push
    /\ NotifyReaders
    /\ UNCHANGED <<reader_count, stray, writer, clear, aready_read, write_end_flag, clear_end_flag,
                   crashed, cleared, seen, extra>>

\* At the warning line: unlock, notify, sleep ...
Warn ==
    /\ writer = "getline" /\ line < Lines /\ pool_size >= warn_threshhold
    /\ line' = line + 1
    /\ writer' = "append"
    /\ NotifyReaders
    /\ UNCHANGED <<reader_count, data_list, pool_size, stray, clear, aready_read, write_end_flag,
                   clear_end_flag, crashed, history>>

\* ... append all the same, when nothing touches the list at that moment ...
AppendUnlocked ==
    /\ writer = "append"
    /\ writer' = "notify"
    /\ UNCHANGED line
    /\ Push
    /\ UNCHANGED <<reader_count, stray, reader, clear, aready_read, write_end_flag, clear_end_flag,
                   crashed, cleared, seen, extra>>

\* ... and notify.
NotifyUnlocked ==
    /\ writer = "notify"
    /\ writer' = "getline"
    /\ NotifyReaders
    /\ UNCHANGED <<reader_count, data_list, pool_size, stray, line, clear, aready_read, write_end_flag,
                   clear_end_flag, crashed, history>>

EndOfFile ==
    /\ writer = "getline" /\ line = Lines
    /\ writer' = "done"
    /\ write_end_flag' = TRUE
    /\ UNCHANGED <<reader_count, data_list, pool_size, stray, line, reader, clear, aready_read,
                   clear_end_flag, crashed, history>>

-----------------------------------------------------------------------------
(* reader *)

\* while(!clear_end_flag), then the shared lock and has_data.wait, which tests
\* nothing.
EnterWait(r) ==
    /\ reader[r] = "while"
    /\ reader' = [reader EXCEPT ![r] = IF clear_end_flag THEN "done" ELSE "wait"]
    /\ UNCHANGED <<reader_count, data_list, pool_size, stray, line, writer, clear, aready_read,
                   write_end_flag, clear_end_flag, crashed, history>>

SpuriousWakeup(r) ==
    /\ reader[r] = "wait" /\ aready_read < MaxReads
    /\ reader' = [reader EXCEPT ![r] = "woken"]
    /\ UNCHANGED <<reader_count, data_list, pool_size, stray, line, writer, clear, aready_read,
                   write_end_flag, clear_end_flag, crashed, history>>

\* data = data_list.front(); aready_read.fetch_add(1).
ReadFront(r) ==
    /\ reader[r] = "woken" /\ data_list # <<>>
    /\ reader' = [reader EXCEPT ![r] = "notify"]
    /\ aready_read' = aready_read + 1
    /\ LET l == Head(data_list)
       IN  IF r \in seen[l]
           THEN extra' = [extra EXCEPT ![l] = @ + 1] /\ UNCHANGED seen
           ELSE seen' = [seen EXCEPT ![l] = @ \cup {r}] /\ UNCHANGED extra
    /\ UNCHANGED <<reader_count, data_list, pool_size, stray, line, writer, clear, write_end_flag,
                   clear_end_flag, crashed, cleared, lost>>

\* front() of an empty list takes the list's own fields for a string: the process
\* stops, or the read is counted for the line that comes next.
ReadNothing(r) ==
    /\ reader[r] = "woken" /\ data_list = <<>>
    /\ reader' = [reader EXCEPT ![r] = "notify"]
    /\ crashed' \in BOOLEAN
    /\ aready_read' = aready_read + 1
    /\ extra' = [extra EXCEPT ![cleared + 1] = @ + 1]
    /\ UNCHANGED <<reader_count, data_list, pool_size, stray, line, writer, clear, write_end_flag,
                   clear_end_flag, cleared, lost, seen>>

\* clear_data.notify_one()
NotifyClear(r) ==
    /\ reader[r] = "notify"
    /\ reader' = [reader EXCEPT ![r] = "while"]
    /\ clear' = IF clear = "wait" THEN "lock" ELSE clear
    /\ UNCHANGED <<reader_count, data_list, pool_size, stray, line, writer, aready_read, write_end_flag,
                   clear_end_flag, crashed, history>>

-----------------------------------------------------------------------------
(* clear *)

\* The predicate of clear_data.wait is false.
ClearWait ==
    /\ clear = "lock" /\ aready_read # reader_count
    /\ clear' = "wait"
    /\ UNCHANGED <<reader_count, data_list, pool_size, stray, line, writer, reader, aready_read,
                   write_end_flag, clear_end_flag, crashed, history>>

ClearSpurious ==
    /\ clear = "wait"
    /\ clear' = "lock"
    /\ UNCHANGED <<reader_count, data_list, pool_size, stray, line, writer, reader, aready_read,
                   write_end_flag, clear_end_flag, crashed, history>>

\* The size of the list after pop_front: when the writer is appending without the
\* lock, one of the two unsynchronised updates of the size may be lost.
SizeAfterPop == IF writer = "append" THEN {pool_size - 2, pool_size - 1, pool_size} ELSE {pool_size - 1}

PopKeepingCount ==
    /\ clear = "lock" /\ aready_read >= reader_count /\ data_list # <<>>
    /\ data_list' = Tail(data_list) /\ cleared' = cleared + 1
    /\ pool_size' \in SizeAfterPop
    /\ clear' = IF data_list' = <<>> THEN "break" ELSE "after"
    /\ UNCHANGED <<reader_count, stray, line, writer, reader, aready_read, write_end_flag, clear_end_flag,
                   crashed, lost, seen, extra>>

Pop ==
    /\ clear = "lock" /\ aready_read = reader_count /\ data_list # <<>>
    /\ aready_read' = 0
    /\ data_list' = Tail(data_list) /\ cleared' = cleared + 1
    /\ pool_size' \in SizeAfterPop
    /\ clear' = IF data_list' = <<>> THEN "break" ELSE "after"
    /\ UNCHANGED <<reader_count, stray, line, writer, reader, write_end_flag, clear_end_flag, crashed,
                   lost, seen, extra>>

\* pop_front of an empty list frees what is no node: the process stops, or clear
\* finds the list as empty as it was.
PopNothing ==
    /\ clear = "lock" /\ aready_read = reader_count /\ data_list = <<>>
    /\ aready_read' = 0
    /\ pool_size' = pool_size - 1
    /\ crashed' \in BOOLEAN
    /\ clear' = "break"
    /\ UNCHANGED <<reader_count, data_list, stray, line, writer, reader, write_end_flag, clear_end_flag,
                   history>>

\* pop_front of the only node while the writer hooks the next one behind it, which
\* writes into a node that may be freed already: the new node is in no list, and
\* the end of the empty list is that node or the list itself.
PopRacing ==
    /\ clear = "lock" /\ aready_read = reader_count /\ Len(data_list) <= 1 /\ writer = "append"
    /\ aready_read' = 0
    /\ data_list' = <<>> /\ cleared' = cleared + Len(data_list)
    /\ lost' = lost + 1
    /\ stray' \in BOOLEAN /\ crashed' \in BOOLEAN
    /\ pool_size' \in pool_size - 1 .. pool_size + 1
    /\ writer' = "notify" /\ clear' = "break"
    /\ UNCHANGED <<reader_count, line, reader, write_end_flag, clear_end_flag, seen, extra>>

\* Once the writer has ended, clear sends its notifications.
ClearNotify ==
    /\ clear = "after"
    /\ clear' = "lock"
    /\ IF write_end_flag THEN NotifyReaders ELSE UNCHANGED reader
    /\ UNCHANGED <<reader_count, data_list, pool_size, stray, line, writer, aready_read, write_end_flag,
                   clear_end_flag, crashed, history>>

\* The pool was empty: main stops waiting.
ClearEnd ==
    /\ clear = "break"
    /\ clear' = "done"
    /\ clear_end_flag' = TRUE
    /\ UNCHANGED <<reader_count, data_list, pool_size, stray, line, writer, reader, aready_read,
                   write_end_flag, crashed, history>>

-----------------------------------------------------------------------------
\* Until the process stops; main ends it some time after clear_end_flag is set.
Next ==
    /\ ~crashed
    /\ \/ WriteLine \/ Warn \/ AppendUnlocked \/ NotifyUnlocked \/ EndOfFile
       \/ ClearWait \/ ClearSpurious \/ Pop \/ PopNothing \/ PopRacing \/ ClearNotify \/ ClearEnd
       \/ \E r \in Readers :
             EnterWait(r) \/ SpuriousWakeup(r) \/ ReadFront(r) \/ ReadNothing(r) \/ NotifyClear(r)

-----------------------------------------------------------------------------
\* The reads counted for line l.
Reads(l) == Cardinality(seen[l]) + extra[l]

\* A line leaves the pool after exactly reader_count reads counted for it, whatever
\* the readers do.  The comment on clear wants more, that all readers have read it:
\* that is so when no reader came back for the line and none read the empty pool
\* before it, which nothing in the code rules out.  aready_read counts the reads of
\* the line at the head and no others, until clear ends; and the append without
\* the lock loses a line only to the removal with which clear ends.
ReadsAccountedFor ==
    /\ \A l \in 1 .. cleared : Reads(l) = reader_count /\ (extra[l] = 0 => seen[l] = Readers)
    /\ lost > 0 => clear \in {"break", "done"}
    /\ clear \notin {"break", "done"} =>
          /\ data_list # <<>> => Head(data_list) = cleared + 1
          /\ Reads(cleared + 1) = aready_read
          /\ \A l \in cleared + 2 .. Lines : Reads(l) = 0
=============================================================================
