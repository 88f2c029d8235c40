# Verification of Londa

Londa is a collection of study programs in C++ and C, with notes in Markdown. There is
no single system: the programs under `code/` are small and independent. What they share
is the subject (threads, condition variables, multiplexed sockets, processes that pass
one another data) and so the kind of mistake they can make. This directory holds TLA+
models of those programs, TLC runs that check them on small instances, and TLAPS proofs
of every safety property the passing runs check.

`PROJECT.json` lists the components, the runs, what each definition translates
(`map`), one mutant per checked property, the hazards and the theorems.

## Inventory

| Part | Source (under `code/`) | Modules | State |
|---|---|---|---|
| fixed_thread_pool | `concurrent/threadpool.cpp` | `FixedThreadPool`, `TaskExecutor` | modelled, proved |
| threadpool with commit | `boost_doc/Function/threadpool.cpp` | `CommitPool` | modelled, proved |
| MyFuture | `concurrent/MyFuture.cpp` | `MyFuture` | modelled, proved |
| producer and consumer, three ways | `concurrent/1p1c.cpp`, `1p1c_cv.cpp`, `1p1c_mutex.cpp` | `BatchProducer`, `BatchWait`, `BatchWaitIf`, `PollingConsumer` | modelled, proved |
| one writer, many readers, a cleaner | `concurrent/1w_nr.cpp` | `OneWriter` | modelled, proved |
| polling readers | `concurrent/tiny_rwc.cpp` | `TinyReaders` | modelled, proved |
| counter behind two locks | `concurrent/rw.cpp` | `SharedCounter` | modelled, proved |
| parallel sum over a pool | `concurrent/sum.cpp` | `ChunkSum` | partly: `manual_mt` and its pool; proved |
| FizzBuzz printer | `concurrent/order_print.cpp` | `FizzBuzz` | modelled, proved |
| turn-taking printers | `concurrent/alternate_print_nt.cpp`, `print.cpp`, `order_process.cpp` | `AlternatePrint`, `PairPrint`, `OrderProcess` | modelled, proved |
| flag, queue and future samples | `concurrent/notify.cpp`, `consume.cpp`, `promise.cpp`, `atomic_bool.cpp`, `set_value.cpp`, `wait_fororuntil.cpp` | `ThreadSamples` | modelled, proved |
| select and poll echo servers | `network/IO/multiplexing/via_select`, `via_poll` | `SelectServer`, `PollServer` | modelled, proved |
| epoll server and client | `network/IO/multiplexing/via_epoll` | `EpollServer`, `EpollClient` | modelled, proved |
| edge triggered server and client | `network/TCP/long_connection.*.c` | `LongConnection` | modelled, proved |
| asio stock server and client | `boost_doc/IO/connection.hpp`, `server.cpp`, `client.cpp` | `StockQuotes` | modelled, proved |
| asio UDP echo server | `boost_doc/IO/demo.cpp` | `UdpEcho` | modelled, proved |
| shared memory object | `IPC/SHM/SystemV/placement.cpp` | `SharedObject` | partly: not the value of `count`; proved |
| pipe, fifo, unix socket, struct over TCP | `IPC/PIPE`, `IPC/Socket`, `network/TCP/transfer_data.cpp` | `StreamCopy` | partly: no failing `open`, `fork`, `read`; proved |
| everything else | | | see "Not modelled" |

## How the code is read

* A critical section is one step when nothing outside the lock can be seen in between.
  Where an unlocked write can fall between a test and the wait that follows, the thread
  has a state of its own there (`block`: decided to wait, still holding the mutex).
* A condition variable is the set of its waiters. `notify_one` removes one of them,
  any one, or none when nobody waits; `wait` may also return without a notification
  (`SpuriousWakeup`), which never has fairness.
* A notification made after unlocking is a step apart from the unlock.
* A handler of an asynchronous operation is one step; the operations in flight are state.
* Undefined behaviour is a choice over what the build can produce: stepping past the
  end of a `std::list` goes round its ring; `revents` that were never written hold
  anything; a buffer that was never cleared holds garbage; an unlock of a mutex that
  another thread holds frees it; a `push_back` and a `pop_front` that race leave
  any of the sizes their two updates can produce and, when they meet at the only node,
  a new node that is in no list; the front of an empty list, and its removal, crash the
  process or leave it as it was.
* Data is what the properties tell apart: a task is a model value, a pool of floats its
  size, a place in an echoed stream a count of bytes. The header of the stock server is
  formatted and parsed digit by digit, since a property is about its width.
* Sockets, `select`, `poll`, `epoll_wait`, asio, System V segments and the peers at the
  other end are external and are modelled by what the code relies on. A peer may send,
  stay silent or go away at any time; datagrams may be lost, repeated and reordered.

Programs of one kind are composed. A module such as `Printers` has a variable `program`,
chosen once in the initial state, and runs the steps of the program it names, leaving
the variables of the others alone.

## Modules

**`FixedThreadPool`**, with **`TaskExecutor`** as its abstract specification. Variables
are the members of `data` (`mtx_`, `cond_`, `is_shutdown_`, `tasks_`), a program counter
and `current` per worker, where each caller of `execute` and the owner are, and the
histories `accepted`, `taken` and `done`. `Lock`, `Take`, `Break`, `Decide`, `Wait` and
`Run` are the worker's loop; `Execute` and `ExecuteNotify` are the two halves of
`execute`; `Shutdown` and `ShutdownNotify` those of the destructor. Nobody calls
`execute` once the destructor has begun, since that would use a dying object.
`TaskExecutor` knows a queue, at most `Width` running tasks and the finished ones.

**`CommitPool`**. The worker lambda (`While`, `Lock`, `Predicate`, `Block`, `Take`,
`Busy`, `Run`, `Idle`, `Return`), `commit` as test, push and notify, and the destructor
(`Stop`, `StopNotify`, `Join`). `stoped` is written without `m_lock`. Callers are
threads outside the pool and running tasks alike.

**`MyFuture`**. Handles that copy, move, release, set and get; the count is decremented
and the delete happens in two steps, as in the destructor. A get that finds no value
waits once, with no loop.

**`PoolPrograms`** runs one of seven programs that share data between threads.
`BatchProducer` is the producer and the state of the first three, `BatchWait` (`1p1c`),
`BatchWaitIf` (`1p1c_cv`) and `PollingConsumer` (`1p1c_mutex`) are their consumers.
`OneWriter` (`1w_nr`) has a writer that appends without the lock at the warning line
(`AppendUnlocked`, `NotifyUnlocked`, and `PopRacing` when it meets the cleaner at the only
node), readers that copy the first line and count their reads (`ReadFront`, or `ReadNothing`
when there is no line), and a cleaner that removes the line and resets the count. There
are two readers fewer than cores, none with two cores, and a negative number of them,
which starts none, when the number of cores is 1 or unknown. `TinyReaders` (`tiny_rwc`) has readers under a shared lock
that each keep an index into a vector nobody shortens. `SharedCounter` (`rw`) has a
counter that wraps at the width of `unsigned`, behind its own lock and an outer one.
`ChunkSum` (`sum`) follows `manual_mt`: adjusting the thread count, cutting the data into
ranges, whose number is a rounded-up quotient of floats (`FloatQuotients`: both neighbours
where the exact value is in the middle), handing them to a pool that may have no thread at all, swapping, destroying.

**`Printers`** runs one of four programs that print in turns, or one of six samples.
`FizzBuzz` and `AlternatePrint` count under a mutex; `PairPrint` (`print`) adopts a mutex
it does not hold, so that its prints, stores, notifications and unlocks are steps apart; `OrderProcess` uses two mutexes as signals; `ThreadSamples` has main,
its threads, a flag and two futures, for all six samples.

**`EchoServers`** runs `SelectServer` or `PollServer`. One step per call that can be
interrupted by the peers: waiting for readiness, accepting, reading and echoing,
closing. The slot table, `cli_cnt` and `maxi` are as in the code. The set-up may fail, and so
may `poll` and `accept`; the select server has a limited number of descriptors (`FDs`), and
a connection it has no slot for keeps one.

**`EpollPrograms`** runs one of three. `EpollServer` follows `handle_events`,
`handle_accpet`, `do_read` and `do_write`, with the one buffer that all connections share,
byte by byte, and batches of events taken from the kernel at once. A write for a client
that has hung up is answered by a reset, and the next one closes the connection or kills
the server by SIGPIPE (`BrokenPipe`). `EpollClient` follows
the client in the same way. `LongConnection` follows `run` and `events_handle` of the edge
triggered server (`Wait`, `Accept`, `ReadAll`, `StartWrite`, `WriteSome`, `WriteDone`,
`Close`, the exits after a failed read or write, and those after a failed `epoll_wait`,
`accept` or `epoll_ctl`) together with its client, over a ready list that reports an
edge once; a client may leave, reset the connection, or be given up by the keepalive.

**`StreamPrograms`** runs one of seven. `StreamCopy` has the two processes of `dpipe`,
`fifo_pipe`, `UNIX_socket` and `transfer_data`, a channel of limited capacity and the
reader's buffer cell by cell, printed as a C string where the code does so. The socket's
file may be left from an earlier run, which may still be listening there and take the
connection (`Connect`). `SharedObject`
has the commands of several processes, the kernel's segments and each process's address
space; `attach` and `dettach` are two system calls each, with other processes in between. `StockQuotes` has the server's and the clients' handlers (`handle_accept`,
`handle_connect`, `handle_read_header`, `handle_read_data`, ...), partial writes, broken
connections, the retry with the next endpoint, and the return of `run()`. `UdpEcho`
alternates `do_receive` and `do_send` over one buffer of limited length, in which every
byte carries the number of the datagram it came in.

## Runs

| Run | Instance | What it shows |
|---|---|---|
| `fixed_thread_pool` | 2 workers, 2 callers, 3 tasks | tasks leave in order; no wake-up is lost although `execute` notifies outside the lock; shutdown drains the queue and ends every worker; every task runs; the pool implements `TaskExecutor`, fairness included |
| `commit_pool` | 2 workers, 2 callers, 3 tasks | a pending future is queued or in one worker's hands; no wake-up is lost while the pool lives; futures become ready unless it is destroyed |
| `commit_pool_broken` (violation) | the same, 1 caller | an accepted task can be dropped by the destructor, against the comment on `commit` |
| `commit_pool_join` (violation) | the same, 1 caller | the destructor can wait for ever, against the comment on `join` |
| `my_future` | 3 handles, 1 value | the count equals the handles; nobody touches the freed state; a set ends every get |
| `my_future_spurious` (violation) | the same | get can return a value nobody set |
| `pool_programs` | chunks of 2, batches of 5, 8 rounds; up to 4 cores, so up to 2 readers, 3 lines, warning line 1; 2 readers, 5 lines, threshold 3; 1 getter, 2 writers, counter modulo 4; 7 lengths, batches of 3, floats of 4 bits | items are neither lost nor taken twice, even when the erase wraps round a short list; no sleep on a full batch; a line of `1w_nr` leaves after exactly `reader_count` reads, and the unlocked append loses one only to the last removal; `tiny_rwc` stops at its threshold and every line reaches every reader; `rw` prints in the order of its calls; `sum`'s ranges tile the data; the end reaches whoever waits for it |
| `printers` | n up to 16; 3 threads up to 7; numbers up to 40; lead up to 4; the samples as they are | every line once, in order, from the right thread; the limit is overshot by at most a line per thread; misused mutexes still keep the threads in step; main is held back as long as it should be, and no longer |
| `echo_servers` | 2 slots, 3 descriptors; 4 connections with select, 3 with poll | slots are neither lost nor doubled; no open slot is beyond the scan; clients are served, and the slots of those that hang up are freed, until the server goes down or, with select, has no descriptor left for a connection that waits; poll blocks only on a slot used for the first time |
| `echo_servers_ready` (violation) | the same | the poll server reads from a silent client, against its comment on readiness |
| `epoll_programs` | 2 clients; 2 messages of up to 2 bytes; 3 lines; 2 bytes per stream | no event is stale, and no edge lost; shared buffers are handed over clean and nothing leaves them twice; the client waits in vain only after an empty write; connections end only because of their clients, the server exits only because of a client or a call that failed, and one buffer is lost per connection closed; everyone is served until then |
| `stream_programs` | 5 bytes, buffer of 2, channel of 3; 1 server, 1 client process, 2 segments, 2 addresses; 2 stock clients, 2 endpoints, headers of 2 digits in base 2, up to 5 bytes; 2 UDP clients, 3 datagrams of up to 3 bytes, a buffer of 2, a queue of 2 | no byte is skipped and all are copied; a process crashes only on a pointer it spoiled itself; a detached segment is not found again; headers are understood, and only sizes that fit are announced; a stock client that is accepted and stays connected never fails; every reply is the bytes of one datagram and goes to its sender, once and in order; every chain of handlers goes on or runs out of work |

The four violations are recorded under `findings`, each with the line it contradicts.

### Why the bounds are enough

Two workers and three tasks give a busy worker, a sleeping one and a task that waits;
two callers let a notification be late while another task arrives. `BATCH` is not a
multiple of `CHUNK`, so the pool is under, at and over a batch, and eight rounds fill
three batches. In `1w_nr` three lines pass the warning line of one, so that the append
without the lock meets the cleaner, at the only node too, and two readers can read one
line twice or not at all; the numbers of cores give two readers, one, none, and fewer. Five lines go past the threshold of `tiny_rwc`. The counter of `rw` wraps at four. The
lengths of `sum` are none, less than a batch, one and two batches, one and two more
than that, and one near the end of what the small floats hold, where quotients are
rounded; the numbers of cores are unknown (0), one, which leaves a pool of no
threads, and enough. In `printers` 16 goes past the first multiple of 15. With two slots,
a third connection finds the table full or reuses a slot; the fourth one of the select
server lets `cli_cnt`, which only grows, pass the end of the table, or finds no descriptor
when one of the three is held by a connection without a slot. Messages of one and
two bytes let a short one leave the tail of a longer one in the buffer; two bytes let a
long connection's echo be read in parts. Five bytes through a buffer of two and a channel
of three give full, partial and last reads. Datagrams of none to three bytes, for a buffer
of two, are empty, leave old bytes behind them, fill the buffer and are cut off. Sizes up to 5 with two binary digits are on
both sides of what the header holds. Every bound is a constant of its module; nothing
is cut off by a state constraint. `CHECK_DEADLOCK FALSE` stands where programs end, or
where a thread that sleeps for ever is what the code does.

### Fairness

Where progress is claimed, threads are scheduled: each has weak fairness on its next
step. (`print`, `rw`, `1w_nr`, `placement` and the epoll client have only safety properties
and no fairness.) Two cases need strong
fairness. A thread that keeps being offered a mutex it must share (`Lock` and
`CommitStep` of `CommitPool`, `GetResume` of `MyFuture`) can have its step disabled and
enabled again for ever by spurious wake-ups of others; the mutex is assumed not to
starve it. `epoll_wait` rotates its ready list, so a descriptor that stays ready is not
left out of every batch. A server's loop and an `io_service.run()` are weakly fair: they
go on calling handlers while there are any to call. In `LongConnection` what was sent
arrives, and a client whose answer has come reads it. In `StreamPrograms` both processes
and every asio client are scheduled. In the producer programs the time limit does pass.
In `tiny_rwc` only the readers are fair: the writer needs the lock exclusively, and
readers that overlap may keep it out for ever. Peers, callers, users at a prompt,
failures and spurious wake-ups have no fairness at all.

## Proofs

The proofs hold for every value of the constants that the named `ASSUME`s of the modules
allow; TLC evaluates those on every run. Every safety property that a passing run checks
is also a theorem. In a family such as `EpollPrograms`, a step is a step of one program
and leaves the variables of the others alone (the lemmas named `...Only`). So each program
has an inductive invariant of its own, and the family's theorem puts them together.

**`FixedThreadPool_proofs`**, for any sets of callers and tasks and any finite, non-empty
set of workers (`WorkersAssumption`), with `Free` neither a worker nor a task
(`FreeAssumption`; the pool of no threads that `threadpool.cpp:80` makes on a single core
runs nothing, and `ChunkSum` has it): `TypeCorrect`; `WakeupNeverLost` (queued work has an awake worker or a
notification on its way); `ShutdownWakesEveryone` (once the destructor is done, no worker
is in `cond_.wait`); `ExitsOnlyWhenDrained`; `QueueIsFifo`. None of the wake-up properties
is inductive. The decision to wait is taken before the wait, so one must know that what
it found (`tasks_` empty, no shutdown) is still true when the worker blocks
(`DecisionHolds`). That holds because the worker owns `mtx_` in between (`OwnsMutex`), and
`execute` and the destructor need `mtx_` to change either. `Waiting` ties `cond_` to the
program counters, `ShutdownIsLast` says that no `execute` is under way once shutdown has
begun, and `HoldsTask` ties `current` to them.

The same module shows the refinement, `PoolIsAnExecutor`: the initial states of the pool
are those of `TaskExecutor`, and every step is one of its steps or leaves it unchanged.
`Kinds` sorts the steps into pushes, pops, returns and the rest. A `Submit` needs a task
nobody has seen (`Known`), a `Finish` that no other worker holds the task (`Apart`), a `Start`
that fewer tasks run than there are workers: the worker that pops is not among those that
run (`RoomToRun`, by the cardinality of an image). The fairness of the executor is left
to the run `fixed_thread_pool`.

**`CommitPool_proofs`**: `CommitWakesSomebody`, by the argument of the fixed pool. It needs
`~stoped`, and has no counterpart for the destructor, whose notification can be lost, as
the run `commit_pool_join` shows. `EveryTaskOnce` (`PendingAccountedFor`) counts the places a
task is in; what is inductive is that no two places hold the same task (`Apart`), and the
count follows from it. From the same invariant come two results about steps:
* `FuturesSettleOnce`, an action property: a future that is ready, refused or broken stays so,
  it becomes ready when the worker holding its task returns, and its promise breaks only
  when every worker has ended and the task is still queued (`Settles`). The run
  `commit_pool_broken` shows that the last case happens; the theorem, that nothing else breaks
  a promise.
* `ExecutorUntilJoined`, a refinement up to the end of the destructor: every step is one of
  `TaskExecutor`, or leaves it unchanged, except `Join`, which drops what is queued and finds
  nothing running. Here a task is running from `Take` to `Run`, and done when its future is
  ready.

**`MyFuture_proofs`**, for any finite set of handles: `CountNeverDrifts` and
`DeletedOnceUnused`. The count is the cardinality of the live handles, so that it reaches
zero with the last of them; a thread inside `get` keeps its handle live (`HandleHeld`).
`OnlySpuriousYieldsUnset` is the other half of the run `my_future_spurious`: in behaviours
without a spurious wake-up (`Undisturbed`) every `get` yields what `set` stored or what a moving
`get` left of it, because a thread on its way back from the wait was woken by a `set`
(`Published`). It assumes that no value given to `set` is the mark `"unset"` of the model.

**`PoolPrograms_proofs`**, under `BatchAssumption` and `PoolAssumption`:
* `EveryItemCounted` (`NothingVanishes`) and `BatchIsNoticed` (`NoSleepOnFullBatch`). The three
  producer and consumer programs share `BatchInv`. `EndIsLast` says that the end flag goes up
  after the last push, which is why the unlocked drain of `1p1c` takes all there is
  (`Drained`); `Guards` keeps what the consumer of `1p1c_cv` saw under the lock true until it
  blocks.
* `EveryElementOnce` (`RangesTile`), for every positive batch size and every length below
  `Mantissa` (2^24), which a float holds exactly. `Left` is the loop invariant of `manual_mt`;
  `FirstRange` says that the first range and the rounded-up number of batches after it are
  all of the data, by `Quotient`; `FloatRoundsUp`, that the float quotient, rounded, has the
  same ceiling as the exact one.
* `LimitsHold` (`LimitsAndOrder`), also where the counter of `rw` wraps around.
* `EveryReadCounted` (`ReadsAccountedFor`). `InThePool` says which lines are in the pool of
  `1w_nr`, which are lost, and that before `clear` ends nothing is: the removal that races
  with the append is of the only node, after which the loop breaks. `Counted` says that the
  reads counted belong to the line at the head, those of the empty pool to the line that
  comes next.

**`Printers_proofs`**, for any limits and numbers of threads: `LimitNearlyKept`
(`PastTheLimit`), since a number beyond the limit takes a thread out of its loop (`FizzInv`,
`TurnsInv` count them); the action property `LinesInOrder` (`InOrder`); `ThreadsKeepStep`
(`InStep`), where the flag says which thread of `print` may print (`FlagTurns`) and with
where that thread is how far the odd numbers are ahead (`AheadBy`), and `OrderInv` counts a
lock for every signal of `order_process` and one more; and
`MainWaitsLongEnough` (`MainHeldBack`), from what a ready future says of its thread.

**`EchoServers_proofs`**, for tables, descriptors and clients of any number: `TablesAreRight`
(`SlotsAreScannedClients`). `Table` says what the slots and the states of the connections
say of one another and is shared by both servers. That the scans leave nobody out rests
on the slot taken being the lowest free one (`FirstIsFree`): it is never beyond the number
ever stored. `BlocksOnFreshSlotOnly` (`StallOnlyOnFreshSlot`) needs that a slot still to be read
holds a client (`Occupied`).

**`EpollPrograms_proofs`**, for any finite set of clients and any numbers of messages and
bytes (`EpollAssumption`, `ProgramsAssumption`):
* `EventsHold` (`EventsAreTrue`). In the level triggered server an event closes its own
  connection only. In the edge triggered one, whatever changes what epoll would report
  also makes epoll notice it (`NoticedKeeps`).
* `BuffersHandedOver` (`BufferHandedOver`). `BufferHasAnOwner` is inductive; that no message
  leaves the buffer twice, to the same client or to another (`CarriedOnce`), is not. It needs
  that what is in the buffer was sent to nobody (`NotSent`), so that a message about to be
  read must be newer than all that is in the buffer or was sent (`Fresh`). In the client,
  `CleanWhenIdle` says that a buffer nobody waits for holds nothing, and `Known` is what is in
  it or has left: lines are numbered by the last line read, and before a reply is due all
  known replies are older than it (`Numbered`).
* `WaitsForReply` (`ClientWaits`), from `OnWire` and `Arrived`.
* `NobodyCutOff` (`EndsOnlyWithClient`). A connection is closed when a read returns nothing; that
  this means the end of the stream rests on `BatchTrue`, an event reported is still true
  when it is handled, which in turn needs `OpenOnly`. `EndIsTrue` says what the server may
  conclude from an end or a reset; an exit without such a cause is one of a call that failed
  (`LongFaultKeeps`). `BufInv` counts the buffers.

**`StreamPrograms_proofs`**, under `StreamAssumption`:
* `EveryByteInOrder` (`NothingSkipped`), for every size of the file, of the buffer and of the
  pieces read, and `EndMeansWholeFile`. What the buffer holds besides the bytes of one read is
  older than they are (`BufferIsOld`), so a read that is printed to the first NUL repeats bytes
  but skips none.
* `HeadersAreBelieved` (`HeaderIsBelieved`), for every base, header length and size, and
  `NoErrorWithoutCause` (`ErrorsHaveCause`): the server ends a connection that is neither broken
  nor dropped only when the whole reply is written or does not fit (`EndsWhole`). `DigitsHaveValue` says that parsing undoes formatting, and
  `DigitsHold` that a number has no more digits than it needs.
* `RepliesGoHome` (`EchoesGoHome`). While a send is in flight no receive is, and the front of the
  buffer is all of the datagram received last (`Turns`); what was answered is no newer
  (`Latest`) and, while that datagram waits for its reply, is older.
* `DetachedIsRemoved` (`NothingLeft`) and `CrashIsOwnFault` (`OwnFault`). The first needs that one
  segment at most is keyed, and that a keyed segment a process has mapped is the one its
  `shm_id` names (`NamesTheKeyed`): `dettach` removes by `shm_id` what it unmaps by address. Between
  the two calls the segment can still be found, which the property excepts. The second
  needs `PointersValid`: a pointer is valid unless its address was detached (`freed`).

Where a proof needs induction over numbers or sets, it takes the least counterexample
(`Least`, from the well-foundedness of `<` on the naturals), because the library's induction
theorems take an operator as parameter and the provers cannot instantiate it. `Recursion`
shows in that way that the recursive functions of the header exist and meet their equations.
In `PoolPrograms_proofs` and `StreamPrograms_proofs` the lemmas that need such a fact assume it
by name (`WellOrdered`, `ReadersCount`, `HeadersParse`). The last section of the module
instantiates the library, proves those facts (`Least`, `CountsReaders`, `Headers`) and draws
the theorems from the lemmas, which keeps the library out of the context of every other step.

Only model-checked: all liveness properties (`EveryTaskRuns`, `WorkersEnd`, `FutureReady`,
`GetReturns`, `EveryClientServed`, `EndReachesConsumer`, `LinesReadSumEnds`, `ReachesEnd`,
`EveryoneServed`, `CopiedToTheEnd`, `ChainsGoOn`), since fairness is beyond the prover, and the
fairness part of the refinement. The properties of the runs that end in a violation are
false; `FuturesSettleOnce` and `OnlySpuriousYieldsUnset` say what holds in place of two of them.

## Not modelled

* `alternate_print.cpp`: the result of `try_lock` is ignored and the unlock may be of a
  mutex the other thread holds; any interleaving is possible and nothing is kept in order.
* `shared_future.cpp`, `package_task.cpp`, `async.cpp`, `call_once.cpp`: a call or two into the
  standard library.
* `parallel_sum.cpp`, `deadlocking.cpp`: they do not compile; `many_thread.cpp`,
  `thread_param.cpp`: threads that print, or add to one variable without a lock.
* `epoll_detail.cpp`: an annotated excerpt of the kernel that says of itself that it is
  not executable; the ready list the servers need is modelled as external.
* `aServer.cpp`: its socket is closed when the handler returns, so what is sent depends on
  the inside of asio; `asio.cpp` does not compile; `port.cpp`, `ip.cpp`,
  `serlizrlisze.cpp`: straight-line calls.
* `mmap.cpp`: the body of the parent's loop is commented out. `SHM_Manager.h` is commented
  out, `write_node.cpp` holds conflict markers.
* `REUSE_PORT`: threads that all replace the buffer of `std::cin`, and an uninitialised
  length given to `accept`: undefined, with no outcome to settle on. `convert.cpp`
  converts one address.
* `cpplint.py`: a linter kept in the repository, single-threaded text processing.
* Boost.Log and language samples: configuration of a library, and demonstrations with no
  state that outlives a function.

Left out of the modelled programs: the text that is printed or logged; socket set-up
before the loops of the epoll programs; a `select` that fails for lack of memory; failing
system calls of the copying programs; `fixed_thread_pool` objects that were moved from or default-constructed,
and the one of no threads outside `sum`; lengths of `sum` from 2^24 on, which a float does not
hold exactly; a receive of the UDP server that completes with an error and only starts the next; a
message that fills the epoll server's buffer to the last byte (what `strlen` then finds
lies outside the array); `MAX_BUF` bytes or more before one event of the long connection
server; the value of the counter in shared memory, which is changed without its mutex;
the data `sum` adds up; two runs of a copying program at once (an earlier one that still
listens is there, but not its own reader and output); a `commit` that overlaps the end of the pool's own destructor.

## Plan

1. Failing `open`, `fork` and `read` in the copying programs.
2. An abstract echo service that `SelectServer`, `EpollServer` and `LongConnection` refine
   where they do, and the places where they do not.
