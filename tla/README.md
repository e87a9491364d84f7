# zhy-cpp-comm in TLA+

A TLA+ model of the server framework in this repository: an event-loop process
with a pool of threads, a pool of connections, and two queues between them. The
modules model the code under `app/`, `net/`, `misc/`, `proc/`, `signal/` and
`logic/` (paths below are relative to the source tree).

## The system

A master process forks worker processes. Each worker runs

* the **event-loop thread**: `epoll_wait`, and for each event the handler of the
  connection: accept, read or write;
* the **threads of the pool** (`CThreadPool`), which take received packets from
  `m_MsgRecvQueue`;
* the **send thread** (`ServerSendQueueThread`), which takes messages from
  `m_MsgSendQueue` and writes them to the sockets;
* the **recycle thread** (`ServerRecyConnectionThread`), which gives the objects
  of clients that have left back to the pool, 60 seconds later.

The objects they share are `zhy_connection_s` (one per client, and one per
listening port), the five lists, and their counters. Nothing but the log is written to disk.

| component | state | operations | talks to |
|---|---|---|---|
| thread pool (`misc/zhy_threadpool.cpp`) | message list and count, mutex, condition, `m_shutdown`, `isrunning` per thread, running threads | `Create`, `inMsgRecvQueueAndSignal`, `Call`, `ThreadFunc`, `StopAll` | the receive path posts, the threads consume |
| receive path (`net/zhy_socket.request.cpp`) | per connection: `curStat`, `precvbuf`, `irecvlen`, `precvMemPointer` | `zhy_read_request_handler`, `recvproc`, `proc_head`, `proc_total` | thread pool; the pool resets its fields |
| connection pool (`net/zhy_socket_conn.cpp`) | all objects, free list, recycle list, three counters, `iCurrsequence`, `fd`, `inRecyTime` | `zhy_get_connection`, `zhy_free_connection`, `inRecyConnectQueue`, the recycle thread | accept takes, business logic gives up, the recycle thread returns |
| accept (`net/zhy_socket_accept.cpp`) | `m_onlineUserCount` | `zhy_event_accept`, `zhy_close_connection` | connection pool, epoll |
| send path (`net/zhy_socket.cpp`, `zhy_socket_conn.cpp`, `zhy_socket.request.cpp`) | send list and count, semaphore, per connection `iSendCount`, `iThrowsendCount`, `psendMemPointer`, `isendlen`, registered events | `sendMsg`, `ServerSendQueueThread`, `zhy_write_request_handler`, `ClosesocketProc` | business logic queues, send thread and event loop write |
| event loop (`net/zhy_socket.cpp`) | the batch of events | `zhy_epoll_process_events` | all of the above |
| processes and signals (`proc/`, `signal/`) | process kind, signal mask, `zhy_reap` | `zhy_master_process_cycle`, `zhy_spawn_process`, `zhy_worker_process_cycle`, `zhy_signal_handler` | fork, waitpid |
| business logic (`logic/`, `misc/zhy_crc32.cpp`) | the packet, the connection's number | `threadRecvProcFunc`, `Get_CRC` | would be called by the thread pool |
| log (`app/zhy_log.cpp`, `app/zhy_print.cpp`) | the buffer of the line, `zhy_log` | `zhy_vslprintf`, `zhy_log_stderr`, `zhy_log_error_core`, `zhy_log_init` | called by everyone, the signal handler included |
| configuration, title, `main` (`app/`) | `m_ConfigItemList`; the memory of `argv` and `environ` | `Load`, `GetString`, `zhy_init_setproctitle`, `zhy_setproctitle`, `free_resource` | `main`, then master and workers |

What makes the components correct, and what is hard about it:

* **thread pool**: every message is taken by one thread, none is forgotten by a
  lost or stolen wake-up, and `Create` returns;
* **receive path**: whatever the client sends and however it is cut up, nothing
  is written outside the buffers, packets are delivered whole, a client that
  leaves in mid-packet leaves no buffer behind;
* **connection pool**: an object is in one place, the counters agree with the
  lists, the pool stays bounded, an old client is never taken for a new one, an
  object rests for its waiting time and does come back;
* **send path**: two threads write to one socket without tearing a message,
  messages are neither lost nor overlooked, counters and limits hold although
  clients come and go;
* **descriptors**: the kernel gives a number out again as soon as it is closed, while
  three threads use the `fd` field without a lock: nobody reads, writes or closes the
  socket of somebody else's client, and no socket is left that nobody can close;
* **processes**: no signal disturbs the start of the workers, and none is lost;
* **business logic**: what was changed in transit reaches no handler, nor does what
  is too late; what is sound does, but for bodies of one length (see `SoundHandledUnlessStale`);
* **log**: nothing is written outside of the buffer, and the line is what was meant, but
  for the sign of negative integers;
* **configuration and title**: each item once, the read ends, the environment survives.

The list of hazards with the source line of each is in `PROJECT.json`.

### How the source was read

The commit does not compile as it stands. These readings were chosen:

| source | as written | read as |
|---|---|---|
| `zhy_socket_conn.cpp:95,98` | `CLock lock(...)` declared twice | one lock, held to the end of the function |
| `zhy_socket_conn.cpp:117` and `156` | two bodies of `ServerRecyConnectionThread`, the first empty | the second |
| `zhy_memory.cpp:17` | `void*` function that returns nothing | `delete[]` of its argument |
| `g_stopEvent` | declared, never defined or set | a flag that something may set at any time (`Stop`) in ConnPool; never set in SendQueue |
| `zhy_process_events_and_timers` | never defined | the loop around `zhy_epoll_process_events(-1)` |
| `sendMsg`, `inRecyConnectQueue` | no caller in the repository | what the business logic calls, for a client whose message it holds |
| `zhy_threadpool.cpp:116` | the call of `threadRecvProcFunc` is commented out | not called: the message is freed |
| `main` (`zhy_nginx.cpp:31`) | calls neither `zhy_init_signals` nor `zhy_master_process_cycle` | first the one, then the other, in the process that `main` marked as the master |

Callers of `inRecyConnectQueue` have a duty that the code does not check: the
connection is closed (`ClosesocketProc`), and it is not back in the pool
already. `ConnPool` assumes it, as a guard.

## Modules

| module | models | size of a step |
|---|---|---|
| `ThreadPool` | `misc/zhy_threadpool.cpp` | code between two points where another thread can interfere: the lock, the test, `pthread_cond_wait`, each access outside the lock |
| `JobQueue` | what the pool promises: a queue of jobs | a job posted, begun, finished |
| `PkgRecv` | reading side of one connection object | one read event (only the event-loop thread touches these fields while the socket is open), plus the operations of the object's life |
| `ConnPool` | pool, accept, recycle thread | a section under `m_connectionMutex`; each element of the recycle thread's scan, whose mutex is a variable |
| `SendQueue` | sending side: `sendMsg`, send thread, write handler | each access of the send thread to a field the event loop also uses; the write handler in two steps (the write and its clean-up, then `--iThrowsendCount`) |
| `Descriptors` | accept, event loop, `recvproc`, send thread and `sendMsg` composed over the kernel's descriptors | each load of `fd`, each system call, each reset |
| `ProcessCycle` | `proc/zhy_process_cycle.cpp`, `signal/zhy_signal.cpp` | code between two points where it matters whether a signal arrives: a change of the mask, a `fork`, a store to `zhy_process` |
| `Crc32`, `LogicSocket` | `misc/zhy_crc32.cpp`, `logic/zhy_slogic.cpp` | one check of `threadRecvProcFunc` |
| `Log` | `app/zhy_print.cpp`, `app/zhy_log.cpp` | one turn of the loop of `zhy_vslprintf`; the end of a log function |
| `Config`, `Startup` | `app/zhy_conf.cpp`, `app/zhy_func.cpp`; `app/zhy_nginx.cpp`, `app/zhy_setproctitle.cpp` | one `fgets` with what its line adds; one call of `main` |
| `MCLogicSocket`, `MCLog`, `MCStartup` | the inputs of the three last runs | - |
| `ThreadPoolProofs`, `PkgRecvProofs`, `ConnPoolProofs`, `SendQueueProofs`, `DescriptorsProofs`, `LogicSocketProofs`, `LogProofs` | theorems about the module each is named after | - |
| `MainProofs` | theorems about `Startup` with `Config`, and about `ProcessCycle` | - |

`Descriptors` composes accept, the event loop, the receive and the send path in the one
thing they share without a lock, the descriptor; the data of each path is in the module
of that path. `LogicSocket` extends `Crc32`, `Startup` extends `Config` and takes its
`Load` as a step of `main`. The names of `ProcessCycle` (`InitCycle`, `NextCycle`, `CycleSpec`)
are apart from those of `Startup`, so that `MainProofs` can extend both. `ThreadPool` implements `JobQueue`
(`ThreadPool!ImplementsJobQueue`).

In all of them an action bears the name of the function it models, or of the
stretch of it. Actions that begin with "A mutant of" in their comment are not
part of the specification: each is the function with one plausible mistake, and
shows that the property it belongs to notices the mistake.

### ThreadPool

`pc[t]` is where thread `t` is in `ThreadFunc`: `lock` (before
`pthread_mutex_lock`), `check` (the `while` condition), `sleep` (about to call
`pthread_cond_wait`), `waiting`, `woken` (about to get the mutex back), `take`
(past the loop), `front` and `pop` (the same lines without the mutex, after
`m_shutdown`), `begin`, `busy`. `main` is the event-loop thread. `StopAll` sets
the flag without the mutex, so that a thread between `check` and `sleep` misses
it; what threads then do to the list without the mutex is kept, with the ends
the allocator may give it (`UnlockedPopAborts`, `DoubleFree`). `Bufs` are the messages
posted; those in `Nulls` are the null pointers that `proc_total` posts when a header
arrived in two pieces: they go through the list like the others, and `FreeMemory`
of one frees nothing, so that a second one is harmless (`DoubleFree` is about the others).

### JobQueue

The jobs that wait are `m_MsgRecvQueue`, those in hand are the `jobbuf` of the threads
past `pop_front`, and a job is done when its message is freed. Jobs are begun in the
order of posting, finished in any. After `StopAll` the abstract queue promises nothing,
since the code touches the list without the mutex from there on.

### PkgRecv

The client is arbitrary: a header spells any length of `Lens`, a `recv` returns
any number of bytes up to `irecvlen`, and the stream ends or breaks at any time.
`precvbuf` is kept as the area it points into and the offset in it, so that a
write outside is visible. `EAGAIN` and `EINTR` leave everything as it was.

### ConnPool

Objects are numbers in the order in which they entered `m_connectionList`. `age`
is the time since `inRecyTime`, up to the waiting time; `due` is what is old
enough at the `currtime` the recycle thread read, before it takes the mutex.
`allocator` is fixed from the start: what `free()` does to the node of a `std::list`. With
the one of the platform (`reuses`, glibc) the erased node is given to `push_back` of the free
list at once, so that `pos++` goes on in the wrong list and the process ends at the first
object recycled, always (`RecyFreesAndFaults`). With one that leaves the node alone
(`leaves`) the scan goes on as meant (`RecyFrees`). Which it is is no choice of a step.

### SendQueue

Messages are numbers in the order of the calls of `sendMsg`, made of `MsgLen`
pieces, and `wire[c]` is what was written to the current socket of `c`. The send
thread's work on one message is `Take` (under the mutex), `SenderSends` or
`SenderSendFails`, then `SettleDone`, or `SettleLater` and `SenderRegisters`:
the event loop, `ClosesocketProc` and the pool may act between any two. A peer
may read on after it sent a FIN: `fin` while the events at hand are from before it, so that
the write handler still writes, `half` once epoll reports it with every event; in the same
way a connection is `reset`, then `gone`. `calm` marks clients that have done nothing but
read. `refused` are the messages that `sendMsg` does not take.
SIGPIPE is not ignored anywhere, so a write to
a broken connection may end the process.

### Descriptors

`owner`, `reg` and `armed` are the kernel's: whose socket a number is, which object its
epoll entry names, and whether it asks for EPOLLOUT. `th[t]` is where a thread is, on which
object, with the number it has loaded. A thread that calls `recv`, `send`, `close` or
`epoll_ctl` does so with that number, whatever has become of it. The lowest free number goes
to the next client, as `accept` promises. `out` is the object whose event has an EPOLLOUT
still to be handled: the event loop tests `fd` once, runs the read handler, which may close,
and then the write handler, which loads `fd` anew for `send` and for `EPOLL_CTL_MOD`.
`sendMsg` and the scan hold `m_sendMessageQueueMutex`; the event loop holds nothing.

Nothing keeps two threads from one object while one of them is inside `ClosesocketProc`.
Those races are part of the model. `th[t].race` records what one did to a loaded number: it
was loaded between the other's `close` and reset (`dangling`), or the other closed it after
the load (`late`). `robbed` are the clients whose socket a call made for another object
closed, `misled` those whose epoll entry such a call took.

### ProcessCycle

Three signals stand for all: `HUP` is the first of the table, `TERM` ends a
process by default, `CHLD` is ignored by default. A blocked signal stays pending,
`fork` copies mask and `zhy_process` but nothing pending, and `sigsuspend` returns
after a handler has run, with the old mask back. What happens to a signal without
handler is its default action (`DefaultEnds`, `DefaultIgnores`). `byProcess` are the
pending signals with a sender (`si_pid`): the handler's log line then has the format
`... from %P%s`, of which `zhy_vslprintf` does not know the `%P` (`HandlerFaults`).

### LogicSocket and Crc32

A 32-bit word is the set of its bits, so that exclusive or is the symmetric difference
and shifts cut off what leaves the word. `Verify` is as the code has it, with the length
of the *message* header where that of the packet header is meant (line 77): packets with
a body of 8 bytes skip the sum. `GiveUp` may come between any two checks.

### Log

A format is the sequence of its parts and the arguments a sequence of their own, because
`va_arg` takes them one by one: a conversion that takes none, as `%P`, leaves them to the
next. An argument that was not passed is whatever `va_arg` finds, and `fault` stands for it.
`zhy_log_stderr` hands its finished line to `zhy_log_error_core` as a *format*
(`AsFormat`), where a `%` is `raw` and read again with what follows it. `at = "fault"` is
a `%s` that is given no string, `"overrun"` a `memcpy` of the length -1. `want` is the
text the parts stand for, without a buffer, and `bare` the same without the signs of
integers; `minus` records that an integer given to a `%d` was negative. The code loses that
sign (line 159 of `zhy_print.cpp` stores it without moving on). What it makes of a call is
`Made`, which is `want` unless there is such an integer.
`CallPart` and `Argument` are what a call may pass: widths, decimals and numbers of any
size, strings of any length, and NULL.

### Config and Startup

A turn of `Load` is one `fgets` and what the line adds to the list; characters that
matter have names ("nl", "cr", "sp", "tab", "semi"). A carriage return is cut off at the
end of a line only: elsewhere it belongs to the name or the value. A read that fails
returns NULL without an end of file: such a turn changes nothing and comes again for
ever. In `Startup` a string is its length; `g_argvneedmem` is one byte short for each
argument and, for an empty one, measures the string behind it.

## Runs

| run | constants | distinct states | shows |
|---|---|---|---|
| `thread_pool` | 3 threads, 2 messages and a NULL | 173,841 | one taker per message, no lost wake-up, `Create` returns, the pool is a queue of jobs |
| `pkg_recv` | headers of 8 and 16, buffer of 20, lengths 0, 8, 15, 16, 20, 21 with 20 the largest legal one, `iCurrsequence` to 8 | 4,753 | bounds, buffers, stamps |
| `conn_pool` | 2 worker connections, factor 1, one listening port, `iCurrsequence` to 5 | 23,884 | lists, counters, limit, stamps, waiting time, return of objects |
| `send_queue` | 1 object, 2 clients one after the other, 4 messages of 2 pieces, limits 2 (list) and 1 (client) | 256,730 | two writers kept apart, nothing torn, lost or overlooked |
| `descriptors` | 2 clients, 2 numbers, batches of up to 3 events | 215,834 | which races let a call reach another client's socket, and that nothing else does; no socket is lost; a client that leaves is noticed |
| `process_cycle` | 2 workers, 3 signals sent | 32,643 | signals are kept away while workers are forked and marked, and none is lost |
| `logic` | bodies of 0, 1, 2 and 8 bytes, changes of one byte, codes 0, 3, 7 | 15,915 | the sum is CRC-32; changed and late packets are stopped, sound ones pass, except bodies of 8 bytes |
| `log` | buffer of 9, all formats of up to three of eleven parts, and the handler's | 199,323 | what is written, where, and when it goes wrong |
| `startup` | files of up to two of 14 lines, buffer of 9, names of 4; three `argv`, two `environ` | 32,502 | items of the file, end of `Load`, the memory of the title |
| `pkg_recv_body` | as `pkg_recv` | | finding: a packet with a body is never delivered |
| `process_cycle_suspend` | as `process_cycle` | | finding: a `SIGHUP` from a process ends the master inside its handler |
| `log_past_last` | as `log` | | finding: the point of a float is written at `last` |

Why the bounds are enough for what they show:

* ThreadPool: two threads at a message and a third asleep, or two asleep and one
  that steals the message another was woken for, need three threads and two
  messages; the null pointer comes before, between or after them. More messages repeat the
  same list positions.
* PkgRecv: `Lens` has a value below, at and above each of the three limits in
  `proc_head`; the sizes of the headers and of `dataHeadInfo` are the real ones
  (8, 16, 20). Only 30000 - 1000 is scaled down, to 20. `PkgRecvProofs` removes
  the bounds.
* ConnPool: two objects besides the listener and a limit of three make the pool
  grow, refuse, recycle and reuse; `iCurrsequence` to 5 is two uses of an object
  and the start of a third. The waiting time of 60 seconds is one tick: only
  "before" and "at its end" matter. `ConnPoolProofs` removes the bounds for all but
  `GivenUpIsFreed`.
* SendQueue: both limits (50000 and 400 in the code) are reached with four
  messages, so that the drop and the cut-off happen, and the scan finds three
  messages in the list at once, so that one passed over can be overtaken. With two
  objects and limits of 1 and 0 the safety properties hold as well (1.9 million
  states). `SendQueueProofs` removes the bounds for the safety properties.
* Descriptors: a number changes hands between two clients, with a stale event, a stale
  number in the send thread, in the write handler or in `ClosesocketProc`, and a late reset of
  `fd` each possible; a third client
  repeats the second. Two numbers are one more than a hand-over needs, so that two
  clients are also connected at once. `DescriptorsProofs` removes the bounds for
  both safety properties.
* ProcessCycle: workers do not act on each other, so two (one forked, one not yet)
  give all there is; three signals let one come before, during and after another
  one's handling. `MainProofs` removes the bounds for `ProcessesConsistent`.
* LogicSocket: bodies of the 8 bytes that line 77 confuses with none, and of fewer; the
  definition the sum is compared with gives the published check value (`MCLogicSocket`).
  `LogicSocketProofs` removes the bounds for all three properties.
* Log: a buffer of 9 behind prefixes of 1 and 2 is filled by two or three parts to every
  place around its end; what `last - 1`, the errno and the newline do there is the same
  at 2048. Numbers of four digits at most stand for those of twenty.
  `LogProofs` removes the bounds for all four properties.
* Startup: lines of every kind `Load` tells apart, one longer than the buffer and one
  with a name longer than its field; two of them make a file whose last line ends or
  does not. `MainProofs` removes the bounds for both safety properties.

`CHECK_DEADLOCK FALSE` is set everywhere: the process may exit or be killed, and
each bound (messages posted, sequence numbers, calls of `sendMsg`) ends the
model's behaviours where the program would go on.

### Fairness

* ThreadPool: the operating system runs each thread that can run, and the
  event-loop thread finishes the calls it is in. The mutex need not be fair.
  Spurious wake-ups are allowed, but only finitely many: else a thread could be
  woken for ever without need. Nothing obliges a client to send or the program
  to stop.
* ConnPool: the recycle thread runs, and time passes.
* SendQueue: the send thread runs and the write handler finishes; EPOLLOUT of a
  client that has not hung up, and reads, comes again and again (strong fairness, because a full
  socket buffer takes it away between).
* Descriptors: the event loop runs, and a thread finishes the call it is inside of. Nothing
  makes a client act or the business logic call `sendMsg`.
* ProcessCycle: a process runs until it has set itself up or waits; a signal that
  is pending and not blocked is delivered.
* Startup: `Load` goes on. PkgRecv, LogicSocket and Log have no liveness.

### Properties worth knowing about

* `WakeupPerMessage`: while a thread sleeps, at least as many threads are awake
  as messages are in the list, counting the signal on its way. It is why
  signalling after the unlock is safe here.
* `StampMeansSameUse`: what comparing sequence numbers shows. It does not show that the
  client is still connected, although `zhy_socket.h:81` says so: `ClosesocketProc` does
  not change the number.
* `OneWriter`: for clients that only read, the flag `iThrowsendCount` is a lock. It
  ceases to be one for a client that has sent a FIN: `zhy_socket.cpp:329` takes the flag
  down with every EPOLLOUT, to below 0, with the rest of a message unsent.
* `AllLookedAt`: the exact guarantee of the semaphore. Messages passed over
  because their connection was busy wait for the next `sendMsg`: no post follows
  when the event loop has finished the one before, and a later message of the same
  client may overtake one passed over (`zhy_socket_conn.cpp:288`).
* `OwnSocketOnly`: resetting `fd` to -1 protects against stale events, in the write handler
  too, but not against another thread in the same object. The property says by which race
  each call may meet another client's socket. The event loop is exposed to less than the
  others: it alone accepts, so a number closed under it (`late`) belongs to nobody yet.
* `GivenUpIsFreed` holds for an allocator that leaves freed nodes alone, both passes of the
  recycle thread included; for that of the platform it says that the process ends.
* `NoneLost`: a message for a client that only reads is freed when `sendMsg` refuses it, or
  with its last piece on the wire, and at no other time.
* `SoundHandledUnlessStale`: a packet that was given up before the numbers are compared is
  never handled (between the comparison and the call of the handler it may be, and still is),
  and a sound one is dropped for nothing else, but for line 77: a body of exactly 8 bytes is
  taken for none, and dropped when its sum is not 0.
* `TextExact`: the text meant, digit for digit; a negative integer in it costs exactly the
  signs of the integers.
* `PastLastByPoint` and `FaultByArgument` say that the ways the log goes wrong are the
  known ones and no others.

## Observations

Other places where the code does not do what its comments say, or what it seems meant to
do; the models have them as the code does. Each property above is stated so that it holds
with them.

* `zhy_threadpool.h:15`: `StopAll` cannot end a thread: the loop of `ThreadFunc` has no
  way out, and after `m_shutdown` the threads use the list without the mutex.
* `zhy_socket.request.cpp:44`: a header that arrives in two pieces goes to `proc_total`,
  which posts a null pointer (`Nulls` in ThreadPool).
* `zhy_socket_conn.cpp:178`: the loop goes on from an iterator it has erased. With glibc the
  worker ends with the first connection it recycles.
* `zhy_socket.cpp:370`: `ClosesocketProc` has no lock, although threads of the business logic
  and the event loop call it: it may close another client's socket.
* `zhy_socket.cpp:329`: an EPOLLOUT with a hang-up counts `iThrowsendCount` down, with the rest
  of a message unsent.
* `zhy_signal.cpp:63`: `return 0` inside the loop registers `SIGHUP` only; children that
  end stay zombies, and `zhy_reap` is never set.
* `zhy_slogic.cpp:77`: the wrong header's length: a sound packet with a body of 8 bytes is
  dropped, although the comment speaks of packets of a header only.
* `zhy_crc32.cpp`: `CCRC32::GetInstance` makes its object at the first call, without a lock,
  from any thread of the pool. LogicSocket starts with the table computed.
* `zhy_print.cpp:157`: the sign of a negative `%d` is written over by the fill or the first
  digit, although line 59 calls the conversion signed.
* `zhy_log.cpp:157`: the file name is replaced when there is one, and NULL is opened when
  there is none; the report then prints NULL with `%s`. `main` without a configuration
  file ends that way.
* `zhy_conf.cpp:71`: a name of 50 characters or more runs into the content behind it.
* `zhy_nginx.cpp:39`: `strlen(argv[i] + 1)` for `strlen(argv[i]) + 1`.
* `zhy_nginx.conf` has `Sock_RecyConnectionWaitTime`, which `ReadConf` does not read.

## Proofs

`PkgRecvProofs` proves, for all sizes of the two headers and the buffer with
`LenPkgHeader < LenMsgHeader <= DataBufSize`, any largest legal length, any set
of lengths and any number of clients, what `pkg_recv` checks for one instance:
`TypeOK`, `WriteInBounds`, `BufferWhileBody`, `NoBufferLost`, `StampIsCurrent`
and `ZeroReadOnlyAfterShort`.

None of these is inductive as it stands: that a read stays in bounds depends on
what is left to read in states where the bound is not near. `IInv` adds the
shape of the window: outside a body it is in `dataHeadInfo` and ends exactly
after a packet header or a message header; while a body is awaited it is the
message after its two headers; and in a free object no buffer is held. The proof
has one lemma for the life of the object, one for a complete header (the length
it spells decides between the two shapes), one for the other reads, one for the
closing ones. That `DataBufSize` is at least `LenMsgHeader` is what the re-read
after a short packet needs: with a smaller `_DATA_BUFSIZE_` it would overflow.

`ThreadPoolProofs` proves, for any finite set of threads and any set of messages,
null pointers among them, the safety properties of `thread_pool`: `TypeOK`, `LockDiscipline`,
`ListMatchesBranch`, `EachMessageOnce` and `WakeupPerMessage`. The invariant `IInv`
has three parts, all of them until `m_shutdown` is set: `Locked` (who holds the
mutex, and that nobody is on the unlocked stretch), `Branch` (what a thread past the
test knows of the list) and `Apart` (where each message is, without cardinalities,
which the provers handle badly; a lemma turns it into `EachMessageOnce`). `Branch`
needs `Locked` (the list only changes when nobody is past the test), and `Apart`
needs `Branch`. The two counts come on top. `WakeupPerMessage` is preserved because
a thread goes to sleep only with the list empty (`Branch`), and each message more is
paid for by the signal that follows it.

That the pool implements `JobQueue` (`ImplementsQueue`) follows from the same invariant:
each disjunct of `Next` is one step of the queue under the refinement mapping, or leaves
it as it is. Only `Take` and `Finish` need the invariant, to know that the list is not
empty and that a message is in the hands of one thread.

`ConnPoolProofs` proves all of ConnPool's safety, for any number of worker connections, any
factor, any ports, any number of uses and any waiting time. There are two invariants.

* `IInv` is for `StampMeansSameUse`: it adds that a stamp is never above the number of its
  object. Numbers never fall, and whatever takes an object out of use
  (`inRecyConnectQueue`) or hands it out (`HandOut`) raises its number, so that a stamp
  that is still equal was taken in the present use.
* `PoolInv` is for the rest. `Apart` says where each object is: with a listening port, in
  use, in the hand of a thread (`Moving`), free (`Freed`) or in the recycle list
  (`Waiting`), in one of them and once. Cardinalities come in only afterwards, in one lemma
  (`PlacesAddUp`) that turns the partition into `PoolConsistent`. `Hands` ties `newc` and
  `p_Conn` to the stretch of code the thread is on, which is what lets the step that puts an
  object back know that it is in no list. `Limit` carries the test of `zhy_event_accept`,
  made without the mutex, to `zhy_get_connection`: in between the free list only grows,
  because nobody else takes from it. `Closed` gives `NoSocketLost`: an object is closed
  before it gets into the recycle thread's hands, too. `Ripe` gives the action property
  `NotReusedEarly`: `due`, computed before the mutex is taken, stays true of the objects in
  it until the scan ends, since nothing joins the list in `due`.

`SendQueueProofs` proves the four safety properties of SendQueue, for any finite set of
connections, any number of messages, pieces, uses and any limits. `SendInv` has nine parts.
The key is `AtWork`: for a client that only reads (`Calm`), `Writing` says that
`iThrowsendCount` is 0 or 1 and, between two messages, is 1 exactly when the event loop has
the rest of a message and EPOLLOUT; that it is already 1 when the send thread is about to
register EPOLLOUT, and still 1 when the handler has freed the message and not counted down.
That is the flag used as a lock, and `OneWriter` follows. `Sockets` and `Hands` say which
sockets and objects this is about. On it rests `Pieces`: the wire of such a client is a chain
of whole messages that ends with as many pieces of the message in `psendMemPointer` as
`isendlen` says are gone, or with a finished message when there is none. A write extends it
(`WriteExtends`); that the message taken next is not on the wire yet needs `Taken` (what is
written or being written is not in the list) and `Numbers` (no message is in it twice). `Kept`
is the second half of `NoneLost`: a message leaves `psendMemPointer` only with its last piece on
the wire. `QueueCounted`, the counters, needs `Numbers` again: when
an object is reused `iSendCount` starts at 0, and no message in the list carries the new
number, because stamps of an earlier use are smaller. Everything `Calm` is stated for holds
through cut-offs, hang-ups and reuse of the object because these end the calm.

`Writers` is the frame lemma of that module: for each variable the actions that write it. The
parts are proved from it one by one, each against the few actions that can disturb it.

`DescriptorsProofs` proves `TypeOK`, `NoDescriptorLost` and `OwnSocketOnly` for any clients and
numbers. Its first invariant adds that objects nobody was accepted for have no number, that
threads and messages only name accepted clients, and what a thread in `ClosesocketProc`
knows: before its `close` the number it holds is that of its object or the client's socket
is closed already, and before the reset it is closed. That goes through whatever the races:
closing twice may close the wrong socket, but it loses none.

`OwnInv` is about the clients that are not `robbed`. A number in a field is the client's own
socket except between `close` and the reset (`FieldOwned`), and a number a thread has loaded
without a race is the socket of its object or closed (`NumberOwn`); one that was closed `late`
under the event loop belongs to nobody until the loop itself accepts again. Neither is
inductive alone: what is loaded is right because of the field, and a `close` takes the number
from one object only, or robs a client, because of what the closing thread has loaded. The
proof is one frame lemma for the steps that call nothing, and one lemma each for closing,
accepting and the calls.

`LogicSocketProofs` proves the safety properties of LogicSocket. For `SoundHandledUnlessStale`
(`SoundPackets`) the invariant ties the numbers to whether the connection was given up, and
`Get_CRC` is not expanded: that theorem holds whatever the sum is, for bodies of any length,
the 8 bytes of line 77 included, which are its one exception. `OnlyIntactHandled`, for bodies of any
length, is about the sum itself: a body with one byte changed has another sum
(`ChangeDetected`). A turn of the table's inner loop loses nothing (the lowest bit of the
result tells what left at the top), so the eight turns are injective (`ReducedInjective`) and
the entries of the table differ; they differ even in their top eight bits
(`TableInjective`), which `crc >> 8` leaves alone. Hence a turn of `Get_CRC`
is injective in the sum for a given byte, and in the byte for a given sum
(`AbsorbInjective`): the sums agree up to the changed byte, and differ after it and for ever.

`CrcIsRemainder`, for buffers of any length, is `SumIsRemainder`. Its invariant is about the
long division: when it has come past the first `i` bytes, what is left is the sum after `i`
turns of `Get_CRC`, with its bits in the opposite order, on top of the bytes behind. One turn of the
division is one turn of `Init_CRC32_Table` on the word at the top (`SubtractWord`), eight of
them are an entry of the table (`SubtractByte`); that the table may be looked up with the top
byte alone, and the rest of the sum shifted past it, is that the eight turns are linear
(`ReducedLinear`, `AbsorbReflected`).

To the provers a recursive function is a CHOOSE, so that there is such a function has to be
proved first (`IterationExists`, for any iterated step). The induction over the turns and
the bytes is `SetInduction`, about a set of numbers that holds 0 and each successor,
from the well-foundedness of the natural numbers.

`MainProofs` proves the safety properties of Startup and of ProcessCycle.

`ItemsListed` is `ItemsOfFile` for any file of any length, any size of the buffer and of a
name. The property looks at the whole file, `Load` at one buffer after the other. The
invariant `Reading` puts them together: what is left of the file begins a line, and what is
gone (`Gone` characters) is in the list, item for item (`Listed(Gone)`). That it is kept has
two sides. Of one line, that the buffer makes the item the file means (`BufferItems`): the
code cuts the end of the line, splits it at the first `=`, and cuts each half at its end
and then at its beginning, which leaves the part between the blanks (`TrimsToCore`),
wherever they are; and that the line end in the buffer, or its absence in the last line,
makes no difference. Of the list, that the line just read is the only one that begins among
the characters taken (`NextItems`), so that the items up to there are one more, or as many
(`ListGrows`); the property counts by cardinalities, in order to say *once* and *in this
order* without a recursive selection. Lines that do not fit end the promise; types and what
`eof` says are kept all the same.

`MemorySpared` is `TitleSparesMemory`. Its invariant `Moved` is short; what it rests on is
arithmetic: `g_argvneedmem`, one byte short for each argument, is not more than the bytes of
`argv` when no argument is empty (`NeedFits`). `FoldLeft` is defined by recursion over the
places of the sequence, so the sums are first shown to exist and to be determined by how they
grow (`SumsExist`, `SumIs`), and then compared place by place (`LessSum`). With an empty
argument the sum may be more, which is why the property makes an exception of it.

`HandlersKnow` is `ProcessesConsistent`, for any number of workers and signals. The
invariant ties the mask and `zhy_process` of a worker to its phase: from `fork` until
`zhy_worker_process_init` its signals are blocked, and it is marked before that.

`LogProofs` proves the four properties of Log for a buffer of any size, any prefixes, and
calls with any formats and arguments, as long as the prefixes leave room for a line
(`LogAssumption`). `IInv` has, besides types and the bound (`Bounded`), one part that matters,
`Exact`. A text is `Known` while it is meant at all (its arguments match) and is not a line
with a `%` that is used as a format. While it is, the format left is what comes behind the
first `k` parts, the arguments left are those that come behind the ones these parts took, and
the buffer is what is in front of the line with the texts of the `k` parts behind it, cut at
`last` (`Printed`). A turn of the loop adds one text (`NextTurn`), and what the cases of
`zhy_vslprintf` write is in each of them that text, cut at `last`: `NumberExact` for the fill
and the digits, `FloatExact` for sign, integer part, point and decimals, `CutFull` and
`CutConcat` because cutting at each turn is cutting at the end. `Exact` is about `bare`, which has
no sign of an integer; `Signs` ties it to `want`: the two are the same until an integer is
negative, and `Made` is `bare` throughout.
`NextArg` is the arguments' side: as many are gone as the parts behind took, so that the next one is of the kind its
conversion asks for, and `FaultByArgument` follows. `TextExact` is `Exact` when the format is
used up, or the buffer full; `LineWhole` is `TextExact` with the errno and the newline. When
the line of `zhy_log_stderr` becomes the format of `zhy_log_error_core`, each of its
characters is a part of its own (`LineText`), so that `Exact` holds again from the start.

The texts of the parts are put together by `FlattenSeq`, which is recursive: that it exists,
and gains one text with each part (`TextGrows`), is shown by induction over the number of
parts, as for `Get_CRC` above (`Flattened`). `Chars` has the literals of the module besides
`STRING`, because the provers do not know that a literal is a string.

All proofs assume only what the modules' `ASSUME`s say of the constants. The
invariants hold of the program in so far as the models' steps are the program's: what
the standard library does outside its contract (an unlocked `std::list`, a second
`delete`) is modelled as described above.

Not proved, only model-checked: the liveness properties, which rest on fairness and with it
on ENABLED, beyond the provers used here. All the invariants and action properties of the
passing runs, and the refinement, are theorems.

## Not modelled, and planned

Next: refinements of the send path and of the pool of connections to abstract
specifications of their own, for which the invariants proved are the groundwork.

Left out for good:

* the `waitpid` loop (only the handler of SIGCHLD calls it, which is never registered) and
  `zhy_daemon` (sequential, no caller);
* the first calls of `GetInstance` of the singletons, which are not guarded against one
  another (`CCRC32` among them);
* `Initialize`, `ReadConf` and the listening sockets: no caller in the repository, and
  nothing concurrent; `Initialize_subproc` creates what the other modules start from;
* `clearConnection`, `Shutdown_subproc` and `clearMsgRecvQueue`: behind an endless loop, or
  in the destructor of a global of a process that does not return from it;
* `zhy_sock_ntop` (no caller) and the test programs;
* the case of hexadecimal digits and the width of the C integers in `zhy_vslprintf`, date
  and process number of a log line, `atoi` in `GetIntDefault`.
