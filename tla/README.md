# Specifications of the SocketC programs

TLA+ specifications, TLC models and TLAPS proofs for the network programs of this
repository, and for three concurrent parts of the libraries kept with them: the scheduler
and the strand of Boost.Asio, and a read-write lock. Paths below are relative to `src/20251106-SocketC/src/` unless they start
with `src/`.

## 1. The system and its parts

| Part | State | Operations | What is hard about it |
|---|---|---|---|
| ServerV4, `server/prethread_server_user_schedule.c` | ring `clifd`, `iget`, `iput`, `clifd_mutex`, `clifd_cond`, `tptr[].thread_count` | main: accept, store, signal; pool thread: wait, take, count, serve, close; `sig_int` | lost wakeups, full ring, ownership of descriptors, handler against running threads |
| ServerV3, `server/prethread_server_kernel_schedule.c` | `mlock`, `tptr[].thread_count` | pool thread: lock, accept, unlock, count, serve, close; `sig_int` | blocking in accept with the mutex held, ownership |
| Web client, `client/thread-client.c` | `file[].f_flags`, `nconn`, `nlefttoconn`, `nlefttoread`, `ndone`, `ndone_mutex`, `ndone_cond` | main: create, wait, join; thread: connect, write, read, report | flags written outside the lock, join with the mutex held |
| Wrappers, `wrap*.c`, `signal.c`, `error.c`, `thread/wrappthread.c` | none of their own | one per library call; every error ends in `err_sys` or `err_quit` | an error in one thread ends the process |
| ServerV1, `server/fork-server.c` | descriptors of parent and children, children not yet reaped | accept, fork, echo, `sig_chld` | descriptor counts over fork, SIGCHLD that are merged, `syslog` in a handler |
| ServerV2, `server/threads-server.c` | one thread per client, heap cell with its descriptor | accept, `doit`, echo | the descriptor passed to the thread |
| ServerV5, `server/coroutine_tasks_server.cpp` | acceptor, one `tcp::socket` per client, moved into a detached thread (despite its name the program has no coroutines) | accept loop, `doit`, `str_echo` | exceptions: on main they are caught, on a session's thread they are not |
| Echo client, `client/echo_client.c` | socket, `fp` | `copyto`, `str_cli` | half close, buffers in both directions |
| Daytime pair, `client/main.c`, `server/iterative-server.c` | socket | accept, send, close; receive until end of file | reads split anywhere |
| Messages, `src/IPC/mesg_*.c` | pipe | send, receive | framing |
| Test client, `src/20251113-CraieLibProject/main.cpp` | `g_running`, `previousState`, `hasPrevious`, `lastWriteTime` | file watcher, dispatch of commands, poller, Ctrl+C | a file that changes while it is read, differences over many loads, shutdown of two threads |
| Reactor server | none | prints a line | - |
| Scheduler of Boost.Asio, `scheduler.ipp`, `posix_event.hpp` | `op_queue_`, `outstanding_work_`, `wakeup_event_`, `task_interrupted_`, a private queue and count per thread | `run`, post, defer, work guards, stop; the reactor as a task | one wake-up per operation, a count in several pieces, handlers that throw |
| Strand of Boost.Asio, `strand_executor_service` | `locked_`, `waiting_queue_`, `ready_queue_` | enqueue, invoker, `on_invoker_exit`, dispatch, shutdown | one handler at a time over any executor, a queue used without its mutex |
| Read-write lock, `src/unpv22e/my_rwlock_cancel` | mutex, two condition variables, three counters | lock, try, unlock, cancellation of a waiter | writers first, cleanup of a cancelled waiter, sleepers beside a free lock |
| The rest of Boost.Asio, JSON header, the rest of the UNP sources | - | third-party code | - |

The programs are separate processes and meet only through sockets: the echo client with
ServerV1 and ServerV2, the web client with any HTTP server. Inside a program the threads,
child processes and signal handlers interact through the state in the table. Every
wrapper turns an error of its call into `err_sys` or `err_quit`, which ends the whole
process; the models therefore have a `status` that records why the process has ended.

A strand submits its invoker to an executor. With an `io_context` that executor is the
scheduler, whose threads run the invoker like any other operation; `AsioPool` composes the
two, and `AsioPoolStrand` states what comes out. The paths of Boost.Asio are under `src/20251411-SocketC++/Boost-Asio/include/asio/`.
ServerV5 uses Boost.Asio's blocking calls only, so `AsioServer` and `AsioPool` share no
state.

## 2. Modules

| Module | Models | Notes |
|---|---|---|
| `PrethreadBase` | what ServerV3 and ServerV4 share: `thread_make`, the counter, `web_child`, `Close`, `sig_int`; TCP's backlog and the clients | extended by the two servers |
| `PrethreadUser` | ServerV4: main puts descriptors into the ring, threads take them | |
| `PrethreadKernel` | ServerV3: threads accept under `mlock` | |
| `Dispatch` | the abstract service: connections wait, are taken in arrival order by a worker, and finish once | both servers implement it |
| `WebClient` | the threaded web client | |
| `ForkServer` | ServerV1, with the lock inside `syslog()` | |
| `EchoSystem` | an echo session end to end: both threads of the client, TCP, `str_echo` | `MCEchoSystem` enumerates the inputs |
| `ThreadsServer` | ServerV2: heap cells and `doit` | |
| `AsioServer` | ServerV5 | |
| `CraieClient` | the CraieLib test client | `MCCraieClient` gives the command files |
| `RwLock` | the read-write lock with cancellation | |
| `AsioScheduler` | the operations of the scheduler, without a next-state relation of its own | extended by `AsioPool` |
| `StrandService` | the functions of `strand_executor_service` on the state of one strand | extended by `AsioStrand` and `AsioPool` |
| `AsioStrand` | a strand over any executor | |
| `SerialExecutor` | the abstract strand: one handler at a time, in order of submission | implemented by `AsioStrand` |
| `AsioPool` | a strand on the threads of the scheduler, with clients and handlers that post, defer, dispatch and throw | |
| `AsioPoolStrand` | what the users of such a strand may count on, and the fairness of the pool | instantiates `AsioStrand` with a refinement mapping |
| `*_proofs` | lemmas and theorems about the module they are named after | |

### How state and actions correspond to the code

- A thread's, process's or handler's position is a variable (`mpc`, `tpc`, `ppc`, `hpc`,
  ...). There is one action per call that can block or that others can observe. Statements
  between two such calls belong to the action before or after them.
- Mutexes hold their owner. `pthread_cond_wait` releases the mutex and enters the set of
  waiters in one step, as POSIX promises; a woken thread takes the mutex again in a step of
  its own; spurious wakeups happen.
- A signal handler runs on the stack of the thread it interrupts: that thread makes no
  step meanwhile. In ServerV3 and ServerV4 it may be any thread; SIGCHLD in ServerV1 is a
  flag, because pending signals are merged.
- A descriptor is named by its connection. `fork` copies the parent's set of descriptors.
- `syslog()` takes a lock of the C library. Where a handler calls it (ServerV1, the test
  client) the lock is part of the model: a handler that interrupts its own thread inside
  `syslog()` waits for ever. Elsewhere logging is left out.
- Requests and replies of the HTTP programs are not modelled byte by byte: a session ends
  normally, or in an error that ends the process (`BadConns`). The echo programs are
  modelled byte by byte, with every way TCP may cut the stream.
- In `EchoSystem` a failure of the server is any of: an error of `recv`, an error in
  `Send`, or being killed. When the server's socket is closed with unread bytes TCP sends
  a reset, which discards what the client has not read.
- In `CraieClient` a value of the command file is one of four classes (two usable ones, a
  void one, one of a wrong type). The library is what it was last handed for each key. The
  writer may change the file at once, leave it half written, or remove it.

- In `RwLock` everything between the return of `pthread_mutex_lock` and the next wait or
  unlock is one step, because all of the lock's state is under `rw_mutex`. A thread is
  cancelled only in `pthread_cond_wait`, the one cancellation point of these functions. It
  gets the mutex back before its cleanup handler runs, and consumes no signal (POSIX).
- In `AsioScheduler` what is done under `mutex_` is one step. The condition variable is
  signalled after the unlock, as `posix_event` does it, in a step of its own (`Signal`).
  The atomic `outstanding_work_` is changed outside the mutex. `state_` has the code's
  encoding: a low bit, and two for every waiter. The reactor blocks until `interrupt`, or
  returns for an event that yields no operation (`ReactorEvent`).
- An invoker of a strand is named by the handler whose submission made it. In `AsioPool`
  its place is read off the scheduler's state (`InvokerAt`), and a new invoker counts
  twice as work: the operation, and the tracked executor inside it. The copies of that
  executor which `on_invoker_exit` makes and destroys within one call are left out; they
  cannot bring the count to zero.

Definitions whose comment begins with "Mutation" or "Mutant" are deliberate faults. They
are not part of any specification; they show that the properties can fail.

## 3. Runs

| Run | Property | Statement |
|---|---|---|
| `user_ring` | `OneOwner` | every open descriptor is in one place: main, one ring slot, or one thread |
| | `NoLostWakeup` | with descriptors in the ring, enough threads are awake or a signal is due |
| | `CountsMatch` | `thread_count` adds up to the connections taken |
| | `DispatchSpec` | the server implements `Dispatch`: main and the ring keep the order in which `accept` returned the connections |
| | `EveryClientServed` | every connection is finally served, unless the process ends |
| `kernel_accept` | `OneAcceptor`, `OneOwner`, `CountsMatch`, `EveryClientServed` | the same for ServerV3, with one thread at most in `accept` |
| `web_counters` | `NoLostWakeup` | main does not sleep through a report |
| | `EachFileOnce` | flags, counters and threads agree; no file gets two threads |
| `fork_children` | `OwnDescriptors` | no process has a copy of a connection it does not serve |
| | `NoForgottenZombie` | merged SIGCHLDs leave no zombie without a pending signal or a running loop |
| | `FinReachesClient` | a client that closes sees the server's side closed |
| `echo_session` | `StreamConserved` | typed = printed plus all buffers, in order |
| | `ExitLosesNothing` | `exit(0)` of the client cuts nothing off |
| | `SessionEnds` | client and server do not block each other for ever |
| `asio_sessions` | `SocketsOwned` | no exception path leaks a socket or closes one in use |
| | `EveryClientLeaves` | every client is finally taken and its socket closed |
| `craie_commands` | `LibraryInStep` | at the end of a load the library has what the file asks for, also after loads that were cut off |
| | `FileTakenUp` | a content that stays is taken up, also when written during a load |
| `rwlock_cancel` | `Exclusion` | a writer is alone, readers share, `rw_refcount` says which, unlock never dumps |
| | `QuietLockIsFree` | a lock nobody uses has its counters at zero, whoever was cancelled |
| | `NoForgottenWaiter` | nobody sleeps beside a free lock with no one on the way to it |
| | `WritersFirst` | no read lock is given while a writer waits |
| | `FreeLockIsTaken` | a free lock with sleepers is finally taken |
| `asio_strand` | `WorkCounted` | the pieces of the work count add up to the work there is |
| | `RunsUntilDone` | when the scheduler stops by itself every submitted handler has run |
| | `NoLostWakeup` | no thread sleeps beside a queued operation that nobody is on the way to |
| | `StrandSpec` | the scheduler is an executor as `AsioStrand` requires one |
| | `SerialSpec` | on the pool, the strand's handlers run one at a time, in order, each once |
| | `EveryHandlerRuns` | every submitted handler finally runs, unless one throws |
| | `RunReturns` | `run()` returns on every thread once the work guards are gone |

All hold. `user_ring`, `echo_session`, `asio_sessions`, `craie_commands` and `asio_strand`
also check their module's `TypeOK`; for the other modules, and for ServerV4, type
correctness is a theorem.

Three runs show a disagreement between the code and its own comments:

- `web_join` (`JoinWaitsForNotified`): `do_get_read` sets `F_DONE` before it takes
  `ndone_mutex`, and main joins every thread with that flag while it holds the mutex. Main
  and the thread then wait for each other (`client/thread-client.c:170`, `:130`).
- `fork_reap` (`AllReaped`): `sig_chld` calls `syslog()`. When it interrupts main inside
  `syslog()` the parent hangs, and later zombies stay (`server/fork-server.c:164`). That
  `FinReachesClient` still holds shows that running sessions do not suffer.
- `threads_cast` (`ServesItsClient`): `doit` uses the pointer to the heap cell as if it
  were the descriptor stored there (`server/threads-server.c:140`).

More is visible in the models and has no run, because a property would only restate one
action or because the repository states no intent:

- The web client updates nothing after a join, so its next pass joins the same thread
  again (`JoinThread`, status "bad join").
- In ServerV5 `boost::asio::write` throws on a thread that catches nothing
  (`server/coroutine_tasks_server.cpp:120`), and the process terminates with all other
  sessions (`ThreadWrites`); the log text of the same loop says "Stop this thread".
- Ctrl+C never stops the test client as its comments say ("cleanly stop",
  `src/20251113-CraieLibProject/main.cpp:192`; "clean shutdown", `:358`). `main` returns
  with `watchThread` joinable, which is `std::terminate` on every execution
  (`MainReturns`), and a signal that interrupts `syslog()` leaves that thread waiting for
  its own lock, with `g_running` still set (`HandleSigint`, `stuck`). No property about
  the end of the program is checked.
- A value of a wrong type cuts a load of the test client off after some commands were sent
  and before `previousState` is updated. `LibraryInStep` shows that the commands which were
  not reached are not lost: the next load that has them sends them. A change that was sent,
  and that the next file takes back, is not undone, because the file is compared with the
  older content. The property names that case (`TakenBack`) and fails without it. Its other
  exception is the first load, which sends `poi_list` only: the other values of that file
  are sent when they have changed (`AsAtFirst`). Both are stated on history variables
  (`first`, `loaded`, `cut`), not on the program's `previousState` and `hasPrevious`.
- In the prethreaded servers any failed session or `accept` ends the process, whatever the
  other threads are doing (`WebChildExits`, `AcceptError`). `Dispatch` allows the end of
  the process at any time (`Halt`), and `EveryClientServed` excepts it.
- In the read-write lock, `unlock` may signal a writer that has been cancelled and is
  still counted. `rwlock_cancelwrwait` then wakes nobody, and readers that waited for that
  writer sleep beside a free lock until another thread locks and unlocks it.
  `NoForgottenWaiter` and `FreeLockIsTaken` name that case (`WriterCancelled`).
- In the scheduler, `work_cleanup` pushes the continuations of a handler that throws and
  wakes nobody (`scheduler.ipp:100`). They wait until the thread calls `run()` again or
  another operation is posted. `NoLostWakeup` names that case (`Thrown`).

### Bounds

| Run | Instance | Why it is enough to be interesting |
|---|---|---|
| `user_ring` | 2 connections, 2 threads, 2 slots, backlog 2 | the ring wraps and fills up (which ends the process), and both threads sleep, wake and overtake each other; safety and liveness in one run. A slot is stored into a second time only from a third connection on: with `Conns = {c1, c2, c3}` the same configuration also finishes without error (1,226,132 states, 4 to 8 minutes), and `OneOwner`, `NoLostWakeup` and the refinement are proved for every size |
| `kernel_accept` | 3 connections, 2 threads, backlog 2 | one thread serves while the other accepts, and the backlog fills |
| `web_counters`, `web_join` | 4 files, 3 at a time; 2 files | the limit of connections is reached before the last file |
| `fork_children`, `fork_reap` | 3 connections, one of which may be reset | two children end while the parent logs the third |
| `echo_session` | all inputs of up to 7 characters; `MAXLINE` 3, `BUFSIZE` 2, two bytes in each direction | the longest input exceeds what the connection and the server hold together (6 bytes), lines exceed `MAXLINE` |
| `asio_sessions` | 3 connections, queue of 2 | an exception while two other sessions run |
| `craie_commands` | 5 contents, 3 changes of the file, 2 frames | a key is sent, removed and put back with another value; a load is cut off, and the next file repeats what it did not reach or takes back what it sent |
| `threads_cast` | 2 connections, 2 cells | |
| `rwlock_cancel` | 3 threads, any calls in any order, any number of cancellations | a reader, a writer and a third of either kind; the counters need no bound |
| `asio_strand` | 2 pool threads, 1 client, 2 strand handlers, 1 plain handler | one thread sleeps in the event or the reactor while the other runs the invoker, the client and a handler submit to a locked strand, and any handler may throw. With two strand handlers `ready_queue_` never holds several at once: with `Handlers = {h1, h2, h3}` and `Plain = {}` it does, and the same configuration also finishes without error (127,662 states, 1 to 2 minutes). A private work count above 1 is covered by the theorems only |

Connections are established once per execution. The prethreaded servers and the test
client receive at most one SIGINT. `MaxWrites` bounds the changes of the command file, and
every change has a time stamp of its own: two writes within one tick of the file system's
clock, with the watcher's read between them, are outside the model. Deadlock is not
reported, because every program may end and an idle server waits in `accept`.

### Fairness

- Weak fairness for each thread, process and running handler: the operating system
  schedules what can run. In the test client it is the watcher's alone, which is all that
  `FileTakenUp` needs.
- A client finally closes its connection (`ClientHangup`), where a property is about a
  session's end. The code has no timeout; without this no session has to end.
- ServerV4: only finitely many spurious wakeups.
- ServerV5: strong fairness of `ThreadEnds`. A client sends finitely many bytes, so
  `read_some` finally reports the end of file.
- Read-write lock: weak fairness of every step inside a function, and strong fairness of
  `Lock`: no thread loses the race for `rw_mutex` for ever. Callers need not call anything,
  and a holder need not unlock.
- Scheduler: weak fairness for each thread in `run()`, in a handler or in a call that
  posts, and for a thread of the pool that has not called `run()` yet. Handlers end.
  Nothing is assumed of I/O events, of spurious wakeups, of clients that keep their work
  guard, or of a caller that would catch an exception and call `run()` again.
- No fairness for errors, resets, signals, or the writer of the command file.

## 4. Proofs

All theorems hold for every number of connections, threads, slots and files that the named
`ASSUME`s allow, and are checked by TLAPS without unproved steps.

- **ServerV4** (`PrethreadUser_proofs`): `TypeCorrect`, `OneOwnerHolds`,
  `NoLostWakeupHolds`, `CountsMatchHolds`. The inductive invariant adds to `OneOwner` who
  is in which critical section (`MutexInv`), that a thread past its test has seen a ring
  that is still empty or still not empty (`SeenInv`), that the waiters are those whose
  position says so (`WaitInv`), and that the backlog has no duplicates and nothing that is
  open (`BacklogInv`). `SeenInv` is what makes taking from the ring safe, and `MutexInv`
  is why `SeenInv` is stable. `NoLostWakeup` compares the entries of the ring with the
  threads awake; put, signal, take and falling asleep each have a lemma.
- **ServerV4 implements `Dispatch`** (`PrethreadUser_proofs`, theorem `Refinement`).
  The queue of `Dispatch` is mapped to the slots from `iget` on (`Ring`), the descriptor
  main has in hand, and the backlog, in this order. `RingPut` and `RingTake` show that a
  store appends to `Ring` and a take removes its head, around the end of the array and when
  the ring is full.
- **ServerV3** (`PrethreadKernel_proofs`): `TypeCorrect`, `OneAcceptorHolds`,
  `OneOwnerHolds`, `CountsMatchHolds`, and `Refinement`: every step is a step of `Dispatch`
  or changes nothing that `Dispatch` sees. Here the order of the connections is the
  kernel's (`AcceptInto`); what the theorem adds to `OneOwnerHolds` is that a connection
  goes from the backlog to an idle thread and from there only to its end. The module also has the lemmas on the
  counters that ServerV4 shares; `PrethreadUser_proofs` takes them by INSTANCE
  (`CountFactsHold`).
- **`CountsMatch` of both servers.** The counters are added up as the cardinality of the
  set of pairs of a thread and a number up to its `thread_count` (`Counted`). `SharedCounts`
  shows that no step the servers have in common changes what is `Accounted` for except by
  a new connection; the invariant adds that this set is finite and that what `sig_int` has
  printed is not ahead of the counters (`CountBase`). Each server adds what is on the way
  in its own hand-over: nothing in ServerV3, main's descriptor and the length of the ring
  in ServerV4.
- **Web client** (`WebClient_proofs`): `TypeCorrect`, `NoLostWakeupHolds`,
  `EachFileOnceHolds`. The invariant equates each counter with the cardinality of a set of
  threads (`CountInv`), which keeps the counters in range and rules out the branch
  "nothing found".
- **ServerV1** (`ForkServer_proofs`): `TypeCorrect`, `OwnDescriptorsHolds`,
  `NoForgottenZombieHolds`. The three properties together are inductive.
- **Echo session** (`EchoSystem_proofs`): `TypeCorrect`, `StreamConservedHolds`,
  `ExitLosesNothingHolds`, for every input, every size of the buffers and every way TCP
  may cut the stream.
  The invariant adds to the stream's equation what each position in the programs says about
  its buffer and about the two FINs (`ControlInv`): only so is an end of file on one side
  known to mean that nothing is left on the other. A failed server keeps the weaker half:
  what is printed is a prefix of what was typed.
- **Read-write lock** (`RwLock_proofs`): `TypesHold`, `ExclusionHolds`,
  `QuietLockIsFreeHolds`, `NoForgottenWaiterHolds`, `WritersFirstHolds`, for any finite set
  of threads. The invariant adds to `Exclusion` and `NoForgottenWaiter` who owns `rw_mutex`
  (`MutexInv`), in which function a thread can be at each position and with what in its
  hands (`FlowInv`), and that each counter of waiters is the cardinality of the set of
  threads that wait, are woken or are being cancelled (`CountInv`).
- **Strand** (`AsioStrand_proofs`): `SerialHolds`, `NotStrandedHolds` and `Refinement`
  (the strand implements `SerialExecutor`), over any executor and for any set of handlers.
  The invariant says that the strand is locked exactly while an invoker exists (`LockInv`),
  that only an invoker inside `run_ready_handlers` is in an upcall (`UpInv`), that
  `ready_queue_` is empty until the maker of the invoker has filled it (`QueueInv`), and
  that what is queued or runs was submitted (`KnownInv`).
- **Scheduler** (`AsioPool_proofs`): `TypeCorrect`, `WorkCountedHolds`,
  `RunsUntilDoneHolds`, `NoLostWakeupHolds`, for any finite sets of threads and clients and
  any sets of handlers.
  The invariant (`Inv`) has thirteen parts. `Types`, `Control`, `Throws`, `Reserve` and
  `Closed` say where a thread can be in its handler and what it can be posting there.
  `PlaceInv` says that the strand's invoker is in exactly one place while the strand is
  locked, and `TaskInv` the same of the reactor task. `StrandKeeps` and `PoolKeeps` follow
  every submitted handler until it is over. `CountInv` is `WorkCounted` with finite sets,
  `StopInv` says that nothing stops with work left; with `CountInv` a count of zero means
  that no operation, guard or invoker exists (`ZeroRight`), which gives `RunsUntilDone`.
  `EventInv` decodes `state_` into its bit and the number of waiters, and `WakeInv` is
  `NoLostWakeup` with what a thread in the reactor or on its way out of `wait` has still to
  find. A pass through `do_run_one` is analysed once, for its three ways in (`Passes`).
- **The scheduler as the strand's executor** (`AsioPool_proofs`): `StrandRefined` (every
  step of the pool is a step of `AsioStrand` or does nothing to it) and `SerialRefined`
  (the pool implements `SerialExecutor`). `AsioStrand`'s `inv` and `up` are read off the
  scheduler's state. `MapRight` shows from `PlaceInv` that the order of the cases in
  `InvokerAt` does not matter: the invoker is with one actor, in the queue or on one thread,
  never in two of them. `StrandDoes` then says, with one case for each action of the
  pool, which operation of the strand the action performs, and `OneMoves` carries the change
  of one invoker over to the functions. `StrandStep` recognises these operations as the
  actions of `AsioStrand`, and `SerialRefined` adds the `Refinement` of `AsioStrand_proofs`.
  The mapping is that of `AsioPoolStrand`, so these are the `StrandSpec` and `SerialSpec`
  that `asio_strand` checks.

Two modules count with a hypothesis `FiniteFacts`, the facts about cardinalities that the
lemmas use. `FiniteFactsHold` proves it from the library before the theorems; stating the
lemmas this way keeps the library out of their obligations, and no theorem has it as a
hypothesis.

Only model-checked:

- all liveness properties (`EveryClientServed`, `FinReachesClient`, `SessionEnds`,
  `EveryClientLeaves`, `FileTakenUp`, `FreeLockIsTaken`, `EveryHandlerRuns`,
  `RunReturns`): fairness and ENABLED are out of the prover's reach;
- the invariants of `AsioServer` (`TypeOK`, `SocketsOwned`) and of `CraieClient` (`TypeOK`,
  `LibraryInStep`): no inductive invariant has been worked out for them. `LibraryInStep`
  compares what a load has sent with the contents of several files, key by key;
- the three disagreements of section 3, which are counterexamples.

## 5. Not modelled

Almost all lines of the repository are third-party code: Boost.Asio, a JSON header and the
sources of a book are more than nine tenths of its 280,000 lines. What is modelled is the
repository's own programs, and of the third-party code the parts whose correctness is a
matter of interleavings. The mapped lines are therefore a small share of the whole. Most
of the rest has nothing a state machine would add to: templates and overload sets, the
same operation for Windows, kqueue, select and `io_uring`, generated or conditional
declarations, parsing and formatting, option tables, and short example programs.

- The bytes of HTTP requests and replies, and `web_child`'s use of `Readline` and `atol`.
  `atol`'s `long` is assigned to an `int` before the range test; the models only have that
  a request ends the session or the process.
- The daytime pair (`client/main.c`, `server/iterative-server.c`): one process without
  shared state on each side; TCP cutting the stream is in `EchoSystem`.
- The messages over a pipe (`src/IPC`): straight-line code, one write at one end and two
  reads at the other. (`Mesg_send` compares the number of bytes written, header included,
  with the length without it.)
- `CraieLib`, `VehicleInfo` and Qt, which are not in the repository; `send_json_file`,
  which nothing calls; what the library does with a call after `deinit_context`.
- Of the scheduler: `io_context::stop()` called by the user (`stop_all_threads` is modelled
  where the work count calls it), `poll`, `run_one`, `wait_one`, `restart`,
  `concurrency_hint` 1, its own thread; descriptors and timers in the reactor. Of the strand: `strand.defer`, `dispatch`
  from a pool thread outside the strand, and the table of mutexes that strands share.
- `pthread_rwlock_destroy`, `rw_magic` and the attributes of the read-write lock; the
  variant without cancellation (`my_rwlock`). An error of `pthread_mutex_lock` or
  `pthread_cond_wait`, which POSIX does not allow for a valid mutex and condition: after
  one of the wait, `pthread_rwlock_rdlock` and `pthread_rwlock_wrlock` (both `:35`)
  would leave their loop and return 0 without the lock.
- The message queues and semaphores of the book (`my_pxmsg_mmap`, `my_pxsem_*`).
- The reactor server, which only prints a line.
- Wrappers that no program above calls.

## 6. Plan

Done: the core (ServerV4, ServerV3, `Dispatch`, web client), then ServerV1, the echo
session, ServerV5, ServerV2 and the test client; then the refinement proof of ServerV4,
the read-write lock, and the scheduler and the strand of Boost.Asio with their composition;
then the proofs of the counters of both prethreaded servers, of the echo session, of the
scheduler, and of the refinement from the pool to the strand and its abstract executor.

Next, in this order:

1. The POSIX message queues and semaphores over mapped memory (`my_pxmsg_mmap`,
   `my_pxsem_mmap`): the race to create the file, and notification against a receiver.
2. Prove `SocketsOwned` for `AsioServer` and `LibraryInStep` for `CraieClient`.
3. The request algorithm of the prethreaded servers: `Readline`, and the conversion of the
   number the client asks for from `long` to `int`.
