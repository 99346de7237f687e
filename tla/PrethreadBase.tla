---------------------------- MODULE PrethreadBase ----------------------------
(***************************************************************************)
(* What the two prethreaded servers have in common: the listening socket   *)
(* and its clients, the creation of the pool, the per-connection session   *)
(* (web_child) and the SIGINT report.  PrethreadKernel (each thread calls   *)
(* accept under a mutex) and PrethreadUser (main accepts and hands         *)
(* descriptors over through a ring) extend this module.                    *)
(*                                                                         *)
(* Source: 20251106-SocketC/src/server/prethread_server_kernel_schedule.c  *)
(*         20251106-SocketC/src/server/prethread_server_user_schedule.c    *)
(*                                                                         *)
(* A connection and the server's descriptor for it are one value: a        *)
(* descriptor number names the connection from accept() to close().        *)
(***************************************************************************)
EXTENDS Integers, Sequences, FiniteSets

CONSTANTS
    NThreads,   \* nthreads, the last command-line argument
    Conns,      \* the client connections of one execution
    BadConns,   \* those on which web_child terminates the process
    NoConn,     \* an unset descriptor variable
    LISTENQ     \* backlog of the listening socket

ASSUME BaseAssumption ==
    /\ NThreads \in Nat
    /\ BadConns \subseteq Conns
    /\ NoConn \notin Conns
    /\ LISTENQ \in Nat

Threads == 0 .. NThreads - 1
Main    == NThreads              \* the initial thread
Nobody  == -1
Actors  == Threads \cup {Main}

VARIABLES
    status,        \* "up", or why the process has ended
    mpc,           \* where main is
    tpc,           \* where each pool thread is
    connfd,        \* the local variable connfd of main and of each thread
    thread_count,  \* tptr[i].thread_count
    backlog,       \* established connections not yet accepted, oldest first
    arrived,       \* connections some client has established
    hungup,        \* connections whose client has sent its FIN
    open,          \* connections for which the server holds a descriptor
    handler,       \* the thread on which sig_int is running, or Nobody
    report         \* the counters sig_int has printed so far

baseVars == <<status, mpc, tpc, connfd, thread_count, backlog, arrived, hungup,
              open, handler, report>>

Ends    == {"overflow", "request", "accept", "create", "close", "sigint", "killed"}
Holding == {"unlock", "count", "serve", "close"}   \* thread has a connection

BaseInit ==
    /\ status = "up"
    /\ mpc = "make"
    /\ tpc = [t \in Threads |-> "none"]
    /\ connfd = [a \in Actors |-> NoConn]
    /\ thread_count = [t \in Threads |-> 0]
    /\ backlog = <<>>
    /\ arrived = {}
    /\ hungup = {}
    /\ open = {}
    /\ handler = Nobody
    /\ report = <<>>

\* The process is running and actor a is not interrupted by the handler.
Runs(a) == status = "up" /\ handler # a
-----------------------------------------------------------------------------
(***************************************************************************)
(* The kernel and the clients.                                             *)
(***************************************************************************)
ClientConnect(c) ==
    /\ status = "up"
    /\ c \notin arrived
    /\ Len(backlog) < LISTENQ
    /\ arrived' = arrived \cup {c}
    /\ backlog' = Append(backlog, c)
    /\ UNCHANGED <<status, mpc, tpc, connfd, thread_count, hungup, open, handler, report>>

ClientHangup(c) ==
    /\ status = "up"
    /\ c \in arrived \ hungup
    /\ hungup' = hungup \cup {c}
    /\ UNCHANGED <<status, mpc, tpc, connfd, thread_count, backlog, arrived, open,
                   handler, report>>

\* accept(): an established connection becomes a descriptor of a; that it is the
\* oldest one is the kernel's doing.
AcceptInto(a) ==
    /\ backlog # <<>>
    /\ backlog' = Tail(backlog)
    /\ connfd' = [connfd EXCEPT ![a] = Head(backlog)]
    /\ open' = open \cup {Head(backlog)}

\* Accept(): every error, ECONNABORTED and EINTR too, ends in err_sys.
AcceptError ==
    /\ status' = "accept"
    /\ UNCHANGED <<mpc, tpc, connfd, thread_count, backlog, arrived, hungup, open,
                   handler, report>>
-----------------------------------------------------------------------------
(***************************************************************************)
(* main() up to its endless loop.                                          *)
(***************************************************************************)
\* thread_make(i): the thread may run before Pthread_create returns.
MakeThread(t) ==
    /\ Runs(Main)
    /\ mpc = "make"
    /\ tpc[t] = "none"
    /\ \A u \in Threads : u < t => tpc[u] # "none"
    /\ tpc' = [tpc EXCEPT ![t] = "lock"]
    /\ UNCHANGED <<status, mpc, connfd, thread_count, backlog, arrived, hungup, open,
                   handler, report>>

\* Pthread_create: a failure ends in err_sys.
MakeThreadFails ==
    /\ Runs(Main)
    /\ mpc = "make"
    /\ \E t \in Threads : tpc[t] = "none"
    /\ status' = "create"
    /\ UNCHANGED <<mpc, tpc, connfd, thread_count, backlog, arrived, hungup, open,
                   handler, report>>

\* All threads exist: main installs sig_int and enters its loop at pc.
EndMake(pc) ==
    /\ Runs(Main)
    /\ mpc = "make"
    /\ \A t \in Threads : tpc[t] # "none"
    /\ mpc' = pc
    /\ UNCHANGED <<status, tpc, connfd, thread_count, backlog, arrived, hungup, open,
                   handler, report>>
-----------------------------------------------------------------------------
(***************************************************************************)
(* A pool thread from the unlock to the end of its loop body.              *)
(***************************************************************************)
\* Mutation: the counter is set instead of incremented.
CountConnSet(t) ==
    /\ Runs(t)
    /\ tpc[t] = "count"
    /\ thread_count' = [thread_count EXCEPT ![t] = 1]
    /\ tpc' = [tpc EXCEPT ![t] = "serve"]
    /\ UNCHANGED <<status, mpc, connfd, backlog, arrived, hungup, open, handler, report>>

\* tptr[(int) arg].thread_count++, outside every lock.
CountConn(t) ==
    /\ Runs(t)
    /\ tpc[t] = "count"
    /\ thread_count' = [thread_count EXCEPT ![t] = @ + 1]
    /\ tpc' = [tpc EXCEPT ![t] = "serve"]
    /\ UNCHANGED <<status, mpc, connfd, backlog, arrived, hungup, open, handler, report>>

\* Mutation: web_child closes the descriptor that thread_main closes again.
WebChildCloses(t) ==
    /\ Runs(t)
    /\ tpc[t] = "serve"
    /\ connfd[t] \in hungup
    /\ tpc' = [tpc EXCEPT ![t] = "close"]
    /\ open' = open \ {connfd[t]}
    /\ UNCHANGED <<status, mpc, connfd, thread_count, backlog, arrived, hungup, handler,
                   report>>

\* web_child: Readline returns 0 once the client has closed its side.
WebChildReturns(t) ==
    /\ Runs(t)
    /\ tpc[t] = "serve"
    /\ connfd[t] \in hungup
    /\ tpc' = [tpc EXCEPT ![t] = "close"]
    /\ UNCHANGED <<status, mpc, connfd, thread_count, backlog, arrived, hungup, open,
                   handler, report>>

\* web_child: a request outside 1..MAXN is err_quit, a failed Recv or Writen is
\* err_sys; both call exit() and end the process, whatever the others are doing.
WebChildExits(t) ==
    /\ Runs(t)
    /\ tpc[t] = "serve"
    /\ connfd[t] \in BadConns
    /\ status' = "request"
    /\ UNCHANGED <<mpc, tpc, connfd, thread_count, backlog, arrived, hungup, open,
                   handler, report>>

\* Close(connfd): EBADF would be err_sys.
CloseConn(t) ==
    /\ Runs(t)
    /\ tpc[t] = "close"
    /\ status' = IF connfd[t] \in open THEN status ELSE "close"
    /\ open' = open \ {connfd[t]}
    /\ tpc' = [tpc EXCEPT ![t] = "lock"]
    /\ UNCHANGED <<mpc, connfd, thread_count, backlog, arrived, hungup, handler, report>>
-----------------------------------------------------------------------------
(***************************************************************************)
(* SIGINT.  The handler interrupts one thread; the others keep running     *)
(* while it prints, and exit(0) ends them all.                             *)
(***************************************************************************)
SigInt(a) ==
    /\ Runs(a)
    /\ handler = Nobody
    /\ mpc # "make"
    /\ handler' = a
    /\ UNCHANGED <<status, mpc, tpc, connfd, thread_count, backlog, arrived, hungup,
                   open, report>>

\* Before Signal(SIGINT, sig_int) the default action ends the process.
SigIntDefault ==
    /\ status = "up"
    /\ mpc = "make"
    /\ status' = "killed"
    /\ UNCHANGED <<mpc, tpc, connfd, thread_count, backlog, arrived, hungup, open,
                   handler, report>>

SigPrint ==
    /\ status = "up"
    /\ handler # Nobody
    /\ Len(report) < NThreads
    /\ report' = Append(report, thread_count[Len(report)])
    /\ UNCHANGED <<status, mpc, tpc, connfd, thread_count, backlog, arrived, hungup,
                   open, handler>>

SigExit ==
    /\ status = "up"
    /\ handler # Nobody
    /\ Len(report) = NThreads
    /\ status' = "sigint"
    /\ UNCHANGED <<mpc, tpc, connfd, thread_count, backlog, arrived, hungup, open,
                   handler, report>>

\* Every step that the two servers share.
BaseNext ==
    \/ \E c \in Conns : ClientConnect(c) \/ ClientHangup(c)
    \/ \E t \in Threads : \/ MakeThread(t)
                          \/ CountConn(t)
                          \/ WebChildReturns(t)
                          \/ WebChildExits(t)
                          \/ CloseConn(t)
    \/ MakeThreadFails
    \/ SigIntDefault
    \/ \E a \in Actors : SigInt(a)
    \/ SigPrint
    \/ SigExit
-----------------------------------------------------------------------------
\* The connection each thread is responsible for.
InService == [t \in Threads |-> IF tpc[t] \in Holding THEN connfd[t] ELSE NoConn]

\* Connections accepted and already closed by the server.
Finished == {c \in arrived : c \notin open /\ \A i \in DOMAIN backlog : backlog[i] # c}

\* The connections the threads have counted, and the threads that have one in
\* hand which they have not counted yet.
Counted   == UNION {{t} \X (1 .. thread_count[t]) : t \in Threads}
Uncounted == {t \in Threads : tpc[t] \in {"unlock", "count"}}

\* What sig_int has printed is not ahead of the counters.
ReportBehind == \A i \in DOMAIN report : report[i] <= thread_count[i - 1]

\* The kernel's queue holds each connection once, and none that is accepted.
BacklogInv ==
    /\ open \subseteq arrived
    /\ \A j \in DOMAIN backlog : backlog[j] \in arrived \ open
    /\ \A j, k \in DOMAIN backlog : backlog[j] = backlog[k] => j = k

\* The types the counting of connections relies on.
CountTypes ==
    /\ tpc = [t \in Threads |-> tpc[t]]
    /\ thread_count \in [Threads -> Nat]
    /\ backlog \in Seq(Conns)
    /\ report \in Seq(Nat)

\* The counters are read in the order of the threads, and never run ahead.
CountBase ==
    /\ IsFiniteSet(arrived)
    /\ IsFiniteSet(Counted)
    /\ Len(report) <= NThreads
    /\ ReportBehind

\* The connections whose whereabouts this module knows.
Accounted == Cardinality(Counted) + Cardinality(Uncounted) + Len(backlog)

\* The number of connections that are elsewhere stays what it is.
SameCount ==
    /\ Accounted' \in Nat
    /\ \A k \in Nat : Accounted + k = Cardinality(arrived)
                       => Accounted' + k = Cardinality(arrived')
=============================================================================
