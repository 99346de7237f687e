---------------------------- MODULE ThreadsServer ----------------------------
(***************************************************************************)
(* ServerV2: main accepts, puts the connected descriptor into a heap cell  *)
(* of its own and starts a detached thread with the cell's address.        *)
(*                                                                         *)
(* Source: 20251106-SocketC/src/server/threads-server.c                    *)
(*                                                                         *)
(* Threads are numbered in the order of their creation.  Cells holds no    *)
(* connection: an address is no descriptor.                                *)
(***************************************************************************)
EXTENDS Integers, Sequences

CONSTANTS
    Conns,     \* the client connections of one execution
    NoConn,    \* an unset descriptor variable
    Cells,     \* addresses malloc may return
    LISTENQ    \* backlog of the listening socket

VARIABLES
    status,     \* "up", or the error that ended the process
    mpc,        \* where main is
    connfd,     \* main's variable, overwritten by every accept
    iptr,       \* main's pointer to the newest cell
    heap,       \* the contents of the cells allocated
    threads,    \* the threads: [arg |-> address, for |-> connection, pc |-> ...]
    open,       \* connections for which the process has a descriptor
    backlog, arrived, hungup

vars == <<status, mpc, connfd, iptr, heap, threads, open, backlog, arrived, hungup>>

Init ==
    /\ status = "up"
    /\ mpc = "accept"
    /\ connfd = NoConn
    /\ iptr = NoConn
    /\ heap = <<>>
    /\ threads = <<>>
    /\ open = {}
    /\ backlog = <<>>
    /\ arrived = {}
    /\ hungup = {}

Up == status = "up"

ClientConnect(c) ==
    /\ Up /\ c \notin arrived
    /\ Len(backlog) < LISTENQ
    /\ arrived' = arrived \cup {c}
    /\ backlog' = Append(backlog, c)
    /\ UNCHANGED <<status, mpc, connfd, iptr, heap, threads, open, hungup>>

ClientHangup(c) ==
    /\ Up /\ c \in arrived \ hungup
    /\ hungup' = hungup \cup {c}
    /\ UNCHANGED <<status, mpc, connfd, iptr, heap, threads, open, backlog, arrived>>
-----------------------------------------------------------------------------
(***************************************************************************)
(* main                                                                    *)
(***************************************************************************)
MainAccept ==
    /\ Up /\ mpc = "accept"
    /\ backlog # <<>>
    /\ connfd' = Head(backlog)
    /\ open' = open \cup {Head(backlog)}
    /\ backlog' = Tail(backlog)
    /\ mpc' = "malloc"
    /\ UNCHANGED <<status, iptr, heap, threads, arrived, hungup>>

\* malloc returns a cell that nobody has; nothing is ever freed.
FreshCell(p) == p \notin DOMAIN heap

\* iptr = Malloc(sizeof(int)); *iptr = connfd
MainMalloc ==
    /\ Up /\ mpc = "malloc"
    /\ \E p \in Cells :
          /\ FreshCell(p)
          /\ iptr' = p
          /\ heap' = [q \in DOMAIN heap \cup {p} |-> IF q = p THEN connfd ELSE heap[q]]
    /\ mpc' = "create"
    /\ UNCHANGED <<status, connfd, threads, open, backlog, arrived, hungup>>

\* Pthread_create(&tid, NULL, &doit, iptr)
MainCreate ==
    /\ Up /\ mpc = "create"
    /\ threads' = Append(threads, [arg |-> iptr, for |-> connfd, pc |-> "start"])
    /\ mpc' = "accept"
    /\ UNCHANGED <<status, connfd, iptr, heap, open, backlog, arrived, hungup>>

\* Accept, Malloc and Pthread_create end in err_sys.
MainFails ==
    /\ Up
    /\ status' = mpc
    /\ UNCHANGED <<mpc, connfd, iptr, heap, threads, open, backlog, arrived, hungup>>
-----------------------------------------------------------------------------
(***************************************************************************)
(* doit, in thread t                                                       *)
(***************************************************************************)
\* What doit passes to str_echo and Close: (int) arg, the pointer itself.  An
\* address is no descriptor of this process.
Descriptor(t) == threads[t].arg

ThreadDetach(t) ==
    /\ Up /\ threads[t].pc = "start"
    /\ threads' = [threads EXCEPT ![t].pc = "echo"]
    /\ UNCHANGED <<status, mpc, connfd, iptr, heap, open, backlog, arrived, hungup>>

\* str_echo and Close.  recv fails on a descriptor that is not open (EBADF), which
\* is err_sys; otherwise the session lasts until the client closes its side.
ThreadEcho(t) ==
    /\ Up /\ threads[t].pc = "echo"
    /\ IF Descriptor(t) \notin open
       THEN status' = "read" /\ UNCHANGED <<threads, open>>
       ELSE /\ Descriptor(t) \in hungup
            /\ threads' = [threads EXCEPT ![t].pc = "returned"]
            /\ open' = open \ {Descriptor(t)}
            /\ UNCHANGED status
    /\ UNCHANGED <<mpc, connfd, iptr, heap, backlog, arrived, hungup>>

Next ==
    \/ MainAccept \/ MainMalloc \/ MainCreate \/ MainFails
    \/ \E c \in Conns : ClientConnect(c) \/ ClientHangup(c)
    \/ \E t \in DOMAIN threads : ThreadDetach(t) \/ ThreadEcho(t)

Spec == Init /\ [][Next]_vars
-----------------------------------------------------------------------------
(***************************************************************************)
(* Properties.                                                             *)
(***************************************************************************)
\* "allocate space for an integer variable, the connected descriptor" (:110):
\* a thread that has found its descriptor serves the connection main accepted
\* for it.
ServesItsClient ==
    \A t \in DOMAIN threads : threads[t].pc = "echo" => Descriptor(t) = threads[t].for
=============================================================================
