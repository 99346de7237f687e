----------------------------- MODULE AsioServer -----------------------------
(***************************************************************************)
(* ServerV5: main accepts with Boost.Asio and moves each socket into a     *)
(* detached thread; every call that throws in the accept loop is caught    *)
(* there.                                                                  *)
(*                                                                         *)
(* Source: 20251106-SocketC/src/server/coroutine_tasks_server.cpp          *)
(*                                                                         *)
(* A thread is named by the connection it serves.                          *)
(***************************************************************************)
EXTENDS Integers, Sequences

CONSTANTS
    Conns,     \* the client connections of one execution
    NoConn,    \* a socket object without a descriptor
    Backlog    \* length of the acceptor's queue

ASSUME AsioAssumption == NoConn \notin Conns /\ Backlog \in Nat

VARIABLES
    status,        \* "up", or "terminated" after std::terminate
    mpc,           \* where main is
    client_sock,   \* what main's socket object holds
    tpc,           \* where the thread of each connection is
    open,          \* connections for which the process has a descriptor
    backlog, arrived, hungup,
    broken         \* connections whose RST has reached the server

vars == <<status, mpc, client_sock, tpc, open, backlog, arrived, hungup, broken>>

Init ==
    /\ status = "up"
    /\ mpc = "accept"
    /\ client_sock = NoConn
    /\ tpc = [c \in Conns |-> "none"]
    /\ open = {}
    /\ backlog = <<>>
    /\ arrived = {}
    /\ hungup = {}
    /\ broken = {}

Up == status = "up"
-----------------------------------------------------------------------------
(***************************************************************************)
(* The clients.                                                            *)
(***************************************************************************)
ClientConnect(c) ==
    /\ Up /\ c \notin arrived
    /\ Len(backlog) < Backlog
    /\ arrived' = arrived \cup {c}
    /\ backlog' = Append(backlog, c)
    /\ UNCHANGED <<status, mpc, client_sock, tpc, open, hungup, broken>>

ClientHangup(c) ==
    /\ Up /\ c \in arrived \ hungup
    /\ hungup' = hungup \cup {c}
    /\ UNCHANGED <<status, mpc, client_sock, tpc, open, backlog, arrived, broken>>

ClientReset(c) ==
    /\ Up /\ c \in arrived \ broken
    /\ broken' = broken \cup {c}
    /\ UNCHANGED <<status, mpc, client_sock, tpc, open, backlog, arrived, hungup>>
-----------------------------------------------------------------------------
(***************************************************************************)
(* main.  client_sock lives for one pass of the loop: leaving the try      *)
(* block, by an exception or not, destroys it and closes what it holds.    *)
(***************************************************************************)
\* Mutation: the exception leaves the socket open.
DropSocketLeaks == client_sock' = NoConn /\ UNCHANGED open

DropSocket == client_sock' = NoConn /\ open' = open \ {client_sock}

MainAccept ==
    /\ Up /\ mpc = "accept"
    /\ backlog # <<>>
    /\ client_sock' = Head(backlog)
    /\ open' = open \cup {Head(backlog)}
    /\ backlog' = Tail(backlog)
    /\ mpc' = "endpoint"
    /\ UNCHANGED <<status, tpc, arrived, hungup, broken>>

\* Mutation: the error is swallowed and the pass goes on.
CaughtIgnored == mpc' = "endpoint"

\* catch (std::exception&) { syslog; continue; }
Caught == mpc' = "accept"

\* accept throws, with the socket object empty.
MainAcceptThrows ==
    /\ Up /\ mpc = "accept"
    /\ DropSocket
    /\ Caught
    /\ UNCHANGED <<status, tpc, backlog, arrived, hungup, broken>>

\* remote_endpoint() throws when the peer has already gone; std::thread throws
\* when the system has no thread left, and destroys the socket moved into it.
MainThrows ==
    /\ Up
    /\ \/ mpc = "endpoint" /\ client_sock \in broken
       \/ mpc = "spawn"
    /\ DropSocket
    /\ Caught
    /\ UNCHANGED <<status, tpc, backlog, arrived, hungup, broken>>

MainEndpoint ==
    /\ Up /\ mpc = "endpoint"
    /\ client_sock \notin broken
    /\ mpc' = "spawn"
    /\ UNCHANGED <<status, client_sock, tpc, open, backlog, arrived, hungup, broken>>

\* std::thread t(doit, std::move(client_sock)); t.detach(): the descriptor is the
\* thread's, and main destroys an empty socket.
MainSpawn ==
    /\ Up /\ mpc = "spawn"
    /\ tpc' = [tpc EXCEPT ![client_sock] = "read"]
    /\ client_sock' = NoConn
    /\ mpc' = "accept"
    /\ UNCHANGED <<status, open, backlog, arrived, hungup, broken>>
-----------------------------------------------------------------------------
(***************************************************************************)
(* doit and str_echo, in the thread of connection c                        *)
(***************************************************************************)
\* read_some returns data.
ThreadReads(c) ==
    /\ Up /\ tpc[c] = "read"
    /\ c \notin broken
    /\ tpc' = [tpc EXCEPT ![c] = "write"]
    /\ UNCHANGED <<status, mpc, client_sock, open, backlog, arrived, hungup, broken>>

\* asio::write sends everything, or throws; nothing catches the exception on
\* this thread, which is std::terminate for the whole process.
ThreadWrites(c) ==
    /\ Up /\ tpc[c] = "write"
    /\ IF c \in broken
       THEN status' = "terminated" /\ open' = {} /\ UNCHANGED tpc
       ELSE tpc' = [tpc EXCEPT ![c] = "read"] /\ UNCHANGED <<status, open>>
    /\ UNCHANGED <<mpc, client_sock, backlog, arrived, hungup, broken>>

\* Mutation: end of file is treated like an interruption.
ThreadEndsOnError(c) ==
    /\ Up /\ tpc[c] = "read"
    /\ c \in broken
    /\ tpc' = [tpc EXCEPT ![c] = "returned"]
    /\ open' = open \ {c}
    /\ UNCHANGED <<status, mpc, client_sock, backlog, arrived, hungup, broken>>

\* End of file or a read error: str_echo returns, its sock closes the connection,
\* and close() on the moved-from client_sock of doit does nothing.
ThreadEnds(c) ==
    /\ Up /\ tpc[c] = "read"
    /\ c \in hungup \cup broken
    /\ tpc' = [tpc EXCEPT ![c] = "returned"]
    /\ open' = open \ {c}
    /\ UNCHANGED <<status, mpc, client_sock, backlog, arrived, hungup, broken>>

Main     == MainAccept \/ MainAcceptThrows \/ MainThrows \/ MainEndpoint \/ MainSpawn
doit(c)  == ThreadReads(c) \/ ThreadWrites(c) \/ ThreadEnds(c)
Clients  == \E c \in Conns : ClientConnect(c) \/ ClientHangup(c) \/ ClientReset(c)

Next == Main \/ Clients \/ \E c \in Conns : doit(c)

Spec == Init /\ [][Next]_vars
-----------------------------------------------------------------------------
(***************************************************************************)
(* Properties.                                                             *)
(***************************************************************************)
\* Every variable keeps its type, and main goes on only with a connected socket.
TypeOK ==
    /\ status \in {"up", "terminated"}
    /\ mpc \in {"accept", "endpoint", "spawn"}
    /\ client_sock \in Conns \cup {NoConn}
    /\ mpc # "accept" => client_sock \in Conns
    /\ tpc \in [Conns -> {"none", "read", "write", "returned"}]
    /\ open \subseteq Conns
    /\ backlog \in Seq(Conns)
    /\ arrived \subseteq Conns /\ hungup \subseteq Conns /\ broken \subseteq Conns

\* "sock closes automatically when function returns (RAII)" (:138): a descriptor
\* belongs to main's socket object or to one thread; no exception path of the
\* accept loop (:56) and no end of a session leaks one.
SocketsOwned ==
    Up => open = {c \in Conns : client_sock = c \/ tpc[c] \in {"read", "write"}}

\* Threads and main run; a client finally closes its side, after finitely many
\* bytes, so that read_some finally reports it.
Fairness ==
    /\ WF_vars(MainAccept) /\ WF_vars(MainEndpoint \/ MainSpawn \/ MainThrows)
    /\ \A c \in Conns : /\ WF_vars(ThreadWrites(c))
                        /\ SF_vars(ThreadEnds(c))
                        /\ WF_vars(ClientHangup(c))

FairSpec == Spec /\ Fairness

\* "If any error occurs at accept, we continue to accept other clients" (:16): a
\* connection in the queue is finally taken, and its descriptor finally closed,
\* unless the process terminates.
EveryClientLeaves ==
    \A c \in Conns :
        c \in arrived ~> ~Up \/ (c \notin open /\ \A k \in DOMAIN backlog : backlog[k] # c)
=============================================================================
