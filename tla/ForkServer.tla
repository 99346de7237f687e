----------------------------- MODULE ForkServer -----------------------------
(***************************************************************************)
(* ServerV1: the parent accepts, logs, forks a child per connection and    *)
(* closes its copy of the connected descriptor; the child echoes until the *)
(* client closes; sig_chld reaps the children.                             *)
(*                                                                         *)
(* Source: 20251106-SocketC/src/server/fork-server.c                       *)
(*                                                                         *)
(* A child is named by the connection it was forked for.  What a session   *)
(* echoes is the subject of EchoSystem.                                    *)
(***************************************************************************)
EXTENDS Integers, Sequences, FiniteSets

CONSTANTS
    Conns,       \* the client connections of one execution
    ResetConns,  \* those on which recv or Send fails
    NoConn,      \* an unset descriptor variable
    Listen,      \* the listening descriptor
    LISTENQ      \* backlog of the listening socket

ASSUME ForkAssumption ==
    /\ ResetConns \subseteq Conns
    /\ NoConn \notin Conns /\ Listen \notin Conns /\ NoConn # Listen
    /\ LISTENQ \in Nat

VARIABLES
    status,      \* of the parent: "up", or the call whose error ended it
    ppc,         \* where the parent is
    connfd,      \* the parent's local variable
    hpc,         \* where sig_chld is, "none" when it does not run
    pending,     \* a SIGCHLD is pending for the parent
    log_lock,    \* the lock inside syslog(): "free", "main" or "handler"
    pfds,        \* the parent's descriptors
    cpc,         \* where each child is
    cfds,        \* each child's descriptors
    backlog, arrived, hungup

vars == <<status, ppc, connfd, hpc, pending, log_lock, pfds, cpc, cfds, backlog,
          arrived, hungup>>

ParentPCs  == {"accept", "log1", "logging1", "log2", "logging2", "fork", "close"}
HandlerPCs == {"none", "waitpid", "log", "logging"}
ChildPCs   == {"none", "start", "echo", "zombie", "reaped"}

Init ==
    /\ status = "up"
    /\ ppc = "accept"
    /\ connfd = NoConn
    /\ hpc = "none"
    /\ pending = FALSE
    /\ log_lock = "free"
    /\ pfds = {Listen}
    /\ cpc = [c \in Conns |-> "none"]
    /\ cfds = [c \in Conns |-> {}]
    /\ backlog = <<>>
    /\ arrived = {}
    /\ hungup = {}

Zombies == {c \in Conns : cpc[c] = "zombie"}
-----------------------------------------------------------------------------
(***************************************************************************)
(* The kernel and the clients.                                             *)
(***************************************************************************)
ClientConnect(c) ==
    /\ Len(backlog) < LISTENQ
    /\ status = "up"
    /\ c \notin arrived
    /\ arrived' = arrived \cup {c}
    /\ backlog' = Append(backlog, c)
    /\ UNCHANGED <<status, ppc, connfd, hpc, pending, log_lock, pfds, cpc, cfds, hungup>>

ClientHangup(c) ==
    /\ c \in arrived \ hungup
    /\ hungup' = hungup \cup {c}
    /\ UNCHANGED <<status, ppc, connfd, hpc, pending, log_lock, pfds, cpc, cfds, backlog,
                   arrived>>
-----------------------------------------------------------------------------
(***************************************************************************)
(* The parent.  It makes no step while sig_chld runs.                      *)
(***************************************************************************)
ParentRuns == status = "up" /\ hpc = "none"

ParentAccept ==
    /\ ParentRuns /\ ppc = "accept"
    /\ backlog # <<>>
    /\ connfd' = Head(backlog)
    /\ pfds' = pfds \cup {Head(backlog)}
    /\ backlog' = Tail(backlog)
    /\ ppc' = "log1"
    /\ UNCHANGED <<status, hpc, pending, log_lock, cpc, cfds, arrived, hungup>>

\* Accept and Fork end in err_sys on every error; init reaps the zombies left.
ParentFails ==
    /\ ParentRuns /\ ppc \in {"accept", "fork"}
    /\ status' = ppc
    /\ pfds' = {}
    /\ cpc' = [c \in Conns |-> IF cpc[c] = "zombie" THEN "reaped" ELSE cpc[c]]
    /\ UNCHANGED <<ppc, connfd, hpc, pending, log_lock, cfds, backlog, arrived, hungup>>

\* The two syslog() calls: the library's lock is taken ...
ParentLog ==
    /\ ParentRuns /\ ppc \in {"log1", "log2"}
    /\ log_lock = "free"
    /\ log_lock' = "main"
    /\ ppc' = IF ppc = "log1" THEN "logging1" ELSE "logging2"
    /\ UNCHANGED <<status, connfd, hpc, pending, pfds, cpc, cfds, backlog, arrived, hungup>>

\* ... and released.
ParentLogged ==
    /\ ParentRuns /\ ppc \in {"logging1", "logging2"}
    /\ log_lock' = "free"
    /\ ppc' = IF ppc = "logging1" THEN "log2" ELSE "fork"
    /\ UNCHANGED <<status, connfd, hpc, pending, pfds, cpc, cfds, backlog, arrived, hungup>>

\* The child gets a copy of every descriptor of the parent.
ParentFork ==
    /\ ParentRuns /\ ppc = "fork"
    /\ cpc' = [cpc EXCEPT ![connfd] = "start"]
    /\ cfds' = [cfds EXCEPT ![connfd] = pfds]
    /\ ppc' = "close"
    /\ UNCHANGED <<status, connfd, hpc, pending, log_lock, pfds, backlog, arrived, hungup>>

\* Mutation: the parent keeps the connected socket.
ParentCloseMissing ==
    /\ ParentRuns /\ ppc = "close"
    /\ ppc' = "accept"
    /\ UNCHANGED <<status, connfd, hpc, pending, log_lock, pfds, cpc, cfds, backlog, arrived,
                   hungup>>

ParentClose ==
    /\ ParentRuns /\ ppc = "close"
    /\ pfds' = pfds \ {connfd}
    /\ ppc' = "accept"
    /\ UNCHANGED <<status, connfd, hpc, pending, log_lock, cpc, cfds, backlog, arrived,
                   hungup>>
-----------------------------------------------------------------------------
(***************************************************************************)
(* sig_chld, on the parent's stack.  SIGCHLD is not queued, and is blocked *)
(* while its handler runs.                                                 *)
(***************************************************************************)
SigChld ==
    /\ ParentRuns /\ pending
    /\ pending' = FALSE
    /\ hpc' = "waitpid"
    /\ UNCHANGED <<status, ppc, connfd, log_lock, pfds, cpc, cfds, backlog, arrived, hungup>>

\* waitpid(-1, &stat, WNOHANG) > 0
Reap(c) ==
    /\ status = "up" /\ hpc = "waitpid"
    /\ cpc[c] = "zombie"
    /\ cpc' = [cpc EXCEPT ![c] = "reaped"]
    /\ hpc' = "log"
    /\ UNCHANGED <<status, ppc, connfd, pending, log_lock, pfds, cfds, backlog, arrived,
                   hungup>>

\* syslog() in the handler: it waits for the lock, also for one that main holds.
HandlerLog ==
    /\ status = "up" /\ hpc = "log"
    /\ log_lock = "free"
    /\ log_lock' = "handler"
    /\ hpc' = "logging"
    /\ UNCHANGED <<status, ppc, connfd, pending, pfds, cpc, cfds, backlog, arrived, hungup>>

\* Mutation: "if" for "while" around waitpid.
HandlerLoggedIf ==
    /\ status = "up" /\ hpc = "logging"
    /\ log_lock' = "free"
    /\ hpc' = "none"
    /\ UNCHANGED <<status, ppc, connfd, pending, pfds, cpc, cfds, backlog, arrived, hungup>>

HandlerLogged ==
    /\ status = "up" /\ hpc = "logging"
    /\ log_lock' = "free"
    /\ hpc' = "waitpid"
    /\ UNCHANGED <<status, ppc, connfd, pending, pfds, cpc, cfds, backlog, arrived, hungup>>

\* waitpid returns 0 (children left) or -1 (none left): sig_chld returns.  Signal
\* has set SA_RESTART, so an interrupted accept starts again.
HandlerReturns ==
    /\ status = "up" /\ hpc = "waitpid"
    /\ Zombies = {}
    /\ hpc' = "none"
    /\ UNCHANGED <<status, ppc, connfd, pending, log_lock, pfds, cpc, cfds, backlog,
                   arrived, hungup>>
-----------------------------------------------------------------------------
(***************************************************************************)
(* The child of connection c.                                              *)
(***************************************************************************)
ChildStart(c) ==
    /\ cpc[c] = "start"
    /\ cfds' = [cfds EXCEPT ![c] = @ \ {Listen}]
    /\ cpc' = [cpc EXCEPT ![c] = "echo"]
    /\ UNCHANGED <<status, ppc, connfd, hpc, pending, log_lock, pfds, backlog, arrived,
                   hungup>>

\* Mutation: recv returning 0 does not end str_echo.
ChildExitOnError(c) ==
    /\ cpc[c] = "echo"
    /\ c \in ResetConns
    /\ cfds' = [cfds EXCEPT ![c] = {}]
    /\ cpc' = [cpc EXCEPT ![c] = IF status = "up" THEN "zombie" ELSE "reaped"]
    /\ pending' = (pending \/ status = "up")
    /\ UNCHANGED <<status, ppc, connfd, hpc, log_lock, pfds, backlog, arrived, hungup>>

\* str_echo returns on end of file and the child calls exit(0), or an error is
\* err_sys; the kernel closes its descriptors and sends SIGCHLD.  When the
\* parent is gone init reaps the child.
ChildExit(c) ==
    /\ cpc[c] = "echo"
    /\ c \in hungup \cup ResetConns
    /\ cfds' = [cfds EXCEPT ![c] = {}]
    /\ cpc' = [cpc EXCEPT ![c] = IF status = "up" THEN "zombie" ELSE "reaped"]
    /\ pending' = (pending \/ status = "up")
    /\ UNCHANGED <<status, ppc, connfd, hpc, log_lock, pfds, backlog, arrived, hungup>>

ParentStep ==
    \/ ParentAccept \/ ParentLog \/ ParentLogged \/ ParentFork \/ ParentClose

HandlerStep ==
    \/ HandlerLog \/ HandlerLogged \/ HandlerReturns
    \/ \E c \in Conns : Reap(c)

Child(c) == ChildStart(c) \/ ChildExit(c)

Next ==
    \/ ParentStep \/ ParentFails \/ SigChld \/ HandlerStep
    \/ \E c \in Conns : ClientConnect(c) \/ ClientHangup(c) \/ Child(c)

Spec == Init /\ [][Next]_vars
-----------------------------------------------------------------------------
(***************************************************************************)
(* Properties.                                                             *)
(***************************************************************************)
\* Every variable keeps its type, and connfd is a connection from accept (:104) on.
TypeOK ==
    /\ status \in {"up", "accept", "fork"}
    /\ ppc \in ParentPCs
    /\ connfd \in Conns \cup {NoConn}
    /\ ppc # "accept" => connfd \in Conns
    /\ hpc \in HandlerPCs
    /\ pending \in BOOLEAN
    /\ log_lock \in {"free", "main", "handler"}
    /\ pfds \subseteq Conns \cup {Listen}
    /\ cpc \in [Conns -> ChildPCs]
    /\ cfds \in [Conns -> SUBSET (Conns \cup {Listen})]
    /\ backlog \in Seq(Conns)
    /\ arrived \subseteq Conns
    /\ hungup \subseteq Conns

\* "The child closes the listening socket and the parent closes the connected
\* socket" (:6): a connection is open in the parent from accept (:104) to Close
\* (:122), in its own child from fork (:117) to exit (:120), and nowhere else; no
\* later child inherits it.
OwnDescriptors ==
    /\ \A c \in Conns :
          cfds[c] = IF cpc[c] = "start" THEN {c, Listen}
                    ELSE IF cpc[c] = "echo" THEN {c} ELSE {}
    /\ status = "up" => pfds = {Listen} \cup (IF ppc = "accept" THEN {} ELSE {connfd})

\* Merged SIGCHLDs lose no child: while one waits to be reaped, a signal is
\* pending or the loop of sig_chld (:163) will still see it.
NoForgottenZombie == status = "up" /\ Zombies # {} => pending \/ hpc # "none"

Fairness ==
    /\ WF_vars(ParentStep)
    /\ WF_vars(SigChld)
    /\ WF_vars(HandlerStep)
    /\ \A c \in Conns : WF_vars(Child(c))

FairSpec == Spec /\ Fairness

\* A client that closes its side while a child serves it finally sees the
\* server's side closed too: no process keeps a copy of the descriptor, not even
\* a parent that is interrupted by sig_chld for ever.
FinReachesClient ==
    \A c \in Conns :
        cpc[c] = "echo" /\ c \in hungup ~>
            c \notin pfds /\ \A d \in Conns : c \notin cfds[d]

\* "the loop continues until waitpid() returns 0 -> meaning no more zombies
\* remain" (:161): every child that has terminated is finally reaped.
AllReaped == \A c \in Conns : cpc[c] = "zombie" ~> cpc[c] = "reaped"
=============================================================================
