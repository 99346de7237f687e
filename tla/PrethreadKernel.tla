--------------------------- MODULE PrethreadKernel ---------------------------
(***************************************************************************)
(* ServerV3: every pool thread calls accept itself, one at a time under    *)
(* mlock; main only pauses.                                                *)
(*                                                                         *)
(* Source: 20251106-SocketC/src/server/prethread_server_kernel_schedule.c  *)
(***************************************************************************)
EXTENDS PrethreadBase

VARIABLE mlock   \* owner of the mutex around accept, or Nobody

vars == <<baseVars, mlock>>

Init == BaseInit /\ mlock = Nobody

\* Mutation: accept without the lock.
ThreadLockMissing(t) ==
    /\ Runs(t)
    /\ tpc[t] = "lock"
    /\ mlock' = t
    /\ tpc' = [tpc EXCEPT ![t] = "accept"]
    /\ UNCHANGED <<status, mpc, connfd, thread_count, backlog, arrived, hungup, open,
                   handler, report>>

ThreadLock(t) ==
    /\ Runs(t)
    /\ tpc[t] = "lock"
    /\ mlock = Nobody
    /\ mlock' = t
    /\ tpc' = [tpc EXCEPT ![t] = "accept"]
    /\ UNCHANGED <<status, mpc, connfd, thread_count, backlog, arrived, hungup, open,
                   handler, report>>

\* Blocks, holding mlock, until the kernel has a connection.
ThreadAccept(t) ==
    /\ Runs(t)
    /\ tpc[t] = "accept"
    /\ AcceptInto(t)
    /\ tpc' = [tpc EXCEPT ![t] = "unlock"]
    /\ UNCHANGED <<status, mpc, thread_count, arrived, hungup, handler, report, mlock>>

ThreadAcceptFails(t) ==
    /\ Runs(t)
    /\ tpc[t] = "accept"
    /\ AcceptError
    /\ UNCHANGED mlock

\* Mutation: the unlock is forgotten.
ThreadUnlockMissing(t) ==
    /\ Runs(t)
    /\ tpc[t] = "unlock"
    /\ tpc' = [tpc EXCEPT ![t] = "count"]
    /\ UNCHANGED <<status, mpc, connfd, thread_count, backlog, arrived, hungup, open,
                   handler, report, mlock>>

ThreadUnlock(t) ==
    /\ Runs(t)
    /\ tpc[t] = "unlock"
    /\ mlock' = Nobody
    /\ tpc' = [tpc EXCEPT ![t] = "count"]
    /\ UNCHANGED <<status, mpc, connfd, thread_count, backlog, arrived, hungup, open,
                   handler, report>>

ThreadStep(t) ==
    \/ ThreadLock(t)
    \/ ThreadAccept(t)
    \/ ThreadAcceptFails(t)
    \/ ThreadUnlock(t)

\* pause() returns after a handler, and is called again.
Next ==
    \/ (BaseNext \/ EndMake("pause")) /\ UNCHANGED mlock
    \/ \E t \in Threads : ThreadStep(t)

Spec == Init /\ [][Next]_vars
-----------------------------------------------------------------------------
(***************************************************************************)
(* Properties.                                                             *)
(***************************************************************************)
MainPCs   == {"make", "pause"}
ThreadPCs == {"none", "lock", "accept"} \cup Holding
Holders   == {t \in Threads : tpc[t] \in Holding}

\* Every variable keeps its C type; main never holds a descriptor.
TypeOK ==
    /\ status \in {"up"} \cup Ends
    /\ mpc \in MainPCs
    /\ tpc \in [Threads -> ThreadPCs]
    /\ connfd \in [Actors -> Conns \cup {NoConn}]
    /\ thread_count \in [Threads -> Nat]
    /\ backlog \in Seq(Conns)
    /\ arrived \subseteq Conns
    /\ hungup \subseteq Conns
    /\ open \subseteq Conns
    /\ handler \in Actors \cup {Nobody}
    /\ report \in Seq(Nat)
    /\ mlock \in Threads \cup {Nobody}

\* "Protect the call to accept from all the threads by mutex lock" (:12): at
\* most one thread is inside accept (:94), and it is the owner of mlock.
OneAcceptor ==
    \A t, u \in Threads :
        tpc[t] \in {"accept", "unlock"} /\ tpc[u] \in {"accept", "unlock"} => t = u

\* The open descriptors are those the threads hold between accept (:94) and
\* Close (:102), each held by one thread, and none is closed twice.
OneOwner ==
    /\ open = {connfd[t] : t \in Holders}
    /\ \A t, u \in Holders : connfd[t] = connfd[u] => t = u
    /\ status # "close"

\* Counting without a lock (:97-99) loses nothing: the counters miss only the
\* connections accepted and not yet counted; what sig_int (:66) prints while
\* the other threads go on is never ahead of them.
CountsMatch ==
    /\ Cardinality(Counted) + Cardinality(Uncounted) + Len(backlog) = Cardinality(arrived)
    /\ ReportBehind

D == INSTANCE Dispatch WITH
        Workers <- Threads, Clients <- Conns, None <- NoConn,
        up      <- status = "up",
        pending <- backlog,
        serving <- InService,
        done    <- Finished

\* Whichever thread gets mlock (:93), a connection goes to one idle thread, which
\* closes it (:102).  Their order is the kernel's: Accept takes what accept gives.
DispatchSpec == D!Spec
-----------------------------------------------------------------------------
(***************************************************************************)
(* Liveness.  Every thread that can run runs, and clients finally close    *)
(* their side.                                                             *)
(***************************************************************************)
MakeProgress == ((\E t \in Threads : MakeThread(t)) \/ EndMake("pause")) /\ UNCHANGED mlock

ThreadProgress(t) ==
    \/ ThreadLock(t) \/ ThreadAccept(t) \/ ThreadUnlock(t)
    \/ (CountConn(t) \/ WebChildReturns(t) \/ CloseConn(t)) /\ UNCHANGED mlock

Fairness ==
    /\ WF_vars(MakeProgress)
    /\ \A t \in Threads : WF_vars(ThreadProgress(t))
    /\ WF_vars((SigPrint \/ SigExit) /\ UNCHANGED mlock)
    /\ \A c \in Conns : WF_vars(ClientHangup(c) /\ UNCHANGED mlock)

FairSpec == Spec /\ Fairness

\* Every connection that reaches the backlog is finally served and closed,
\* unless the process exits first: a thread blocked in accept with mlock held
\* keeps the others out only while there is nothing to accept.
EveryClientServed ==
    \A c \in Conns : c \in arrived ~> (c \in Finished \/ status # "up")
=============================================================================
