---------------------------- MODULE PrethreadUser ----------------------------
(***************************************************************************)
(* ServerV4: the main thread accepts and hands each connected descriptor   *)
(* to a pool thread through the ring clifd[MAXNCLI], under clifd_mutex and *)
(* clifd_cond.                                                             *)
(*                                                                         *)
(* Source: 20251106-SocketC/src/server/prethread_server_user_schedule.c    *)
(***************************************************************************)
EXTENDS PrethreadBase

CONSTANT MAXNCLI

ASSUME RingAssumption == MAXNCLI \in Nat \ {0}

VARIABLES
    clifd,         \* the ring of descriptors handed over
    iget, iput,    \* next slot to take from, next slot to fill
    clifd_mutex,   \* owner of the mutex, or Nobody
    waiters        \* threads blocked in pthread_cond_wait(&clifd_cond)

ringVars == <<clifd, iget, iput, clifd_mutex, waiters>>
vars     == <<baseVars, ringVars>>

Slots     == 0 .. MAXNCLI - 1
MainPCs   == {"make", "accept", "lock", "put", "test", "signal", "unlock"}
ThreadPCs == {"none", "lock", "check", "sleep", "wait", "relock", "take"} \cup Holding

Init ==
    /\ BaseInit
    /\ clifd = [s \in Slots |-> NoConn]
    /\ iget = 0
    /\ iput = 0
    /\ clifd_mutex = Nobody
    /\ waiters = {}

\* Mutation: the post-increment test, one slot too late.
BumpLate(i) == IF i = MAXNCLI THEN 0 ELSE i + 1

\* if (++i == MAXNCLI) i = 0
Bump(i) == IF i + 1 = MAXNCLI THEN 0 ELSE i + 1
-----------------------------------------------------------------------------
(***************************************************************************)
(* main                                                                    *)
(***************************************************************************)
MainAccept ==
    /\ Runs(Main)
    /\ mpc = "accept"
    /\ AcceptInto(Main)
    /\ mpc' = "lock"
    /\ UNCHANGED <<status, tpc, thread_count, arrived, hungup, handler, report>>
    /\ UNCHANGED ringVars

MainAcceptFails ==
    /\ Runs(Main)
    /\ mpc = "accept"
    /\ AcceptError
    /\ UNCHANGED ringVars

MainLock ==
    /\ Runs(Main)
    /\ mpc = "lock"
    /\ clifd_mutex = Nobody
    /\ clifd_mutex' = Main
    /\ mpc' = "put"
    /\ UNCHANGED <<status, tpc, connfd, thread_count, backlog, arrived, hungup, open,
                   handler, report>>
    /\ UNCHANGED <<clifd, iget, iput, waiters>>

\* Mutation: no signal.
CondSignalDropped == UNCHANGED <<tpc, waiters>>

\* Pthread_cond_signal(&clifd_cond): one waiter, any one, leaves the wait.
CondSignal ==
    IF waiters = {}
    THEN UNCHANGED <<tpc, waiters>>
    ELSE \E t \in waiters : /\ waiters' = waiters \ {t}
                            /\ tpc' = [tpc EXCEPT ![t] = "relock"]

\* Mutation: main fills the ring from the end the threads take from.
MainPutFirst ==
    /\ Runs(Main)
    /\ mpc = "put"
    /\ iget' = IF iget = 0 THEN MAXNCLI - 1 ELSE iget - 1
    /\ clifd' = [clifd EXCEPT ![iget'] = connfd[Main]]
    /\ mpc' = "test"
    /\ UNCHANGED <<status, tpc, connfd, thread_count, backlog, arrived, hungup, open,
                   handler, report>>
    /\ UNCHANGED <<iput, clifd_mutex, waiters>>

\* clifd[iput] = connfd and the advance of iput, before any test for a full ring.
MainPut ==
    /\ Runs(Main)
    /\ mpc = "put"
    /\ clifd' = [clifd EXCEPT ![iput] = connfd[Main]]
    /\ iput' = Bump(iput)
    /\ mpc' = "test"
    /\ UNCHANGED <<status, tpc, connfd, thread_count, backlog, arrived, hungup, open,
                   handler, report>>
    /\ UNCHANGED <<iget, clifd_mutex, waiters>>

\* if (iput == iget) err_quit
MainTest ==
    /\ Runs(Main)
    /\ mpc = "test"
    /\ IF iput = iget
       THEN status' = "overflow" /\ UNCHANGED mpc
       ELSE mpc' = "signal" /\ UNCHANGED status
    /\ UNCHANGED <<tpc, connfd, thread_count, backlog, arrived, hungup, open, handler,
                   report>>
    /\ UNCHANGED ringVars

MainSignal ==
    /\ Runs(Main)
    /\ mpc = "signal"
    /\ CondSignal
    /\ mpc' = "unlock"
    /\ UNCHANGED <<status, connfd, thread_count, backlog, arrived, hungup, open, handler,
                   report>>
    /\ UNCHANGED <<clifd, iget, iput, clifd_mutex>>

MainUnlock ==
    /\ Runs(Main)
    /\ mpc = "unlock"
    /\ clifd_mutex' = Nobody
    /\ mpc' = "accept"
    /\ UNCHANGED <<status, tpc, connfd, thread_count, backlog, arrived, hungup, open,
                   handler, report>>
    /\ UNCHANGED <<clifd, iget, iput, waiters>>
-----------------------------------------------------------------------------
(***************************************************************************)
(* thread_main                                                             *)
(***************************************************************************)
\* Mutation: "if" for the "while" around the wait.
ThreadLockIf(t) ==
    /\ Runs(t)
    /\ tpc[t] \in {"lock", "relock"}
    /\ clifd_mutex = Nobody
    /\ clifd_mutex' = t
    /\ tpc' = [tpc EXCEPT ![t] = IF @ = "lock" THEN "check" ELSE "take"]
    /\ UNCHANGED <<status, mpc, connfd, thread_count, backlog, arrived, hungup, open,
                   handler, report>>
    /\ UNCHANGED <<clifd, iget, iput, waiters>>

\* pthread_mutex_lock on entry, and the one inside pthread_cond_wait's return.
ThreadLock(t) ==
    /\ Runs(t)
    /\ tpc[t] \in {"lock", "relock"}
    /\ clifd_mutex = Nobody
    /\ clifd_mutex' = t
    /\ tpc' = [tpc EXCEPT ![t] = "check"]
    /\ UNCHANGED <<status, mpc, connfd, thread_count, backlog, arrived, hungup, open,
                   handler, report>>
    /\ UNCHANGED <<clifd, iget, iput, waiters>>

\* while (iget == iput)
ThreadCheck(t) ==
    /\ Runs(t)
    /\ tpc[t] = "check"
    /\ tpc' = [tpc EXCEPT ![t] = IF iget = iput THEN "sleep" ELSE "take"]
    /\ UNCHANGED <<status, mpc, connfd, thread_count, backlog, arrived, hungup, open,
                   handler, report>>
    /\ UNCHANGED ringVars

\* Pthread_cond_wait: the mutex is released and the thread sleeps, in one step.
ThreadWait(t) ==
    /\ Runs(t)
    /\ tpc[t] = "sleep"
    /\ clifd_mutex' = Nobody
    /\ waiters' = waiters \cup {t}
    /\ tpc' = [tpc EXCEPT ![t] = "wait"]
    /\ UNCHANGED <<status, mpc, connfd, thread_count, backlog, arrived, hungup, open,
                   handler, report>>
    /\ UNCHANGED <<clifd, iget, iput>>

\* POSIX lets pthread_cond_wait return without a signal.
SpuriousWake(t) ==
    /\ status = "up"
    /\ t \in waiters
    /\ waiters' = waiters \ {t}
    /\ tpc' = [tpc EXCEPT ![t] = "relock"]
    /\ UNCHANGED <<status, mpc, connfd, thread_count, backlog, arrived, hungup, open,
                   handler, report>>
    /\ UNCHANGED <<clifd, iget, iput, clifd_mutex>>

\* connfd = clifd[iget] and the advance of iget
ThreadTake(t) ==
    /\ Runs(t)
    /\ tpc[t] = "take"
    /\ connfd' = [connfd EXCEPT ![t] = clifd[iget]]
    /\ iget' = Bump(iget)
    /\ tpc' = [tpc EXCEPT ![t] = "unlock"]
    /\ UNCHANGED <<status, mpc, thread_count, backlog, arrived, hungup, open, handler,
                   report>>
    /\ UNCHANGED <<clifd, iput, clifd_mutex, waiters>>

\* Mutation: clifd_mutex is not given back after the take.
ThreadUnlockMissing(t) ==
    /\ Runs(t)
    /\ tpc[t] = "unlock"
    /\ tpc' = [tpc EXCEPT ![t] = "count"]
    /\ UNCHANGED <<status, mpc, connfd, thread_count, backlog, arrived, hungup, open,
                   handler, report>>
    /\ UNCHANGED ringVars

ThreadUnlock(t) ==
    /\ Runs(t)
    /\ tpc[t] = "unlock"
    /\ clifd_mutex' = Nobody
    /\ tpc' = [tpc EXCEPT ![t] = "count"]
    /\ UNCHANGED <<status, mpc, connfd, thread_count, backlog, arrived, hungup, open,
                   handler, report>>
    /\ UNCHANGED <<clifd, iget, iput, waiters>>

MainStep ==
    \/ MainAccept \/ MainAcceptFails \/ MainLock \/ MainPut \/ MainTest \/ MainSignal
    \/ MainUnlock

ThreadStep(t) ==
    \/ ThreadLock(t)
    \/ ThreadCheck(t)
    \/ ThreadWait(t)
    \/ SpuriousWake(t)
    \/ ThreadTake(t)
    \/ ThreadUnlock(t)

Next ==
    \/ (BaseNext \/ EndMake("accept")) /\ UNCHANGED ringVars
    \/ MainStep
    \/ \E t \in Threads : ThreadStep(t)

Spec == Init /\ [][Next]_vars
-----------------------------------------------------------------------------
(***************************************************************************)
(* Properties.                                                             *)
(***************************************************************************)
\* Every variable keeps its C type; the ring indices stay inside clifd.
TypeOK ==
    /\ status \in {"up"} \cup Ends
    /\ mpc \in MainPCs
    /\ tpc \in [Threads -> ThreadPCs]
    /\ connfd \in [Actors -> Conns \cup {NoConn}]
    /\ thread_count \in [Threads -> Nat]
    /\ backlog \in Seq(Conns)
    /\ arrived \subseteq Conns
    /\ hungup \subseteq Conns
    /\ open \subseteq Conns
    /\ handler \in Actors \cup {Nobody}
    /\ report \in Seq(Nat)
    /\ clifd \in [Slots -> Conns \cup {NoConn}]
    /\ iget \in Slots
    /\ iput \in Slots
    /\ clifd_mutex \in Actors \cup {Nobody}
    /\ waiters \subseteq Threads

\* main has just stored into the last free slot; err_quit follows.
Full == mpc = "test" /\ iput = iget

RingLen ==
    IF Full THEN MAXNCLI
    ELSE IF iget <= iput THEN iput - iget ELSE iput + MAXNCLI - iget

RingSlot(k) == IF iget + k - 1 < MAXNCLI THEN iget + k - 1 ELSE iget + k - 1 - MAXNCLI
Ring        == [k \in 1 .. RingLen |-> clifd[RingSlot(k)]]
MainHolds   == mpc \in {"lock", "put"}
InHand      == IF MainHolds THEN <<connfd[Main]>> ELSE <<>>

\* The slots between iget and iput, all of them when the ring is full.
Live(s) ==
    \/ Full
    \/ IF iget <= iput THEN iget <= s /\ s < iput ELSE iget <= s \/ s < iput

\* The threads, main included, that have a connected descriptor in connfd.
Holders == {t \in Threads : tpc[t] \in Holding} \cup (IF MainHolds THEN {Main} ELSE {})

\* A connected descriptor is in exactly one place from accept (:54) to Close
\* (:112): main's connfd, a live slot of clifd, or one thread's connfd.  No
\* descriptor is leaked, served by two threads, overwritten in the ring or
\* closed twice, also when err_quit finds the ring full (:60).
OneOwner ==
    /\ open = {connfd[a] : a \in Holders} \cup {clifd[s] : s \in {r \in Slots : Live(r)}}
    /\ \A a, b \in Holders : connfd[a] = connfd[b] => a = b
    /\ \A r, s \in Slots : Live(r) /\ Live(s) /\ clifd[r] = clifd[s] => r = s
    /\ \A a \in Holders, s \in Slots : Live(s) => connfd[a] # clifd[s]
    /\ status # "close"

\* The threads that will look at the ring again before they sleep.
Awake == {t \in Threads : tpc[t] \in {"lock", "relock", "check", "take"}}

\* main has stored a descriptor and not yet signalled.
SignalDue == mpc \in {"test", "signal"}

\* One cond_signal per stored descriptor (:63) is enough: while some thread
\* sleeps (:104), at least as many threads are on their way to the ring as it
\* holds connections, up to the one main is about to signal.
NoLostWakeup ==
    status = "up" /\ waiters # {} =>
        RingLen <= Cardinality(Awake) + (IF SignalDue THEN 1 ELSE 0)

\* thread_count (:109) is right without a lock: together the counters miss only
\* the connections still on their way to a web_child; what sig_int (:78) prints
\* while the other threads go on is never ahead of them.
CountsMatch ==
    /\ Cardinality(Counted) + Cardinality(Uncounted) + Len(backlog)
         + (RingLen + Len(InHand)) = Cardinality(arrived)
    /\ ReportBehind

D == INSTANCE Dispatch WITH
        Workers <- Threads, Clients <- Conns, None <- NoConn,
        up      <- status = "up",
        pending <- Ring \o InHand \o backlog,
        serving <- InService,
        done    <- Finished

\* Through ring, mutex and condition variable (:57, :106) the server keeps the
\* order in which accept returned the connections, and gives each to one idle
\* thread.  An exit, for whatever reason, is a step of Dispatch too.
DispatchSpec == D!Spec
-----------------------------------------------------------------------------
(***************************************************************************)
(* Liveness.  Every thread that can run runs; clients finally close their  *)
(* side; the condition variable wakes up spuriously finitely often.        *)
(***************************************************************************)
MainProgress ==
    \/ ((\E t \in Threads : MakeThread(t)) \/ EndMake("accept")) /\ UNCHANGED ringVars
    \/ MainAccept \/ MainLock \/ MainPut \/ MainTest \/ MainSignal \/ MainUnlock

ThreadProgress(t) ==
    \/ ThreadLock(t) \/ ThreadCheck(t) \/ ThreadWait(t) \/ ThreadTake(t) \/ ThreadUnlock(t)
    \/ (CountConn(t) \/ WebChildReturns(t) \/ CloseConn(t)) /\ UNCHANGED ringVars

Fairness ==
    /\ WF_vars(MainProgress)
    /\ \A t \in Threads : WF_vars(ThreadProgress(t))
    /\ WF_vars((SigPrint \/ SigExit) /\ UNCHANGED ringVars)
    /\ \A c \in Conns : WF_vars(ClientHangup(c) /\ UNCHANGED ringVars)
    /\ <>[][\A t \in Threads : ~SpuriousWake(t)]_vars

FairSpec == Spec /\ Fairness

\* Every connection that reaches the backlog is finally served and closed,
\* unless the process exits first.
EveryClientServed ==
    \A c \in Conns : c \in arrived ~> (c \in Finished \/ status # "up")
=============================================================================
