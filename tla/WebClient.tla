------------------------------ MODULE WebClient ------------------------------
(***************************************************************************)
(* The threaded web client: main fetches the home page, starts up to       *)
(* maxnconn threads, one per file, and joins the ones that report they are *)
(* done through ndone, ndone_mutex and ndone_cond.                         *)
(*                                                                         *)
(* Source: 20251106-SocketC/src/client/thread-client.c                     *)
(***************************************************************************)
EXTENDS Integers, FiniteSets

CONSTANTS
    nfiles,     \* min(argc - 4, MAXFILES), at least one
    maxnconn    \* atoi(argv[1])

ASSUME WebAssumption == nfiles \in Nat \ {0} /\ maxnconn \in Nat

Files  == 0 .. nfiles - 1    \* file[i], and the thread that reads it
Main   == nfiles
Nobody == -1

F_CONNECTING == 1
F_READING    == 2
F_DONE       == 4

VARIABLES
    status,       \* "up", or why the process has ended
    mpc,          \* where main is
    i,            \* main's loop variable
    tpc,          \* where the thread of each file is
    f_flags,      \* file[i].f_flags: 0 or one F_xxx
    joined,       \* files whose thread main has joined
    nconn, nlefttoconn, nlefttoread, ndone,
    ndone_mutex   \* owner, or Nobody

vars == <<status, mpc, i, tpc, f_flags, joined, nconn, nlefttoconn, nlefttoread,
          ndone, ndone_mutex>>

MainPCs   == {"home", "create", "lock", "check", "sleep", "wait", "relock", "scan"}
ThreadPCs == {"none", "connect", "write", "read", "close", "lock", "notify", "signal",
              "unlock", "returned"}
Ends      == {"failed", "nothing found", "bad join", "exit"}

Init ==
    /\ status = "up"
    /\ mpc = "home"
    /\ i = 0
    /\ tpc = [f \in Files |-> "none"]
    /\ f_flags = [f \in Files |-> 0]
    /\ joined = {}
    /\ nconn = 0
    /\ nlefttoconn = nfiles
    /\ nlefttoread = nfiles
    /\ ndone = 0
    /\ ndone_mutex = Nobody
-----------------------------------------------------------------------------
(***************************************************************************)
(* main                                                                    *)
(***************************************************************************)
\* home_page(): a blocking fetch, before any thread exists.
HomePage ==
    /\ status = "up" /\ mpc = "home"
    /\ mpc' = "create"
    /\ UNCHANGED <<status, i, tpc, f_flags, joined, nconn, nlefttoconn, nlefttoread,
                   ndone, ndone_mutex>>

\* A wrapper of main reports an error and exits: home_page or Pthread_create.
MainFails ==
    /\ status = "up"
    /\ mpc \in {"home", "create"}
    /\ mpc = "create" => nconn < maxnconn /\ nlefttoconn > 0
    /\ status' = "failed"
    /\ UNCHANGED <<mpc, i, tpc, f_flags, joined, nconn, nlefttoconn, nlefttoread,
                   ndone, ndone_mutex>>

\* The for loop stops at the first file that nobody reads yet.
FirstFree(f) == f_flags[f] = 0 /\ \A g \in Files : g < f => f_flags[g] # 0

CreateThread ==
    /\ status = "up" /\ mpc = "create"
    /\ nconn < maxnconn /\ nlefttoconn > 0
    /\ IF \A f \in Files : f_flags[f] # 0
       THEN /\ status' = "nothing found"
            /\ i' = nfiles
            /\ UNCHANGED <<tpc, f_flags, nconn, nlefttoconn>>
       ELSE \E f \in Files :
            /\ FirstFree(f)
            /\ i' = f
            /\ f_flags' = [f_flags EXCEPT ![f] = F_CONNECTING]
            /\ tpc' = [tpc EXCEPT ![f] = "connect"]
            /\ nconn' = nconn + 1
            /\ nlefttoconn' = nlefttoconn - 1
            /\ UNCHANGED status
    /\ UNCHANGED <<mpc, joined, nlefttoread, ndone, ndone_mutex>>

EndCreate ==
    /\ status = "up" /\ mpc = "create"
    /\ ~(nconn < maxnconn /\ nlefttoconn > 0)
    /\ mpc' = "lock"
    /\ UNCHANGED <<status, i, tpc, f_flags, joined, nconn, nlefttoconn, nlefttoread,
                   ndone, ndone_mutex>>

MainLock ==
    /\ status = "up" /\ mpc \in {"lock", "relock"}
    /\ ndone_mutex = Nobody
    /\ ndone_mutex' = Main
    /\ mpc' = "check"
    /\ UNCHANGED <<status, i, tpc, f_flags, joined, nconn, nlefttoconn, nlefttoread, ndone>>

\* while (ndone == 0), and the start of the for loop
MainCheck ==
    /\ status = "up" /\ mpc = "check"
    /\ mpc' = IF ndone = 0 THEN "sleep" ELSE "scan"
    /\ i' = IF ndone = 0 THEN i ELSE 0
    /\ UNCHANGED <<status, tpc, f_flags, joined, nconn, nlefttoconn, nlefttoread, ndone,
                   ndone_mutex>>

\* Pthread_cond_wait: the mutex is released and main sleeps, in one step.
MainWait ==
    /\ status = "up" /\ mpc = "sleep"
    /\ ndone_mutex' = Nobody
    /\ mpc' = "wait"
    /\ UNCHANGED <<status, i, tpc, f_flags, joined, nconn, nlefttoconn, nlefttoread, ndone>>

SpuriousWake ==
    /\ status = "up" /\ mpc = "wait"
    /\ mpc' = "relock"
    /\ UNCHANGED <<status, i, tpc, f_flags, joined, nconn, nlefttoconn, nlefttoread,
                   ndone, ndone_mutex>>

SkipFile ==
    /\ status = "up" /\ mpc = "scan"
    /\ i < nfiles /\ f_flags[i] # F_DONE
    /\ i' = i + 1
    /\ UNCHANGED <<status, mpc, tpc, f_flags, joined, nconn, nlefttoconn, nlefttoread,
                   ndone, ndone_mutex>>

\* Pthread_join(file[i].f_tid), with ndone_mutex held, blocks until the thread
\* has returned.  Joining a thread a second time is undefined: glibc reports
\* ESRCH, which is err_sys, or faults; the process ends either way.
JoinThread ==
    /\ status = "up" /\ mpc = "scan"
    /\ i < nfiles /\ f_flags[i] = F_DONE
    /\ tpc[i] = "returned"
    /\ IF i \in joined
       THEN status' = "bad join" /\ UNCHANGED <<i, joined>>
       ELSE joined' = joined \cup {i} /\ i' = i + 1 /\ UNCHANGED status
    /\ UNCHANGED <<mpc, tpc, f_flags, nconn, nlefttoconn, nlefttoread, ndone, ndone_mutex>>

\* End of the for loop, unlock, and the test of the outer while.
MainUnlock ==
    /\ status = "up" /\ mpc = "scan"
    /\ i = nfiles
    /\ ndone_mutex' = Nobody
    /\ mpc' = "create"
    /\ status' = IF nlefttoread > 0 THEN status ELSE "exit"
    /\ UNCHANGED <<i, tpc, f_flags, joined, nconn, nlefttoconn, nlefttoread, ndone>>
-----------------------------------------------------------------------------
(***************************************************************************)
(* do_get_read, the thread of file f                                       *)
(***************************************************************************)
Goto(f, from, to) ==
    /\ status = "up"
    /\ tpc[f] = from
    /\ tpc' = [tpc EXCEPT ![f] = to]

\* Tcp_connect, fptr->f_fd = fd
ThreadConnect(f) ==
    /\ Goto(f, "connect", "write")
    /\ UNCHANGED <<status, mpc, i, f_flags, joined, nconn, nlefttoconn, nlefttoread, ndone,
                   ndone_mutex>>

\* Mutation: F_CONNECTING is cleared and F_READING not set.
write_get_cmdClears(f) ==
    /\ Goto(f, "write", "read")
    /\ f_flags' = [f_flags EXCEPT ![f] = 0]
    /\ UNCHANGED <<status, mpc, i, joined, nconn, nlefttoconn, nlefttoread, ndone,
                   ndone_mutex>>

\* write_get_cmd: Writen, then F_READING replaces F_CONNECTING.
write_get_cmd(f) ==
    /\ Goto(f, "write", "read")
    /\ f_flags' = [f_flags EXCEPT ![f] = F_READING]
    /\ UNCHANGED <<status, mpc, i, joined, nconn, nlefttoconn, nlefttoread, ndone,
                   ndone_mutex>>

\* Read until the server closes the connection, then Close.
ThreadRead(f) ==
    /\ Goto(f, "read", "close")
    /\ UNCHANGED <<status, mpc, i, f_flags, joined, nconn, nlefttoconn, nlefttoread, ndone,
                   ndone_mutex>>

\* fptr->f_flags = F_DONE, before the mutex is taken.
SetDone(f) ==
    /\ Goto(f, "close", "lock")
    /\ f_flags' = [f_flags EXCEPT ![f] = F_DONE]
    /\ UNCHANGED <<status, mpc, i, joined, nconn, nlefttoconn, nlefttoread, ndone,
                   ndone_mutex>>

\* Mutation: ndone++ and the signal without the mutex.
ThreadLockMissing(f) ==
    /\ Goto(f, "lock", "notify")
    /\ UNCHANGED <<status, mpc, i, f_flags, joined, nconn, nlefttoconn, nlefttoread, ndone,
                   ndone_mutex>>

ThreadLock(f) ==
    /\ Goto(f, "lock", "notify")
    /\ ndone_mutex = Nobody
    /\ ndone_mutex' = f
    /\ UNCHANGED <<status, mpc, i, f_flags, joined, nconn, nlefttoconn, nlefttoread, ndone>>

\* ndone++
ThreadNotify(f) ==
    /\ Goto(f, "notify", "signal")
    /\ ndone' = ndone + 1
    /\ UNCHANGED <<status, mpc, i, f_flags, joined, nconn, nlefttoconn, nlefttoread,
                   ndone_mutex>>

\* Pthread_cond_signal(&ndone_cond)
ThreadSignal(f) ==
    /\ Goto(f, "signal", "unlock")
    /\ mpc' = IF mpc = "wait" THEN "relock" ELSE mpc
    /\ UNCHANGED <<status, i, f_flags, joined, nconn, nlefttoconn, nlefttoread, ndone,
                   ndone_mutex>>

ThreadUnlock(f) ==
    /\ Goto(f, "unlock", "returned")
    /\ ndone_mutex' = Nobody
    /\ UNCHANGED <<status, mpc, i, f_flags, joined, nconn, nlefttoconn, nlefttoread, ndone>>

\* Tcp_connect, Writen, Read and Close exit the process on an error.
ThreadFails(f) ==
    /\ status = "up"
    /\ tpc[f] \in {"connect", "write", "read"}
    /\ status' = "failed"
    /\ UNCHANGED <<mpc, i, tpc, f_flags, joined, nconn, nlefttoconn, nlefttoread, ndone,
                   ndone_mutex>>

MainStep ==
    \/ HomePage \/ MainFails \/ CreateThread \/ EndCreate \/ MainLock \/ MainCheck
    \/ MainWait \/ SpuriousWake \/ SkipFile \/ JoinThread \/ MainUnlock

do_get_read(f) ==
    \/ ThreadConnect(f) \/ write_get_cmd(f) \/ ThreadRead(f) \/ SetDone(f)
    \/ ThreadLock(f) \/ ThreadNotify(f) \/ ThreadSignal(f) \/ ThreadUnlock(f)
    \/ ThreadFails(f)

Next == MainStep \/ \E f \in Files : do_get_read(f)

Spec == Init /\ [][Next]_vars
-----------------------------------------------------------------------------
(***************************************************************************)
(* Properties.                                                             *)
(***************************************************************************)
\* Every variable keeps its type; the counters stay within 0..nfiles.
TypeOK ==
    /\ status \in {"up"} \cup Ends
    /\ mpc \in MainPCs
    /\ i \in 0 .. nfiles
    /\ tpc \in [Files -> ThreadPCs]
    /\ f_flags \in [Files -> {0, F_CONNECTING, F_READING, F_DONE}]
    /\ joined \subseteq Files
    /\ nconn \in 0 .. nfiles
    /\ nlefttoconn \in 0 .. nfiles
    /\ nlefttoread \in 0 .. nfiles
    /\ ndone \in 0 .. nfiles
    /\ ndone_mutex \in Files \cup {Main, Nobody}

Reported == {f \in Files : tpc[f] \in {"signal", "unlock", "returned"}}

\* The wait loop and the threads agree (:124, :171-175): ndone is the number of
\* threads that have reported, and when one has, main sleeps only until the
\* signal that the reporting thread is about to send.
NoLostWakeup ==
    /\ ndone = Cardinality(Reported)
    /\ mpc \in {"sleep", "wait"} /\ ndone > 0 => \E f \in Files : tpc[f] = "signal"

Waiting == {f \in Files : tpc[f] = "none"}
Started == {f \in Files : tpc[f] # "none"}
Running == {f \in Files : tpc[f] \notin {"none", "returned"}}

\* Although threads write f_flags without a lock (:170, :193) main never starts a
\* second thread for a file (:83) and never reports "nothing found" (:86): the
\* flags, the counters and the threads tell the same story.
EachFileOnce ==
    /\ \A f \in Files : f_flags[f] = 0 <=> tpc[f] = "none"
    /\ nlefttoconn = Cardinality(Waiting)
    /\ nconn = Cardinality(Started)
    /\ Cardinality(Running) <= maxnconn
    /\ status # "nothing found"

\* "go to sleep until one of its threads notifies it" (:120): main waits in the
\* join (:130) only for a thread that has notified it, not for one that still
\* needs the mutex that main holds.
JoinWaitsForNotified ==
    mpc = "scan" /\ i < nfiles =>
        (f_flags[i] = F_DONE => tpc[i] \in {"signal", "unlock", "returned"})
=============================================================================
