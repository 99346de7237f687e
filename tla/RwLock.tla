------------------------------- MODULE RwLock -------------------------------
(***************************************************************************)
(* The read-write lock with cancellation handling: a mutex, two condition  *)
(* variables and three counters.  All of the lock's state is read and      *)
(* written under rw_mutex, so the code between the return of               *)
(* pthread_mutex_lock and the next wait or unlock is one step.             *)
(*                                                                         *)
(* pthread_mutex_lock and pthread_cond_wait return 0 here: POSIX has no    *)
(* error for a valid mutex of the caller's and a valid condition variable. *)
(* (After an error of the wait rdlock and wrlock would leave their loop    *)
(* and return 0 without the lock.)                                         *)
(*                                                                         *)
(* Source: unpv22e/my_rwlock_cancel                                        *)
(***************************************************************************)
EXTENDS Integers, FiniteSets

CONSTANTS Threads, Nobody

ASSUME RwAssumption == IsFiniteSet(Threads) /\ Nobody \notin Threads

VARIABLES
    rw_mutex,         \* its owner, or Nobody
    rw_refcount,      \* -1, or the number of readers
    rw_nwaitreaders,
    rw_nwaitwriters,
    op,               \* the function each thread is in, or was in last
    pc,               \* where it is in that function
    held,             \* what the calls that returned 0 have left it with
    dumped            \* err_dump has ended the process

vars == <<rw_mutex, rw_refcount, rw_nwaitreaders, rw_nwaitwriters, op, pc, held, dumped>>

LockOps == {"rdlock", "wrlock", "tryrdlock", "trywrlock"}
Ops     == LockOps \cup {"unlock"}
PCs     == {"idle", "lock", "in", "wait", "relock", "woken", "cancel", "cleanup", "dead"}

\* pthread_rwlock_init, or PTHREAD_RWLOCK_INITIALIZER
Init ==
    /\ rw_mutex = Nobody
    /\ rw_refcount = 0
    /\ rw_nwaitreaders = 0
    /\ rw_nwaitwriters = 0
    /\ op = [t \in Threads |-> "unlock"]
    /\ pc = [t \in Threads |-> "idle"]
    /\ held = [t \in Threads |-> "none"]
    /\ dumped = FALSE

Sleeping(f) == {t \in Threads : pc[t] = "wait" /\ op[t] = f}

\* t owns rw_mutex and is in the body of f.
In(t, f) == pc[t] = "in" /\ op[t] = f

\* The functions return, and release rw_mutex, with h in t's hands.
Return(t, h) ==
    /\ pc' = [pc EXCEPT ![t] = "idle"]
    /\ held' = [held EXCEPT ![t] = h]
    /\ rw_mutex' = Nobody
-----------------------------------------------------------------------------
\* A thread without the lock asks for it; one that has it gives it back.
Call(t, f) ==
    /\ pc[t] = "idle"
    /\ IF held[t] = "none" THEN f \in LockOps ELSE f = "unlock"
    /\ op' = [op EXCEPT ![t] = f]
    /\ pc' = [pc EXCEPT ![t] = "lock"]
    /\ UNCHANGED <<rw_mutex, rw_refcount, rw_nwaitreaders, rw_nwaitwriters, held, dumped>>

\* pthread_mutex_lock on entry, and the one pthread_cond_wait ends with, also
\* when it ends by a cancellation.
Lock(t) ==
    /\ rw_mutex = Nobody
    /\ rw_mutex' = t
    /\ \/ pc[t] = "lock" /\ pc' = [pc EXCEPT ![t] = "in"]
       \/ pc[t] = "relock" /\ pc' = [pc EXCEPT ![t] = "woken"]
       \/ pc[t] = "cancel" /\ pc' = [pc EXCEPT ![t] = "cleanup"]
    /\ UNCHANGED <<rw_refcount, rw_nwaitreaders, rw_nwaitwriters, op, held, dumped>>

\* One waiter less, of the kind t is.
Uncount(t) ==
    IF op[t] = "rdlock"
    THEN rw_nwaitreaders' = rw_nwaitreaders - 1 /\ UNCHANGED rw_nwaitwriters
    ELSE rw_nwaitwriters' = rw_nwaitwriters - 1 /\ UNCHANGED rw_nwaitreaders

\* pthread_cond_wait has returned: the counter, then the while condition again.
Woken(t) ==
    /\ pc[t] = "woken"
    /\ Uncount(t)
    /\ pc' = [pc EXCEPT ![t] = "in"]
    /\ UNCHANGED <<rw_mutex, rw_refcount, op, held, dumped>>

\* Mutation: a reader does not look at the waiting writers.
RdLockGreedy(t) ==
    /\ In(t, "rdlock")
    /\ IF rw_refcount < 0
       THEN /\ rw_nwaitreaders' = rw_nwaitreaders + 1
            /\ pc' = [pc EXCEPT ![t] = "wait"]
            /\ rw_mutex' = Nobody
            /\ UNCHANGED <<rw_refcount, held>>
       ELSE /\ rw_refcount' = rw_refcount + 1
            /\ Return(t, "read")
            /\ UNCHANGED rw_nwaitreaders
    /\ UNCHANGED <<rw_nwaitwriters, op, dumped>>

\* pthread_rwlock_rdlock
RdLock(t) ==
    /\ In(t, "rdlock")
    /\ IF rw_refcount < 0 \/ rw_nwaitwriters > 0
       THEN /\ rw_nwaitreaders' = rw_nwaitreaders + 1
            /\ pc' = [pc EXCEPT ![t] = "wait"]
            /\ rw_mutex' = Nobody
            /\ UNCHANGED <<rw_refcount, held>>
       ELSE /\ rw_refcount' = rw_refcount + 1
            /\ Return(t, "read")
            /\ UNCHANGED rw_nwaitreaders
    /\ UNCHANGED <<rw_nwaitwriters, op, dumped>>

\* pthread_rwlock_wrlock
WrLock(t) ==
    /\ In(t, "wrlock")
    /\ IF rw_refcount # 0
       THEN /\ rw_nwaitwriters' = rw_nwaitwriters + 1
            /\ pc' = [pc EXCEPT ![t] = "wait"]
            /\ rw_mutex' = Nobody
            /\ UNCHANGED <<rw_refcount, held>>
       ELSE /\ rw_refcount' = -1
            /\ Return(t, "write")
            /\ UNCHANGED rw_nwaitwriters
    /\ UNCHANGED <<rw_nwaitreaders, op, dumped>>

\* Mutation: the EBUSY path forgets pthread_mutex_unlock.
TryRdLockKeepsMutex(t) ==
    /\ In(t, "tryrdlock")
    /\ IF rw_refcount = -1 \/ rw_nwaitwriters > 0
       THEN pc' = [pc EXCEPT ![t] = "idle"] /\ UNCHANGED <<held, rw_mutex, rw_refcount>>
       ELSE Return(t, "read") /\ rw_refcount' = rw_refcount + 1
    /\ UNCHANGED <<rw_nwaitreaders, rw_nwaitwriters, op, dumped>>

\* pthread_rwlock_tryrdlock: EBUSY leaves the caller with nothing.
TryRdLock(t) ==
    /\ In(t, "tryrdlock")
    /\ IF rw_refcount = -1 \/ rw_nwaitwriters > 0
       THEN Return(t, "none") /\ UNCHANGED rw_refcount
       ELSE Return(t, "read") /\ rw_refcount' = rw_refcount + 1
    /\ UNCHANGED <<rw_nwaitreaders, rw_nwaitwriters, op, dumped>>

\* Mutation: only a writer keeps a writer out.
TryWrLockShared(t) ==
    /\ In(t, "trywrlock")
    /\ IF rw_refcount = -1
       THEN Return(t, "none") /\ UNCHANGED rw_refcount
       ELSE Return(t, "write") /\ rw_refcount' = -1
    /\ UNCHANGED <<rw_nwaitreaders, rw_nwaitwriters, op, dumped>>

\* pthread_rwlock_trywrlock
TryWrLock(t) ==
    /\ In(t, "trywrlock")
    /\ IF rw_refcount # 0
       THEN Return(t, "none") /\ UNCHANGED rw_refcount
       ELSE Return(t, "write") /\ rw_refcount' = -1
    /\ UNCHANGED <<rw_nwaitreaders, rw_nwaitwriters, op, dumped>>
-----------------------------------------------------------------------------
\* Mutation: the readers are woken first.
UnlockWakesReaders(woken) ==
    IF rw_nwaitreaders > 0
    THEN woken = Sleeping("rdlock")
    ELSE IF Sleeping("wrlock") = {} THEN woken = {}
                                    ELSE \E w \in Sleeping("wrlock") : woken = {w}

\* unlock wakes one sleeping writer if any writer is counted as waiting, else
\* every sleeping reader.
UnlockWakes(woken) ==
    IF rw_nwaitwriters > 0
    THEN IF Sleeping("wrlock") = {} THEN woken = {}
                                    ELSE \E w \in Sleeping("wrlock") : woken = {w}
    ELSE woken = Sleeping("rdlock")

\* pthread_rwlock_unlock
Unlock(t) ==
    /\ In(t, "unlock")
    /\ IF rw_refcount = 0
       THEN dumped' = TRUE /\ UNCHANGED <<rw_refcount, rw_mutex, pc, held>>
       ELSE /\ rw_refcount' = IF rw_refcount > 0 THEN rw_refcount - 1 ELSE 0
            /\ \E woken \in SUBSET Threads :
                  /\ UnlockWakes(woken)
                  /\ pc' = [u \in Threads |-> IF u = t THEN "idle"
                                              ELSE IF u \in woken THEN "relock"
                                              ELSE pc[u]]
            /\ held' = [held EXCEPT ![t] = "none"]
            /\ rw_mutex' = Nobody
            /\ UNCHANGED dumped
    /\ UNCHANGED <<rw_nwaitreaders, rw_nwaitwriters, op>>

\* POSIX lets pthread_cond_wait return without a signal.
SpuriousWake(t) ==
    /\ pc[t] = "wait"
    /\ pc' = [pc EXCEPT ![t] = "relock"]
    /\ UNCHANGED <<rw_mutex, rw_refcount, rw_nwaitreaders, rw_nwaitwriters, op, held, dumped>>

\* pthread_cancel of a thread blocked in pthread_cond_wait.  POSIX: such a
\* thread consumes no signal, and gets the mutex back before its cleanup.
Cancel(t) ==
    /\ pc[t] = "wait"
    /\ pc' = [pc EXCEPT ![t] = "cancel"]
    /\ UNCHANGED <<rw_mutex, rw_refcount, rw_nwaitreaders, rw_nwaitwriters, op, held, dumped>>

\* Mutation: no cleanup handler, the thread just ends.
CleanupMissing(t) ==
    /\ pc[t] = "cleanup"
    /\ pc' = [pc EXCEPT ![t] = "dead"]
    /\ rw_mutex' = Nobody
    /\ UNCHANGED <<rw_refcount, rw_nwaitreaders, rw_nwaitwriters, op, held, dumped>>

\* rwlock_cancelrdwait, rwlock_cancelwrwait
Cleanup(t) ==
    /\ pc[t] = "cleanup"
    /\ Uncount(t)
    /\ pc' = [pc EXCEPT ![t] = "dead"]
    /\ rw_mutex' = Nobody
    /\ UNCHANGED <<rw_refcount, op, held, dumped>>

Step(t) ==
    \/ Lock(t) \/ Woken(t) \/ Cleanup(t)
    \/ RdLock(t) \/ WrLock(t) \/ TryRdLock(t) \/ TryWrLock(t) \/ Unlock(t)

Next ==
    /\ ~dumped
    /\ \E t \in Threads :
          \/ \E f \in Ops : Call(t, f)
          \/ Step(t)
          \/ SpuriousWake(t)
          \/ Cancel(t)

Spec == Init /\ [][Next]_vars
-----------------------------------------------------------------------------
(***************************************************************************)
(* Properties.                                                             *)
(***************************************************************************)
\* The counters of waiters never run below zero, rw_refcount never below -1.
TypeOK ==
    /\ rw_mutex \in Threads \cup {Nobody}
    /\ rw_refcount \in Nat \cup {-1}
    /\ rw_nwaitreaders \in Nat
    /\ rw_nwaitwriters \in Nat
    /\ op \in [Threads -> Ops]
    /\ pc \in [Threads -> PCs]
    /\ held \in [Threads -> {"none", "read", "write"}]
    /\ dumped \in BOOLEAN

Holders(h) == {t \in Threads : held[t] = h}

\* What test1 looks for with its own counters (test1.c:69, :90, :92): a writer
\* is alone, readers share, and rw_refcount says which; the err_dump of unlock
\* (:21) is never reached.
Exclusion ==
    /\ ~dumped
    /\ \/ rw_refcount = -1 /\ Holders("read") = {} /\ \E w \in Threads : Holders("write") = {w}
       \/ Holders("write") = {} /\ rw_refcount = Cardinality(Holders("read"))

\* The threads rw_nwaitreaders or rw_nwaitwriters stands for.
Counted(f) ==
    {t \in Threads : op[t] = f /\ pc[t] \in {"wait", "relock", "woken", "cancel", "cleanup"}}

\* Once every thread is out of the functions and has given its lock back, the
\* three counters are zero and pthread_rwlock_destroy does not return EBUSY,
\* also when threads were cancelled while they waited (testcancel.c:26).
QuietLockIsFree ==
    (\A t \in Threads : pc[t] \in {"idle", "dead"} /\ held[t] = "none") =>
        rw_refcount = 0 /\ rw_nwaitreaders = 0 /\ rw_nwaitwriters = 0

WriterAwake     == \E t \in Threads : op[t] = "wrlock" /\ pc[t] \in {"relock", "woken", "in"}
WriterCancelled == \E t \in Threads : op[t] = "wrlock" /\ pc[t] \in {"cancel", "cleanup", "dead"}

\* Nobody sleeps beside a free lock with no one on the way to it: a sleeping
\* thread means that a writer is awake and will take the lock.  The one
\* exception is the cancellation of a writer.  Until rwlock_cancelwrwait has
\* run, unlock (:25) still counts that writer and signals it alone; the
\* handler then wakes no one, and the sleeping readers are forgotten.
NoForgottenWaiter ==
    rw_refcount = 0 =>
        /\ Sleeping("wrlock") # {} => WriterAwake
        /\ Sleeping("rdlock") # {} => WriterAwake \/ WriterCancelled

\* No thread gets a read lock while a writer waits (rdlock:28, tryrdlock:16).
WritersFirst ==
    [][\A t \in Threads : held[t] # "read" /\ held'[t] = "read" => Counted("wrlock") = {}]_vars
-----------------------------------------------------------------------------
(***************************************************************************)
(* Liveness.  A thread inside a function goes on, and does not lose the    *)
(* race for rw_mutex for ever.  Nothing is assumed of the callers.         *)
(***************************************************************************)
FairSpec == Spec /\ \A t \in Threads : WF_vars(Step(t)) /\ SF_vars(Lock(t))

\* A free lock does not stay free while threads sleep for it, unless a waiting
\* writer was cancelled.
FreeLockIsTaken ==
    rw_refcount = 0 /\ Sleeping("rdlock") \cup Sleeping("wrlock") # {} ~>
        rw_refcount # 0 \/ WriterCancelled
=============================================================================
