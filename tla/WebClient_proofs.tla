--------------------------- MODULE WebClient_proofs ---------------------------
(***************************************************************************)
(* Proofs about WebClient, for every number of files and every maxnconn.   *)
(***************************************************************************)
EXTENDS WebClient, FiniteSetTheorems, TLAPS

\* The types that do not depend on how many threads have got how far.
BasicType ==
    /\ status \in {"up"} \cup Ends
    /\ mpc \in MainPCs
    /\ i \in 0 .. nfiles
    /\ tpc \in [Files -> ThreadPCs]
    /\ f_flags \in [Files -> {0, F_CONNECTING, F_READING, F_DONE}]
    /\ joined \subseteq Files
    /\ nlefttoread = nfiles
    /\ ndone_mutex \in Files \cup {Main, Nobody}

ThreadCS == {"notify", "signal", "unlock"}
MainCS   == {"check", "sleep", "scan"}

\* The owner of ndone_mutex is the one thread inside its critical section.
MutexInv ==
    /\ \A f \in Files : tpc[f] \in ThreadCS <=> ndone_mutex = f
    /\ mpc \in MainCS <=> ndone_mutex = Main

\* The flags tell main which files have no thread yet.
FlagInv == \A f \in Files : f_flags[f] = 0 <=> tpc[f] = "none"

\* The counters are the sizes of the sets they stand for.
CountInv ==
    /\ nlefttoconn = Cardinality(Waiting)
    /\ nconn = Cardinality(Started)
    /\ ndone = Cardinality(Reported)
    /\ nconn <= maxnconn

\* While a report has not been signalled its thread is still before the signal.
WakeInv ==
    mpc \in {"sleep", "wait"} /\ ndone > 0 => \E f \in Files : tpc[f] = "signal"

IInv == /\ BasicType /\ MutexInv /\ FlagInv /\ CountInv /\ WakeInv
        /\ status # "nothing found"
-----------------------------------------------------------------------------
LEMMA FilesFinite ==
    ASSUME NEW S, S \subseteq Files
    PROVE  IsFiniteSet(S) /\ Cardinality(S) \in 0 .. nfiles
  <1>1. IsFiniteSet(Files) /\ Cardinality(Files) = nfiles
    BY FS_Interval, WebAssumption DEF Files
  <1>2. S \in SUBSET Files
    OBVIOUS
  <1>3. IsFiniteSet(S) /\ Cardinality(S) <= nfiles
    BY <1>1, <1>2, FS_Subset
  <1>4. Cardinality(S) \in Nat
    BY <1>3, FS_CardinalityType
  <1> QED BY <1>3, <1>4, WebAssumption

LEMMA FileRange ==
    /\ nfiles \in 0 .. nfiles /\ 0 \in 0 .. nfiles
    /\ \A f \in Files : f \in 0 .. nfiles
    /\ \A n \in 0 .. nfiles : n < nfiles => n \in Files /\ n + 1 \in 0 .. nfiles
  BY WebAssumption DEF Files

LEMMA Finite ==
    /\ IsFiniteSet(Waiting) /\ Cardinality(Waiting) \in 0 .. nfiles
    /\ IsFiniteSet(Started) /\ Cardinality(Started) \in 0 .. nfiles
    /\ IsFiniteSet(Reported) /\ Cardinality(Reported) \in 0 .. nfiles
  <1>1. Waiting \subseteq Files /\ Started \subseteq Files /\ Reported \subseteq Files
    BY DEF Waiting, Started, Reported
  <1> QED BY <1>1, FilesFinite

LEMMA CountPositive == IInv => (ndone > 0 <=> ndone # 0)
  <1>1. \A n \in 0 .. nfiles : n > 0 <=> n # 0
    BY WebAssumption
  <1>2. IInv => ndone \in 0 .. nfiles
    BY Finite, Zenon DEF IInv, CountInv
  <1> QED BY <1>1, <1>2

LEMMA InitInv == Init => IInv
  <1> SUFFICES ASSUME Init PROVE IInv
    OBVIOUS
  <1> USE WebAssumption DEF Init
  <1>1. BasicType /\ FlagInv
    BY DEF BasicType, FlagInv, Ends, MainPCs, ThreadPCs, Files, Main, Nobody
  <1>2. MutexInv /\ WakeInv
    BY DEF MutexInv, WakeInv, ThreadCS, MainCS, Files, Main, Nobody
  <1>3. Waiting = Files /\ Started = {} /\ Reported = {}
    BY DEF Waiting, Started, Reported
  <1>4. Cardinality(Files) = nfiles /\ Cardinality({}) = 0
    BY FS_Interval, FS_EmptySet DEF Files
  <1>5. CountInv
    BY <1>3, <1>4 DEF CountInv
  <1> QED BY <1>1, <1>2, <1>5 DEF IInv

\* Every step keeps the basic types.
LEMMA BasicStep == IInv /\ [Next]_vars => BasicType'
  <1> SUFFICES ASSUME IInv, [Next]_vars PROVE BasicType'
    OBVIOUS
  <1>t. BasicType
    BY Zenon DEF IInv
  <1> USE <1>t DEF BasicType, Ends, MainPCs, ThreadPCs
  <1>1. CASE HomePage \/ MainFails \/ EndCreate \/ MainLock \/ MainWait \/ SpuriousWake
    BY <1>1, Zenon DEF HomePage, MainFails, EndCreate, MainLock, MainWait, SpuriousWake
  <1>2. CASE CreateThread
    <2>2. CASE \A f \in Files : f_flags[f] # 0
      BY <1>2, <2>2, FileRange, Zenon DEF CreateThread
    <2>3. CASE \E f \in Files : f_flags[f] = 0
      <3>1. PICK f \in Files : /\ i' = f
                              /\ f_flags' = [f_flags EXCEPT ![f] = F_CONNECTING]
                              /\ tpc' = [tpc EXCEPT ![f] = "connect"]
                              /\ UNCHANGED status
        BY <1>2, <2>3, Zenon DEF CreateThread
      <3> QED BY <1>2, FileRange, <3>1 DEF CreateThread
    <2> QED BY <2>2, <2>3, Zenon
  <1>3. CASE MainCheck \/ SkipFile \/ MainUnlock
    BY <1>3, FileRange, Zenon DEF MainCheck, SkipFile, MainUnlock
  <1>3b. CASE JoinThread
    BY <1>3b, FileRange, Zenon DEF JoinThread
  <1>4. ASSUME NEW f \in Files, ThreadConnect(f) \/ write_get_cmd(f) \/ ThreadRead(f)
        PROVE  BasicType'
    BY <1>4, Zenon DEF ThreadConnect, write_get_cmd, ThreadRead, Goto
  <1>5. ASSUME NEW f \in Files, SetDone(f) \/ ThreadLock(f) \/ ThreadNotify(f)
        PROVE  BasicType'
    BY <1>5, Zenon DEF SetDone, ThreadLock, ThreadNotify, Goto
  <1>6. ASSUME NEW f \in Files, ThreadSignal(f) PROVE BasicType'
    BY <1>6 DEF ThreadSignal, Goto
  <1>7. ASSUME NEW f \in Files, ThreadUnlock(f) \/ ThreadFails(f) PROVE BasicType'
    BY <1>7, Zenon DEF ThreadUnlock, ThreadFails, Goto
  <1>8. CASE UNCHANGED vars
    BY <1>8, Zenon DEF vars
  <1> QED
    BY <1>1, <1>2, <1>3, <1>3b, <1>4, <1>5, <1>6, <1>7, <1>8, Zenon DEF Next, MainStep, do_get_read
-----------------------------------------------------------------------------
\* Steps that leave every thread and every counter alone.
LEMMA MainOnly ==
    ASSUME IInv, BasicType', UNCHANGED <<tpc, f_flags, nconn, nlefttoconn, ndone>>,
           status' # "nothing found",
           mpc' \in MainCS <=> ndone_mutex' = Main,
           \A f \in Files : ndone_mutex = f <=> ndone_mutex' = f,
           mpc' \in {"sleep", "wait"} => mpc \in {"sleep", "wait"} \/ ndone = 0
    PROVE  IInv'
  <1>1. MutexInv' /\ FlagInv'
    BY Zenon DEF IInv, MutexInv, FlagInv
  <1>2. Waiting' = Waiting /\ Started' = Started /\ Reported' = Reported
    BY Zenon DEF Waiting, Started, Reported
  <1>3. CountInv'
    BY <1>2, Zenon DEF IInv, CountInv
  <1>4. WakeInv'
    <2> SUFFICES ASSUME mpc' \in {"sleep", "wait"}, ndone > 0
                 PROVE  \E f \in Files : tpc[f] = "signal"
      BY Zenon DEF WakeInv
    <2>1. ndone # 0
      BY CountPositive, Zenon
    <2> QED BY <2>1, Zenon DEF IInv, WakeInv
  <1> QED BY <1>1, <1>3, <1>4, Zenon DEF IInv

\* Steps of the thread of f that are not reports.
LEMMA ThreadOnly ==
    ASSUME IInv, BasicType', NEW f \in Files,
           UNCHANGED <<status, mpc, nconn, nlefttoconn, ndone>>,
           tpc' = [tpc EXCEPT ![f] = tpc'[f]],
           tpc[f] # "none", tpc'[f] # "none", tpc[f] # "signal",
           f \in Reported' <=> f \in Reported,
           MutexInv', FlagInv'
    PROVE  IInv'
  <1>1. Waiting' = Waiting /\ Started' = Started /\ Reported' = Reported
    BY Zenon DEF Waiting, Started, Reported, IInv, BasicType
  <1>2. CountInv'
    BY <1>1, Zenon DEF IInv, CountInv
  <1>3. WakeInv'
    <2>1. \A g \in Files : tpc[g] = "signal" => tpc'[g] = "signal"
      BY Zenon DEF IInv, BasicType
    <2> QED BY <2>1, Zenon DEF IInv, WakeInv
  <1> QED BY <1>2, <1>3, Zenon DEF IInv

\* main starts the thread of the first file that has none.
LEMMA CreateStep == ASSUME IInv, BasicType', CreateThread PROVE IInv'
  <1> USE WebAssumption
  <1>1. \E f \in Files : f_flags[f] = 0
    <2>1. Cardinality(Waiting) > 0
      BY Zenon DEF CreateThread, IInv, CountInv
    <2>2. Waiting # {}
      BY <2>1, FS_EmptySet
    <2> QED BY <2>2, Zenon DEF IInv, FlagInv, Waiting
  <1>2. PICK f \in Files :
           /\ f_flags[f] = 0
           /\ f_flags' = [f_flags EXCEPT ![f] = F_CONNECTING]
           /\ tpc' = [tpc EXCEPT ![f] = "connect"]
           /\ nconn' = nconn + 1
           /\ nlefttoconn' = nlefttoconn - 1
           /\ UNCHANGED status
    BY <1>1, Zenon DEF CreateThread, FirstFree
  <1>3. tpc[f] = "none"
    BY <1>2, Zenon DEF IInv, FlagInv
  <1>4. MutexInv' /\ FlagInv'
    BY <1>2, <1>3
       DEF CreateThread, IInv, MutexInv, FlagInv, BasicType, ThreadCS, MainCS, F_CONNECTING
  <1>5. /\ f \in Waiting /\ Waiting' = Waiting \ {f}
        /\ f \notin Started /\ Started' = Started \cup {f}
        /\ Reported' = Reported
    BY <1>2, <1>3, Zenon DEF Waiting, Started, Reported, IInv, BasicType
  <1>6. /\ Cardinality(Waiting') = Cardinality(Waiting) - 1
        /\ Cardinality(Started') = Cardinality(Started) + 1
    BY <1>5, Finite, FS_RemoveElement, FS_AddElement, Zenon
  <1>7. CountInv'
    BY <1>2, <1>5, <1>6, Finite DEF CreateThread, IInv, CountInv
  <1>8. WakeInv'
    BY Zenon DEF CreateThread, IInv, WakeInv
  <1> QED BY <1>2, <1>4, <1>7, <1>8, Zenon DEF IInv

\* ndone++ counts the thread that is about to signal.
LEMMA NotifyStep == ASSUME IInv, BasicType', NEW f \in Files, ThreadNotify(f) PROVE IInv'
  <1> USE DEF ThreadNotify, Goto
  <1>1. MutexInv' /\ FlagInv'
    BY DEF IInv, MutexInv, FlagInv, BasicType, ThreadCS
  <1>2. /\ f \notin Reported /\ Reported' = Reported \cup {f}
        /\ Waiting' = Waiting /\ Started' = Started
    BY DEF Waiting, Started, Reported, IInv, BasicType
  <1>3. Cardinality(Reported') = Cardinality(Reported) + 1
    BY <1>2, Finite, FS_AddElement, Zenon
  <1>4. CountInv'
    BY <1>2, <1>3 DEF IInv, CountInv
  <1>5. tpc'[f] = "signal"
    BY DEF IInv, BasicType
  <1>6. WakeInv'
    BY <1>5 DEF WakeInv
  <1> QED BY <1>1, <1>4, <1>6 DEF IInv

\* The signal finds main asleep, or outside the wait: not between test and sleep.
LEMMA SignalStep == ASSUME IInv, BasicType', NEW f \in Files, ThreadSignal(f) PROVE IInv'
  <1> USE WebAssumption DEF ThreadSignal, Goto
  <1>1. ndone_mutex = f /\ mpc \notin MainCS
    BY DEF IInv, MutexInv, ThreadCS, Files, Main
  <1>2. mpc' \notin MainCS /\ mpc' # "wait"
    BY <1>1 DEF MainCS
  <1>3. MutexInv' /\ FlagInv'
    BY <1>1, <1>2 DEF IInv, MutexInv, FlagInv, BasicType, ThreadCS
  <1>4. Waiting' = Waiting /\ Started' = Started /\ Reported' = Reported
    BY DEF Waiting, Started, Reported, IInv, BasicType
  <1>5. CountInv'
    BY <1>4 DEF IInv, CountInv
  <1>6. WakeInv'
    BY <1>2 DEF WakeInv, MainCS
  <1> QED BY <1>3, <1>5, <1>6 DEF IInv

LEMMA InvStep == IInv /\ [Next]_vars => IInv'
  <1> SUFFICES ASSUME IInv, [Next]_vars PROVE IInv'
    OBVIOUS
  <1>0. BasicType /\ BasicType'
    BY BasicStep, Zenon DEF IInv
  <1>m. Main \notin Files /\ Nobody \notin Files /\ Main # Nobody
    BY WebAssumption DEF Main, Nobody, Files
  <1> USE <1>0
  <1>1. CASE HomePage \/ MainFails \/ EndCreate \/ SpuriousWake
    BY <1>1, MainOnly, Zenon
       DEF HomePage, MainFails, EndCreate, SpuriousWake, MainCS, IInv, MutexInv
  <1>2. CASE MainLock \/ MainCheck \/ MainWait
    BY <1>2, <1>m, MainOnly, Zenon DEF MainLock, MainCheck, MainWait, MainCS, IInv, MutexInv
  <1>3. CASE SkipFile \/ JoinThread \/ MainUnlock
    BY <1>3, <1>m, MainOnly, Zenon DEF SkipFile, JoinThread, MainUnlock, MainCS, IInv, MutexInv
  <1>4. CASE CreateThread
    BY <1>4, CreateStep
  <1>5. ASSUME NEW f \in Files,
               \/ ThreadConnect(f) \/ write_get_cmd(f) \/ ThreadRead(f) \/ SetDone(f)
        PROVE  IInv'
    <2>1. MutexInv'
      BY <1>5, Zenon DEF ThreadConnect, write_get_cmd, ThreadRead, SetDone, Goto, IInv, MutexInv,
                  ThreadCS, BasicType
    <2>2. FlagInv'
      <3> USE DEF Goto, IInv, FlagInv, BasicType
      <3>1. CASE ThreadConnect(f) \/ ThreadRead(f)
        BY <3>1, Zenon DEF ThreadConnect, ThreadRead
      <3>2. CASE write_get_cmd(f)
        BY <3>2 DEF write_get_cmd, F_READING
      <3>3. CASE SetDone(f)
        BY <3>3 DEF SetDone, F_DONE
      <3> QED BY <1>5, <3>1, <3>2, <3>3, Zenon
    <2>3. /\ tpc[f] \notin {"none", "signal", "unlock", "returned"}
          /\ tpc'[f] \notin {"none", "signal", "unlock", "returned"}
          /\ tpc' = [tpc EXCEPT ![f] = tpc'[f]]
      BY <1>5 DEF ThreadConnect, write_get_cmd, ThreadRead, SetDone, Goto, BasicType
    <2>4. UNCHANGED <<status, mpc, nconn, nlefttoconn, ndone>>
      BY <1>5 DEF ThreadConnect, write_get_cmd, ThreadRead, SetDone
    <2> QED BY <2>1, <2>2, <2>3, <2>4, ThreadOnly DEF Reported
  <1>6. ASSUME NEW f \in Files, ThreadLock(f) \/ ThreadUnlock(f) PROVE IInv'
    <2>1. MutexInv'
      <3> USE <1>m DEF Goto, IInv, MutexInv, ThreadCS, BasicType
      <3>1. CASE ThreadLock(f)
        BY <3>1 DEF ThreadLock
      <3>2. CASE ThreadUnlock(f)
        BY <3>2 DEF ThreadUnlock
      <3> QED BY <1>6, <3>1, <3>2, Zenon
    <2>1b. FlagInv'
      BY <1>6, Zenon DEF ThreadLock, ThreadUnlock, Goto, IInv, FlagInv, BasicType
    <2>2. /\ tpc[f] \notin {"none", "signal"} /\ tpc'[f] # "none"
          /\ tpc' = [tpc EXCEPT ![f] = tpc'[f]]
          /\ f \in Reported' <=> f \in Reported
      BY <1>6 DEF ThreadLock, ThreadUnlock, Goto, BasicType, Reported
    <2> QED BY <1>6, <2>1, <2>1b, <2>2, ThreadOnly DEF ThreadLock, ThreadUnlock
  <1>7. ASSUME NEW f \in Files, ThreadNotify(f) PROVE IInv'
    BY <1>7, NotifyStep
  <1>8. ASSUME NEW f \in Files, ThreadSignal(f) PROVE IInv'
    BY <1>8, SignalStep
  <1>9. ASSUME NEW f \in Files, ThreadFails(f) PROVE IInv'
    BY <1>9, MainOnly DEF ThreadFails, IInv, MutexInv
  <1>10. CASE UNCHANGED vars
    BY <1>10, MainOnly, Zenon DEF vars, IInv, MutexInv
  <1> QED
    BY <1>1, <1>2, <1>3, <1>4, <1>5, <1>6, <1>7, <1>8, <1>9, <1>10
       DEF Next, MainStep, do_get_read

\* The inductive invariant: which files the threads of do_get_read are at, and
\* that nconn, nlefttoconn, nlefttoread and ndone count them.
THEOREM InvHolds == Spec => []IInv
  BY InitInv, InvStep, PTL DEF Spec

\* main and the threads keep nconn, nlefttoconn, nlefttoread and ndone in range.
THEOREM TypeCorrect == Spec => []TypeOK
  <1>1. IInv => TypeOK
    <2> SUFFICES ASSUME IInv PROVE TypeOK
      OBVIOUS
    <2>1. nconn \in 0 .. nfiles /\ nlefttoconn \in 0 .. nfiles /\ ndone \in 0 .. nfiles
      BY Finite, Zenon DEF IInv, CountInv
    <2> QED BY <2>1, FileRange, Zenon DEF IInv, BasicType, TypeOK
  <1> QED BY <1>1, InvHolds, PTL

\* main never sleeps through the report of a thread.
THEOREM NoLostWakeupHolds == Spec => []NoLostWakeup
  <1>1. IInv => NoLostWakeup
    BY Zenon DEF IInv, CountInv, WakeInv, NoLostWakeup
  <1> QED BY <1>1, InvHolds, PTL

\* At most maxnconn threads run, no file gets two, and main always finds a file
\* when its counter says that one is left.
THEOREM EachFileOnceHolds == Spec => []EachFileOnce
  <1>1. ASSUME IInv PROVE Cardinality(Running) <= maxnconn
    <2>1. Running \in SUBSET Started
      BY DEF Running, Started
    <2>2. Cardinality(Running) <= Cardinality(Started)
      BY <2>1, Finite, FS_Subset
    <2>3. Running \subseteq Files
      BY DEF Running
    <2>4. Cardinality(Running) \in 0 .. nfiles
      BY <2>3, FilesFinite
    <2>5. nconn = Cardinality(Started) /\ nconn <= maxnconn
      BY <1>1, Zenon DEF IInv, CountInv
    <2>6. Cardinality(Running) \in Nat /\ Cardinality(Started) \in Nat
      BY <2>4, Finite
    <2> QED BY <2>2, <2>5, <2>6, WebAssumption
  <1>2. IInv => EachFileOnce
    BY <1>1, Zenon DEF IInv, FlagInv, CountInv, EachFileOnce
  <1> QED BY <1>2, InvHolds, PTL
=============================================================================
