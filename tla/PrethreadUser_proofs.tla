------------------------- MODULE PrethreadUser_proofs -------------------------
(***************************************************************************)
(* Proofs about PrethreadUser, for every number of threads, every set of   *)
(* connections, every backlog and every ring size, and that it implements  *)
(* Dispatch.                                                               *)
(***************************************************************************)
EXTENDS PrethreadUser, TLAPS

\* A new connection joins the backlog: it is neither queued nor open yet.
LEMMA ConnectBacklog ==
    ASSUME BacklogInv, backlog \in Seq(Conns), NEW c \in Conns, ClientConnect(c)
    PROVE  /\ BacklogInv'
           /\ \A d : (\E j \in DOMAIN backlog' : backlog'[j] = d)
                       <=> (\E j \in DOMAIN backlog : backlog[j] = d) \/ d = c
  <1> USE DEF ClientConnect
  <1>1. c \notin arrived /\ arrived' = arrived \cup {c}
    OBVIOUS
  <1>2. DOMAIN backlog' = 1 .. Len(backlog) + 1
    OBVIOUS
  <1>3. \A j \in DOMAIN backlog' :
           backlog'[j] = IF j = Len(backlog) + 1 THEN c ELSE backlog[j]
    BY <1>2
  <1>4. DOMAIN backlog = 1 .. Len(backlog) /\ Len(backlog) \in Nat
    OBVIOUS
  <1>5. \A j \in DOMAIN backlog' : backlog'[j] \in arrived' \ open'
    BY <1>1, <1>2, <1>3, <1>4 DEF BacklogInv
  <1>6. \A j, k \in DOMAIN backlog' : backlog'[j] = backlog'[k] => j = k
    BY <1>1, <1>2, <1>3, <1>4 DEF BacklogInv
  <1>7. Len(backlog) + 1 \in DOMAIN backlog' /\ DOMAIN backlog \subseteq DOMAIN backlog'
    BY <1>2, <1>4
  <1> QED BY <1>2, <1>3, <1>4, <1>5, <1>6, <1>7 DEF BacklogInv

\* accept takes the head of the backlog, which was established and not open.
LEMMA AcceptBacklog ==
    ASSUME BacklogInv, backlog \in Seq(Conns), NEW a, AcceptInto(a), arrived' = arrived
    PROVE  /\ BacklogInv'
           /\ Head(backlog) \in arrived \ open
           /\ \A d : (\E j \in DOMAIN backlog' : backlog'[j] = d)
                       <=> (\E j \in DOMAIN backlog : backlog[j] = d) /\ d # Head(backlog)
  <1> USE DEF AcceptInto
  <1>1. /\ Head(backlog) = backlog[1] /\ 1 \in DOMAIN backlog
        /\ Len(backlog) \in Nat /\ DOMAIN backlog = 1 .. Len(backlog)
    OBVIOUS
  <1>2. /\ DOMAIN backlog' = 1 .. Len(backlog) - 1
        /\ \A j \in DOMAIN backlog' : backlog'[j] = backlog[j + 1]
    BY <1>1
  <1>3. Head(backlog) \in arrived \ open
    BY <1>1 DEF BacklogInv
  <1>4. open' \subseteq arrived'
    BY <1>3 DEF BacklogInv
  <1>5. \A j \in DOMAIN backlog' : j + 1 \in DOMAIN backlog /\ j + 1 # 1
    BY <1>1, <1>2
  <1>6. \A j \in DOMAIN backlog' : backlog'[j] \in arrived' \ open'
    BY <1>1, <1>2, <1>5 DEF BacklogInv
  <1>7. \A j, k \in DOMAIN backlog' : backlog'[j] = backlog'[k] => j = k
    BY <1>1, <1>2, <1>5 DEF BacklogInv
  <1>8. ASSUME NEW d
        PROVE  (\E j \in DOMAIN backlog' : backlog'[j] = d)
                 <=> (\E j \in DOMAIN backlog : backlog[j] = d) /\ d # Head(backlog)
    <2>1. ASSUME NEW j \in DOMAIN backlog', backlog'[j] = d
          PROVE  (\E k \in DOMAIN backlog : backlog[k] = d) /\ d # Head(backlog)
      BY <1>1, <1>2, <1>5, <2>1 DEF BacklogInv
    <2>2. ASSUME NEW j \in DOMAIN backlog, backlog[j] = d, d # Head(backlog)
          PROVE  \E k \in DOMAIN backlog' : backlog'[k] = d
      <3>1. j - 1 \in DOMAIN backlog' /\ (j - 1) + 1 = j
        BY <1>1, <1>2, <2>2
      <3> QED BY <1>2, <2>2, <3>1
    <2> QED BY <2>1, <2>2
  <1> QED BY <1>3, <1>4, <1>6, <1>7, <1>8 DEF BacklogInv
-----------------------------------------------------------------------------
ThreadCS == {"check", "sleep", "take", "unlock"}
MainCS   == {"put", "test", "signal", "unlock"}

\* The owner of clifd_mutex is the one thread inside its critical section.
MutexInv ==
    /\ \A t \in Threads : tpc[t] \in ThreadCS <=> clifd_mutex = t
    /\ mpc \in MainCS <=> clifd_mutex = Main

\* waiters is the set of threads whose program counter is in the wait.
WaitInv == \A t \in Threads : t \in waiters <=> tpc[t] = "wait"

\* What a thread has seen under the mutex is still so when it acts on it.
SeenInv ==
    \A t \in Threads : /\ tpc[t] = "sleep" => iget = iput
                       /\ tpc[t] = "take" => iget # iput

IInv == TypeOK /\ MutexInv /\ SeenInv /\ WaitInv /\ BacklogInv /\ OneOwner
-----------------------------------------------------------------------------
\* The initial values have their types.
LEMMA InitType == Init => TypeOK
  BY BaseAssumption, RingAssumption
     DEF Init, BaseInit, TypeOK, Ends, MainPCs, ThreadPCs, Holding, Actors, Threads, Main,
         Nobody, Slots

\* The ring indices are slots of the ring after they are advanced.
LEMMA BumpType == \A s \in Slots : Bump(s) \in Slots
  BY RingAssumption DEF Bump, Slots

\* Every step keeps the types.
LEMMA TypeStep == TypeOK /\ [Next]_vars => TypeOK'
  <1> SUFFICES ASSUME TypeOK, [Next]_vars PROVE TypeOK'
    OBVIOUS
  <1> USE BaseAssumption DEF Actors, Ends, Holding, MainPCs, ThreadPCs, Nobody
  <1>1. ASSUME NEW c \in Conns, ClientConnect(c), UNCHANGED ringVars PROVE TypeOK'
    BY <1>1 DEF TypeOK, ClientConnect, ringVars
  <1>2. ASSUME NEW c \in Conns, ClientHangup(c), UNCHANGED ringVars PROVE TypeOK'
    BY <1>2 DEF TypeOK, ClientHangup, ringVars
  <1>3. ASSUME NEW t \in Threads, MakeThread(t), UNCHANGED ringVars PROVE TypeOK'
    BY <1>3 DEF TypeOK, MakeThread, ringVars
  <1>4. ASSUME NEW t \in Threads, CountConn(t), UNCHANGED ringVars PROVE TypeOK'
    BY <1>4 DEF TypeOK, CountConn, ringVars
  <1>5. ASSUME NEW t \in Threads, WebChildReturns(t), UNCHANGED ringVars PROVE TypeOK'
    BY <1>5 DEF TypeOK, WebChildReturns, ringVars
  <1>6. ASSUME NEW t \in Threads, WebChildExits(t), UNCHANGED ringVars PROVE TypeOK'
    BY <1>6 DEF TypeOK, WebChildExits, ringVars
  <1>7. ASSUME NEW t \in Threads, CloseConn(t), UNCHANGED ringVars PROVE TypeOK'
    BY <1>7 DEF TypeOK, CloseConn, ringVars
  <1>8. CASE MakeThreadFails /\ UNCHANGED ringVars
    BY <1>8 DEF TypeOK, MakeThreadFails, ringVars
  <1>9. CASE SigIntDefault /\ UNCHANGED ringVars
    BY <1>9 DEF TypeOK, SigIntDefault, ringVars
  <1>10. ASSUME NEW a \in Actors, SigInt(a), UNCHANGED ringVars PROVE TypeOK'
    BY <1>10 DEF TypeOK, SigInt, ringVars
  <1>11. CASE SigPrint /\ UNCHANGED ringVars
    <2>1. \A k \in 0 .. NThreads - 1 : thread_count[k] \in Nat
      BY DEF TypeOK, Threads
    <2>2. Len(report) \in 0 .. NThreads - 1
      BY <1>11 DEF TypeOK, SigPrint
    <2>3. report' \in Seq(Nat)
      BY <1>11, <2>1, <2>2 DEF TypeOK, SigPrint
    <2> QED BY <1>11, <2>3 DEF TypeOK, SigPrint, ringVars
  <1>12. CASE SigExit /\ UNCHANGED ringVars
    BY <1>12 DEF TypeOK, SigExit, ringVars
  <1>13. CASE EndMake("accept") /\ UNCHANGED ringVars
    BY <1>13 DEF TypeOK, EndMake, ringVars
  <1>14. CASE MainAccept
    BY <1>14 DEF TypeOK, MainAccept, AcceptInto, ringVars
  <1>15. CASE MainAcceptFails
    BY <1>15 DEF TypeOK, MainAcceptFails, AcceptError, ringVars
  <1>16. CASE MainLock
    BY <1>16 DEF TypeOK, MainLock
  <1>17. CASE MainPut
    BY <1>17, BumpType DEF TypeOK, MainPut
  <1>17b. CASE MainTest
    BY <1>17b DEF TypeOK, MainTest, ringVars
  <1>17c. CASE MainSignal
    BY <1>17c, Zenon DEF TypeOK, MainSignal, CondSignal
  <1>18. CASE MainUnlock
    BY <1>18 DEF TypeOK, MainUnlock
  <1>19. ASSUME NEW t \in Threads, ThreadLock(t) PROVE TypeOK'
    BY <1>19 DEF TypeOK, ThreadLock
  <1>19b. ASSUME NEW t \in Threads, ThreadCheck(t) PROVE TypeOK'
    BY <1>19b DEF TypeOK, ThreadCheck, ringVars
  <1>20. ASSUME NEW t \in Threads, ThreadWait(t) PROVE TypeOK'
    BY <1>20 DEF TypeOK, ThreadWait
  <1>21. ASSUME NEW t \in Threads, SpuriousWake(t) PROVE TypeOK'
    BY <1>21 DEF TypeOK, SpuriousWake
  <1>22. ASSUME NEW t \in Threads, ThreadTake(t) PROVE TypeOK'
    BY <1>22, BumpType DEF TypeOK, ThreadTake
  <1>23. ASSUME NEW t \in Threads, ThreadUnlock(t) PROVE TypeOK'
    BY <1>23 DEF TypeOK, ThreadUnlock
  <1>24. CASE UNCHANGED vars
    BY <1>24 DEF TypeOK, vars, baseVars, ringVars
  <1> QED
    BY <1>1, <1>2, <1>3, <1>4, <1>5, <1>6, <1>7, <1>8, <1>9, <1>10, <1>11, <1>12, <1>13,
       <1>14, <1>15, <1>16, <1>17, <1>17b, <1>17c, <1>18, <1>19, <1>19b, <1>20,
       <1>21, <1>22, <1>23, <1>24
       DEF Next, BaseNext, MainStep, ThreadStep

\* All variables keep their types and the ring indices stay inside clifd, for
\* every pool size and every ring size.
THEOREM TypeCorrect == Spec => []TypeOK
  <1>1. Init => TypeOK
    BY InitType
  <1>2. TypeOK /\ [Next]_vars => TypeOK'
    BY TypeStep
  <1> QED BY <1>1, <1>2, PTL DEF Spec
-----------------------------------------------------------------------------
LEMMA InitInv == Init => IInv
  <1> SUFFICES ASSUME Init PROVE IInv
    OBVIOUS
  <1>1. TypeOK
    BY InitType
  <1>2. MutexInv /\ WaitInv /\ SeenInv
    BY BaseAssumption
       DEF Init, BaseInit, MutexInv, WaitInv, SeenInv, ThreadCS, MainCS, Threads, Main, Nobody
  <1>3. BacklogInv
    BY DEF Init, BaseInit, BacklogInv
  <1>4. OneOwner
    BY DEF Init, BaseInit, OneOwner, Holders, Holding, MainHolds, Live, Full, Slots
  <1> QED BY <1>1, <1>2, <1>3, <1>4 DEF IInv

\* The control part of the invariant is kept by a step that leaves the ring, the
\* mutex, the wait set and who is inside them alone.
LEMMA ControlSame ==
    ASSUME IInv, UNCHANGED ringVars,
           mpc \in MainCS <=> mpc' \in MainCS,
           \A t \in Threads : /\ tpc[t] \in ThreadCS <=> tpc'[t] \in ThreadCS
                              /\ tpc'[t] \in {"sleep", "take", "wait"} => tpc[t] = tpc'[t]
                              /\ tpc[t] = "wait" => tpc'[t] = "wait"
    PROVE  MutexInv' /\ SeenInv' /\ WaitInv'
  BY DEF IInv, MutexInv, SeenInv, WaitInv, ringVars

\* A step in which no descriptor changes hands keeps the ownership part.
LEMMA OwnersSame ==
    ASSUME IInv, TypeOK', MutexInv', SeenInv', WaitInv',
           UNCHANGED <<connfd, backlog, open, arrived, clifd, iget, iput>>,
           status' # "close",
           MainHolds' = MainHolds, Full' = Full,
           \A t \in Threads : tpc[t] \in Holding <=> tpc'[t] \in Holding
    PROVE  IInv'
  <1>1. BacklogInv'
    BY DEF IInv, BacklogInv
  <1>2. Holders' = Holders /\ \A s \in Slots : Live(s)' <=> Live(s)
    BY DEF Holders, Live
  <1>3. OneOwner'
    BY <1>2 DEF IInv, OneOwner
  <1> QED BY <1>1, <1>3 DEF IInv

\* The steps of the environment, the handler and the sessions.
LEMMA Quiet ==
    ASSUME IInv, TypeOK', UNCHANGED <<connfd, backlog, open, arrived, ringVars>>,
           status' # "close",
           MainHolds' = MainHolds, Full' = Full,
           mpc \in MainCS <=> mpc' \in MainCS,
           \A t \in Threads : /\ tpc[t] \in Holding <=> tpc'[t] \in Holding
                              /\ tpc[t] \in ThreadCS <=> tpc'[t] \in ThreadCS
                              /\ tpc'[t] \in {"sleep", "take", "wait"} => tpc[t] = tpc'[t]
                              /\ tpc[t] = "wait" => tpc'[t] = "wait"
    PROVE  IInv'
  <1>1. MutexInv' /\ SeenInv' /\ WaitInv'
    BY ControlSame
  <1> QED BY <1>1, OwnersSame DEF ringVars

\* A new connection joins the backlog and nothing else.
LEMMA ConnectStep ==
    ASSUME IInv, TypeOK', NEW c \in Conns, ClientConnect(c), UNCHANGED ringVars
    PROVE  IInv'
  <1> USE DEF ClientConnect
  <1>1. MutexInv' /\ SeenInv' /\ WaitInv'
    BY ControlSame
  <1>2. BacklogInv'
    BY ConnectBacklog DEF IInv, TypeOK
  <1>3. Holders' = Holders /\ \A s \in Slots : Live(s)' <=> Live(s)
    BY DEF Holders, Live, Full, MainHolds, ringVars
  <1>4. OneOwner'
    BY <1>3 DEF IInv, OneOwner, ringVars
  <1> QED BY <1>1, <1>2, <1>4 DEF IInv

\* accept moves the head of the backlog into main's hand.
LEMMA AcceptStep == ASSUME IInv, TypeOK', MainAccept PROVE IInv'
  <1> USE BaseAssumption DEF MainAccept
  <1>1. MutexInv' /\ SeenInv' /\ WaitInv'
    BY ControlSame DEF MainCS
  <1>2. BacklogInv' /\ Head(backlog) \in arrived \ open
    BY AcceptBacklog DEF IInv, TypeOK
  <1>3. /\ Main \notin Holders /\ Holders' = Holders \cup {Main}
        /\ Holders \subseteq Threads
    BY DEF Holders, MainHolds, Threads, Main
  <1>4. \A s \in Slots : Live(s)' <=> Live(s)
    BY DEF Live, Full, ringVars
  <1>5. /\ connfd'[Main] = Head(backlog)
        /\ \A a \in Holders : connfd'[a] = connfd[a]
    BY <1>3 DEF AcceptInto, IInv, TypeOK, Actors, Threads, Main
  <1>6. /\ \A a \in Holders : connfd[a] # Head(backlog)
        /\ \A s \in Slots : Live(s) => clifd[s] # Head(backlog)
    BY <1>2 DEF IInv, OneOwner
  <1>7. {connfd'[a] : a \in Holders'} = {connfd[a] : a \in Holders} \cup {Head(backlog)}
    BY <1>3, <1>5
  <1>8. OneOwner'
    BY <1>3, <1>4, <1>5, <1>6, <1>7, SMTT(30) DEF IInv, OneOwner, AcceptInto, ringVars
  <1> QED BY <1>1, <1>2, <1>8 DEF IInv

\* Close takes the descriptor from the one thread that holds it.
LEMMA CloseStep ==
    ASSUME IInv, TypeOK', NEW t \in Threads, CloseConn(t), UNCHANGED ringVars
    PROVE  IInv'
  <1> USE BaseAssumption DEF CloseConn
  <1>1. MutexInv' /\ SeenInv' /\ WaitInv'
    BY ControlSame DEF IInv, TypeOK, ThreadCS
  <1>2. t \in Holders /\ Holders' = Holders \ {t}
    BY SMTT(30) DEF IInv, TypeOK, Holders, MainHolds, Holding, Threads, Main
  <1>3. connfd[t] \in open
    BY <1>2 DEF IInv, OneOwner
  <1>4. status' = status
    BY <1>3
  <1>5. \A s \in Slots : Live(s)' <=> Live(s)
    BY DEF Live, Full, ringVars
  <1>6. BacklogInv'
    BY DEF IInv, BacklogInv
  <1>7. \A a \in Holders' : connfd[a] # connfd[t]
    BY <1>2 DEF IInv, OneOwner
  <1>8. \A s \in Slots : Live(s) => clifd[s] # connfd[t]
    BY <1>2 DEF IInv, OneOwner
  <1>9. open' = {connfd'[a] : a \in Holders'} \cup {clifd'[s] : s \in {r \in Slots : Live(r)'}}
    BY <1>2, <1>5, <1>7, <1>8, SMTT(30) DEF IInv, OneOwner, ringVars
  <1>10. OneOwner'
    BY <1>2, <1>4, <1>5, <1>9 DEF IInv, OneOwner, ringVars
  <1> QED BY <1>1, <1>6, <1>10 DEF IInv

\* Storing at iput makes that slot live and no other; when the advanced iput
\* meets iget, every other slot was live before.
LEMMA LivePut ==
    ASSUME TypeOK, mpc = "put", mpc' = "test", iput' = Bump(iput), iget' = iget
    PROVE  /\ ~Live(iput)
           /\ \A s \in Slots : Live(s)' <=> Live(s) \/ s = iput
  BY RingAssumption DEF TypeOK, Live, Full, Bump, Slots

\* Taking from a ring that is not empty makes the slot at iget dead, no other.
LEMMA LiveTake ==
    ASSUME TypeOK, mpc # "test", iget # iput, iget' = Bump(iget), UNCHANGED <<iput, mpc>>
    PROVE  /\ Live(iget)
           /\ \A s \in Slots : Live(s)' <=> Live(s) /\ s # iget
  BY RingAssumption DEF TypeOK, Live, Full, Bump, Slots

\* main moves its descriptor into the ring; no thread is inside the mutex.
LEMMA PutStep == ASSUME IInv, TypeOK', MainPut PROVE IInv'
  <1> USE BaseAssumption DEF MainPut
  <1>0. \A t \in Threads : tpc[t] \notin ThreadCS
    BY DEF IInv, MutexInv, MainCS, Threads, Main
  <1>o. /\ \A a, b \in Holders : connfd[a] = connfd[b] => a = b
        /\ \A r, s \in Slots : Live(r) /\ Live(s) /\ clifd[r] = clifd[s] => r = s
        /\ \A a \in Holders, s \in Slots : Live(s) => connfd[a] # clifd[s]
    BY DEF IInv, OneOwner
  <1>1. MutexInv' /\ SeenInv' /\ WaitInv'
    BY <1>0 DEF IInv, MutexInv, SeenInv, WaitInv, ThreadCS, MainCS
  <1>2. BacklogInv'
    BY DEF IInv, BacklogInv
  <1>3. Main \in Holders /\ Holders' = Holders \ {Main}
    BY DEF Holders, MainHolds, Threads, Main
  <1>4. /\ ~Live(iput)
        /\ \A s \in Slots : Live(s)' <=> Live(s) \/ s = iput
    BY LivePut DEF IInv
  <1>5. /\ iput \in Slots /\ clifd'[iput] = connfd[Main]
        /\ \A s \in Slots : s # iput => clifd'[s] = clifd[s]
    BY DEF IInv, TypeOK
  <1>6. \A s \in Slots : Live(s) => s # iput
    BY <1>4
  <1>7. /\ \A a \in Holders' : connfd[a] # connfd[Main]
        /\ \A s \in Slots : Live(s) => clifd[s] # connfd[Main]
    BY <1>3, <1>o
  <1>8. open' = {connfd'[a] : a \in Holders'} \cup {clifd'[s] : s \in {r \in Slots : Live(r)'}}
    <2>1. {connfd'[a] : a \in Holders'} \cup {connfd[Main]} = {connfd[a] : a \in Holders}
      BY <1>3
    <2>2. {clifd'[s] : s \in {r \in Slots : Live(r)'}}
             = {clifd[s] : s \in {r \in Slots : Live(r)}} \cup {connfd[Main]}
      BY <1>4, <1>5, <1>6
    <2> QED BY <2>1, <2>2 DEF IInv, OneOwner
  <1>9. OneOwner'
    <2>1. \A a, b \in Holders' : connfd'[a] = connfd'[b] => a = b
      BY <1>3, <1>o
    <2>2. ASSUME NEW r \in Slots, NEW s \in Slots,
                 Live(r)', Live(s)', clifd'[r] = clifd'[s], r # s
          PROVE  FALSE
      <3> HIDE DEF MainPut
      <3>1. CASE r = iput
        BY <2>2, <3>1, <1>4, <1>5, <1>7
      <3>2. CASE s = iput
        BY <2>2, <3>2, <1>4, <1>5, <1>7
      <3>3. CASE r # iput /\ s # iput
        BY <2>2, <3>3, <1>4, <1>5, <1>o
      <3> QED BY <3>1, <3>2, <3>3
    <2>3. \A a \in Holders', s \in Slots : Live(s)' => connfd'[a] # clifd'[s]
      <3>1. connfd' = connfd
        OBVIOUS
      <3> HIDE DEF MainPut
      <3> QED BY <3>1, <1>3, <1>4, <1>5, <1>7, <1>o, SMTT(30)
    <2>4. status' # "close"
      BY DEF IInv, OneOwner
    <2> HIDE DEF MainPut
    <2> QED BY <1>8, <2>1, <2>2, <2>3, <2>4 DEF OneOwner
  <1> QED BY <1>1, <1>2, <1>9 DEF IInv

\* A thread takes the oldest descriptor out of the ring; main is not in the mutex.
LEMMA TakeStep ==
    ASSUME IInv, TypeOK', NEW t \in Threads, ThreadTake(t)
    PROVE  IInv'
  <1> USE BaseAssumption DEF ThreadTake
  <1>0. /\ clifd_mutex = t /\ mpc \notin MainCS /\ iget # iput
        /\ \A u \in Threads : u # t => tpc[u] \notin ThreadCS
    BY DEF IInv, MutexInv, SeenInv, ThreadCS, Threads, Main
  <1>o. /\ \A a, b \in Holders : connfd[a] = connfd[b] => a = b
        /\ \A r, s \in Slots : Live(r) /\ Live(s) /\ clifd[r] = clifd[s] => r = s
        /\ \A a \in Holders, s \in Slots : Live(s) => connfd[a] # clifd[s]
    BY DEF IInv, OneOwner
  <1>1. MutexInv' /\ SeenInv' /\ WaitInv'
    BY <1>0 DEF IInv, TypeOK, MutexInv, SeenInv, WaitInv, ThreadCS
  <1>2. BacklogInv'
    BY DEF IInv, BacklogInv
  <1>3. t \notin Holders /\ Holders' = Holders \cup {t} /\ Holders' \subseteq Actors
    <2>1. tpc' = [tpc EXCEPT ![t] = "unlock"] /\ tpc[t] = "take" /\ mpc' = mpc
      OBVIOUS
    <2>2. tpc \in [Threads -> ThreadPCs]
      BY DEF IInv, TypeOK
    <2>3. t # Main /\ Holders \subseteq Actors /\ t \in Actors
      BY DEF Holders, Threads, Main, Actors
    <2> HIDE DEF ThreadTake
    <2> QED BY <2>1, <2>2, <2>3 DEF Holders, MainHolds, Holding
  <1>4. /\ Live(iget)
        /\ \A s \in Slots : Live(s)' <=> Live(s) /\ s # iget
    BY <1>0, LiveTake DEF IInv, MainCS
  <1>5. /\ iget \in Slots /\ connfd'[t] = clifd[iget]
        /\ \A a \in Holders : connfd'[a] = connfd[a]
    BY <1>3 DEF IInv, TypeOK, Actors
  <1>6. /\ \A a \in Holders : connfd[a] # clifd[iget]
        /\ \A s \in Slots : Live(s)' => clifd[s] # clifd[iget]
    BY <1>4, <1>5, <1>o
  <1>7. open' = {connfd'[a] : a \in Holders'} \cup {clifd'[s] : s \in {r \in Slots : Live(r)'}}
    <2>1. {connfd'[a] : a \in Holders'} = {connfd[a] : a \in Holders} \cup {clifd[iget]}
      BY <1>3, <1>5
    <2>2. {clifd'[s] : s \in {r \in Slots : Live(r)'}} \cup {clifd[iget]}
             = {clifd[s] : s \in {r \in Slots : Live(r)}}
      BY <1>4, <1>5
    <2> QED BY <2>1, <2>2, Zenon DEF IInv, OneOwner
  <1>8. OneOwner'
    <2>0. clifd' = clifd
      OBVIOUS
    <2>1. \A a, b \in Holders' : connfd'[a] = connfd'[b] => a = b
      <3> HIDE DEF ThreadTake
      <3> QED BY <1>3, <1>5, <1>6, <1>o
    <2>2. \A r, s \in Slots : Live(r)' /\ Live(s)' /\ clifd'[r] = clifd'[s] => r = s
      <3> HIDE DEF ThreadTake
      <3> QED BY <1>4, <2>0, <1>o
    <2>3. \A a \in Holders', s \in Slots : Live(s)' => connfd'[a] # clifd'[s]
      <3> HIDE DEF ThreadTake
      <3>1. TAKE a \in Holders', s \in Slots
      <3>2. CASE a = t
        BY <3>2, <1>5, <1>6, <2>0
      <3>3. CASE a \in Holders
        BY <3>3, <1>4, <1>5, <2>0, <1>o
      <3> QED BY <3>2, <3>3, <1>3
    <2>4. status' # "close"
      BY DEF IInv, OneOwner
    <2> HIDE DEF ThreadTake
    <2> QED BY <1>7, <2>1, <2>2, <2>3, <2>4 DEF OneOwner
  <1> QED BY <1>1, <1>2, <1>8 DEF IInv

\* Every step keeps the inductive invariant.
LEMMA InvStep == IInv /\ [Next]_vars => IInv'
  <1> SUFFICES ASSUME IInv, [Next]_vars PROVE IInv'
    OBVIOUS
  <1>0. TypeOK'
    BY TypeStep DEF IInv
  <1>t. TypeOK
    BY DEF IInv
  <1>p. tpc \in [Threads -> ThreadPCs]
    BY <1>t DEF TypeOK
  <1>d. Main # Nobody /\ \A t \in Threads : t # Main /\ t # Nobody
    BY BaseAssumption DEF Threads, Main, Nobody
  <1> USE BaseAssumption, <1>0
  <1>1. ASSUME NEW c \in Conns, ClientConnect(c), UNCHANGED ringVars PROVE IInv'
    BY <1>1, ConnectStep
  <1>2. ASSUME NEW c \in Conns, ClientHangup(c), UNCHANGED ringVars PROVE IInv'
    BY <1>2, Quiet DEF ClientHangup, MainHolds, Full, ringVars
  <1>3. ASSUME NEW t \in Threads, MakeThread(t), UNCHANGED ringVars PROVE IInv'
    BY <1>3, <1>t, Quiet DEF MakeThread, Runs, MainHolds, Full, ringVars, TypeOK, Holding, ThreadCS
  <1>4. ASSUME NEW t \in Threads, CountConn(t), UNCHANGED ringVars PROVE IInv'
    BY <1>4, <1>t, Quiet DEF CountConn, Runs, MainHolds, Full, ringVars, TypeOK, Holding, ThreadCS
  <1>5. ASSUME NEW t \in Threads, WebChildReturns(t), UNCHANGED ringVars PROVE IInv'
    BY <1>5, <1>t, Quiet
       DEF WebChildReturns, Runs, MainHolds, Full, ringVars, TypeOK, Holding, ThreadCS
  <1>6. ASSUME NEW t \in Threads, WebChildExits(t), UNCHANGED ringVars PROVE IInv'
    BY <1>6, Quiet, Zenon DEF WebChildExits, MainHolds, Full, ringVars
  <1>7. ASSUME NEW t \in Threads, CloseConn(t), UNCHANGED ringVars PROVE IInv'
    BY <1>7, CloseStep
  <1>8. CASE MakeThreadFails /\ UNCHANGED ringVars
    BY <1>8, Quiet DEF MakeThreadFails, MainHolds, Full, ringVars
  <1>9. CASE SigIntDefault /\ UNCHANGED ringVars
    BY <1>9, Quiet DEF SigIntDefault, MainHolds, Full, ringVars
  <1>10. ASSUME NEW a \in Actors, SigInt(a), UNCHANGED ringVars PROVE IInv'
    BY <1>10, Quiet DEF SigInt, Runs, MainHolds, Full, ringVars
  <1>11. CASE SigPrint /\ UNCHANGED ringVars
    BY <1>11, Quiet DEF SigPrint, MainHolds, Full, ringVars
  <1>12. CASE SigExit /\ UNCHANGED ringVars
    BY <1>12, Quiet DEF SigExit, MainHolds, Full, ringVars
  <1>13. CASE EndMake("accept") /\ UNCHANGED ringVars
    BY <1>13, Quiet DEF EndMake, Runs, MainHolds, Full, ringVars, MainCS
  <1>14. CASE MainAccept
    BY <1>14, AcceptStep
  <1>15. CASE MainAcceptFails
    BY <1>15, Quiet DEF MainAcceptFails, AcceptError, MainHolds, Full, ringVars
  <1>16. CASE MainLock
    <2>1. MutexInv' /\ SeenInv' /\ WaitInv'
      BY <1>16, SMTT(30)
         DEF IInv, MutexInv, SeenInv, WaitInv, MainLock, MainCS, Threads, Main, Nobody
    <2> QED BY <1>16, <2>1, OwnersSame DEF MainLock, Runs, MainHolds, Full
  <1>17. CASE MainPut
    BY <1>17, PutStep
  <1>17b. CASE MainTest
    <2>1. status' # "close" /\ MainHolds' = MainHolds /\ Full' = Full
      BY <1>17b DEF MainTest, Runs, MainHolds, Full, ringVars
    <2> QED BY <1>17b, <2>1, Quiet DEF MainTest, MainCS, ringVars
  <1>17c. CASE MainSignal
    <2>1. /\ waiters' \subseteq waiters
          /\ \A t \in Threads : tpc'[t] = IF t \in waiters \ waiters' THEN "relock" ELSE tpc[t]
      <3>1. CASE waiters = {}
        BY <1>17c, <3>1 DEF MainSignal, CondSignal
      <3>2. CASE waiters # {}
        BY <1>17c, <1>t, <3>2 DEF MainSignal, CondSignal, TypeOK
      <3> QED BY <3>1, <3>2
    <2>2. \A t \in Threads : t \in waiters => tpc[t] = "wait"
      BY DEF IInv, WaitInv
    <2>3. MutexInv' /\ SeenInv' /\ WaitInv'
      BY <1>17c, <2>1, <2>2
         DEF IInv, MutexInv, SeenInv, WaitInv, MainSignal, ThreadCS, MainCS
    <2>4. \A t \in Threads : tpc[t] \in Holding <=> tpc'[t] \in Holding
      BY <2>1, <2>2 DEF Holding
    <2> QED BY <1>17c, <2>3, <2>4, OwnersSame, SMTT(30) DEF MainSignal, Runs, MainHolds, Full
  <1>18. CASE MainUnlock
    <2>1. MutexInv' /\ SeenInv' /\ WaitInv'
      BY <1>18, SMTT(30)
         DEF IInv, MutexInv, SeenInv, WaitInv, MainUnlock, MainCS, Threads, Main, Nobody
    <2> QED BY <1>18, <2>1, OwnersSame, SMTT(30) DEF MainUnlock, Runs, MainHolds, Full
  <1>19. ASSUME NEW t \in Threads, ThreadLock(t) PROVE IInv'
    <2>1. MutexInv'
      BY <1>19, <1>p, <1>d DEF IInv, MutexInv, ThreadLock, ThreadCS
    <2>2. SeenInv'
      BY <1>19, <1>p DEF IInv, SeenInv, ThreadLock
    <2>3. WaitInv'
      BY <1>19, <1>p DEF IInv, WaitInv, ThreadLock
    <2> QED BY <1>19, <1>t, <2>1, <2>2, <2>3, OwnersSame
            DEF TypeOK, ThreadLock, Runs, MainHolds, Full, Holding
  <1>19b. ASSUME NEW t \in Threads, ThreadCheck(t) PROVE IInv'
    <2>1. MutexInv' /\ SeenInv' /\ WaitInv'
      BY <1>19b, <1>t
         DEF TypeOK, IInv, MutexInv, SeenInv, WaitInv, ThreadCheck, ThreadCS, ringVars
    <2> QED BY <1>19b, <1>t, <2>1, OwnersSame
            DEF TypeOK, ThreadCheck, Runs, MainHolds, Full, Holding, ringVars
  <1>20. ASSUME NEW t \in Threads, ThreadWait(t) PROVE IInv'
    <2>1. MutexInv'
      BY <1>20, <1>p, <1>d DEF IInv, MutexInv, ThreadWait, ThreadCS
    <2>2. SeenInv'
      BY <1>20, <1>p DEF IInv, SeenInv, ThreadWait
    <2>3. WaitInv'
      BY <1>20, <1>p DEF IInv, WaitInv, ThreadWait
    <2> QED BY <1>20, <1>t, <2>1, <2>2, <2>3, OwnersSame
            DEF TypeOK, ThreadWait, Runs, MainHolds, Full, Holding
  <1>21. ASSUME NEW t \in Threads, SpuriousWake(t) PROVE IInv'
    <2>1. MutexInv' /\ SeenInv' /\ WaitInv'
      BY <1>21, <1>t DEF TypeOK, IInv, MutexInv, SeenInv, WaitInv, SpuriousWake, ThreadCS
    <2>2. tpc[t] = "wait"
      BY <1>21 DEF IInv, WaitInv, SpuriousWake
    <2> QED BY <1>21, <1>t, <2>1, <2>2, OwnersSame
            DEF TypeOK, SpuriousWake, MainHolds, Full, Holding
  <1>22. ASSUME NEW t \in Threads, ThreadTake(t) PROVE IInv'
    BY <1>22, TakeStep
  <1>23. ASSUME NEW t \in Threads, ThreadUnlock(t) PROVE IInv'
    <2>1. MutexInv'
      BY <1>23, <1>p, <1>d DEF IInv, MutexInv, ThreadUnlock, ThreadCS
    <2>2. SeenInv' /\ WaitInv'
      BY <1>23, <1>p DEF IInv, SeenInv, WaitInv, ThreadUnlock
    <2> QED BY <1>23, <1>t, <2>1, <2>2, OwnersSame, Zenon
            DEF TypeOK, ThreadUnlock, Runs, MainHolds, Full, Holding
  <1>24. CASE UNCHANGED vars
    <2>1. MutexInv' /\ SeenInv' /\ WaitInv'
      BY <1>24 DEF IInv, MutexInv, SeenInv, WaitInv, vars, baseVars, ringVars
    <2>2. status' # "close"
      BY <1>24 DEF IInv, OneOwner, vars, baseVars
    <2> QED BY <1>24, <2>1, <2>2, OwnersSame DEF vars, baseVars, ringVars, MainHolds, Full
  <1> QED
    BY <1>1, <1>2, <1>3, <1>4, <1>5, <1>6, <1>7, <1>8, <1>9, <1>10, <1>11, <1>12, <1>13,
       <1>14, <1>15, <1>16, <1>17, <1>17b, <1>17c, <1>18, <1>19, <1>19b, <1>20, <1>21, <1>22,
       <1>23, <1>24
       DEF Next, BaseNext, MainStep, ThreadStep

\* The inductive invariant: who is in a critical section of clifd_mutex, what they
\* have seen of the ring there, and who has each descriptor.
THEOREM InvHolds == Spec => []IInv
  BY InitInv, InvStep, PTL DEF Spec

\* From accept to Close every connected descriptor has exactly one owner: main,
\* one live slot of the ring or one thread.
THEOREM OneOwnerHolds == Spec => []OneOwner
  <1>1. IInv => OneOwner
    BY DEF IInv
  <1> QED BY <1>1, InvHolds, PTL
-----------------------------------------------------------------------------
\* The length of the ring, which is a difference of the two indices modulo MAXNCLI.
LEMMA RingLenType == TypeOK => RingLen \in Nat
  BY RingAssumption DEF TypeOK, RingLen, Full, Slots

\* A thread inside the mutex keeps main out of its critical section.
LEMMA ThreadAlone ==
    ASSUME IInv, NEW t \in Threads, tpc[t] \in ThreadCS
    PROVE  mpc \notin MainCS
  BY BaseAssumption DEF IInv, MutexInv, Threads, Main

\* main's store makes the ring one longer, a thread's take one shorter.
LEMMA RingPutLen == ASSUME IInv, MainPut PROVE RingLen' = RingLen + 1 /\ RingLen \in Nat
  BY RingAssumption, SMTT(30) DEF IInv, TypeOK, RingLen, Full, Slots, Bump, MainPut

LEMMA RingTakeLen ==
    ASSUME IInv, NEW t \in Threads, ThreadTake(t)
    PROVE  /\ RingLen' = RingLen - 1 /\ RingLen \in Nat
           /\ mpc \notin MainCS
  <1>1. mpc \notin MainCS /\ iget # iput
    BY ThreadAlone DEF ThreadTake, ThreadCS, IInv, SeenInv
  <1>2. RingLen' = RingLen - 1 /\ RingLen \in Nat
    BY <1>1, RingAssumption, SMTT(30)
       DEF IInv, TypeOK, RingLen, Full, Slots, Bump, ThreadTake, MainCS
  <1> QED BY <1>1, <1>2
-----------------------------------------------------------------------------
(***************************************************************************)
(* ServerV4 implements Dispatch.                                           *)
(***************************************************************************)
Pending == Ring \o InHand \o backlog
Fd      == Conns \cup {NoConn}

\* The ring as a sequence: its length, and the live slots it is read from.
RingOK ==
    /\ RingLen \in Nat /\ Ring \in Seq(Fd) /\ Len(Ring) = RingLen
    /\ \A k \in 1 .. RingLen :
          RingSlot(k) \in Slots /\ Live(RingSlot(k)) /\ Ring[k] = clifd[RingSlot(k)]

LEMMA RingType == TypeOK => RingOK
  <1> SUFFICES ASSUME TypeOK PROVE RingOK
    OBVIOUS
  <1>1. RingLen \in Nat
    BY RingLenType
  <1>2. \A k \in 1 .. RingLen : RingSlot(k) \in Slots /\ Live(RingSlot(k))
    BY RingAssumption DEF TypeOK, RingLen, RingSlot, Live, Full, Slots
  <1>3. Ring \in [1 .. RingLen -> Fd]
    BY <1>2 DEF Ring, TypeOK, Fd
  <1>4. Ring \in Seq(Fd) /\ Len(Ring) = RingLen
    BY <1>1, <1>3
  <1> QED BY <1>1, <1>2, <1>4 DEF RingOK, Ring

LEMMA RingTypeNext == TypeOK' => RingOK'
  BY RingType, PTL

\* Concatenation as the steps below use it.
LEMMA ConcatAppend ==
    ASSUME NEW r \in Seq(Fd), NEW h \in Seq(Fd), NEW b \in Seq(Fd), NEW c \in Fd
    PROVE  r \o h \o Append(b, c) = Append(r \o h \o b, c)
  OBVIOUS

LEMMA ConcatAccept ==
    ASSUME NEW r \in Seq(Fd), NEW b \in Seq(Fd), b # <<>>
    PROVE  r \o <<Head(b)>> \o Tail(b) = r \o <<>> \o b
  OBVIOUS

LEMMA ConcatStore ==
    ASSUME NEW r \in Seq(Fd), NEW b \in Seq(Fd), NEW c \in Fd
    PROVE  Append(r, c) \o <<>> \o b = r \o <<c>> \o b
  OBVIOUS

LEMMA ConcatTake ==
    ASSUME NEW r \in Seq(Fd), NEW h \in Seq(Fd), NEW b \in Seq(Fd), r # <<>>
    PROVE  /\ r \o h \o b # <<>>
           /\ Head(r \o h \o b) = Head(r)
           /\ Tail(r) \o h \o b = Tail(r \o h \o b)
  OBVIOUS

\* Append, Tail and equality of sequences, element by element.
LEMMA AppendEach ==
    ASSUME NEW r \in Seq(Fd), NEW c \in Fd
    PROVE  /\ Append(r, c) \in Seq(Fd) /\ Len(Append(r, c)) = Len(r) + 1
           /\ \A k \in 1 .. Len(r) : Append(r, c)[k] = r[k]
           /\ Append(r, c)[Len(r) + 1] = c
  OBVIOUS

LEMMA TailEach ==
    ASSUME NEW r \in Seq(Fd), r # <<>>
    PROVE  /\ Tail(r) \in Seq(Fd) /\ Len(Tail(r)) = Len(r) - 1
           /\ \A k \in 1 .. Len(r) - 1 : Tail(r)[k] = r[k + 1]
  OBVIOUS

LEMMA SameEach ==
    ASSUME NEW r \in Seq(Fd), NEW q \in Seq(Fd), Len(r) = Len(q),
           \A k \in 1 .. Len(q) : r[k] = q[k]
    PROVE  r = q
  <1>1. r = [k \in 1 .. Len(r) |-> r[k]] /\ q = [k \in 1 .. Len(q) |-> q[k]]
    OBVIOUS
  <1> QED BY <1>1, Zenon

\* What main stores becomes the last of the ring.
LEMMA RingPut ==
    ASSUME TypeOK, TypeOK', mpc = "put", mpc' = "test", iget' = iget, iput' = Bump(iput),
           clifd' = [clifd EXCEPT ![iput] = connfd[Main]]
    PROVE  Ring' = Append(Ring, connfd[Main])
  <1>1. RingOK /\ RingOK'
    BY RingType, RingTypeNext
  <1>2. RingLen' = RingLen + 1
    BY RingAssumption DEF TypeOK, RingLen, Full, Bump, Slots
  <1>3. \A k \in 1 .. RingLen : RingSlot(k)' = RingSlot(k) /\ RingSlot(k) # iput
    BY RingAssumption DEF TypeOK, RingLen, RingSlot, Full, Bump, Slots
  <1>4. ASSUME NEW n, n = RingLen + 1 PROVE RingSlot(n)' = iput
    BY <1>4, RingAssumption DEF TypeOK, RingLen, RingSlot, Full, Bump, Slots
  <1>5. connfd[Main] \in Fd /\ iput \in Slots
    BY DEF TypeOK, Fd, Actors
  <1> DEFINE longer == Append(Ring, connfd[Main])
  <1>6. /\ longer \in Seq(Fd) /\ Len(longer) = RingLen + 1
        /\ \A k \in 1 .. RingLen : longer[k] = Ring[k]
        /\ longer[RingLen + 1] = connfd[Main]
    BY <1>1, <1>5, AppendEach, Zenon DEF RingOK
  <1> HIDE DEF longer
  <1>7. ASSUME NEW k \in 1 .. RingLen + 1 PROVE Ring'[k] = longer[k]
    <2>1. Ring'[k] = clifd'[RingSlot(k)']
      BY <1>1, <1>2 DEF RingOK
    <2>2. CASE k = RingLen + 1
      <3>1. RingSlot(k)' = iput /\ longer[k] = connfd[Main]
        BY <1>4, <1>6, <2>2, Zenon
      <3>2. clifd'[iput] = connfd[Main]
        BY <1>5 DEF TypeOK
      <3> QED BY <2>1, <3>1, <3>2
    <2>3. CASE k \in 1 .. RingLen
      <3>1. RingSlot(k)' = RingSlot(k) /\ RingSlot(k) # iput /\ longer[k] = Ring[k]
        BY <1>3, <1>6, <2>3, Zenon
      <3>2. RingSlot(k) \in Slots /\ Ring[k] = clifd[RingSlot(k)]
        BY <1>1, <2>3 DEF RingOK
      <3>3. clifd'[RingSlot(k)] = clifd[RingSlot(k)]
        BY <3>1, <3>2 DEF TypeOK
      <3> QED BY <2>1, <3>1, <3>2, <3>3
    <2> QED BY <1>1, <2>2, <2>3 DEF RingOK
  <1>8. Ring' = longer
    BY <1>1, <1>2, <1>6, <1>7, SameEach, Zenon DEF RingOK
  <1> QED BY <1>8 DEF longer

\* What a thread takes was the first of the ring.
LEMMA RingTake ==
    ASSUME TypeOK, TypeOK', mpc # "test", iget # iput, iget' = Bump(iget),
           UNCHANGED <<iput, mpc, clifd>>
    PROVE  Ring # <<>> /\ Head(Ring) = clifd[iget] /\ Ring' = Tail(Ring)
  <1>1. RingOK /\ RingOK'
    BY RingType, RingTypeNext
  <1>2. RingLen > 0 /\ RingLen' = RingLen - 1 /\ RingSlot(1) = iget
    BY RingAssumption DEF TypeOK, RingLen, RingSlot, Full, Bump, Slots
  <1>3. \A k \in 1 .. RingLen - 1 : RingSlot(k)' = RingSlot(k + 1)
    BY RingAssumption DEF TypeOK, RingLen, RingSlot, Full, Bump, Slots
  <1>4. Ring # <<>> /\ Head(Ring) = clifd[iget]
    BY <1>1, <1>2 DEF RingOK
  <1> DEFINE rest == Tail(Ring)
  <1>5. /\ rest \in Seq(Fd) /\ Len(rest) = RingLen - 1
        /\ \A k \in 1 .. RingLen - 1 : rest[k] = Ring[k + 1]
    BY <1>1, <1>4, TailEach, Zenon DEF RingOK
  <1>6. ASSUME NEW k \in 1 .. RingLen - 1 PROVE Ring'[k] = rest[k]
    <2>1. Ring'[k] = clifd[RingSlot(k)']
      BY <1>1, <1>2 DEF RingOK
    <2>2. k + 1 \in 1 .. RingLen
      BY <1>1 DEF RingOK
    <2>3. Ring[k + 1] = clifd[RingSlot(k + 1)]
      BY <1>1, <2>2 DEF RingOK
    <2> QED BY <1>3, <1>5, <2>1, <2>3
  <1> HIDE DEF rest
  <1>7. Ring' = rest
    BY <1>1, <1>2, <1>5, <1>6, SameEach, Zenon DEF RingOK
  <1> QED BY <1>4, <1>7 DEF rest
-----------------------------------------------------------------------------
(***************************************************************************)
(* Each step seen through the refinement mapping.                          *)
(***************************************************************************)
\* The parts of the mapped queue are sequences of descriptors.
LEMMA Parts == IInv => RingOK /\ InHand \in Seq(Fd) /\ backlog \in Seq(Fd)
  <1> SUFFICES ASSUME IInv PROVE RingOK /\ InHand \in Seq(Fd) /\ backlog \in Seq(Fd)
    OBVIOUS
  <1>1. connfd[Main] \in Fd /\ backlog \in Seq(Conns)
    BY DEF IInv, TypeOK, Fd, Actors
  <1>2. InHand \in Seq(Fd)
    BY <1>1 DEF InHand
  <1>3. backlog \in Seq(Fd)
    BY <1>1 DEF Fd
  <1> QED BY <1>2, <1>3, RingType DEF IInv

\* No descriptor changes hands; the process may end.
LEMMA MapsQuiet ==
    ASSUME UNCHANGED <<connfd, backlog, open, arrived, clifd, iget, iput>>,
           status = "up", MainHolds' = MainHolds, Full' = Full,
           \A t \in Threads : tpc[t] \in Holding <=> tpc'[t] \in Holding
    PROVE  [D!Next]_(D!vars)
  <1>1. InService' = InService /\ Finished' = Finished
    BY Zenon DEF InService, Finished
  <1>2. RingLen' = RingLen /\ \A k : RingSlot(k)' = RingSlot(k)
    BY DEF RingLen, RingSlot
  <1>3. Ring' = Ring /\ InHand' = InHand
    BY <1>2 DEF Ring, InHand
  <1>4. ASSUME status' = "up" PROVE UNCHANGED D!vars
    <2>1. (status = "up")' = (status = "up")
      BY <1>4
    <2> QED BY <1>1, <1>3, <2>1 DEF D!vars
  <1>5. ASSUME status' # "up" PROVE D!Next
    <2>1. (status = "up")' = FALSE
      BY <1>5
    <2>2. D!Halt
      BY <1>1, <1>3, <2>1 DEF D!Halt
    <2> QED BY <2>2 DEF D!Next
  <1> QED BY <1>4, <1>5, Zenon

\* A connection arrives.
LEMMA MapsConnect ==
    ASSUME IInv, NEW c \in Conns, ClientConnect(c), UNCHANGED ringVars
    PROVE  D!Arrive(c)
  <1> USE DEF ClientConnect
  <1>1. \A d : (\E j \in DOMAIN backlog' : backlog'[j] = d)
                  <=> (\E j \in DOMAIN backlog : backlog[j] = d) \/ d = c
    BY ConnectBacklog, Zenon DEF IInv, TypeOK
  <1>2. Ring' = Ring /\ InHand' = InHand /\ InService' = InService
    BY DEF Ring, RingLen, RingSlot, Full, InHand, MainHolds, InService, ringVars
  <1>3. c \notin arrived /\ c \notin open
    BY DEF IInv, BacklogInv
  <1>4. Finished' = Finished
    BY <1>1, <1>3 DEF Finished
  <1>5. Pending' = Append(Pending, c)
    <2>1. Ring \in Seq(Fd) /\ InHand \in Seq(Fd) /\ backlog \in Seq(Fd) /\ c \in Fd
      BY Parts DEF RingOK, Fd
    <2>2. Ring \o InHand \o Append(backlog, c) = Append(Ring \o InHand \o backlog, c)
      BY <2>1, ConcatAppend, ZenonT(60)
    <2>3. backlog' = Append(backlog, c)
      OBVIOUS
    <2> QED BY <1>2, <2>2, <2>3, Zenon DEF Pending
  <1>6. \A t \in Threads : InService[t] # c
    BY <1>3, BaseAssumption DEF InService, IInv, OneOwner, Holders
  <1>7. \A i \in DOMAIN Pending : Pending[i] # c
    <2>1. \A k \in 1 .. Len(Ring) : Ring[k] # c
      BY <1>3, Parts, SMTT(30) DEF RingOK, IInv, OneOwner
    <2>2. \A k \in 1 .. Len(InHand) : InHand[k] # c
      BY <1>3, SMTT(30) DEF InHand, IInv, OneOwner, Holders
    <2>3. \A k \in 1 .. Len(backlog) : backlog[k] # c
      BY <1>3 DEF IInv, TypeOK, BacklogInv
    <2>4. Ring \in Seq(Fd) /\ InHand \in Seq(Fd) /\ backlog \in Seq(Fd)
      BY Parts DEF RingOK
    <2> QED BY <2>1, <2>2, <2>3, <2>4 DEF Pending
  <1>8. ~D!Known(c)
    BY <1>3, <1>6, <1>7 DEF D!Known, Finished, Pending
  <1> QED BY <1>2, <1>4, <1>5, <1>8 DEF D!Arrive, Pending

\* accept moves a connection from the backlog to main, and from the third part
\* of the mapped queue to the second.
LEMMA MapsAccept == ASSUME IInv, MainAccept PROVE UNCHANGED D!vars
  <1> USE DEF MainAccept
  <1>1. /\ Head(backlog) \in arrived \ open
        /\ \A d : (\E j \in DOMAIN backlog' : backlog'[j] = d)
                     <=> (\E j \in DOMAIN backlog : backlog[j] = d) /\ d # Head(backlog)
    BY AcceptBacklog, Zenon DEF IInv, TypeOK
  <1>2. backlog # <<>> /\ backlog' = Tail(backlog) /\ open' = open \cup {Head(backlog)}
          /\ connfd' = [connfd EXCEPT ![Main] = Head(backlog)]
    BY DEF AcceptInto
  <1>3. Ring' = Ring
    BY DEF Ring, RingLen, RingSlot, Full, ringVars
  <1>4. InHand = <<>> /\ InHand' = <<Head(backlog)>>
    BY <1>2 DEF InHand, MainHolds, IInv, TypeOK, Actors
  <1>5. Pending' = Pending
    <2>1. Ring \in Seq(Fd) /\ backlog \in Seq(Fd)
      BY Parts DEF RingOK
    <2>2. Ring \o <<Head(backlog)>> \o Tail(backlog) = Ring \o <<>> \o backlog
      BY <1>2, <2>1, ConcatAccept, Zenon
    <2> QED BY <1>2, <1>3, <1>4, <2>2, Zenon DEF Pending
  <1>6. InService' = InService
    <2>1. \A t \in Threads : connfd'[t] = connfd[t]
      BY <1>2, BaseAssumption DEF IInv, TypeOK, Threads, Main, Actors
    <2> QED BY <2>1, Zenon DEF InService
  <1>7. Finished' = Finished
    <2>1. 1 \in DOMAIN backlog /\ backlog[1] = Head(backlog)
      BY <1>2 DEF IInv, TypeOK
    <2>2. ASSUME NEW d PROVE d \in Finished' <=> d \in Finished
      <3>1. (\A j \in DOMAIN backlog' : backlog'[j] # d)
              <=> (\A j \in DOMAIN backlog : backlog[j] # d) \/ d = Head(backlog)
        BY <1>1
      <3>2. (\A j \in DOMAIN backlog : backlog[j] # d) => d # Head(backlog)
        BY <2>1
      <3> QED BY <1>2, <3>1, <3>2 DEF Finished
    <2> QED BY <2>2
  <1>8. (status = "up")' = (status = "up")
    OBVIOUS
  <1> QED BY <1>5, <1>6, <1>7, <1>8 DEF D!vars, Pending

\* main moves its descriptor into the ring: from the second part to the first.
LEMMA MapsPut == ASSUME IInv, TypeOK', MainPut PROVE UNCHANGED D!vars
  <1> USE DEF MainPut
  <1>1. Ring' = Append(Ring, connfd[Main])
    BY RingPut DEF IInv
  <1>2. InHand = <<connfd[Main]>> /\ InHand' = <<>> /\ backlog' = backlog
    BY DEF InHand, MainHolds
  <1>3. connfd[Main] \in Fd
    BY DEF IInv, TypeOK, Fd, Actors
  <1>4. Pending' = Pending
    <2>1. Append(Ring, connfd[Main]) \o <<>> \o backlog = Ring \o <<connfd[Main]>> \o backlog
      BY <1>3, Parts, ConcatStore, Zenon DEF RingOK
    <2> QED BY <1>1, <1>2, <2>1, Zenon DEF Pending
  <1>5. InService' = InService /\ Finished' = Finished
    BY Zenon DEF InService, Finished
  <1>6. (status = "up")' = (status = "up")
    OBVIOUS
  <1> QED BY <1>4, <1>5, <1>6 DEF D!vars, Pending

\* A thread takes the first descriptor of the ring, which is the oldest
\* connection that no thread has.
LEMMA MapsTake == ASSUME IInv, TypeOK', NEW t \in Threads, ThreadTake(t) PROVE D!Take(t)
  <1> USE DEF ThreadTake
  <1>1. mpc \notin MainCS /\ iget # iput
    BY BaseAssumption DEF IInv, MutexInv, SeenInv, ThreadCS, Threads, Main
  <1>2. Ring # <<>> /\ Head(Ring) = clifd[iget] /\ Ring' = Tail(Ring)
    BY <1>1, RingTake DEF IInv, MainCS
  <1>3. t # Main /\ t \in Actors
    BY BaseAssumption DEF Threads, Main, Actors
  <1>4. InHand' = InHand /\ backlog' = backlog
    BY <1>3, Zenon DEF InHand, MainHolds, IInv, TypeOK, Actors
  <1>5. Pending # <<>> /\ Head(Pending) = clifd[iget] /\ Pending' = Tail(Pending)
    <2>p. Ring \in Seq(Fd) /\ InHand \in Seq(Fd) /\ backlog \in Seq(Fd) /\ Ring # <<>>
      BY <1>2, Parts DEF RingOK
    <2>1. Tail(Ring) \o InHand \o backlog = Tail(Pending) /\ Pending # <<>>
            /\ Head(Pending) = Head(Ring)
      <3> HIDE DEF ThreadTake
      <3> QED BY <2>p, ConcatTake, ZenonT(60) DEF Pending
    <2>2. Pending' = Tail(Ring) \o InHand \o backlog
      BY <1>2, <1>4 DEF Pending
    <2> QED BY <1>2, <2>1, <2>2
  <1>6. InService[t] = NoConn /\ InService' = [InService EXCEPT ![t] = clifd[iget]]
    <2>1. connfd' = [connfd EXCEPT ![t] = clifd[iget]] /\ tpc' = [tpc EXCEPT ![t] = "unlock"]
            /\ tpc[t] = "take" /\ connfd \in [Actors -> Fd] /\ tpc \in [Threads -> ThreadPCs]
            /\ Threads \subseteq Actors
      BY DEF IInv, TypeOK, Fd, Actors
    <2> HIDE DEF ThreadTake
    <2> QED BY <2>1, Zenon DEF InService, Holding
  <1>7. Finished' = Finished /\ status = "up" /\ status' = status
    BY DEF Finished, Runs
  <1>8. (status = "up")' = (status = "up")
    BY <1>7
  <1> HIDE DEF ThreadTake
  <1> QED BY <1>5, <1>6, <1>7, <1>8, Zenon DEF D!Take, Pending

\* Close ends the service of the connection the thread holds.
LEMMA MapsClose ==
    ASSUME IInv, NEW t \in Threads, CloseConn(t), UNCHANGED ringVars
    PROVE  D!Finish(t)
  <1> USE BaseAssumption DEF CloseConn
  <1>1. t \in Holders /\ t \in Actors
    BY DEF Holders, Holding, Actors
  <1>2. connfd[t] \in open /\ status' = status /\ status = "up"
    BY <1>1 DEF IInv, OneOwner, Runs
  <1>3. Ring' = Ring /\ InHand' = InHand /\ backlog' = backlog
    BY DEF Ring, RingLen, RingSlot, Full, InHand, MainHolds, ringVars
  <1>4. InService[t] = connfd[t] /\ connfd[t] # NoConn
    BY <1>2 DEF InService, Holding, IInv, TypeOK
  <1>5. InService' = [InService EXCEPT ![t] = NoConn]
    BY Zenon DEF InService, Holding, IInv, TypeOK
  <1>6. Finished' = Finished \cup {connfd[t]}
    BY <1>2, Zenon DEF Finished, IInv, BacklogInv
  <1>7. (status = "up")' = (status = "up")
    BY <1>2
  <1> QED BY <1>2, <1>3, <1>4, <1>5, <1>6, <1>7 DEF D!Finish
-----------------------------------------------------------------------------
\* Every step is a step of Dispatch or a stutter.
LEMMA StepMaps == IInv /\ IInv' /\ [Next]_vars => [D!Next]_(D!vars)
  <1> SUFFICES ASSUME IInv, IInv', [Next]_vars PROVE [D!Next]_(D!vars)
    OBVIOUS
  <1>0. TypeOK /\ TypeOK'
    BY DEF IInv
  <1>1. ASSUME NEW c \in Conns, ClientConnect(c), UNCHANGED ringVars PROVE [D!Next]_(D!vars)
    BY <1>1, MapsConnect DEF D!Next
  <1>2. ASSUME NEW c \in Conns, ClientHangup(c), UNCHANGED ringVars PROVE [D!Next]_(D!vars)
    BY <1>2, MapsQuiet DEF ClientHangup, ringVars, MainHolds, Full
  <1>3. ASSUME NEW t \in Threads, UNCHANGED ringVars,
               MakeThread(t) \/ CountConn(t) \/ WebChildReturns(t)
        PROVE  [D!Next]_(D!vars)
    <2>1. \A u \in Threads : tpc[u] \in Holding <=> tpc'[u] \in Holding
      BY <1>0, <1>3 DEF MakeThread, CountConn, WebChildReturns, TypeOK, Holding
    <2> QED BY <1>3, <2>1, MapsQuiet
            DEF MakeThread, CountConn, WebChildReturns, Runs, ringVars, MainHolds, Full
  <1>4. ASSUME NEW t \in Threads, WebChildExits(t), UNCHANGED ringVars PROVE [D!Next]_(D!vars)
    BY <1>4, MapsQuiet, Zenon DEF WebChildExits, Runs, ringVars, MainHolds, Full
  <1>5. ASSUME NEW t \in Threads, CloseConn(t), UNCHANGED ringVars PROVE [D!Next]_(D!vars)
    BY <1>5, MapsClose DEF D!Next
  <1>6. CASE (MakeThreadFails \/ SigIntDefault \/ SigExit \/ SigPrint) /\ UNCHANGED ringVars
    BY <1>6, MapsQuiet
       DEF MakeThreadFails, SigIntDefault, SigExit, SigPrint, Runs, ringVars, MainHolds, Full
  <1>7. CASE (EndMake("accept") \/ \E a \in Actors : SigInt(a)) /\ UNCHANGED ringVars
    BY <1>7, MapsQuiet DEF EndMake, SigInt, Runs, ringVars, MainHolds, Full
  <1>8. CASE MainAccept
    BY <1>8, MapsAccept
  <1>9. CASE MainAcceptFails
    BY <1>9, MapsQuiet DEF MainAcceptFails, AcceptError, Runs, ringVars, MainHolds, Full
  <1>10. CASE MainLock
    BY <1>10, MapsQuiet DEF MainLock, Runs, MainHolds, Full
  <1>11. CASE MainPut
    BY <1>0, <1>11, MapsPut
  <1>12. CASE MainTest
    BY <1>12, MapsQuiet DEF MainTest, Runs, ringVars, MainHolds, Full
  <1>13. CASE MainSignal
    <2>1. \A u \in Threads : tpc[u] \in Holding <=> tpc'[u] \in Holding
      <3>1. \A u \in waiters : u \in Threads /\ tpc[u] = "wait"
        BY DEF IInv, TypeOK, WaitInv
      <3> QED BY <1>0, <1>13, <3>1 DEF MainSignal, CondSignal, TypeOK, Holding
    <2> QED BY <1>13, <2>1, MapsQuiet DEF MainSignal, Runs, MainHolds, Full
  <1>14. CASE MainUnlock
    BY <1>14, MapsQuiet DEF MainUnlock, Runs, MainHolds, Full
  <1>15. ASSUME NEW t \in Threads,
                ThreadLock(t) \/ ThreadCheck(t) \/ ThreadWait(t) \/ ThreadUnlock(t)
         PROVE  [D!Next]_(D!vars)
    <2>1. \A u \in Threads : tpc[u] \in Holding <=> tpc'[u] \in Holding
      BY <1>0, <1>15 DEF ThreadLock, ThreadCheck, ThreadWait, ThreadUnlock, TypeOK, Holding
    <2> QED BY <1>15, <2>1, MapsQuiet
            DEF ThreadLock, ThreadCheck, ThreadWait, ThreadUnlock, Runs, ringVars, MainHolds, Full
  <1>16. ASSUME NEW t \in Threads, SpuriousWake(t) PROVE [D!Next]_(D!vars)
    <2>1. \A u \in Threads : tpc[u] \in Holding <=> tpc'[u] \in Holding
      BY <1>0, <1>16, Zenon DEF SpuriousWake, TypeOK, Holding, IInv, WaitInv
    <2> QED BY <1>16, <2>1, MapsQuiet DEF SpuriousWake, MainHolds, Full
  <1>17. ASSUME NEW t \in Threads, ThreadTake(t) PROVE [D!Next]_(D!vars)
    BY <1>0, <1>17, MapsTake DEF D!Next
  <1>18. CASE UNCHANGED vars
    <2>1. Ring' = Ring /\ InHand' = InHand /\ InService' = InService /\ Finished' = Finished
      BY <1>18
         DEF vars, baseVars, ringVars, Ring, RingLen, RingSlot, Full, InHand, MainHolds, InService,
             Finished
    <2>2. (status = "up")' = (status = "up") /\ backlog' = backlog
      BY <1>18 DEF vars, baseVars
    <2> QED BY <2>1, <2>2 DEF D!vars
  <1> QED
    BY <1>1, <1>2, <1>3, <1>4, <1>5, <1>6, <1>7, <1>8, <1>9, <1>10, <1>11, <1>12, <1>13,
       <1>14, <1>15, <1>16, <1>17, <1>18
       DEF Next, BaseNext, MainStep, ThreadStep

LEMMA InitMaps == Init => D!Init
  <1> SUFFICES ASSUME Init PROVE D!Init
    OBVIOUS
  <1>1. RingLen = 0 /\ InHand = <<>> /\ backlog = <<>>
    BY RingAssumption DEF Init, BaseInit, RingLen, Full, InHand, MainHolds
  <1>2. RingOK
    BY InitType, RingType
  <1>3. Ring = <<>>
    BY <1>1, <1>2 DEF RingOK
  <1>4. InService = [t \in Threads |-> NoConn] /\ Finished = {}
    BY DEF Init, BaseInit, InService, Finished, Holding
  <1> QED BY <1>1, <1>3, <1>4 DEF D!Init, Init, BaseInit

\* Through the ring, the mutex and the condition variable the server hands out
\* connections in the order of their arrival, each to one idle thread, which
\* closes it: it implements Dispatch.
THEOREM Refinement == Spec => DispatchSpec
  BY InitMaps, StepMaps, InvHolds, PTL DEF Spec, DispatchSpec, D!Spec
-----------------------------------------------------------------------------
(***************************************************************************)
(* No lost wakeup.                                                         *)
(***************************************************************************)
\* The facts about finite sets that the counting below uses; they are
\* the library's, and FiniteFactsHold below proves them.
FiniteFacts ==
    /\ IsFiniteSet({}) /\ Cardinality({}) = 0
    /\ \A A : IsFiniteSet(A) => Cardinality(A) \in Nat
    /\ \A a, b \in Int : IsFiniteSet(a .. b)
    /\ \A A : IsFiniteSet(A) =>
          \A B \in SUBSET A : IsFiniteSet(B) /\ Cardinality(B) <= Cardinality(A)
    /\ \A A, x : IsFiniteSet(A) /\ x \notin A =>
          Cardinality(A \cup {x}) = Cardinality(A) + 1
    /\ \A A, x : IsFiniteSet(A) /\ x \in A =>
          Cardinality(A \ {x}) = Cardinality(A) - 1

LEMMA AwakeFinite ==
    ASSUME FiniteFacts
    PROVE  /\ IsFiniteSet(Awake) /\ Cardinality(Awake) \in Nat
           /\ IsFiniteSet(Awake') /\ Cardinality(Awake') \in Nat
  <1>1. IsFiniteSet(Threads)
    <2>1. 0 \in Int /\ NThreads - 1 \in Int
      BY BaseAssumption
    <2> QED BY <2>1, Zenon DEF FiniteFacts, Threads
  <1>2. Awake \in SUBSET Threads /\ Awake' \in SUBSET Threads
    BY DEF Awake
  <1> QED BY <1>1, <1>2, Zenon DEF FiniteFacts

\* Steps that leave the ring alone, send nobody to sleep and take no awake thread
\* away from the ring.
LEMMA AwakeMono ==
    ASSUME FiniteFacts, IInv, NoLostWakeup, status = "up", UNCHANGED <<iget, iput>>,
           Full' = Full, SignalDue' = SignalDue,
           Awake \subseteq Awake', waiters' \subseteq waiters
    PROVE  NoLostWakeup'
  <1>1. Cardinality(Awake) <= Cardinality(Awake') /\ Cardinality(Awake') \in Nat
    BY AwakeFinite, Zenon DEF FiniteFacts
  <1>2. RingLen' = RingLen /\ RingLen \in Nat
    BY RingLenType DEF RingLen, IInv
  <1>3. waiters' # {} => RingLen <= Cardinality(Awake) + (IF SignalDue THEN 1 ELSE 0)
    BY DEF NoLostWakeup
  <1> QED BY <1>1, <1>2, <1>3, AwakeFinite DEF NoLostWakeup

\* A store adds one connection and owes one signal.
LEMMA WakePut == ASSUME FiniteFacts, NoLostWakeup, IInv, MainPut PROVE NoLostWakeup'
  <1>1. Awake' = Awake /\ waiters' = waiters /\ status' = "up" /\ status = "up"
    BY DEF MainPut, Runs, Awake
  <1>2. RingLen' = RingLen + 1 /\ RingLen \in Nat
    BY RingPutLen
  <1>3. ~SignalDue /\ SignalDue'
    BY DEF MainPut, SignalDue
  <1> QED BY <1>1, <1>2, <1>3, AwakeFinite DEF NoLostWakeup

\* The signal wakes one sleeper, if there is any.
LEMMA WakeSignal == ASSUME FiniteFacts, NoLostWakeup, IInv, MainSignal PROVE NoLostWakeup'
  <1>1. CASE waiters = {}
    BY <1>1 DEF NoLostWakeup, MainSignal, CondSignal
  <1>2. CASE waiters # {}
    <2>1. PICK t \in waiters : tpc' = [tpc EXCEPT ![t] = "relock"]
      BY <1>2 DEF MainSignal, CondSignal
    <2>2. t \in Threads /\ tpc[t] = "wait"
      BY <2>1 DEF IInv, TypeOK, WaitInv
    <2>3. t \notin Awake /\ Awake' = Awake \cup {t}
      BY <2>1, <2>2 DEF Awake, IInv, TypeOK
    <2>4. Cardinality(Awake') = Cardinality(Awake) + 1
      BY <2>3, AwakeFinite, Zenon DEF FiniteFacts
    <2>5. RingLen' = RingLen /\ RingLen \in Nat
      BY RingLenType DEF IInv, RingLen, Full, MainSignal
    <2>6. SignalDue /\ ~SignalDue'
      BY DEF MainSignal, SignalDue
    <2>7. RingLen <= Cardinality(Awake) + 1
      BY <1>2, <2>6 DEF NoLostWakeup, MainSignal, Runs
    <2> QED BY <2>4, <2>5, <2>6, <2>7, AwakeFinite DEF NoLostWakeup
  <1> QED BY <1>1, <1>2

\* A thread that takes a connection leaves the ring with one less of each.
LEMMA WakeTake ==
    ASSUME FiniteFacts, NoLostWakeup, IInv, NEW t \in Threads, ThreadTake(t) PROVE NoLostWakeup'
  <1>1. t \in Awake /\ Awake' = Awake \ {t}
    BY DEF ThreadTake, Awake, IInv, TypeOK
  <1>2. Cardinality(Awake') = Cardinality(Awake) - 1
    BY <1>1, AwakeFinite, Zenon DEF FiniteFacts
  <1>4. RingLen' = RingLen - 1 /\ RingLen \in Nat /\ mpc \notin MainCS
    BY RingTakeLen
  <1>5. ~SignalDue /\ ~SignalDue'
    BY <1>4 DEF ThreadTake, SignalDue, MainCS
  <1>6. waiters' # {} => RingLen <= Cardinality(Awake)
    BY <1>5, AwakeFinite DEF NoLostWakeup, ThreadTake, Runs
  <1> QED BY <1>2, <1>4, <1>5, <1>6, AwakeFinite DEF NoLostWakeup

\* A thread gives up only on an empty ring.
LEMMA WakeEmpty ==
    ASSUME FiniteFacts, IInv, NEW t \in Threads, tpc[t] \in ThreadCS, iget = iput,
           UNCHANGED <<mpc, iget, iput>>
    PROVE  NoLostWakeup'
  <1>1. RingLen' = 0
    BY ThreadAlone, SMTT(30) DEF RingLen, Full, MainCS, IInv, TypeOK, Slots
  <1>2. Cardinality(Awake') \in Nat
    BY AwakeFinite, Zenon
  <1> QED BY <1>1, <1>2 DEF NoLostWakeup

LEMMA WakeStep == FiniteFacts /\ IInv /\ NoLostWakeup /\ [Next]_vars => NoLostWakeup'
  <1> SUFFICES ASSUME FiniteFacts, IInv, NoLostWakeup, [Next]_vars, status' = "up"
           PROVE  NoLostWakeup'
    BY DEF NoLostWakeup
  <1>t. TypeOK
    BY DEF IInv
  <1>1. ASSUME NEW c \in Conns, ClientConnect(c) \/ ClientHangup(c), UNCHANGED ringVars
        PROVE NoLostWakeup'
    BY <1>1, AwakeMono DEF ClientConnect, ClientHangup, ringVars, Awake, Full, SignalDue
  <1>2. ASSUME NEW t \in Threads, MakeThread(t) \/ CloseConn(t), UNCHANGED ringVars
        PROVE NoLostWakeup'
    BY <1>2, <1>t, AwakeMono
       DEF MakeThread, CloseConn, ringVars, Awake, Full, SignalDue, TypeOK, Runs
  <1>3. ASSUME NEW t \in Threads, CountConn(t) \/ WebChildReturns(t), UNCHANGED ringVars
        PROVE NoLostWakeup'
    BY <1>3, <1>t, AwakeMono
       DEF CountConn, WebChildReturns, ringVars, Awake, Full, SignalDue, TypeOK, Runs
  <1>4. CASE /\ \/ MakeThreadFails \/ SigIntDefault \/ SigExit
                \/ \E t \in Threads : WebChildExits(t)
             /\ UNCHANGED ringVars
    BY <1>4, Zenon DEF MakeThreadFails, SigIntDefault, SigExit, WebChildExits
  <1>5. CASE /\ \/ SigPrint \/ EndMake("accept") \/ \E a \in Actors : SigInt(a)
             /\ UNCHANGED ringVars
    BY <1>5, AwakeMono, SMTT(30)
       DEF SigPrint, EndMake, SigInt, ringVars, Awake, Full, SignalDue, Runs
  <1>6. CASE MainAccept \/ MainLock \/ MainUnlock
    BY <1>6, AwakeMono, SMTT(30)
       DEF MainAccept, MainLock, MainUnlock, ringVars, Awake, Full, SignalDue, Runs
  <1>7. CASE MainAcceptFails
    BY <1>7 DEF MainAcceptFails, AcceptError
  <1>8. CASE MainPut
    BY <1>8, WakePut
  <1>9. CASE MainTest
    BY <1>9, AwakeMono, SMTT(30) DEF MainTest, ringVars, Awake, Full, SignalDue, Runs
  <1>10. CASE MainSignal
    BY <1>10, WakeSignal
  <1>11. ASSUME NEW t \in Threads, ThreadLock(t) PROVE NoLostWakeup'
    BY <1>11, <1>t, AwakeMono DEF ThreadLock, Awake, Full, SignalDue, TypeOK, Runs
  <1>12. ASSUME NEW t \in Threads, SpuriousWake(t) PROVE NoLostWakeup'
    BY <1>12, <1>t, AwakeMono DEF SpuriousWake, Awake, Full, SignalDue, TypeOK
  <1>13. ASSUME NEW t \in Threads, ThreadCheck(t) PROVE NoLostWakeup'
    <2>1. CASE iget = iput
      BY <1>13, <2>1, WakeEmpty DEF ThreadCheck, ThreadCS, ringVars
    <2>2. CASE iget # iput
      BY <1>13, <1>t, <2>2, AwakeMono
         DEF ThreadCheck, Awake, Full, SignalDue, TypeOK, Runs, ringVars
    <2> QED BY <2>1, <2>2
  <1>14. ASSUME NEW t \in Threads, ThreadWait(t) PROVE NoLostWakeup'
    <2>1. iget = iput
      BY <1>14 DEF ThreadWait, IInv, SeenInv
    <2> QED BY <1>14, <2>1, WakeEmpty DEF ThreadWait, ThreadCS
  <1>15. ASSUME NEW t \in Threads, ThreadTake(t) PROVE NoLostWakeup'
    BY <1>15, WakeTake
  <1>16. ASSUME NEW t \in Threads, ThreadUnlock(t) PROVE NoLostWakeup'
    BY <1>16, <1>t, AwakeMono DEF ThreadUnlock, Awake, Full, SignalDue, TypeOK, Runs
  <1>17. CASE UNCHANGED vars
    BY <1>17 DEF vars, baseVars, ringVars, NoLostWakeup, RingLen, Full, Awake, SignalDue
  <1> QED
    BY <1>1, <1>2, <1>3, <1>4, <1>5, <1>6, <1>7, <1>8, <1>9, <1>10, <1>11, <1>12, <1>13,
       <1>14, <1>15, <1>16, <1>17
       DEF Next, BaseNext, MainStep, ThreadStep

-----------------------------------------------------------------------------
(***************************************************************************)
(* The counters.                                                           *)
(***************************************************************************)
\* What the steps shared by the two servers do to the counters, and a thread's
\* take: facts of PrethreadKernel_proofs, which CountFactsHold below brings over.
CountFacts ==
    /\ Cardinality(Counted) \in Nat /\ Cardinality(Uncounted) \in Nat
    /\ BaseNext => CountBase' /\ SameCount
    /\ \A t \in Threads :
          tpc[t] \notin {"unlock", "count"} /\ tpc' = [tpc EXCEPT ![t] = "unlock"]
             => Cardinality(Uncounted') = Cardinality(Uncounted) + 1

\* The connections between accept and a thread's take.
HandedOver == RingLen + Len(InHand)

CountInv == CountBase /\ CountsMatch

LEMMA HandedOverType == TypeOK => HandedOver \in Nat /\ Len(InHand) \in Nat
  <1>1. Len(InHand) \in Nat
    BY DEF InHand
  <1> QED BY <1>1, RingLenType DEF HandedOver

LEMMA InitCounts == FiniteFacts /\ Init => CountInv
  <1> SUFFICES ASSUME FiniteFacts, Init PROVE CountInv
    OBVIOUS
  <1>1. Counted = {} /\ Uncounted = {} /\ arrived = {} /\ backlog = <<>> /\ report = <<>>
    BY DEF Init, BaseInit, Counted, Uncounted
  <1>2. RingLen = 0 /\ InHand = <<>>
    BY DEF Init, BaseInit, RingLen, Full, InHand, MainHolds
  <1>3. IsFiniteSet({}) /\ Cardinality({}) = 0
    BY Zenon DEF FiniteFacts
  <1> QED BY <1>1, <1>2, <1>3, BaseAssumption
          DEF CountInv, CountBase, CountsMatch, ReportBehind

\* A connection moves from the backlog into main's hand, into the ring and to a
\* thread; only the steps of PrethreadBase do anything else to the counters.
LEMMA CountStep == CountFacts /\ IInv /\ CountInv /\ [Next]_vars => CountInv'
  <1> SUFFICES ASSUME CountFacts, IInv, CountInv, [Next]_vars PROVE CountInv'
    OBVIOUS
  <1>1. CountTypes
    BY DEF IInv, TypeOK, CountTypes
  <1>2. /\ Cardinality(Counted) \in Nat /\ Cardinality(Uncounted) \in Nat
        /\ Len(backlog) \in Nat /\ RingLen \in Nat /\ Len(InHand) \in Nat
    BY <1>1, RingLenType, HandedOverType DEF CountFacts, CountTypes, IInv
  <1>3. CountBase /\ Accounted + HandedOver = Cardinality(arrived)
    BY DEF CountInv, CountsMatch, Accounted, HandedOver
  <1>4. ASSUME CountBase', Accounted' + HandedOver' = Cardinality(arrived') PROVE CountInv'
    BY <1>4 DEF CountInv, CountsMatch, Accounted, HandedOver, CountBase
  <1>5. CASE BaseNext /\ UNCHANGED ringVars
    <2>1. CountBase' /\ SameCount
      BY <1>5, Zenon DEF CountFacts
    <2>2. UNCHANGED mpc
      BY <1>5, Zenon
         DEF BaseNext, ClientConnect, ClientHangup, MakeThread, CountConn, WebChildReturns,
             WebChildExits, CloseConn, MakeThreadFails, SigIntDefault, SigInt, SigPrint, SigExit
    <2>3. HandedOver' = HandedOver
      BY <1>5, <2>2 DEF HandedOver, RingLen, Full, InHand, MainHolds, ringVars
    <2>4. HandedOver \in Nat
      BY HandedOverType DEF IInv
    <2> QED BY <1>3, <1>4, <2>1, <2>3, <2>4 DEF SameCount
  <1>6. CASE MainAccept
    <2>1. Len(backlog') = Len(backlog) - 1
      BY <1>1, <1>6 DEF MainAccept, AcceptInto, CountTypes
    <2>2. Len(InHand) = 0 /\ Len(InHand') = 1 /\ RingLen' = RingLen
      BY <1>6 DEF MainAccept, InHand, MainHolds, RingLen, Full, ringVars
    <2>3. /\ Counted' = Counted /\ Uncounted' = Uncounted
          /\ UNCHANGED <<arrived, report, thread_count>>
      BY <1>6 DEF MainAccept, Counted, Uncounted
    <2>4. Accounted' + HandedOver' = Accounted + HandedOver
      BY <1>2, <2>1, <2>2, <2>3 DEF Accounted, HandedOver
    <2> QED BY <1>3, <1>4, <2>3, <2>4 DEF CountBase, ReportBehind
  <1>7. CASE MainPut
    <2>1. RingLen' = RingLen + 1
      BY <1>7, RingPutLen
    <2>2. Len(InHand) = 1 /\ Len(InHand') = 0
      BY <1>7 DEF MainPut, InHand, MainHolds
    <2>3. /\ Accounted' = Accounted /\ Counted' = Counted
          /\ UNCHANGED <<arrived, report, thread_count>>
      BY <1>7 DEF MainPut, Accounted, Counted, Uncounted
    <2>4. HandedOver' = HandedOver
      BY <1>2, <2>1, <2>2 DEF HandedOver
    <2> QED BY <1>3, <1>4, <2>3, <2>4 DEF CountBase, ReportBehind
  <1>8. ASSUME NEW t \in Threads, ThreadTake(t) PROVE CountInv'
    <2>1. Cardinality(Uncounted') = Cardinality(Uncounted) + 1
      BY <1>8, Zenon DEF ThreadTake, CountFacts
    <2>2. RingLen' = RingLen - 1 /\ Len(InHand') = Len(InHand)
      BY <1>8, RingTakeLen, Zenon DEF ThreadTake, InHand, MainHolds
    <2>3. Counted' = Counted /\ UNCHANGED <<arrived, report, thread_count, backlog>>
      BY <1>8 DEF ThreadTake, Counted
    <2>4. Accounted' + HandedOver' = Accounted + HandedOver
      BY <1>2, <2>1, <2>2, <2>3 DEF Accounted, HandedOver
    <2> QED BY <1>3, <1>4, <2>3, <2>4 DEF CountBase, ReportBehind
  <1>9. ASSUME UNCHANGED <<arrived, backlog, thread_count, report, iget, iput>>,
               Full' <=> Full, MainHolds' <=> MainHolds,
               \A t \in Threads : tpc'[t] \in {"unlock", "count"} <=> tpc[t] \in {"unlock", "count"}
        PROVE  CountInv'
    <2>1. Counted' = Counted /\ Uncounted' = Uncounted
      BY <1>9 DEF Counted, Uncounted
    <2>2. RingLen' = RingLen /\ Len(InHand') = Len(InHand)
      BY <1>9 DEF RingLen, InHand
    <2> QED BY <1>3, <1>4, <1>9, <2>1, <2>2, Zenon
            DEF Accounted, HandedOver, CountBase, ReportBehind
  <1>10. CASE MainAcceptFails \/ MainLock \/ MainTest \/ MainUnlock
    BY <1>9, <1>10
       DEF MainAcceptFails, AcceptError, MainLock, MainTest, MainUnlock, Full, MainHolds, ringVars
  <1>11. CASE MainSignal
    <2>1. ASSUME NEW u \in waiters PROVE u \in Threads /\ tpc[u] = "wait"
      BY DEF IInv, TypeOK, WaitInv
    <2>2. \A t \in Threads : tpc'[t] \in {"unlock", "count"} <=> tpc[t] \in {"unlock", "count"}
      BY <1>1, <1>11, <2>1, Zenon DEF MainSignal, CondSignal, CountTypes
    <2> QED BY <1>9, <1>11, <2>2, Zenon DEF MainSignal, Full, MainHolds
  <1>12. ASSUME NEW t \in Threads,
                ThreadLock(t) \/ ThreadCheck(t) \/ ThreadWait(t) \/ ThreadUnlock(t)
         PROVE  CountInv'
    BY <1>1, <1>9, <1>12
       DEF ThreadLock, ThreadCheck, ThreadWait, ThreadUnlock, CountTypes, Full, MainHolds, ringVars
  <1>13. ASSUME NEW t \in Threads, SpuriousWake(t) PROVE CountInv'
    <2>1. tpc[t] = "wait"
      BY <1>13 DEF SpuriousWake, IInv, WaitInv
    <2> QED BY <1>1, <1>9, <1>13, <2>1 DEF SpuriousWake, CountTypes, Full, MainHolds
  <1>14. CASE (EndMake("accept") /\ UNCHANGED ringVars) \/ UNCHANGED vars
    BY <1>9, <1>14 DEF EndMake, vars, baseVars, ringVars, Full, MainHolds
  <1> QED BY <1>5, <1>6, <1>7, <1>8, <1>10, <1>11, <1>12, <1>13, <1>14
          DEF Next, MainStep, ThreadStep

-----------------------------------------------------------------------------
\* The steps and the counters the two servers share, seen from PrethreadKernel.
K == INSTANCE PrethreadKernel_proofs WITH mlock <- clifd_mutex

\* The two modules count the same connections.
LEMMA SameCounters ==
    /\ K!Threads = Threads /\ K!Actors = Actors
    /\ K!Counted = Counted /\ K!Uncounted = Uncounted /\ K!Uncounted' = Uncounted'
    /\ \A S : K!Cardinality(S) = Cardinality(S) /\ (K!IsFiniteSet(S) <=> IsFiniteSet(S))
    /\ K!Accounted = Accounted
    /\ K!CountTypes <=> CountTypes
    /\ K!CountBase <=> CountBase
  <1> USE Zenon
  <1>1. K!Threads = Threads /\ K!Actors = Actors
    BY DEF Threads, Actors, Main, K!Threads, K!Actors, K!Main
  <1>2. K!Counted = Counted /\ K!Uncounted = Uncounted /\ K!Uncounted' = Uncounted'
    BY DEF Counted, Uncounted, Threads, K!Counted, K!Uncounted, K!Threads
  <1>3. \A S : K!Cardinality(S) = Cardinality(S)
    BY DEF Cardinality, K!Cardinality
  <1>4. \A S : K!IsFiniteSet(S) <=> IsFiniteSet(S)
    BY DEF IsFiniteSet, K!IsFiniteSet
  <1>5. K!Accounted = Accounted
    BY <1>2, <1>3 DEF Accounted, K!Accounted
  <1>6. K!CountTypes <=> CountTypes
    BY DEF CountTypes, K!CountTypes, Threads, K!Threads
  <1>7. K!CountBase <=> CountBase
    BY <1>2, <1>4 DEF CountBase, K!CountBase, ReportBehind, K!ReportBehind
  <1> QED BY <1>1, <1>2, <1>3, <1>4, <1>5, <1>6, <1>7

\* The facts about finite sets, with the Cardinality of PrethreadKernel.
LEMMA FiniteFactsHold == FiniteFacts
  <1> USE SameCounters, BaseAssumption, Zenon
  <1>1. IsFiniteSet({}) /\ Cardinality({}) = 0
    BY K!FS_EmptySet
  <1>2. ASSUME NEW A, IsFiniteSet(A) PROVE Cardinality(A) \in Nat
    BY <1>2, K!FS_CardinalityType
  <1>3. ASSUME NEW a \in Int, NEW b \in Int PROVE IsFiniteSet(a .. b)
    BY K!FS_Interval
  <1>4. ASSUME NEW A, IsFiniteSet(A), NEW B \in SUBSET A
        PROVE  IsFiniteSet(B) /\ Cardinality(B) <= Cardinality(A)
    BY <1>4, K!FS_Subset
  <1>5. ASSUME NEW A, NEW x, IsFiniteSet(A), x \notin A
        PROVE  Cardinality(A \cup {x}) = Cardinality(A) + 1
    BY <1>5, K!FS_AddElement
  <1>6. ASSUME NEW A, NEW x, IsFiniteSet(A), x \in A
        PROVE  Cardinality(A \ {x}) = Cardinality(A) - 1
    BY <1>6, K!FS_RemoveElement
  <1> QED BY <1>1, <1>2, <1>3, <1>4, <1>5, <1>6 DEF FiniteFacts

\* One cond_signal per stored descriptor never leaves a thread asleep while a
\* connection waits that no awake thread is coming for.
THEOREM NoLostWakeupHolds == Spec => []NoLostWakeup
  <1>1. Init => NoLostWakeup
    BY DEF Init, NoLostWakeup
  <1> QED BY <1>1, FiniteFactsHold, InvHolds, WakeStep, PTL DEF Spec
LEMMA UncountedFinite == IsFiniteSet(Uncounted) /\ Cardinality(Uncounted) \in Nat
  BY K!UncountedFinite, SameCounters, BaseAssumption, Zenon

LEMMA AccountedType ==
    ASSUME CountTypes, CountBase
    PROVE  /\ Cardinality(Counted) \in Nat /\ Cardinality(arrived) \in Nat
           /\ Len(backlog) \in Nat /\ Accounted \in Nat
  BY K!AccountedType, SameCounters, BaseAssumption, Zenon

\* A thread that takes a connection joins those that have not counted theirs.
LEMMA TakeUncounted ==
    ASSUME CountTypes, NEW t \in Threads, tpc[t] \notin {"unlock", "count"},
           tpc' = [tpc EXCEPT ![t] = "unlock"]
    PROVE  Cardinality(Uncounted') = Cardinality(Uncounted) + 1
  <1> USE Zenon
  <1>1. t \in K!Threads /\ K!CountTypes
    BY SameCounters
  <1>2. K!Cardinality(K!Uncounted') = K!Cardinality(K!Uncounted) + 1
    BY <1>1, K!TakeUncounted, BaseAssumption
  <1> QED BY <1>2, SameCounters

\* The steps the two servers share lose no connection and count none twice.
LEMMA SharedCounts ==
    ASSUME CountTypes, CountBase, BaseNext
    PROVE  CountBase' /\ SameCount
  <1> USE Zenon
  <1>1. K!BaseNext
    BY SameCounters
       DEF BaseNext, ClientConnect, ClientHangup, MakeThread, CountConn, WebChildReturns,
           WebChildExits, CloseConn, MakeThreadFails, SigIntDefault, SigInt, SigPrint, SigExit,
           Runs, Main, Nobody,
           K!BaseNext, K!ClientConnect, K!ClientHangup, K!MakeThread, K!CountConn,
           K!WebChildReturns, K!WebChildExits, K!CloseConn, K!MakeThreadFails, K!SigIntDefault,
           K!SigInt, K!SigPrint, K!SigExit, K!Runs, K!Main, K!Nobody
  <1>2. K!CountBase' /\ K!SameCount
    BY <1>1, SameCounters, K!SharedCounts, BaseAssumption
  <1>3. CountBase'
    BY <1>2 DEF CountBase, ReportBehind, Counted, Threads, IsFiniteSet, K!CountBase,
                K!ReportBehind, K!Counted, K!Threads, K!IsFiniteSet
  <1>4. K!Accounted' = Accounted'
    BY SameCounters
       DEF Accounted, Counted, Uncounted, Threads, K!Accounted, K!Counted, K!Uncounted, K!Threads
  <1>5. SameCount
    BY <1>2, <1>4, SameCounters DEF SameCount, K!SameCount
  <1> QED BY <1>3, <1>5

LEMMA CountFactsHold == CountTypes /\ CountBase => CountFacts
  BY AccountedType, UncountedFinite, SharedCounts, TakeUncounted, Zenon DEF CountFacts

\* The unlocked counters and the connections on their way, in the backlog, in
\* main's hand, in the ring or with a thread, add up to those that have arrived.
THEOREM CountsMatchHolds == Spec => []CountsMatch
  <1>1. CountInv => CountsMatch
    BY DEF CountInv
  <1>2. IInv /\ CountInv => CountFacts
    BY CountFactsHold, Zenon DEF IInv, TypeOK, CountTypes, CountInv
  <1> QED BY <1>1, <1>2, FiniteFactsHold, InitCounts, CountStep, InvHolds, PTL DEF Spec
=============================================================================
