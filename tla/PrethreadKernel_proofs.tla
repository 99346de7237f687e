------------------------ MODULE PrethreadKernel_proofs ------------------------
(***************************************************************************)
(* Proofs about PrethreadKernel, for every number of threads, every set of *)
(* connections and every backlog, and that it implements Dispatch.         *)
(***************************************************************************)
EXTENDS PrethreadKernel, FiniteSetTheorems, TLAPS

(***************************************************************************)
(* Facts about the backlog and the counters that both prethreaded servers  *)
(* rest on.                                                                *)
(***************************************************************************)
\* A new connection joins the backlog: it is neither queued nor open yet.
LEMMA ConnectBacklog ==
    ASSUME BacklogInv, backlog \in Seq(Conns), NEW c \in Conns, ClientConnect(c)
    PROVE  /\ BacklogInv'
           /\ \A d : (\E j \in DOMAIN backlog' : backlog'[j] = d)
                       <=> (\E j \in DOMAIN backlog : backlog[j] = d) \/ d = c
  <1> USE DEF ClientConnect
  <1>1. c \notin arrived /\ arrived' = arrived \cup {c}
    OBVIOUS
  <1>2. DOMAIN backlog' = 1 .. Len(backlog) + 1
    OBVIOUS
  <1>3. \A j \in DOMAIN backlog' :
           backlog'[j] = IF j = Len(backlog) + 1 THEN c ELSE backlog[j]
    BY <1>2
  <1>4. DOMAIN backlog = 1 .. Len(backlog) /\ Len(backlog) \in Nat
    OBVIOUS
  <1>5. \A j \in DOMAIN backlog' : backlog'[j] \in arrived' \ open'
    BY <1>1, <1>2, <1>3, <1>4 DEF BacklogInv
  <1>6. \A j, k \in DOMAIN backlog' : backlog'[j] = backlog'[k] => j = k
    BY <1>1, <1>2, <1>3, <1>4 DEF BacklogInv
  <1>7. Len(backlog) + 1 \in DOMAIN backlog' /\ DOMAIN backlog \subseteq DOMAIN backlog'
    BY <1>2, <1>4
  <1> QED BY <1>2, <1>3, <1>4, <1>5, <1>6, <1>7 DEF BacklogInv

\* accept takes the head of the backlog, which was established and not open.
LEMMA AcceptBacklog ==
    ASSUME BacklogInv, backlog \in Seq(Conns), NEW a, AcceptInto(a), arrived' = arrived
    PROVE  /\ BacklogInv'
           /\ Head(backlog) \in arrived \ open
           /\ \A d : (\E j \in DOMAIN backlog' : backlog'[j] = d)
                       <=> (\E j \in DOMAIN backlog : backlog[j] = d) /\ d # Head(backlog)
  <1> USE DEF AcceptInto
  <1>1. /\ Head(backlog) = backlog[1] /\ 1 \in DOMAIN backlog
        /\ Len(backlog) \in Nat /\ DOMAIN backlog = 1 .. Len(backlog)
    OBVIOUS
  <1>2. /\ DOMAIN backlog' = 1 .. Len(backlog) - 1
        /\ \A j \in DOMAIN backlog' : backlog'[j] = backlog[j + 1]
    BY <1>1
  <1>3. Head(backlog) \in arrived \ open
    BY <1>1 DEF BacklogInv
  <1>4. open' \subseteq arrived'
    BY <1>3 DEF BacklogInv
  <1>5. \A j \in DOMAIN backlog' : j + 1 \in DOMAIN backlog /\ j + 1 # 1
    BY <1>1, <1>2
  <1>6. \A j \in DOMAIN backlog' : backlog'[j] \in arrived' \ open'
    BY <1>1, <1>2, <1>5 DEF BacklogInv
  <1>7. \A j, k \in DOMAIN backlog' : backlog'[j] = backlog'[k] => j = k
    BY <1>1, <1>2, <1>5 DEF BacklogInv
  <1>8. ASSUME NEW d
        PROVE  (\E j \in DOMAIN backlog' : backlog'[j] = d)
                 <=> (\E j \in DOMAIN backlog : backlog[j] = d) /\ d # Head(backlog)
    <2>1. ASSUME NEW j \in DOMAIN backlog', backlog'[j] = d
          PROVE  (\E k \in DOMAIN backlog : backlog[k] = d) /\ d # Head(backlog)
      BY <1>1, <1>2, <1>5, <2>1 DEF BacklogInv
    <2>2. ASSUME NEW j \in DOMAIN backlog, backlog[j] = d, d # Head(backlog)
          PROVE  \E k \in DOMAIN backlog' : backlog'[k] = d
      <3>1. j - 1 \in DOMAIN backlog' /\ (j - 1) + 1 = j
        BY <1>1, <1>2, <2>2
      <3> QED BY <1>2, <2>2, <3>1
    <2> QED BY <2>1, <2>2
  <1> QED BY <1>3, <1>4, <1>6, <1>7, <1>8 DEF BacklogInv
-----------------------------------------------------------------------------
(***************************************************************************)
(* The connections are counted as sets, so that a step adds or removes one *)
(* element.                                                                *)
(***************************************************************************)
LEMMA UncountedFinite == IsFiniteSet(Uncounted) /\ Cardinality(Uncounted) \in Nat
  <1>1. IsFiniteSet(Threads)
    BY FS_Interval, BaseAssumption DEF Threads
  <1>2. Uncounted \in SUBSET Threads
    BY DEF Uncounted
  <1>3. IsFiniteSet(Uncounted)
    BY <1>1, <1>2, FS_Subset
  <1> QED BY <1>3, FS_CardinalityType

LEMMA AccountedType ==
    ASSUME CountTypes, CountBase
    PROVE  /\ Cardinality(Counted) \in Nat /\ Cardinality(arrived) \in Nat
           /\ Len(backlog) \in Nat /\ Accounted \in Nat
  <1>1. Cardinality(Counted) \in Nat /\ Cardinality(arrived) \in Nat
    BY FS_CardinalityType DEF CountBase
  <1>2. Len(backlog) \in Nat
    BY DEF CountTypes
  <1> QED BY <1>1, <1>2, UncountedFinite DEF Accounted

\* A thread that takes a connection joins those that have not counted theirs.
LEMMA TakeUncounted ==
    ASSUME CountTypes, NEW t \in Threads, tpc[t] \notin {"unlock", "count"},
           tpc' = [tpc EXCEPT ![t] = "unlock"]
    PROVE  Cardinality(Uncounted') = Cardinality(Uncounted) + 1
  <1>1. Uncounted' = Uncounted \cup {t} /\ t \notin Uncounted
    BY DEF Uncounted, CountTypes
  <1> QED BY <1>1, UncountedFinite, FS_AddElement

\* The unlocked increment moves one connection from the one set to the other.
LEMMA CountConnCounts ==
    ASSUME CountTypes, CountBase, NEW t \in Threads, CountConn(t)
    PROVE  /\ IsFiniteSet(Counted')
           /\ Cardinality(Counted') = Cardinality(Counted) + 1
           /\ Cardinality(Uncounted') = Cardinality(Uncounted) - 1
           /\ ReportBehind'
  <1> USE DEF CountConn
  <1>1. /\ thread_count[t] \in Nat /\ thread_count'[t] = thread_count[t] + 1
        /\ \A u \in Threads : u # t => thread_count'[u] = thread_count[u]
    BY DEF CountTypes
  <1>2. \A u, n : <<u, n>> \in Counted <=> u \in Threads /\ n \in 1 .. thread_count[u]
    BY DEF Counted
  <1>3. \A u, n : <<u, n>> \in Counted' <=> u \in Threads /\ n \in 1 .. thread_count'[u]
    BY DEF Counted
  <1>4. <<t, thread_count[t] + 1>> \notin Counted
    BY <1>1, <1>2
  <1>5. Counted' = Counted \cup {<<t, thread_count[t] + 1>>}
    <2>1. ASSUME NEW u, NEW n
          PROVE  <<u, n>> \in Counted' <=> <<u, n>> \in Counted \/ <<u, n>> = <<t, thread_count[t] + 1>>
      BY <1>1, <1>2, <1>3
    <2>2. \A x \in Counted \cup Counted' : x = <<x[1], x[2]>>
      BY DEF Counted
    <2> QED BY <2>1, <2>2
  <1>6. Uncounted' = Uncounted \ {t} /\ t \in Uncounted
    BY DEF Uncounted, CountTypes
  <1>7. IsFiniteSet(Counted') /\ Cardinality(Counted') = Cardinality(Counted) + 1
    BY <1>4, <1>5, FS_AddElement, Zenon DEF CountBase
  <1>8. Cardinality(Uncounted') = Cardinality(Uncounted) - 1
    BY <1>6, UncountedFinite, FS_RemoveElement, Zenon
  <1>9. \A i \in DOMAIN report : i - 1 \in Threads
    BY BaseAssumption DEF CountTypes, CountBase, Threads
  <1>10. ReportBehind'
    BY <1>1, <1>9 DEF CountTypes, CountBase, ReportBehind
  <1> QED BY <1>7, <1>8, <1>10

\* The steps the two servers share lose no connection and count none twice.
LEMMA SharedCounts ==
    ASSUME CountTypes, CountBase, BaseNext
    PROVE  CountBase' /\ SameCount
  <1>t. /\ Cardinality(Counted) \in Nat /\ Cardinality(arrived) \in Nat
        /\ Cardinality(Uncounted) \in Nat /\ Len(backlog) \in Nat /\ Accounted \in Nat
    BY AccountedType, UncountedFinite
  <1>s. ASSUME NEW n \in {0, 1}, Accounted' = Accounted + n,
               Cardinality(arrived') = Cardinality(arrived) + n
        PROVE  SameCount
    BY <1>t, <1>s DEF SameCount
  <1>1. ASSUME NEW c \in Conns, ClientConnect(c)
        PROVE  CountBase' /\ SameCount
    <2>1. IsFiniteSet(arrived') /\ Cardinality(arrived') = Cardinality(arrived) + 1
      BY <1>1, FS_AddElement DEF ClientConnect, CountBase
    <2>2. Len(backlog') = Len(backlog) + 1
      BY <1>1 DEF ClientConnect, CountTypes
    <2>3. Counted' = Counted /\ Uncounted' = Uncounted /\ UNCHANGED <<report, thread_count>>
      BY <1>1 DEF ClientConnect, Counted, Uncounted
    <2>4. Accounted' = Accounted + 1
      BY <1>t, <2>2, <2>3 DEF Accounted
    <2>5. CountBase'
      BY <2>1, <2>3 DEF CountBase, ReportBehind
    <2> QED BY <1>s, <2>1, <2>4, <2>5
  <1>2. ASSUME NEW t \in Threads, CountConn(t)
        PROVE  CountBase' /\ SameCount
    <2>1. UNCHANGED <<arrived, backlog, report>>
      BY <1>2 DEF CountConn
    <2>2. /\ IsFiniteSet(Counted') /\ ReportBehind'
          /\ Cardinality(Counted') = Cardinality(Counted) + 1
          /\ Cardinality(Uncounted') = Cardinality(Uncounted) - 1
      BY <1>2, CountConnCounts
    <2>3. Accounted' = Accounted + 0
      BY <1>t, <2>1, <2>2 DEF Accounted
    <2>4. Cardinality(arrived') = Cardinality(arrived) + 0
      BY <1>t, <2>1
    <2>5. CountBase'
      BY <2>1, <2>2 DEF CountBase
    <2> QED BY <1>s, <2>3, <2>4, <2>5
  <1>3. CASE SigPrint
    <2>0. Len(report) \in Threads
      BY <1>3, BaseAssumption DEF SigPrint, CountTypes, Threads
    <2>1. Len(report) \in Threads /\ thread_count[Len(report)] \in Nat
      BY <2>0 DEF CountTypes
    <2>2. /\ Len(report') = Len(report) + 1 /\ DOMAIN report' = 1 .. Len(report) + 1
          /\ \A i \in 1 .. Len(report) : report'[i] = report[i]
          /\ report'[Len(report) + 1] = thread_count[Len(report)]
      BY <1>3, <2>1 DEF SigPrint, CountTypes
    <2>3. DOMAIN report = 1 .. Len(report) /\ Len(report) \in Nat
      BY DEF CountTypes
    <2>4. ReportBehind'
      BY <1>3, <2>1, <2>2, <2>3 DEF SigPrint, CountBase, ReportBehind
    <2>5. Len(report') <= NThreads
      BY <1>3, <2>2, <2>3, BaseAssumption DEF SigPrint
    <2>6. Counted' = Counted /\ Uncounted' = Uncounted /\ UNCHANGED <<arrived, backlog>>
      BY <1>3 DEF SigPrint, Counted, Uncounted
    <2>7. Accounted' = Accounted + 0 /\ Cardinality(arrived') = Cardinality(arrived) + 0
      BY <1>t, <2>6 DEF Accounted
    <2> QED BY <1>s, <2>4, <2>5, <2>6, <2>7 DEF CountBase
  <1>4. ASSUME UNCHANGED <<arrived, backlog, thread_count, report>>,
               \A t \in Threads : tpc'[t] \in {"unlock", "count"} <=> tpc[t] \in {"unlock", "count"}
        PROVE  CountBase' /\ SameCount
    <2>1. Counted' = Counted /\ Uncounted' = Uncounted
      BY <1>4 DEF Counted, Uncounted
    <2>2. Accounted' = Accounted + 0 /\ Cardinality(arrived') = Cardinality(arrived) + 0
      BY <1>t, <1>4, <2>1 DEF Accounted
    <2> QED BY <1>s, <1>4, <2>1, <2>2 DEF CountBase, ReportBehind
  <1>5. ASSUME NEW t \in Threads, MakeThread(t) \/ WebChildReturns(t) \/ WebChildExits(t) \/ CloseConn(t)
        PROVE  CountBase' /\ SameCount
    BY <1>4, <1>5 DEF MakeThread, WebChildReturns, WebChildExits, CloseConn, CountTypes
  <1>6. ASSUME \/ \E c \in Conns : ClientHangup(c)
               \/ MakeThreadFails \/ SigIntDefault \/ SigExit
               \/ \E a \in Actors : SigInt(a)
        PROVE  CountBase' /\ SameCount
    BY <1>4, <1>6 DEF ClientHangup, MakeThreadFails, SigIntDefault, SigExit, SigInt
  <1> QED BY <1>1, <1>2, <1>3, <1>5, <1>6 DEF BaseNext
-----------------------------------------------------------------------------
\* The owner of mlock is the one thread between lock and unlock.
MutexInv == \A t \in Threads : tpc[t] \in {"accept", "unlock"} <=> mlock = t

IInv == TypeOK /\ MutexInv /\ BacklogInv /\ OneOwner

LEMMA InitInv == Init => IInv
  BY BaseAssumption
     DEF Init, BaseInit, IInv, TypeOK, MutexInv, BacklogInv, OneOwner, Holders, Ends, MainPCs,
         ThreadPCs, Holding, Actors, Threads, Main, Nobody

\* Every step keeps the types.
LEMMA TypeStep == TypeOK /\ [Next]_vars => TypeOK'
  <1> SUFFICES ASSUME TypeOK, [Next]_vars PROVE TypeOK'
    OBVIOUS
  <1> USE BaseAssumption DEF Actors, Ends, Holding, MainPCs, ThreadPCs, Nobody
  <1>1. ASSUME NEW c \in Conns, ClientConnect(c), UNCHANGED mlock PROVE TypeOK'
    BY <1>1 DEF TypeOK, ClientConnect
  <1>1b. ASSUME NEW c \in Conns, ClientHangup(c), UNCHANGED mlock PROVE TypeOK'
    BY <1>1b DEF TypeOK, ClientHangup
  <1>2. ASSUME NEW t \in Threads, CountConn(t), UNCHANGED mlock PROVE TypeOK'
    BY <1>2 DEF TypeOK, CountConn
  <1>2b. ASSUME NEW t \in Threads, MakeThread(t) \/ WebChildReturns(t), UNCHANGED mlock
         PROVE TypeOK'
    BY <1>2b, Zenon DEF TypeOK, MakeThread, WebChildReturns
  <1>3. ASSUME NEW t \in Threads, WebChildExits(t) \/ CloseConn(t), UNCHANGED mlock
        PROVE TypeOK'
    BY <1>3, Zenon DEF TypeOK, WebChildExits, CloseConn
  <1>4. CASE (MakeThreadFails \/ SigIntDefault \/ SigExit) /\ UNCHANGED mlock
    BY <1>4 DEF TypeOK, MakeThreadFails, SigIntDefault, SigExit
  <1>5. ASSUME NEW a \in Actors, SigInt(a), UNCHANGED mlock PROVE TypeOK'
    BY <1>5 DEF TypeOK, SigInt
  <1>6. CASE SigPrint /\ UNCHANGED mlock
    <2>1. \A k \in 0 .. NThreads - 1 : thread_count[k] \in Nat
      BY DEF TypeOK, Threads
    <2>2. Len(report) \in 0 .. NThreads - 1
      BY <1>6 DEF TypeOK, SigPrint
    <2>3. report' \in Seq(Nat)
      BY <1>6, <2>1, <2>2 DEF TypeOK, SigPrint
    <2> QED BY <1>6, <2>3 DEF TypeOK, SigPrint
  <1>7. CASE EndMake("pause") /\ UNCHANGED mlock
    BY <1>7 DEF TypeOK, EndMake
  <1>8. ASSUME NEW t \in Threads, ThreadLock(t) \/ ThreadUnlock(t) PROVE TypeOK'
    BY <1>8, Zenon DEF TypeOK, ThreadLock, ThreadUnlock
  <1>9. ASSUME NEW t \in Threads, ThreadAccept(t) PROVE TypeOK'
    BY <1>9 DEF TypeOK, ThreadAccept, AcceptInto
  <1>10. ASSUME NEW t \in Threads, ThreadAcceptFails(t) PROVE TypeOK'
    BY <1>10 DEF TypeOK, ThreadAcceptFails, AcceptError
  <1>11. CASE UNCHANGED vars
    BY <1>11 DEF TypeOK, vars, baseVars
  <1> QED
    BY <1>1, <1>1b, <1>2, <1>2b, <1>3, <1>4, <1>5, <1>6, <1>7, <1>8, <1>9, <1>10, <1>11
       DEF Next, BaseNext, ThreadStep
-----------------------------------------------------------------------------
(***************************************************************************)
(* Each step seen through the refinement mapping.  Stutter, Arrive, Take,  *)
(* Finish and Halt are the abstract steps; the invariant is carried along. *)
(***************************************************************************)
\* No descriptor changes hands; the process may end.
LEMMA Quiet ==
    ASSUME IInv, TypeOK', MutexInv',
           UNCHANGED <<connfd, backlog, open, arrived>>,
           status = "up", status' \in ({"up"} \cup Ends) \ {"close"},
           \A t \in Threads : tpc[t] \in Holding <=> tpc'[t] \in Holding
    PROVE  IInv' /\ [D!Next]_(D!vars)
  <1>1. Holders' = Holders /\ InService' = InService /\ Finished' = Finished
    BY DEF Holders, InService, Finished
  <1>2. OneOwner' /\ BacklogInv'
    BY <1>1 DEF IInv, OneOwner, BacklogInv, Ends
  <1>3. ASSUME status' = "up" PROVE UNCHANGED D!vars
    <2>1. (status = "up")' = (status = "up")
      BY <1>3
    <2> QED BY <1>1, <2>1 DEF D!vars
  <1>4. ASSUME status' # "up" PROVE D!Next
    <2>1. (status = "up")' = FALSE
      BY <1>4
    <2>2. D!Halt
      BY <1>1, <2>1 DEF D!Halt
    <2> QED BY <2>2 DEF D!Next
  <1> QED BY <1>2, <1>3, <1>4 DEF IInv

\* A connection arrives.
LEMMA ConnectStep ==
    ASSUME IInv, TypeOK', NEW c \in Conns, ClientConnect(c), UNCHANGED mlock
    PROVE  IInv' /\ D!Arrive(c)
  <1> USE BaseAssumption DEF ClientConnect
  <1>1. BacklogInv' /\ \A d : (\E j \in DOMAIN backlog' : backlog'[j] = d)
                                <=> (\E j \in DOMAIN backlog : backlog[j] = d) \/ d = c
    BY ConnectBacklog, Zenon DEF IInv, TypeOK
  <1>2. MutexInv' /\ Holders' = Holders /\ InService' = InService
    BY DEF IInv, MutexInv, Holders, InService
  <1>3. OneOwner'
    BY <1>2 DEF IInv, OneOwner
  <1>4. c \notin arrived /\ c \notin open
    BY DEF IInv, BacklogInv
  <1>5. Finished' = Finished
    BY <1>1, <1>4 DEF Finished
  <1>6. \A t \in Threads : InService[t] # c
    BY <1>4 DEF InService, IInv, OneOwner, Holders
  <1>7. ~D!Known(c)
    BY <1>4, <1>6 DEF D!Known, IInv, BacklogInv, Finished
  <1> QED BY <1>1, <1>2, <1>3, <1>5, <1>7 DEF IInv, D!Arrive

\* accept hands the oldest connection to the thread inside the lock.
LEMMA AcceptStep ==
    ASSUME IInv, TypeOK', NEW t \in Threads, ThreadAccept(t)
    PROVE  IInv' /\ D!Take(t)
  <1> USE BaseAssumption DEF ThreadAccept
  <1>1. /\ BacklogInv'
        /\ Head(backlog) \in arrived \ open
        /\ \A d : (\E j \in DOMAIN backlog' : backlog'[j] = d)
                     <=> (\E j \in DOMAIN backlog : backlog[j] = d) /\ d # Head(backlog)
    BY AcceptBacklog DEF IInv, TypeOK
  <1>2. MutexInv'
    BY DEF IInv, TypeOK, MutexInv
  <1>3. t \notin Holders /\ Holders' = Holders \cup {t} /\ Holders \subseteq Threads
    BY DEF IInv, TypeOK, Holders, Holding
  <1>4. /\ connfd'[t] = Head(backlog)
        /\ \A u \in Holders : connfd'[u] = connfd[u] /\ connfd[u] # Head(backlog)
    BY <1>1, <1>3 DEF AcceptInto, IInv, TypeOK, OneOwner, Actors
  <1>5. {connfd'[u] : u \in Holders'} = {connfd[u] : u \in Holders} \cup {Head(backlog)}
    BY <1>3, <1>4
  <1>6. OneOwner'
    BY <1>3, <1>4, <1>5 DEF IInv, OneOwner, AcceptInto
  <1>7. Finished' = Finished
    <2>1. 1 \in DOMAIN backlog /\ backlog[1] = Head(backlog)
      BY DEF AcceptInto, IInv, TypeOK
    <2>2. open' = open \cup {Head(backlog)} /\ arrived' = arrived
      BY DEF AcceptInto
    <2>3. ASSUME NEW d PROVE d \in Finished' <=> d \in Finished
      <3>1. (\A j \in DOMAIN backlog' : backlog'[j] # d)
              <=> (\A j \in DOMAIN backlog : backlog[j] # d) \/ d = Head(backlog)
        BY <1>1
      <3>2. (\A j \in DOMAIN backlog : backlog[j] # d) => d # Head(backlog)
        BY <2>1
      <3> QED BY <2>2, <3>1, <3>2 DEF Finished
    <2> QED BY <2>3
  <1>8. InService' = [InService EXCEPT ![t] = Head(backlog)] /\ InService[t] = NoConn
    BY <1>3, <1>4, Zenon DEF InService, Holders
  <1> QED BY <1>1, <1>2, <1>6, <1>7, <1>8 DEF IInv, D!Take, AcceptInto, Runs

\* Close ends the service of the connection the thread holds.
LEMMA CloseStep ==
    ASSUME IInv, TypeOK', NEW t \in Threads, CloseConn(t), UNCHANGED mlock
    PROVE  IInv' /\ D!Finish(t)
  <1> USE BaseAssumption DEF CloseConn
  <1>1. MutexInv'
    BY DEF IInv, TypeOK, MutexInv
  <1>2. t \in Holders /\ Holders' = Holders \ {t}
    BY DEF IInv, TypeOK, Holders, Holding
  <1>3. connfd[t] \in open /\ status' = status
    BY <1>2 DEF IInv, OneOwner
  <1>4. \A u \in Holders' : connfd[u] # connfd[t]
    BY <1>2 DEF IInv, OneOwner
  <1>5. OneOwner'
    BY <1>2, <1>3, <1>4 DEF IInv, OneOwner
  <1>6. BacklogInv'
    BY DEF IInv, BacklogInv
  <1>7. /\ InService[t] = connfd[t] /\ connfd[t] # NoConn
        /\ InService' = [InService EXCEPT ![t] = NoConn]
    BY <1>2, <1>3, Zenon DEF InService, Holders, IInv, TypeOK
  <1>8. Finished' = Finished \cup {connfd[t]}
    BY <1>3 DEF Finished, IInv, BacklogInv
  <1> QED BY <1>1, <1>3, <1>5, <1>6, <1>7, <1>8 DEF IInv, D!Finish, Runs
-----------------------------------------------------------------------------
\* Every step keeps the invariant and is a step of Dispatch or a stutter.
LEMMA Step == IInv /\ [Next]_vars => IInv' /\ [D!Next]_(D!vars)
  <1> SUFFICES ASSUME IInv, [Next]_vars PROVE IInv' /\ [D!Next]_(D!vars)
    OBVIOUS
  <1>0. TypeOK /\ TypeOK'
    BY TypeStep DEF IInv
  <1> USE BaseAssumption, <1>0
  <1>1. ASSUME NEW c \in Conns, ClientConnect(c), UNCHANGED mlock
        PROVE  IInv' /\ [D!Next]_(D!vars)
    BY <1>1, ConnectStep DEF D!Next
  <1>2. ASSUME NEW c \in Conns, ClientHangup(c), UNCHANGED mlock
        PROVE  IInv' /\ [D!Next]_(D!vars)
    BY <1>2, Quiet DEF ClientHangup, IInv, MutexInv
  <1>3. ASSUME NEW t \in Threads, UNCHANGED mlock,
               MakeThread(t) \/ CountConn(t) \/ WebChildReturns(t)
        PROVE  IInv' /\ [D!Next]_(D!vars)
    <2>1. MutexInv' /\ \A u \in Threads : tpc[u] \in Holding <=> tpc'[u] \in Holding
      BY <1>3 DEF MakeThread, CountConn, WebChildReturns, IInv, MutexInv, TypeOK, Holding
    <2> QED BY <1>3, <2>1, Quiet DEF MakeThread, CountConn, WebChildReturns, Runs
  <1>4. ASSUME NEW t \in Threads, WebChildExits(t), UNCHANGED mlock
        PROVE  IInv' /\ [D!Next]_(D!vars)
    BY <1>4, Quiet DEF WebChildExits, Runs, IInv, MutexInv, Ends
  <1>5. ASSUME NEW t \in Threads, CloseConn(t), UNCHANGED mlock
        PROVE  IInv' /\ [D!Next]_(D!vars)
    BY <1>5, CloseStep DEF D!Next
  <1>6. CASE (MakeThreadFails \/ SigIntDefault \/ SigExit) /\ UNCHANGED mlock
    BY <1>6, Quiet DEF MakeThreadFails, SigIntDefault, SigExit, Runs, IInv, MutexInv, Ends
  <1>7. CASE (SigPrint \/ EndMake("pause") \/ \E a \in Actors : SigInt(a)) /\ UNCHANGED mlock
    BY <1>7, Quiet DEF SigPrint, EndMake, SigInt, Runs, IInv, MutexInv
  <1>8. ASSUME NEW t \in Threads, ThreadLock(t) \/ ThreadUnlock(t)
        PROVE  IInv' /\ [D!Next]_(D!vars)
    <2>0. Nobody \notin Threads
      BY DEF Threads, Nobody
    <2>1. MutexInv' /\ \A u \in Threads : tpc[u] \in Holding <=> tpc'[u] \in Holding
      <3>1. CASE ThreadLock(t)
        BY <2>0, <3>1 DEF ThreadLock, IInv, MutexInv, TypeOK, Holding
      <3>2. CASE ThreadUnlock(t)
        BY <2>0, <3>2 DEF ThreadUnlock, IInv, MutexInv, TypeOK, Holding
      <3> QED BY <1>8, <3>1, <3>2
    <2> QED BY <1>8, <2>1, Quiet DEF ThreadLock, ThreadUnlock, Runs
  <1>9. ASSUME NEW t \in Threads, ThreadAccept(t) PROVE IInv' /\ [D!Next]_(D!vars)
    BY <1>9, AcceptStep DEF D!Next
  <1>10. ASSUME NEW t \in Threads, ThreadAcceptFails(t) PROVE IInv' /\ [D!Next]_(D!vars)
    BY <1>10, Quiet DEF ThreadAcceptFails, AcceptError, Runs, IInv, MutexInv, Ends
  <1>11. CASE UNCHANGED vars
    <2>1. IInv'
      BY <1>11 DEF vars, baseVars, IInv, TypeOK, MutexInv, BacklogInv, OneOwner, Holders
    <2>2. UNCHANGED D!vars
      BY <1>11 DEF vars, baseVars, D!vars, InService, Finished
    <2> QED BY <2>1, <2>2
  <1> QED
    BY <1>1, <1>2, <1>3, <1>4, <1>5, <1>6, <1>7, <1>8, <1>9, <1>10, <1>11
       DEF Next, BaseNext, ThreadStep

-----------------------------------------------------------------------------
(***************************************************************************)
(* The counters.                                                           *)
(***************************************************************************)
CountInv == CountBase /\ CountsMatch

LEMMA InitCounts == Init => CountInv
  <1> SUFFICES ASSUME Init PROVE CountInv
    OBVIOUS
  <1>1. Counted = {} /\ Uncounted = {} /\ arrived = {} /\ backlog = <<>> /\ report = <<>>
    BY DEF Init, BaseInit, Counted, Uncounted
  <1> QED BY <1>1, FS_EmptySet, BaseAssumption DEF CountInv, CountBase, CountsMatch, ReportBehind

\* accept moves one connection from the backlog to a thread; only the steps of
\* PrethreadBase do anything else to the counters.
LEMMA CountStep == IInv /\ CountInv /\ [Next]_vars => CountInv'
  <1> SUFFICES ASSUME IInv, CountInv, [Next]_vars PROVE CountInv'
    OBVIOUS
  <1>1. CountTypes
    BY DEF IInv, TypeOK, CountTypes, ThreadPCs, Holding
  <1>3. CountBase /\ Accounted = Cardinality(arrived)
    BY DEF CountInv, CountsMatch, Accounted
  <1>4. ASSUME CountBase', Accounted' = Cardinality(arrived') PROVE CountInv'
    BY <1>4 DEF CountInv, CountsMatch, Accounted, CountBase
  <1>5. CASE BaseNext
    <2>1. CountBase' /\ SameCount
      BY <1>1, <1>3, <1>5, SharedCounts
    <2>2. Accounted + 0 = Cardinality(arrived)
      BY <1>1, <1>3, AccountedType
    <2>3. Accounted' = Cardinality(arrived')
      BY <2>1, <2>2 DEF SameCount
    <2> QED BY <1>4, <2>1, <2>3
  <1>6. ASSUME NEW t \in Threads, ThreadAccept(t) PROVE CountInv'
    <2>1. Cardinality(Uncounted') = Cardinality(Uncounted) + 1
      BY <1>1, <1>6, TakeUncounted, Zenon DEF ThreadAccept
    <2>2. Len(backlog') = Len(backlog) - 1
      BY <1>1, <1>6 DEF ThreadAccept, AcceptInto, CountTypes
    <2>3. Counted' = Counted /\ UNCHANGED <<arrived, report, thread_count>>
      BY <1>6 DEF ThreadAccept, Counted
    <2>4. Accounted' = Accounted
      BY <1>1, <1>3, <2>1, <2>2, <2>3, AccountedType, UncountedFinite DEF Accounted
    <2> QED BY <1>3, <1>4, <2>3, <2>4 DEF CountBase, ReportBehind
  <1>7. ASSUME UNCHANGED <<arrived, backlog, thread_count, report>>,
               \A t \in Threads : tpc'[t] \in {"unlock", "count"} <=> tpc[t] \in {"unlock", "count"}
        PROVE  CountInv'
    <2>1. Counted' = Counted /\ Uncounted' = Uncounted
      BY <1>7 DEF Counted, Uncounted
    <2> QED BY <1>3, <1>4, <1>7, <2>1 DEF Accounted, CountBase, ReportBehind
  <1>8. ASSUME NEW t \in Threads, ThreadLock(t) \/ ThreadUnlock(t) \/ ThreadAcceptFails(t)
        PROVE  CountInv'
    BY <1>1, <1>7, <1>8
       DEF ThreadLock, ThreadUnlock, ThreadAcceptFails, AcceptError, CountTypes
  <1>9. CASE EndMake("pause") \/ UNCHANGED vars
    BY <1>7, <1>9 DEF EndMake, vars, baseVars
  <1> QED BY <1>5, <1>6, <1>8, <1>9 DEF Next, ThreadStep
-----------------------------------------------------------------------------
\* The inductive invariant: which thread is between lock and unlock of mlock, and
\* who has each descriptor that accept has returned.
THEOREM InvHolds == Spec => []IInv
  BY InitInv, Step, PTL DEF Spec

\* All variables keep their types, and main never holds a descriptor.
THEOREM TypeCorrect == Spec => []TypeOK
  <1>1. IInv => TypeOK
    BY DEF IInv
  <1> QED BY <1>1, InvHolds, PTL

\* At most one thread is inside accept.
THEOREM OneAcceptorHolds == Spec => []OneAcceptor
  <1>1. IInv => OneAcceptor
    BY DEF IInv, MutexInv, OneAcceptor
  <1> QED BY <1>1, InvHolds, PTL

\* Every open descriptor is held by exactly one thread.
THEOREM OneOwnerHolds == Spec => []OneOwner
  <1>1. IInv => OneOwner
    BY DEF IInv
  <1> QED BY <1>1, InvHolds, PTL

\* The unlocked counters and the connections on their way add up to those that
\* have arrived, and sig_int never prints more than has been counted.
THEOREM CountsMatchHolds == Spec => []CountsMatch
  <1>1. CountInv => CountsMatch
    BY DEF CountInv
  <1> QED BY <1>1, InitCounts, CountStep, InvHolds, PTL DEF Spec

\* The server whose threads accept for themselves implements Dispatch.
THEOREM Refinement == Spec => DispatchSpec
  <1>1. Init => D!Init
    BY BaseAssumption
       DEF Init, BaseInit, D!Init, InService, Finished, Holding
  <1>2. IInv /\ [Next]_vars => [D!Next]_(D!vars)
    BY Step
  <1> QED BY <1>1, <1>2, InvHolds, PTL DEF Spec, DispatchSpec, D!Spec
=============================================================================
