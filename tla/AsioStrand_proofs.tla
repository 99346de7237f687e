------------------------- MODULE AsioStrand_proofs --------------------------
(***************************************************************************)
(* Proofs about AsioStrand, for every set of handlers.                     *)
(***************************************************************************)
EXTENDS AsioStrand, SequenceTheorems, TLAPS

\* The strand is locked exactly while its one invoker exists.
LockInv == locked_ <=> \E i \in Handlers : inv[i] # "none"

\* A handler runs in an invoker that is in run_ready_handlers.
UpInv == \A i \in Handlers : up[i] # None => inv[i] = "run"

\* When handlers can be in the queues.
QueueInv ==
    /\ ~locked_ => waiting_queue_ = <<>> /\ ready_queue_ = <<>>
    /\ \A i \in Handlers : inv[i] = "ready" => ready_queue_ = <<>>
    /\ shutdown_ => /\ waiting_queue_ = <<>> /\ ready_queue_ = <<>>
                    /\ \A i \in Handlers : inv[i] \in {"none", "queued"}

\* Only submitted handlers are in the strand.
KnownInv ==
    /\ Elements(waiting_queue_) \subseteq submitted /\ Elements(ready_queue_) \subseteq submitted
    /\ \A i \in Handlers : inv[i] = "ready" => i \in submitted
    /\ \A i \in Handlers : up[i] # None => up[i] \in submitted

IInv == TypeOK /\ Serial /\ LockInv /\ UpInv /\ QueueInv /\ KnownInv

\* Taking from the first of two queues in a row.
LEMMA ConcatHead ==
    ASSUME NEW T, NEW q \in Seq(T), NEW r \in Seq(T), q # <<>>
    PROVE  q \o r # <<>> /\ Head(q \o r) = Head(q) /\ Tail(q) \o r = Tail(q \o r)
  <1>1. Len(q) \in Nat \ {0} /\ Len(r) \in Nat
    OBVIOUS
  <1>2. q \o r \in Seq(T) /\ Len(q \o r) = Len(q) + Len(r)
    OBVIOUS
  <1>3. q \o r # <<>> /\ Head(q \o r) = Head(q)
    BY <1>1, <1>2
  <1>4. Tail(q) \o r \in Seq(T) /\ Tail(q \o r) \in Seq(T)
    BY <1>2, <1>3
  <1>5. Len(Tail(q) \o r) = Len(Tail(q \o r))
    BY <1>1, <1>2, <1>3
  <1>6. \A k \in 1 .. Len(Tail(q) \o r) : (Tail(q) \o r)[k] = Tail(q \o r)[k]
    BY <1>1, <1>2, <1>3
  <1>7. Tail(q) \o r = Tail(q \o r)
    BY <1>4, <1>5, <1>6, SeqEqual
  <1> QED BY <1>3, <1>7

\* What the queue operations keep of a queue.
LEMMA Queues ==
    ASSUME NEW T, NEW q \in Seq(T)
    PROVE  /\ \A h \in T : /\ Append(q, h) \in Seq(T)
                           /\ Elements(Append(q, h)) = Elements(q) \cup {h}
           /\ q # <<>> => /\ Head(q) \in T /\ Head(q) \in Elements(q)
                          /\ Tail(q) \in Seq(T) /\ Elements(Tail(q)) \subseteq Elements(q)
           /\ \A r \in Seq(T) : /\ q \o r \in Seq(T)
                                /\ Elements(q \o r) = Elements(q) \cup Elements(r)
           /\ Elements(q) = {} <=> q = <<>>
           /\ Elements(q) \subseteq T
  <1>1. ASSUME NEW h \in T
        PROVE  Append(q, h) \in Seq(T) /\ Elements(Append(q, h)) = Elements(q) \cup {h}
    <2>1. /\ Append(q, h) \in Seq(T) /\ DOMAIN Append(q, h) = DOMAIN q \cup {Len(q) + 1}
          /\ Append(q, h)[Len(q) + 1] = h /\ \A k \in DOMAIN q : Append(q, h)[k] = q[k]
      BY AppendProperties
    <2> QED BY <2>1 DEF Elements
  <1>2. ASSUME q # <<>>
        PROVE  /\ Head(q) \in T /\ Head(q) \in Elements(q)
               /\ Tail(q) \in Seq(T) /\ Elements(Tail(q)) \subseteq Elements(q)
    BY <1>2 DEF Elements
  <1>3. ASSUME NEW r \in Seq(T)
        PROVE  q \o r \in Seq(T) /\ Elements(q \o r) = Elements(q) \cup Elements(r)
    <2>1. q \o r \in Seq(T) /\ DOMAIN (q \o r) = 1 .. (Len(q) + Len(r))
      BY ConcatProperties
    <2>2. \A k \in 1 .. Len(q) : k \in DOMAIN (q \o r) /\ (q \o r)[k] = q[k]
      BY <2>1, ConcatProperties
    <2>3. \A k \in 1 .. Len(r) :
             Len(q) + k \in DOMAIN (q \o r) /\ (q \o r)[Len(q) + k] = r[k]
      BY <2>1, ConcatProperties
    <2>4. \A k \in DOMAIN (q \o r) :
             k \in 1 .. Len(q) \/ \E j \in 1 .. Len(r) : k = Len(q) + j
      <3> TAKE k \in DOMAIN (q \o r)
      <3>1. k \notin 1 .. Len(q) => k - Len(q) \in 1 .. Len(r) /\ k = Len(q) + (k - Len(q))
        BY <2>1
      <3> QED BY <3>1
    <2>5. DOMAIN q = 1 .. Len(q) /\ DOMAIN r = 1 .. Len(r)
      OBVIOUS
    <2>6. Elements(q \o r) \subseteq Elements(q) \cup Elements(r)
      BY <2>2, <2>3, <2>4, <2>5 DEF Elements
    <2>7. Elements(q) \subseteq Elements(q \o r)
      BY <2>2, <2>5 DEF Elements
    <2>8. Elements(r) \subseteq Elements(q \o r)
      BY <2>3, <2>5, Zenon DEF Elements
    <2> QED BY <2>1, <2>6, <2>7, <2>8
  <1>4. Elements(q) = {} <=> q = <<>>
    BY DEF Elements
  <1>5. Elements(q) \subseteq T
    BY DEF Elements
  <1> QED BY <1>1, <1>2, <1>3, <1>4, <1>5

LEMMA InitInv == Init => IInv
  <1> SUFFICES ASSUME Init PROVE IInv
    OBVIOUS
  <1>1. TypeOK
    <2>1. locked_ \in BOOLEAN /\ shutdown_ \in BOOLEAN
      BY Zenon DEF Init
    <2>2. inv \in [Handlers -> InvStates] /\ up \in [Handlers -> Handlers \cup {None}]
      BY DEF Init, InvStates
    <2> QED BY <2>1, <2>2 DEF Init, TypeOK
  <1>2. Serial /\ LockInv /\ UpInv /\ QueueInv
    BY DEF Init, Serial, LockInv, UpInv, QueueInv
  <1>3. KnownInv
    BY DEF Init, KnownInv, Elements
  <1> QED BY <1>1, <1>2, <1>3 DEF IInv

LEMMA InvStep == IInv /\ [Next]_vars => IInv'
  <1> SUFFICES ASSUME IInv, [Next]_vars PROVE IInv'
    OBVIOUS
  <1>q. /\ waiting_queue_ \in Seq(Handlers) /\ ready_queue_ \in Seq(Handlers)
        /\ ready_queue_ \o waiting_queue_ \in Seq(Handlers)
        /\ Elements(ready_queue_ \o waiting_queue_) =
              Elements(ready_queue_) \cup Elements(waiting_queue_)
    BY Queues DEF IInv, TypeOK
  <1>e. Elements(<<>>) = {} /\ <<>> \in Seq(Handlers)
    BY DEF Elements
  <1>1. ASSUME NEW h \in Handlers, Enqueue(h) PROVE IInv'
    <2>1. TypeOK'
      BY <1>1, <1>q, Queues DEF IInv, TypeOK, InvStates, Enqueue, enqueue, first
    <2>2. Serial' /\ LockInv'
      BY <1>1, <1>q, Zenon DEF IInv, TypeOK, Serial, LockInv, UpInv, QueueInv, Enqueue, enqueue, first
    <2>3. UpInv' /\ QueueInv'
      BY <1>1, <1>q DEF IInv, TypeOK, Serial, LockInv, UpInv, QueueInv, Enqueue, enqueue, first
    <2>4. KnownInv'
      BY <1>1, <1>q, <1>e, Queues DEF IInv, TypeOK, QueueInv, KnownInv, Enqueue, enqueue, first
    <2> QED BY <2>1, <2>2, <2>3, <2>4 DEF IInv
  <1>2. ASSUME NEW h \in Handlers, PushReady(h) PROVE IInv'
    <2>1. TypeOK'
      BY <1>2, <1>q, Queues DEF IInv, TypeOK, InvStates, PushReady, ready_push
    <2>2. Serial' /\ LockInv'
      BY <1>2, <1>q DEF IInv, TypeOK, Serial, LockInv, UpInv, QueueInv, PushReady, ready_push
    <2>3. UpInv' /\ QueueInv'
      BY <1>2, <1>q DEF IInv, TypeOK, Serial, LockInv, UpInv, QueueInv, PushReady, ready_push
    <2>4. KnownInv'
      BY <1>2, <1>q, <1>e, Queues DEF IInv, TypeOK, QueueInv, KnownInv, PushReady, ready_push
    <2> QED BY <2>1, <2>2, <2>3, <2>4 DEF IInv
  <1>3. ASSUME NEW i \in Handlers, Schedule(i) PROVE IInv'
    <2>1. TypeOK'
      BY <1>3, <1>q, Queues DEF IInv, TypeOK, InvStates, Schedule
    <2>2. Serial' /\ LockInv'
      BY <1>3, <1>q DEF IInv, TypeOK, Serial, LockInv, UpInv, QueueInv, Schedule
    <2>3. UpInv' /\ QueueInv'
      BY <1>3, <1>q DEF IInv, TypeOK, Serial, LockInv, UpInv, QueueInv, Schedule
    <2>4. KnownInv'
      BY <1>3, <1>q, <1>e, Queues DEF IInv, TypeOK, QueueInv, KnownInv, Schedule
    <2> QED BY <2>1, <2>2, <2>3, <2>4 DEF IInv
  <1>4. ASSUME NEW i \in Handlers, Invoke(i) PROVE IInv'
    <2>1. TypeOK'
      BY <1>4, <1>q, Queues DEF IInv, TypeOK, InvStates, Invoke
    <2>2. Serial' /\ LockInv'
      BY <1>4, <1>q DEF IInv, TypeOK, Serial, LockInv, UpInv, QueueInv, Invoke
    <2>3. UpInv' /\ QueueInv'
      BY <1>4, <1>q DEF IInv, TypeOK, Serial, LockInv, UpInv, QueueInv, Invoke
    <2>4. KnownInv'
      BY <1>4, <1>q, <1>e, Queues DEF IInv, TypeOK, QueueInv, KnownInv, Invoke
    <2> QED BY <2>1, <2>2, <2>3, <2>4 DEF IInv
  <1>5. ASSUME NEW i \in Handlers, RunReady(i) PROVE IInv'
    <2>1. TypeOK'
      BY <1>5, <1>q, Queues DEF IInv, TypeOK, InvStates, RunReady, ready_pop
    <2>2. Serial' /\ LockInv'
      BY <1>5, <1>q DEF IInv, TypeOK, Serial, LockInv, UpInv, QueueInv, RunReady, ready_pop
    <2>3. UpInv' /\ QueueInv'
      BY <1>5, <1>q DEF IInv, TypeOK, Serial, LockInv, UpInv, QueueInv, RunReady, ready_pop
    <2>4. KnownInv'
      BY <1>5, <1>q, <1>e, Queues DEF IInv, TypeOK, QueueInv, KnownInv, RunReady, ready_pop
    <2> QED BY <2>1, <2>2, <2>3, <2>4 DEF IInv
  <1>6. ASSUME NEW i \in Handlers, NoneReady(i) PROVE IInv'
    <2>1. TypeOK'
      BY <1>6, <1>q, Queues DEF IInv, TypeOK, InvStates, NoneReady
    <2>2. Serial' /\ LockInv'
      BY <1>6, <1>q DEF IInv, TypeOK, Serial, LockInv, UpInv, QueueInv, NoneReady
    <2>3. UpInv' /\ QueueInv'
      BY <1>6, <1>q DEF IInv, TypeOK, Serial, LockInv, UpInv, QueueInv, NoneReady
    <2>4. KnownInv'
      BY <1>6, <1>q, <1>e, Queues DEF IInv, TypeOK, QueueInv, KnownInv, NoneReady
    <2> QED BY <2>1, <2>2, <2>3, <2>4 DEF IInv
  <1>7. ASSUME NEW i \in Handlers, Complete(i) PROVE IInv'
    <2>1. TypeOK'
      BY <1>7 DEF IInv, TypeOK, InvStates, KnownInv, Complete, complete
    <2>2. Serial' /\ LockInv'
      BY <1>7, <1>q DEF IInv, TypeOK, Serial, LockInv, UpInv, QueueInv, Complete, complete
    <2>3. UpInv' /\ QueueInv'
      BY <1>7, <1>q DEF IInv, TypeOK, Serial, LockInv, UpInv, QueueInv, Complete, complete
    <2>4. KnownInv'
      BY <1>7, <1>q, <1>e, Queues DEF IInv, TypeOK, QueueInv, KnownInv, Complete, complete
    <2> QED BY <2>1, <2>2, <2>3, <2>4 DEF IInv
  <1>8. ASSUME NEW i \in Handlers, NEW h \in Handlers, Dispatch(i, h) PROVE IInv'
    <2>1. TypeOK'
      BY <1>8, <1>q, Queues DEF IInv, TypeOK, InvStates, Dispatch, dispatch
    <2>2. Serial' /\ LockInv'
      BY <1>8, <1>q DEF IInv, TypeOK, Serial, LockInv, UpInv, QueueInv, Dispatch, dispatch
    <2>3. UpInv' /\ QueueInv'
      BY <1>8, <1>q DEF IInv, TypeOK, Serial, LockInv, UpInv, QueueInv, Dispatch, dispatch
    <2>4. KnownInv'
      BY <1>8, <1>q, <1>e, Queues DEF IInv, TypeOK, QueueInv, KnownInv, Dispatch, dispatch
    <2> QED BY <2>1, <2>2, <2>3, <2>4 DEF IInv
  <1>9. ASSUME NEW i \in Handlers, OnInvokerExit(i) PROVE IInv'
    <2>1. TypeOK'
      BY <1>9, <1>q, Queues DEF IInv, TypeOK, InvStates, OnInvokerExit, push_waiting_to_ready
    <2>2. Serial' /\ LockInv'
      BY <1>9, <1>q DEF IInv, TypeOK, Serial, LockInv, UpInv, QueueInv, OnInvokerExit, push_waiting_to_ready
    <2>3. UpInv' /\ QueueInv'
      BY <1>9, <1>q DEF IInv, TypeOK, Serial, LockInv, UpInv, QueueInv, OnInvokerExit, push_waiting_to_ready
    <2>4. KnownInv'
      BY <1>9, <1>q, <1>e, Queues DEF IInv, TypeOK, QueueInv, KnownInv, OnInvokerExit, push_waiting_to_ready
    <2> QED BY <2>1, <2>2, <2>3, <2>4 DEF IInv
  <1>10. ASSUME Shutdown PROVE IInv'
    <2>1. TypeOK'
      BY <1>10, <1>e DEF IInv, TypeOK, KnownInv, Shutdown, shutdown
    <2>2. Serial' /\ LockInv'
      BY <1>10, <1>q DEF IInv, TypeOK, Serial, LockInv, UpInv, QueueInv, Shutdown, shutdown
    <2>3. UpInv' /\ QueueInv'
      BY <1>10, <1>q DEF IInv, TypeOK, Serial, LockInv, UpInv, QueueInv, Shutdown, shutdown
    <2>4. KnownInv'
      BY <1>10, <1>q, <1>e, Queues DEF IInv, TypeOK, QueueInv, KnownInv, Shutdown, shutdown
    <2> QED BY <2>1, <2>2, <2>3, <2>4 DEF IInv
  <1>11. ASSUME UNCHANGED vars PROVE IInv'
    BY <1>11 DEF vars, IInv, TypeOK, Serial, LockInv, UpInv, QueueInv, KnownInv
  <1> QED BY <1>1, <1>2, <1>3, <1>4, <1>5, <1>6, <1>7, <1>8, <1>9, <1>10, <1>11 DEF Next, Strand

\* The inductive invariant: the strand is locked exactly while an invoker exists,
\* from enqueue to on_invoker_exit, and what its queues hold was submitted.
THEOREM Invariance == Spec => []IInv
  BY InitInv, InvStep, PTL DEF Spec

\* At any time one invoker of the strand exists at most, so that its ready queue
\* needs no lock and its handlers run one at a time.
THEOREM SerialHolds == Spec => []Serial
  <1>1. IInv => Serial
    BY DEF IInv
  <1> QED BY <1>1, Invariance, PTL

\* No handler waits in a strand that no invoker is going to run.
THEOREM NotStrandedHolds == Spec => []NotStranded
  <1>1. IInv => NotStranded
    <2> SUFFICES ASSUME IInv, Elements(waiting_queue_) \cup Elements(ready_queue_) # {}
                 PROVE  \E i \in Handlers : inv[i] # "none"
      BY DEF NotStranded
    <2>1. waiting_queue_ # <<>> \/ ready_queue_ # <<>>
      BY DEF Elements
    <2> QED BY <2>1 DEF IInv, QueueInv, LockInv
  <1> QED BY <1>1, Invariance, PTL
-----------------------------------------------------------------------------
(***************************************************************************)
(* AsioStrand implements SerialExecutor.                                   *)
(***************************************************************************)
Pending == ready_queue_ \o Hand \o waiting_queue_
Current == IF InUpcall = {} THEN None ELSE up[CHOOSE i \in Handlers : up[i] # None]

\* What the refinement mapping yields.
Mapped ==
    /\ \A i \in Handlers : inv[i] = "ready" => Pending = <<i>> \o waiting_queue_
    /\ (\A i \in Handlers : inv[i] # "ready") => Pending = ready_queue_ \o waiting_queue_
    /\ \A i \in Handlers : up[i] # None => Current = up[i]
    /\ (\A i \in Handlers : up[i] = None) => Current = None
    /\ Elements(Pending) \subseteq submitted

LEMMA Mapping == IInv => Mapped
  <1> SUFFICES ASSUME IInv PROVE Mapped
    OBVIOUS
  <1>q. waiting_queue_ \in Seq(Handlers) /\ ready_queue_ \in Seq(Handlers)
    BY DEF IInv, TypeOK
  <1>1. ASSUME NEW i \in Handlers, inv[i] = "ready" PROVE Pending = <<i>> \o waiting_queue_
    <2>1. Hand = <<i>>
      BY <1>1 DEF IInv, Serial, Hand, InHand
    <2>2. ready_queue_ = <<>>
      BY <1>1 DEF IInv, QueueInv
    <2> QED BY <1>q, <2>1, <2>2 DEF Pending
  <1>2. ASSUME \A i \in Handlers : inv[i] # "ready" PROVE Pending = ready_queue_ \o waiting_queue_
    <2>1. Hand = <<>>
      BY <1>2 DEF Hand, InHand
    <2>2. ready_queue_ \o <<>> = ready_queue_
      BY <1>q
    <2> QED BY <2>1, <2>2 DEF Pending
  <1>3. ASSUME NEW i \in Handlers, up[i] # None PROVE Current = up[i]
    BY <1>3 DEF IInv, Serial, UpInv, Current, InUpcall
  <1>4. (\A i \in Handlers : up[i] = None) => Current = None
    BY DEF Current, InUpcall
  <1>5. Elements(Pending) \subseteq submitted
    <2>1. CASE \E i \in Handlers : inv[i] = "ready"
      <3>1. PICK i \in Handlers : inv[i] = "ready"
        BY <2>1
      <3> DEFINE one == <<i>>
      <3>2. one \in Seq(Handlers) /\ DOMAIN one = {1} /\ one[1] = i
        OBVIOUS
      <3>3. Pending = one \o waiting_queue_
        BY <1>1, <3>1
      <3> HIDE DEF one
      <3>4. Elements(one \o waiting_queue_) = Elements(one) \cup Elements(waiting_queue_)
        BY <1>q, <3>2, Queues
      <3>5. Elements(one) = {i} /\ i \in submitted
        BY <3>1, <3>2 DEF Elements, IInv, KnownInv
      <3> QED BY <3>3, <3>4, <3>5 DEF IInv, KnownInv
    <2>2. CASE \A i \in Handlers : inv[i] # "ready"
      <3>1. Elements(ready_queue_ \o waiting_queue_) =
              Elements(ready_queue_) \cup Elements(waiting_queue_)
        BY <1>q, Queues
      <3> QED BY <1>2, <2>2, <3>1, Zenon DEF IInv, KnownInv
    <2> QED BY <2>1, <2>2
  <1> QED BY <1>1, <1>2, <1>3, <1>4, <1>5 DEF Mapped

LEMMA MappingNext == IInv' => Mapped'
  BY Mapping, PTL

\* A handler not yet submitted is new to the abstract executor.
LEMMA Unknown ==
    ASSUME IInv, None \notin Handlers, NEW h \in Handlers, h \notin submitted
    PROVE  ~S!Known(h)
  <1>1. h \notin over /\ h \notin Elements(Pending)
    BY Mapping DEF Mapped, IInv, TypeOK
  <1>2. h # Current
    <2>1. CASE \A i \in Handlers : up[i] = None
      BY <2>1, Mapping DEF Mapped
    <2>2. CASE \E i \in Handlers : up[i] # None
      BY <2>2, Mapping DEF Mapped, IInv, KnownInv
    <2> QED BY <2>1, <2>2
  <1>3. ~ \E k \in DOMAIN Pending : Pending[k] = h
    BY <1>1 DEF Elements
  <1> QED BY <1>1, <1>2, <1>3 DEF S!Known, Pending, Current

LEMMA InitMaps == Init => S!Init
  <1> SUFFICES ASSUME Init PROVE S!Init
    OBVIOUS
  <1>1. Hand = <<>> /\ InUpcall = {}
    BY DEF Init, Hand, InHand, InUpcall
  <1> QED BY <1>1 DEF Init, S!Init

\* Every step of the strand is a step of the abstract executor, or none.
LEMMA StepMaps ==
    None \notin Handlers => (IInv /\ IInv' /\ [Next]_vars => [S!Next]_(S!vars))
  <1> SUFFICES ASSUME None \notin Handlers, IInv, IInv', [Next]_vars PROVE [S!Next]_(S!vars)
    OBVIOUS
  <1>m. Mapped /\ Mapped'
    BY Mapping, MappingNext
  <1>q. /\ waiting_queue_ \in Seq(Handlers) /\ ready_queue_ \in Seq(Handlers)
        /\ ready_queue_ \o waiting_queue_ \in Seq(Handlers)
    BY Queues DEF IInv, TypeOK
  <1>e. <<>> \o <<>> = <<>>
    OBVIOUS
  <1>r. (\A j \in Handlers : inv[j] # "ready") => Pending = ready_queue_ \o waiting_queue_
    BY <1>m, Zenon DEF Mapped
  <1>p. (\A j \in Handlers : inv'[j] # "ready") => Pending' = ready_queue_' \o waiting_queue_'
    BY <1>m, Zenon DEF Mapped
  <1>s. ASSUME Pending' = Pending, Current' = Current, over' = over, shutdown_' = shutdown_
        PROVE  [S!Next]_(S!vars)
    BY <1>s DEF S!vars, Pending, Current
  <1>1. ASSUME NEW h \in Handlers, Enqueue(h) PROVE [S!Next]_(S!vars)
    <2>1. Current' = Current /\ shutdown_' = shutdown_ /\ ~S!Known(h)
      BY <1>1, Unknown DEF Enqueue, enqueue, Current, InUpcall
    <2>2. CASE shutdown_
      <3>1. over' = over \cup {h} /\ Pending' = Pending
        BY <1>1, <2>2 DEF Enqueue, enqueue, first, Pending, Hand, InHand
      <3> QED BY <2>1, <2>2, <3>1, Zenon DEF S!Next, S!Submit, Pending, Current
    <2>3. CASE ~shutdown_ /\ locked_
      <3>1. over' = over /\ waiting_queue_' = Append(waiting_queue_, h)
              /\ ready_queue_' = ready_queue_ /\ Hand' = Hand
        BY <1>1, <2>3 DEF Enqueue, enqueue, first, Hand, InHand
      <3>2. Hand \in Seq(Handlers)
        BY DEF Hand, InHand
      <3>3. Pending' = Append(Pending, h)
        BY <1>q, <3>1, <3>2 DEF Pending
      <3> QED BY <2>1, <2>3, <3>1, <3>3, Zenon DEF S!Next, S!Submit, Pending, Current
    <2>4. CASE ~shutdown_ /\ ~locked_
      <3>1. over' = over /\ waiting_queue_ = <<>> /\ waiting_queue_' = <<>>
              /\ ready_queue_ = <<>> /\ inv'[h] = "ready" /\ \A i \in Handlers : inv[i] = "none"
        BY <1>1, <2>4 DEF Enqueue, enqueue, first, IInv, TypeOK, LockInv, QueueInv
      <3>2. Pending = <<>> /\ Pending' = <<h>>
        BY <1>m, <3>1 DEF Mapped
      <3>3. Pending' = Append(Pending, h)
        BY <3>2
      <3> QED BY <2>1, <2>4, <3>1, <3>3, Zenon DEF S!Next, S!Submit, Pending, Current
    <2> QED BY <2>2, <2>3, <2>4
  <1>2. ASSUME NEW h \in Handlers, PushReady(h) PROVE [S!Next]_(S!vars)
    <2>1. /\ ready_queue_ = <<>> /\ ready_queue_' = Append(<<>>, h)
          /\ waiting_queue_' = waiting_queue_ /\ inv[h] = "ready"
      BY <1>2, Zenon DEF PushReady, ready_push, IInv, QueueInv
    <2>2. Append(<<>>, h) = <<h>>
      OBVIOUS
    <2>3. \A i \in Handlers : inv'[i] # "ready"
      BY <1>2 DEF PushReady, IInv, TypeOK, Serial
    <2>4. Pending' = Pending
      <3>1. Pending = <<h>> \o waiting_queue_
        BY <1>m, <2>1 DEF Mapped
      <3>2. Pending' = ready_queue_' \o waiting_queue_'
        BY <1>p, <2>3, Zenon
      <3> QED BY <2>1, <2>2, <3>1, <3>2, Zenon
    <2>5. Current' = Current
      BY <1>2 DEF PushReady, Current, InUpcall
    <2> QED BY <1>2, <1>s, <2>4, <2>5 DEF PushReady, ready_push
  <1>3. ASSUME NEW i \in Handlers, Schedule(i) \/ Invoke(i) \/ NoneReady(i)
        PROVE  [S!Next]_(S!vars)
    <2>1. UNCHANGED <<waiting_queue_, ready_queue_, up, over, shutdown_>>
      BY <1>3 DEF Schedule, Invoke, NoneReady
    <2>2. \A j \in Handlers : inv[j] # "ready" /\ inv'[j] # "ready"
      BY <1>3 DEF Schedule, Invoke, NoneReady, IInv, TypeOK, Serial
    <2>3. Pending' = Pending
      BY <1>r, <1>p, <2>1, <2>2, Zenon
    <2>4. Current' = Current
      BY <2>1 DEF Current, InUpcall
    <2> QED BY <1>s, <2>1, <2>3, <2>4
  <1>4. ASSUME NEW i \in Handlers, RunReady(i) PROVE [S!Next]_(S!vars)
    <2>1. /\ \A j \in Handlers : inv[j] # "ready" /\ inv'[j] # "ready"
          /\ \A j \in Handlers : up[j] = None
      BY <1>4, Zenon DEF RunReady, IInv, TypeOK, Serial, UpInv
    <2>2. /\ ready_queue_ # <<>> /\ ready_queue_' = Tail(ready_queue_)
          /\ waiting_queue_' = waiting_queue_ /\ over' = over /\ shutdown_' = shutdown_
          /\ up'[i] = Head(ready_queue_)
      BY <1>4 DEF RunReady, ready_pop, IInv, TypeOK
    <2>3. Pending = ready_queue_ \o waiting_queue_
            /\ Pending' = Tail(ready_queue_) \o waiting_queue_
      BY <1>r, <1>p, <2>1, <2>2, Zenon
    <2>4. Pending # <<>> /\ Head(Pending) = Head(ready_queue_) /\ Pending' = Tail(Pending)
      BY <1>q, <2>2, <2>3, ConcatHead, Zenon
    <2>5. Head(ready_queue_) # None
      BY <1>q, <2>2, Queues
    <2>6. Current = None /\ Current' = Head(Pending)
      BY <1>m, <2>1, <2>2, <2>4, <2>5, Zenon DEF Mapped
    <2> QED BY <2>2, <2>4, <2>6 DEF S!Next, S!Start, Pending, Current
  <1>5. ASSUME NEW i \in Handlers, Complete(i) PROVE [S!Next]_(S!vars)
    <2>1. /\ \A j \in Handlers : inv[j] # "ready" /\ inv'[j] # "ready"
          /\ \A j \in Handlers : up'[j] = None
      BY <1>5 DEF Complete, IInv, TypeOK, Serial, UpInv
    <2>2. /\ up[i] # None /\ over' = over \cup {up[i]}
          /\ UNCHANGED <<waiting_queue_, ready_queue_, shutdown_>>
      BY <1>5 DEF Complete, complete
    <2>3. Pending' = Pending
      BY <1>r, <1>p, <2>1, <2>2, Zenon
    <2>4. Current = up[i] /\ Current' = None
      BY <1>m, <2>1, <2>2, Zenon DEF Mapped
    <2> QED BY <2>2, <2>3, <2>4, Zenon DEF S!Next, S!End, Pending, Current
  <1>6. ASSUME NEW i \in Handlers, NEW h \in Handlers, Dispatch(i, h) PROVE [S!Next]_(S!vars)
    <2>1. Pending' = Pending /\ Current' = Current /\ shutdown_' = shutdown_
            /\ over' = over \cup {h}
      BY <1>6 DEF Dispatch, dispatch, Pending, Current, Hand, InHand, InUpcall
    <2>2. Current # None /\ ~S!Known(h)
      BY <1>6, <1>m, Unknown DEF Dispatch, Mapped
    <2> QED BY <2>1, <2>2, Zenon DEF S!Next, S!Dispatch, Pending, Current
  <1>7. ASSUME NEW i \in Handlers, OnInvokerExit(i) PROVE [S!Next]_(S!vars)
    <2>1. \A j \in Handlers : inv[j] # "ready" /\ inv'[j] # "ready"
      BY <1>7 DEF OnInvokerExit, IInv, TypeOK, Serial
    <2>2. /\ ready_queue_' = ready_queue_ \o waiting_queue_ /\ waiting_queue_' = <<>>
          /\ UNCHANGED <<up, over, shutdown_>>
      BY <1>7 DEF OnInvokerExit, push_waiting_to_ready
    <2>3. (ready_queue_ \o waiting_queue_) \o <<>> = ready_queue_ \o waiting_queue_
      BY <1>q
    <2>4. Pending' = Pending
      BY <1>r, <1>p, <2>1, <2>2, <2>3, Zenon
    <2>5. Current' = Current
      BY <2>2 DEF Current, InUpcall
    <2> QED BY <1>s, <2>2, <2>4, <2>5
  <1>8. ASSUME Shutdown PROVE [S!Next]_(S!vars)
    <2>1. /\ \A j \in Handlers : inv[j] # "ready" /\ inv'[j] # "ready"
          /\ \A j \in Handlers : up[j] = None /\ up'[j] = None
      BY <1>8 DEF Shutdown, IInv, UpInv
    <2>2. /\ ready_queue_' = <<>> /\ waiting_queue_' = <<>> /\ shutdown_' = TRUE
          /\ over' = over \cup Elements(waiting_queue_) \cup Elements(ready_queue_)
      BY <1>8 DEF Shutdown, shutdown
    <2>3. Pending = ready_queue_ \o waiting_queue_ /\ Pending' = <<>>
      BY <1>e, <1>r, <1>p, <2>1, <2>2, Zenon
    <2>4. Current = None /\ Current' = None
      BY <1>m, <2>1, Zenon DEF Mapped
    <2>5. over' = over \cup Elements(Pending)
      BY <1>q, <2>2, <2>3, Queues
    <2> QED BY <2>2, <2>3, <2>4, <2>5, Zenon DEF S!Next, S!Close, Pending, Current, Elements
  <1>9. ASSUME UNCHANGED vars PROVE [S!Next]_(S!vars)
    <2>1. Pending' = Pending /\ Current' = Current
      BY <1>9 DEF vars, Pending, Current, Hand, InHand, InUpcall
    <2> QED BY <1>9, <1>s, <2>1 DEF vars
  <1> QED BY <1>1, <1>2, <1>3, <1>4, <1>5, <1>6, <1>7, <1>8, <1>9 DEF Next, Strand

\* Over any executor, and when handlers throw, the strand runs its handlers one
\* at a time in the order of enqueue, loses none and runs none twice.
THEOREM Refinement == None \notin Handlers => (Spec => SerialSpec)
  <1> SUFFICES ASSUME None \notin Handlers PROVE Spec => SerialSpec
    OBVIOUS
  <1>1. IInv /\ IInv' /\ [Next]_vars => [S!Next]_(S!vars)
    BY StepMaps
  <1> QED BY <1>1, InitMaps, Invariance, PTL DEF Spec, SerialSpec, S!Spec
=============================================================================
