--------------------------- MODULE AsioPool_proofs ---------------------------
(***************************************************************************)
(* Proofs about AsioPool and AsioPoolStrand, for every number of threads   *)
(* and clients and all sets of handlers.                                   *)
(***************************************************************************)
EXTENDS AsioPool, TLAPS

Ops     == Handlers \cup Plain
Entries == Ops \cup {Task}
-----------------------------------------------------------------------------
(***************************************************************************)
(* Queues.                                                                 *)
(***************************************************************************)
\* x is in the queue q.
Has(q, x) == \E k \in DOMAIN q : q[k] = x

\* The queue has at most one invoker and at most one entry for the task.
Once(q) ==
    \A j, k \in DOMAIN q :
        \/ q[j] \in Handlers /\ q[k] \in Handlers
        \/ q[j] = Task /\ q[k] = Task
        => j = k

LEMMA Distinct ==
    /\ \A o \in Ops : o # Task /\ o # NoOp
    /\ \A h \in Handlers, o \in Plain : h # o
  BY PoolAssumption DEF Ops

LEMMA AppendQueue ==
    ASSUME NEW q \in Seq(Entries), NEW o \in Entries
    PROVE  /\ Append(q, o) \in Seq(Entries) /\ Append(q, o) # <<>>
           /\ \A x : Has(Append(q, o), x) <=> Has(q, x) \/ x = o
           /\ Once(q) /\ (o \in Handlers => \A h \in Handlers : ~Has(q, h))
                /\ (o = Task => ~Has(q, Task)) => Once(Append(q, o))
  <1> USE Zenon
  <1>1. /\ Append(q, o) \in Seq(Entries) /\ DOMAIN Append(q, o) = DOMAIN q \cup {Len(q) + 1}
        /\ Append(q, o)[Len(q) + 1] = o /\ \A k \in DOMAIN q : Append(q, o)[k] = q[k]
    BY SMT
  <1>2. Append(q, o) # <<>>
    BY <1>1, SMT
  <1>3. \A x : Has(Append(q, o), x) <=> Has(q, x) \/ x = o
    BY <1>1 DEF Has
  <1>4. ASSUME Once(q), o \in Handlers => \A h \in Handlers : ~Has(q, h),
               o = Task => ~Has(q, Task)
        PROVE  Once(Append(q, o))
    <2>1. \A k \in DOMAIN q : /\ q[k] \in Handlers => o \notin Handlers
                              /\ q[k] = Task => o # Task
      BY <1>4 DEF Has
    <2> QED BY <1>1, <1>4, <2>1 DEF Once
  <1> QED BY <1>1, <1>2, <1>3, <1>4

LEMMA ConcatQueue ==
    ASSUME NEW q \in Seq(Entries), NEW p \in Seq(Plain)
    PROVE  /\ q \o p \in Seq(Entries)
           /\ \A x : Has(q \o p, x) <=> Has(q, x) \/ Has(p, x)
           /\ \A x : Has(p, x) => x \in Plain
           /\ Once(q) => Once(q \o p)
  <1>1. p \in Seq(Entries)
    BY DEF Entries, Ops
  <1>2. q \o p \in Seq(Entries) /\ DOMAIN (q \o p) = 1 .. (Len(q) + Len(p))
    BY <1>1
  <1>3. \A k \in 1 .. Len(q) : k \in DOMAIN (q \o p) /\ (q \o p)[k] = q[k]
    BY <1>1, <1>2
  <1>4. \A k \in 1 .. Len(p) :
           Len(q) + k \in DOMAIN (q \o p) /\ (q \o p)[Len(q) + k] = p[k]
    BY <1>1, <1>2
  <1>5. \A k \in DOMAIN (q \o p) :
           k \in 1 .. Len(q) \/ \E j \in 1 .. Len(p) : k = Len(q) + j
    <2> TAKE k \in DOMAIN (q \o p)
    <2>1. k \notin 1 .. Len(q) => k - Len(q) \in 1 .. Len(p) /\ k = Len(q) + (k - Len(q))
      BY <1>2
    <2> QED BY <2>1
  <1>6. /\ DOMAIN q = 1 .. Len(q) /\ DOMAIN p = 1 .. Len(p)
        /\ \A k \in 1 .. Len(p) : p[k] \in Plain
    OBVIOUS
  <1>7. ASSUME NEW x PROVE Has(q \o p, x) <=> Has(q, x) \/ Has(p, x)
    <2>1. Has(q, x) \/ Has(p, x) => Has(q \o p, x)
      BY <1>3, <1>4, <1>6, Zenon DEF Has
    <2>2. ASSUME Has(q \o p, x) PROVE Has(q, x) \/ Has(p, x)
      <3>1. PICK k \in DOMAIN (q \o p) : (q \o p)[k] = x
        BY <2>2, Zenon DEF Has
      <3>2. CASE k \in 1 .. Len(q)
        BY <1>3, <1>6, <3>1, <3>2, Zenon DEF Has
      <3>3. ASSUME NEW j \in 1 .. Len(p), k = Len(q) + j PROVE Has(p, x)
        BY <1>4, <1>6, <3>1, <3>3, Zenon DEF Has
      <3> QED BY <1>5, <3>2, <3>3, Zenon
    <2> QED BY <2>1, <2>2, Zenon
  <1>8. \A x : Has(p, x) => x \in Plain
    BY <1>6 DEF Has
  <1>9. ASSUME Once(q) PROVE Once(q \o p)
    <2>1. \A k \in DOMAIN (q \o p) :
             (q \o p)[k] \in Handlers \/ (q \o p)[k] = Task => k \in DOMAIN q
      BY <1>4, <1>5, <1>6, Distinct DEF Ops
    <2> QED BY <1>3, <1>6, <1>9, <2>1 DEF Once
  <1> QED BY <1>2, <1>7, <1>8, <1>9

LEMMA TailQueue ==
    ASSUME NEW q \in Seq(Entries), q # <<>>
    PROVE  /\ Head(q) \in Entries /\ Tail(q) \in Seq(Entries)
           /\ \A x : Has(q, x) <=> x = Head(q) \/ Has(Tail(q), x)
           /\ Once(q) => /\ Once(Tail(q))
                         /\ Head(q) = Task => ~Has(Tail(q), Task)
                         /\ Head(q) \in Handlers => \A h \in Handlers : ~Has(Tail(q), h)
  <1>1. /\ Head(q) \in Entries /\ Tail(q) \in Seq(Entries) /\ Head(q) = q[1]
        /\ Len(q) \in Nat \ {0} /\ DOMAIN q = 1 .. Len(q) /\ 1 \in DOMAIN q
        /\ DOMAIN Tail(q) = 1 .. (Len(q) - 1)
        /\ \A k \in 1 .. (Len(q) - 1) : Tail(q)[k] = q[k + 1]
    OBVIOUS
  <1>2. \A k \in DOMAIN Tail(q) : k + 1 \in DOMAIN q /\ k + 1 # 1 /\ Tail(q)[k] = q[k + 1]
    BY <1>1
  <1>3. \A k \in DOMAIN q : k = 1 \/ \E j \in DOMAIN Tail(q) : k = j + 1
    <2> TAKE k \in DOMAIN q
    <2>1. k # 1 => k - 1 \in DOMAIN Tail(q) /\ k = (k - 1) + 1
      BY <1>1
    <2> QED BY <2>1
  <1>4. \A x : Has(q, x) <=> x = Head(q) \/ Has(Tail(q), x)
    BY <1>1, <1>2, <1>3 DEF Has
  <1>5. ASSUME Once(q) PROVE Once(Tail(q))
    <2>1. \A j, k \in DOMAIN Tail(q) : j + 1 = k + 1 => j = k
      BY <1>1
    <2> QED BY <1>2, <1>5, <2>1 DEF Once
  <1>6. ASSUME Once(q)
        PROVE  /\ Head(q) = Task => ~Has(Tail(q), Task)
               /\ Head(q) \in Handlers => \A h \in Handlers : ~Has(Tail(q), h)
    BY <1>1, <1>2, <1>6 DEF Once, Has
  <1> QED BY <1>1, <1>4, <1>5, <1>6
-----------------------------------------------------------------------------
(***************************************************************************)
(* The four ways in which a pass of do_run_one's loop ends.                *)
(***************************************************************************)
PassStops(t, q, st, ti) ==
    /\ stopped_
    /\ op_queue_' = q /\ state_' = st /\ task_interrupted_' = ti
    /\ pc' = [pc EXCEPT ![t] = "out"]
    /\ UNCHANGED <<cur, post, interrupter>>

PassTask(t, q, st) ==
    /\ ~stopped_ /\ q # <<>> /\ Head(q) = Task
    /\ op_queue_' = Tail(q)
    /\ task_interrupted_' = (Tail(q) # <<>>)
    /\ \/ /\ Tail(q) # <<>>
          /\ state_' = SetBit(st)
          /\ post' = [post EXCEPT ![t] = IF SetBit(st) > 1 THEN "signal" ELSE "idle"]
          /\ pc' = [pc EXCEPT ![t] = "poll"]
       \/ /\ Tail(q) = <<>>
          /\ state_' = st /\ post' = post
          /\ pc' = [pc EXCEPT ![t] = "task"]
    /\ UNCHANGED <<cur, interrupter>>

PassHandler(t, q, st, ti) ==
    /\ ~stopped_ /\ q # <<>> /\ Head(q) # Task
    /\ op_queue_' = Tail(q)
    /\ \/ Tail(q) # <<>> /\ WakeOne(t, st, ti)
       \/ Tail(q) = <<>> /\ state_' = st /\ task_interrupted_' = ti /\ UNCHANGED <<post, interrupter>>
    /\ pc' = [pc EXCEPT ![t] = "handler"]
    /\ cur' = [cur EXCEPT ![t] = Head(q)]

PassWaits(t, q, st, ti) ==
    /\ ~stopped_ /\ q = <<>>
    /\ op_queue_' = q /\ task_interrupted_' = ti
    /\ state_' = 2 * (st \div 2) + 2
    /\ pc' = [pc EXCEPT ![t] = "wait"]
    /\ UNCHANGED <<cur, post, interrupter>>

LEMMA RunOneCases ==
    ASSUME NEW t, NEW q, NEW st, NEW ti, RunOne(t, q, st, ti)
    PROVE  \/ PassStops(t, q, st, ti) \/ PassTask(t, q, st)
           \/ PassHandler(t, q, st, ti) \/ PassWaits(t, q, st, ti)
  BY DEF RunOne, PassStops, PassTask, PassHandler, PassWaits
-----------------------------------------------------------------------------
(***************************************************************************)
(* Types.                                                                  *)
(***************************************************************************)
PcStates   == {"out", "loop", "wait", "relock", "poll", "task", "tasked", "handler", "unwind",
               "stop"}
PostStates == {"idle", "ready", "make", "again", "push", "signal", "stop", "gone"}

ArgOK ==
    \A a \in Actors : /\ post[a] \in {"ready", "make", "again"} => arg[a] \in Handlers
                      /\ post[a] = "push" => arg[a] \in Ops

SchedTypes ==
    /\ op_queue_ \in Seq(Entries)
    /\ state_ \in Int
    /\ private_op_queue \in [Threads -> Seq(Plain)]
    /\ private_outstanding_work \in [Threads -> Nat]
    /\ pc \in [Threads -> PcStates]
    /\ cur \in [Threads -> Ops \cup {NoOp}]
    /\ post \in [Actors -> PostStates]
    /\ arg \in [Actors -> Ops \cup {NoOp}]

PoolTypes ==
    /\ waiting_queue_ \in Seq(Handlers) /\ ready_queue_ \in Seq(Handlers)
    /\ stage \in [Threads -> {"run", "exit", "left"}]
    /\ upcall \in [Threads -> Handlers \cup {NoOp}]
    /\ threw \in [Threads -> BOOLEAN]

Types == SchedTypes /\ PoolTypes /\ ArgOK

LEMMA InitTypes == Init => Types
  <1> SUFFICES ASSUME Init PROVE Types
    OBVIOUS
  <1>1. <<Task>> \in Seq(Entries)
    BY DEF Entries
  <1>3. SchedTypes
    BY <1>1 DEF Init, SchedInit, SchedTypes, PcStates, PostStates
  <1>4. PoolTypes
    BY DEF Init, PoolTypes
  <1>5. ArgOK
    BY DEF Init, SchedInit, ArgOK
  <1> QED BY <1>3, <1>4, <1>5 DEF Types

LEMMA SetPc ==
    ASSUME SchedTypes, NEW t \in Threads, NEW s \in PcStates
    PROVE  [pc EXCEPT ![t] = s] \in [Threads -> PcStates]
  BY DEF SchedTypes

\* An actor with nothing to push has no argument to keep.
LEMMA SetPost ==
    ASSUME SchedTypes, ArgOK, NEW a \in Actors, NEW s \in {"idle", "signal", "stop", "gone"},
           post' = [post EXCEPT ![a] = s], arg' = arg
    PROVE  post' \in [Actors -> PostStates] /\ ArgOK'
  BY DEF SchedTypes, ArgOK, PostStates

LEMMA RunOneTypes ==
    ASSUME SchedTypes, ArgOK, NEW t \in Threads, NEW q \in Seq(Entries), NEW st \in Int,
           NEW ti, RunOne(t, q, st, ti),
           UNCHANGED <<private_outstanding_work, arg>>,
           private_op_queue' \in [Threads -> Seq(Plain)]
    PROVE  SchedTypes' /\ ArgOK'
  <1> USE Zenon
  <1>1. q # <<>> => Head(q) \in Entries /\ Tail(q) \in Seq(Entries)
    BY TailQueue
  <1>2. t \in Actors
    BY DEF Actors
  <1>3. SetBit(st) \in Int /\ 2 * (st \div 2) + 2 \in Int
    BY SMT DEF SetBit
  <1>4. CASE PassStops(t, q, st, ti)
    BY <1>4 DEF PassStops, SchedTypes, ArgOK, PcStates
  <1>p. ASSUME NEW p \in {"idle", "signal"}, post' = [post EXCEPT ![t] = p]
        PROVE  post' \in [Actors -> PostStates] /\ ArgOK'
    <2>1. p \in {"idle", "signal", "stop", "gone"} /\ arg' = arg
      OBVIOUS
    <2> QED BY <1>2, <1>p, <2>1, SetPost
  <1>u. post' = post => post' \in [Actors -> PostStates] /\ ArgOK'
    BY DEF SchedTypes, ArgOK
  <1>5. CASE PassTask(t, q, st)
    <2>1. post' \in [Actors -> PostStates] /\ ArgOK'
      BY <1>p, <1>u, <1>5 DEF PassTask
    <2>2. state_' \in Int
      BY <1>3, <1>5 DEF PassTask
    <2>3. pc' \in [Threads -> PcStates]
      <3>1. pc' = [pc EXCEPT ![t] = "poll"] \/ pc' = [pc EXCEPT ![t] = "task"]
        BY <1>5 DEF PassTask
      <3> QED BY <3>1, SetPc, SMT DEF PcStates
    <2> QED BY <1>1, <1>5, <2>1, <2>2, <2>3 DEF PassTask, SchedTypes
  <1>6. CASE PassHandler(t, q, st, ti)
    <2>1. op_queue_' \in Seq(Entries) /\ cur' \in [Threads -> Ops \cup {NoOp}]
      BY <1>1, <1>6 DEF PassHandler, SchedTypes, Entries
    <2>2. post' \in [Actors -> PostStates] /\ ArgOK'
      BY <1>p, <1>u, <1>6 DEF PassHandler, WakeOne
    <2>3. state_' \in Int /\ pc' \in [Threads -> PcStates]
      BY <1>3, <1>6 DEF PassHandler, WakeOne, SchedTypes, PcStates
    <2> QED BY <1>6, <2>1, <2>2, <2>3 DEF SchedTypes
  <1>7. CASE PassWaits(t, q, st, ti)
    BY <1>3, <1>7 DEF PassWaits, SchedTypes, ArgOK, PcStates
  <1> QED BY <1>4, <1>5, <1>6, <1>7, RunOneCases

\* Where a thread can be in its handler, and what it can be posting there.
ControlOf(t) ==
    /\ cur[t] = NoOp <=> pc[t] # "handler"
    /\ stage[t] # "run" => cur[t] \in Handlers
    /\ upcall[t] # NoOp => cur[t] \in Handlers /\ stage[t] = "run"
    /\ post[t] \notin {"stop", "gone"}
    /\ post[t] # "idle" => pc[t] = "handler" \/ (pc[t] = "poll" /\ post[t] = "signal")
    /\ stage[t] = "exit" => post[t] = "idle"
Control == \A t \in Threads : ControlOf(t)

LEMMA TypesStep == Types /\ Control /\ [Next]_vars => Types'
  <1> USE Zenon
  <1> SUFFICES ASSUME Types, Control, [Next]_vars PROVE Types'
    OBVIOUS
  <1> USE DEF Types
  <1>t. \A t \in Threads : t \in Actors
    BY DEF Actors
  <1>c. \A c \in Clients : c \in Actors
    BY DEF Actors
  <1>w. ASSUME NEW a \in Actors, NEW o \in Ops, NEW n, WorkStarted(a, o, n)
        PROVE  SchedTypes' /\ ArgOK'
    BY <1>w DEF WorkStarted, SchedTypes, ArgOK, PostStates
  <1>e. ASSUME NEW t \in Threads, NEW throws, HandlerEnds(t, throws)
        PROVE  SchedTypes' /\ ArgOK'
    <2>1. pc' \in [Threads -> PcStates]
      BY <1>e DEF HandlerEnds, SchedTypes, PcStates
    <2> QED BY <1>e, <2>1 DEF HandlerEnds, SchedTypes, ArgOK
  <1>s. ASSUME NEW to \in [Threads -> PcStates], StopAllThreads(to)
        PROVE  /\ pc' \in [Threads -> PcStates] /\ state_' \in Int
               /\ UNCHANGED <<op_queue_, private_op_queue, private_outstanding_work, cur, arg>>
    BY <1>s, SMT DEF StopAllThreads, SetBit, SchedTypes, PcStates
  <1>b. UNCHANGED bodyVars /\ UNCHANGED strandVars => PoolTypes'
    BY DEF bodyVars, strandVars, PoolTypes
  <1>1. ASSUME NEW a \in Actors, NEW o \in Plain, PostPlain(a, o) PROVE Types'
    BY <1>1, <1>w DEF PostPlain, strandVars, PoolTypes, Ops
  <1>2. ASSUME NEW a \in Actors, NEW h \in Handlers, PostStrand(a, h) PROVE Types'
    <2>1. Append(waiting_queue_, h) \in Seq(Handlers)
      BY SMT DEF PoolTypes
    <2>2. PoolTypes'
      BY <1>2, <2>1 DEF PostStrand, enqueue, bodyVars, PoolTypes
    <2>3. CASE first
      <3>1. post' = [post EXCEPT ![a] = "ready"] /\ arg' = [arg EXCEPT ![a] = h]
        BY <1>2, <2>3 DEF PostStrand
      <3>2. post' \in [Actors -> PostStates] /\ arg' \in [Actors -> Ops \cup {NoOp}]
        BY <3>1 DEF SchedTypes, PostStates, Ops
      <3>3. ArgOK'
        BY <3>1 DEF SchedTypes, ArgOK
      <3> QED BY <1>2, <2>2, <3>2, <3>3 DEF PostStrand, SchedTypes
    <2>4. CASE ~first
      <3>1. post' = post /\ arg' = arg
        BY <1>2, <2>4 DEF PostStrand
      <3> QED BY <1>2, <2>2, <3>1 DEF PostStrand, SchedTypes, ArgOK
    <2> QED BY <2>3, <2>4
  <1>3. ASSUME NEW a \in Actors, PushReady(a) PROVE Types'
    <2>1. Append(ready_queue_, arg[a]) \in Seq(Handlers)
      BY <1>3, SMT DEF PushReady, PoolTypes, ArgOK
    <2>2. PoolTypes'
      BY <1>3, <2>1 DEF PushReady, ready_push, bodyVars, PoolTypes
    <2> QED BY <1>3, <2>2 DEF PushReady, SchedTypes, ArgOK, PostStates
  <1>4. ASSUME NEW a \in Actors, Schedule(a) PROVE Types'
    <2>1. arg[a] \in Ops
      BY <1>4 DEF Schedule, ArgOK, Ops
    <2> QED BY <1>4, <1>b, <1>w, <2>1 DEF Schedule
  <1>5. ASSUME NEW a \in Actors, PushOp(a), UNCHANGED <<strandVars, bodyVars>> PROVE Types'
    <2>1. op_queue_' \in Seq(Entries)
      BY <1>5, AppendQueue DEF PushOp, SchedTypes, ArgOK, Entries
    <2>2. state_' \in Int
      BY <1>5, SMT DEF PushOp, WakeOne, SetBit, SchedTypes
    <2>3. post' \in [Actors -> PostStates] /\ ArgOK'
      <3>1. arg' = arg /\ \E s \in {"idle", "signal", "stop", "gone"} :
                             post' = [post EXCEPT ![a] = s]
        BY <1>5 DEF PushOp, WakeOne
      <3> QED BY <3>1, SetPost
    <2> QED BY <1>5, <1>b, <2>1, <2>2, <2>3 DEF PushOp, SchedTypes
  <1>6. ASSUME NEW a \in Actors, Signal(a), UNCHANGED <<strandVars, bodyVars>> PROVE Types'
    <2>1. pc' \in [Threads -> PcStates]
      <3>1. pc' = pc \/ \E t \in Threads : pc' = [pc EXCEPT ![t] = "relock"]
        BY <1>6 DEF Signal
      <3>2. "relock" \in PcStates /\ pc \in [Threads -> PcStates]
        BY DEF SchedTypes, PcStates
      <3> QED BY <3>1, <3>2, SetPc
    <2> QED BY <1>6, <1>b, <2>1 DEF Signal, SchedTypes, ArgOK, PostStates
  <1>7. ASSUME NEW c \in Clients, ReleaseGuard(c), UNCHANGED <<strandVars, bodyVars>>
        PROVE  Types'
    BY <1>7, <1>b, <1>c DEF ReleaseGuard, SchedTypes, ArgOK, PostStates
  <1>8. ASSUME NEW c \in Clients, ClientStops(c), UNCHANGED <<strandVars, bodyVars>>
        PROVE  Types'
    <2>1. pc \in [Threads -> PcStates]
      BY DEF SchedTypes
    <2> QED BY <1>8, <1>b, <1>c, <1>s, <2>1 DEF ClientStops, SchedTypes, ArgOK, PostStates
  <1>9. ASSUME NEW t \in Threads, NEW o \in Plain, DeferPlain(t, o) PROVE Types'
    <2>1. Append(private_op_queue[t], o) \in Seq(Plain)
      BY SMT DEF SchedTypes
    <2> QED BY <1>9, <2>1, SMT DEF DeferPlain, Defer, strandVars, SchedTypes, ArgOK, PoolTypes
  <1>10. ASSUME NEW t \in Threads, NEW h \in Handlers, DispatchStrand(t, h) PROVE Types'
    BY <1>10 DEF DispatchStrand, dispatch, schedVars, bodyVars, SchedTypes, ArgOK, PoolTypes
  <1>11. ASSUME NEW t \in Threads, RunReady(t) PROVE Types'
    <2>1. Head(ready_queue_) \in Handlers /\ Tail(ready_queue_) \in Seq(Handlers)
      BY <1>11, SMT DEF RunReady, PoolTypes
    <2> QED BY <1>11, <2>1 DEF RunReady, ready_pop, schedVars, SchedTypes, ArgOK, PoolTypes
  <1>12. ASSUME NEW t \in Threads, NoneReady(t) PROVE Types'
    BY <1>12 DEF NoneReady, schedVars, strandVars, SchedTypes, ArgOK, PoolTypes
  <1>13. ASSUME NEW t \in Threads, UpcallEnds(t) PROVE Types'
    BY <1>13 DEF UpcallEnds, complete, schedVars, SchedTypes, ArgOK, PoolTypes
  <1>14. ASSUME NEW t \in Threads, InvokerExits(t) PROVE Types'
    <2>1. cur[t] \in Handlers /\ t \in Actors
      BY <1>14, <1>t DEF InvokerExits, Control, ControlOf
    <2>2. ready_queue_ \o waiting_queue_ \in Seq(Handlers)
      BY SMT DEF PoolTypes
    <2>3. PoolTypes'
      BY <1>14, <2>2, SMT DEF InvokerExits, push_waiting_to_ready, PoolTypes
    <2>5. post' \in [Actors -> PostStates] /\ arg' \in [Actors -> Ops \cup {NoOp}] /\ ArgOK'
      <3>1. CASE locked_'
        <4>1. post' = [post EXCEPT ![t] = "again"] /\ arg' = [arg EXCEPT ![t] = cur[t]]
          BY <1>14, <3>1 DEF InvokerExits
        <4> QED BY <2>1, <4>1 DEF SchedTypes, ArgOK, PostStates, Ops
      <3>2. CASE ~locked_'
        BY <1>14, <3>2 DEF InvokerExits, SchedTypes, ArgOK
      <3> QED BY <3>1, <3>2
    <2> QED BY <1>14, <2>3, <2>5 DEF InvokerExits, SchedTypes
  <1>15. ASSUME NEW t \in Threads, InvokerEnds(t) PROVE Types'
    BY <1>15, <1>e DEF InvokerEnds, strandVars, PoolTypes
  <1>16. ASSUME NEW t \in Threads, PlainEnds(t) PROVE Types'
    BY <1>16, <1>e DEF PlainEnds, strandVars, PoolTypes
  <1>17. ASSUME NEW t \in Threads, RunAgain(t) PROVE Types'
    <2>1. pc' \in [Threads -> PcStates]
      BY <1>17, SetPc DEF RunAgain, Run, PcStates
    <2> QED BY <1>17, <2>1 DEF RunAgain, Run, strandVars, SchedTypes, ArgOK, PoolTypes
  <1>18. ASSUME NEW t \in Threads, Loop(t), UNCHANGED <<strandVars, bodyVars>> PROVE Types'
    <2>1. op_queue_ \o private_op_queue[t] \in Seq(Entries)
      BY ConcatQueue DEF SchedTypes
    <2>2. state_ \in Int
      BY DEF SchedTypes
    <2>3. private_op_queue' \in [Threads -> Seq(Plain)]
      BY <1>18, SMT DEF Loop, SchedTypes
    <2>u. UNCHANGED <<private_outstanding_work, arg>>
      BY <1>18 DEF Loop
    <2>4. SchedTypes' /\ ArgOK'
      BY <1>18, <2>1, <2>2, <2>3, <2>u, RunOneTypes DEF Loop
    <2> QED BY <1>18, <1>b, <2>4
  <1>19. ASSUME NEW t \in Threads, Relock(t), UNCHANGED <<strandVars, bodyVars>> PROVE Types'
    <2>1. op_queue_ \in Seq(Entries) /\ state_ - 2 \in Int
      BY SMT DEF SchedTypes
    <2>2. private_op_queue' \in [Threads -> Seq(Plain)]
      BY <1>19 DEF Relock, SchedTypes
    <2>u. UNCHANGED <<private_outstanding_work, arg>>
      BY <1>19 DEF Relock
    <2>3. CASE state_ % 2 = 0
      <3>1. pc' \in [Threads -> PcStates]
        BY <1>19, <2>3, SetPc, SMT DEF Relock, PcStates
      <3> QED BY <1>19, <1>b, <2>3, <3>1 DEF Relock, SchedTypes, ArgOK
    <2>4. CASE state_ % 2 # 0
      <3>1. SchedTypes' /\ ArgOK'
        BY <1>19, <2>1, <2>2, <2>4, <2>u, RunOneTypes DEF Relock
      <3> QED BY <1>19, <1>b, <3>1
    <2> QED BY <2>3, <2>4
  <1>20. ASSUME NEW t \in Threads, UNCHANGED <<strandVars, bodyVars>>,
                ReactorReturns(t) \/ SpuriousWake(t) \/ ReactorEvent(t)
         PROVE  Types'
    <2>1. pc' \in [Threads -> PcStates]
      BY <1>20, SetPc, SMT DEF ReactorReturns, SpuriousWake, ReactorEvent, PcStates
    <2> QED BY <1>20, <1>b, <2>1
            DEF ReactorReturns, SpuriousWake, ReactorEvent, SchedTypes, ArgOK
  <1>21. ASSUME NEW t \in Threads, TaskCleanup(t), UNCHANGED <<strandVars, bodyVars>>
         PROVE  Types'
    <2>1. op_queue_ \o <<Task>> \in Seq(Entries) /\ state_ \in Int
      BY SMT DEF SchedTypes, Entries
    <2>2. private_op_queue' \in [Threads -> Seq(Plain)]
      BY <1>21 DEF TaskCleanup, SchedTypes
    <2>u. UNCHANGED <<private_outstanding_work, arg>>
      BY <1>21 DEF TaskCleanup
    <2>3. SchedTypes' /\ ArgOK'
      BY <1>21, <2>1, <2>2, <2>u, RunOneTypes DEF TaskCleanup
    <2> QED BY <1>21, <1>b, <2>3
  <1>22. ASSUME NEW t \in Threads, Unwind(t), UNCHANGED <<strandVars, bodyVars>> PROVE Types'
    <2>1. op_queue_ \o private_op_queue[t] \in Seq(Entries)
      BY ConcatQueue DEF SchedTypes
    <2>2. pc' \in [Threads -> PcStates]
      BY <1>22, SetPc DEF Unwind, PcStates
    <2> QED BY <1>22, <1>b, <2>1, <2>2, SMT DEF Unwind, SchedTypes, ArgOK
  <1>23. ASSUME NEW t \in Threads, ThreadStops(t), UNCHANGED <<strandVars, bodyVars>>
         PROVE  Types'
    <2>1. [pc EXCEPT ![t] = "out"] \in [Threads -> PcStates]
      BY SetPc DEF PcStates
    <2>2. /\ pc' \in [Threads -> PcStates] /\ state_' \in Int /\ post' = post
          /\ UNCHANGED <<op_queue_, private_op_queue, private_outstanding_work, cur, arg>>
      BY <1>23, <1>s, <2>1 DEF ThreadStops
    <2> QED BY <1>23, <1>b, <2>2 DEF SchedTypes, ArgOK
  <1>24. ASSUME Destroy PROVE Types'
    <2>1. <<>> \in Seq(Handlers)
      BY SMT
    <2> QED BY <1>24, <2>1
            DEF Destroy, shutdown, schedVars, bodyVars, SchedTypes, ArgOK, PoolTypes
  <1>25. ASSUME UNCHANGED vars PROVE Types'
    BY <1>25, <1>b DEF vars, schedVars, SchedTypes, ArgOK
  <1> QED BY <1>1, <1>2, <1>3, <1>4, <1>5, <1>6, <1>7, <1>8, <1>9, <1>10, <1>11, <1>12, <1>13,
             <1>14, <1>15, <1>16, <1>17, <1>18, <1>19, <1>20, <1>21, <1>22, <1>23, <1>24, <1>25
          DEF Next, Submit, Posting, Body, RunStep
-----------------------------------------------------------------------------
(***************************************************************************)
(* Control.                                                                *)
(***************************************************************************)
\* The exceptions, the private work and the end of the context.
Throws ==
    \A t \in Threads : /\ threw[t] => pc[t] \in {"unwind", "stop", "out"} \/ stage[t] # "run"
                       /\ pc[t] = "unwind" => threw[t]
Reserve ==
    \A t \in Threads : /\ private_outstanding_work[t] <= Len(private_op_queue[t])
                       /\ private_outstanding_work[t] # 0 => pc[t] = "handler"
Closed ==
    shutdown_ => /\ \A t \in Threads : pc[t] = "out"
                 /\ \A c \in Clients : post[c] = "gone"

LEMMA InitControl == Init => Control /\ Throws /\ Reserve /\ Closed
  <1> USE Zenon
  <1> SUFFICES ASSUME Init PROVE Control /\ Throws /\ Reserve /\ Closed
    OBVIOUS
  <1>1. \A t \in Threads : t \in Actors
    BY DEF Actors
  <1>2. Control
    BY <1>1 DEF Init, SchedInit, Control, ControlOf
  <1>3. Throws /\ Closed
    BY DEF Init, SchedInit, Throws, Closed
  <1>4. Reserve
    BY SMT DEF Init, SchedInit, Reserve
  <1> QED BY <1>2, <1>3, <1>4

\* A pass of the loop: what it does to the thread, and to nobody else.
LEMMA RunOneEffect ==
    ASSUME SchedTypes, NEW t \in Threads, NEW q \in Seq(Entries), NEW st, NEW ti,
           RunOne(t, q, st, ti)
    PROVE  /\ \A u \in Threads \ {t} : pc'[u] = pc[u] /\ cur'[u] = cur[u]
           /\ \A a \in Actors \ {t} : post'[a] = post[a]
           /\ \/ /\ pc'[t] \in {"out", "task", "wait"} /\ cur' = cur /\ post' = post
              \/ /\ pc'[t] = "poll" /\ cur' = cur /\ post'[t] \in {"idle", "signal"}
              \/ /\ pc'[t] = "handler" /\ cur'[t] \in Ops
                 /\ post' = post \/ post'[t] \in {"idle", "signal"}
  <1> USE Zenon
  <1>1. t \in Actors
    BY DEF Actors
  <1>2. CASE PassStops(t, q, st, ti)
    BY <1>2 DEF PassStops, SchedTypes
  <1>3. CASE PassTask(t, q, st)
    BY <1>1, <1>3 DEF PassTask, SchedTypes
  <1>4. CASE PassHandler(t, q, st, ti)
    <2>1. Head(q) \in Ops
      BY <1>4, TailQueue DEF PassHandler, Entries
    <2>2. post' = post \/ \E s \in {"idle", "signal"} : post' = [post EXCEPT ![t] = s]
      BY <1>4 DEF PassHandler, WakeOne
    <2>3. pc' = [pc EXCEPT ![t] = "handler"] /\ cur' = [cur EXCEPT ![t] = Head(q)]
      BY <1>4 DEF PassHandler
    <2> QED BY <1>1, <2>1, <2>2, <2>3 DEF SchedTypes
  <1>5. CASE PassWaits(t, q, st, ti)
    BY <1>5 DEF PassWaits, SchedTypes
  <1> QED BY <1>2, <1>3, <1>4, <1>5, RunOneCases

\* The three ways into the loop.
Pass(t, q, st, ti) ==
    /\ RunOne(t, q, st, ti)
    /\ \/ pc[t] = "loop" /\ q = op_queue_ \o private_op_queue[t] /\ st = state_
          /\ ti = task_interrupted_
          /\ private_op_queue' = [private_op_queue EXCEPT ![t] = <<>>]
       \/ pc[t] = "relock" /\ q = op_queue_ /\ st = state_ - 2 /\ state_ % 2 = 1
          /\ ti = task_interrupted_ /\ private_op_queue' = private_op_queue
       \/ pc[t] = "tasked" /\ q = Append(op_queue_, Task) /\ st = state_ /\ ti = TRUE
          /\ private_op_queue' = private_op_queue
    /\ UNCHANGED <<outstanding_work_, stopped_, private_outstanding_work, arg>>

LEMMA Passes ==
    ASSUME Types, Control, NEW t \in Threads
    PROVE  /\ Loop(t) => Pass(t, op_queue_ \o private_op_queue[t], state_, task_interrupted_)
           /\ Relock(t) => \/ Pass(t, op_queue_, state_ - 2, task_interrupted_)
                           \/ /\ pc[t] = "relock" /\ pc' = [pc EXCEPT ![t] = "wait"]
                              /\ state_ % 2 = 0
                              /\ UNCHANGED <<op_queue_, outstanding_work_, stopped_, state_,
                                             task_interrupted_, interrupter, private_op_queue,
                                             private_outstanding_work, cur, post, arg>>
           /\ TaskCleanup(t) => Pass(t, Append(op_queue_, Task), state_, TRUE)
  <1> USE Zenon
  <1>1. Loop(t) => Pass(t, op_queue_ \o private_op_queue[t], state_, task_interrupted_)
    BY DEF Loop, Pass
  <1>2. ASSUME Relock(t), state_ % 2 # 0
        PROVE  Pass(t, op_queue_, state_ - 2, task_interrupted_)
    <2>1. state_ % 2 = 1
      BY <1>2, SMT DEF Types, SchedTypes
    <2> QED BY <1>2, <2>1 DEF Relock, Pass
  <1>3. ASSUME Relock(t), state_ % 2 = 0
        PROVE  /\ pc[t] = "relock" /\ pc' = [pc EXCEPT ![t] = "wait"]
               /\ UNCHANGED <<op_queue_, outstanding_work_, stopped_, state_,
                              task_interrupted_, interrupter, private_op_queue,
                              private_outstanding_work, cur, post, arg>>
    BY <1>3 DEF Relock
  <1>4. op_queue_ \o <<Task>> = Append(op_queue_, Task)
    <2>1. op_queue_ \in Seq(Entries) /\ Task \in Entries
      BY DEF Types, SchedTypes, Entries
    <2> QED BY <2>1, SMT
  <1>5. TaskCleanup(t) => Pass(t, Append(op_queue_, Task), state_, TRUE)
    BY <1>4 DEF TaskCleanup, Pass
  <1> QED BY <1>1, <1>2, <1>3, <1>5

LEMMA PassTypes ==
    ASSUME Types, Control, NEW t \in Threads, NEW q, NEW st, NEW ti, Pass(t, q, st, ti)
    PROVE  /\ q \in Seq(Entries) /\ st \in Int
           /\ private_op_queue' \in [Threads -> Seq(Plain)]
           /\ post[t] = "idle" /\ pc[t] # "handler" /\ cur[t] = NoOp /\ stage[t] = "run"
           /\ upcall[t] = NoOp
  <1> USE Zenon
  <1>1. /\ op_queue_ \in Seq(Entries) /\ state_ \in Int /\ Task \in Entries
        /\ private_op_queue \in [Threads -> Seq(Plain)]
    BY DEF Types, SchedTypes, Entries
  <1>2. op_queue_ \o private_op_queue[t] \in Seq(Entries)
    BY <1>1, ConcatQueue
  <1>3. Append(op_queue_, Task) \in Seq(Entries)
    BY <1>1, AppendQueue
  <1>4. pc[t] \in {"loop", "relock", "tasked"}
    BY DEF Pass
  <1>5. q \in Seq(Entries)
    BY <1>1, <1>2, <1>3 DEF Pass
  <1>6. st \in Int
    BY <1>1, SMT DEF Pass
  <1>7. private_op_queue' \in [Threads -> Seq(Plain)]
    <2>1. <<>> \in Seq(Plain)
      BY SMT
    <2> QED BY <1>1, <2>1 DEF Pass
  <1>8. cur[t] = NoOp /\ post[t] = "idle" /\ stage[t] = "run" /\ upcall[t] = NoOp
    BY <1>4, Distinct DEF Control, ControlOf, Ops
  <1> QED BY <1>4, <1>5, <1>6, <1>7, <1>8

LEMMA ControlStep == Types /\ Control /\ [Next]_vars => Control'
  <1> USE Zenon
  <1> SUFFICES ASSUME Types, Control, [Next]_vars PROVE Control'
    OBVIOUS
  <1> USE DEF Types
  <1>t. (\A t \in Threads : t \in Actors) /\ (\A c \in Clients : c \in Actors /\ c \notin Threads)
    BY PoolAssumption DEF Actors
  <1>o. ASSUME NEW t \in Threads, ControlOf(t)',
               \A u \in Threads \ {t} : /\ pc'[u] = pc[u] /\ cur'[u] = cur[u] /\ post'[u] = post[u]
                                        /\ stage'[u] = stage[u] /\ upcall'[u] = upcall[u]
        PROVE  Control'
    <2>1. ASSUME NEW u \in Threads \ {t} PROVE ControlOf(u)'
      <3>1. ControlOf(u)
        BY DEF Control
      <3> QED BY <1>o, <3>1 DEF ControlOf
    <2> QED BY <1>o, <2>1 DEF Control
  <1>O. ASSUME NEW a \in Actors, UNCHANGED <<pc, cur, stage, upcall>>,
               \A b \in Actors \ {a} : post'[b] = post[b], a \in Threads => ControlOf(a)'
        PROVE  Control'
    <2>1. CASE a \in Threads
      BY <1>o, <1>O, <1>t, <2>1
    <2>2. CASE a \notin Threads
      BY <1>O, <1>t, <2>2 DEF Control, ControlOf
    <2> QED BY <2>1, <2>2
  <1>w. ASSUME NEW a \in Actors, Posts(a) \/ post[a] \in {"make", "again"}, NEW o, NEW n,
               WorkStarted(a, o, n), stage' = stage, upcall' = upcall
        PROVE  Control'
    <2>1. a \in Threads => pc[a] = "handler" /\ stage[a] # "exit"
      BY <1>w, Distinct DEF Posts, MayPost, Control, ControlOf, Ops
    <2> QED BY <1>t, <1>w, <2>1 DEF WorkStarted, SchedTypes, Control, ControlOf
  <1>e. ASSUME NEW t \in Threads, NEW throws, HandlerEnds(t, throws), stage'[t] = "run",
               upcall[t] = NoOp, \A u \in Threads \ {t} : stage'[u] = stage[u], upcall' = upcall
        PROVE  Control'
    <2>1. /\ \A u \in Threads \ {t} : cur'[u] = cur[u] /\ pc'[u] = pc[u]
          /\ cur'[t] = NoOp /\ pc'[t] # "handler" /\ post' = post /\ post[t] = "idle"
      BY <1>e DEF HandlerEnds, SchedTypes
    <2>2. ControlOf(t)'
      BY <1>e, <2>1 DEF ControlOf
    <2> QED BY <1>e, <1>o, <2>1, <2>2
  <1>s. ASSUME NEW to, StopAllThreads(to), \A t \in Threads : to[t] = pc[t] \/ (to[t] = "out" /\ pc[t] = "stop"),
               \A t \in Threads : post'[t] = post[t], stage' = stage, upcall' = upcall
        PROVE  Control'
    <2>1. \A t \in Threads : /\ pc'[t] = "handler" <=> pc[t] = "handler"
                             /\ pc'[t] = "poll" <=> pc[t] = "poll"
      BY <1>s DEF StopAllThreads, SchedTypes
    <2> QED BY <1>s, <2>1, SMT DEF StopAllThreads, Control, ControlOf
  <1>p. ASSUME NEW t \in Threads, NEW q, NEW st, NEW ti, Pass(t, q, st, ti),
               UNCHANGED <<strandVars, bodyVars>>
        PROVE  Control'
    <2>1. q \in Seq(Entries) /\ post[t] = "idle" /\ stage[t] = "run" /\ upcall[t] = NoOp
          /\ cur[t] = NoOp
      BY <1>p, PassTypes
    <2>2. RunOne(t, q, st, ti) /\ stage' = stage /\ upcall' = upcall
      BY <1>p DEF Pass, bodyVars
    <2>3. /\ \A u \in Threads \ {t} : pc'[u] = pc[u] /\ cur'[u] = cur[u] /\ post'[u] = post[u]
          /\ \/ /\ pc'[t] \in {"out", "task", "wait"} /\ cur' = cur /\ post' = post
             \/ /\ pc'[t] = "poll" /\ cur' = cur /\ post'[t] \in {"idle", "signal"}
             \/ /\ pc'[t] = "handler" /\ cur'[t] \in Ops
                /\ post' = post \/ post'[t] \in {"idle", "signal"}
      BY <1>t, <2>1, <2>2, RunOneEffect
    <2>4. ControlOf(t)'
      BY <2>1, <2>2, <2>3, Distinct DEF ControlOf
    <2> QED BY <1>o, <2>2, <2>3, <2>4
  <1>u. ASSUME UNCHANGED <<pc, cur, post, stage, upcall>> PROVE Control'
    BY <1>u DEF Control, ControlOf
  <1>1. ASSUME NEW a \in Actors, NEW o \in Plain, PostPlain(a, o) PROVE Control'
    BY <1>1, <1>w DEF PostPlain
  <1>2. ASSUME NEW a \in Actors, NEW h \in Handlers, PostStrand(a, h) PROVE Control'
    <2>1. post' = post \/ post' = [post EXCEPT ![a] = "ready"]
      BY <1>2 DEF PostStrand
    <2>2. post[a] = "idle" /\ (a \in Threads => pc[a] = "handler" /\ stage[a] # "exit")
      BY <1>2, Distinct DEF PostStrand, Posts, MayPost, Control, ControlOf, Ops
    <2>3. /\ UNCHANGED <<pc, cur, stage, upcall>> /\ \A b \in Actors \ {a} : post'[b] = post[b]
          /\ post'[a] \in {"idle", "ready"}
      BY <1>2, <2>1, <2>2 DEF PostStrand, bodyVars, SchedTypes
    <2>4. a \in Threads => ControlOf(a)'
      BY <2>2, <2>3 DEF Control, ControlOf
    <2> QED BY <1>O, <2>3, <2>4
  <1>3. ASSUME NEW a \in Actors, PushReady(a) PROVE Control'
    BY <1>3, <1>t DEF PushReady, bodyVars, SchedTypes, Control, ControlOf
  <1>4. ASSUME NEW a \in Actors, Schedule(a) PROVE Control'
    BY <1>4, <1>w DEF Schedule, bodyVars
  <1>5. ASSUME NEW a \in Actors, PushOp(a), UNCHANGED <<strandVars, bodyVars>> PROVE Control'
    <2>1. \E s \in {"idle", "signal"} : post' = [post EXCEPT ![a] = s]
      BY <1>5 DEF PushOp, WakeOne
    <2>2. /\ UNCHANGED <<pc, cur, stage, upcall>> /\ \A b \in Actors \ {a} : post'[b] = post[b]
          /\ post'[a] \in {"idle", "signal"} /\ post[a] = "push"
      BY <1>5, <2>1 DEF PushOp, bodyVars, SchedTypes
    <2>3. a \in Threads => ControlOf(a)'
      BY <2>2 DEF Control, ControlOf
    <2> QED BY <1>O, <2>2, <2>3
  <1>6. ASSUME NEW a \in Actors, Signal(a), UNCHANGED <<strandVars, bodyVars>> PROVE Control'
    <2>1. pc' = pc \/ \E t \in Threads : pc[t] = "wait" /\ pc' = [pc EXCEPT ![t] = "relock"]
      BY <1>6 DEF Signal
    <2>2. \A t \in Threads : /\ pc'[t] = "handler" <=> pc[t] = "handler"
                             /\ pc'[t] = "poll" <=> pc[t] = "poll"
      BY <2>1 DEF SchedTypes
    <2>3. post' = [post EXCEPT ![a] = "idle"] /\ cur' = cur /\ stage' = stage /\ upcall' = upcall
      BY <1>6 DEF Signal, bodyVars
    <2> QED BY <1>t, <2>2, <2>3 DEF SchedTypes, Control, ControlOf
  <1>7. ASSUME NEW c \in Clients, ReleaseGuard(c), UNCHANGED <<strandVars, bodyVars>>
        PROVE  Control'
    BY <1>7, <1>t DEF ReleaseGuard, bodyVars, SchedTypes, Control, ControlOf
  <1>8. ASSUME NEW c \in Clients, ClientStops(c), UNCHANGED <<strandVars, bodyVars>>
        PROVE  Control'
    <2>1. \A t \in Threads : post'[t] = post[t]
      BY <1>8, <1>t DEF ClientStops, SchedTypes
    <2> QED BY <1>8, <1>s, <2>1 DEF ClientStops, bodyVars
  <1>9. ASSUME NEW t \in Threads, NEW o \in Plain, DeferPlain(t, o) PROVE Control'
    BY <1>9, <1>u DEF DeferPlain, Defer
  <1>10. ASSUME NEW t \in Threads, NEW h \in Handlers, DispatchStrand(t, h) PROVE Control'
    BY <1>10, <1>u DEF DispatchStrand, schedVars, bodyVars
  <1>11. ASSUME NEW t \in Threads, RunReady(t) PROVE Control'
    BY <1>11 DEF RunReady, schedVars, PoolTypes, Control, ControlOf
  <1>12. ASSUME NEW t \in Threads, NoneReady(t) PROVE Control'
    BY <1>12 DEF NoneReady, Idle, schedVars, PoolTypes, Control, ControlOf
  <1>13. ASSUME NEW t \in Threads, UpcallEnds(t) PROVE Control'
    <2>1. \E s \in {"run", "exit"} : stage' = [stage EXCEPT ![t] = s]
      BY <1>13 DEF UpcallEnds
    <2> QED BY <1>13, <2>1 DEF UpcallEnds, Idle, schedVars, PoolTypes, Control, ControlOf
  <1>14. ASSUME NEW t \in Threads, InvokerExits(t) PROVE Control'
    <2>1. post' = post \/ post' = [post EXCEPT ![t] = "again"]
      BY <1>14 DEF InvokerExits
    <2>2. /\ UNCHANGED <<pc, cur, upcall>> /\ stage'[t] = "left" /\ pc[t] = "handler"
          /\ \A u \in Threads \ {t} : post'[u] = post[u] /\ stage'[u] = stage[u]
          /\ post'[t] \in {"idle", "again"} /\ stage[t] = "exit"
      BY <1>14, <1>t, <2>1 DEF InvokerExits, Idle, SchedTypes, PoolTypes
    <2>3. ControlOf(t)'
      BY <2>2 DEF Control, ControlOf
    <2> QED BY <1>o, <2>2, <2>3
  <1>15. ASSUME NEW t \in Threads, InvokerEnds(t) PROVE Control'
    <2>1. upcall[t] = NoOp
      BY <1>15 DEF InvokerEnds, Control, ControlOf
    <2> QED BY <1>15, <1>e, <2>1 DEF InvokerEnds, PoolTypes
  <1>16. ASSUME NEW t \in Threads, PlainEnds(t) PROVE Control'
    <2>1. upcall[t] = NoOp /\ stage[t] = "run"
      BY <1>16, Distinct DEF PlainEnds, Control, ControlOf
    <2> QED BY <1>16, <1>e, <2>1 DEF PlainEnds
  <1>17. ASSUME NEW t \in Threads, pc[t] \notin {"handler", "poll"}, UNCHANGED <<cur, post, stage, upcall>>,
                NEW s \in {"stop", "loop", "wait", "relock", "tasked", "out"}, pc' = [pc EXCEPT ![t] = s]
         PROVE  Control'
    BY <1>17 DEF SchedTypes, Control, ControlOf
  <1>18. ASSUME NEW t \in Threads, ReactorReturns(t), UNCHANGED <<strandVars, bodyVars>>
         PROVE  Control'
    BY <1>18 DEF ReactorReturns, bodyVars, SchedTypes, Control, ControlOf
  <1>19. ASSUME NEW t \in Threads, RunAgain(t) PROVE Control'
    BY <1>17, <1>19 DEF RunAgain, Run
  <1>20. ASSUME NEW t \in Threads, UNCHANGED <<strandVars, bodyVars>>,
                SpuriousWake(t) \/ ReactorEvent(t) \/ Unwind(t)
         PROVE  Control'
    BY <1>17, <1>20 DEF SpuriousWake, ReactorEvent, Unwind, bodyVars
  <1>21. ASSUME NEW t \in Threads, UNCHANGED <<strandVars, bodyVars>>,
                Loop(t) \/ Relock(t) \/ TaskCleanup(t)
         PROVE  Control'
    <2>1. CASE Relock(t)
      BY <1>17, <1>21, <1>p, <2>1, Passes DEF bodyVars
    <2> QED BY <1>21, <1>p, <2>1, Passes
  <1>22. ASSUME NEW t \in Threads, ThreadStops(t), UNCHANGED <<strandVars, bodyVars>>
         PROVE  Control'
    <2>1. \A u \in Threads : LET to == [pc EXCEPT ![t] = "out"]
                             IN  to[u] = pc[u] \/ (to[u] = "out" /\ pc[u] = "stop")
      BY <1>22 DEF ThreadStops, SchedTypes
    <2> QED BY <1>22, <1>s, <2>1 DEF ThreadStops, bodyVars
  <1>23. ASSUME Destroy PROVE Control'
    BY <1>23, <1>u DEF Destroy, schedVars, bodyVars
  <1>24. ASSUME UNCHANGED vars PROVE Control'
    BY <1>24, <1>u DEF vars, schedVars, bodyVars
  <1> QED BY <1>1, <1>2, <1>3, <1>4, <1>5, <1>6, <1>7, <1>8, <1>9, <1>10, <1>11, <1>12, <1>13,
             <1>14, <1>15, <1>16, <1>18, <1>19, <1>20, <1>21, <1>22, <1>23, <1>24
          DEF Next, Submit, Posting, Body, RunStep

LEMMA ThrowsStep == Types /\ Control /\ Throws /\ [Next]_vars => Throws'
  <1> USE Zenon
  <1> SUFFICES ASSUME Types, Control, Throws, [Next]_vars PROVE Throws'
    OBVIOUS
  <1> USE DEF Types
  <1>u. ASSUME UNCHANGED <<pc, stage, threw>> PROVE Throws'
    BY <1>u DEF Throws
  <1>p. ASSUME NEW t \in Threads, ~threw[t], UNCHANGED <<stage, threw>>, pc'[t] # "unwind",
               \A u \in Threads \ {t} : pc'[u] = pc[u]
        PROVE  Throws'
    BY <1>p DEF Throws
  <1>e. ASSUME NEW t \in Threads, NEW throws \in BOOLEAN, HandlerEnds(t, throws),
               threw' = [threw EXCEPT ![t] = throws],
               \A u \in Threads \ {t} : stage'[u] = stage[u]
        PROVE  Throws'
    <2>1. /\ pc'[t] \in {"stop", "unwind", "loop"} /\ (pc'[t] = "unwind" => throws)
          /\ (pc'[t] = "loop" => ~throws)
          /\ \A u \in Threads \ {t} : pc'[u] = pc[u]
      BY <1>e DEF HandlerEnds, SchedTypes
    <2> QED BY <1>e, <2>1 DEF Throws, PoolTypes
  <1>s. ASSUME NEW to, StopAllThreads(to), UNCHANGED <<stage, threw>>,
               \A t \in Threads : to[t] = pc[t] \/ (to[t] = "out" /\ pc[t] = "stop")
        PROVE  Throws'
    <2>1. \A t \in Threads : \/ pc'[t] = pc[t] \/ (pc'[t] = "relock" /\ pc[t] = "wait")
                             \/ (pc'[t] = "out" /\ pc[t] = "stop")
      BY <1>s DEF StopAllThreads, SchedTypes
    <2> QED BY <1>s, <2>1 DEF Throws
  <1>1. ASSUME NEW a \in Actors, NEW o \in Plain, PostPlain(a, o) PROVE Throws'
    BY <1>1, <1>u DEF PostPlain, WorkStarted
  <1>2. ASSUME NEW a \in Actors, NEW h \in Handlers, PostStrand(a, h) PROVE Throws'
    BY <1>2, <1>u DEF PostStrand, bodyVars
  <1>3. ASSUME NEW a \in Actors, PushReady(a) \/ Schedule(a) PROVE Throws'
    BY <1>3, <1>u DEF PushReady, Schedule, WorkStarted, bodyVars
  <1>4. ASSUME NEW a \in Actors, PushOp(a), UNCHANGED <<strandVars, bodyVars>> PROVE Throws'
    BY <1>4, <1>u DEF PushOp, bodyVars
  <1>5. ASSUME NEW a \in Actors, Signal(a), UNCHANGED <<strandVars, bodyVars>> PROVE Throws'
    <2>1. pc' = pc \/ \E t \in Threads : pc[t] = "wait" /\ pc' = [pc EXCEPT ![t] = "relock"]
      BY <1>5 DEF Signal
    <2>2. stage' = stage /\ threw' = threw
      BY <1>5 DEF bodyVars
    <2> QED BY <2>1, <2>2 DEF SchedTypes, Throws
  <1>6. ASSUME NEW c \in Clients, ReleaseGuard(c), UNCHANGED <<strandVars, bodyVars>>
        PROVE  Throws'
    BY <1>6, <1>u DEF ReleaseGuard, bodyVars
  <1>7. ASSUME NEW c \in Clients, ClientStops(c), UNCHANGED <<strandVars, bodyVars>>
        PROVE  Throws'
    BY <1>7, <1>s DEF ClientStops, bodyVars
  <1>8. ASSUME NEW t \in Threads, NEW o \in Plain, DeferPlain(t, o) PROVE Throws'
    BY <1>8, <1>u DEF DeferPlain, Defer
  <1>9. ASSUME NEW t \in Threads, NEW h \in Handlers, DispatchStrand(t, h) PROVE Throws'
    BY <1>9, <1>u DEF DispatchStrand, schedVars, bodyVars
  <1>10. ASSUME NEW t \in Threads, RunReady(t) PROVE Throws'
    BY <1>10, <1>u DEF RunReady, schedVars
  <1>11. ASSUME NEW t \in Threads, NoneReady(t) \/ InvokerExits(t) PROVE Throws'
    <2>1. \E s \in {"exit", "left"} : stage' = [stage EXCEPT ![t] = s]
      BY <1>11 DEF NoneReady, InvokerExits
    <2>2. pc' = pc /\ threw' = threw
      BY <1>11 DEF NoneReady, InvokerExits, schedVars
    <2> QED BY <2>1, <2>2 DEF PoolTypes, Throws
  <1>12. ASSUME NEW t \in Threads, UpcallEnds(t) PROVE Throws'
    <2>1. pc' = pc /\ pc[t] = "handler"
      BY <1>12 DEF UpcallEnds, Idle, schedVars
    <2>2. PICK throws \in BOOLEAN :
             /\ threw' = [threw EXCEPT ![t] = throws]
             /\ stage' = [stage EXCEPT ![t] = IF throws THEN "exit" ELSE "run"]
      BY <1>12 DEF UpcallEnds
    <2> QED BY <2>1, <2>2 DEF PoolTypes, Throws
  <1>13. ASSUME NEW t \in Threads, InvokerEnds(t) PROVE Throws'
    <2>1. threw[t] \in BOOLEAN /\ threw' = [threw EXCEPT ![t] = threw[t]]
      BY <1>13 DEF InvokerEnds, PoolTypes
    <2>2. \A u \in Threads \ {t} : stage'[u] = stage[u]
      BY <1>13 DEF InvokerEnds, PoolTypes
    <2> QED BY <1>13, <1>e, <2>1, <2>2 DEF InvokerEnds
  <1>14. ASSUME NEW t \in Threads, PlainEnds(t) PROVE Throws'
    BY <1>14, <1>e DEF PlainEnds
  <1>15. ASSUME NEW t \in Threads, RunAgain(t) PROVE Throws'
    <2>1. /\ threw'[t] = FALSE /\ pc'[t] # "unwind" /\ stage' = stage
          /\ \A u \in Threads \ {t} : pc'[u] = pc[u] /\ threw'[u] = threw[u]
      BY <1>15 DEF RunAgain, Run, SchedTypes, PoolTypes
    <2> QED BY <2>1 DEF Throws
  <1>16. ASSUME NEW t \in Threads, UNCHANGED <<strandVars, bodyVars>>,
                ReactorReturns(t) \/ SpuriousWake(t) \/ ReactorEvent(t)
         PROVE  Throws'
    <2>1. /\ pc[t] \in {"poll", "task", "wait"} /\ pc'[t] # "unwind" /\ stage' = stage
          /\ threw' = threw /\ \A u \in Threads \ {t} : pc'[u] = pc[u]
      BY <1>16 DEF ReactorReturns, SpuriousWake, ReactorEvent, bodyVars, SchedTypes
    <2>2. ~threw[t]
      BY <2>1, Distinct DEF Throws, Control, ControlOf, Ops
    <2> QED BY <1>p, <2>1, <2>2
  <1>17. ASSUME NEW t \in Threads, UNCHANGED <<strandVars, bodyVars>>, Unwind(t)
         PROVE  Throws'
    BY <1>17 DEF Unwind, bodyVars, SchedTypes, Throws
  <1>18. ASSUME NEW t \in Threads, NEW q, NEW st, NEW ti, Pass(t, q, st, ti),
                UNCHANGED <<strandVars, bodyVars>>
         PROVE  Throws'
    <2>1. q \in Seq(Entries) /\ stage[t] = "run"
      BY <1>18, PassTypes
    <2>2. /\ RunOne(t, q, st, ti) /\ stage' = stage /\ threw' = threw
          /\ pc[t] \in {"loop", "relock", "tasked"}
      BY <1>18 DEF Pass, bodyVars
    <2>3. ~threw[t]
      BY <2>1, <2>2 DEF Throws
    <2>4. pc'[t] # "unwind" /\ \A u \in Threads \ {t} : pc'[u] = pc[u]
      BY <2>1, <2>2, RunOneEffect
    <2> QED BY <1>p, <2>2, <2>3, <2>4
  <1>19. ASSUME NEW t \in Threads, UNCHANGED <<strandVars, bodyVars>>,
                Loop(t) \/ Relock(t) \/ TaskCleanup(t)
         PROVE  Throws'
    <2>1. CASE Relock(t) /\ pc[t] = "relock" /\ pc' = [pc EXCEPT ![t] = "wait"]
      BY <1>19, <2>1 DEF bodyVars, SchedTypes, Throws
    <2> QED BY <1>18, <1>19, <2>1, Passes
  <1>20. ASSUME NEW t \in Threads, ThreadStops(t), UNCHANGED <<strandVars, bodyVars>>
         PROVE  Throws'
    <2>1. \A u \in Threads : LET to == [pc EXCEPT ![t] = "out"]
                             IN  to[u] = pc[u] \/ (to[u] = "out" /\ pc[u] = "stop")
      BY <1>20 DEF ThreadStops, SchedTypes
    <2> QED BY <1>20, <1>s, <2>1 DEF ThreadStops, bodyVars
  <1>21. ASSUME Destroy \/ UNCHANGED vars PROVE Throws'
    BY <1>21, <1>u DEF Destroy, vars, schedVars, bodyVars
  <1> QED BY <1>1, <1>2, <1>3, <1>4, <1>5, <1>6, <1>7, <1>8, <1>9, <1>10, <1>11, <1>12, <1>13,
             <1>14, <1>15, <1>16, <1>17, <1>19, <1>20, <1>21
          DEF Next, Submit, Posting, Body, RunStep

\* Once the context is destroyed nothing happens any more.
LEMMA ClosedStops == ASSUME Control, Closed, Next PROVE ~shutdown_
  <1> USE Zenon
  <1> SUFFICES ASSUME shutdown_ PROVE FALSE
    OBVIOUS
  <1>1. \A t \in Threads : pc[t] = "out" /\ post[t] = "idle"
    BY DEF Control, ControlOf, Closed
  <1>2. \A c \in Clients : post[c] = "gone"
    BY DEF Closed
  <1>3. \A a \in Actors : post[a] \in {"idle", "gone"} /\ ~MayPost(a)
    BY <1>1, <1>2 DEF Actors, MayPost
  <1>4. ASSUME NEW a \in Actors, Submit(a) \/ Posting(a) PROVE FALSE
    BY <1>3, <1>4 DEF Submit, PostPlain, PostStrand, Posts, Posting, PushReady, Schedule, PushOp,
                      Signal
  <1>5. ASSUME NEW c \in Clients, ReleaseGuard(c) \/ ClientStops(c) PROVE FALSE
    BY <1>2, <1>5 DEF ReleaseGuard, ClientStops
  <1>6. ASSUME NEW t \in Threads,
               \/ \E o \in Plain : DeferPlain(t, o)
               \/ \E h \in Handlers : DispatchStrand(t, h)
               \/ Body(t) \/ RunAgain(t)
        PROVE  FALSE
    BY <1>1, <1>6 DEF DeferPlain, Posts, MayPost, DispatchStrand, Body, RunReady, NoneReady,
                      UpcallEnds, InvokerExits, InvokerEnds, PlainEnds, HandlerEnds, Idle, RunAgain
  <1>7. ASSUME NEW t \in Threads, RunStep(t) \/ SpuriousWake(t) \/ ReactorEvent(t) PROVE FALSE
    BY <1>1, <1>7 DEF RunStep, Loop, Relock, ReactorReturns, TaskCleanup, Unwind, ThreadStops,
                      SpuriousWake, ReactorEvent
  <1>8. ~Destroy
    BY DEF Destroy
  <1> QED BY <1>4, <1>5, <1>6, <1>7, <1>8 DEF Next

LEMMA ClosedStep == Types /\ Control /\ Closed /\ [Next]_vars => Closed'
  <1> USE Zenon
  <1> SUFFICES ASSUME Types, Control, Closed, [Next]_vars PROVE Closed'
    OBVIOUS
  <1>1. CASE UNCHANGED vars
    BY <1>1 DEF vars, schedVars, strandVars, Closed
  <1>2. CASE Destroy
    BY <1>2 DEF Destroy, schedVars, Closed
  <1>3. CASE Next /\ ~Destroy
    <2>1. shutdown_' = shutdown_
      <3>1. ASSUME NEW a \in Actors, Submit(a) \/ Posting(a) PROVE shutdown_' = shutdown_
        BY <3>1 DEF Submit, PostPlain, PostStrand, enqueue, Posting, PushReady, ready_push,
                    Schedule, strandVars
      <3>2. ASSUME NEW t \in Threads,
                   \/ \E o \in Plain : DeferPlain(t, o)
                   \/ \E h \in Handlers : DispatchStrand(t, h)
                   \/ Body(t) \/ RunAgain(t)
            PROVE  shutdown_' = shutdown_
        BY <3>2 DEF DeferPlain, DispatchStrand, dispatch, Body, RunReady, ready_pop, NoneReady,
                    UpcallEnds, complete, InvokerExits, push_waiting_to_ready, InvokerEnds,
                    PlainEnds, RunAgain, strandVars
      <3> QED BY <1>3, <3>1, <3>2 DEF Next, strandVars
    <2> QED BY <1>3, <2>1, ClosedStops DEF Closed
  <1> QED BY <1>1, <1>2, <1>3

LEMMA ReserveStep == Types /\ Control /\ Reserve /\ [Next]_vars => Reserve'
  <1> USE Zenon
  <1> SUFFICES ASSUME Types, Control, Reserve, [Next]_vars PROVE Reserve'
    OBVIOUS
  <1> USE DEF Types
  <1>u. ASSUME UNCHANGED <<private_op_queue, private_outstanding_work>>,
               \A t \in Threads : pc[t] = "handler" => pc'[t] = "handler"
        PROVE  Reserve'
    BY <1>u DEF Reserve
  <1>e. ASSUME NEW t \in Threads, NEW throws, HandlerEnds(t, throws) PROVE Reserve'
    <2>1. /\ private_outstanding_work'[t] = 0 /\ private_op_queue' = private_op_queue
          /\ \A u \in Threads \ {t} : /\ pc'[u] = pc[u]
                                      /\ private_outstanding_work'[u] = private_outstanding_work[u]
      BY <1>e DEF HandlerEnds, SchedTypes
    <2>2. Len(private_op_queue[t]) >= 0
      BY SMT DEF SchedTypes
    <2> QED BY <2>1, <2>2 DEF Reserve
  <1>s. ASSUME NEW to, StopAllThreads(to), \A t \in Threads : pc[t] = "handler" => to[t] = pc[t]
        PROVE  Reserve'
    BY <1>s, <1>u DEF StopAllThreads
  <1>1. ASSUME NEW a \in Actors, Submit(a) \/ PushReady(a) \/ Schedule(a) PROVE Reserve'
    BY <1>1, <1>u DEF Submit, PostPlain, PostStrand, PushReady, Schedule, WorkStarted
  <1>2. ASSUME NEW a \in Actors, PushOp(a) PROVE Reserve'
    BY <1>2, <1>u DEF PushOp
  <1>3. ASSUME NEW a \in Actors, Signal(a) PROVE Reserve'
    <2>1. pc' = pc \/ \E t \in Threads : pc[t] = "wait" /\ pc' = [pc EXCEPT ![t] = "relock"]
      BY <1>3 DEF Signal
    <2>2. \A t \in Threads : pc[t] = "handler" => pc'[t] = "handler"
      BY <2>1 DEF SchedTypes
    <2> QED BY <1>3, <1>u, <2>2 DEF Signal
  <1>4. ASSUME NEW c \in Clients, ReleaseGuard(c) PROVE Reserve'
    BY <1>4, <1>u DEF ReleaseGuard
  <1>5. ASSUME NEW c \in Clients, ClientStops(c) PROVE Reserve'
    BY <1>5, <1>s DEF ClientStops
  <1>6. ASSUME NEW t \in Threads, NEW o \in Plain, DeferPlain(t, o) PROVE Reserve'
    <2>1. /\ \A u \in Threads \ {t} :
                /\ private_outstanding_work'[u] = private_outstanding_work[u]
                /\ private_op_queue'[u] = private_op_queue[u]
          /\ private_outstanding_work'[t] = private_outstanding_work[t] + 1
          /\ private_op_queue'[t] = Append(private_op_queue[t], o)
          /\ pc' = pc /\ pc[t] = "handler"
      BY <1>6 DEF DeferPlain, Defer, MayPost, SchedTypes
    <2>2. Len(Append(private_op_queue[t], o)) = Len(private_op_queue[t]) + 1
      BY SMT DEF SchedTypes
    <2>3. private_outstanding_work[t] \in Nat /\ Len(private_op_queue[t]) \in Nat
      BY SMT DEF SchedTypes
    <2> QED BY <2>1, <2>2, <2>3, SMT DEF Reserve
  <1>7. ASSUME NEW t \in Threads, NEW h \in Handlers, DispatchStrand(t, h) PROVE Reserve'
    BY <1>7, <1>u DEF DispatchStrand, schedVars
  <1>8. ASSUME NEW t \in Threads,
               RunReady(t) \/ NoneReady(t) \/ UpcallEnds(t) \/ InvokerExits(t)
        PROVE  Reserve'
    BY <1>8, <1>u DEF RunReady, NoneReady, UpcallEnds, InvokerExits, schedVars
  <1>9. ASSUME NEW t \in Threads, InvokerEnds(t) \/ PlainEnds(t) PROVE Reserve'
    BY <1>9, <1>e DEF InvokerEnds, PlainEnds
  <1>10. ASSUME NEW t \in Threads,
                RunAgain(t) \/ ReactorReturns(t) \/ SpuriousWake(t) \/ ReactorEvent(t)
         PROVE  Reserve'
    <2>1. \A u \in Threads : pc[u] = "handler" => pc'[u] = "handler"
      BY <1>10 DEF RunAgain, Run, ReactorReturns, SpuriousWake, ReactorEvent, SchedTypes
    <2> QED BY <1>10, <1>u, <2>1 DEF RunAgain, Run, ReactorReturns, SpuriousWake, ReactorEvent
  <1>11. ASSUME NEW t \in Threads, private_outstanding_work' = private_outstanding_work,
                pc[t] # "handler", \A u \in Threads \ {t} : pc'[u] = pc[u],
                \/ private_op_queue' = private_op_queue
                \/ private_op_queue' = [private_op_queue EXCEPT ![t] = <<>>]
         PROVE  Reserve'
    <2>1. private_outstanding_work[t] = 0 /\ Len(<<>>) = 0
      BY <1>11 DEF Reserve
    <2>2. Len(private_op_queue'[t]) >= 0
      BY <1>11, <2>1, SMT DEF SchedTypes
    <2>3. \A u \in Threads \ {t} : private_op_queue'[u] = private_op_queue[u]
      BY <1>11 DEF SchedTypes
    <2> QED BY <1>11, <2>1, <2>2, <2>3 DEF Reserve
  <1>12. ASSUME NEW t \in Threads, Unwind(t) PROVE Reserve'
    BY <1>11, <1>12 DEF Unwind, SchedTypes
  <1>13. ASSUME NEW t \in Threads, NEW q, NEW st, NEW ti, Pass(t, q, st, ti) PROVE Reserve'
    <2>1. q \in Seq(Entries) /\ pc[t] # "handler"
      BY <1>13, PassTypes
    <2>2. \A u \in Threads \ {t} : pc'[u] = pc[u]
      BY <1>13, <2>1, RunOneEffect DEF Pass
    <2> QED BY <1>11, <1>13, <2>1, <2>2 DEF Pass
  <1>14. ASSUME NEW t \in Threads, Loop(t) \/ Relock(t) \/ TaskCleanup(t) PROVE Reserve'
    <2>1. CASE Relock(t) /\ pc[t] = "relock" /\ pc' = [pc EXCEPT ![t] = "wait"]
      BY <1>11, <2>1 DEF Relock, SchedTypes
    <2> QED BY <1>13, <1>14, <2>1, Passes
  <1>15. ASSUME NEW t \in Threads, ThreadStops(t) PROVE Reserve'
    <2>1. \A u \in Threads : pc[u] = "handler" => [pc EXCEPT ![t] = "out"][u] = pc[u]
      BY <1>15 DEF ThreadStops, SchedTypes
    <2> QED BY <1>15, <1>s, <2>1 DEF ThreadStops
  <1>16. ASSUME Destroy \/ UNCHANGED vars PROVE Reserve'
    BY <1>16, <1>u DEF Destroy, vars, schedVars
  <1> QED BY <1>1, <1>2, <1>3, <1>4, <1>5, <1>6, <1>7, <1>8, <1>9, <1>10, <1>12, <1>14, <1>15,
             <1>16
          DEF Next, Posting, Body, RunStep
-----------------------------------------------------------------------------
(***************************************************************************)
(* The one invoker of the strand.                                          *)
(***************************************************************************)
\* a is about to hand an invoker to the scheduler, q has one, t runs one.
Held(a)  == post[a] \in {"ready", "make", "again", "push"} /\ arg[a] \in Handlers
HasInvoker(q) == \E h \in Handlers : Has(q, h)
Runs(t)  == cur[t] \in Handlers /\ stage[t] # "left"

\* While the strand is locked its invoker is in one place, else in none.
OnePlace(q) ==
    /\ Once(q)
    /\ \A a, b \in Actors : Held(a) /\ Held(b) => a = b
    /\ \A t, u \in Threads : Runs(t) /\ Runs(u) => t = u
    /\ \A a \in Actors : Held(a) => ~HasInvoker(q) /\ \A t \in Threads : ~Runs(t)
    /\ \A t \in Threads : Runs(t) => ~HasInvoker(q)
    /\ locked_ <=> (\E a \in Actors : Held(a)) \/ HasInvoker(q) \/ (\E t \in Threads : Runs(t))

PlaceInv == OnePlace(op_queue_)

\* The reactor task is run by one thread, or is queued.
InTask(t) == pc[t] \in {"poll", "task", "tasked"}
TaskInv ==
    /\ \A t, u \in Threads : InTask(t) /\ InTask(u) => t = u
    /\ \A t \in Threads : InTask(t) => ~Has(op_queue_, Task)

LEMMA InitPlace == Init => PlaceInv /\ TaskInv
  <1> USE Zenon
  <1> SUFFICES ASSUME Init PROVE PlaceInv /\ TaskInv
    OBVIOUS
  <1>1. Once(<<Task>>) /\ \A x : Has(<<Task>>, x) <=> x = Task
    BY SMT DEF Once, Has
  <1>2. ~HasInvoker(op_queue_) /\ Once(op_queue_)
    BY <1>1, Distinct DEF Init, SchedInit, HasInvoker, Ops
  <1>3. \A a \in Actors : ~Held(a)
    BY DEF Init, SchedInit, Held
  <1>4. \A t \in Threads : ~Runs(t)
    BY PoolAssumption DEF Init, SchedInit, Runs
  <1>5. TaskInv
    BY DEF Init, SchedInit, TaskInv, InTask
  <1> QED BY <1>2, <1>3, <1>4, <1>5 DEF PlaceInv, OnePlace, Init

LEMMA PlaceStep == Types /\ Control /\ PlaceInv /\ TaskInv /\ [Next]_vars => PlaceInv'
  <1> USE Zenon
  <1> SUFFICES ASSUME Types, Control, PlaceInv, TaskInv, [Next]_vars PROVE PlaceInv'
    OBVIOUS
  <1> USE DEF Types
  <1>t. \A t \in Threads : t \in Actors
    BY DEF Actors
  <1>q. op_queue_ \in Seq(Entries) /\ private_op_queue \in [Threads -> Seq(Plain)] /\ Once(op_queue_)
    BY DEF SchedTypes, PlaceInv, OnePlace
  \* Nothing moves.
  <1>u. ASSUME \A a \in Actors : Held(a)' <=> Held(a), \A t \in Threads : Runs(t)' <=> Runs(t),
               HasInvoker(op_queue_)' <=> HasInvoker(op_queue_), Once(op_queue_)',
               locked_' <=> locked_
        PROVE  PlaceInv'
    BY <1>u DEF PlaceInv, OnePlace
  <1>v. ASSUME op_queue_' = op_queue_
        PROVE  Once(op_queue_)' /\ (HasInvoker(op_queue_)' <=> HasInvoker(op_queue_))
    BY <1>q, <1>v DEF HasInvoker
  <1>w. ASSUME UNCHANGED <<post, arg>> PROVE \A a \in Actors : Held(a)' <=> Held(a)
    BY <1>w DEF Held
  <1>x. ASSUME UNCHANGED <<cur, stage>> PROVE \A t \in Threads : Runs(t)' <=> Runs(t)
    BY <1>x DEF Runs
  <1>y. UNCHANGED strandVars => locked_' = locked_
    BY DEF strandVars
  <1>z. UNCHANGED bodyVars => stage' = stage
    BY DEF bodyVars
  <1>1. ASSUME NEW a \in Actors, NEW o \in Plain, PostPlain(a, o) PROVE PlaceInv'
    <2>1. \A b \in Actors : Held(b)' <=> Held(b)
      BY <1>1, Distinct DEF PostPlain, Posts, MayPost, WorkStarted, SchedTypes, Held
    <2> QED BY <1>1, <1>u, <1>v, <1>x, <1>y, <2>1 DEF PostPlain, WorkStarted
  <1>2. ASSUME NEW a \in Actors, NEW h \in Handlers, PostStrand(a, h) PROVE PlaceInv'
    <2>1. op_queue_' = op_queue_ /\ cur' = cur /\ stage' = stage
      BY <1>2, <1>z DEF PostStrand
    <2>2. CASE first
      <3>1. ~locked_ /\ locked_'
        BY <1>2, <2>2 DEF PostStrand, enqueue, first
      <3>2. post' = [post EXCEPT ![a] = "ready"] /\ arg' = [arg EXCEPT ![a] = h]
        BY <1>2, <2>2 DEF PostStrand
      <3>3. Held(a)' /\ \A b \in Actors \ {a} : Held(b)' <=> Held(b)
        BY <3>2 DEF Held, SchedTypes
      <3>4. /\ \A b \in Actors : ~Held(b)
            /\ \A t \in Threads : ~Runs(t)
            /\ ~HasInvoker(op_queue_)
        BY <3>1 DEF PlaceInv, OnePlace
      <3> QED BY <1>v, <1>x, <2>1, <3>1, <3>3, <3>4 DEF PlaceInv, OnePlace
    <2>3. CASE ~first
      <3>1. locked_' <=> locked_
        BY <1>2, <2>3 DEF PostStrand, enqueue, first
      <3>2. post' = post /\ arg' = arg
        BY <1>2, <2>3 DEF PostStrand
      <3> QED BY <1>u, <1>v, <1>w, <1>x, <2>1, <3>1, <3>2
    <2> QED BY <2>2, <2>3
  <1>3. ASSUME NEW a \in Actors, PushReady(a) PROVE PlaceInv'
    <2>1. \A b \in Actors : Held(b)' <=> Held(b)
      BY <1>3 DEF PushReady, SchedTypes, Held
    <2> QED BY <1>3, <1>u, <1>v, <1>x, <1>z, <2>1 DEF PushReady, ready_push
  <1>4. ASSUME NEW a \in Actors, Schedule(a) PROVE PlaceInv'
    <2>1. \A b \in Actors : Held(b)' <=> Held(b)
      BY <1>4 DEF Schedule, WorkStarted, SchedTypes, Held
    <2> QED BY <1>4, <1>u, <1>v, <1>x, <1>y, <1>z, <2>1 DEF Schedule, WorkStarted
  <1>5. ASSUME NEW a \in Actors, PushOp(a), UNCHANGED <<strandVars, bodyVars>> PROVE PlaceInv'
    <2>1. /\ op_queue_' = Append(op_queue_, arg[a]) /\ cur' = cur /\ arg' = arg /\ stage' = stage
          /\ post[a] = "push" /\ locked_' = locked_ /\ arg[a] \in Ops
      BY <1>5, <1>y, <1>z DEF PushOp, ArgOK
    <2>2. \E s \in {"idle", "signal"} : post' = [post EXCEPT ![a] = s]
      BY <1>5 DEF PushOp, WakeOne
    <2>3. ~Held(a)' /\ \A b \in Actors \ {a} : Held(b)' <=> Held(b)
      BY <2>1, <2>2 DEF Held, SchedTypes
    <2>4. arg[a] \in Entries /\ arg[a] # Task
      BY <2>1, Distinct DEF Entries
    <2>5. CASE arg[a] \in Handlers
      <3>1. Held(a)
        BY <2>1, <2>5 DEF Held
      <3>2. ~HasInvoker(op_queue_)
        BY <3>1 DEF PlaceInv, OnePlace
      <3>3. Once(op_queue_)' /\ HasInvoker(op_queue_)'
        BY <1>q, <2>1, <2>4, <2>5, <3>2, AppendQueue DEF HasInvoker
      <3> QED BY <1>x, <2>1, <2>3, <3>1, <3>2, <3>3 DEF PlaceInv, OnePlace
    <2>6. CASE arg[a] \notin Handlers
      <3>1. Once(op_queue_)' /\ (HasInvoker(op_queue_)' <=> HasInvoker(op_queue_))
        BY <1>q, <2>1, <2>4, <2>6, AppendQueue DEF HasInvoker
      <3>2. ~Held(a)
        BY <2>6 DEF Held
      <3> QED BY <1>u, <1>x, <2>1, <2>3, <3>1, <3>2
    <2> QED BY <2>5, <2>6
  <1>6. ASSUME NEW a \in Actors, NEW s \in {"idle", "stop", "gone"}, post' = [post EXCEPT ![a] = s],
               post[a] \in {"signal", "idle", "stop"},
               UNCHANGED <<op_queue_, cur, arg>>, UNCHANGED <<strandVars, bodyVars>>
        PROVE  PlaceInv'
    <2>1. \A b \in Actors : Held(b)' <=> Held(b)
      BY <1>6 DEF SchedTypes, Held
    <2> QED BY <1>6, <1>u, <1>v, <1>x, <1>y, <1>z, <2>1
  <1>7. ASSUME NEW a \in Actors, Signal(a), UNCHANGED <<strandVars, bodyVars>> PROVE PlaceInv'
    BY <1>6, <1>7 DEF Signal
  <1>8. ASSUME NEW c \in Clients, ReleaseGuard(c) \/ ClientStops(c),
               UNCHANGED <<strandVars, bodyVars>>
        PROVE  PlaceInv'
    BY <1>6, <1>8 DEF ReleaseGuard, ClientStops, StopAllThreads, Actors
  <1>9. ASSUME NEW t \in Threads, NEW o \in Plain, DeferPlain(t, o) PROVE PlaceInv'
    BY <1>9, <1>u, <1>v, <1>w, <1>x, <1>y DEF DeferPlain, Defer
  <1>10. ASSUME NEW t \in Threads, NEW h \in Handlers, DispatchStrand(t, h) PROVE PlaceInv'
    BY <1>10, <1>u, <1>v, <1>w, <1>x, <1>z DEF DispatchStrand, dispatch, schedVars
  <1>11. ASSUME NEW t \in Threads, RunReady(t) PROVE PlaceInv'
    BY <1>11, <1>u, <1>v, <1>w, <1>x DEF RunReady, ready_pop, schedVars
  <1>12. ASSUME NEW t \in Threads, NoneReady(t) \/ UpcallEnds(t) PROVE PlaceInv'
    <2>1. stage[t] = "run" /\ \E s \in {"run", "exit"} : stage' = [stage EXCEPT ![t] = s]
      BY <1>12 DEF NoneReady, UpcallEnds, Control, ControlOf
    <2>2. UNCHANGED <<op_queue_, cur, post, arg, locked_>>
      BY <1>12, <1>y DEF NoneReady, UpcallEnds, complete, schedVars
    <2>3. \A u \in Threads : Runs(u)' <=> Runs(u)
      BY <2>1, <2>2 DEF Runs, PoolTypes
    <2> QED BY <1>u, <1>v, <1>w, <2>2, <2>3
  <1>13. ASSUME NEW t \in Threads, InvokerExits(t) PROVE PlaceInv'
    <2>1. /\ op_queue_' = op_queue_ /\ cur' = cur /\ stage' = [stage EXCEPT ![t] = "left"]
          /\ stage[t] = "exit" /\ cur[t] \in Handlers /\ post[t] = "idle"
      BY <1>13 DEF InvokerExits, Idle, Control, ControlOf
    <2>2. Runs(t) /\ ~Runs(t)' /\ \A u \in Threads \ {t} : Runs(u)' <=> Runs(u)
      BY <2>1 DEF Runs, PoolTypes
    <2>3. /\ \A a \in Actors : ~Held(a)
          /\ \A u \in Threads \ {t} : ~Runs(u)
          /\ ~HasInvoker(op_queue_)
      BY <2>2 DEF PlaceInv, OnePlace
    <2>4. CASE locked_'
      <3>1. post' = [post EXCEPT ![t] = "again"] /\ arg' = [arg EXCEPT ![t] = cur[t]]
        BY <1>13, <2>4 DEF InvokerExits
      <3>2. Held(t)' /\ \A b \in Actors \ {t} : Held(b)' <=> Held(b)
        BY <1>t, <2>1, <3>1 DEF Held, SchedTypes
      <3> QED BY <1>t, <1>v, <2>1, <2>2, <2>3, <2>4, <3>2 DEF PlaceInv, OnePlace
    <2>5. CASE ~locked_'
      <3>1. post' = post /\ arg' = arg
        BY <1>13, <2>5 DEF InvokerExits
      <3> QED BY <1>v, <1>w, <2>1, <2>2, <2>3, <2>5, <3>1 DEF PlaceInv, OnePlace
    <2> QED BY <2>4, <2>5
  <1>14. ASSUME NEW t \in Threads, InvokerEnds(t) \/ PlainEnds(t) PROVE PlaceInv'
    <2>1. /\ UNCHANGED <<op_queue_, post, arg>> /\ cur' = [cur EXCEPT ![t] = NoOp]
          /\ locked_' = locked_
      BY <1>14, <1>y DEF InvokerEnds, PlainEnds, HandlerEnds
    <2>2. /\ ~Runs(t)
          /\ \A u \in Threads \ {t} : stage'[u] = stage[u]
      BY <1>14, Distinct DEF InvokerEnds, PlainEnds, Runs, PoolTypes
    <2>3. \A u \in Threads : Runs(u)' <=> Runs(u)
      BY <2>1, <2>2, PoolAssumption DEF Runs, SchedTypes
    <2> QED BY <1>u, <1>v, <1>w, <2>1, <2>3
  <1>15. ASSUME UNCHANGED <<op_queue_, cur, post, arg, stage, locked_>> PROVE PlaceInv'
    BY <1>15, <1>u, <1>v, <1>w, <1>x
  <1>16. ASSUME NEW t \in Threads, RunAgain(t) PROVE PlaceInv'
    BY <1>15, <1>16, <1>y DEF RunAgain, Run
  <1>17. ASSUME NEW t \in Threads, UNCHANGED <<strandVars, bodyVars>>,
                ReactorReturns(t) \/ SpuriousWake(t) \/ ReactorEvent(t) \/ ThreadStops(t)
         PROVE  PlaceInv'
    BY <1>15, <1>17, <1>y, <1>z
       DEF ReactorReturns, SpuriousWake, ReactorEvent, ThreadStops, StopAllThreads
  <1>18. ASSUME NEW t \in Threads, Unwind(t), UNCHANGED <<strandVars, bodyVars>> PROVE PlaceInv'
    <2>1. /\ op_queue_' = op_queue_ \o private_op_queue[t]
          /\ UNCHANGED <<cur, post, arg, stage, locked_>>
      BY <1>18, <1>y, <1>z DEF Unwind
    <2>2. Once(op_queue_)' /\ (HasInvoker(op_queue_)' <=> HasInvoker(op_queue_))
      BY <1>q, <2>1, ConcatQueue, Distinct DEF HasInvoker
    <2> QED BY <1>u, <1>w, <1>x, <2>1, <2>2
  <1>p. ASSUME NEW t \in Threads, NEW q, NEW st, NEW ti, Pass(t, q, st, ti), OnePlace(q),
               UNCHANGED <<strandVars, bodyVars>>
        PROVE  PlaceInv'
    <2>1. q \in Seq(Entries) /\ post[t] = "idle" /\ stage[t] = "run" /\ cur[t] = NoOp
      BY <1>p, PassTypes
    <2>2. RunOne(t, q, st, ti) /\ stage' = stage /\ arg' = arg /\ locked_' = locked_
      BY <1>p, <1>y, <1>z DEF Pass
    <2>3. /\ \A u \in Threads \ {t} : cur'[u] = cur[u]
          /\ \A a \in Actors \ {t} : post'[a] = post[a]
          /\ post' = post \/ post'[t] \in {"idle", "signal"}
      BY <2>1, <2>2, RunOneEffect
    <2>4. \A a \in Actors : Held(a)' <=> Held(a)
      BY <2>1, <2>2, <2>3 DEF Held
    <2>5. ~Runs(t) /\ \A u \in Threads \ {t} : Runs(u)' <=> Runs(u)
      BY <2>1, <2>2, <2>3, PoolAssumption DEF Runs
    <2>6. CASE q # <<>> /\ op_queue_' = Tail(q) /\ Head(q) \in Handlers /\ cur'[t] = Head(q)
      <3>1. HasInvoker(q) /\ ~HasInvoker(op_queue_)' /\ Once(op_queue_)'
        BY <1>p, <2>1, <2>6, TailQueue DEF HasInvoker, OnePlace
      <3>2. Runs(t)'
        BY <2>1, <2>2, <2>6 DEF Runs
      <3> QED BY <1>p, <2>2, <2>4, <2>5, <3>1, <3>2 DEF PlaceInv, OnePlace
    <2>7. CASE /\ op_queue_' = q \/ (q # <<>> /\ op_queue_' = Tail(q) /\ Head(q) \notin Handlers)
               /\ cur'[t] \notin Handlers
      <3>1. (HasInvoker(q) <=> HasInvoker(op_queue_)') /\ Once(op_queue_)'
        BY <1>p, <2>1, <2>7, TailQueue DEF HasInvoker, OnePlace
      <3>2. ~Runs(t)'
        BY <2>7 DEF Runs
      <3> QED BY <1>p, <2>2, <2>4, <2>5, <3>1, <3>2 DEF PlaceInv, OnePlace
    <2>8. Task \notin Handlers /\ NoOp \notin Handlers
      BY PoolAssumption
    <2>9. \/ op_queue_' = q /\ cur' = cur
          \/ q # <<>> /\ op_queue_' = Tail(q) /\ Head(q) = Task /\ cur' = cur
          \/ q # <<>> /\ op_queue_' = Tail(q) /\ cur' = [cur EXCEPT ![t] = Head(q)]
      BY <2>2, RunOneCases, SMT DEF PassStops, PassTask, PassHandler, PassWaits
    <2> QED BY <2>1, <2>6, <2>7, <2>8, <2>9 DEF SchedTypes
  <1>19. ASSUME NEW t \in Threads, UNCHANGED <<strandVars, bodyVars>>,
                Loop(t) \/ Relock(t) \/ TaskCleanup(t)
         PROVE  PlaceInv'
    <2>1. OnePlace(op_queue_ \o private_op_queue[t])
      <3>1. private_op_queue[t] \in Seq(Plain)
        BY <1>q
      <3>2. /\ Once(op_queue_ \o private_op_queue[t])
            /\ HasInvoker(op_queue_ \o private_op_queue[t]) <=> HasInvoker(op_queue_)
        BY <1>q, <3>1, ConcatQueue, Distinct DEF HasInvoker
      <3> QED BY <3>2 DEF PlaceInv, OnePlace
    <2>2. ASSUME pc[t] = "tasked" PROVE OnePlace(Append(op_queue_, Task))
      <3>1. ~Has(op_queue_, Task) /\ Task \in Entries /\ Task \notin Handlers
        BY <2>2, PoolAssumption DEF TaskInv, InTask, Entries
      <3>2. /\ Once(Append(op_queue_, Task))
            /\ HasInvoker(Append(op_queue_, Task)) <=> HasInvoker(op_queue_)
        BY <1>q, <3>1, AppendQueue DEF HasInvoker
      <3> QED BY <3>2 DEF PlaceInv, OnePlace
    <2>3. CASE Relock(t)
      BY <1>15, <1>19, <1>p, <1>y, <1>z, <2>3, Passes DEF PlaceInv
    <2>4. CASE Loop(t)
      BY <1>19, <1>p, <2>1, <2>4, Passes
    <2>5. CASE TaskCleanup(t)
      <3>1. pc[t] = "tasked"
        BY <2>5 DEF TaskCleanup
      <3> QED BY <1>19, <1>p, <2>2, <2>5, <3>1, Passes
    <2> QED BY <1>19, <2>3, <2>4, <2>5
  <1>20. ASSUME Destroy \/ UNCHANGED vars PROVE PlaceInv'
    <2>1. UNCHANGED <<op_queue_, cur, post, arg, stage, locked_>>
      BY <1>20 DEF Destroy, shutdown, vars, schedVars, strandVars, bodyVars
    <2> QED BY <1>15, <2>1
  <1> QED BY <1>1, <1>2, <1>3, <1>4, <1>5, <1>7, <1>8, <1>9, <1>10, <1>11, <1>12, <1>13, <1>14,
             <1>16, <1>17, <1>18, <1>19, <1>20
          DEF Next, Submit, Posting, Body, RunStep

LEMMA TaskStep == Types /\ Control /\ PlaceInv /\ TaskInv /\ [Next]_vars => TaskInv'
  <1> USE Zenon
  <1> SUFFICES ASSUME Types, Control, PlaceInv, TaskInv, [Next]_vars PROVE TaskInv'
    OBVIOUS
  <1> USE DEF Types
  <1>q. /\ op_queue_ \in Seq(Entries) /\ private_op_queue \in [Threads -> Seq(Plain)]
        /\ Once(op_queue_) /\ pc \in [Threads -> PcStates]
    BY DEF SchedTypes, PlaceInv, OnePlace
  <1>u. ASSUME \A t \in Threads : InTask(t)' => InTask(t),
               Has(op_queue_, Task)' => Has(op_queue_, Task)
        PROVE  TaskInv'
    BY <1>u DEF TaskInv
  <1>v. ASSUME UNCHANGED <<op_queue_, pc>> PROVE TaskInv'
    BY <1>v DEF TaskInv, InTask
  <1>p. ASSUME op_queue_' = op_queue_, NEW t \in Threads, NEW s, pc' = [pc EXCEPT ![t] = s],
               s = "tasked" => InTask(t), s \notin {"poll", "task"}
        PROVE  TaskInv'
    <2>1. \A u \in Threads : InTask(u)' => InTask(u)
      BY <1>p, <1>q DEF InTask
    <2> QED BY <1>p, <1>u, <2>1
  <1>s. ASSUME NEW to, StopAllThreads(to), op_queue_' = op_queue_,
               \A t \in Threads : to[t] = pc[t] \/ to[t] = "out"
        PROVE  TaskInv'
    <2>1. \A u \in Threads : InTask(u)' => InTask(u)
      BY <1>s, <1>q DEF StopAllThreads, InTask
    <2> QED BY <1>s, <1>u, <2>1
  <1>1. ASSUME NEW a \in Actors, Submit(a) \/ PushReady(a) \/ Schedule(a) PROVE TaskInv'
    BY <1>1, <1>v DEF Submit, PostPlain, PostStrand, PushReady, Schedule, WorkStarted
  <1>2. ASSUME NEW a \in Actors, PushOp(a) PROVE TaskInv'
    <2>1. op_queue_' = Append(op_queue_, arg[a]) /\ pc' = pc /\ arg[a] \in Ops
      BY <1>2 DEF PushOp, ArgOK
    <2>2. arg[a] \in Entries /\ arg[a] # Task
      BY <2>1, Distinct DEF Entries
    <2>3. Has(op_queue_, Task)' => Has(op_queue_, Task)
      BY <1>q, <2>1, <2>2, AppendQueue
    <2> QED BY <1>u, <2>1, <2>3 DEF InTask
  <1>3. ASSUME NEW a \in Actors, Signal(a) PROVE TaskInv'
    <2>1. pc' = pc \/ \E t \in Threads : pc' = [pc EXCEPT ![t] = "relock"]
      BY <1>3 DEF Signal
    <2>2. op_queue_' = op_queue_
      BY <1>3 DEF Signal
    <2>3. CASE pc' = pc
      BY <1>v, <2>2, <2>3
    <2>4. ASSUME NEW t \in Threads, pc' = [pc EXCEPT ![t] = "relock"] PROVE TaskInv'
      <3>1. "relock" # "tasked" /\ "relock" \notin {"poll", "task"}
        OBVIOUS
      <3> QED BY <1>p, <2>2, <2>4, <3>1
    <2> QED BY <2>1, <2>3, <2>4
  <1>4. ASSUME NEW c \in Clients, ReleaseGuard(c) PROVE TaskInv'
    BY <1>4, <1>v DEF ReleaseGuard
  <1>5. ASSUME NEW c \in Clients, ClientStops(c) PROVE TaskInv'
    BY <1>5, <1>s DEF ClientStops, StopAllThreads
  <1>6. ASSUME NEW t \in Threads,
               \/ \E o \in Plain : DeferPlain(t, o)
               \/ \E h \in Handlers : DispatchStrand(t, h)
               \/ RunReady(t) \/ NoneReady(t) \/ UpcallEnds(t) \/ InvokerExits(t)
        PROVE  TaskInv'
    BY <1>6, <1>v DEF DeferPlain, Defer, DispatchStrand, RunReady, NoneReady, UpcallEnds,
                      InvokerExits, schedVars
  <1>7. ASSUME NEW t \in Threads, InvokerEnds(t) \/ PlainEnds(t) PROVE TaskInv'
    <2>1. op_queue_' = op_queue_ /\ \E s \in {"stop", "unwind", "loop"} : pc' = [pc EXCEPT ![t] = s]
      BY <1>7 DEF InvokerEnds, PlainEnds, HandlerEnds
    <2> QED BY <1>p, <2>1
  <1>8. ASSUME NEW t \in Threads, RunAgain(t) PROVE TaskInv'
    <2>1. op_queue_' = op_queue_ /\ \E s \in {"stop", "loop"} : pc' = [pc EXCEPT ![t] = s]
      BY <1>8 DEF RunAgain, Run
    <2> QED BY <1>p, <2>1
  <1>9. ASSUME NEW t \in Threads, ReactorReturns(t) \/ SpuriousWake(t) \/ ReactorEvent(t)
        PROVE  TaskInv'
    BY <1>9, <1>p, SMT DEF ReactorReturns, SpuriousWake, ReactorEvent, InTask
  <1>10. ASSUME NEW t \in Threads, ThreadStops(t) PROVE TaskInv'
    <2>1. \A u \in Threads : [pc EXCEPT ![t] = "out"][u] = pc[u] \/ [pc EXCEPT ![t] = "out"][u] = "out"
      BY <1>q
    <2> QED BY <1>10, <1>s, <2>1 DEF ThreadStops, StopAllThreads
  <1>11. ASSUME NEW t \in Threads, Unwind(t) PROVE TaskInv'
    <2>1. \A u \in Threads : InTask(u)' => InTask(u)
      BY <1>11, <1>q DEF Unwind, InTask
    <2>2. private_op_queue[t] \in Seq(Plain)
      BY <1>q
    <2>3. Has(op_queue_, Task)' => Has(op_queue_, Task)
      BY <1>11, <1>q, <2>2, ConcatQueue, PoolAssumption DEF Unwind
    <2> QED BY <1>u, <2>1, <2>3
  <1>12. ASSUME NEW t \in Threads, NEW q, NEW st, NEW ti, Pass(t, q, st, ti), Once(q),
                \A u \in Threads \ {t} : InTask(u) => ~Has(q, Task)
         PROVE  TaskInv'
    <2>1. q \in Seq(Entries) /\ RunOne(t, q, st, ti)
      BY <1>12, PassTypes DEF Pass
    <2>2. \A u \in Threads \ {t} : InTask(u)' <=> InTask(u)
      BY <2>1, RunOneEffect DEF InTask
    <2>3. CASE PassTask(t, q, st)
      <3>1. Has(q, Task) /\ ~Has(op_queue_', Task)
        BY <1>12, <2>1, <2>3, TailQueue DEF PassTask
      <3> QED BY <1>12, <2>2, <3>1 DEF TaskInv
    <2>4. CASE PassStops(t, q, st, ti) \/ PassHandler(t, q, st, ti) \/ PassWaits(t, q, st, ti)
      <3>1. Has(op_queue_', Task) => Has(q, Task)
        BY <2>1, <2>4, TailQueue DEF PassStops, PassHandler, PassWaits
      <3>2. ~InTask(t)'
        BY <1>q, <2>4 DEF PassStops, PassHandler, PassWaits, InTask
      <3> QED BY <1>12, <2>2, <3>1, <3>2 DEF TaskInv
    <2> QED BY <2>1, <2>3, <2>4, RunOneCases
  <1>13. ASSUME NEW t \in Threads, Loop(t) \/ Relock(t) \/ TaskCleanup(t) PROVE TaskInv'
    <2>1. CASE Loop(t)
      <3>1. private_op_queue[t] \in Seq(Plain) /\ Task \notin Plain
        BY <1>q, PoolAssumption
      <3>2. /\ Once(op_queue_ \o private_op_queue[t])
            /\ Has(op_queue_ \o private_op_queue[t], Task) => Has(op_queue_, Task)
        BY <1>q, <3>1, ConcatQueue
      <3>3. \A u \in Threads \ {t} : InTask(u) => ~Has(op_queue_ \o private_op_queue[t], Task)
        BY <3>2 DEF TaskInv
      <3> QED BY <1>12, <2>1, <3>2, <3>3, Passes
    <2>2. CASE Relock(t)
      <3>1. \A u \in Threads \ {t} : InTask(u) => ~Has(op_queue_, Task)
        BY DEF TaskInv
      <3>2. CASE pc' = [pc EXCEPT ![t] = "wait"] /\ op_queue_' = op_queue_
        BY <1>p, <3>2
      <3>3. CASE Pass(t, op_queue_, state_ - 2, task_interrupted_)
        BY <1>12, <1>q, <3>1, <3>3
      <3> QED BY <2>2, <3>2, <3>3, Passes
    <2>3. CASE TaskCleanup(t)
      <3>1. InTask(t) /\ Task \in Entries /\ Task \notin Handlers
        BY <2>3, PoolAssumption DEF TaskCleanup, InTask, Entries
      <3>2. ~Has(op_queue_, Task) /\ \A u \in Threads \ {t} : ~InTask(u)
        BY <3>1 DEF TaskInv
      <3>3. Once(Append(op_queue_, Task))
        BY <1>q, <3>1, <3>2, AppendQueue
      <3> QED BY <1>12, <2>3, <3>2, <3>3, Passes
    <2> QED BY <1>13, <2>1, <2>2, <2>3
  <1>14. ASSUME Destroy \/ UNCHANGED vars PROVE TaskInv'
    BY <1>14, <1>v DEF Destroy, vars, schedVars
  <1> QED BY <1>1, <1>2, <1>3, <1>4, <1>5, <1>6, <1>7, <1>8, <1>9, <1>10, <1>11, <1>13, <1>14
          DEF Next, Posting, Body, RunStep
-----------------------------------------------------------------------------
(***************************************************************************)
(* Where handlers wait.                                                    *)
(***************************************************************************)
LEMMA HasQueue ==
    ASSUME NEW T, NEW q \in Seq(T)
    PROVE  /\ \A o \in T : \A x : Has(Append(q, o), x) <=> Has(q, x) \/ x = o
           /\ \A p \in Seq(T) : \A x : Has(q \o p, x) <=> Has(q, x) \/ Has(p, x)
           /\ q # <<>> => Head(q) \in T /\ \A x : Has(q, x) <=> x = Head(q) \/ Has(Tail(q), x)
           /\ \A x : Has(q, x) => x \in T
           /\ \A x : ~Has(<<>>, x)
  <1>1. ASSUME NEW o \in T PROVE \A x : Has(Append(q, o), x) <=> Has(q, x) \/ x = o
    <2>1. /\ DOMAIN Append(q, o) = DOMAIN q \cup {Len(q) + 1}
          /\ Append(q, o)[Len(q) + 1] = o /\ \A k \in DOMAIN q : Append(q, o)[k] = q[k]
      OBVIOUS
    <2> QED BY <2>1, Zenon DEF Has
  <1>2. ASSUME NEW p \in Seq(T) PROVE \A x : Has(q \o p, x) <=> Has(q, x) \/ Has(p, x)
    <2>1. /\ DOMAIN (q \o p) = 1 .. (Len(q) + Len(p)) /\ DOMAIN q = 1 .. Len(q)
          /\ DOMAIN p = 1 .. Len(p)
      OBVIOUS
    <2>2. \A k \in DOMAIN q : k \in DOMAIN (q \o p) /\ (q \o p)[k] = q[k]
      BY <2>1
    <2>3. \A k \in DOMAIN p : Len(q) + k \in DOMAIN (q \o p) /\ (q \o p)[Len(q) + k] = p[k]
      BY <2>1
    <2>4. \A k \in DOMAIN (q \o p) : k \in DOMAIN q \/ \E j \in DOMAIN p : k = Len(q) + j
      <3> TAKE k \in DOMAIN (q \o p)
      <3>1. k \notin DOMAIN q => k - Len(q) \in DOMAIN p /\ k = Len(q) + (k - Len(q))
        BY <2>1
      <3> QED BY <3>1, Zenon
    <2>5. \A x : Has(q, x) \/ Has(p, x) => Has(q \o p, x)
      BY <2>2, <2>3, Zenon DEF Has
    <2>6. ASSUME NEW x, Has(q \o p, x) PROVE Has(q, x) \/ Has(p, x)
      <3>1. PICK k \in DOMAIN (q \o p) : (q \o p)[k] = x
        BY <2>6, Zenon DEF Has
      <3>2. CASE k \in DOMAIN q
        BY <2>2, <3>1, <3>2, Zenon DEF Has
      <3>3. ASSUME NEW j \in DOMAIN p, k = Len(q) + j PROVE Has(p, x)
        BY <2>3, <3>1, <3>3, Zenon DEF Has
      <3> QED BY <2>4, <3>2, <3>3, Zenon
    <2> QED BY <2>5, <2>6, Zenon
  <1>3. ASSUME q # <<>>
        PROVE  Head(q) \in T /\ \A x : Has(q, x) <=> x = Head(q) \/ Has(Tail(q), x)
    <2>1. /\ Head(q) \in T /\ Head(q) = q[1] /\ DOMAIN q = 1 .. Len(q) /\ 1 \in DOMAIN q
          /\ DOMAIN Tail(q) = 1 .. (Len(q) - 1) /\ Len(q) \in Nat
      BY <1>3
    <2>2. \A k \in DOMAIN Tail(q) : k + 1 \in DOMAIN q /\ Tail(q)[k] = q[k + 1]
      BY <1>3, <2>1
    <2>3. \A k \in DOMAIN q : k = 1 \/ \E j \in DOMAIN Tail(q) : k = j + 1
      <3> TAKE k \in DOMAIN q
      <3>1. k # 1 => k - 1 \in DOMAIN Tail(q) /\ k = (k - 1) + 1
        BY <2>1
      <3> QED BY <3>1, Zenon
    <2> QED BY <2>1, <2>2, <2>3, Zenon DEF Has
  <1>4. \A x : Has(q, x) => x \in T
    BY DEF Has
  <1>5. \A x : ~Has(<<>>, x)
    BY DEF Has
  <1> QED BY <1>1, <1>2, <1>3, <1>4, <1>5, Zenon

\* Where a handler submitted to the strand, or a plain handler, can be.
InStrand(h) ==
    \/ Has(waiting_queue_, h) \/ Has(ready_queue_, h)
    \/ \E a \in Actors : post[a] = "ready" /\ arg[a] = h
    \/ h # NoOp /\ \E t \in Threads : upcall[t] = h
InPool(o) ==
    /\ o \in Plain
    /\ \/ \E a \in Actors : post[a] = "push" /\ arg[a] = o
       \/ Has(op_queue_, o)
       \/ \E t \in Threads : Has(private_op_queue[t], o) \/ cur[t] = o

\* The strand and the pool keep every handler until it is over, and an unlocked
\* strand has none.
StrandKeeps ==
    /\ ~locked_ => waiting_queue_ = <<>> /\ ready_queue_ = <<>>
    /\ \A h : h \in submitted <=> h \in over \/ InStrand(h)
PoolKeeps == \A o : o \in posted <=> o \in ran \/ InPool(o)

LEMMA InitKeeps == Init => StrandKeeps /\ PoolKeeps
  <1> USE Zenon
  <1> SUFFICES ASSUME Init PROVE StrandKeeps /\ PoolKeeps
    OBVIOUS
  <1>1. \A x : ~Has(<<>>, x) /\ (Has(<<Task>>, x) => x = Task)
    BY SMT DEF Has
  <1>2. \A h : ~InStrand(h)
    BY <1>1 DEF Init, SchedInit, InStrand
  <1>3. \A o : ~InPool(o)
    BY <1>1, PoolAssumption DEF Init, SchedInit, InPool
  <1> QED BY <1>2, <1>3 DEF Init, StrandKeeps, PoolKeeps

LEMMA StrandKeepsStep ==
    Types /\ Control /\ PlaceInv /\ StrandKeeps /\ [Next]_vars => StrandKeeps'
  <1> USE Zenon
  <1> SUFFICES ASSUME Types, Control, PlaceInv, StrandKeeps, [Next]_vars PROVE StrandKeeps'
    OBVIOUS
  <1>t. (\A t \in Threads : t \in Actors) /\ (\A c \in Clients : c \in Actors)
    BY DEF Actors
  <1>T. /\ waiting_queue_ \in Seq(Handlers) /\ ready_queue_ \in Seq(Handlers)
        /\ post \in [Actors -> PostStates] /\ arg \in [Actors -> Ops \cup {NoOp}]
        /\ upcall \in [Threads -> Handlers \cup {NoOp}]
    BY DEF Types, SchedTypes, PoolTypes
  <1>K. /\ ~locked_ => waiting_queue_ = <<>> /\ ready_queue_ = <<>>
        /\ \A h : h \in submitted <=> h \in over \/ InStrand(h)
    BY DEF StrandKeeps
  <1>k. NoOp \notin Handlers
    BY PoolAssumption
  <1>u. ASSUME UNCHANGED <<locked_, waiting_queue_, ready_queue_, submitted, over, upcall>>,
               \A a \in Actors : /\ post'[a] = "ready" <=> post[a] = "ready"
                                 /\ post[a] = "ready" => arg'[a] = arg[a]
        PROVE  StrandKeeps'
    <2>1. \A h : InStrand(h)' <=> InStrand(h)
      BY <1>u DEF InStrand
    <2> QED BY <1>u, <2>1 DEF StrandKeeps
  <1>v. UNCHANGED <<strandVars, bodyVars>> =>
           UNCHANGED <<locked_, waiting_queue_, ready_queue_, submitted, over, upcall>>
    BY DEF strandVars, bodyVars
  <1>1. ASSUME NEW a \in Actors, NEW o \in Plain, PostPlain(a, o) PROVE StrandKeeps'
    <2>1. \A b \in Actors : /\ post'[b] = "ready" <=> post[b] = "ready"
                            /\ post[b] = "ready" => arg'[b] = arg[b]
      BY <1>1, <1>T DEF PostPlain, Posts, MayPost, WorkStarted
    <2> QED BY <1>1, <1>u, <2>1 DEF PostPlain, strandVars
  <1>2. ASSUME NEW a \in Actors, NEW h \in Handlers, PostStrand(a, h) PROVE StrandKeeps'
    <2>1. /\ post[a] = "idle" /\ upcall' = upcall /\ ready_queue_' = ready_queue_
          /\ submitted' = submitted \cup {h}
      BY <1>2 DEF PostStrand, Posts, MayPost, enqueue, bodyVars
    <2>2. CASE first
      <3>1. /\ post' = [post EXCEPT ![a] = "ready"] /\ arg' = [arg EXCEPT ![a] = h]
            /\ locked_' /\ over' = over /\ waiting_queue_' = waiting_queue_
        BY <1>2, <2>2 DEF PostStrand, enqueue, first
      <3>2. /\ post'[a] = "ready" /\ arg'[a] = h
            /\ \A b \in Actors \ {a} : post'[b] = post[b] /\ arg'[b] = arg[b]
        BY <1>T, <3>1
      <3>3. \A x : InStrand(x)' <=> InStrand(x) \/ x = h
        BY <2>1, <3>1, <3>2 DEF InStrand
      <3> QED BY <1>K, <2>1, <3>1, <3>3 DEF StrandKeeps
    <2>3. CASE shutdown_
      <3>1. /\ post' = post /\ arg' = arg /\ (locked_' <=> locked_) /\ over' = over \cup {h}
            /\ waiting_queue_' = waiting_queue_
        <4>1. post' = post /\ arg' = arg /\ over' = over \cup {h} /\ waiting_queue_' = waiting_queue_
          BY <1>2, <2>3 DEF PostStrand, enqueue, first
        <4> QED BY <1>2, <2>3, <4>1 DEF PostStrand, enqueue
      <3>2. \A x : InStrand(x)' <=> InStrand(x)
        BY <2>1, <3>1 DEF InStrand
      <3> QED BY <1>K, <2>1, <3>1, <3>2 DEF StrandKeeps
    <2>4. CASE ~shutdown_ /\ locked_
      <3>1. /\ post' = post /\ arg' = arg /\ locked_' /\ over' = over
            /\ waiting_queue_' = Append(waiting_queue_, h)
        BY <1>2, <2>4 DEF PostStrand, enqueue, first
      <3>2. \A x : Has(waiting_queue_', x) <=> Has(waiting_queue_, x) \/ x = h
        BY <1>T, <3>1, HasQueue
      <3>3. \A x : InStrand(x)' <=> InStrand(x) \/ x = h
        BY <2>1, <3>1, <3>2 DEF InStrand
      <3> QED BY <1>K, <2>1, <3>1, <3>3 DEF StrandKeeps
    <2> QED BY <2>2, <2>3, <2>4 DEF first
  <1>3. ASSUME NEW a \in Actors, PushReady(a) PROVE StrandKeeps'
    <2>1. /\ post[a] = "ready" /\ post' = [post EXCEPT ![a] = "make"] /\ arg' = arg
          /\ ready_queue_' = Append(ready_queue_, arg[a])
          /\ UNCHANGED <<locked_, waiting_queue_, submitted, over, upcall>>
      BY <1>3 DEF PushReady, ready_push, bodyVars
    <2>2. locked_ /\ arg[a] \in Handlers
      BY <2>1 DEF PlaceInv, OnePlace, Held, Types, ArgOK
    <2>3. \A x : Has(ready_queue_', x) <=> Has(ready_queue_, x) \/ x = arg[a]
      <3>1. PICK h \in Handlers : h = arg[a]
        BY <2>2
      <3>2. \A x : Has(Append(ready_queue_, h), x) <=> Has(ready_queue_, x) \/ x = h
        BY <1>T, HasQueue
      <3> QED BY <2>1, <3>1, <3>2
    <2>4. post'[a] = "make" /\ \A b \in Actors \ {a} : post'[b] = post[b]
      BY <1>T, <2>1
    <2>5. \A x : InStrand(x)' <=> InStrand(x)
      BY <2>1, <2>3, <2>4 DEF InStrand
    <2> QED BY <1>K, <2>1, <2>2, <2>5 DEF StrandKeeps
  <1>4. ASSUME NEW a \in Actors, Schedule(a) PROVE StrandKeeps'
    <2>1. \A b \in Actors : /\ post'[b] = "ready" <=> post[b] = "ready"
                            /\ post[b] = "ready" => arg'[b] = arg[b]
      BY <1>4, <1>T DEF Schedule, WorkStarted
    <2> QED BY <1>4, <1>u, <1>v, <2>1 DEF Schedule
  <1>5. ASSUME NEW a \in Actors, post[a] # "ready", NEW s, s # "ready", post' = [post EXCEPT ![a] = s],
               arg' = arg, UNCHANGED <<strandVars, bodyVars>>
        PROVE  StrandKeeps'
    BY <1>5, <1>T, <1>u, <1>v
  <1>6. ASSUME NEW a \in Actors, PushOp(a) \/ Signal(a), UNCHANGED <<strandVars, bodyVars>>
        PROVE  StrandKeeps'
    <2>1. /\ post[a] # "ready" /\ arg' = arg
          /\ \E s \in {"idle", "signal"} : post' = [post EXCEPT ![a] = s]
      BY <1>6 DEF PushOp, WakeOne, Signal
    <2> QED BY <1>5, <1>6, <2>1
  <1>7. ASSUME NEW c \in Clients, ReleaseGuard(c) \/ ClientStops(c),
               UNCHANGED <<strandVars, bodyVars>>
        PROVE  StrandKeeps'
    <2>1. /\ post[c] # "ready" /\ arg' = arg
          /\ \E s \in {"stop", "gone"} : post' = [post EXCEPT ![c] = s]
      BY <1>7 DEF ReleaseGuard, ClientStops, StopAllThreads
    <2> QED BY <1>5, <1>7, <1>t, <2>1
  <1>8. ASSUME UNCHANGED <<locked_, waiting_queue_, ready_queue_, submitted, over, upcall, post, arg>>
        PROVE  StrandKeeps'
    BY <1>8, <1>u
  <1>9. ASSUME NEW t \in Threads, NEW o \in Plain, DeferPlain(t, o) PROVE StrandKeeps'
    BY <1>8, <1>9 DEF DeferPlain, Defer, strandVars
  <1>10. ASSUME NEW t \in Threads, NEW h \in Handlers, DispatchStrand(t, h) PROVE StrandKeeps'
    <2>1. /\ UNCHANGED <<locked_, waiting_queue_, ready_queue_, upcall, post, arg>>
          /\ submitted' = submitted \cup {h} /\ over' = over \cup {h}
      BY <1>10 DEF DispatchStrand, dispatch, schedVars, bodyVars
    <2>2. \A x : InStrand(x)' <=> InStrand(x)
      BY <2>1 DEF InStrand
    <2> QED BY <1>K, <2>1, <2>2 DEF StrandKeeps
  <1>11. ASSUME NEW t \in Threads, RunReady(t) PROVE StrandKeeps'
    <2>1. /\ UNCHANGED <<locked_, waiting_queue_, submitted, over, post, arg>>
          /\ ready_queue_ # <<>> /\ ready_queue_' = Tail(ready_queue_)
          /\ upcall' = [upcall EXCEPT ![t] = Head(ready_queue_)] /\ upcall[t] = NoOp
      BY <1>11 DEF RunReady, ready_pop, schedVars
    <2>2. /\ Head(ready_queue_) \in Handlers
          /\ \A x : Has(ready_queue_, x) <=> x = Head(ready_queue_) \/ Has(ready_queue_', x)
      BY <1>T, <2>1, HasQueue
    <2>3. upcall'[t] = Head(ready_queue_) /\ \A u \in Threads \ {t} : upcall'[u] = upcall[u]
      BY <1>T, <2>1
    <2>4. \A x : InStrand(x)' <=> InStrand(x)
      BY <1>k, <2>1, <2>2, <2>3 DEF InStrand
    <2>5. locked_
      BY <1>K, <2>1
    <2> QED BY <1>K, <2>1, <2>4, <2>5 DEF StrandKeeps
  <1>12. ASSUME NEW t \in Threads, NoneReady(t) PROVE StrandKeeps'
    BY <1>8, <1>12 DEF NoneReady, schedVars, strandVars
  <1>13. ASSUME NEW t \in Threads, UpcallEnds(t) PROVE StrandKeeps'
    <2>1. /\ UNCHANGED <<locked_, waiting_queue_, ready_queue_, submitted, post, arg>>
          /\ over' = over \cup {upcall[t]} /\ upcall' = [upcall EXCEPT ![t] = NoOp]
          /\ upcall[t] # NoOp
      BY <1>13 DEF UpcallEnds, complete, schedVars
    <2>2. upcall'[t] = NoOp /\ \A u \in Threads \ {t} : upcall'[u] = upcall[u]
      BY <1>T, <2>1
    <2>3. \A x : InStrand(x) <=> InStrand(x)' \/ (x = upcall[t] /\ InStrand(x))
      BY <2>1, <2>2 DEF InStrand
    <2>4. InStrand(upcall[t])
      BY <2>1 DEF InStrand
    <2> QED BY <1>K, <2>1, <2>3, <2>4 DEF StrandKeeps
  <1>14. ASSUME NEW t \in Threads, InvokerExits(t) PROVE StrandKeeps'
    <2>1. /\ ready_queue_' = ready_queue_ \o waiting_queue_ /\ waiting_queue_' = <<>>
          /\ UNCHANGED <<submitted, over, upcall>> /\ post[t] = "idle"
          /\ locked_' = (ready_queue_' # <<>>)
      BY <1>14 DEF InvokerExits, push_waiting_to_ready, Idle
    <2>2. \A x : /\ Has(ready_queue_', x) <=> Has(ready_queue_, x) \/ Has(waiting_queue_, x)
                 /\ ~Has(waiting_queue_', x)
      BY <1>T, <2>1, HasQueue
    <2>3. \A a \in Actors : /\ post'[a] = "ready" <=> post[a] = "ready"
                            /\ post[a] = "ready" => arg'[a] = arg[a]
      <3>1. CASE locked_'
        BY <1>14, <1>T, <1>t, <2>1, <3>1 DEF InvokerExits
      <3>2. CASE ~locked_'
        BY <1>14, <3>2 DEF InvokerExits
      <3> QED BY <3>1, <3>2
    <2>4. \A x : InStrand(x)' <=> InStrand(x)
      BY <2>1, <2>2, <2>3 DEF InStrand
    <2> QED BY <1>K, <2>1, <2>4 DEF StrandKeeps
  <1>15. ASSUME NEW t \in Threads, InvokerEnds(t) \/ PlainEnds(t) PROVE StrandKeeps'
    BY <1>8, <1>15 DEF InvokerEnds, PlainEnds, HandlerEnds, strandVars
  <1>16. ASSUME NEW t \in Threads, RunAgain(t) PROVE StrandKeeps'
    BY <1>8, <1>16 DEF RunAgain, Run, strandVars
  <1>17. ASSUME NEW t \in Threads, UNCHANGED <<strandVars, bodyVars>>,
                ReactorReturns(t) \/ SpuriousWake(t) \/ ReactorEvent(t) \/ ThreadStops(t) \/ Unwind(t)
         PROVE  StrandKeeps'
    BY <1>8, <1>17, <1>v DEF ReactorReturns, SpuriousWake, ReactorEvent, ThreadStops,
                             StopAllThreads, Unwind
  <1>18. ASSUME NEW t \in Threads, NEW q, NEW st, NEW ti, Pass(t, q, st, ti),
                UNCHANGED <<strandVars, bodyVars>>
         PROVE  StrandKeeps'
    <2>1. q \in Seq(Entries) /\ post[t] = "idle" /\ RunOne(t, q, st, ti) /\ arg' = arg
      BY <1>18, PassTypes DEF Pass
    <2>2. /\ \A a \in Actors \ {t} : post'[a] = post[a]
          /\ post' = post \/ post'[t] \in {"idle", "signal"}
      BY <2>1, RunOneEffect DEF Types
    <2> QED BY <1>18, <1>u, <1>v, <2>1, <2>2
  <1>19. ASSUME NEW t \in Threads, Loop(t) \/ Relock(t) \/ TaskCleanup(t),
                UNCHANGED <<strandVars, bodyVars>>
         PROVE  StrandKeeps'
    <2>1. CASE post' = post /\ arg' = arg
      BY <1>8, <1>19, <1>v, <2>1
    <2> QED BY <1>18, <1>19, <2>1, Passes
  <1>20. ASSUME Destroy PROVE StrandKeeps'
    <2>1. /\ UNCHANGED <<submitted, upcall, post, arg>>
          /\ over' = over \cup Elements(waiting_queue_) \cup Elements(ready_queue_)
          /\ waiting_queue_' = <<>> /\ ready_queue_' = <<>>
      BY <1>20 DEF Destroy, shutdown, schedVars, bodyVars
    <2>2. \A x : /\ x \in Elements(waiting_queue_) <=> Has(waiting_queue_, x)
                 /\ x \in Elements(ready_queue_) <=> Has(ready_queue_, x)
      BY DEF Elements, Has
    <2>3. \A x : ~Has(<<>>, x)
      BY <1>T, HasQueue
    <2>4. \A x : x \in over' \/ InStrand(x)' <=> x \in over \/ InStrand(x)
      BY <2>1, <2>2, <2>3 DEF InStrand
    <2> QED BY <1>K, <2>1, <2>4 DEF StrandKeeps
  <1>21. ASSUME UNCHANGED vars PROVE StrandKeeps'
    BY <1>8, <1>21 DEF vars, schedVars, strandVars, bodyVars
  <1> QED BY <1>1, <1>2, <1>3, <1>4, <1>6, <1>7, <1>9, <1>10, <1>11, <1>12, <1>13, <1>14, <1>15,
             <1>16, <1>17, <1>19, <1>20, <1>21
          DEF Next, Submit, Posting, Body, RunStep

LEMMA PoolKeepsStep == Types /\ Control /\ PoolKeeps /\ [Next]_vars => PoolKeeps'
  <1> USE Zenon
  <1> SUFFICES ASSUME Types, Control, PoolKeeps, [Next]_vars PROVE PoolKeeps'
    OBVIOUS
  <1>t. (\A t \in Threads : t \in Actors) /\ (\A c \in Clients : c \in Actors)
    BY DEF Actors
  <1>T. /\ op_queue_ \in Seq(Entries) /\ private_op_queue \in [Threads -> Seq(Plain)]
        /\ post \in [Actors -> PostStates] /\ arg \in [Actors -> Ops \cup {NoOp}]
        /\ cur \in [Threads -> Ops \cup {NoOp}]
    BY DEF Types, SchedTypes
  <1>d. /\ \A o \in Plain : o \in Entries /\ o \in Ops /\ o # Task /\ o # NoOp /\ o \notin Handlers
        /\ Task \in Entries
    BY Distinct, PoolAssumption DEF Ops, Entries
  <1>K. \A o : o \in posted <=> o \in ran \/ InPool(o)
    BY DEF PoolKeeps
  <1>e. /\ \A o \in Entries : \A x : Has(Append(op_queue_, o), x) <=> Has(op_queue_, x) \/ x = o
        /\ \A x : ~Has(<<>>, x)
    BY <1>T, HasQueue
  <1>c. \A t \in Threads : \A x : Has(op_queue_ \o private_op_queue[t], x) <=>
                                  Has(op_queue_, x) \/ Has(private_op_queue[t], x)
    BY <1>T, ConcatQueue
  <1>u. ASSUME UNCHANGED <<op_queue_, private_op_queue, posted, ran, cur>>,
               \A a \in Actors : /\ post'[a] = "push" <=> post[a] = "push"
                                 /\ post[a] = "push" => arg'[a] = arg[a]
        PROVE  PoolKeeps'
    <2>1. \A o : InPool(o)' <=> InPool(o)
      BY <1>u DEF InPool
    <2> QED BY <1>u, <2>1 DEF PoolKeeps
  <1>v. UNCHANGED bodyVars => UNCHANGED <<posted, ran>>
    BY DEF bodyVars
  <1>8. ASSUME UNCHANGED <<op_queue_, private_op_queue, posted, ran, cur, post, arg>> PROVE PoolKeeps'
    BY <1>8, <1>u
  <1>s. UNCHANGED schedVars => UNCHANGED <<op_queue_, private_op_queue, cur, post, arg>>
    BY DEF schedVars
  <1>1. ASSUME NEW a \in Actors, NEW o \in Plain, PostPlain(a, o) PROVE PoolKeeps'
    <2>1. /\ post[a] = "idle" /\ post' = [post EXCEPT ![a] = "push"] /\ arg' = [arg EXCEPT ![a] = o]
          /\ UNCHANGED <<op_queue_, private_op_queue, cur, ran>> /\ posted' = posted \cup {o}
      BY <1>1 DEF PostPlain, Posts, MayPost, WorkStarted
    <2>2. /\ post'[a] = "push" /\ arg'[a] = o
          /\ \A b \in Actors \ {a} : post'[b] = post[b] /\ arg'[b] = arg[b]
      BY <1>T, <2>1
    <2>3. \A x : InPool(x)' <=> InPool(x) \/ x = o
      BY <2>1, <2>2 DEF InPool
    <2> QED BY <1>K, <2>1, <2>3 DEF PoolKeeps
  <1>2. ASSUME NEW a \in Actors, NEW h \in Handlers, PostStrand(a, h) PROVE PoolKeeps'
    <2>1. /\ post[a] = "idle" /\ UNCHANGED <<op_queue_, private_op_queue, cur, posted, ran>>
          /\ \/ post' = [post EXCEPT ![a] = "ready"] /\ arg' = [arg EXCEPT ![a] = h]
             \/ post' = post /\ arg' = arg
      BY <1>2 DEF PostStrand, Posts, MayPost, bodyVars
    <2> QED BY <1>T, <1>u, <2>1
  <1>3. ASSUME NEW a \in Actors, PushReady(a) PROVE PoolKeeps'
    BY <1>3, <1>T, <1>u, <1>v DEF PushReady
  <1>4. ASSUME NEW a \in Actors, Schedule(a) PROVE PoolKeeps'
    <2>1. /\ post[a] \in {"make", "again"} /\ UNCHANGED <<op_queue_, private_op_queue, cur, posted, ran>>
          /\ post' = [post EXCEPT ![a] = "push"] /\ arg' = [arg EXCEPT ![a] = arg[a]]
      BY <1>4 DEF Schedule, WorkStarted, bodyVars
    <2>2. arg[a] \notin Plain
      BY <2>1, PoolAssumption DEF Types, ArgOK
    <2>3. /\ arg'[a] = arg[a] /\ post'[a] = "push"
          /\ \A b \in Actors \ {a} : post'[b] = post[b] /\ arg'[b] = arg[b]
      BY <1>T, <2>1
    <2>4. \A x : InPool(x)' <=> InPool(x)
      BY <2>1, <2>2, <2>3 DEF InPool
    <2> QED BY <1>K, <2>1, <2>4 DEF PoolKeeps
  <1>5. ASSUME NEW a \in Actors, PushOp(a), UNCHANGED <<strandVars, bodyVars>> PROVE PoolKeeps'
    <2>1. /\ post[a] = "push" /\ op_queue_' = Append(op_queue_, arg[a])
          /\ UNCHANGED <<private_op_queue, cur, arg, posted, ran>>
          /\ \E s \in {"idle", "signal"} : post' = [post EXCEPT ![a] = s]
      BY <1>5 DEF PushOp, WakeOne, bodyVars
    <2>2. PICK o \in Entries : o = arg[a]
      BY <2>1 DEF Types, ArgOK, Entries
    <2>3. \A x : Has(op_queue_', x) <=> Has(op_queue_, x) \/ x = arg[a]
      BY <1>e, <2>1, <2>2
    <2>4. post'[a] # "push" /\ \A b \in Actors \ {a} : post'[b] = post[b]
      BY <1>T, <2>1
    <2>5. \A x : InPool(x)' <=> InPool(x)
      BY <2>1, <2>3, <2>4 DEF InPool
    <2> QED BY <1>K, <2>1, <2>5 DEF PoolKeeps
  <1>6. ASSUME NEW a \in Actors, Signal(a), UNCHANGED <<strandVars, bodyVars>> PROVE PoolKeeps'
    BY <1>6, <1>T, <1>u, <1>v DEF Signal
  <1>7. ASSUME NEW c \in Clients, ReleaseGuard(c) \/ ClientStops(c),
               UNCHANGED <<strandVars, bodyVars>>
        PROVE  PoolKeeps'
    <2>1. /\ post[c] # "push" /\ UNCHANGED <<op_queue_, private_op_queue, cur, arg>>
          /\ \E s \in {"stop", "gone"} : post' = [post EXCEPT ![c] = s]
      BY <1>7 DEF ReleaseGuard, ClientStops, StopAllThreads
    <2> QED BY <1>7, <1>T, <1>t, <1>u, <1>v, <2>1
  <1>9. ASSUME NEW t \in Threads, NEW o \in Plain, DeferPlain(t, o) PROVE PoolKeeps'
    <2>1. /\ private_op_queue' = [private_op_queue EXCEPT ![t] = Append(private_op_queue[t], o)]
          /\ UNCHANGED <<op_queue_, cur, post, arg, ran>> /\ posted' = posted \cup {o}
      BY <1>9 DEF DeferPlain, Defer
    <2>2. /\ private_op_queue'[t] = Append(private_op_queue[t], o)
          /\ \A u \in Threads \ {t} : private_op_queue'[u] = private_op_queue[u]
      BY <1>T, <2>1
    <2>3. \A x : Has(private_op_queue'[t], x) <=> Has(private_op_queue[t], x) \/ x = o
      <3>1. PICK p \in Seq(Plain) : p = private_op_queue[t]
        BY <1>T
      <3>2. \A x : Has(Append(p, o), x) <=> Has(p, x) \/ x = o
        BY HasQueue
      <3> QED BY <2>2, <3>1, <3>2
    <2>4. \A x : InPool(x)' <=> InPool(x) \/ x = o
      BY <2>1, <2>2, <2>3 DEF InPool
    <2> QED BY <1>K, <2>1, <2>4 DEF PoolKeeps
  <1>10. ASSUME NEW t \in Threads, NEW h \in Handlers, DispatchStrand(t, h) PROVE PoolKeeps'
    BY <1>8, <1>10, <1>s, <1>v DEF DispatchStrand
  <1>11. ASSUME NEW t \in Threads, RunReady(t) \/ NoneReady(t) \/ UpcallEnds(t) PROVE PoolKeeps'
    BY <1>8, <1>11, <1>s DEF RunReady, NoneReady, UpcallEnds
  <1>14. ASSUME NEW t \in Threads, InvokerExits(t) PROVE PoolKeeps'
    <2>1. /\ post[t] = "idle" /\ UNCHANGED <<op_queue_, private_op_queue, cur, posted, ran>>
          /\ \/ post' = [post EXCEPT ![t] = "again"] /\ arg' = [arg EXCEPT ![t] = cur[t]]
             \/ post' = post /\ arg' = arg
      BY <1>14 DEF InvokerExits, Idle
    <2> QED BY <1>T, <1>t, <1>u, <2>1
  <1>15. ASSUME NEW t \in Threads, InvokerEnds(t) \/ PlainEnds(t) PROVE PoolKeeps'
    <2>1. /\ cur' = [cur EXCEPT ![t] = NoOp] /\ UNCHANGED <<op_queue_, private_op_queue, post, arg, posted>>
      BY <1>15 DEF InvokerEnds, PlainEnds, HandlerEnds
    <2>2. cur'[t] = NoOp /\ \A u \in Threads \ {t} : cur'[u] = cur[u]
      BY <1>T, <2>1
    <2>3. \A x : InPool(x) <=> InPool(x)' \/ (x = cur[t] /\ x \in Plain)
      BY <1>d, <2>1, <2>2 DEF InPool
    <2>4. CASE InvokerEnds(t)
      <3>1. cur[t] \in Handlers /\ ran' = ran
        BY <2>4 DEF InvokerEnds, Control, ControlOf
      <3> QED BY <1>K, <1>d, <2>1, <2>3, <3>1 DEF PoolKeeps
    <2>5. CASE PlainEnds(t)
      <3>1. cur[t] \in Plain /\ ran' = ran \cup {cur[t]}
        BY <2>5 DEF PlainEnds
      <3> QED BY <1>K, <2>1, <2>3, <3>1 DEF PoolKeeps
    <2> QED BY <1>15, <2>4, <2>5
  <1>16. ASSUME NEW t \in Threads, RunAgain(t) PROVE PoolKeeps'
    BY <1>8, <1>16 DEF RunAgain, Run
  <1>17. ASSUME NEW t \in Threads, UNCHANGED <<strandVars, bodyVars>>,
                ReactorReturns(t) \/ SpuriousWake(t) \/ ReactorEvent(t) \/ ThreadStops(t)
         PROVE  PoolKeeps'
    BY <1>8, <1>17, <1>v DEF ReactorReturns, SpuriousWake, ReactorEvent, ThreadStops,
                             StopAllThreads
  <1>18. ASSUME NEW t \in Threads, private_op_queue' = [private_op_queue EXCEPT ![t] = <<>>],
                NEW x
         PROVE  Has(op_queue_, x) \/ (\E u \in Threads : Has(private_op_queue[u], x)) <=>
                Has(op_queue_ \o private_op_queue[t], x) \/ (\E u \in Threads : Has(private_op_queue'[u], x))
    <2>1. /\ private_op_queue'[t] = <<>>
          /\ \A u \in Threads \ {t} : private_op_queue'[u] = private_op_queue[u]
      BY <1>18, <1>T
    <2>2. Has(op_queue_ \o private_op_queue[t], x) <=> Has(op_queue_, x) \/ Has(private_op_queue[t], x)
      BY <1>c
    <2>3. ~Has(private_op_queue'[t], x)
      BY <1>e, <2>1
    <2> QED BY <2>1, <2>2, <2>3
  <1>19. ASSUME NEW t \in Threads, Unwind(t), UNCHANGED <<strandVars, bodyVars>> PROVE PoolKeeps'
    <2>1. /\ private_op_queue' = [private_op_queue EXCEPT ![t] = <<>>]
          /\ op_queue_' = op_queue_ \o private_op_queue[t] /\ UNCHANGED <<cur, post, arg, posted, ran>>
      BY <1>19, <1>v DEF Unwind
    <2>2. \A x : InPool(x)' <=> InPool(x)
      BY <1>18, <2>1 DEF InPool
    <2> QED BY <1>K, <2>1, <2>2 DEF PoolKeeps
  <1>20. ASSUME NEW t \in Threads, NEW q, NEW st, NEW ti, Pass(t, q, st, ti),
                UNCHANGED <<strandVars, bodyVars>>
         PROVE  PoolKeeps'
    <2>1. q \in Seq(Entries) /\ post[t] = "idle" /\ cur[t] = NoOp /\ RunOne(t, q, st, ti) /\ arg' = arg
      BY <1>20, PassTypes DEF Pass
    <2>2. /\ \A a \in Actors \ {t} : post'[a] = post[a]
          /\ \A u \in Threads \ {t} : cur'[u] = cur[u]
          /\ post' = post \/ post'[t] \in {"idle", "signal"}
      BY <2>1, RunOneEffect DEF Types
    <2>3. \A x \in Plain : Has(op_queue_, x) \/ (\E u \in Threads : Has(private_op_queue[u], x)) <=>
                           Has(q, x) \/ (\E u \in Threads : Has(private_op_queue'[u], x))
      <3>1. \A x \in Plain : Has(Append(op_queue_, Task), x) <=> Has(op_queue_, x)
        BY <1>d, <1>e
      <3>2. CASE private_op_queue' = private_op_queue /\ (q = op_queue_ \/ q = Append(op_queue_, Task))
        BY <3>1, <3>2
      <3>3. CASE /\ private_op_queue' = [private_op_queue EXCEPT ![t] = <<>>]
                 /\ q = op_queue_ \o private_op_queue[t]
        BY <1>18, <3>3
      <3> QED BY <1>20, <3>2, <3>3 DEF Pass
    <2>4. \A x \in Plain : Has(q, x) <=> Has(op_queue_', x) \/ cur'[t] = x
      <3>1. q # <<>> => \A x : Has(q, x) <=> x = Head(q) \/ Has(Tail(q), x)
        BY <2>1, TailQueue
      <3>2. CASE PassStops(t, q, st, ti)
        BY <1>d, <2>1, <3>2 DEF PassStops
      <3>3. CASE PassTask(t, q, st)
        BY <1>d, <2>1, <3>1, <3>3 DEF PassTask
      <3>4. CASE PassHandler(t, q, st, ti)
        <4>1. cur'[t] = Head(q) /\ op_queue_' = Tail(q) /\ q # <<>>
          BY <1>T, <3>4 DEF PassHandler
        <4> QED BY <3>1, <4>1
      <3>5. CASE PassWaits(t, q, st, ti)
        BY <1>d, <2>1, <3>5 DEF PassWaits
      <3> QED BY <2>1, <3>2, <3>3, <3>4, <3>5, RunOneCases
    <2>5. \A o : (\E a \in Actors : post'[a] = "push" /\ arg'[a] = o) <=>
                 (\E a \in Actors : post[a] = "push" /\ arg[a] = o)
      BY <2>1, <2>2
    <2>6. \A x \in Plain : (\E u \in Threads : cur'[u] = x) <=> cur'[t] = x \/ \E u \in Threads : cur[u] = x
      BY <1>d, <2>1, <2>2
    <2>7. \A x : InPool(x)' <=> InPool(x)
      BY <2>3, <2>4, <2>5, <2>6 DEF InPool
    <2> QED BY <1>20, <1>K, <1>v, <2>7 DEF PoolKeeps
  <1>21. ASSUME NEW t \in Threads, Loop(t) \/ Relock(t) \/ TaskCleanup(t),
                UNCHANGED <<strandVars, bodyVars>>
         PROVE  PoolKeeps'
    <2>1. CASE UNCHANGED <<op_queue_, private_op_queue, cur, post, arg>>
      BY <1>8, <1>21, <1>v, <2>1
    <2> QED BY <1>20, <1>21, <2>1, Passes
  <1>22. ASSUME Destroy PROVE PoolKeeps'
    BY <1>8, <1>22, <1>s, <1>v DEF Destroy
  <1>23. ASSUME UNCHANGED vars PROVE PoolKeeps'
    BY <1>8, <1>23, <1>s, <1>v DEF vars
  <1> QED BY <1>1, <1>2, <1>3, <1>4, <1>5, <1>6, <1>7, <1>9, <1>10, <1>11, <1>14, <1>15,
             <1>16, <1>17, <1>19, <1>21, <1>22, <1>23
          DEF Next, Submit, Posting, Body, RunStep
-----------------------------------------------------------------------------
(***************************************************************************)
(* Stopping.                                                               *)
(***************************************************************************)
\* Nothing stops, or is about to, with work left.
StopInv ==
    stopped_ \/ (\E t \in Threads : pc[t] = "stop") \/ (\E c \in Clients : post[c] = "stop")
      => outstanding_work_ = 0

\* Without outstanding work nothing is left that could start any.
NoWork ==
    /\ Guards = {} /\ ~locked_ /\ Pushed = {} /\ Queued = {} /\ Completed = {}
    /\ \A t \in Threads : private_op_queue[t] = <<>>
    /\ \A a \in Actors : post[a] \in {"idle", "signal", "stop", "gone"}
ZeroInv == outstanding_work_ = 0 => NoWork

LEMMA InitStop == Init => StopInv
  BY Zenon DEF Init, SchedInit, StopInv, Actors

\* No work starts once none is left.
LEMMA ZeroStays ==
    ASSUME Types, Control, ZeroInv, [Next]_vars, outstanding_work_ = 0
    PROVE  outstanding_work_' = 0
  <1> USE Zenon
  <1>1. /\ \A c \in Clients : post[c] \in {"stop", "gone"}
        /\ \A t \in Threads : pc[t] # "handler"
        /\ \A a \in Actors : post[a] \in {"idle", "signal", "stop", "gone"}
    BY DEF ZeroInv, NoWork, Guards, Completed
  <1>p. \A a \in Actors : ~MayPost(a)
    BY <1>1 DEF MayPost, Actors
  <1>2. \A a \in Actors : ~Posts(a) /\ post[a] \notin {"ready", "make", "again", "push"}
    BY <1>1, <1>p DEF Posts
  <1>3. \A a \in Actors : ~Submit(a) /\ ~PushReady(a) /\ ~Schedule(a) /\ ~PushOp(a)
    BY <1>2 DEF Submit, PostPlain, PostStrand, PushReady, Schedule, PushOp
  <1>4. \A c \in Clients : ~ReleaseGuard(c)
    BY <1>1 DEF ReleaseGuard
  <1>5. ASSUME NEW t \in Threads
        PROVE  /\ ~Body(t)
               /\ \A o \in Plain : ~DeferPlain(t, o)
               /\ \A h \in Handlers : ~DispatchStrand(t, h)
    <2>1. /\ ~Idle(t) /\ ~Posts(t) /\ \A b : ~HandlerEnds(t, b)
      BY <1>1, <1>2 DEF Idle, HandlerEnds, Actors
    <2> QED BY <2>1 DEF Body, RunReady, NoneReady, UpcallEnds, InvokerExits, InvokerEnds, PlainEnds,
                        DeferPlain, DispatchStrand
  <1>6. CASE Next
    <2>1. \A t \in Threads : RunStep(t) => outstanding_work_' = outstanding_work_
      BY DEF RunStep, Loop, Relock, ReactorReturns, TaskCleanup, Unwind, ThreadStops, StopAllThreads
    <2>2. \A t \in Threads : RunAgain(t) \/ SpuriousWake(t) \/ ReactorEvent(t) =>
                                outstanding_work_' = outstanding_work_
      BY DEF RunAgain, Run, SpuriousWake, ReactorEvent
    <2>3. \A a \in Actors : Signal(a) => outstanding_work_' = outstanding_work_
      BY DEF Signal
    <2>4. \A c \in Clients : ClientStops(c) => outstanding_work_' = outstanding_work_
      BY DEF ClientStops, StopAllThreads
    <2>5. Destroy => outstanding_work_' = outstanding_work_
      BY DEF Destroy, schedVars
    <2> QED BY <1>3, <1>4, <1>5, <1>6, <2>1, <2>2, <2>3, <2>4, <2>5 DEF Next, Posting
  <1>7. CASE UNCHANGED vars
    BY <1>7 DEF vars, schedVars
  <1> QED BY <1>6, <1>7

LEMMA StopStep == Types /\ Control /\ ZeroInv /\ StopInv /\ [Next]_vars => StopInv'
  <1> USE Zenon
  <1> SUFFICES ASSUME Types, Control, ZeroInv, StopInv, [Next]_vars, outstanding_work_ # 0
               PROVE  StopInv'
    BY ZeroStays DEF StopInv
  <1>T. pc \in [Threads -> PcStates] /\ post \in [Actors -> PostStates]
    BY DEF Types, SchedTypes
  <1>1. /\ ~stopped_ /\ (\A t \in Threads : pc[t] # "stop") /\ (\A c \in Clients : post[c] # "stop")
        /\ \A a \in Actors : post[a] # "stop"
    BY DEF StopInv, Control, ControlOf, Actors
  <1>u. ASSUME stopped_' = stopped_, \A t \in Threads : pc'[t] # "stop",
               \A a \in Actors : post'[a] # "stop"
        PROVE  StopInv'
    BY <1>1, <1>u DEF StopInv, Actors
  <1>v. ASSUME UNCHANGED <<stopped_, pc>>, NEW a \in Actors, NEW s, s # "stop",
               post' = [post EXCEPT ![a] = s]
        PROVE  StopInv'
    BY <1>T, <1>1, <1>u, <1>v
  <1>w. ASSUME UNCHANGED <<stopped_, post>>, NEW t \in Threads, NEW s, s # "stop",
               pc' = [pc EXCEPT ![t] = s]
        PROVE  StopInv'
    BY <1>T, <1>1, <1>u, <1>w
  <1>x. ASSUME UNCHANGED <<stopped_, pc, post>> PROVE StopInv'
    BY <1>1, <1>u, <1>x
  <1>3. ASSUME NEW a \in Actors, Submit(a) PROVE StopInv'
    <2>1. ASSUME NEW o \in Plain, PostPlain(a, o) PROVE StopInv'
      BY <1>v, <2>1 DEF PostPlain, WorkStarted
    <2>2. ASSUME NEW h \in Handlers, PostStrand(a, h) PROVE StopInv'
      BY <1>v, <1>x, <2>2 DEF PostStrand
    <2> QED BY <1>3, <2>1, <2>2 DEF Submit
  <1>4. ASSUME NEW a \in Actors, Posting(a) PROVE StopInv'
    <2>1. CASE PushReady(a) \/ Schedule(a)
      BY <1>v, <2>1 DEF PushReady, Schedule, WorkStarted
    <2>2. CASE PushOp(a)
      BY <1>v, <2>2 DEF PushOp, WakeOne
    <2>3. CASE Signal(a)
      <3>1. /\ stopped_' = stopped_ /\ \A b \in Actors : post'[b] # "stop"
        BY <1>T, <1>1, <2>3 DEF Signal
      <3>2. pc' = pc \/ \E t \in Threads : pc' = [pc EXCEPT ![t] = "relock"]
        BY <2>3 DEF Signal
      <3>3. \A t \in Threads : pc'[t] # "stop"
        BY <1>T, <1>1, <3>2
      <3> QED BY <1>u, <3>1, <3>3
    <2> QED BY <1>4, <2>1, <2>2, <2>3 DEF Posting
  <1>5. ASSUME NEW c \in Clients, ReleaseGuard(c) \/ ClientStops(c) PROVE StopInv'
    <2>1. c \in Actors /\ ReleaseGuard(c)
      BY <1>1, <1>5 DEF ClientStops, Actors
    <2>2. CASE outstanding_work_ = 1
      <3>1. outstanding_work_' = 0
        BY <2>1, <2>2, SMT DEF ReleaseGuard
      <3> QED BY <3>1 DEF StopInv
    <2>3. CASE outstanding_work_ # 1
      BY <1>v, <2>1, <2>3 DEF ReleaseGuard
    <2> QED BY <2>2, <2>3
  <1>6. ASSUME NEW t \in Threads, NEW o \in Plain, DeferPlain(t, o) PROVE StopInv'
    BY <1>x, <1>6 DEF DeferPlain, Defer
  <1>7. ASSUME NEW t \in Threads, NEW h \in Handlers, DispatchStrand(t, h) PROVE StopInv'
    BY <1>x, <1>7 DEF DispatchStrand, schedVars
  <1>8. ASSUME NEW t \in Threads, Body(t) PROVE StopInv'
    <2>1. CASE RunReady(t) \/ NoneReady(t) \/ UpcallEnds(t)
      BY <1>x, <2>1 DEF RunReady, NoneReady, UpcallEnds, schedVars
    <2>2. CASE InvokerExits(t)
      <3>1. UNCHANGED <<stopped_, pc>> /\ t \in Actors
            /\ (post' = post \/ post' = [post EXCEPT ![t] = "again"])
        BY <2>2 DEF InvokerExits, Actors
      <3> QED BY <1>v, <1>x, <3>1
    <2>3. ASSUME NEW b, HandlerEnds(t, b) PROVE StopInv'
      <3>1. CASE outstanding_work_' = 0
        BY <3>1 DEF StopInv
      <3>2. CASE outstanding_work_' # 0
        <4>1. UNCHANGED <<stopped_, post>> /\ \E s \in {"unwind", "loop"} : pc' = [pc EXCEPT ![t] = s]
          BY <2>3, <3>2 DEF HandlerEnds
        <4> QED BY <1>w, <4>1
      <3> QED BY <3>1, <3>2
    <2> QED BY <1>8, <2>1, <2>2, <2>3 DEF Body, InvokerEnds, PlainEnds
  <1>9. ASSUME NEW t \in Threads, RunAgain(t) \/ SpuriousWake(t) \/ ReactorEvent(t) PROVE StopInv'
    <2>1. UNCHANGED <<stopped_, post>> /\ \E s \in {"loop", "relock", "tasked"} : pc' = [pc EXCEPT ![t] = s]
      BY <1>9 DEF RunAgain, Run, SpuriousWake, ReactorEvent
    <2> QED BY <1>w, <2>1
  <1>10. ASSUME NEW t \in Threads, NEW q, NEW st, NEW ti, Pass(t, q, st, ti) PROVE StopInv'
    <2>1. q \in Seq(Entries) /\ RunOne(t, q, st, ti) /\ stopped_' = stopped_
      BY <1>10, PassTypes DEF Pass
    <2>2. /\ \A u \in Threads \ {t} : pc'[u] = pc[u]
          /\ \A a \in Actors \ {t} : post'[a] = post[a]
          /\ pc'[t] # "stop" /\ (post' = post \/ post'[t] \in {"idle", "signal"})
      BY <2>1, RunOneEffect DEF Types
    <2> QED BY <1>1, <1>u, <2>1, <2>2
  <1>11. ASSUME NEW t \in Threads, RunStep(t) PROVE StopInv'
    <2>1. CASE Loop(t) \/ Relock(t) \/ TaskCleanup(t)
      <3>1. CASE UNCHANGED <<stopped_, post>> /\ pc' = [pc EXCEPT ![t] = "wait"]
        BY <1>w, <3>1
      <3> QED BY <1>10, <2>1, <3>1, Passes
    <2>2. CASE ReactorReturns(t) \/ Unwind(t)
      <3>1. UNCHANGED <<stopped_, post>> /\ \E s \in {"out", "tasked"} : pc' = [pc EXCEPT ![t] = s]
        BY <2>2 DEF ReactorReturns, Unwind
      <3> QED BY <1>w, <3>1
    <2>3. ~ThreadStops(t)
      BY <1>1 DEF ThreadStops
    <2> QED BY <1>11, <2>1, <2>2, <2>3 DEF RunStep
  <1>12. CASE Destroy \/ UNCHANGED vars
    BY <1>x, <1>12 DEF Destroy, vars, schedVars
  <1> QED BY <1>3, <1>4, <1>5, <1>6, <1>7, <1>8, <1>9, <1>11, <1>12 DEF Next

\* With no work left, the strand is unlocked and holds nothing, and no plain
\* handler is left anywhere.
LEMMA AllDone ==
    ASSUME Types, Control, ZeroInv, StrandKeeps, PoolKeeps, StopInv
    PROVE  RunsUntilDone
  <1> USE Zenon
  <1> SUFFICES ASSUME stopped_ PROVE Queued = {} /\ submitted = over /\ posted = ran
    BY DEF RunsUntilDone
  <1>1. /\ ~locked_ /\ Queued = {} /\ Completed = {}
        /\ \A t \in Threads : private_op_queue[t] = <<>>
        /\ \A a \in Actors : post[a] \in {"idle", "signal", "stop", "gone"}
    BY DEF StopInv, ZeroInv, NoWork
  <1>3. \A t \in Threads : cur[t] = NoOp /\ upcall[t] = NoOp
    <2>1. \A t \in Threads : pc[t] # "handler"
      BY <1>1 DEF Completed
    <2> QED BY <2>1, PoolAssumption DEF Control, ControlOf
  <1>4. \A x : ~Has(<<>>, x)
    BY HasQueue DEF Types, PoolTypes
  <1>5. \A h : ~InStrand(h)
    BY <1>1, <1>3, <1>4 DEF InStrand, StrandKeeps
  <1>6. \A o : ~InPool(o)
    <2>1. \A o \in Plain : ~Has(op_queue_, o)
      BY <1>1, Distinct DEF Queued, Has, Ops
    <2>2. NoOp \notin Plain
      BY PoolAssumption
    <2> QED BY <1>1, <1>3, <1>4, <2>1, <2>2 DEF InPool
  <1>7. (\A h : h \in submitted <=> h \in over) /\ (\A o : o \in posted <=> o \in ran)
    BY <1>5, <1>6 DEF StrandKeeps, PoolKeeps
  <1> QED BY <1>1, <1>7
-----------------------------------------------------------------------------
(***************************************************************************)
(* Waking.                                                                 *)
(***************************************************************************)
\* The threads that wakeup_event_ counts, and what its state says of them once it
\* is signalled.
Waiting == {t \in Threads : pc[t] \in {"wait", "relock"}}
Seen    == state_ % 2 = 1 => (state_ > 1 <=> Waiting # {})

\* Somebody will look at op_queue_, or nobody sleeps.
Awake ==
    \/ \E t \in Threads : OnItsWay(t)
    \/ /\ state_ % 2 = 1
       /\ \E a \in Actors : post[a] = "signal"
       /\ \E t \in Threads : pc[t] = "wait"
    \/ \A t \in Threads : pc[t] \notin {"wait", "relock", "task"}

\* A thread that blocks in the reactor and counts as interrupted has an edge of
\* the interrupter to come.
TaskWoken == \A t \in Threads : pc[t] = "task" /\ task_interrupted_ => interrupter
WakeInv   == TaskWoken /\ (~stopped_ /\ Queued # {} /\ ~Thrown => Awake)

LEMMA InitWake == Init => WakeInv
  <1> USE Zenon
  <1> SUFFICES ASSUME Init PROVE WakeInv
    OBVIOUS
  <1>1. \A t \in Threads : pc[t] = "out"
    BY DEF Init, SchedInit
  <1> QED BY <1>1 DEF WakeInv, TaskWoken, Awake

\* One call of wake_one_thread_and_unlock is enough.
LEMMA WakeOneWakes ==
    ASSUME Seen', NEW a \in Actors, NEW st \in Int, NEW ti, WakeOne(a, st, ti),
           post \in [Actors -> PostStates], \A u \in Threads : pc'[u] = "task" /\ ti => interrupter
    PROVE  Awake' /\ TaskWoken'
  <1> USE Zenon
  <1>1. SetBit(st) % 2 = 1 /\ SetBit(st) \in Int
    BY SMT DEF SetBit
  <1>2. state_' = SetBit(st)
    BY DEF WakeOne
  <1>3. SetBit(st) > 1 <=> Waiting' # {}
    BY <1>1, <1>2 DEF Seen
  <1>7. CASE SetBit(st) > 1
    <2>1. post'[a] = "signal" /\ task_interrupted_' = ti /\ interrupter' = interrupter
      BY <1>7 DEF WakeOne
    <2>2. PICK t \in Threads : pc'[t] \in {"wait", "relock"}
      BY <1>3, <1>7 DEF Waiting
    <2>3. state_' % 2 = 1
      BY <1>1, <1>2
    <2>4. CASE pc'[t] = "wait"
      <3>1. Awake'
        BY <2>1, <2>3, <2>4 DEF Awake
      <3> QED BY <2>1, <3>1 DEF TaskWoken
    <2>5. CASE pc'[t] = "relock"
      <3>1. Awake'
        BY <2>3, <2>5 DEF Awake, OnItsWay
      <3> QED BY <2>1, <3>1 DEF TaskWoken
    <2> QED BY <2>2, <2>4, <2>5
  <1>8. CASE ~(SetBit(st) > 1)
    <2>1. interrupter' = (interrupter \/ ~ti)
      BY <1>8 DEF WakeOne
    <2>2. \A u \in Threads : pc'[u] = "task" => interrupter'
      BY <2>1
    <2>3. \A u \in Threads : pc'[u] \notin {"wait", "relock"}
      BY <1>3, <1>8 DEF Waiting
    <2> QED BY <2>2, <2>3 DEF Awake, OnItsWay, TaskWoken
  <1> QED BY <1>7, <1>8

LEMMA PassWakes ==
    ASSUME Types, Control, TaskInv, WakeInv, Seen', TaskInv',
           NEW t \in Threads, NEW q, NEW st, NEW ti, Pass(t, q, st, ti)
    PROVE  WakeInv'
  <1> USE Zenon
  <1>1. /\ q \in Seq(Entries) /\ st \in Int /\ RunOne(t, q, st, ti) /\ stopped_' = stopped_
        /\ post \in [Actors -> PostStates] /\ pc \in [Threads -> PcStates] /\ t \in Actors
    BY PassTypes DEF Pass, Types, SchedTypes, Actors
  <1>2. \A u \in Threads \ {t} : pc'[u] = pc[u]
    BY <1>1, RunOneEffect DEF Types
  <1>3. \A u \in Threads \ {t} : pc[u] = "task" /\ ti => interrupter
    <2>1. CASE ti = task_interrupted_
      BY <2>1 DEF WakeInv, TaskWoken
    <2>2. CASE pc[t] = "tasked"
      BY <2>2 DEF TaskInv, InTask
    <2> QED BY <2>1, <2>2 DEF Pass
  <1>e. op_queue_' = <<>> => Queued' = {}
    <2>1. DOMAIN <<>> = {}
      BY SMT
    <2> QED BY <2>1 DEF Queued
  <1>4. CASE PassStops(t, q, st, ti)
    <2>1. pc'[t] = "out" /\ task_interrupted_' = ti /\ interrupter' = interrupter /\ stopped_'
      BY <1>1, <1>4 DEF PassStops
    <2> QED BY <1>2, <1>3, <2>1 DEF WakeInv, TaskWoken
  <1>5. CASE PassTask(t, q, st)
    <2>1. /\ pc'[t] \in {"poll", "task"} /\ task_interrupted_' = (Tail(q) # <<>>)
          /\ op_queue_' = Tail(q) /\ (Tail(q) # <<>> => pc'[t] = "poll")
      BY <1>1, <1>5 DEF PassTask
    <2>2. \A u \in Threads \ {t} : pc'[u] # "task"
      BY <2>1 DEF TaskInv, InTask
    <2>3. TaskWoken'
      BY <2>1, <2>2 DEF TaskWoken
    <2>4. CASE Tail(q) = <<>>
      BY <1>e, <2>1, <2>3, <2>4 DEF WakeInv
    <2>5. CASE Tail(q) # <<>>
      BY <2>1, <2>3, <2>5 DEF WakeInv, Awake, OnItsWay
    <2> QED BY <2>4, <2>5
  <1>6. CASE PassHandler(t, q, st, ti)
    <2>1. pc'[t] = "handler" /\ op_queue_' = Tail(q)
      BY <1>1, <1>6 DEF PassHandler
    <2>2. \A u \in Threads : pc'[u] = "task" /\ ti => interrupter
      BY <1>2, <1>3, <2>1
    <2>3. CASE Tail(q) = <<>>
      <3>1. task_interrupted_' = ti /\ interrupter' = interrupter
        BY <1>6, <2>3 DEF PassHandler
      <3> QED BY <1>e, <2>1, <2>2, <2>3, <3>1 DEF WakeInv, TaskWoken
    <2>4. CASE Tail(q) # <<>>
      <3>1. WakeOne(t, st, ti)
        BY <1>6, <2>4 DEF PassHandler
      <3> QED BY <1>1, <2>2, <3>1, WakeOneWakes DEF WakeInv
    <2> QED BY <2>3, <2>4
  <1>7. CASE PassWaits(t, q, st, ti)
    <2>1. /\ pc'[t] = "wait" /\ task_interrupted_' = ti /\ interrupter' = interrupter
          /\ op_queue_' = <<>>
      BY <1>1, <1>7 DEF PassWaits
    <2> QED BY <1>2, <1>3, <1>e, <2>1 DEF WakeInv, TaskWoken
  <1> QED BY <1>1, <1>4, <1>5, <1>6, <1>7, RunOneCases

LEMMA WakeStep ==
    /\ Types /\ Control /\ Throws /\ ZeroInv /\ TaskInv /\ WakeInv
    /\ [Next]_vars /\ Seen' /\ TaskInv'
    => WakeInv'
  <1> USE Zenon
  <1> SUFFICES ASSUME Types, Control, Throws, ZeroInv, TaskInv, WakeInv,
                      [Next]_vars, Seen', TaskInv'
               PROVE  WakeInv'
    OBVIOUS
  <1>T. /\ pc \in [Threads -> PcStates] /\ post \in [Actors -> PostStates] /\ state_ \in Int
        /\ threw \in [Threads -> BOOLEAN]
    BY DEF Types, SchedTypes, PoolTypes
  <1>t. (\A t \in Threads : t \in Actors) /\ (\A c \in Clients : c \in Actors)
    BY DEF Actors
  <1>W. TaskWoken /\ (~stopped_ /\ Queued # {} /\ ~Thrown => Awake)
    BY DEF WakeInv
  <1>p. ASSUME UNCHANGED <<op_queue_, stopped_, state_, task_interrupted_, interrupter, pc>>,
               \A a \in Actors : post[a] = "signal" => post'[a] = "signal",
               Thrown => Thrown'
        PROVE  WakeInv'
    <2>1. Queued' = Queued /\ TaskWoken'
      BY <1>p, <1>W DEF Queued, TaskWoken
    <2>2. Awake => Awake'
      BY <1>p DEF Awake, OnItsWay
    <2> QED BY <1>p, <1>W, <2>1, <2>2 DEF WakeInv
  <1>q. ASSUME UNCHANGED <<op_queue_, stopped_, state_, task_interrupted_, interrupter, pc, threw>>,
               NEW a \in Actors, post[a] # "signal", NEW s, post' = [post EXCEPT ![a] = s]
        PROVE  WakeInv'
    BY <1>T, <1>p, <1>q DEF Thrown
  <1>x. ASSUME UNCHANGED <<op_queue_, stopped_, state_, task_interrupted_, interrupter, pc, threw, post>>
        PROVE  WakeInv'
    BY <1>p, <1>x DEF Thrown
  \* A thread that goes where it does not sleep, with nothing changed that the
  \* others wait for.
  <1>r. ASSUME NEW t \in Threads, \A u \in Threads \ {t} : pc'[u] = pc[u], pc'[t] # "task",
               UNCHANGED <<op_queue_, stopped_, state_, task_interrupted_, post>>,
               interrupter' = interrupter \/ InTask(t),
               \/ OnItsWay(t)'
               \/ Thrown'
               \/ /\ (Thrown => Thrown') /\ ~OnItsWay(t) /\ interrupter' = interrupter
                  /\ pc[t] # "wait" /\ (pc'[t] \in {"wait", "relock"} => pc[t] = "relock")
        PROVE  WakeInv'
    <2>1. TaskWoken'
      <3>1. CASE interrupter' = interrupter
        BY <1>r, <1>W, <3>1 DEF TaskWoken
      <3>2. CASE InTask(t)
        BY <1>r, <3>2 DEF TaskWoken, TaskInv, InTask
      <3> QED BY <1>r, <3>1, <3>2
    <2>2. CASE OnItsWay(t)' \/ Thrown'
      BY <2>1, <2>2 DEF WakeInv, Awake
    <2>3. CASE /\ (Thrown => Thrown') /\ ~OnItsWay(t) /\ interrupter' = interrupter
               /\ pc[t] # "wait" /\ (pc'[t] \in {"wait", "relock"} => pc[t] = "relock")
      <3>1. Queued' = Queued
        BY <1>r DEF Queued
      <3>2. ASSUME Awake PROVE Awake'
        <4>1. ASSUME NEW u \in Threads, OnItsWay(u) PROVE Awake'
          <5>1. u # t /\ pc'[u] = pc[u]
            BY <1>r, <2>3, <4>1
          <5> QED BY <1>r, <2>3, <4>1, <5>1 DEF Awake, OnItsWay
        <4>2. ASSUME state_ % 2 = 1, NEW a \in Actors, post[a] = "signal",
                     NEW u \in Threads, pc[u] = "wait"
              PROVE  Awake'
          <5>1. pc'[u] = "wait" /\ state_' % 2 = 1 /\ post'[a] = "signal"
            BY <1>r, <2>3, <4>2
          <5> QED BY <5>1 DEF Awake
        <4>3. ASSUME \A u \in Threads : pc[u] \notin {"wait", "relock", "task"} PROVE Awake'
          BY <1>r, <2>3, <4>3 DEF Awake
        <4> QED BY <3>2, <4>1, <4>2, <4>3 DEF Awake
      <3> QED BY <1>r, <1>W, <2>1, <2>3, <3>1, <3>2 DEF WakeInv
    <2> QED BY <1>r, <2>2, <2>3
  <1>1. ASSUME NEW a \in Actors, Submit(a) PROVE WakeInv'
    <2>1. ASSUME NEW o \in Plain, PostPlain(a, o) PROVE WakeInv'
      <3>1. /\ post[a] = "idle" /\ post' = [post EXCEPT ![a] = "push"]
            /\ UNCHANGED <<op_queue_, stopped_, state_, task_interrupted_, interrupter, pc, threw>>
        BY <2>1 DEF PostPlain, Posts, MayPost, WorkStarted
      <3> QED BY <1>q, <3>1
    <2>2. ASSUME NEW h \in Handlers, PostStrand(a, h) PROVE WakeInv'
      <3>1. /\ post[a] = "idle" /\ (post' = post \/ post' = [post EXCEPT ![a] = "ready"])
            /\ UNCHANGED <<op_queue_, stopped_, state_, task_interrupted_, interrupter, pc, threw>>
        BY <2>2 DEF PostStrand, Posts, MayPost, bodyVars
      <3> QED BY <1>q, <1>x, <3>1
    <2> QED BY <1>1, <2>1, <2>2 DEF Submit
  <1>2. ASSUME NEW a \in Actors, PushReady(a) \/ Schedule(a) PROVE WakeInv'
    <2>1. /\ post[a] # "signal" /\ \E s \in {"make", "push"} : post' = [post EXCEPT ![a] = s]
          /\ UNCHANGED <<op_queue_, stopped_, state_, task_interrupted_, interrupter, pc, threw>>
      BY <1>2 DEF PushReady, Schedule, WorkStarted, bodyVars
    <2> QED BY <1>q, <2>1
  <1>3. ASSUME NEW a \in Actors, PushOp(a) PROVE WakeInv'
    <2>1. WakeOne(a, state_, task_interrupted_) /\ pc' = pc
      BY <1>3 DEF PushOp
    <2>2. \A u \in Threads : pc'[u] = "task" /\ task_interrupted_ => interrupter
      BY <1>W, <2>1 DEF TaskWoken
    <2> QED BY <1>T, <2>1, <2>2, WakeOneWakes DEF WakeInv
  <1>4. ASSUME NEW a \in Actors, Signal(a), UNCHANGED <<strandVars, bodyVars>> PROVE WakeInv'
    <2>1. UNCHANGED <<op_queue_, stopped_, state_, task_interrupted_, interrupter, threw>>
      BY <1>4 DEF Signal, bodyVars
    <2>2. Queued' = Queued /\ (Thrown' <=> Thrown)
      BY <2>1 DEF Queued, Thrown
    <2>3. CASE \A t \in Threads : pc[t] # "wait"
      <3>1. pc' = pc
        BY <1>4, <2>3 DEF Signal
      <3>2. TaskWoken' /\ (Awake => Awake')
        BY <1>W, <2>1, <2>3, <3>1 DEF TaskWoken, Awake, OnItsWay
      <3> QED BY <1>W, <2>1, <2>2, <3>2 DEF WakeInv
    <2>4. ASSUME NEW t \in Threads, pc[t] = "wait", pc' = [pc EXCEPT ![t] = "relock"] PROVE WakeInv'
      <3>1. pc'[t] = "relock" /\ \A u \in Threads \ {t} : pc'[u] = pc[u]
        BY <1>T, <2>4
      <3>2. TaskWoken'
        BY <1>W, <2>1, <3>1 DEF TaskWoken
      <3>3. Awake => Awake'
        <4>1. ASSUME NEW u \in Threads, OnItsWay(u) PROVE Awake'
          <5>1. u # t
            BY <2>4, <4>1 DEF OnItsWay
          <5> QED BY <2>1, <3>1, <4>1, <5>1 DEF Awake, OnItsWay
        <4>2. CASE state_ % 2 = 1
          BY <2>1, <3>1, <4>2 DEF Awake, OnItsWay
        <4> QED BY <2>4, <4>1, <4>2 DEF Awake
      <3> QED BY <1>W, <2>1, <2>2, <3>2, <3>3 DEF WakeInv
    <2> QED BY <1>4, <2>3, <2>4 DEF Signal
  <1>5. ASSUME NEW c \in Clients, ReleaseGuard(c), UNCHANGED <<strandVars, bodyVars>> PROVE WakeInv'
    <2>1. /\ post[c] # "signal" /\ \E s \in {"stop", "gone"} : post' = [post EXCEPT ![c] = s]
          /\ UNCHANGED <<op_queue_, stopped_, state_, task_interrupted_, interrupter, pc, threw>>
      BY <1>5 DEF ReleaseGuard, bodyVars
    <2> QED BY <1>q, <1>t, <2>1
  <1>6. ASSUME NEW to, StopAllThreads(to), \A t \in Threads : to[t] = "task" => pc[t] = "task"
        PROVE  WakeInv'
    <2>1. /\ stopped_' /\ interrupter' = (interrupter \/ ~task_interrupted_)
          /\ \A t \in Threads : pc'[t] = "task" => pc[t] = "task"
      BY <1>6 DEF StopAllThreads
    <2> QED BY <1>W, <2>1 DEF WakeInv, TaskWoken
  <1>7. ASSUME NEW c \in Clients, ClientStops(c) PROVE WakeInv'
    BY <1>6, <1>7 DEF ClientStops
  <1>8. ASSUME NEW t \in Threads, ThreadStops(t) PROVE WakeInv'
    <2>1. StopAllThreads([pc EXCEPT ![t] = "out"])
      BY <1>8 DEF ThreadStops
    <2>2. \A u \in Threads : [pc EXCEPT ![t] = "out"][u] = "task" => pc[u] = "task"
      BY <1>T
    <2> QED BY <1>6, <2>1, <2>2
  <1>9. ASSUME NEW t \in Threads, NEW o \in Plain, DeferPlain(t, o) PROVE WakeInv'
    BY <1>x, <1>9 DEF DeferPlain, Defer
  <1>10. ASSUME NEW t \in Threads, NEW h \in Handlers, DispatchStrand(t, h) PROVE WakeInv'
    BY <1>x, <1>10 DEF DispatchStrand, schedVars, bodyVars
  <1>11. ASSUME NEW t \in Threads, RunReady(t) \/ NoneReady(t) PROVE WakeInv'
    BY <1>x, <1>11 DEF RunReady, NoneReady, schedVars
  <1>12. ASSUME NEW t \in Threads, UpcallEnds(t) PROVE WakeInv'
    <2>1. /\ UNCHANGED <<op_queue_, stopped_, state_, task_interrupted_, interrupter, pc, post>>
          /\ \E b : threw' = [threw EXCEPT ![t] = b]
          /\ upcall[t] # NoOp /\ pc[t] = "handler"
      BY <1>12 DEF UpcallEnds, schedVars, Idle
    <2>2. ~threw[t]
      BY <2>1 DEF Control, ControlOf, Throws
    <2>3. Thrown => Thrown'
      BY <1>T, <2>1, <2>2 DEF Thrown
    <2> QED BY <1>p, <2>1, <2>3
  <1>13. ASSUME NEW t \in Threads, InvokerExits(t) PROVE WakeInv'
    <2>1. /\ post[t] = "idle" /\ (post' = post \/ post' = [post EXCEPT ![t] = "again"])
          /\ UNCHANGED <<op_queue_, stopped_, state_, task_interrupted_, interrupter, pc, threw>>
      BY <1>13 DEF InvokerExits, Idle
    <2> QED BY <1>q, <1>t, <1>x, <2>1
  <1>14. ASSUME NEW t \in Threads, NEW b, HandlerEnds(t, b), Thrown => Thrown', b => Thrown'
         PROVE  WakeInv'
    <2>1. /\ pc[t] = "handler"
          /\ UNCHANGED <<op_queue_, stopped_, state_, task_interrupted_, interrupter, post>>
          /\ \E s \in {"stop", "unwind", "loop"} : pc' = [pc EXCEPT ![t] = s] /\ (s = "unwind" => b)
      BY <1>14 DEF HandlerEnds
    <2>2. /\ \A u \in Threads \ {t} : pc'[u] = pc[u]
          /\ pc'[t] \in {"stop", "unwind", "loop"} /\ (pc'[t] = "unwind" => b)
      BY <1>T, <2>1
    <2>3. OnItsWay(t)' \/ Thrown' \/ pc'[t] = "stop"
      BY <1>14, <2>2 DEF OnItsWay
    <2>4. ~OnItsWay(t)
      BY <2>1 DEF OnItsWay
    <2>5. interrupter' = interrupter \/ InTask(t)
      BY <2>1
    <2> QED BY <1>14, <1>r, <2>1, <2>2, <2>3, <2>4, <2>5
  <1>15. ASSUME NEW t \in Threads, InvokerEnds(t) PROVE WakeInv'
    BY <1>14, <1>15 DEF InvokerEnds, Thrown
  <1>16. ASSUME NEW t \in Threads, PlainEnds(t) PROVE WakeInv'
    <2>1. PICK b \in BOOLEAN : HandlerEnds(t, b) /\ threw' = [threw EXCEPT ![t] = b]
      BY <1>16 DEF PlainEnds
    <2>2. ~threw[t]
      <3>1. pc[t] = "handler" /\ cur[t] \notin Handlers
        BY <1>16, <2>1, PoolAssumption DEF PlainEnds, HandlerEnds
      <3> QED BY <3>1 DEF Control, ControlOf, Throws
    <2>3. (Thrown => Thrown') /\ (b => Thrown')
      BY <1>T, <2>1, <2>2 DEF Thrown
    <2> QED BY <1>14, <2>1, <2>3
  <1>17. ASSUME NEW t \in Threads, RunAgain(t) PROVE WakeInv'
    <2>1. /\ pc[t] = "out" /\ ~stopped_
          /\ pc' = [pc EXCEPT ![t] = IF outstanding_work_ = 0 THEN "stop" ELSE "loop"]
          /\ UNCHANGED <<op_queue_, stopped_, state_, task_interrupted_, interrupter, post>>
      BY <1>17 DEF RunAgain, Run
    <2>2. /\ outstanding_work_ = 0 => pc'[t] = "stop"
          /\ outstanding_work_ # 0 => pc'[t] = "loop"
          /\ \A u \in Threads \ {t} : pc'[u] = pc[u]
      BY <1>T, <2>1
    <2>3. CASE outstanding_work_ = 0
      <3>1. Queued = {}
        BY <2>3 DEF ZeroInv, NoWork
      <3>2. Queued' = {}
        BY <2>1, <3>1 DEF Queued
      <3>3. TaskWoken'
        BY <1>W, <2>1, <2>2, <2>3 DEF TaskWoken
      <3> QED BY <3>2, <3>3 DEF WakeInv
    <2>4. CASE outstanding_work_ # 0
      <3>1. OnItsWay(t)' /\ pc'[t] # "task" /\ (interrupter' = interrupter \/ InTask(t))
        BY <2>1, <2>2, <2>4 DEF OnItsWay
      <3> QED BY <1>r, <2>1, <2>2, <3>1
    <2> QED BY <2>3, <2>4
  <1>18. ASSUME NEW t \in Threads, ReactorReturns(t) \/ ReactorEvent(t) PROVE WakeInv'
    <2>1. /\ pc' = [pc EXCEPT ![t] = "tasked"] /\ InTask(t)
          /\ UNCHANGED <<op_queue_, stopped_, state_, task_interrupted_, post>>
      BY <1>18 DEF ReactorReturns, ReactorEvent, InTask
    <2>2. pc'[t] = "tasked" /\ \A u \in Threads \ {t} : pc'[u] = pc[u]
      BY <1>T, <2>1
    <2>3. OnItsWay(t)' /\ pc'[t] # "task"
      BY <2>2 DEF OnItsWay
    <2> QED BY <1>r, <2>1, <2>2, <2>3
  <1>19. ASSUME NEW t \in Threads, SpuriousWake(t), UNCHANGED <<strandVars, bodyVars>> PROVE WakeInv'
    <2>1. /\ pc[t] = "wait" /\ pc' = [pc EXCEPT ![t] = "relock"]
          /\ UNCHANGED <<op_queue_, stopped_, state_, task_interrupted_, interrupter, post, threw>>
      BY <1>19 DEF SpuriousWake, bodyVars
    <2>2. pc'[t] = "relock" /\ \A u \in Threads \ {t} : pc'[u] = pc[u]
      BY <1>T, <2>1
    <2>3. TaskWoken' /\ Queued' = Queued /\ (Thrown' <=> Thrown)
      BY <1>W, <2>1, <2>2 DEF TaskWoken, Queued, Thrown
    <2>4. Awake => Awake'
      <3>1. ASSUME NEW u \in Threads, OnItsWay(u) PROVE Awake'
        <4>1. u # t
          BY <2>1, <3>1 DEF OnItsWay
        <4> QED BY <2>1, <2>2, <3>1, <4>1 DEF Awake, OnItsWay
      <3>2. CASE state_ % 2 = 1
        BY <2>1, <2>2, <3>2 DEF Awake, OnItsWay
      <3> QED BY <2>1, <3>1, <3>2 DEF Awake
    <2> QED BY <1>W, <2>1, <2>3, <2>4 DEF WakeInv
  <1>20. ASSUME NEW t \in Threads, Unwind(t), UNCHANGED <<strandVars, bodyVars>> PROVE WakeInv'
    <2>1. /\ pc[t] = "unwind" /\ pc' = [pc EXCEPT ![t] = "out"]
          /\ UNCHANGED <<task_interrupted_, interrupter, threw>>
      BY <1>20 DEF Unwind, bodyVars
    <2>2. Thrown'
      BY <2>1 DEF Throws, Thrown
    <2>3. TaskWoken'
      BY <1>T, <1>W, <2>1 DEF TaskWoken
    <2> QED BY <2>2, <2>3 DEF WakeInv
  <1>21. ASSUME NEW t \in Threads, Loop(t) \/ Relock(t) \/ TaskCleanup(t),
                UNCHANGED <<strandVars, bodyVars>>
         PROVE  WakeInv'
    <2>1. ASSUME pc[t] = "relock", pc' = [pc EXCEPT ![t] = "wait"], state_ % 2 = 0,
                 UNCHANGED <<op_queue_, stopped_, state_, task_interrupted_, interrupter, post>>
          PROVE  WakeInv'
      <3>1. pc'[t] = "wait" /\ \A u \in Threads \ {t} : pc'[u] = pc[u]
        BY <1>T, <2>1
      <3>2. ~OnItsWay(t)
        BY <2>1, SMT DEF OnItsWay
      <3>3. (Thrown => Thrown') /\ (interrupter' = interrupter \/ InTask(t))
        BY <1>21, <2>1 DEF Thrown, bodyVars
      <3> QED BY <1>r, <2>1, <3>1, <3>2, <3>3
    <2> QED BY <1>21, <2>1, Passes, PassWakes
  <1>22. ASSUME Destroy PROVE WakeInv'
    BY <1>x, <1>22 DEF Destroy, schedVars, bodyVars
  <1>23. ASSUME UNCHANGED vars PROVE WakeInv'
    BY <1>x, <1>23 DEF vars, schedVars, bodyVars
  <1> QED BY <1>1, <1>2, <1>3, <1>4, <1>5, <1>7, <1>8, <1>9, <1>10, <1>11, <1>12, <1>13, <1>15,
             <1>16, <1>17, <1>18, <1>19, <1>20, <1>21, <1>22, <1>23
          DEF Next, Posting, Body, RunStep

LEMMA AwakeEnough == WakeInv => NoLostWakeup
  BY Zenon DEF WakeInv, Awake, NoLostWakeup, Asleep
-----------------------------------------------------------------------------
(***************************************************************************)
(* The pool does what AsioStrand does.  InvOf and UpOf are what the        *)
(* strand's inv and up stand for.                                          *)
(***************************************************************************)
InvOf == [i \in Handlers |-> InvokerAt(i)]
UpOf  == [i \in Handlers |-> UpcallOf(i)]

Readies(i) == \E a \in Actors : post[a] = "ready" /\ arg[a] = i
Holds(i)   == \E a \in Actors : post[a] \in {"make", "again", "push"} /\ arg[a] = i
Within(i)  == \E t \in Threads : At(t, i, "run")
Leaves(i)  == \E t \in Threads : At(t, i, "exit")

\* An invoker is where the one actor, queue or thread that has it says it is.
MappedAt(i) ==
    /\ Readies(i) => InvokerAt(i) = "ready"
    /\ Holds(i) => InvokerAt(i) = "held"
    /\ Has(op_queue_, i) => InvokerAt(i) = "queued"
    /\ \A t \in Threads : At(t, i, "run") => InvokerAt(i) = "run" /\ UpcallOf(i) = upcall[t]
    /\ Leaves(i) => InvokerAt(i) = "exit"
    /\ ~Within(i) => UpcallOf(i) = NoOp
    /\ ~(Readies(i) \/ Holds(i) \/ Has(op_queue_, i) \/ Within(i) \/ Leaves(i)) =>
          InvokerAt(i) = "none"
Mapped == \A i \in Handlers : MappedAt(i)

LEMMA MapRight == PlaceInv => Mapped
  <1> USE Zenon
  <1> SUFFICES ASSUME PlaceInv, NEW i \in Handlers PROVE MappedAt(i)
    BY DEF Mapped
  <1>1. InvokerAt(i) = IF Readies(i) THEN "ready"
                       ELSE IF Holds(i) THEN "held"
                       ELSE IF Has(op_queue_, i) THEN "queued"
                       ELSE IF Within(i) THEN "run"
                       ELSE IF Leaves(i) THEN "exit" ELSE "none"
    BY DEF InvokerAt, Readies, Holds, Has, Within, Leaves
  <1>2. \A t \in Threads : (At(t, i, "run") \/ At(t, i, "exit")) => Runs(t)
    BY SMT DEF At, Runs
  <1>3. \A a \in Actors : /\ post[a] = "ready" /\ arg[a] = i => Held(a)
                          /\ post[a] \in {"make", "again", "push"} /\ arg[a] = i => Held(a)
    BY SMT DEF Held
  <1>4. Holds(i) => ~Readies(i)
    <2> SUFFICES ASSUME Holds(i), Readies(i) PROVE FALSE
      OBVIOUS
    <2>1. PICK a \in Actors : post[a] \in {"make", "again", "push"} /\ arg[a] = i
      BY DEF Holds
    <2>2. PICK b \in Actors : post[b] = "ready" /\ arg[b] = i
      BY DEF Readies
    <2>3. a = b
      BY <1>3, <2>1, <2>2 DEF PlaceInv, OnePlace
    <2> QED BY <2>1, <2>2, <2>3
  <1>5. Has(op_queue_, i) => ~Readies(i) /\ ~Holds(i)
    BY <1>3 DEF PlaceInv, OnePlace, HasInvoker, Readies, Holds
  <1>6. Within(i) \/ Leaves(i) => ~Readies(i) /\ ~Holds(i) /\ ~Has(op_queue_, i)
    BY <1>2, <1>3 DEF PlaceInv, OnePlace, HasInvoker, Readies, Holds, Within, Leaves
  <1>7. \A t, u \in Threads : (At(t, i, "run") \/ At(t, i, "exit"))
                              /\ (At(u, i, "run") \/ At(u, i, "exit")) => t = u
    BY <1>2 DEF PlaceInv, OnePlace
  <1>8. Leaves(i) => ~Within(i)
    BY <1>7 DEF Leaves, Within, At
  <1>9. ASSUME NEW t \in Threads, At(t, i, "run")
        PROVE  InvokerAt(i) = "run" /\ UpcallOf(i) = upcall[t]
    <2>1. Within(i)
      BY <1>9 DEF Within
    <2>2. (CHOOSE u \in Threads : At(u, i, "run")) = t
      BY <1>7, <1>9
    <2>3. UpcallOf(i) = upcall[CHOOSE u \in Threads : At(u, i, "run")]
      BY <2>1 DEF UpcallOf, Within
    <2> QED BY <1>1, <1>6, <2>1, <2>2, <2>3
  <1>10. ~Within(i) => UpcallOf(i) = NoOp
    BY DEF UpcallOf, Within
  <1> QED BY <1>1, <1>4, <1>5, <1>6, <1>8, <1>9, <1>10 DEF MappedAt

LEMMA MapRightNext == PlaceInv' => Mapped'
  BY MapRight, PTL

\* Nothing happens to the invoker i.
StillPosted(i) == (Readies(i)' <=> Readies(i)) /\ (Holds(i)' <=> Holds(i))
StillAt(i) ==
    \A t \in Threads : /\ At(t, i, "run")' <=> At(t, i, "run")
                       /\ At(t, i, "exit")' <=> At(t, i, "exit")
                       /\ At(t, i, "run") => upcall'[t] = upcall[t]
Still(i) == StillPosted(i) /\ StillAt(i) /\ (Has(op_queue_, i)' <=> Has(op_queue_, i))

LEMMA StillMapped ==
    ASSUME Mapped, Mapped', NEW i \in Handlers, Still(i)
    PROVE  InvokerAt(i)' = InvokerAt(i) /\ UpcallOf(i)' = UpcallOf(i)
  <1> USE Zenon
  <1>1. MappedAt(i) /\ MappedAt(i)'
    BY DEF Mapped
  <1>2. (Within(i)' <=> Within(i)) /\ (Leaves(i)' <=> Leaves(i))
    BY DEF Still, StillAt, Within, Leaves
  <1>3. CASE Within(i)
    <2>1. PICK t \in Threads : At(t, i, "run")
      BY <1>3 DEF Within
    <2>2. At(t, i, "run")' /\ upcall'[t] = upcall[t]
      BY <2>1 DEF Still, StillAt
    <2>3. InvokerAt(i) = "run" /\ UpcallOf(i) = upcall[t]
      BY <1>1, <2>1 DEF MappedAt
    <2>4. InvokerAt(i)' = "run" /\ UpcallOf(i)' = upcall'[t]
      BY <1>1, <2>2 DEF MappedAt
    <2> QED BY <2>2, <2>3, <2>4
  <1>4. CASE ~Within(i)
    BY <1>1, <1>2, <1>4 DEF MappedAt, Still, StillPosted
  <1> QED BY <1>3, <1>4

LEMMA NoneMoves ==
    ASSUME Mapped, Mapped', \A i \in Handlers : Still(i)
    PROVE  InvOf' = InvOf /\ UpOf' = UpOf
  BY StillMapped, Zenon DEF InvOf, UpOf

LEMMA OneMoves ==
    ASSUME Mapped, Mapped', NEW i \in Handlers, \A j \in Handlers \ {i} : Still(j)
    PROVE  /\ InvOf' = [InvOf EXCEPT ![i] = InvokerAt(i)']
           /\ UpOf' = [UpOf EXCEPT ![i] = UpcallOf(i)']
           /\ InvOf[i] = InvokerAt(i) /\ UpOf[i] = UpcallOf(i)
           /\ InvokerAt(i)' = InvokerAt(i) => InvOf' = InvOf
           /\ UpcallOf(i)' = UpcallOf(i) => UpOf' = UpOf
  <1> USE Zenon
  <1>1. \A j \in Handlers \ {i} : InvokerAt(j)' = InvokerAt(j) /\ UpcallOf(j)' = UpcallOf(j)
    BY StillMapped
  <1>2. \A j \in Handlers : InvOf[j] = InvokerAt(j) /\ UpOf[j] = UpcallOf(j)
    BY DEF InvOf, UpOf
  <1>3. /\ InvOf' = [j \in Handlers |-> InvokerAt(j)'] /\ UpOf' = [j \in Handlers |-> UpcallOf(j)']
        /\ DOMAIN InvOf = Handlers /\ DOMAIN UpOf = Handlers
    BY DEF InvOf, UpOf
  <1>4. InvOf' = [InvOf EXCEPT ![i] = InvokerAt(i)']
    BY <1>1, <1>2, <1>3
  <1>5. UpOf' = [UpOf EXCEPT ![i] = UpcallOf(i)']
    BY <1>1, <1>2, <1>3
  <1>6. InvokerAt(i)' = InvokerAt(i) => InvOf' = InvOf
    BY <1>1, <1>3 DEF InvOf
  <1>7. UpcallOf(i)' = UpcallOf(i) => UpOf' = UpOf
    BY <1>1, <1>3 DEF UpOf
  <1> QED BY <1>2, <1>4, <1>5, <1>6, <1>7

\* Only an actor that has the invoker i, before or after, does something to it.
LEMMA PostedStill ==
    ASSUME NEW i, NEW a \in Actors,
           \A b \in Actors \ {a} : post'[b] = post[b] /\ arg'[b] = arg[b],
           ~(post[a] \in {"ready", "make", "again", "push"} /\ arg[a] = i),
           ~(post'[a] \in {"ready", "make", "again", "push"} /\ arg'[a] = i)
    PROVE  StillPosted(i)
  BY Zenon DEF StillPosted, Readies, Holds

\* The steps of AsioStrand, on InvOf and UpOf.
DoesEnqueue(i) ==
    /\ i \notin submitted /\ enqueue(i) /\ UpOf' = UpOf
    /\ InvOf' = IF first THEN [InvOf EXCEPT ![i] = "ready"] ELSE InvOf
DoesPushReady(i) ==
    /\ InvOf[i] = "ready" /\ ready_push(i)
    /\ InvOf' = [InvOf EXCEPT ![i] = "held"] /\ UpOf' = UpOf
DoesSchedule(i) ==
    /\ InvOf[i] = "held" /\ UNCHANGED strandVars
    /\ InvOf' = [InvOf EXCEPT ![i] = "queued"] /\ UpOf' = UpOf
DoesInvoke(i) ==
    /\ InvOf[i] = "queued" /\ ~shutdown_ /\ UNCHANGED strandVars
    /\ InvOf' = [InvOf EXCEPT ![i] = "run"] /\ UpOf' = UpOf
DoesRunReady(i) ==
    /\ InvOf[i] = "run" /\ UpOf[i] = NoOp /\ ready_queue_ # <<>> /\ ready_pop
    /\ UpOf' = [UpOf EXCEPT ![i] = Head(ready_queue_)] /\ InvOf' = InvOf
DoesNoneReady(i) ==
    /\ InvOf[i] = "run" /\ UpOf[i] = NoOp /\ ready_queue_ = <<>> /\ UNCHANGED strandVars
    /\ InvOf' = [InvOf EXCEPT ![i] = "exit"] /\ UpOf' = UpOf
DoesComplete(i) ==
    /\ UpOf[i] # NoOp /\ complete(UpOf[i]) /\ UpOf' = [UpOf EXCEPT ![i] = NoOp]
    /\ \E to \in {"run", "exit"} : InvOf' = [InvOf EXCEPT ![i] = to]
DoesExit(i) ==
    /\ InvOf[i] = "exit" /\ push_waiting_to_ready /\ UpOf' = UpOf
    /\ InvOf' = [InvOf EXCEPT ![i] = IF locked_' THEN "held" ELSE "none"]
DoesDispatch(i, h) ==
    /\ UpOf[i] # NoOp /\ h \notin submitted /\ dispatch(h)
    /\ InvOf' = InvOf /\ UpOf' = UpOf
DoesShutdown ==
    /\ ~shutdown_ /\ shutdown /\ InvOf' = InvOf /\ UpOf' = UpOf
    /\ \A i \in Handlers : InvOf[i] \in {"none", "queued"}

StrandMoves ==
    \/ \E i \in Handlers :
          \/ DoesEnqueue(i) \/ DoesPushReady(i) \/ DoesSchedule(i) \/ DoesInvoke(i)
          \/ DoesRunReady(i) \/ DoesNoneReady(i) \/ DoesComplete(i) \/ DoesExit(i)
          \/ \E h \in Handlers : DoesDispatch(i, h)
    \/ DoesShutdown
StrandRests == UNCHANGED strandVars /\ InvOf' = InvOf /\ UpOf' = UpOf

LEMMA Moves ==
    ASSUME NEW i \in Handlers,
           \/ DoesEnqueue(i) \/ DoesPushReady(i) \/ DoesSchedule(i) \/ DoesInvoke(i)
           \/ DoesRunReady(i) \/ DoesNoneReady(i) \/ DoesComplete(i) \/ DoesExit(i)
           \/ \E h \in Handlers : DoesDispatch(i, h)
    PROVE  StrandMoves
  BY Zenon DEF StrandMoves

\* Every step of the pool is one of these, or does nothing to the strand.
LEMMA StrandDoes ==
    Types /\ Control /\ Closed /\ PlaceInv /\ PlaceInv' /\ [Next]_vars => StrandMoves \/ StrandRests
  <1> USE Zenon
  <1> SUFFICES ASSUME Types, Control, Closed, PlaceInv, PlaceInv', [Next]_vars
               PROVE  StrandMoves \/ StrandRests
    OBVIOUS
  <1> USE DEF Types
  <1>t. (\A t \in Threads : t \in Actors) /\ (\A c \in Clients : c \in Actors)
    BY DEF Actors
  <1>q. op_queue_ \in Seq(Entries) /\ private_op_queue \in [Threads -> Seq(Plain)]
    BY DEF SchedTypes
  <1>m. Mapped /\ Mapped'
    BY MapRight, MapRightNext
  <1>i. ASSUME NEW i \in Handlers PROVE MappedAt(i) /\ MappedAt(i)'
    BY <1>m DEF Mapped
  \* An invoker that is not in run_ready_handlers is in no upcall.
  <1>n. ASSUME NEW i \in Handlers
        PROVE  /\ InvokerAt(i) # "run" => UpcallOf(i) = NoOp
               /\ InvokerAt(i)' # "run" => UpcallOf(i)' = NoOp
    BY <1>i DEF MappedAt, Within
  <1>u. ASSUME UNCHANGED strandVars, \A i \in Handlers : Still(i) PROVE StrandRests
    BY <1>m, <1>u, NoneMoves DEF StrandRests
  <1>v. ASSUME op_queue_' = op_queue_ PROVE \A i : Has(op_queue_, i)' <=> Has(op_queue_, i)
    BY <1>v
  <1>w. ASSUME UNCHANGED <<post, arg>> PROVE \A i : StillPosted(i)
    BY <1>w DEF StillPosted, Readies, Holds
  <1>x. ASSUME UNCHANGED <<cur, stage, upcall>> PROVE \A i : StillAt(i)
    BY <1>x DEF StillAt, At
  <1>z. UNCHANGED bodyVars => UNCHANGED <<stage, upcall>>
    BY DEF bodyVars
  <1>1. ASSUME NEW a \in Actors, NEW o \in Plain, PostPlain(a, o) PROVE StrandRests
    <2>1. /\ post[a] = "idle" /\ post' = [post EXCEPT ![a] = "push"]
          /\ arg' = [arg EXCEPT ![a] = o] /\ UNCHANGED <<op_queue_, cur, stage, upcall>>
          /\ UNCHANGED strandVars
      BY <1>1 DEF PostPlain, Posts, MayPost, WorkStarted
    <2>2. ASSUME NEW i \in Handlers PROVE StillPosted(i)
      <3>1. arg'[a] = o /\ \A b \in Actors \ {a} : post'[b] = post[b] /\ arg'[b] = arg[b]
        BY <2>1 DEF SchedTypes
      <3>2. o # i
        BY Distinct
      <3> QED BY <2>1, <3>1, <3>2, PostedStill
    <2> QED BY <1>u, <1>v, <1>x, <2>1, <2>2 DEF Still
  <1>2. ASSUME NEW a \in Actors, NEW h \in Handlers, PostStrand(a, h) PROVE StrandMoves
    <2>1. /\ UNCHANGED <<op_queue_, cur, stage, upcall>> /\ post[a] = "idle"
          /\ h \notin submitted /\ enqueue(h)
      BY <1>2, <1>z DEF PostStrand, Posts, MayPost
    <2>2. CASE first
      <3>1. post' = [post EXCEPT ![a] = "ready"] /\ arg' = [arg EXCEPT ![a] = h]
        BY <1>2, <2>2 DEF PostStrand
      <3>2. /\ post'[a] = "ready" /\ arg'[a] = h
            /\ \A b \in Actors \ {a} : post'[b] = post[b] /\ arg'[b] = arg[b]
        BY <3>1 DEF SchedTypes
      <3>3. \A j \in Handlers \ {h} : Still(j)
        BY <1>v, <1>x, <2>1, <3>2, PostedStill DEF Still
      <3>4. InvokerAt(h)' = "ready"
        BY <1>i, <3>2 DEF MappedAt, Readies
      <3>5. UpcallOf(h)' = UpcallOf(h)
        <4>1. UpcallOf(h)' = NoOp /\ ~Within(h)'
          BY <1>i, <1>n, <3>4 DEF MappedAt, Within
        <4>2. ~Within(h)
          BY <1>x, <2>1, <4>1 DEF StillAt, Within
        <4> QED BY <1>i, <4>1, <4>2 DEF MappedAt
      <3> QED BY <1>m, <2>1, <2>2, <3>3, <3>4, <3>5, OneMoves, Moves DEF DoesEnqueue
    <2>3. CASE ~first
      <3>1. post' = post /\ arg' = arg
        BY <1>2, <2>3 DEF PostStrand
      <3>2. \A j \in Handlers : Still(j)
        BY <1>v, <1>w, <1>x, <2>1, <3>1 DEF Still
      <3> QED BY <1>m, <2>1, <2>3, <3>2, NoneMoves, Moves DEF DoesEnqueue
    <2> QED BY <2>2, <2>3
  <1>3. ASSUME NEW a \in Actors, PushReady(a) PROVE StrandMoves
    <2>1. /\ UNCHANGED <<op_queue_, cur, arg, stage, upcall>> /\ ready_push(arg[a])
          /\ post[a] = "ready" /\ post' = [post EXCEPT ![a] = "make"]
      BY <1>3, <1>z DEF PushReady
    <2>2. PICK i \in Handlers : i = arg[a]
      BY <2>1 DEF ArgOK
    <2>3. post'[a] = "make" /\ \A b \in Actors \ {a} : post'[b] = post[b]
      BY <2>1 DEF SchedTypes
    <2>4. \A j \in Handlers \ {i} : Still(j)
      BY <1>v, <1>x, <2>1, <2>2, <2>3, PostedStill DEF Still
    <2>5. InvokerAt(i) = "ready" /\ InvokerAt(i)' = "held"
      BY <1>i, <2>1, <2>2, <2>3 DEF MappedAt, Readies, Holds
    <2>6. UpcallOf(i)' = UpcallOf(i)
      BY <1>n, <2>5
    <2> QED BY <1>m, <2>1, <2>2, <2>4, <2>5, <2>6, OneMoves, Moves DEF DoesPushReady
  <1>4. ASSUME NEW a \in Actors, Schedule(a) PROVE StrandRests
    <2>1. /\ UNCHANGED <<op_queue_, cur, stage, upcall>> /\ UNCHANGED strandVars
          /\ post[a] \in {"make", "again"} /\ post' = [post EXCEPT ![a] = "push"]
          /\ arg' = [arg EXCEPT ![a] = arg[a]]
      BY <1>4, <1>z DEF Schedule, WorkStarted
    <2>2. post'[a] = "push" /\ arg' = arg /\ \A b \in Actors \ {a} : post'[b] = post[b]
      BY <2>1 DEF SchedTypes
    <2>3. \A i : StillPosted(i)
      BY <2>1, <2>2 DEF StillPosted, Readies, Holds
    <2> QED BY <1>u, <1>v, <1>x, <2>1, <2>3 DEF Still
  <1>5. ASSUME NEW a \in Actors, PushOp(a), UNCHANGED <<strandVars, bodyVars>>
        PROVE  StrandMoves \/ StrandRests
    <2>1. /\ op_queue_' = Append(op_queue_, arg[a]) /\ UNCHANGED <<cur, arg, stage, upcall>>
          /\ post[a] = "push" /\ arg[a] \in Ops /\ UNCHANGED strandVars
      BY <1>5, <1>z DEF PushOp, ArgOK
    <2>2. \E s \in {"idle", "signal"} : post' = [post EXCEPT ![a] = s]
      BY <1>5 DEF PushOp, WakeOne
    <2>3. post'[a] \in {"idle", "signal"} /\ \A b \in Actors \ {a} : post'[b] = post[b]
      BY <2>2 DEF SchedTypes
    <2>4. \A x : Has(op_queue_, x)' <=> Has(op_queue_, x) \/ x = arg[a]
      BY <1>q, <2>1, AppendQueue DEF Entries
    <2>5. ASSUME NEW j \in Handlers, j # arg[a] PROVE Still(j)
      BY <1>x, <2>1, <2>3, <2>4, <2>5, PostedStill DEF Still
    <2>6. CASE arg[a] \in Handlers
      <3>1. PICK i \in Handlers : i = arg[a]
        BY <2>6
      <3>2. InvokerAt(i) = "held" /\ InvokerAt(i)' = "queued"
        BY <1>i, <2>1, <2>4, <3>1 DEF MappedAt, Holds
      <3>3. UpcallOf(i)' = UpcallOf(i)
        BY <1>n, <3>2
      <3>4. \A j \in Handlers \ {i} : Still(j)
        BY <2>5, <3>1
      <3> QED BY <1>m, <2>1, <3>2, <3>3, <3>4, OneMoves, Moves DEF DoesSchedule
    <2>7. CASE arg[a] \notin Handlers
      BY <1>u, <2>1, <2>5, <2>7
    <2> QED BY <2>6, <2>7
  <1>6. ASSUME NEW a \in Actors, NEW s \in {"idle", "stop", "gone"}, post' = [post EXCEPT ![a] = s],
               post[a] \in {"signal", "idle", "stop"},
               UNCHANGED <<op_queue_, cur, arg>>, UNCHANGED <<strandVars, bodyVars>>
        PROVE  StrandRests
    <2>1. post'[a] = s /\ \A b \in Actors \ {a} : post'[b] = post[b]
      BY <1>6 DEF SchedTypes
    <2>2. \A i : StillPosted(i)
      BY <1>6, <2>1, PostedStill
    <2> QED BY <1>6, <1>u, <1>v, <1>x, <1>z, <2>2 DEF Still
  <1>7. ASSUME NEW a \in Actors, Signal(a), UNCHANGED <<strandVars, bodyVars>>
        PROVE  StrandRests
    BY <1>6, <1>7 DEF Signal
  <1>8. ASSUME NEW c \in Clients, ReleaseGuard(c) \/ ClientStops(c),
               UNCHANGED <<strandVars, bodyVars>>
        PROVE  StrandRests
    BY <1>6, <1>8 DEF ReleaseGuard, ClientStops, StopAllThreads, Actors
  <1>9. ASSUME UNCHANGED <<op_queue_, cur, post, arg, stage, upcall>>
        PROVE  \A i \in Handlers : Still(i)
    BY <1>9, <1>v, <1>w, <1>x DEF Still
  <1>10. ASSUME NEW t \in Threads, NEW o \in Plain, DeferPlain(t, o) PROVE StrandRests
    BY <1>9, <1>10, <1>u DEF DeferPlain, Defer
  \* The thread t is in run_ready_handlers, and only it moves.
  <1>r. ASSUME NEW t \in Threads, Idle(t), cur[t] \in Handlers, stage[t] = "run",
               UNCHANGED schedVars, \A u \in Threads \ {t} : stage'[u] = stage[u] /\ upcall'[u] = upcall[u]
        PROVE  \E i \in Handlers :
                  /\ i = cur[t] /\ cur'[t] = i
                  /\ InvokerAt(i) = "run" /\ UpcallOf(i) = upcall[t]
                  /\ \A j \in Handlers \ {i} : Still(j)
    <2>1. PICK i \in Handlers : i = cur[t]
      BY <1>r
    <2>2. UNCHANGED <<op_queue_, cur, post, arg>>
      BY <1>r DEF schedVars
    <2>3. InvokerAt(i) = "run" /\ UpcallOf(i) = upcall[t]
      BY <1>i, <1>r, <2>1 DEF MappedAt, At
    <2>4. \A j \in Handlers \ {i} : StillAt(j)
      BY <1>r, <2>1, <2>2 DEF StillAt, At
    <2> QED BY <1>v, <1>w, <2>1, <2>2, <2>3, <2>4 DEF Still
  <1>11. ASSUME NEW t \in Threads, NEW h \in Handlers, DispatchStrand(t, h) PROVE StrandMoves
    <2>1. Idle(t) /\ upcall[t] # NoOp /\ cur[t] \in Handlers /\ stage[t] = "run"
      BY <1>11 DEF DispatchStrand, Control, ControlOf
    <2>2. UNCHANGED schedVars /\ UNCHANGED <<stage, upcall>> /\ h \notin submitted /\ dispatch(h)
      BY <1>11, <1>z DEF DispatchStrand
    <2>3. PICK i \in Handlers : i = cur[t] /\ UpcallOf(i) = upcall[t]
      BY <1>r, <2>1, <2>2
    <2>4. \A j \in Handlers : Still(j)
      BY <1>9, <2>2 DEF schedVars
    <2>5. UpOf[i] = UpcallOf(i)
      BY DEF UpOf
    <2> QED BY <1>m, <2>1, <2>2, <2>3, <2>4, <2>5, NoneMoves, Moves DEF DoesDispatch
  <1>12. ASSUME NEW t \in Threads, RunReady(t) PROVE StrandMoves
    <2>1. /\ Idle(t) /\ cur[t] \in Handlers /\ stage[t] = "run" /\ upcall[t] = NoOp
          /\ ready_queue_ # <<>> /\ ready_pop /\ UNCHANGED schedVars /\ stage' = stage
          /\ upcall' = [upcall EXCEPT ![t] = Head(ready_queue_)]
      BY <1>12 DEF RunReady
    <2>2. upcall'[t] = Head(ready_queue_) /\ \A u \in Threads \ {t} : upcall'[u] = upcall[u]
      BY <2>1 DEF PoolTypes
    <2>3. PICK i \in Handlers :
             /\ i = cur[t] /\ cur'[t] = i
             /\ InvokerAt(i) = "run" /\ UpcallOf(i) = upcall[t]
             /\ \A j \in Handlers \ {i} : Still(j)
      BY <1>r, <2>1, <2>2
    <2>4. InvokerAt(i)' = "run" /\ UpcallOf(i)' = Head(ready_queue_)
      BY <1>i, <2>1, <2>2, <2>3 DEF MappedAt, At
    <2> QED BY <1>m, <2>1, <2>3, <2>4, OneMoves, Moves DEF DoesRunReady
  <1>13. ASSUME NEW t \in Threads, NoneReady(t) PROVE StrandMoves
    <2>1. /\ Idle(t) /\ cur[t] \in Handlers /\ stage[t] = "run" /\ upcall[t] = NoOp
          /\ ready_queue_ = <<>> /\ UNCHANGED schedVars /\ UNCHANGED strandVars
          /\ upcall' = upcall /\ stage' = [stage EXCEPT ![t] = "exit"]
      BY <1>13 DEF NoneReady
    <2>2. stage'[t] = "exit" /\ \A u \in Threads \ {t} : stage'[u] = stage[u]
      BY <2>1 DEF PoolTypes
    <2>3. PICK i \in Handlers :
             /\ i = cur[t] /\ cur'[t] = i
             /\ InvokerAt(i) = "run" /\ UpcallOf(i) = upcall[t]
             /\ \A j \in Handlers \ {i} : Still(j)
      BY <1>r, <2>1, <2>2
    <2>4. InvokerAt(i)' = "exit"
      BY <1>i, <2>2, <2>3 DEF MappedAt, Leaves, At
    <2>5. UpcallOf(i)' = UpcallOf(i)
      BY <1>n, <2>1, <2>3, <2>4
    <2> QED BY <1>m, <2>1, <2>3, <2>4, <2>5, OneMoves, Moves DEF DoesNoneReady
  <1>14. ASSUME NEW t \in Threads, UpcallEnds(t) PROVE StrandMoves
    <2>1. /\ Idle(t) /\ upcall[t] # NoOp /\ cur[t] \in Handlers /\ stage[t] = "run"
          /\ complete(upcall[t]) /\ UNCHANGED schedVars /\ upcall' = [upcall EXCEPT ![t] = NoOp]
          /\ \E s \in {"run", "exit"} : stage' = [stage EXCEPT ![t] = s]
      BY <1>14 DEF UpcallEnds, Control, ControlOf
    <2>2. /\ stage'[t] \in {"run", "exit"} /\ upcall'[t] = NoOp
          /\ \A u \in Threads \ {t} : stage'[u] = stage[u] /\ upcall'[u] = upcall[u]
      BY <2>1 DEF PoolTypes
    <2>3. PICK i \in Handlers :
             /\ i = cur[t] /\ cur'[t] = i
             /\ InvokerAt(i) = "run" /\ UpcallOf(i) = upcall[t]
             /\ \A j \in Handlers \ {i} : Still(j)
      BY <1>r, <2>1, <2>2
    <2>4. InvokerAt(i)' \in {"run", "exit"} /\ UpcallOf(i)' = NoOp
      <3>1. CASE stage'[t] = "run"
        BY <1>i, <2>2, <2>3, <3>1 DEF MappedAt, At
      <3>2. CASE stage'[t] = "exit"
        <4>1. InvokerAt(i)' = "exit"
          BY <1>i, <2>3, <3>2 DEF MappedAt, Leaves, At
        <4> QED BY <1>n, <4>1
      <3> QED BY <2>2, <3>1, <3>2
    <2>5. UpOf[i] = upcall[t] /\ \E to \in {"run", "exit"} : InvOf' = [InvOf EXCEPT ![i] = to]
      BY <1>m, <2>3, <2>4, OneMoves
    <2>6. UpOf' = [UpOf EXCEPT ![i] = NoOp]
      BY <1>m, <2>3, <2>4, OneMoves
    <2> QED BY <2>1, <2>5, <2>6, Moves DEF DoesComplete
  <1>15. ASSUME NEW t \in Threads, InvokerExits(t) PROVE StrandMoves
    <2>1. /\ UNCHANGED <<op_queue_, cur, upcall>> /\ stage' = [stage EXCEPT ![t] = "left"]
          /\ stage[t] = "exit" /\ cur[t] \in Handlers /\ post[t] = "idle"
          /\ push_waiting_to_ready
      BY <1>15 DEF InvokerExits, Idle, Control, ControlOf
    <2>2. PICK i \in Handlers : i = cur[t]
      BY <2>1
    <2>3. stage'[t] = "left" /\ \A u \in Threads \ {t} : stage'[u] = stage[u]
      BY <2>1 DEF PoolTypes
    <2>4. \A j \in Handlers \ {i} : StillAt(j)
      BY <2>1, <2>2, <2>3 DEF StillAt, At
    <2>5. InvokerAt(i) = "exit"
      BY <1>i, <2>1, <2>2 DEF MappedAt, Leaves, At
    <2>6. CASE locked_'
      <3>1. post' = [post EXCEPT ![t] = "again"] /\ arg' = [arg EXCEPT ![t] = cur[t]]
        BY <1>15, <2>6 DEF InvokerExits
      <3>2. /\ post'[t] = "again" /\ arg'[t] = i
            /\ \A b \in Actors \ {t} : post'[b] = post[b] /\ arg'[b] = arg[b]
        BY <1>t, <2>2, <3>1 DEF SchedTypes
      <3>3. \A j \in Handlers \ {i} : Still(j)
        BY <1>t, <1>v, <2>1, <2>4, <3>2, PostedStill DEF Still
      <3>4. InvokerAt(i)' = "held"
        BY <1>i, <1>t, <3>2 DEF MappedAt, Holds
      <3>5. UpcallOf(i)' = UpcallOf(i)
        BY <1>n, <2>5, <3>4
      <3> QED BY <1>m, <2>1, <2>5, <2>6, <3>3, <3>4, <3>5, OneMoves, Moves DEF DoesExit
    <2>7. CASE ~locked_'
      <3>1. post' = post /\ arg' = arg
        BY <1>15, <2>7 DEF InvokerExits
      <3>2. \A j \in Handlers \ {i} : Still(j)
        BY <1>v, <1>w, <2>1, <2>4, <3>1 DEF Still
      <3>3. /\ \A a \in Actors : ~Held(a)'
            /\ \A u \in Threads : ~Runs(u)'
            /\ ~HasInvoker(op_queue_)'
        BY <2>7 DEF PlaceInv, OnePlace
      <3>4. ~(Readies(i)' \/ Holds(i)' \/ Has(op_queue_, i)' \/ Within(i)' \/ Leaves(i)')
        BY <3>3, SMT DEF Held, Runs, HasInvoker, Readies, Holds, Within, Leaves, At
      <3>5. InvokerAt(i)' = "none"
        BY <1>i, <3>4 DEF MappedAt
      <3>6. UpcallOf(i)' = UpcallOf(i)
        BY <1>n, <2>5, <3>5
      <3> QED BY <1>m, <2>1, <2>5, <2>7, <3>2, <3>5, <3>6, OneMoves, Moves DEF DoesExit
    <2> QED BY <2>6, <2>7
  <1>16. ASSUME NEW t \in Threads, InvokerEnds(t) \/ PlainEnds(t) PROVE StrandRests
    <2>1. /\ UNCHANGED <<op_queue_, post, arg, upcall>> /\ cur' = [cur EXCEPT ![t] = NoOp]
          /\ UNCHANGED strandVars
      BY <1>16 DEF InvokerEnds, PlainEnds, HandlerEnds
    <2>2. /\ cur[t] \notin Handlers \/ stage[t] = "left"
          /\ \A u \in Threads \ {t} : stage'[u] = stage[u]
      BY <1>16, Distinct DEF InvokerEnds, PlainEnds, PoolTypes
    <2>3. cur'[t] \notin Handlers /\ \A u \in Threads \ {t} : cur'[u] = cur[u]
      BY <2>1, PoolAssumption DEF SchedTypes
    <2>4. \A i \in Handlers : StillAt(i)
      BY <2>1, <2>2, <2>3 DEF StillAt, At
    <2> QED BY <1>u, <1>v, <1>w, <2>1, <2>4 DEF Still
  <1>17. ASSUME NEW t \in Threads,
                \/ RunAgain(t)
                \/ /\ ReactorReturns(t) \/ SpuriousWake(t) \/ ReactorEvent(t) \/ ThreadStops(t)
                   /\ UNCHANGED <<strandVars, bodyVars>>
         PROVE  StrandRests
    BY <1>9, <1>17, <1>u, <1>z
       DEF RunAgain, Run, ReactorReturns, SpuriousWake, ReactorEvent, ThreadStops, StopAllThreads
  <1>18. ASSUME NEW t \in Threads, Unwind(t), UNCHANGED <<strandVars, bodyVars>>
         PROVE  StrandRests
    <2>1. op_queue_' = op_queue_ \o private_op_queue[t] /\ UNCHANGED <<cur, post, arg, stage, upcall>>
      BY <1>18, <1>z DEF Unwind
    <2>2. \A i \in Handlers : Has(op_queue_, i)' <=> Has(op_queue_, i)
      BY <1>q, <2>1, ConcatQueue, Distinct
    <2> QED BY <1>18, <1>u, <1>w, <1>x, <2>1, <2>2 DEF Still
  <1>p. ASSUME NEW t \in Threads, NEW q, NEW st, NEW ti, Pass(t, q, st, ti), ~shutdown_,
               \A i \in Handlers : Has(q, i) <=> Has(op_queue_, i),
               UNCHANGED <<strandVars, bodyVars>>
        PROVE  StrandMoves \/ StrandRests
    <2>1. /\ q \in Seq(Entries) /\ post[t] = "idle" /\ stage[t] = "run" /\ cur[t] = NoOp
          /\ upcall[t] = NoOp
      BY <1>p, PassTypes
    <2>2. RunOne(t, q, st, ti) /\ UNCHANGED <<stage, upcall, arg>> /\ UNCHANGED strandVars
      BY <1>p, <1>z DEF Pass
    <2>3. /\ \A u \in Threads \ {t} : cur'[u] = cur[u]
          /\ \A a \in Actors \ {t} : post'[a] = post[a]
          /\ post' = post \/ post'[t] \in {"idle", "signal"}
      BY <2>1, <2>2, RunOneEffect
    <2>4. \A i : StillPosted(i)
      BY <1>t, <1>w, <2>1, <2>2, <2>3, PostedStill
    <2>5. \A j : j # NoOp /\ j # cur'[t] => StillAt(j)
      BY <2>1, <2>2, <2>3 DEF StillAt, At
    <2>6. ASSUME q # <<>>, op_queue_' = Tail(q), Head(q) \in Handlers, cur'[t] = Head(q)
          PROVE  StrandMoves
      <3>1. PICK i \in Handlers : i = Head(q)
        BY <2>6
      <3>2. Has(op_queue_, i) /\ \A j \in Handlers \ {i} : Has(op_queue_, j)' <=> Has(op_queue_, j)
        BY <1>p, <2>1, <2>6, <3>1, TailQueue
      <3>3. \A j \in Handlers \ {i} : Still(j)
        BY <2>4, <2>5, <2>6, <3>1, <3>2, PoolAssumption DEF Still
      <3>4. InvokerAt(i) = "queued" /\ InvokerAt(i)' = "run" /\ UpcallOf(i)' = upcall'[t]
        BY <1>i, <2>1, <2>2, <2>6, <3>1, <3>2 DEF MappedAt, At
      <3>5. UpcallOf(i)' = UpcallOf(i)
        BY <1>n, <2>1, <2>2, <3>4
      <3> QED BY <1>m, <1>p, <2>2, <3>3, <3>4, <3>5, OneMoves, Moves DEF DoesInvoke
    <2>7. ASSUME op_queue_' = q \/ (q # <<>> /\ op_queue_' = Tail(q) /\ Head(q) \notin Handlers),
                 cur'[t] \notin Handlers
          PROVE  StrandRests
      <3>1. \A i \in Handlers : Has(op_queue_, i)' <=> Has(op_queue_, i)
        BY <1>p, <2>1, <2>7, TailQueue
      <3> QED BY <1>u, <2>2, <2>4, <2>5, <2>7, <3>1, PoolAssumption DEF Still
    <2>8. Task \notin Handlers /\ NoOp \notin Handlers
      BY PoolAssumption
    <2>9. \/ op_queue_' = q /\ cur' = cur
          \/ q # <<>> /\ op_queue_' = Tail(q) /\ Head(q) = Task /\ cur' = cur
          \/ q # <<>> /\ op_queue_' = Tail(q) /\ cur' = [cur EXCEPT ![t] = Head(q)]
      BY <2>2, RunOneCases, SMT DEF PassStops, PassTask, PassHandler, PassWaits
    <2> QED BY <2>1, <2>6, <2>7, <2>8, <2>9 DEF SchedTypes
  <1>19. ASSUME NEW t \in Threads, UNCHANGED <<strandVars, bodyVars>>, Next,
                Loop(t) \/ Relock(t) \/ TaskCleanup(t)
         PROVE  StrandMoves \/ StrandRests
    <2>1. ~shutdown_
      BY <1>19, ClosedStops
    <2>2. /\ \A i \in Handlers : Has(op_queue_ \o private_op_queue[t], i) <=> Has(op_queue_, i)
          /\ \A i \in Handlers : Has(Append(op_queue_, Task), i) <=> Has(op_queue_, i)
      <3>1. private_op_queue[t] \in Seq(Plain) /\ Task \in Entries /\ Task \notin Handlers
        BY <1>q, PoolAssumption DEF Entries
      <3>2. \A i \in Handlers : Has(op_queue_ \o private_op_queue[t], i) <=> Has(op_queue_, i)
        BY <1>q, <3>1, ConcatQueue, Distinct
      <3> QED BY <1>q, <3>1, <3>2, AppendQueue
    <2>3. CASE Relock(t)
      <3>1. ASSUME UNCHANGED <<op_queue_, cur, post, arg>> PROVE StrandRests
        BY <1>9, <1>19, <1>u, <1>z, <3>1
      <3> QED BY <1>19, <1>p, <2>1, <2>3, <3>1, Passes
    <2>4. CASE Loop(t)
      BY <1>19, <1>p, <2>1, <2>2, <2>4, Passes
    <2>5. CASE TaskCleanup(t)
      BY <1>19, <1>p, <2>1, <2>2, <2>5, Passes
    <2> QED BY <1>19, <2>3, <2>4, <2>5
  <1>20. ASSUME Destroy PROVE StrandMoves
    <2>1. /\ \A t \in Threads : pc[t] = "out" /\ cur[t] = NoOp /\ post[t] = "idle"
          /\ \A c \in Clients : post[c] = "gone"
      BY <1>20 DEF Destroy, Control, ControlOf
    <2>2. ASSUME NEW i \in Handlers PROVE InvokerAt(i) \in {"none", "queued"}
      <3>1. ~Readies(i) /\ ~Holds(i)
        BY <2>1 DEF Readies, Holds, Actors
      <3>2. ~Within(i) /\ ~Leaves(i)
        BY <2>1, PoolAssumption DEF Within, Leaves, At
      <3> QED BY <1>i, <3>1, <3>2 DEF MappedAt
    <2>3. \A i \in Handlers : InvOf[i] \in {"none", "queued"}
      BY <2>2 DEF InvOf
    <2>4. \A i \in Handlers : Still(i)
      BY <1>9, <1>20, <1>z DEF Destroy, schedVars
    <2> QED BY <1>m, <1>20, <2>3, <2>4, NoneMoves DEF Destroy, DoesShutdown, StrandMoves
  <1>21. ASSUME UNCHANGED vars PROVE StrandRests
    BY <1>9, <1>21, <1>u DEF vars, schedVars, bodyVars
  <1> QED BY <1>1, <1>2, <1>3, <1>4, <1>5, <1>7, <1>8, <1>10, <1>11, <1>12, <1>13, <1>14, <1>15,
             <1>16, <1>17, <1>18, <1>19, <1>20, <1>21
          DEF Next, Submit, Posting, Body, RunStep
-----------------------------------------------------------------------------
(***************************************************************************)
(* Counting.  FiniteFacts is what it uses of FiniteSetTheorems.            *)
(***************************************************************************)
Sizes         == \A A : IsFiniteSet(A) => Cardinality(A) \in Nat
EmptySet      == /\ IsFiniteSet({}) /\ Cardinality({}) = 0
                 /\ \A A : IsFiniteSet(A) => (Cardinality(A) = 0 <=> A = {})
Singleton     == \A x : IsFiniteSet({x}) /\ Cardinality({x}) = 1
Intervals     == \A a, b \in Int : /\ IsFiniteSet(a .. b)
                                   /\ Cardinality(a .. b) = IF a > b THEN 0 ELSE b - a + 1
Subsets       == \A A : IsFiniteSet(A) => \A B \in SUBSET A : /\ IsFiniteSet(B)
                                                              /\ Cardinality(B) <= Cardinality(A)
AddElement    == \A A, x : IsFiniteSet(A) =>
                    /\ IsFiniteSet(A \cup {x})
                    /\ Cardinality(A \cup {x}) = IF x \in A THEN Cardinality(A) ELSE Cardinality(A) + 1
RemoveElement == \A A, x : IsFiniteSet(A) =>
                    /\ IsFiniteSet(A \ {x})
                    /\ Cardinality(A \ {x}) = IF x \in A THEN Cardinality(A) - 1 ELSE Cardinality(A)
Unions        == \A A, B : IsFiniteSet(A) /\ IsFiniteSet(B) =>
                    /\ IsFiniteSet(A \cup B)
                    /\ Cardinality(A \cup B) = Cardinality(A) + Cardinality(B) - Cardinality(A \cap B)
Differences   == \A A, B : IsFiniteSet(A) =>
                    /\ IsFiniteSet(A \ B)
                    /\ Cardinality(A \ B) = Cardinality(A) - Cardinality(A \cap B)
Products      == \A A, B : IsFiniteSet(A) /\ IsFiniteSet(B) =>
                    /\ IsFiniteSet(A \X B)
                    /\ Cardinality(A \X B) = Cardinality(A) * Cardinality(B)
OneToOne(f, A, B) ==
    /\ f \in [A -> B]
    /\ \A x, y \in A : f[x] = f[y] => x = y
    /\ \A z \in B : \E x \in A : f[x] = z
Bijections    == \A A, B, f : IsFiniteSet(A) /\ OneToOne(f, A, B) => Cardinality(B) = Cardinality(A)

FiniteFacts ==
    /\ Sizes /\ EmptySet /\ Singleton /\ Intervals /\ Subsets /\ AddElement /\ RemoveElement
    /\ Unions /\ Differences /\ Products /\ Bijections

\* The places of q that do not hold the task.
Filled(q) == {k \in DOMAIN q : q[k] # Task}

LEMMA FilledFinite ==
    ASSUME FiniteFacts, NEW q \in Seq(Entries)
    PROVE  IsFiniteSet(Filled(q)) /\ Cardinality(Filled(q)) \in Nat
  <1>1. IsFiniteSet(1 .. Len(q)) /\ Filled(q) \subseteq 1 .. Len(q)
    BY DEF FiniteFacts, Intervals, Filled
  <1> QED BY <1>1 DEF FiniteFacts, Subsets, Sizes

LEMMA AppendFilled ==
    ASSUME FiniteFacts, NEW q \in Seq(Entries), NEW o \in Entries
    PROVE  Cardinality(Filled(Append(q, o))) =
              Cardinality(Filled(q)) + (IF o = Task THEN 0 ELSE 1)
  <1>1. /\ DOMAIN Append(q, o) = DOMAIN q \cup {Len(q) + 1}
        /\ Append(q, o)[Len(q) + 1] = o /\ \A k \in DOMAIN q : Append(q, o)[k] = q[k]
    OBVIOUS
  <1>2. Len(q) + 1 \notin Filled(q)
    BY DEF Filled
  <1>3. CASE o = Task
    <2>1. Filled(Append(q, o)) = Filled(q)
      BY <1>1, <1>2, <1>3 DEF Filled
    <2> QED BY <1>3, <2>1, FilledFinite
  <1>4. CASE o # Task
    <2>1. Filled(Append(q, o)) = Filled(q) \cup {Len(q) + 1}
      BY <1>1, <1>4 DEF Filled
    <2> QED BY <1>2, <1>4, <2>1, FilledFinite, Zenon DEF FiniteFacts, AddElement
  <1> QED BY <1>3, <1>4

LEMMA ConcatFilled ==
    ASSUME FiniteFacts, NEW q \in Seq(Entries), NEW p \in Seq(Plain)
    PROVE  Cardinality(Filled(q \o p)) = Cardinality(Filled(q)) + Len(p)
  <1> DEFINE Rest == (Len(q) + 1) .. (Len(q) + Len(p))
  <1>1. Len(q) \in Nat /\ Len(p) \in Nat /\ p \in Seq(Entries)
    BY DEF Entries, Ops
  <1>2. DOMAIN (q \o p) = 1 .. (Len(q) + Len(p)) /\ DOMAIN q = 1 .. Len(q)
    BY <1>1
  <1>3. \A k \in DOMAIN q : k \in DOMAIN (q \o p) /\ (q \o p)[k] = q[k]
    BY <1>1, <1>2
  <1>4. \A k \in Rest : k \in DOMAIN (q \o p) /\ (q \o p)[k] \in Plain /\ k \notin DOMAIN q
    BY <1>1, <1>2
  <1>5. \A k \in DOMAIN (q \o p) : k \in DOMAIN q \/ k \in Rest
    BY <1>1, <1>2
  <1>6. \A k \in Rest : (q \o p)[k] # Task
    BY <1>4, Distinct DEF Ops
  <1>7. Filled(q \o p) = Filled(q) \cup Rest /\ Filled(q) \cap Rest = {}
    BY <1>3, <1>4, <1>5, <1>6 DEF Filled
  <1>8. IsFiniteSet(Rest) /\ Cardinality(Rest) = Len(p)
    <2>1. PICK a \in Int : a = Len(q) + 1
      BY <1>1
    <2>2. PICK b \in Int : b = Len(q) + Len(p)
      BY <1>1
    <2>3. IsFiniteSet(a .. b) /\ Cardinality(a .. b) = IF a > b THEN 0 ELSE b - a + 1
      BY DEF FiniteFacts, Intervals
    <2>4. (IF a > b THEN 0 ELSE b - a + 1) = Len(p)
      BY <1>1, <2>1, <2>2
    <2> QED BY <2>1, <2>2, <2>3, <2>4
  <1>9. Cardinality(Filled(q) \cup Rest) =
           Cardinality(Filled(q)) + Cardinality(Rest) - Cardinality(Filled(q) \cap Rest)
    BY <1>8, FilledFinite, Zenon DEF FiniteFacts, Unions
  <1>10. Cardinality(Filled(q) \cap Rest) = 0
    BY <1>7, Zenon DEF FiniteFacts, EmptySet
  <1> HIDE DEF Rest
  <1> QED BY <1>1, <1>7, <1>8, <1>9, <1>10, FilledFinite

LEMMA TailFilled ==
    ASSUME FiniteFacts, NEW q \in Seq(Entries), q # <<>>
    PROVE  Cardinality(Filled(Tail(q))) =
              Cardinality(Filled(q)) - (IF Head(q) = Task THEN 0 ELSE 1)
  <1> DEFINE f == [k \in Filled(Tail(q)) |-> k + 1]
  <1>1. /\ Head(q) = q[1] /\ Tail(q) \in Seq(Entries)
        /\ Len(q) \in Nat \ {0} /\ DOMAIN q = 1 .. Len(q) /\ 1 \in DOMAIN q
        /\ DOMAIN Tail(q) = 1 .. (Len(q) - 1)
        /\ \A k \in 1 .. (Len(q) - 1) : Tail(q)[k] = q[k + 1]
    OBVIOUS
  <1>2. \A k \in DOMAIN Tail(q) : k \in Nat /\ k + 1 \in DOMAIN q /\ k + 1 # 1
                                  /\ Tail(q)[k] = q[k + 1]
    BY <1>1
  <1>3. \A k \in DOMAIN q \ {1} : \E j \in DOMAIN Tail(q) : k = j + 1
    <2> TAKE k \in DOMAIN q \ {1}
    <2>1. k - 1 \in DOMAIN Tail(q) /\ k = (k - 1) + 1
      BY <1>1
    <2> QED BY <2>1
  <1>4. Filled(Tail(q)) \subseteq DOMAIN Tail(q)
    BY DEF Filled
  <1>5. \A k \in Filled(Tail(q)) : k + 1 \in Filled(q) \ {1}
    BY <1>2, <1>4 DEF Filled
  <1>6. f \in [Filled(Tail(q)) -> Filled(q) \ {1}]
    BY <1>5
  <1>7. \A j, k \in Filled(Tail(q)) : f[j] = f[k] => j = k
    BY <1>2, <1>4
  <1>8. \A k \in Filled(q) \ {1} : \E j \in Filled(Tail(q)) : f[j] = k
    <2> TAKE k \in Filled(q) \ {1}
    <2>1. PICK j \in DOMAIN Tail(q) : k = j + 1
      BY <1>3 DEF Filled
    <2>2. j \in Filled(Tail(q))
      BY <1>2, <2>1 DEF Filled
    <2> QED BY <2>1, <2>2
  <1>9. OneToOne(f, Filled(Tail(q)), Filled(q) \ {1})
    BY <1>6, <1>7, <1>8, Zenon DEF OneToOne
  <1>10. Cardinality(Filled(q) \ {1}) = Cardinality(Filled(Tail(q)))
    BY <1>1, <1>9, FilledFinite, Zenon DEF FiniteFacts, Bijections
  <1>11. Cardinality(Filled(q) \ {1}) =
            IF 1 \in Filled(q) THEN Cardinality(Filled(q)) - 1 ELSE Cardinality(Filled(q))
    BY FilledFinite, Zenon DEF FiniteFacts, RemoveElement
  <1>12. 1 \in Filled(q) <=> Head(q) # Task
    BY <1>1 DEF Filled
  <1> QED BY <1>10, <1>11, <1>12, FilledFinite

\* The strand has an invoker: it is locked, and its maker has handed it over.
Lives == locked_ /\ \A a \in Actors : post[a] \notin {"ready", "make"}

\* The invoker is the only one, so that it counts for one.
LEMMA InvokersCount ==
    FiniteFacts /\ Types /\ PlaceInv =>
        IsFiniteSet(Invokers) /\ Cardinality(Invokers) = (IF Lives THEN 1 ELSE 0)
  <1> USE Zenon
  <1> SUFFICES ASSUME FiniteFacts, Types, PlaceInv
               PROVE  IsFiniteSet(Invokers) /\ Cardinality(Invokers) = (IF Lives THEN 1 ELSE 0)
    OBVIOUS
  <1> DEFINE Hands(i) == \E a \in Actors : post[a] \in {"again", "push"} /\ arg[a] = i
             Does(i)  == \E t \in Threads : Runs(t) /\ cur[t] = i
  <1>h. \A a \in Actors : post[a] \in {"ready", "make", "again", "push"} /\ arg[a] \in Handlers
                          <=> Held(a)
    BY DEF Held
  <1>1. ASSUME NEW i \in Handlers, Has(op_queue_, i) PROVE i \in Invokers
    <2>1. \A a \in Actors : ~Held(a)
      BY <1>1 DEF PlaceInv, OnePlace, HasInvoker
    <2>2. InvokerAt(i) = "queued"
      BY <1>1, <1>h, <2>1 DEF InvokerAt, Has
    <2> QED BY <2>2 DEF Invokers
  <1>2. ASSUME NEW i \in Handlers, Does(i) PROVE i \in Invokers
    <2>1. PICK t \in Threads : Runs(t) /\ cur[t] = i
      BY <1>2
    <2>2. (\A a \in Actors : ~Held(a)) /\ ~Has(op_queue_, i)
      BY <2>1 DEF PlaceInv, OnePlace, HasInvoker
    <2>3. At(t, i, "run") \/ At(t, i, "exit")
      BY <2>1 DEF Runs, At, Types, PoolTypes
    <2>4. InvokerAt(i) \in {"run", "exit"}
      BY <1>h, <2>2, <2>3 DEF InvokerAt, Has
    <2> QED BY <2>4 DEF Invokers
  <1>3. ASSUME NEW i \in Handlers, Hands(i) PROVE i \in Invokers
    BY <1>3 DEF Invokers
  <1>4. ASSUME NEW i \in Invokers PROVE i \in Handlers /\ (Hands(i) \/ Has(op_queue_, i) \/ Does(i))
    <2>1. i \in Handlers /\ (InvokerAt(i) \in {"queued", "run", "exit"} \/ Hands(i))
      BY DEF Invokers
    <2>2. ASSUME InvokerAt(i) \in {"queued", "run", "exit"} PROVE Has(op_queue_, i) \/ Does(i)
      BY <2>1, <2>2 DEF InvokerAt, Has, At, Runs
    <2> QED BY <2>1, <2>2
  <1>5. \A i \in Handlers : Hands(i) => \E a \in Actors : Held(a) /\ arg[a] = i /\ post[a] \in {"again", "push"}
    BY <1>h
  <1>6. ASSUME NEW i \in Invokers, NEW j \in Invokers PROVE i = j
    <2>1. /\ i \in Handlers /\ (Hands(i) \/ Has(op_queue_, i) \/ Does(i))
          /\ j \in Handlers /\ (Hands(j) \/ Has(op_queue_, j) \/ Does(j))
      BY <1>4
    <2>2. Has(op_queue_, i) /\ Has(op_queue_, j) => i = j
      BY <2>1 DEF PlaceInv, OnePlace, Once, Has
    <2> HIDE DEF Does, Hands
    <2>3. Does(i) /\ Does(j) => i = j
      BY DEF Does, PlaceInv, OnePlace
    <2>4. Hands(i) /\ Hands(j) => i = j
      BY <1>5, <2>1 DEF PlaceInv, OnePlace
    <2>5. \A h \in Handlers : /\ Hands(h) => \E a \in Actors : Held(a)
                              /\ Has(op_queue_, h) => HasInvoker(op_queue_)
                              /\ Does(h) => \E t \in Threads : Runs(t)
      BY <1>5 DEF HasInvoker, Does
    <2> QED BY <2>1, <2>2, <2>3, <2>4, <2>5 DEF PlaceInv, OnePlace
  <1>7. ASSUME NEW i \in Invokers PROVE Lives
    <2>1. i \in Handlers /\ (Hands(i) \/ Has(op_queue_, i) \/ Does(i))
      BY <1>4
    <2>2. \A a \in Actors : Held(a) => post[a] \in {"again", "push"}
      BY <1>5, <2>1 DEF PlaceInv, OnePlace, HasInvoker
    <2>3. locked_
      BY <1>5, <2>1 DEF PlaceInv, OnePlace, HasInvoker
    <2> QED BY <2>2, <2>3 DEF Lives, Held, Types, ArgOK
  <1>8. ASSUME Lives PROVE \E i : i \in Invokers
    <2>1. (\E a \in Actors : Held(a)) \/ HasInvoker(op_queue_) \/ (\E t \in Threads : Runs(t))
      BY <1>8 DEF Lives, PlaceInv, OnePlace
    <2>2. ASSUME NEW a \in Actors, Held(a) PROVE arg[a] \in Invokers
      BY <1>3, <1>8, <2>2 DEF Held, Lives
    <2>3. ASSUME NEW t \in Threads, Runs(t) PROVE cur[t] \in Invokers
      BY <1>2, <2>3 DEF Runs
    <2> QED BY <1>1, <2>1, <2>2, <2>3 DEF HasInvoker
  <1>9. CASE Lives
    <2>1. PICK i : i \in Invokers
      BY <1>8, <1>9
    <2>2. Invokers = {i}
      BY <1>6, <2>1
    <2> QED BY <1>9, <2>2 DEF FiniteFacts, Singleton
  <1>10. CASE ~Lives
    <2>1. Invokers = {}
      BY <1>7, <1>10
    <2> QED BY <1>10, <2>1 DEF FiniteFacts, EmptySet
  <1> QED BY <1>9, <1>10

Guarding   == Cardinality(Guards)
Living     == IF Lives THEN 1 ELSE 0
Pushing    == Cardinality(Pushed)
Queueing   == Cardinality(Filled(op_queue_))
Completing == Cardinality(Completed)
Deferred   == Cardinality(Private)
Reserved   == Cardinality(PrivateWork)

\* WorkCounted, with the invoker as Lives has it.
CountInv ==
    /\ outstanding_work_ \in Int
    /\ IsFiniteSet(Private) /\ IsFiniteSet(PrivateWork)
    /\ outstanding_work_ + Reserved =
          Guarding + Living + Pushing + Queueing + Completing + Deferred

LEMMA FiniteParts ==
    ASSUME FiniteFacts
    PROVE  IsFiniteSet(Guards) /\ IsFiniteSet(Pushed) /\ IsFiniteSet(Completed)
  <1>1. /\ IsFiniteSet(Clients) /\ Guards \in SUBSET Clients
        /\ IsFiniteSet(Threads) /\ Completed \in SUBSET Threads
    BY PoolAssumption DEF Guards, Completed
  <1>2. IsFiniteSet(Actors) /\ Pushed \in SUBSET Actors
    BY PoolAssumption, Zenon DEF FiniteFacts, Unions, Actors, Pushed
  <1> QED BY <1>1, <1>2 DEF FiniteFacts, Subsets

LEMMA Numbers ==
    ASSUME FiniteFacts, Types, CountInv
    PROVE  /\ Guarding \in Nat /\ Living \in Nat /\ Pushing \in Nat /\ Queueing \in Nat
           /\ Completing \in Nat /\ Deferred \in Nat /\ Reserved \in Nat
           /\ outstanding_work_ \in Int
  <1> USE Zenon
  <1>1. Guarding \in Nat /\ Pushing \in Nat /\ Completing \in Nat
    BY FiniteParts DEF FiniteFacts, Sizes, Guarding, Pushing, Completing
  <1>2. Deferred \in Nat /\ Reserved \in Nat /\ outstanding_work_ \in Int
    BY DEF FiniteFacts, Sizes, CountInv, Deferred, Reserved
  <1>3. Queueing \in Nat
    BY FilledFinite DEF Types, SchedTypes, Queueing
  <1>4. Living \in Nat
    BY SMT DEF Living
  <1> QED BY <1>1, <1>2, <1>3, <1>4

\* Where posting stands, for the count.
LEMMA PostQuiet ==
    ASSUME locked_' = locked_,
           \A a \in Actors : /\ post'[a] = "push" <=> post[a] = "push"
                             /\ post'[a] \in {"ready", "make"} <=> post[a] \in {"ready", "make"}
                             /\ post'[a] \in {"stop", "gone"} <=> post[a] \in {"stop", "gone"}
    PROVE  Guarding' = Guarding /\ Living' = Living /\ Pushing' = Pushing
  <1> USE Zenon
  <1>1. Guards' = Guards /\ Pushed' = Pushed
    BY DEF Guards, Pushed, Actors
  <1>2. Lives' <=> Lives
    BY DEF Lives
  <1> QED BY <1>1, <1>2 DEF Guarding, Living, Pushing

LEMMA PushStarts ==
    ASSUME FiniteFacts, Types, NEW a \in Actors, post[a] \in {"idle", "make", "again"},
           post' = [post EXCEPT ![a] = "push"]
    PROVE  Guarding' = Guarding /\ Pushing' = Pushing + 1
  <1> USE Zenon
  <1>1. Guards' = Guards
    BY DEF Guards, Types, SchedTypes, Actors
  <1>2. Pushed' = Pushed \cup {a} /\ a \notin Pushed
    BY DEF Pushed, Types, SchedTypes
  <1> QED BY <1>1, <1>2, FiniteParts DEF FiniteFacts, AddElement, Guarding, Pushing

LEMMA PushEnds ==
    ASSUME FiniteFacts, Types, NEW a \in Actors, post[a] = "push", NEW s \in {"idle", "signal"},
           post' = [post EXCEPT ![a] = s]
    PROVE  Guarding' = Guarding /\ Pushing' = Pushing - 1
  <1> USE Zenon
  <1>1. Guards' = Guards
    BY DEF Guards, Types, SchedTypes, Actors
  <1>2. Pushed' = Pushed \ {a} /\ a \in Pushed
    BY DEF Pushed, Types, SchedTypes
  <1>3. Cardinality(Pushed \ {a}) = IF a \in Pushed THEN Cardinality(Pushed) - 1 ELSE Cardinality(Pushed)
    BY FiniteParts DEF FiniteFacts, RemoveElement
  <1> QED BY <1>1, <1>2, <1>3 DEF Guarding, Pushing

LEMMA GuardEnds ==
    ASSUME FiniteFacts, Types, NEW c \in Clients, post[c] = "idle", NEW s \in {"stop", "gone"},
           post' = [post EXCEPT ![c] = s]
    PROVE  Guarding' = Guarding - 1 /\ Pushing' = Pushing
  <1> USE Zenon
  <1>1. Guards' = Guards \ {c} /\ c \in Guards
    BY DEF Guards, Types, SchedTypes, Actors
  <1>2. Pushed' = Pushed
    BY DEF Pushed, Types, SchedTypes, Actors
  <1>3. Cardinality(Guards \ {c}) = IF c \in Guards THEN Cardinality(Guards) - 1 ELSE Cardinality(Guards)
    BY FiniteParts DEF FiniteFacts, RemoveElement
  <1> QED BY <1>1, <1>2, <1>3 DEF Guarding, Pushing

LEMMA CompletingSame ==
    ASSUME \A t \in Threads : pc'[t] = "handler" <=> pc[t] = "handler"
    PROVE  Completing' = Completing
  <1>1. Completed' = Completed
    BY Zenon DEF Completed
  <1> QED BY <1>1, Zenon DEF Completing

LEMMA CompletingMore ==
    ASSUME FiniteFacts, NEW t \in Threads, pc[t] # "handler", pc'[t] = "handler",
           \A u \in Threads \ {t} : pc'[u] = pc[u]
    PROVE  Completing' = Completing + 1
  <1>1. Completed' = Completed \cup {t} /\ t \notin Completed
    BY DEF Completed
  <1> QED BY <1>1, FiniteParts, Zenon DEF FiniteFacts, AddElement, Completing

LEMMA CompletingLess ==
    ASSUME FiniteFacts, NEW t \in Threads, pc[t] = "handler", pc'[t] # "handler",
           \A u \in Threads \ {t} : pc'[u] = pc[u]
    PROVE  Completing' = Completing - 1
  <1>1. Completed' = Completed \ {t} /\ t \in Completed
    BY Zenon DEF Completed
  <1>2. Cardinality(Completed \ {t}) =
           IF t \in Completed THEN Cardinality(Completed) - 1 ELSE Cardinality(Completed)
    BY FiniteParts, Zenon DEF FiniteFacts, RemoveElement
  <1> QED BY <1>1, <1>2, Zenon DEF Completing

\* f[t] pieces of work for every thread t.
Rows(f) == UNION {{t} \X (1 .. f[t]) : t \in Threads}
Lens(q) == [t \in Threads |-> Len(q[t])]

LEMMA RowsAre ==
    ASSUME NEW q \in [Threads -> Seq(Plain)]
    PROVE  /\ UNION {{t} \X DOMAIN q[t] : t \in Threads} = Rows(Lens(q))
           /\ Lens(q) \in [Threads -> Nat]
  <1>1. \A t \in Threads : /\ DOMAIN q[t] = 1 .. Lens(q)[t]
                           /\ Lens(q)[t] = Len(q[t]) /\ Lens(q)[t] \in Nat
    BY DEF Lens
  <1>2. {{t} \X DOMAIN q[t] : t \in Threads} = {{t} \X (1 .. Lens(q)[t]) : t \in Threads}
    BY <1>1, Zenon
  <1>3. Lens(q) \in [Threads -> Nat]
    BY <1>1, Zenon DEF Lens
  <1> QED BY <1>2, <1>3, Zenon DEF Rows

LEMMA RowsMore ==
    ASSUME FiniteFacts, NEW f \in [Threads -> Nat], NEW t \in Threads, IsFiniteSet(Rows(f)),
           NEW g, g[t] = f[t] + 1, \A u \in Threads \ {t} : g[u] = f[u]
    PROVE  IsFiniteSet(Rows(g)) /\ Cardinality(Rows(g)) = Cardinality(Rows(f)) + 1
  <1>1. \A u, n : <<u, n>> \in Rows(f) <=> u \in Threads /\ n \in 1 .. f[u]
    BY DEF Rows
  <1>2. \A u, n : <<u, n>> \in Rows(g) <=> u \in Threads /\ n \in 1 .. g[u]
    BY DEF Rows
  <1>3. g[t] = f[t] + 1 /\ f[t] \in Nat /\ \A u \in Threads : u # t => g[u] = f[u]
    OBVIOUS
  <1>4. \A x \in Rows(f) \cup Rows(g) : x = <<x[1], x[2]>>
    BY DEF Rows
  <1>5. <<t, f[t] + 1>> \notin Rows(f)
    BY <1>1, <1>3
  <1>6. Rows(g) = Rows(f) \cup {<<t, f[t] + 1>>}
    <2>1. ASSUME NEW u, NEW n
          PROVE  <<u, n>> \in Rows(g) <=> <<u, n>> \in Rows(f) \/ <<u, n>> = <<t, f[t] + 1>>
      BY <1>1, <1>2, <1>3
    <2> QED BY <1>4, <2>1
  <1>7. /\ IsFiniteSet(Rows(f) \cup {<<t, f[t] + 1>>})
        /\ Cardinality(Rows(f) \cup {<<t, f[t] + 1>>}) =
              IF <<t, f[t] + 1>> \in Rows(f) THEN Cardinality(Rows(f)) ELSE Cardinality(Rows(f)) + 1
    BY Zenon DEF FiniteFacts, AddElement
  <1> QED BY <1>5, <1>6, <1>7, Zenon

LEMMA RowsLess ==
    ASSUME FiniteFacts, NEW f \in [Threads -> Nat], NEW t \in Threads, IsFiniteSet(Rows(f)),
           NEW g, g[t] = 0, \A u \in Threads \ {t} : g[u] = f[u]
    PROVE  IsFiniteSet(Rows(g)) /\ Cardinality(Rows(g)) = Cardinality(Rows(f)) - f[t]
  <1> DEFINE row == {t} \X (1 .. f[t])
  <1>1. \A u, n : <<u, n>> \in Rows(f) <=> u \in Threads /\ n \in 1 .. f[u]
    BY DEF Rows
  <1>2. \A u, n : <<u, n>> \in Rows(g) <=> u \in Threads /\ n \in 1 .. g[u]
    BY DEF Rows
  <1>3. g[t] = 0 /\ f[t] \in Nat /\ \A u \in Threads : u # t => g[u] = f[u]
    OBVIOUS
  <1>4. (\A x \in Rows(f) \cup Rows(g) : x = <<x[1], x[2]>>) /\ (\A x \in row : x = <<x[1], x[2]>>)
    BY DEF Rows
  <1>5. \A u, n : <<u, n>> \in row <=> u = t /\ n \in 1 .. f[t]
    OBVIOUS
  <1>6. IsFiniteSet(row) /\ Cardinality(row) = f[t]
    <2>1. IsFiniteSet(1 .. f[t]) /\ Cardinality(1 .. f[t]) = f[t]
      BY <1>3 DEF FiniteFacts, Intervals
    <2>2. IsFiniteSet({t}) /\ Cardinality({t}) = 1
      BY Zenon DEF FiniteFacts, Singleton
    <2>3. IsFiniteSet(row) /\ Cardinality(row) = Cardinality({t}) * Cardinality(1 .. f[t])
      BY <2>1, <2>2, Zenon DEF FiniteFacts, Products
    <2> QED BY <1>3, <2>1, <2>2, <2>3
  <1> HIDE DEF row
  <1>7. Rows(g) = Rows(f) \ row /\ Rows(f) \cap row = row
    <2>1. ASSUME NEW u, NEW n
          PROVE  /\ <<u, n>> \in Rows(g) <=> <<u, n>> \in Rows(f) /\ <<u, n>> \notin row
                 /\ <<u, n>> \in row => <<u, n>> \in Rows(f)
      BY <1>1, <1>2, <1>3, <1>5
    <2> QED BY <1>4, <2>1
  <1>8. /\ IsFiniteSet(Rows(f) \ row)
        /\ Cardinality(Rows(f) \ row) = Cardinality(Rows(f)) - Cardinality(Rows(f) \cap row)
    BY Zenon DEF FiniteFacts, Differences
  <1> QED BY <1>6, <1>7, <1>8, Zenon

\* What the thread's private queue and private count add.
LEMMA PrivateMore ==
    ASSUME FiniteFacts, Types, CountInv, Types', NEW t \in Threads, NEW o \in Plain,
           private_op_queue' = [private_op_queue EXCEPT ![t] = Append(@, o)],
           private_outstanding_work' = [private_outstanding_work EXCEPT ![t] = @ + 1]
    PROVE  /\ IsFiniteSet(Private') /\ Deferred' = Deferred + 1
           /\ IsFiniteSet(PrivateWork') /\ Reserved' = Reserved + 1
  <1> USE Zenon
  <1>1. /\ private_op_queue \in [Threads -> Seq(Plain)] /\ private_op_queue' \in [Threads -> Seq(Plain)]
        /\ private_outstanding_work \in [Threads -> Nat]
    BY DEF Types, SchedTypes
  <1>2. /\ private_op_queue'[t] = Append(private_op_queue[t], o)
        /\ \A u \in Threads \ {t} : private_op_queue'[u] = private_op_queue[u]
    BY <1>1
  <1>3. Len(Append(private_op_queue[t], o)) = Len(private_op_queue[t]) + 1
    BY <1>1, SMT
  <1>4. /\ Lens(private_op_queue')[t] = Lens(private_op_queue)[t] + 1
        /\ \A u \in Threads \ {t} : Lens(private_op_queue')[u] = Lens(private_op_queue)[u]
    <2>1. \A u \in Threads : /\ Lens(private_op_queue')[u] = Len(private_op_queue'[u])
                             /\ Lens(private_op_queue)[u] = Len(private_op_queue[u])
      BY DEF Lens
    <2> QED BY <1>2, <1>3, <2>1
  <1>5. /\ Private = Rows(Lens(private_op_queue)) /\ Lens(private_op_queue) \in [Threads -> Nat]
        /\ Private' = Rows(Lens(private_op_queue'))
    BY <1>1, RowsAre DEF Private
  <1>6. PrivateWork = Rows(private_outstanding_work) /\ PrivateWork' = Rows(private_outstanding_work')
    BY DEF PrivateWork, Rows
  <1>7. IsFiniteSet(Private) /\ IsFiniteSet(PrivateWork)
    BY DEF CountInv
  <1>8. IsFiniteSet(Private') /\ Deferred' = Deferred + 1
    BY <1>4, <1>5, <1>7, RowsMore DEF Deferred
  <1>9. IsFiniteSet(PrivateWork') /\ Reserved' = Reserved + 1
    BY <1>1, <1>6, <1>7, RowsMore DEF Reserved
  <1> QED BY <1>8, <1>9

LEMMA DeferredLess ==
    ASSUME FiniteFacts, Types, CountInv, Types', NEW t \in Threads,
           private_op_queue' = [private_op_queue EXCEPT ![t] = <<>>]
    PROVE  IsFiniteSet(Private') /\ Deferred' = Deferred - Len(private_op_queue[t])
  <1> USE Zenon
  <1>1. private_op_queue \in [Threads -> Seq(Plain)] /\ private_op_queue' \in [Threads -> Seq(Plain)]
    BY DEF Types, SchedTypes
  <1>2. private_op_queue'[t] = <<>> /\ \A u \in Threads \ {t} : private_op_queue'[u] = private_op_queue[u]
    BY <1>1
  <1>3. /\ Lens(private_op_queue')[t] = 0 /\ Lens(private_op_queue)[t] = Len(private_op_queue[t])
        /\ \A u \in Threads \ {t} : Lens(private_op_queue')[u] = Lens(private_op_queue)[u]
    <2>1. Len(<<>>) = 0
      BY SMT
    <2>2. \A u \in Threads : /\ Lens(private_op_queue')[u] = Len(private_op_queue'[u])
                             /\ Lens(private_op_queue)[u] = Len(private_op_queue[u])
      BY DEF Lens
    <2> QED BY <1>2, <2>1, <2>2
  <1>4. /\ Private = Rows(Lens(private_op_queue)) /\ Lens(private_op_queue) \in [Threads -> Nat]
        /\ Private' = Rows(Lens(private_op_queue'))
    BY <1>1, RowsAre DEF Private
  <1>5. IsFiniteSet(Private)
    BY DEF CountInv
  <1> QED BY <1>3, <1>4, <1>5, RowsLess DEF Deferred

LEMMA ReservedLess ==
    ASSUME FiniteFacts, Types, CountInv, NEW t \in Threads,
           private_outstanding_work' = [private_outstanding_work EXCEPT ![t] = 0]
    PROVE  IsFiniteSet(PrivateWork') /\ Reserved' = Reserved - private_outstanding_work[t]
  <1> USE Zenon
  <1>1. private_outstanding_work \in [Threads -> Nat] /\ IsFiniteSet(PrivateWork)
    BY DEF Types, SchedTypes, CountInv
  <1>2. PrivateWork = Rows(private_outstanding_work) /\ PrivateWork' = Rows(private_outstanding_work')
    BY DEF PrivateWork, Rows
  <1> QED BY <1>1, <1>2, RowsLess DEF Reserved

LEMMA InitCounts == FiniteFacts /\ Init => CountInv
  <1> USE Zenon
  <1> SUFFICES ASSUME FiniteFacts, Init PROVE CountInv
    OBVIOUS
  <1>1. Guards = Clients /\ Pushed = {} /\ ~Lives
    BY DEF Init, SchedInit, Guards, Pushed, Lives, Actors
  <1>2. Completed = {} /\ Filled(op_queue_) = {}
    <2>1. Completed = {}
      BY DEF Init, SchedInit, Completed
    <2>2. Filled(<<Task>>) = {}
      BY SMT DEF Filled
    <2> QED BY <2>1, <2>2 DEF Init, SchedInit
  <1>3. Private = {} /\ PrivateWork = {}
    <2>1. \A t \in Threads : private_op_queue[t] = <<>> /\ private_outstanding_work[t] = 0
      BY DEF Init, SchedInit
    <2>2. DOMAIN <<>> = {} /\ 1 .. 0 = {}
      BY SMT
    <2>3. \A t : {t} \X {} = {}
      OBVIOUS
    <2>4. \A t \in Threads : {t} \X DOMAIN private_op_queue[t] = {} /\ {t} \X (1 .. private_outstanding_work[t]) = {}
      BY <2>1, <2>2, <2>3
    <2> QED BY <2>4 DEF Private, PrivateWork
  <1>4. Cardinality({}) = 0 /\ IsFiniteSet({}) /\ Cardinality(Clients) \in Nat
    BY PoolAssumption DEF FiniteFacts, EmptySet, Sizes
  <1>5. outstanding_work_ = Cardinality(Clients)
    BY DEF Init, SchedInit
  <1>6. /\ Guarding = outstanding_work_ /\ Living = 0 /\ Pushing = 0 /\ Queueing = 0
        /\ Completing = 0 /\ Deferred = 0 /\ Reserved = 0
    BY <1>1, <1>2, <1>3, <1>4, <1>5
       DEF Guarding, Living, Pushing, Queueing, Completing, Deferred, Reserved
  <1> QED BY <1>3, <1>4, <1>5, <1>6, SMT DEF CountInv

\* The invoker an actor makes comes to life when the actor starts to push it.
LEMMA MakerLives ==
    ASSUME Types, PlaceInv, NEW a \in Actors, post[a] \in {"make", "again"},
           locked_' = locked_, post' = [post EXCEPT ![a] = "push"]
    PROVE  Living' = 1 /\ Living = (IF post[a] = "make" THEN 0 ELSE 1)
  <1> USE Zenon
  <1>1. Held(a)
    BY DEF Held, Types, ArgOK
  <1>2. locked_ /\ \A b \in Actors : Held(b) => b = a
    BY <1>1 DEF PlaceInv, OnePlace
  <1>3. \A b \in Actors \ {a} : post[b] \notin {"ready", "make"}
    BY <1>2 DEF Held, Types, ArgOK
  <1>4. Lives'
    BY <1>2, <1>3 DEF Lives, Types, SchedTypes
  <1>5. Lives <=> post[a] # "make"
    BY <1>2, <1>3 DEF Lives
  <1> QED BY <1>4, <1>5 DEF Living

LEMMA CountStep == FiniteFacts /\ Types /\ Control /\ PlaceInv /\ CountInv /\ [Next]_vars => CountInv'
  <1> USE Zenon
  <1> SUFFICES ASSUME FiniteFacts, Types, Control, PlaceInv, CountInv, [Next]_vars PROVE CountInv'
    OBVIOUS
  <1>t. Types' /\ (\A t \in Threads : t \in Actors) /\ (\A c \in Clients : c \in Actors)
    BY TypesStep DEF Actors
  <1>T. /\ op_queue_ \in Seq(Entries) /\ private_op_queue \in [Threads -> Seq(Plain)]
        /\ private_outstanding_work \in [Threads -> Nat]
        /\ pc \in [Threads -> PcStates] /\ post \in [Actors -> PostStates]
    BY DEF Types, SchedTypes
  <1>n. /\ Guarding \in Nat /\ Living \in Nat /\ Pushing \in Nat /\ Queueing \in Nat
        /\ Completing \in Nat /\ Deferred \in Nat /\ Reserved \in Nat
        /\ outstanding_work_ \in Int
        /\ outstanding_work_ + Reserved =
              Guarding + Living + Pushing + Queueing + Completing + Deferred
    BY Numbers DEF CountInv
  <1>k. ASSUME UNCHANGED <<private_op_queue, private_outstanding_work>>
        PROVE  /\ IsFiniteSet(Private') /\ IsFiniteSet(PrivateWork')
               /\ Deferred' = Deferred /\ Reserved' = Reserved
    <2>1. Private' = Private /\ PrivateWork' = PrivateWork
      BY <1>k DEF Private, PrivateWork
    <2> QED BY <2>1 DEF CountInv, Deferred, Reserved
  <1>q. op_queue_' = op_queue_ => Queueing' = Queueing
    BY DEF Queueing
  <1>c. pc' = pc => Completing' = Completing
    BY CompletingSame
  <1>g. UNCHANGED <<locked_, post>> => Guarding' = Guarding /\ Living' = Living /\ Pushing' = Pushing
    BY PostQuiet
  <1>y. UNCHANGED strandVars => locked_' = locked_
    BY DEF strandVars
  <1>l. ASSUME NEW a \in Actors, post[a] \notin {"ready", "make"}, NEW s, s \notin {"ready", "make"},
               post' = [post EXCEPT ![a] = s], locked_' = locked_
        PROVE  Living' = Living
    <2>1. Lives' <=> Lives
      BY <1>l, <1>T DEF Lives
    <2> QED BY <2>1 DEF Living
  \* Nothing that counts changes.
  <1>u. ASSUME UNCHANGED <<outstanding_work_, op_queue_, private_op_queue, private_outstanding_work>>,
               Guarding' = Guarding, Living' = Living, Pushing' = Pushing, Completing' = Completing
        PROVE  CountInv'
    BY <1>k, <1>n, <1>q, <1>u DEF CountInv
  <1>1. ASSUME NEW a \in Actors, NEW o \in Plain, PostPlain(a, o) PROVE CountInv'
    <2>1. /\ post[a] = "idle" /\ post' = [post EXCEPT ![a] = "push"] /\ locked_' = locked_
          /\ outstanding_work_' = outstanding_work_ + 1
          /\ UNCHANGED <<op_queue_, private_op_queue, private_outstanding_work, pc>>
      BY <1>1, <1>y DEF PostPlain, Posts, MayPost, WorkStarted
    <2>2. Guarding' = Guarding /\ Pushing' = Pushing + 1 /\ Living' = Living
      BY <1>l, <2>1, PushStarts
    <2>3. Queueing' = Queueing /\ Completing' = Completing
      BY <1>q, <1>c, <2>1
    <2>4. /\ IsFiniteSet(Private') /\ IsFiniteSet(PrivateWork')
          /\ Deferred' = Deferred /\ Reserved' = Reserved
      BY <1>k, <2>1
    <2> QED BY <1>n, <2>1, <2>2, <2>3, <2>4, SMT DEF CountInv
  <1>2. ASSUME NEW a \in Actors, NEW h \in Handlers, PostStrand(a, h) PROVE CountInv'
    <2>1. /\ UNCHANGED <<outstanding_work_, op_queue_, private_op_queue, private_outstanding_work, pc>>
          /\ post[a] = "idle"
      BY <1>2 DEF PostStrand, Posts, MayPost
    <2>2. CASE first
      <3>1. ~locked_ /\ post' = [post EXCEPT ![a] = "ready"]
        BY <1>2, <2>2 DEF PostStrand, first
      <3>2. ~Lives /\ ~Lives'
        BY <1>T, <3>1 DEF Lives
      <3>3. Guards' = Guards /\ Pushed' = Pushed
        BY <1>T, <1>t, <2>1, <3>1 DEF Guards, Pushed
      <3> QED BY <1>c, <1>u, <2>1, <3>2, <3>3 DEF Guarding, Pushing, Living
    <2>3. CASE ~first
      <3>1. (locked_' <=> locked_) /\ post' = post
        BY <1>2, <2>3 DEF PostStrand, enqueue, first
      <3>2. Guarding' = Guarding /\ Pushing' = Pushing /\ Living' = Living
        BY <3>1 DEF Guarding, Pushing, Living, Lives, Guards, Pushed
      <3> QED BY <1>c, <1>u, <2>1, <3>2
    <2> QED BY <2>2, <2>3
  <1>3. ASSUME NEW a \in Actors, PushReady(a) PROVE CountInv'
    <2>1. /\ UNCHANGED <<outstanding_work_, op_queue_, private_op_queue, private_outstanding_work, pc>>
          /\ post[a] = "ready" /\ post' = [post EXCEPT ![a] = "make"] /\ locked_' = locked_
      BY <1>3 DEF PushReady, ready_push
    <2>2. Guarding' = Guarding /\ Living' = Living /\ Pushing' = Pushing
      BY <1>T, <2>1, PostQuiet
    <2> QED BY <1>c, <1>u, <2>1, <2>2
  <1>4. ASSUME NEW a \in Actors, Schedule(a) PROVE CountInv'
    <2>1. /\ post[a] \in {"make", "again"} /\ post' = [post EXCEPT ![a] = "push"] /\ locked_' = locked_
          /\ outstanding_work_' = outstanding_work_ + (IF post[a] = "make" THEN 2 ELSE 1)
          /\ UNCHANGED <<op_queue_, private_op_queue, private_outstanding_work, pc>>
      BY <1>4, <1>y DEF Schedule, WorkStarted
    <2>2. Guarding' = Guarding /\ Pushing' = Pushing + 1
      BY <2>1, PushStarts
    <2>3. Living' = 1 /\ Living = (IF post[a] = "make" THEN 0 ELSE 1)
      BY <2>1, MakerLives
    <2>4. Queueing' = Queueing /\ Completing' = Completing
      BY <1>q, <1>c, <2>1
    <2>5. /\ IsFiniteSet(Private') /\ IsFiniteSet(PrivateWork')
          /\ Deferred' = Deferred /\ Reserved' = Reserved
      BY <1>k, <2>1
    <2>6. CASE post[a] = "make"
      BY <1>n, <2>1, <2>2, <2>3, <2>4, <2>5, <2>6, SMT DEF CountInv
    <2>7. CASE post[a] # "make"
      BY <1>n, <2>1, <2>2, <2>3, <2>4, <2>5, <2>7, SMT DEF CountInv
    <2> QED BY <2>6, <2>7
  <1>5. ASSUME NEW a \in Actors, PushOp(a), UNCHANGED <<strandVars, bodyVars>> PROVE CountInv'
    <2>1. /\ post[a] = "push" /\ locked_' = locked_ /\ op_queue_' = Append(op_queue_, arg[a])
          /\ UNCHANGED <<outstanding_work_, private_op_queue, private_outstanding_work, pc>>
          /\ arg[a] \in Ops
      BY <1>5, <1>y DEF PushOp, Types, ArgOK
    <2>2. PICK s \in {"idle", "signal"} : post' = [post EXCEPT ![a] = s]
      BY <1>5 DEF PushOp, WakeOne
    <2>3. Guarding' = Guarding /\ Pushing' = Pushing - 1 /\ Living' = Living
      BY <1>l, <2>1, <2>2, PushEnds
    <2>4. Queueing' = Queueing + 1 /\ Completing' = Completing
      <3>1. arg[a] \in Entries /\ arg[a] # Task
        BY <2>1, Distinct DEF Entries
      <3>2. Cardinality(Filled(Append(op_queue_, arg[a]))) =
               Cardinality(Filled(op_queue_)) + (IF arg[a] = Task THEN 0 ELSE 1)
        BY <1>T, <3>1, AppendFilled
      <3> QED BY <1>c, <2>1, <3>1, <3>2 DEF Queueing
    <2>5. /\ IsFiniteSet(Private') /\ IsFiniteSet(PrivateWork')
          /\ Deferred' = Deferred /\ Reserved' = Reserved
      BY <1>k, <2>1
    <2>6. outstanding_work_' = outstanding_work_
      BY <2>1
    <2> QED BY <1>n, <2>3, <2>4, <2>5, <2>6, SMT DEF CountInv
  <1>6. ASSUME NEW a \in Actors, Signal(a), UNCHANGED <<strandVars, bodyVars>> PROVE CountInv'
    <2>1. /\ post[a] = "signal" /\ post' = [post EXCEPT ![a] = "idle"] /\ locked_' = locked_
          /\ UNCHANGED <<outstanding_work_, op_queue_, private_op_queue, private_outstanding_work>>
          /\ pc' = pc \/ \E t \in Threads : pc[t] = "wait" /\ pc' = [pc EXCEPT ![t] = "relock"]
      BY <1>6, <1>y DEF Signal
    <2>2. Guarding' = Guarding /\ Living' = Living /\ Pushing' = Pushing
      BY <1>T, <2>1, PostQuiet
    <2>3. \A t \in Threads : pc'[t] = "handler" <=> pc[t] = "handler"
      BY <1>T, <2>1
    <2> QED BY <1>u, <2>1, <2>2, <2>3, CompletingSame
  <1>7. ASSUME NEW c \in Clients, ReleaseGuard(c), UNCHANGED <<strandVars, bodyVars>>
        PROVE  CountInv'
    <2>1. /\ post[c] = "idle" /\ locked_' = locked_ /\ outstanding_work_' = outstanding_work_ - 1
          /\ UNCHANGED <<op_queue_, private_op_queue, private_outstanding_work, pc>>
      BY <1>7, <1>y DEF ReleaseGuard
    <2>2. PICK s \in {"stop", "gone"} : post' = [post EXCEPT ![c] = s]
      BY <1>7 DEF ReleaseGuard
    <2>3. Guarding' = Guarding - 1 /\ Pushing' = Pushing /\ Living' = Living
      BY <1>l, <1>t, <2>1, <2>2, GuardEnds
    <2>4. Queueing' = Queueing /\ Completing' = Completing
      BY <1>q, <1>c, <2>1
    <2>5. /\ IsFiniteSet(Private') /\ IsFiniteSet(PrivateWork')
          /\ Deferred' = Deferred /\ Reserved' = Reserved
      BY <1>k, <2>1
    <2> QED BY <1>n, <2>1, <2>3, <2>4, <2>5, SMT DEF CountInv
  <1>s. ASSUME NEW to, StopAllThreads(to),
               \A t \in Threads : to[t] = pc[t] \/ (to[t] = "out" /\ pc[t] = "stop"),
               Guarding' = Guarding, Living' = Living, Pushing' = Pushing
        PROVE  CountInv'
    <2>1. \A t \in Threads : pc'[t] = "handler" <=> pc[t] = "handler"
      BY <1>s, <1>T DEF StopAllThreads
    <2> QED BY <1>s, <1>u, <2>1, CompletingSame DEF StopAllThreads
  <1>8. ASSUME NEW c \in Clients, ClientStops(c), UNCHANGED <<strandVars, bodyVars>>
        PROVE  CountInv'
    <2>1. post[c] = "stop" /\ post' = [post EXCEPT ![c] = "gone"] /\ locked_' = locked_
      BY <1>8, <1>y DEF ClientStops
    <2>2. Guarding' = Guarding /\ Living' = Living /\ Pushing' = Pushing
      BY <1>T, <1>t, <2>1, PostQuiet
    <2> QED BY <1>8, <1>s, <2>2 DEF ClientStops
  <1>9. ASSUME NEW t \in Threads, NEW o \in Plain, DeferPlain(t, o) PROVE CountInv'
    <2>1. /\ UNCHANGED <<outstanding_work_, op_queue_, pc, post, locked_>>
          /\ private_op_queue' = [private_op_queue EXCEPT ![t] = Append(@, o)]
          /\ private_outstanding_work' = [private_outstanding_work EXCEPT ![t] = @ + 1]
      BY <1>9, <1>y DEF DeferPlain, Defer
    <2>2. /\ IsFiniteSet(Private') /\ Deferred' = Deferred + 1
          /\ IsFiniteSet(PrivateWork') /\ Reserved' = Reserved + 1
      BY <1>t, <2>1, PrivateMore
    <2>3. /\ Queueing' = Queueing /\ Completing' = Completing
          /\ Guarding' = Guarding /\ Living' = Living /\ Pushing' = Pushing
      BY <1>q, <1>c, <1>g, <2>1
    <2> QED BY <1>n, <2>1, <2>2, <2>3, SMT DEF CountInv
  <1>10. ASSUME NEW t \in Threads,
                \/ \E h \in Handlers : DispatchStrand(t, h)
                \/ RunReady(t) \/ NoneReady(t) \/ UpcallEnds(t)
         PROVE  CountInv'
    <2>1. UNCHANGED <<outstanding_work_, op_queue_, private_op_queue, private_outstanding_work, pc,
                      post, locked_>>
      BY <1>10, <1>y DEF DispatchStrand, dispatch, RunReady, ready_pop, NoneReady, UpcallEnds,
                         complete, schedVars
    <2> QED BY <1>c, <1>g, <1>u, <2>1
  <1>11. ASSUME NEW t \in Threads, InvokerExits(t) PROVE CountInv'
    <2>1. /\ UNCHANGED <<op_queue_, private_op_queue, private_outstanding_work, pc>>
          /\ stage[t] = "exit" /\ cur[t] \in Handlers /\ post[t] = "idle"
      BY <1>11 DEF InvokerExits, Idle, Control, ControlOf
    <2>2. locked_ /\ \A a \in Actors : ~Held(a)
      BY <2>1 DEF Runs, PlaceInv, OnePlace
    <2>3. Lives
      BY <2>2 DEF Lives, Held, Types, ArgOK
    <2>4. /\ Queueing' = Queueing /\ Completing' = Completing
          /\ IsFiniteSet(Private') /\ IsFiniteSet(PrivateWork')
          /\ Deferred' = Deferred /\ Reserved' = Reserved
      BY <1>c, <1>k, <1>q, <2>1
    <2>5. CASE locked_'
      <3>1. post' = [post EXCEPT ![t] = "again"] /\ outstanding_work_' = outstanding_work_
        BY <1>11, <2>5 DEF InvokerExits
      <3>2. Lives' /\ Guards' = Guards /\ Pushed' = Pushed
        BY <1>T, <1>t, <2>1, <2>3, <2>5, <3>1 DEF Lives, Guards, Pushed
      <3> QED BY <1>n, <2>3, <2>4, <3>1, <3>2 DEF CountInv, Living, Guarding, Pushing
    <2>6. CASE ~locked_'
      <3>1. post' = post /\ outstanding_work_' = outstanding_work_ - 1
        BY <1>11, <2>6 DEF InvokerExits
      <3>2. Living = 1 /\ Living' = 0 /\ Guarding' = Guarding /\ Pushing' = Pushing
        BY <2>3, <2>6, <3>1 DEF Lives, Living, Guards, Pushed, Guarding, Pushing
      <3> QED BY <1>n, <2>4, <3>1, <3>2, SMT DEF CountInv
    <2> QED BY <2>5, <2>6
  <1>12. ASSUME NEW t \in Threads, InvokerEnds(t) \/ PlainEnds(t) PROVE CountInv'
    <2>1. PICK throws : HandlerEnds(t, throws)
      BY <1>12 DEF InvokerEnds, PlainEnds
    <2>2. /\ UNCHANGED <<op_queue_, private_op_queue, post>> /\ locked_' = locked_
          /\ outstanding_work_' = outstanding_work_ + private_outstanding_work[t] - 1
          /\ private_outstanding_work' = [private_outstanding_work EXCEPT ![t] = 0]
          /\ pc[t] = "handler" /\ private_outstanding_work[t] \in Nat
      BY <1>12, <1>T, <1>y, <2>1 DEF InvokerEnds, PlainEnds, HandlerEnds, WorkLeft
    <2>3. pc'[t] # "handler" /\ \A u \in Threads \ {t} : pc'[u] = pc[u]
      BY <1>T, <2>1 DEF HandlerEnds
    <2>4. Completing' = Completing - 1
      BY <2>2, <2>3, CompletingLess
    <2>5. IsFiniteSet(PrivateWork') /\ Reserved' = Reserved - private_outstanding_work[t]
      BY <2>2, ReservedLess
    <2>6. Private' = Private /\ IsFiniteSet(Private)
      BY <2>2 DEF Private, CountInv
    <2>7. /\ Queueing' = Queueing /\ Guarding' = Guarding /\ Living' = Living /\ Pushing' = Pushing
          /\ Deferred' = Deferred /\ IsFiniteSet(Private')
      BY <1>g, <1>q, <2>2, <2>6 DEF Deferred
    <2>8. PICK p \in Nat : p = private_outstanding_work[t]
      BY <2>2
    <2>9. PICK s \in Int : s = Guarding + Living + Pushing + Queueing + Completing + Deferred
      BY <1>n, SMT
    <2>10. outstanding_work_ + Reserved = s
      BY <2>9 DEF CountInv
    <2>11. /\ outstanding_work_ + p - 1 \in Int
           /\ (outstanding_work_ + p - 1) + (Reserved - p) = s - 1
      BY <1>n, <2>10, SMT
    <2>12. Guarding + Living + Pushing + Queueing + (Completing - 1) + Deferred = s - 1
      BY <1>n, <2>9, SMT
    <2>13. outstanding_work_' = outstanding_work_ + p - 1 /\ Reserved' = Reserved - p
      BY <2>2, <2>5, <2>8
    <2> QED BY <2>4, <2>5, <2>7, <2>11, <2>12, <2>13 DEF CountInv
  <1>13. ASSUME NEW t \in Threads,
                UNCHANGED <<outstanding_work_, op_queue_, private_op_queue, private_outstanding_work,
                            post, locked_>>,
                NEW s, pc' = [pc EXCEPT ![t] = s], pc[t] # "handler", s # "handler"
         PROVE  CountInv'
    <2>1. \A u \in Threads : pc'[u] = "handler" <=> pc[u] = "handler"
      BY <1>13, <1>T
    <2> QED BY <1>13, <1>g, <1>u, <2>1, CompletingSame
  <1>14. ASSUME NEW t \in Threads, RunAgain(t) PROVE CountInv'
    BY <1>13, <1>14, <1>y DEF RunAgain, Run
  <1>15. ASSUME NEW t \in Threads, UNCHANGED <<strandVars, bodyVars>>,
                ReactorReturns(t) \/ SpuriousWake(t) \/ ReactorEvent(t)
         PROVE  CountInv'
    <2>1. locked_' = locked_
      BY <1>15, <1>y
    <2> QED BY <1>13, <1>15, <2>1 DEF ReactorReturns, SpuriousWake, ReactorEvent
  <1>16. ASSUME NEW t \in Threads, ThreadStops(t), UNCHANGED <<strandVars, bodyVars>>
         PROVE  CountInv'
    <2>1. \A u \in Threads : LET to == [pc EXCEPT ![t] = "out"]
                             IN  to[u] = pc[u] \/ (to[u] = "out" /\ pc[u] = "stop")
      BY <1>16, <1>T DEF ThreadStops
    <2>2. Guarding' = Guarding /\ Living' = Living /\ Pushing' = Pushing
      BY <1>16, <1>g, <1>y DEF ThreadStops
    <2> QED BY <1>16, <1>s, <2>1, <2>2 DEF ThreadStops
  <1>17. ASSUME NEW t \in Threads, Unwind(t), UNCHANGED <<strandVars, bodyVars>> PROVE CountInv'
    <2>1. /\ op_queue_' = op_queue_ \o private_op_queue[t]
          /\ private_op_queue' = [private_op_queue EXCEPT ![t] = <<>>]
          /\ pc[t] = "unwind" /\ pc' = [pc EXCEPT ![t] = "out"]
          /\ UNCHANGED <<outstanding_work_, private_outstanding_work, post, locked_>>
      BY <1>17, <1>y DEF Unwind
    <2>2. \A u \in Threads : pc'[u] = "handler" <=> pc[u] = "handler"
      BY <1>T, <2>1
    <2>3. IsFiniteSet(Private') /\ Deferred' = Deferred - Len(private_op_queue[t])
      BY <1>t, <2>1, DeferredLess
    <2>4. private_op_queue[t] \in Seq(Plain) /\ Len(private_op_queue[t]) \in Nat
      BY <1>T, SMT
    <2>5. Queueing' = Queueing + Len(private_op_queue[t])
      BY <1>T, <2>1, <2>4, ConcatFilled DEF Queueing
    <2>6. /\ Guarding' = Guarding /\ Living' = Living /\ Pushing' = Pushing
          /\ Completing' = Completing
      BY <1>g, <2>1, <2>2, CompletingSame
    <2>7. Reserved' = Reserved /\ IsFiniteSet(PrivateWork')
      BY <2>1 DEF Reserved, PrivateWork, CountInv
    <2>8. PICK n \in Nat : n = Len(private_op_queue[t])
      BY <2>4
    <2>9. /\ outstanding_work_' = outstanding_work_ /\ IsFiniteSet(Private')
          /\ Deferred' = Deferred - n /\ Queueing' = Queueing + n
      BY <2>1, <2>3, <2>5, <2>8
    <2> QED BY <1>n, <2>6, <2>7, <2>9, SMT DEF CountInv
  \* A pass of the loop.
  <1>p. ASSUME NEW t \in Threads, NEW q, NEW st, NEW ti, Pass(t, q, st, ti),
               UNCHANGED <<strandVars, bodyVars>>, IsFiniteSet(Private'), Deferred' \in Int,
               Cardinality(Filled(q)) = Queueing + Deferred - Deferred'
        PROVE  CountInv'
    <2>1. /\ q \in Seq(Entries) /\ post[t] = "idle" /\ pc[t] # "handler" /\ RunOne(t, q, st, ti)
          /\ UNCHANGED <<outstanding_work_, private_outstanding_work, locked_>>
      BY <1>p, <1>y, PassTypes DEF Pass
    <2>2. /\ \A u \in Threads \ {t} : pc'[u] = pc[u]
          /\ \A a \in Actors \ {t} : post'[a] = post[a]
          /\ post' = post \/ post'[t] \in {"idle", "signal"}
      BY <2>1, RunOneEffect DEF Types
    <2>3. Guarding' = Guarding /\ Living' = Living /\ Pushing' = Pushing
      BY <1>t, <2>1, <2>2, PostQuiet
    <2>4. Reserved' = Reserved /\ IsFiniteSet(PrivateWork')
      BY <2>1 DEF Reserved, PrivateWork, CountInv
    <2>o. /\ outstanding_work_' = outstanding_work_ /\ IsFiniteSet(Private') /\ Deferred' \in Int
          /\ Cardinality(Filled(q)) = Queueing + Deferred - Deferred'
      BY <1>p, <2>1
    <2>5. \/ /\ op_queue_' = q \/ (q # <<>> /\ op_queue_' = Tail(q) /\ Head(q) = Task)
             /\ pc'[t] # "handler"
          \/ /\ q # <<>> /\ op_queue_' = Tail(q) /\ Head(q) # Task /\ pc'[t] = "handler"
      <3>1. CASE PassStops(t, q, st, ti) \/ PassWaits(t, q, st, ti)
        BY <1>T, <3>1 DEF PassStops, PassWaits
      <3>2. CASE PassTask(t, q, st)
        BY <1>T, <3>2 DEF PassTask
      <3>3. CASE PassHandler(t, q, st, ti)
        BY <1>T, <3>3 DEF PassHandler
      <3> QED BY <2>1, <3>1, <3>2, <3>3, RunOneCases
    <2>6. CASE /\ op_queue_' = q \/ (q # <<>> /\ op_queue_' = Tail(q) /\ Head(q) = Task)
               /\ pc'[t] # "handler"
      <3>1. Completing' = Completing
        BY <2>1, <2>2, <2>6, CompletingSame
      <3>2. Queueing' = Cardinality(Filled(q)) \/ Queueing' = Cardinality(Filled(q)) - 0
        BY <2>1, <2>6, TailFilled DEF Queueing
      <3> QED BY <1>n, <2>3, <2>4, <2>o, <3>1, <3>2, SMT DEF CountInv
    <2>7. CASE q # <<>> /\ op_queue_' = Tail(q) /\ Head(q) # Task /\ pc'[t] = "handler"
      <3>1. Completing' = Completing + 1
        BY <2>1, <2>2, <2>7, CompletingMore
      <3>2. Cardinality(Filled(Tail(q))) = Cardinality(Filled(q)) - 1
        BY <2>1, <2>7, TailFilled
      <3>3. Queueing' = Cardinality(Filled(q)) - 1
        BY <2>7, <3>2 DEF Queueing
      <3>4. PICK s \in Int : s = Guarding + Living + Pushing
        BY <1>n, SMT
      <3>5. outstanding_work_ + Reserved = s + (Cardinality(Filled(q)) - 1) + (Completing + 1) + Deferred'
        <4>1. PICK n \in Int : n = Cardinality(Filled(q))
          BY <2>1, FilledFinite, SMT
        <4>2. PICK d \in Int : d = Deferred'
          BY <2>o
        <4>3. outstanding_work_ + Reserved = s + Queueing + Completing + Deferred
          BY <1>n, <3>4
        <4>4. n = Queueing + Deferred - d
          BY <2>o, <4>1, <4>2
        <4>5. outstanding_work_ + Reserved = s + (n - 1) + (Completing + 1) + d
          BY <1>n, <4>3, <4>4, SMT
        <4> QED BY <4>1, <4>2, <4>5
      <3>6. outstanding_work_' + Reserved' =
               Guarding' + Living' + Pushing' + Queueing' + Completing' + Deferred'
        BY <2>3, <2>4, <2>o, <3>1, <3>3, <3>4, <3>5
      <3> QED BY <1>n, <2>4, <2>o, <3>6 DEF CountInv
    <2> QED BY <2>5, <2>6, <2>7
  <1>18. ASSUME NEW t \in Threads, Loop(t), UNCHANGED <<strandVars, bodyVars>> PROVE CountInv'
    <2>1. private_op_queue' = [private_op_queue EXCEPT ![t] = <<>>]
      BY <1>18 DEF Loop
    <2>2. IsFiniteSet(Private') /\ Deferred' = Deferred - Len(private_op_queue[t])
      BY <1>t, <2>1, DeferredLess
    <2>3. private_op_queue[t] \in Seq(Plain) /\ Len(private_op_queue[t]) \in Nat
      BY <1>T, SMT
    <2>4. Cardinality(Filled(op_queue_ \o private_op_queue[t])) = Queueing + Len(private_op_queue[t])
      BY <1>T, <2>3, ConcatFilled DEF Queueing
    <2>5. Deferred' \in Int /\ Queueing + Len(private_op_queue[t]) = Queueing + Deferred - Deferred'
      BY <1>n, <2>2, <2>3, SMT
    <2> QED BY <1>18, <1>p, <2>2, <2>4, <2>5, Passes
  <1>19. ASSUME NEW t \in Threads, Relock(t) \/ TaskCleanup(t), UNCHANGED <<strandVars, bodyVars>>
         PROVE  CountInv'
    <2>1. UNCHANGED <<private_op_queue, private_outstanding_work>>
      BY <1>19 DEF Relock, TaskCleanup
    <2>2. IsFiniteSet(Private') /\ Deferred' = Deferred
      BY <1>k, <2>1
    <2>3. Deferred' \in Int /\ Queueing = Queueing + Deferred - Deferred'
      BY <1>n, <2>2, SMT
    <2>4. Cardinality(Filled(op_queue_)) = Queueing
      BY DEF Queueing
    <2>5. Cardinality(Filled(Append(op_queue_, Task))) = Queueing
      <3>1. Task \in Entries
        BY DEF Entries
      <3>2. Cardinality(Filled(Append(op_queue_, Task))) = Queueing + 0
        BY <1>T, <3>1, AppendFilled DEF Queueing
      <3> QED BY <1>n, <3>2, SMT
    <2>6. CASE TaskCleanup(t)
      BY <1>19, <1>p, <2>2, <2>3, <2>5, <2>6, Passes
    <2>7. CASE Pass(t, op_queue_, state_ - 2, task_interrupted_)
      BY <1>19, <1>p, <2>2, <2>3, <2>4, <2>7
    <2>8. CASE /\ pc[t] = "relock" /\ pc' = [pc EXCEPT ![t] = "wait"]
               /\ UNCHANGED <<op_queue_, outstanding_work_, private_op_queue,
                              private_outstanding_work, post>>
      BY <1>13, <1>19, <1>y, <2>8
    <2> QED BY <1>19, <2>6, <2>7, <2>8, Passes
  <1>20. ASSUME Destroy \/ UNCHANGED vars PROVE CountInv'
    <2>1. UNCHANGED <<outstanding_work_, op_queue_, private_op_queue, private_outstanding_work, pc,
                      post, locked_>>
      BY <1>20 DEF Destroy, shutdown, vars, schedVars, strandVars
    <2> QED BY <1>c, <1>g, <1>u, <2>1
  <1> QED BY <1>1, <1>2, <1>3, <1>4, <1>5, <1>6, <1>7, <1>8, <1>9, <1>10, <1>11, <1>12, <1>14,
             <1>15, <1>16, <1>17, <1>18, <1>19, <1>20
          DEF Next, Submit, Posting, Body, RunStep

LEMMA Counted == FiniteFacts /\ Types /\ PlaceInv /\ CountInv => WorkCounted
  <1> USE Zenon
  <1> SUFFICES ASSUME FiniteFacts, Types, PlaceInv, CountInv PROVE WorkCounted
    OBVIOUS
  <1>1. Cardinality(Invokers) = Living
    BY InvokersCount DEF Living
  <1>2. Cardinality(Queued) = Queueing
    BY DEF Queued, Queueing, Filled
  <1> QED BY <1>1, <1>2
          DEF CountInv, WorkCounted, Guarding, Pushing, Completing, Deferred, Reserved
-----------------------------------------------------------------------------
(***************************************************************************)
(* The waiters that wakeup_event_ counts.                                  *)
(***************************************************************************)
\* state_ is st with n waiters.
Counts(st, n) == st = 2 * n \/ st = 2 * n + 1
EventInv      == Counts(state_, Cardinality(Waiting))

LEMMA EventCounts ==
    ASSUME NEW n \in Nat, NEW st, Counts(st, n)
    PROVE  /\ st \in Nat
           /\ Counts(SetBit(st), n)
           /\ Counts(2 * (st \div 2) + 2, n + 1)
           /\ st % 2 = 1 => st = 2 * n + 1
  <1>1. st \in Nat
    BY DEF Counts
  <1>2. CASE st = 2 * n
    <2>1. st % 2 = 0 /\ st \div 2 = n
      BY <1>2
    <2> QED BY <1>1, <1>2, <2>1 DEF Counts, SetBit
  <1>3. CASE st = 2 * n + 1
    <2>1. st % 2 = 1 /\ st \div 2 = n
      BY <1>3
    <2> QED BY <1>1, <1>3, <2>1 DEF Counts, SetBit
  <1> QED BY <1>2, <1>3 DEF Counts

LEMMA WaitingFinite ==
    ASSUME FiniteFacts
    PROVE  IsFiniteSet(Waiting) /\ Cardinality(Waiting) \in Nat
  <1>1. IsFiniteSet(Threads) /\ Waiting \in SUBSET Threads
    BY PoolAssumption, Zenon DEF Waiting
  <1> QED BY <1>1, Zenon DEF FiniteFacts, Subsets, Sizes

LEMMA CountsSeen ==
    ASSUME FiniteFacts, NEW W \in SUBSET Threads, NEW st, Counts(st, Cardinality(W)), st % 2 = 1
    PROVE  st > 1 <=> W # {}
  <1>1. IsFiniteSet(W) /\ Cardinality(W) \in Nat
    BY PoolAssumption, Zenon DEF FiniteFacts, Subsets, Sizes
  <1>2. PICK n \in Nat : n = Cardinality(W)
    BY <1>1, Zenon
  <1>3. st = 2 * n + 1
    BY <1>2, EventCounts, Zenon
  <1>4. st > 1 <=> n # 0
    BY <1>3, SMT
  <1> QED BY <1>1, <1>2, <1>4, Zenon DEF FiniteFacts, EmptySet

LEMMA SeenRight == FiniteFacts /\ EventInv' => Seen'
  <1>1. Waiting' \in SUBSET Threads
    BY Zenon DEF Waiting
  <1> QED BY <1>1, CountsSeen, Zenon DEF EventInv, Seen

LEMMA InitEvent == FiniteFacts /\ Init => EventInv
  <1> SUFFICES ASSUME FiniteFacts, Init PROVE EventInv
    OBVIOUS
  <1>1. Waiting = {}
    BY Zenon DEF Init, SchedInit, Waiting
  <1>2. Cardinality(Waiting) = 0 /\ state_ = 1
    BY <1>1, Zenon DEF FiniteFacts, EmptySet, Init, SchedInit
  <1> QED BY <1>2 DEF EventInv, Counts

LEMMA EventStep == FiniteFacts /\ Types /\ Control /\ EventInv /\ [Next]_vars => EventInv'
  <1> USE Zenon
  <1> SUFFICES ASSUME FiniteFacts, Types, Control, EventInv, [Next]_vars PROVE EventInv'
    OBVIOUS
  <1>T. pc \in [Threads -> PcStates]
    BY DEF Types, SchedTypes
  <1>u. ASSUME \A t \in Threads : pc'[t] \in {"wait", "relock"} <=> pc[t] \in {"wait", "relock"},
               state_' = state_ \/ state_' = SetBit(state_)
        PROVE  EventInv'
    <2>1. Waiting' = Waiting
      BY <1>u DEF Waiting
    <2> QED BY <1>u, <2>1, EventCounts, WaitingFinite DEF EventInv
  <1>v. ASSUME UNCHANGED <<state_, pc>> PROVE EventInv'
    BY <1>u, <1>v
  <1>s. ASSUME NEW to, StopAllThreads(to),
               \A t \in Threads : to[t] = pc[t] \/ (to[t] = "out" /\ pc[t] = "stop")
        PROVE  EventInv'
    <2>1. \A t \in Threads : pc'[t] \in {"wait", "relock"} <=> pc[t] \in {"wait", "relock"}
      BY <1>s, <1>T DEF StopAllThreads
    <2> QED BY <1>s, <1>u, <2>1 DEF StopAllThreads
  <1>1. ASSUME NEW a \in Actors, Submit(a) \/ PushReady(a) \/ Schedule(a) PROVE EventInv'
    BY <1>1, <1>v DEF Submit, PostPlain, PostStrand, PushReady, Schedule, WorkStarted
  <1>2. ASSUME NEW a \in Actors, PushOp(a) PROVE EventInv'
    BY <1>2, <1>u DEF PushOp, WakeOne
  <1>3. ASSUME NEW a \in Actors, Signal(a) PROVE EventInv'
    <2>1. /\ pc' = pc \/ \E t \in Threads : pc[t] = "wait" /\ pc' = [pc EXCEPT ![t] = "relock"]
          /\ state_' = state_
      BY <1>3 DEF Signal
    <2>2. \A t \in Threads : pc'[t] \in {"wait", "relock"} <=> pc[t] \in {"wait", "relock"}
      BY <1>T, <2>1
    <2> QED BY <1>u, <2>1, <2>2
  <1>4. ASSUME NEW c \in Clients, ReleaseGuard(c) \/ ClientStops(c) PROVE EventInv'
    BY <1>4, <1>s, <1>v DEF ReleaseGuard, ClientStops
  <1>5. ASSUME NEW t \in Threads,
               \/ \E o \in Plain : DeferPlain(t, o)
               \/ \E h \in Handlers : DispatchStrand(t, h)
               \/ RunReady(t) \/ NoneReady(t) \/ UpcallEnds(t) \/ InvokerExits(t)
        PROVE  EventInv'
    BY <1>5, <1>v DEF DeferPlain, Defer, DispatchStrand, RunReady, NoneReady, UpcallEnds,
                      InvokerExits, schedVars
  <1>6. ASSUME NEW t \in Threads, state_' = state_, NEW s, pc' = [pc EXCEPT ![t] = s],
               s \in {"wait", "relock"} <=> pc[t] \in {"wait", "relock"}
        PROVE  EventInv'
    BY <1>6, <1>T, <1>u
  <1>7. ASSUME NEW t \in Threads, InvokerEnds(t) \/ PlainEnds(t) PROVE EventInv'
    <2>1. /\ state_' = state_ /\ pc[t] = "handler"
          /\ \E s \in {"stop", "unwind", "loop"} : pc' = [pc EXCEPT ![t] = s]
      BY <1>7 DEF InvokerEnds, PlainEnds, HandlerEnds
    <2> QED BY <1>6, <2>1
  <1>8. ASSUME NEW t \in Threads,
               RunAgain(t) \/ ReactorReturns(t) \/ SpuriousWake(t) \/ ReactorEvent(t) \/ Unwind(t)
        PROVE  EventInv'
    BY <1>6, <1>8 DEF RunAgain, Run, ReactorReturns, SpuriousWake, ReactorEvent, Unwind
  <1>9. ASSUME NEW t \in Threads, ThreadStops(t) PROVE EventInv'
    <2>1. \A u \in Threads : LET to == [pc EXCEPT ![t] = "out"]
                             IN  to[u] = pc[u] \/ (to[u] = "out" /\ pc[u] = "stop")
      BY <1>9, <1>T DEF ThreadStops
    <2> QED BY <1>9, <1>s, <2>1 DEF ThreadStops
  \* A pass of the loop: t is not among the others that wait.
  <1>p. ASSUME NEW t \in Threads, NEW q, NEW st, NEW ti, Pass(t, q, st, ti) PROVE EventInv'
    <2> DEFINE Others == Waiting \ {t}
    <2>1. q \in Seq(Entries) /\ RunOne(t, q, st, ti)
      BY <1>p, PassTypes DEF Pass
    <2>2. /\ Cardinality(Others) = IF t \in Waiting THEN Cardinality(Waiting) - 1 ELSE Cardinality(Waiting)
          /\ IsFiniteSet(Others) /\ Cardinality(Others) \in Nat
      BY WaitingFinite DEF FiniteFacts, RemoveElement, Sizes
    <2>3. Counts(st, Cardinality(Others))
      <3>1. CASE pc[t] = "relock"
        <4>1. /\ t \in Waiting /\ st = state_ - 2 /\ state_ % 2 = 1
              /\ Cardinality(Others) = Cardinality(Waiting) - 1
          BY <1>p, <2>2, <3>1 DEF Pass, Waiting
        <4>2. PICK n \in Nat : n = Cardinality(Waiting)
          BY WaitingFinite
        <4>3. state_ = 2 * n + 1
          BY <4>1, <4>2, EventCounts DEF EventInv
        <4>4. state_ - 2 = 2 * (n - 1) + 1
          BY <4>3, SMT
        <4> QED BY <4>1, <4>2, <4>4 DEF Counts
      <3>2. CASE pc[t] # "relock"
        <4>1. t \notin Waiting /\ st = state_
          BY <1>p, <3>2 DEF Pass, Waiting
        <4> QED BY <2>2, <4>1 DEF EventInv
      <3> QED BY <3>1, <3>2
    <2>4. \A u \in Threads \ {t} : pc'[u] = pc[u]
      BY <2>1, RunOneEffect DEF Types
    <2>5. CASE PassWaits(t, q, st, ti)
      <3>1. pc'[t] = "wait" /\ state_' = 2 * (st \div 2) + 2
        BY <1>T, <2>5 DEF PassWaits
      <3>2. Waiting' = Others \cup {t} /\ t \notin Others
        BY <2>4, <3>1, SMT DEF Waiting
      <3>3. Cardinality(Others \cup {t}) = IF t \in Others THEN Cardinality(Others) ELSE Cardinality(Others) + 1
        BY <2>2 DEF FiniteFacts, AddElement
      <3>4. Cardinality(Waiting)' = Cardinality(Others) + 1
        BY <3>2, <3>3
      <3> HIDE DEF Others
      <3> QED BY <2>2, <2>3, <3>1, <3>4, EventCounts DEF EventInv
    <2>6. CASE PassStops(t, q, st, ti) \/ PassTask(t, q, st) \/ PassHandler(t, q, st, ti)
      <3>1. pc'[t] \notin {"wait", "relock"} /\ (state_' = st \/ state_' = SetBit(st))
        <4>1. CASE PassStops(t, q, st, ti)
          BY <1>T, <4>1 DEF PassStops
        <4>2. CASE PassTask(t, q, st)
          BY <1>T, <4>2 DEF PassTask
        <4>3. CASE PassHandler(t, q, st, ti)
          BY <1>T, <4>3 DEF PassHandler, WakeOne
        <4> QED BY <2>6, <4>1, <4>2, <4>3
      <3>2. Waiting' = Others
        BY <2>4, <3>1 DEF Waiting
      <3> HIDE DEF Others
      <3> QED BY <2>2, <2>3, <3>1, <3>2, EventCounts DEF EventInv
    <2> QED BY <2>1, <2>5, <2>6, RunOneCases
  <1>10. ASSUME NEW t \in Threads, Loop(t) \/ Relock(t) \/ TaskCleanup(t) PROVE EventInv'
    BY <1>6, <1>10, <1>p, Passes
  <1>11. ASSUME Destroy \/ UNCHANGED vars PROVE EventInv'
    BY <1>11, <1>v DEF Destroy, vars, schedVars
  <1> QED BY <1>1, <1>2, <1>3, <1>4, <1>5, <1>7, <1>8, <1>9, <1>10, <1>11
          DEF Next, Posting, Body, RunStep
-----------------------------------------------------------------------------
(***************************************************************************)
(* What it means that the count is zero.                                   *)
(***************************************************************************)
LEMMA ReservedFirst == FiniteFacts /\ Types /\ Reserve /\ CountInv => Reserved <= Deferred
  <1> USE Zenon
  <1> SUFFICES ASSUME FiniteFacts, Types, Reserve, CountInv PROVE Reserved <= Deferred
    OBVIOUS
  <1>1. \A t \in Threads : 1 .. private_outstanding_work[t] \subseteq DOMAIN private_op_queue[t]
    BY SMT DEF Types, SchedTypes, Reserve
  <1>2. PrivateWork \in SUBSET Private
    <2>1. \A t \in Threads : {t} \X (1 .. private_outstanding_work[t]) \subseteq
                             {t} \X DOMAIN private_op_queue[t]
      BY <1>1
    <2>2. ASSUME NEW x \in PrivateWork PROVE x \in Private
      <3>1. PICK t \in Threads : x \in {t} \X (1 .. private_outstanding_work[t])
        BY <2>2 DEF PrivateWork
      <3>2. x \in {t} \X DOMAIN private_op_queue[t]
        BY <2>1, <3>1
      <3> QED BY <3>2 DEF Private
    <2> QED BY <2>2
  <1>3. Cardinality(PrivateWork) <= Cardinality(Private)
    BY <1>2 DEF FiniteFacts, Subsets, CountInv
  <1> QED BY <1>3 DEF Reserved, Deferred

LEMMA WorkNat == FiniteFacts /\ Types /\ Reserve /\ CountInv => outstanding_work_ \in Nat
  <1> SUFFICES ASSUME FiniteFacts, Types, Reserve, CountInv PROVE outstanding_work_ \in Nat
    OBVIOUS
  <1> QED BY ReservedFirst, Numbers DEF CountInv

LEMMA ZeroRight == FiniteFacts /\ Types /\ Control /\ Reserve /\ CountInv => ZeroInv
  <1> USE Zenon
  <1> SUFFICES ASSUME FiniteFacts, Types, Control, Reserve, CountInv, outstanding_work_ = 0 PROVE NoWork
    BY DEF ZeroInv
  <1>n. /\ Guarding \in Nat /\ Living \in Nat /\ Pushing \in Nat /\ Queueing \in Nat
        /\ Completing \in Nat /\ Deferred \in Nat /\ Reserved \in Nat /\ Reserved <= Deferred
        /\ 0 + Reserved = Guarding + Living + Pushing + Queueing + Completing + Deferred
    BY Numbers, ReservedFirst DEF CountInv
  <1>1. Guarding = 0 /\ Living = 0 /\ Pushing = 0 /\ Queueing = 0 /\ Completing = 0 /\ Deferred = Reserved
    BY <1>n, SMT
  <1>2. /\ Guards = {} /\ Pushed = {} /\ Completed = {}
    BY <1>1, FiniteParts DEF FiniteFacts, EmptySet, Guarding, Pushing, Completing
  <1>3. Queued = {}
    <2>1. Filled(op_queue_) = {}
      BY <1>1, FilledFinite DEF FiniteFacts, EmptySet, Queueing, Types, SchedTypes
    <2> QED BY <2>1 DEF Queued, Filled
  <1>4. \A t \in Threads : pc[t] # "handler"
    BY <1>2 DEF Completed
  <1>5. Reserved = 0
    <2>1. \A t \in Threads : private_outstanding_work[t] = 0
      BY <1>4 DEF Reserve
    <2>2. 1 .. 0 = {}
      BY SMT
    <2>3. \A t \in Threads : {t} \X (1 .. private_outstanding_work[t]) = {}
      BY <2>1, <2>2
    <2>4. PrivateWork = {}
      BY <2>3 DEF PrivateWork
    <2> QED BY <2>4 DEF FiniteFacts, EmptySet, Reserved
  <1>6. Private = {}
    BY <1>1, <1>5 DEF FiniteFacts, EmptySet, Deferred, CountInv
  <1>7. ASSUME NEW t \in Threads PROVE private_op_queue[t] = <<>>
    <2>1. private_op_queue[t] \in Seq(Plain)
      BY DEF Types, SchedTypes
    <2>2. \A k \in DOMAIN private_op_queue[t] : <<t, k>> \in Private
      BY SMT DEF Private
    <2>3. DOMAIN private_op_queue[t] = {}
      BY <1>6, <2>2
    <2>4. \A q \in Seq(Plain) : q # <<>> => 1 \in DOMAIN q
      BY SMT
    <2> QED BY <2>1, <2>3, <2>4
  <1>8. \A a \in Actors : post[a] \in {"idle", "signal", "stop", "gone"}
    <2>1. ASSUME NEW t \in Threads PROVE post[t] \in {"idle", "signal", "stop", "gone"}
      BY <1>4 DEF Control, ControlOf
    <2>2. ASSUME NEW c \in Clients PROVE post[c] \in {"idle", "signal", "stop", "gone"}
      BY <1>2 DEF Guards
    <2> QED BY <2>1, <2>2 DEF Actors
  <1>9. ~locked_
    <2>1. ~Lives
      BY <1>1, SMT DEF Living
    <2> QED BY <1>8, <2>1 DEF Lives
  <1> QED BY <1>2, <1>3, <1>7, <1>8, <1>9 DEF NoWork
-----------------------------------------------------------------------------
(***************************************************************************)
(* The inductive invariant, and what it gives.                             *)
(***************************************************************************)
Inv ==
    /\ Types /\ Control /\ Throws /\ Reserve /\ Closed
    /\ PlaceInv /\ TaskInv /\ StrandKeeps /\ PoolKeeps
    /\ CountInv /\ EventInv /\ StopInv /\ WakeInv
-----------------------------------------------------------------------------
Lib == INSTANCE FiniteSetTheorems

LEMMA SameSizes ==
    /\ \A S : Lib!IsFiniteSet(S) <=> IsFiniteSet(S)
    /\ \A S : Lib!Cardinality(S) = Cardinality(S)
  BY Zenon DEF IsFiniteSet, Cardinality, Lib!IsFiniteSet, Lib!Cardinality

LEMMA FiniteFactsHold == FiniteFacts
  <1> USE SameSizes, Zenon
  <1>1. Sizes /\ EmptySet /\ Singleton /\ Intervals
    BY Lib!FS_CardinalityType, Lib!FS_EmptySet, Lib!FS_Singleton, Lib!FS_Interval
       DEF Sizes, EmptySet, Singleton, Intervals
  <1>2. Subsets /\ AddElement /\ RemoveElement
    BY Lib!FS_Subset, Lib!FS_AddElement, Lib!FS_RemoveElement
       DEF Subsets, AddElement, RemoveElement
  <1>3. Unions /\ Differences /\ Products
    BY Lib!FS_Union, Lib!FS_Difference, Lib!FS_Product DEF Unions, Differences, Products
  <1>4. ASSUME NEW A, NEW B, NEW f, IsFiniteSet(A), OneToOne(f, A, B)
        PROVE  Cardinality(B) = Cardinality(A)
    <2>1. f \in Lib!Bijection(A, B)
      BY <1>4 DEF OneToOne, Lib!Bijection, Lib!Injection, Lib!Surjection, Lib!IsInjective
    <2> QED BY <1>4, <2>1, Lib!FS_Bijection DEF Lib!ExistsBijection
  <1> QED BY <1>1, <1>2, <1>3, <1>4 DEF FiniteFacts, Bijections

\* The inductive invariant holds: where every thread, client, handler and invoker
\* can be together, across the posting, run and strand functions.
THEOREM InvHolds == Spec => []Inv
  <1> USE Zenon
  <1>1. Init => Inv
    BY FiniteFactsHold, InitTypes, InitControl, InitPlace, InitKeeps, InitCounts, InitEvent,
       InitStop, InitWake
       DEF Inv
  <1>2. Inv /\ [Next]_vars => Inv'
    <2> SUFFICES ASSUME Inv, [Next]_vars PROVE Inv'
      OBVIOUS
    <2>1. Types' /\ Control' /\ Throws' /\ Reserve' /\ Closed'
      BY TypesStep, ControlStep, ThrowsStep, ReserveStep, ClosedStep DEF Inv
    <2>2. PlaceInv' /\ TaskInv' /\ StrandKeeps' /\ PoolKeeps'
      BY PlaceStep, TaskStep, StrandKeepsStep, PoolKeepsStep DEF Inv
    <2>3. CountInv' /\ EventInv' /\ ZeroInv
      BY FiniteFactsHold, CountStep, EventStep, ZeroRight DEF Inv
    <2>4. Seen'
      BY <2>3, FiniteFactsHold, SeenRight
    <2>5. StopInv' /\ WakeInv'
      BY <2>2, <2>3, <2>4, StopStep, WakeStep DEF Inv
    <2> QED BY <2>1, <2>2, <2>3, <2>5 DEF Inv
  <1> QED BY <1>1, <1>2, PTL DEF Spec

\* The counters stay natural numbers: work_finished and the waiters of
\* wakeup_event_ never take away more than work_started and wait have added.
THEOREM TypeCorrect == Spec => []TypeOK
  <1> USE Zenon
  <1>1. Inv => TypeOK
    <2> SUFFICES ASSUME Inv PROVE TypeOK
      OBVIOUS
    <2>1. outstanding_work_ \in Nat
      BY FiniteFactsHold, WorkNat DEF Inv
    <2>2. state_ \in Nat
      BY FiniteFactsHold, EventCounts, WaitingFinite DEF Inv, EventInv
    <2> QED BY <2>1, <2>2 DEF Inv, Types, SchedTypes, PoolTypes, PcStates, PostStates, TypeOK
  <1> QED BY <1>1, InvHolds, PTL

\* outstanding_work_ and the threads' private counts add up to the guards, the
\* invoker and the operations that are being pushed, queued or completed.
THEOREM WorkCountedHolds == Spec => []WorkCounted
  <1>1. Inv => WorkCounted
    BY FiniteFactsHold, Counted, Zenon DEF Inv
  <1> QED BY <1>1, InvHolds, PTL

\* When work_finished stops the scheduler, every handler that was posted to it
\* or submitted to the strand has run.
THEOREM RunsUntilDoneHolds == Spec => []RunsUntilDone
  <1>1. Inv => RunsUntilDone
    BY FiniteFactsHold, AllDone, ZeroRight, Zenon DEF Inv
  <1> QED BY <1>1, InvHolds, PTL

\* No operation stays in op_queue_ while threads sleep in wakeup_event_ or in the
\* reactor and nobody is on the way to wake one, as long as no handler has thrown.
THEOREM NoLostWakeupHolds == Spec => []NoLostWakeup
  <1>1. Inv => NoLostWakeup
    BY AwakeEnough, Zenon DEF Inv
  <1> QED BY <1>1, InvHolds, PTL
-----------------------------------------------------------------------------
(***************************************************************************)
(* The pool implements AsioStrand, and so what AsioStrand_proofs shows of  *)
(* every strand.  The mapping is the one of AsioPoolStrand: SP!Spec is its *)
(* StrandSpec, and SP!SerialSpec its SerialSpec.                           *)
(***************************************************************************)
SP == INSTANCE AsioStrand_proofs WITH None <- NoOp, inv <- InvOf, up <- UpOf

LEMMA StrandStep == StrandMoves => SP!Next
  <1> USE Zenon
  <1>1. ASSUME NEW i \in Handlers
        PROVE  /\ DoesEnqueue(i) => SP!Enqueue(i)
               /\ DoesPushReady(i) => SP!PushReady(i)
               /\ DoesSchedule(i) => SP!Schedule(i)
               /\ DoesInvoke(i) => SP!Invoke(i)
               /\ DoesRunReady(i) => SP!RunReady(i)
               /\ DoesNoneReady(i) => SP!NoneReady(i)
               /\ DoesComplete(i) => SP!Complete(i)
               /\ DoesExit(i) => SP!OnInvokerExit(i)
               /\ \A h \in Handlers : DoesDispatch(i, h) => SP!Dispatch(i, h)
    BY DEF DoesEnqueue, DoesPushReady, DoesSchedule, DoesInvoke, DoesRunReady, DoesNoneReady,
           DoesComplete, DoesExit, DoesDispatch, enqueue, first, ready_push, ready_pop, complete,
           push_waiting_to_ready, dispatch, strandVars,
           SP!Enqueue, SP!enqueue, SP!first, SP!PushReady, SP!ready_push, SP!Schedule, SP!Invoke,
           SP!RunReady, SP!ready_pop, SP!NoneReady, SP!Complete, SP!complete, SP!OnInvokerExit,
           SP!push_waiting_to_ready, SP!Dispatch, SP!dispatch
  <1>2. DoesShutdown => SP!Shutdown
    BY DEF DoesShutdown, shutdown, Elements, SP!Shutdown, SP!shutdown, SP!Elements
  <1> QED BY <1>1, <1>2 DEF StrandMoves, SP!Next, SP!Strand

LEMMA StrandStutter == StrandRests => UNCHANGED SP!vars
  BY Zenon DEF StrandRests, strandVars, SP!vars

LEMMA StrandInit == Init => SP!Init
  <1> USE Zenon
  <1> SUFFICES ASSUME Init PROVE SP!Init
    OBVIOUS
  <1>1. Mapped
    BY InitPlace, MapRight
  <1>2. ASSUME NEW i \in Handlers PROVE InvokerAt(i) = "none" /\ UpcallOf(i) = NoOp
    <2>1. i # Task /\ i # NoOp
      BY PoolAssumption
    <2>2. ~Has(op_queue_, i)
      BY <2>1, SMT DEF Init, SchedInit, Has
    <2>3. ~Readies(i) /\ ~Holds(i) /\ ~Within(i) /\ ~Leaves(i)
      BY <2>1 DEF Init, SchedInit, Readies, Holds, Within, Leaves, At
    <2> QED BY <1>1, <2>2, <2>3 DEF Mapped, MappedAt
  <1> QED BY <1>2 DEF Init, SP!Init, InvOf, UpOf

\* The scheduler is an executor as AsioStrand has it: an invoker that execute has
\* posted is in one queue or on one thread, and is run once for each time that
\* enqueue or on_invoker_exit has handed it over.
THEOREM StrandRefined == Spec => SP!Spec
  <1>1. Inv /\ Inv' /\ [Next]_vars => [SP!Next]_(SP!vars)
    BY StrandDoes, StrandStep, StrandStutter, Zenon DEF Inv
  <1> QED BY <1>1, StrandInit, InvHolds, PTL DEF Spec, SP!Spec

\* On the threads of the pool, whichever of them wake, sleep, stop or throw, the
\* strand's handlers run one at a time, in the order of their enqueue, each once.
THEOREM SerialRefined == Spec => SP!SerialSpec
  <1>1. SP!Spec => SP!SerialSpec
    BY SP!Refinement, PoolAssumption
  <1> QED BY <1>1, StrandRefined
=============================================================================
