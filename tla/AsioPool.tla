------------------------------ MODULE AsioPool ------------------------------
(***************************************************************************)
(* A strand on the threads of an io_context: AsioScheduler is the executor *)
(* that AsioStrand runs over.  The scheduler's operations are the strand's *)
(* invokers, and plain handlers posted without the strand.  Clients and    *)
(* running handlers submit to both; any handler may throw out of run().    *)
(*                                                                         *)
(* Source: 20251411-SocketC++/Boost-Asio/include/asio/impl/io_context.hpp, *)
(*         detail/executor_op.hpp, detail/impl/strand_executor_service.hpp *)
(***************************************************************************)
EXTENDS AsioScheduler, StrandService

CONSTANTS
    Handlers,   \* handlers of the strand; each also names its invoker
    Plain       \* handlers posted to the io_context itself

ASSUME PoolAssumption ==
    /\ Handlers \cap Plain = {} /\ {Task, NoOp} \cap (Handlers \cup Plain) = {}
    /\ IsFiniteSet(Threads) /\ IsFiniteSet(Clients) /\ Threads \cap Clients = {}

VARIABLES
    stage,         \* where each thread is in the invoker it runs
    upcall,        \* the strand handler it is in, or NoOp
    threw,         \* an exception is leaving, or has left, its run()
    posted, ran    \* the plain handlers posted, and those that have run

strandVars == <<locked_, shutdown_, waiting_queue_, ready_queue_, submitted, over>>
bodyVars   == <<stage, upcall, threw, posted, ran>>
vars       == <<schedVars, strandVars, bodyVars>>

\* Thread t is completing the invoker i, and is at s in it.
At(t, i, s) == cur[t] = i /\ stage[t] = s

InvokerAt(i) ==
    IF \E a \in Actors : post[a] = "ready" /\ arg[a] = i THEN "ready"
    ELSE IF \E a \in Actors : post[a] \in {"make", "again", "push"} /\ arg[a] = i THEN "held"
    ELSE IF \E k \in DOMAIN op_queue_ : op_queue_[k] = i THEN "queued"
    ELSE IF \E t \in Threads : At(t, i, "run") THEN "run"
    ELSE IF \E t \in Threads : At(t, i, "exit") THEN "exit"
    ELSE "none"

UpcallOf(i) ==
    IF \E t \in Threads : At(t, i, "run") THEN upcall[CHOOSE t \in Threads : At(t, i, "run")]
                                          ELSE NoOp

Init ==
    /\ SchedInit
    /\ locked_ = FALSE /\ shutdown_ = FALSE /\ waiting_queue_ = <<>> /\ ready_queue_ = <<>>
    /\ submitted = {} /\ over = {}
    /\ stage = [t \in Threads |-> "run"]
    /\ upcall = [t \in Threads |-> NoOp]
    /\ threw = [t \in Threads |-> FALSE]
    /\ posted = {} /\ ran = {}

\* a is a client with its work guard, or in the body of a user's handler.
Posts(a) == MayPost(a) /\ (a \in Threads => cur[a] \in Plain \/ upcall[a] # NoOp)
-----------------------------------------------------------------------------
(***************************************************************************)
(* Submitting.                                                             *)
(***************************************************************************)
PostPlain(a, o) ==
    /\ Posts(a) /\ o \notin posted
    /\ WorkStarted(a, o, 1)
    /\ posted' = posted \cup {o}
    /\ UNCHANGED <<strandVars, stage, upcall, threw, ran>>

DeferPlain(t, o) ==
    /\ Posts(t) /\ o \notin posted
    /\ Defer(t, o)
    /\ posted' = posted \cup {o}
    /\ UNCHANGED <<strandVars, stage, upcall, threw, ran>>

\* strand.post: enqueue; the one that locks the strand goes on.
PostStrand(a, h) ==
    /\ Posts(a) /\ h \notin submitted
    /\ enqueue(h)
    /\ IF first THEN post' = [post EXCEPT ![a] = "ready"] /\ arg' = [arg EXCEPT ![a] = h]
                  ELSE UNCHANGED <<post, arg>>
    /\ UNCHANGED <<op_queue_, outstanding_work_, stopped_, state_, task_interrupted_,
                   interrupter, private_op_queue, private_outstanding_work, pc, cur, bodyVars>>

PushReady(a) ==
    /\ post[a] = "ready"
    /\ ready_push(arg[a])
    /\ post' = [post EXCEPT ![a] = "make"]
    /\ UNCHANGED <<op_queue_, outstanding_work_, stopped_, state_, task_interrupted_,
                   interrupter, private_op_queue, private_outstanding_work, pc, cur, arg, bodyVars>>

\* execute(invoker): a new invoker has an executor that is work by itself; one
\* that is handed over again moves it along.
Schedule(a) ==
    /\ post[a] \in {"make", "again"}
    /\ WorkStarted(a, arg[a], IF post[a] = "make" THEN 2 ELSE 1)
    /\ UNCHANGED <<strandVars, bodyVars>>
-----------------------------------------------------------------------------
(***************************************************************************)
(* Handlers, on the thread t that completes their operation.               *)
(***************************************************************************)
Idle(t) == pc[t] = "handler" /\ post[t] = "idle"

RunReady(t) ==
    /\ Idle(t) /\ cur[t] \in Handlers /\ stage[t] = "run" /\ upcall[t] = NoOp
    /\ ready_queue_ # <<>>
    /\ ready_pop
    /\ upcall' = [upcall EXCEPT ![t] = Head(ready_queue_)]
    /\ UNCHANGED <<schedVars, stage, threw, posted, ran>>

NoneReady(t) ==
    /\ Idle(t) /\ cur[t] \in Handlers /\ stage[t] = "run" /\ upcall[t] = NoOp
    /\ ready_queue_ = <<>>
    /\ stage' = [stage EXCEPT ![t] = "exit"]
    /\ UNCHANGED <<schedVars, strandVars, upcall, threw, posted, ran>>

\* A strand handler returns, or throws out of run_ready_handlers.
UpcallEnds(t) ==
    /\ Idle(t) /\ upcall[t] # NoOp
    /\ complete(upcall[t])
    /\ upcall' = [upcall EXCEPT ![t] = NoOp]
    /\ \E throws \in BOOLEAN :
          /\ threw' = [threw EXCEPT ![t] = throws]
          /\ stage' = [stage EXCEPT ![t] = IF throws THEN "exit" ELSE "run"]
    /\ UNCHANGED <<schedVars, posted, ran>>

DispatchStrand(t, h) ==
    /\ Idle(t) /\ upcall[t] # NoOp /\ h \notin submitted
    /\ dispatch(h)
    /\ UNCHANGED <<schedVars, bodyVars>>

\* Mutation: the lock is looked at before it is brought up to date.
InvokerExitsStale(t) ==
    /\ Idle(t) /\ stage[t] = "exit"
    /\ push_waiting_to_ready
    /\ IF locked_
       THEN /\ post' = [post EXCEPT ![t] = "again"]
            /\ arg' = [arg EXCEPT ![t] = cur[t]]
            /\ UNCHANGED outstanding_work_
       ELSE outstanding_work_' = outstanding_work_ - 1 /\ UNCHANGED <<post, arg>>
    /\ stage' = [stage EXCEPT ![t] = "left"]
    /\ UNCHANGED <<op_queue_, stopped_, state_, task_interrupted_, interrupter,
                   private_op_queue, private_outstanding_work, pc, cur, upcall, threw, posted, ran>>

\* ~on_invoker_exit.  An invoker with nothing left to do is destroyed, and the
\* work that its executor stands for with it.
InvokerExits(t) ==
    /\ Idle(t) /\ stage[t] = "exit"
    /\ push_waiting_to_ready
    /\ IF locked_'
       THEN /\ post' = [post EXCEPT ![t] = "again"]
            /\ arg' = [arg EXCEPT ![t] = cur[t]]
            /\ UNCHANGED outstanding_work_
       ELSE outstanding_work_' = outstanding_work_ - 1 /\ UNCHANGED <<post, arg>>
    /\ stage' = [stage EXCEPT ![t] = "left"]
    /\ UNCHANGED <<op_queue_, stopped_, state_, task_interrupted_, interrupter,
                   private_op_queue, private_outstanding_work, pc, cur, upcall, threw, posted, ran>>

\* The operation's complete() returns or throws.
InvokerEnds(t) ==
    /\ stage[t] = "left"
    /\ HandlerEnds(t, threw[t])
    /\ stage' = [stage EXCEPT ![t] = "run"]
    /\ UNCHANGED <<strandVars, upcall, threw, posted, ran>>

PlainEnds(t) ==
    /\ cur[t] \in Plain
    /\ \E throws \in BOOLEAN : HandlerEnds(t, throws) /\ threw' = [threw EXCEPT ![t] = throws]
    /\ ran' = ran \cup {cur[t]}
    /\ UNCHANGED <<strandVars, stage, upcall, posted>>

\* The caller of run() may catch the exception and call run() again.
RunAgain(t) ==
    /\ Run(t) /\ ~shutdown_
    /\ threw' = [threw EXCEPT ![t] = FALSE]
    /\ UNCHANGED <<strandVars, stage, upcall, posted, ran>>

\* The context is destroyed once no thread uses it.
Destroy ==
    /\ \A t \in Threads : pc[t] = "out"
    /\ \A c \in Clients : post[c] = "gone"
    /\ ~shutdown_ /\ shutdown
    /\ UNCHANGED <<schedVars, bodyVars>>

Submit(a) ==
    \/ \E o \in Plain : PostPlain(a, o)
    \/ \E h \in Handlers : PostStrand(a, h)

Posting(a) ==
    \/ PushReady(a) \/ Schedule(a)
    \/ (PushOp(a) \/ Signal(a)) /\ UNCHANGED <<strandVars, bodyVars>>

Body(t) ==
    \/ RunReady(t) \/ NoneReady(t) \/ UpcallEnds(t)
    \/ InvokerExits(t) \/ InvokerEnds(t) \/ PlainEnds(t)

Next ==
    \/ \E a \in Actors : Submit(a) \/ Posting(a)
    \/ \E c \in Clients : (ReleaseGuard(c) \/ ClientStops(c)) /\ UNCHANGED <<strandVars, bodyVars>>
    \/ \E t \in Threads :
          \/ \E o \in Plain : DeferPlain(t, o)
          \/ \E h \in Handlers : DispatchStrand(t, h)
          \/ Body(t) \/ RunAgain(t)
          \/ (RunStep(t) \/ SpuriousWake(t) \/ ReactorEvent(t)) /\ UNCHANGED <<strandVars, bodyVars>>
    \/ Destroy

Spec == Init /\ [][Next]_vars
-----------------------------------------------------------------------------
(***************************************************************************)
(* Properties.                                                             *)
(***************************************************************************)
Queued == {k \in DOMAIN op_queue_ : op_queue_[k] # Task}

\* The state keeps its type: the counters of work and of waiters stay natural.
TypeOK ==
    /\ outstanding_work_ \in Nat /\ state_ \in Nat
    /\ private_outstanding_work \in [Threads -> Nat]
    /\ pc \in [Threads -> {"out", "loop", "wait", "relock", "poll", "task", "tasked", "handler",
                           "unwind", "stop"}]
    /\ post \in [Actors -> {"idle", "ready", "make", "again", "push", "signal", "stop", "gone"}]
    /\ stage \in [Threads -> {"run", "exit", "left"}]

\* What outstanding_work_ is the number of: work guards, invokers that exist,
\* and operations that are being pushed, queued or completed.
Guards      == {c \in Clients : post[c] \notin {"stop", "gone"}}
Invokers    == {i \in Handlers : \/ InvokerAt(i) \in {"queued", "run", "exit"}
                                 \/ \E a \in Actors : post[a] \in {"again", "push"} /\ arg[a] = i}
Pushed      == {a \in Actors : post[a] = "push"}
Completed   == {t \in Threads : pc[t] = "handler"}
Private     == UNION {{t} \X DOMAIN private_op_queue[t] : t \in Threads}
PrivateWork == UNION {{t} \X (1 .. private_outstanding_work[t]) : t \in Threads}

\* The count is right although it is kept in outstanding_work_ and in every
\* thread's private_outstanding_work, and brought together only when a handler
\* ends (scheduler.ipp:81): it is zero exactly when no handler can run any more.
WorkCounted ==
    outstanding_work_ + Cardinality(PrivateWork) =
        Cardinality(Guards) + Cardinality(Invokers) + Cardinality(Pushed)
        + Cardinality(Queued) + Cardinality(Completed) + Cardinality(Private)

\* run() "blocks until all work has finished and there are no more handlers to
\* be dispatched": when the count stops the scheduler (scheduler.hpp:107), every
\* handler submitted to it or to the strand has run.
RunsUntilDone ==
    stopped_ => Queued = {} /\ submitted = over /\ posted = ran

Asleep(t)  == pc[t] = "wait" \/ (pc[t] = "task" /\ ~interrupter)
OnItsWay(t) ==
    \/ pc[t] \in {"loop", "poll", "tasked"}
    \/ pc[t] = "relock" /\ state_ % 2 = 1
    \/ pc[t] = "task" /\ interrupter
Thrown == \E t \in Threads : threw[t]

\* One signal, or one interrupt, per operation is enough (scheduler.ipp:668):
\* while a thread sleeps on wakeup_event_ or in the reactor, no operation waits
\* in op_queue_ without a thread on its way to it or a signal about to be sent.
\* The exception is an exception: what work_cleanup pushes then (:100) wakes nobody.
NoLostWakeup ==
    ~stopped_ /\ Queued # {} /\ (\E t \in Threads : Asleep(t)) =>
        \/ \E t \in Threads : OnItsWay(t)
        \/ (\E a \in Actors : post[a] = "signal") /\ \E t \in Threads : pc[t] = "wait"
        \/ Thrown
=============================================================================
