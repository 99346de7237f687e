--------------------------- MODULE AsioScheduler ---------------------------
(***************************************************************************)
(* The scheduler behind io_context: a queue of operations, a count of the  *)
(* outstanding work, an event on which idle threads sleep, and the reactor *)
(* task, which one idle thread runs and in which it may block.             *)
(*                                                                         *)
(* Source: 20251411-SocketC++/Boost-Asio/include/asio/detail/              *)
(*         impl/scheduler.ipp, scheduler.hpp, posix_event.hpp,             *)
(*         impl/epoll_reactor.ipp                                          *)
(*                                                                         *)
(* What is done with mutex_ held is one step; outstanding_work_ is atomic. *)
(* Threads are in run(), wait_usec_ and task_usec_ are -1, and several     *)
(* threads are allowed (one_thread_ is false).                             *)
(***************************************************************************)
EXTENDS Integers, Sequences, FiniteSets

CONSTANTS
    Threads,   \* the threads that call run()
    Clients,   \* other threads, each with an executor_work_guard
    Task,      \* &task_operation_
    NoOp

VARIABLES
    op_queue_, outstanding_work_, stopped_,
    state_,              \* of wakeup_event_: the low bit, and two for each waiter
    task_interrupted_,
    interrupter,         \* epoll has an edge of the interrupter to report
    private_op_queue, private_outstanding_work,   \* in each thread's thread_info
    pc,                  \* where each thread is
    cur,                 \* the operation it is completing
    post,                \* where each thread or client is in posting an operation
    arg                  \* which operation that is

schedVars == <<op_queue_, outstanding_work_, stopped_, state_, task_interrupted_, interrupter,
               private_op_queue, private_outstanding_work, pc, cur, post, arg>>

Actors == Threads \cup Clients

\* The constructor, init_task, and a work guard for every client.
SchedInit ==
    /\ op_queue_ = <<Task>>
    /\ outstanding_work_ = Cardinality(Clients)
    /\ stopped_ = FALSE
    /\ state_ = 1
    /\ task_interrupted_ = TRUE
    /\ interrupter = FALSE
    /\ private_op_queue = [t \in Threads |-> <<>>]
    /\ private_outstanding_work = [t \in Threads |-> 0]
    /\ pc = [t \in Threads |-> "out"]
    /\ cur = [t \in Threads |-> NoOp]
    /\ post = [a \in Actors |-> "idle"]
    /\ arg = [a \in Actors |-> NoOp]

\* state_ |= 1
SetBit(st) == IF st % 2 = 0 THEN st + 1 ELSE st

\* Mutation: the task is not interrupted when no thread waits on the event.
WakeOneWaiter(a, st, ti) ==
    /\ state_' = SetBit(st)
    /\ post' = [post EXCEPT ![a] = IF SetBit(st) > 1 THEN "signal" ELSE "idle"]
    /\ task_interrupted_' = ti
    /\ UNCHANGED interrupter

\* wake_one_thread_and_unlock by a, with wakeup_event_ in state st and
\* task_interrupted_ = ti: a waiter is signalled after the unlock, else the task
\* is interrupted.
WakeOne(a, st, ti) ==
    /\ state_' = SetBit(st)
    /\ IF SetBit(st) > 1
       THEN /\ post' = [post EXCEPT ![a] = "signal"]
            /\ task_interrupted_' = ti
            /\ UNCHANGED interrupter
       ELSE /\ post' = [post EXCEPT ![a] = "idle"]
            /\ task_interrupted_' = TRUE
            /\ interrupter' = (interrupter \/ ~ti)
-----------------------------------------------------------------------------
(***************************************************************************)
(* Posting, by a client or by a handler on its thread.                     *)
(***************************************************************************)
MayPost(a) == post[a] = "idle" /\ (a \in Threads => pc[a] = "handler")

\* post_immediate_completion: work_started, here for n pieces of work
WorkStarted(a, o, n) ==
    /\ outstanding_work_' = outstanding_work_ + n
    /\ post' = [post EXCEPT ![a] = "push"]
    /\ arg' = [arg EXCEPT ![a] = o]
    /\ UNCHANGED <<op_queue_, stopped_, state_, task_interrupted_, interrupter,
                   private_op_queue, private_outstanding_work, pc, cur>>

\* post_immediate_completion: the rest, under mutex_
PushOp(a) ==
    /\ post[a] = "push"
    /\ op_queue_' = Append(op_queue_, arg[a])
    /\ WakeOne(a, state_, task_interrupted_)
    /\ UNCHANGED <<outstanding_work_, stopped_, private_op_queue, private_outstanding_work,
                   pc, cur, arg>>

\* post_immediate_completion of a continuation by a handler
Defer(t, o) ==
    /\ MayPost(t)
    /\ private_outstanding_work' = [private_outstanding_work EXCEPT ![t] = @ + 1]
    /\ private_op_queue' = [private_op_queue EXCEPT ![t] = Append(@, o)]
    /\ UNCHANGED <<op_queue_, outstanding_work_, stopped_, state_, task_interrupted_,
                   interrupter, pc, cur, post, arg>>

\* pthread_cond_signal, after the unlock: one sleeping thread, if there is one.
Signal(a) ==
    /\ post[a] = "signal"
    /\ post' = [post EXCEPT ![a] = "idle"]
    /\ IF \E t \in Threads : pc[t] = "wait"
       THEN \E t \in Threads : pc[t] = "wait" /\ pc' = [pc EXCEPT ![t] = "relock"]
       ELSE UNCHANGED pc
    /\ UNCHANGED <<op_queue_, outstanding_work_, stopped_, state_, task_interrupted_,
                   interrupter, private_op_queue, private_outstanding_work, cur, arg>>

\* Mutation: the threads asleep are not told.
StopAllThreadsQuiet(to) ==
    /\ stopped_' = TRUE
    /\ state_' = SetBit(state_)
    /\ pc' = to
    /\ task_interrupted_' = TRUE
    /\ interrupter' = (interrupter \/ ~task_interrupted_)
    /\ UNCHANGED <<op_queue_, outstanding_work_, private_op_queue, private_outstanding_work,
                   cur, arg>>

\* stop_all_threads, with the result of each thread's pc given by to.
StopAllThreads(to) ==
    /\ stopped_' = TRUE
    /\ state_' = SetBit(state_)
    /\ pc' = [t \in Threads |-> IF pc[t] = "wait" THEN "relock" ELSE to[t]]
    /\ task_interrupted_' = TRUE
    /\ interrupter' = (interrupter \/ ~task_interrupted_)
    /\ UNCHANGED <<op_queue_, outstanding_work_, private_op_queue, private_outstanding_work,
                   cur, arg>>

\* Mutation: the end of a work guard stops the scheduler.
ReleaseGuardStops(c) ==
    /\ post[c] = "idle"
    /\ outstanding_work_' = outstanding_work_ - 1
    /\ post' = [post EXCEPT ![c] = "stop"]
    /\ UNCHANGED <<op_queue_, stopped_, state_, task_interrupted_, interrupter,
                   private_op_queue, private_outstanding_work, pc, cur, arg>>

\* A client's work guard goes: work_finished.
ReleaseGuard(c) ==
    /\ post[c] = "idle"
    /\ outstanding_work_' = outstanding_work_ - 1
    /\ post' = [post EXCEPT ![c] = IF outstanding_work_ = 1 THEN "stop" ELSE "gone"]
    /\ UNCHANGED <<op_queue_, stopped_, state_, task_interrupted_, interrupter,
                   private_op_queue, private_outstanding_work, pc, cur, arg>>

ClientStops(c) ==
    /\ post[c] = "stop"
    /\ StopAllThreads(pc)
    /\ post' = [post EXCEPT ![c] = "gone"]
-----------------------------------------------------------------------------
(***************************************************************************)
(* run() on thread t                                                       *)
(***************************************************************************)
\* run: with no work, stop() and return 0.
Run(t) ==
    /\ pc[t] = "out" /\ ~stopped_
    /\ pc' = [pc EXCEPT ![t] = IF outstanding_work_ = 0 THEN "stop" ELSE "loop"]
    /\ UNCHANGED <<op_queue_, outstanding_work_, stopped_, state_, task_interrupted_,
                   interrupter, private_op_queue, private_outstanding_work, cur, post, arg>>

\* One pass of do_run_one's loop, under mutex_, with q in op_queue_, st in state_
\* and ti in task_interrupted_.  A handler is called with the mutex released, and
\* another thread is woken first if the queue has more.
RunOne(t, q, st, ti) ==
    \/ /\ stopped_
       /\ op_queue_' = q /\ state_' = st /\ task_interrupted_' = ti
       /\ pc' = [pc EXCEPT ![t] = "out"]
       /\ UNCHANGED <<cur, post, interrupter>>
    \/ /\ ~stopped_ /\ q # <<>> /\ Head(q) = Task
       /\ op_queue_' = Tail(q)
       /\ task_interrupted_' = (Tail(q) # <<>>)
       /\ IF Tail(q) # <<>>
          THEN /\ state_' = SetBit(st)
               /\ post' = [post EXCEPT ![t] = IF SetBit(st) > 1 THEN "signal" ELSE "idle"]
               /\ pc' = [pc EXCEPT ![t] = "poll"]
          ELSE /\ state_' = st
               /\ pc' = [pc EXCEPT ![t] = "task"]
               /\ UNCHANGED post
       /\ UNCHANGED <<cur, interrupter>>
    \/ /\ ~stopped_ /\ q # <<>> /\ Head(q) # Task
       /\ op_queue_' = Tail(q)
       /\ IF Tail(q) # <<>>
          THEN WakeOne(t, st, ti)
          ELSE state_' = st /\ task_interrupted_' = ti /\ UNCHANGED <<post, interrupter>>
       /\ pc' = [pc EXCEPT ![t] = "handler"]
       /\ cur' = [cur EXCEPT ![t] = Head(q)]
    \/ /\ ~stopped_ /\ q = <<>>
       /\ op_queue_' = q /\ task_interrupted_' = ti
       /\ state_' = 2 * (st \div 2) + 2
       /\ pc' = [pc EXCEPT ![t] = "wait"]
       /\ UNCHANGED <<cur, post, interrupter>>

\* Mutation: the private queue is pushed only when an exception leaves run().
LoopKeepsPrivate(t) ==
    /\ pc[t] = "loop" /\ post[t] = "idle"
    /\ RunOne(t, op_queue_, state_, task_interrupted_)
    /\ UNCHANGED <<outstanding_work_, stopped_, private_op_queue, private_outstanding_work, arg>>

\* The loop, after what work_cleanup left in the private queue is pushed.
Loop(t) ==
    /\ pc[t] = "loop" /\ post[t] = "idle"
    /\ RunOne(t, op_queue_ \o private_op_queue[t], state_, task_interrupted_)
    /\ private_op_queue' = [private_op_queue EXCEPT ![t] = <<>>]
    /\ UNCHANGED <<outstanding_work_, stopped_, private_outstanding_work, arg>>

\* Mutation: state_ counts a waiter down when it goes on waiting.
RelockUncounts(t) ==
    /\ pc[t] = "relock"
    /\ IF state_ % 2 = 0
       THEN /\ pc' = [pc EXCEPT ![t] = "wait"]
            /\ state_' = state_ - 2
            /\ UNCHANGED <<op_queue_, task_interrupted_, interrupter, cur, post>>
       ELSE RunOne(t, op_queue_, state_ - 2, task_interrupted_)
    /\ UNCHANGED <<outstanding_work_, stopped_, private_op_queue, private_outstanding_work, arg>>

\* pthread_cond_wait has returned; wait goes on while the low bit is clear.
Relock(t) ==
    /\ pc[t] = "relock"
    /\ IF state_ % 2 = 0
       THEN /\ pc' = [pc EXCEPT ![t] = "wait"]
            /\ UNCHANGED <<op_queue_, state_, task_interrupted_, interrupter, cur, post>>
       ELSE RunOne(t, op_queue_, state_ - 2, task_interrupted_)
    /\ UNCHANGED <<outstanding_work_, stopped_, private_op_queue, private_outstanding_work, arg>>

SpuriousWake(t) ==
    /\ pc[t] = "wait"
    /\ pc' = [pc EXCEPT ![t] = "relock"]
    /\ UNCHANGED <<op_queue_, outstanding_work_, stopped_, state_, task_interrupted_,
                   interrupter, private_op_queue, private_outstanding_work, cur, post, arg>>

\* epoll_reactor::run returns: at once when it polls, else on an edge of the
\* interrupter, which it takes.
ReactorReturns(t) ==
    /\ post[t] = "idle"
    /\ pc[t] = "poll" \/ (pc[t] = "task" /\ interrupter)
    /\ interrupter' = FALSE
    /\ pc' = [pc EXCEPT ![t] = "tasked"]
    /\ UNCHANGED <<op_queue_, outstanding_work_, stopped_, state_, task_interrupted_,
                   private_op_queue, private_outstanding_work, cur, post, arg>>

\* ... or on another event that gives the scheduler no operation.
ReactorEvent(t) ==
    /\ pc[t] = "task" /\ ~interrupter
    /\ pc' = [pc EXCEPT ![t] = "tasked"]
    /\ UNCHANGED <<op_queue_, outstanding_work_, stopped_, state_, task_interrupted_,
                   interrupter, private_op_queue, private_outstanding_work, cur, post, arg>>

\* task_cleanup, and the loop again with the mutex it took.
TaskCleanup(t) ==
    /\ pc[t] = "tasked"
    /\ RunOne(t, op_queue_ \o <<Task>>, state_, TRUE)
    /\ UNCHANGED <<outstanding_work_, stopped_, private_op_queue, private_outstanding_work, arg>>

\* Mutation: the private work is added without the operation that ends.
WorkLeftAdds(t) == outstanding_work_ + private_outstanding_work[t]

\* work_cleanup: one operation less, its continuations more.
WorkLeft(t) == outstanding_work_ + private_outstanding_work[t] - 1

\* complete() returns, or throws out of run().  work_cleanup's counting; with no
\* work left, stop(), after which the loop would return.
HandlerEnds(t, throws) ==
    /\ pc[t] = "handler" /\ post[t] = "idle"
    /\ outstanding_work_' = WorkLeft(t)
    /\ private_outstanding_work' = [private_outstanding_work EXCEPT ![t] = 0]
    /\ cur' = [cur EXCEPT ![t] = NoOp]
    /\ pc' = [pc EXCEPT ![t] = IF outstanding_work_' = 0 THEN "stop"
                               ELSE IF throws THEN "unwind" ELSE "loop"]
    /\ UNCHANGED <<op_queue_, stopped_, state_, task_interrupted_, interrupter,
                   private_op_queue, post, arg>>

\* work_cleanup's push when an exception leaves run(): nobody is woken for it.
Unwind(t) ==
    /\ pc[t] = "unwind"
    /\ op_queue_' = op_queue_ \o private_op_queue[t]
    /\ private_op_queue' = [private_op_queue EXCEPT ![t] = <<>>]
    /\ pc' = [pc EXCEPT ![t] = "out"]
    /\ UNCHANGED <<outstanding_work_, stopped_, state_, task_interrupted_, interrupter,
                   private_outstanding_work, cur, post, arg>>

ThreadStops(t) ==
    /\ pc[t] = "stop"
    /\ StopAllThreads([pc EXCEPT ![t] = "out"])
    /\ UNCHANGED post

\* What a thread in run() does by itself.
RunStep(t) ==
    \/ Loop(t) \/ Relock(t) \/ ReactorReturns(t) \/ TaskCleanup(t) \/ Unwind(t) \/ ThreadStops(t)
=============================================================================
