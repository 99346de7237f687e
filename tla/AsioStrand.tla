----------------------------- MODULE AsioStrand -----------------------------
(***************************************************************************)
(* A strand of Boost.Asio over an executor that may run any number of      *)
(* functions at once.  The submission that finds the strand unlocked makes *)
(* an invoker and hands it to the executor; the invoker runs the ready     *)
(* handlers and hands itself over again while handlers wait.               *)
(*                                                                         *)
(* Source: 20251411-SocketC++/Boost-Asio/include/asio/detail/impl/         *)
(*         strand_executor_service.hpp and .ipp                            *)
(*                                                                         *)
(* An invoker is named by the handler whose submission made it.            *)
(***************************************************************************)
EXTENDS Integers, StrandService

CONSTANTS Handlers, None   \* None is not a handler

VARIABLES
    inv,   \* where each invoker is
    up     \* the handler each invoker is in the upcall of, or None

vars == <<locked_, shutdown_, waiting_queue_, ready_queue_, inv, up, submitted, over>>

\* "ready": its maker has locked the strand and not yet filled ready_queue_;
\* "held": somebody is about to hand it to the executor; "queued": the executor
\* has it; "run": in run_ready_handlers; "exit": in on_invoker_exit
InvStates == {"none", "ready", "held", "queued", "run", "exit"}

Init ==
    /\ locked_ = FALSE
    /\ shutdown_ = FALSE
    /\ waiting_queue_ = <<>>
    /\ ready_queue_ = <<>>
    /\ inv = [h \in Handlers |-> "none"]
    /\ up = [h \in Handlers |-> None]
    /\ submitted = {}
    /\ over = {}
-----------------------------------------------------------------------------
(***************************************************************************)
(* Who calls the functions of the strand, and when.                        *)
(***************************************************************************)
\* post, defer, or execute from outside the strand
Enqueue(h) ==
    /\ h \notin submitted
    /\ enqueue(h)
    /\ inv' = IF first THEN [inv EXCEPT ![h] = "ready"] ELSE inv
    /\ UNCHANGED up

PushReady(h) ==
    /\ inv[h] = "ready"
    /\ ready_push(h)
    /\ inv' = [inv EXCEPT ![h] = "held"]
    /\ UNCHANGED up

\* ex.execute(invoker)
Schedule(i) ==
    /\ inv[i] = "held"
    /\ inv' = [inv EXCEPT ![i] = "queued"]
    /\ UNCHANGED <<locked_, shutdown_, waiting_queue_, ready_queue_, up, submitted, over>>

\* The executor calls the invoker.
Invoke(i) ==
    /\ inv[i] = "queued" /\ ~shutdown_
    /\ inv' = [inv EXCEPT ![i] = "run"]
    /\ UNCHANGED <<locked_, shutdown_, waiting_queue_, ready_queue_, up, submitted, over>>

\* run_ready_handlers, the loop's test: the next upcall ...
RunReady(i) ==
    /\ inv[i] = "run" /\ up[i] = None
    /\ ready_queue_ # <<>>
    /\ ready_pop
    /\ up' = [up EXCEPT ![i] = Head(ready_queue_)]
    /\ UNCHANGED inv

\* ... or the end.
NoneReady(i) ==
    /\ inv[i] = "run" /\ up[i] = None
    /\ ready_queue_ = <<>>
    /\ inv' = [inv EXCEPT ![i] = "exit"]
    /\ UNCHANGED <<locked_, shutdown_, waiting_queue_, ready_queue_, up, submitted, over>>

\* o->complete returns, or throws: then the rest of ready_queue_ stays there.
Complete(i) ==
    /\ up[i] # None
    /\ complete(up[i])
    /\ up' = [up EXCEPT ![i] = None]
    /\ \E to \in {"run", "exit"} : inv' = [inv EXCEPT ![i] = to]

Dispatch(i, h) ==
    /\ up[i] # None
    /\ h \notin submitted
    /\ dispatch(h)
    /\ UNCHANGED <<inv, up>>

\* ~on_invoker_exit: the invoker again, if push_waiting_to_ready found handlers.
OnInvokerExit(i) ==
    /\ inv[i] = "exit"
    /\ push_waiting_to_ready
    /\ inv' = [inv EXCEPT ![i] = IF locked_' THEN "held" ELSE "none"]
    /\ UNCHANGED up

\* No thread uses the context any more, and none will run an invoker.
Shutdown ==
    /\ ~shutdown_
    /\ \A i \in Handlers : inv[i] \in {"none", "queued"}
    /\ shutdown
    /\ UNCHANGED <<inv, up>>

Strand(i) ==
    \/ PushReady(i) \/ Schedule(i) \/ Invoke(i)
    \/ RunReady(i) \/ NoneReady(i) \/ Complete(i) \/ OnInvokerExit(i)

Next ==
    \/ \E h \in Handlers : Enqueue(h) \/ Strand(h)
    \/ \E i, h \in Handlers : Dispatch(i, h)
    \/ Shutdown

Spec == Init /\ [][Next]_vars
-----------------------------------------------------------------------------
(***************************************************************************)
(* Properties.                                                             *)
(***************************************************************************)
\* The state keeps its type.
TypeOK ==
    /\ locked_ \in BOOLEAN /\ shutdown_ \in BOOLEAN
    /\ waiting_queue_ \in Seq(Handlers) /\ ready_queue_ \in Seq(Handlers)
    /\ inv \in [Handlers -> InvStates]
    /\ up \in [Handlers -> Handlers \cup {None}]
    /\ submitted \subseteq Handlers /\ over \subseteq submitted

\* "The ready queue is only modified from within the strand and so may be
\* accessed without locking the mutex" (detail/strand_executor_service.hpp:65): from
\* the lock in enqueue to its release in push_waiting_to_ready there is one
\* invoker, so that no two threads use ready_queue_ or run handlers at once.
Serial ==
    \A i, j \in Handlers : inv[i] # "none" /\ inv[j] # "none" => i = j

\* locked_ "means that there is a handler upcall in progress, or that the strand
\* itself has been scheduled" (detail/strand_executor_service.hpp:51): no handler waits
\* in a strand that no invoker is going to run.
NotStranded ==
    ~shutdown_ /\ Elements(waiting_queue_) \cup Elements(ready_queue_) # {} =>
        \E i \in Handlers : inv[i] # "none"

InHand   == {h \in Handlers : inv[h] = "ready"}
Hand     == IF InHand = {} THEN <<>> ELSE <<CHOOSE h \in Handlers : inv[h] = "ready">>
InUpcall == {i \in Handlers : up[i] # None}

S == INSTANCE SerialExecutor WITH
        queue   <- ready_queue_ \o Hand \o waiting_queue_,
        running <- IF InUpcall = {} THEN None ELSE up[CHOOSE i \in Handlers : up[i] # None],
        closed  <- shutdown_

\* Over any executor, and when handlers throw, the strand runs its handlers one
\* at a time in the order of enqueue, loses none and runs none twice.
SerialSpec == S!Spec
=============================================================================
