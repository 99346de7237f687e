--------------------------- MODULE StrandService ---------------------------
(***************************************************************************)
(* The functions of strand_executor_service, on the state of one strand.   *)
(* What is done under the strand's mutex is one step.                      *)
(*                                                                         *)
(* Source: 20251411-SocketC++/Boost-Asio/include/asio/detail/impl/         *)
(*         strand_executor_service.hpp and .ipp                            *)
(***************************************************************************)
EXTENDS Sequences

VARIABLES
    locked_, shutdown_, waiting_queue_, ready_queue_,
    submitted,   \* handlers some thread has submitted
    over         \* handlers that have run, or were destroyed

Elements(q) == {q[k] : k \in DOMAIN q}

\* enqueue, up to the release of the mutex
enqueue(h) ==
    /\ submitted' = submitted \cup {h}
    /\ over' = IF shutdown_ THEN over \cup {h} ELSE over
    /\ waiting_queue_' = IF ~shutdown_ /\ locked_ THEN Append(waiting_queue_, h)
                                                  ELSE waiting_queue_
    /\ locked_' = (locked_ \/ ~shutdown_)
    /\ UNCHANGED <<shutdown_, ready_queue_>>

\* Whether the submission is the one that locks the strand.
first == ~shutdown_ /\ ~locked_

\* enqueue after the release of the mutex, for the one that has locked the strand
ready_push(h) ==
    /\ ready_queue_' = Append(ready_queue_, h)
    /\ UNCHANGED <<locked_, shutdown_, waiting_queue_, submitted, over>>

ready_pop ==
    /\ ready_queue_' = Tail(ready_queue_)
    /\ UNCHANGED <<locked_, shutdown_, waiting_queue_, submitted, over>>

\* Mutation: the waiting handlers are copied, not moved.
push_waiting_to_readyCopies ==
    /\ ready_queue_' = ready_queue_ \o waiting_queue_
    /\ locked_' = (ready_queue_ \o waiting_queue_ # <<>>)
    /\ UNCHANGED <<shutdown_, waiting_queue_, submitted, over>>

push_waiting_to_ready ==
    /\ ready_queue_' = ready_queue_ \o waiting_queue_
    /\ waiting_queue_' = <<>>
    /\ locked_' = (ready_queue_ \o waiting_queue_ # <<>>)
    /\ UNCHANGED <<shutdown_, submitted, over>>

\* complete: handler h has run.
complete(h) ==
    /\ over' = over \cup {h}
    /\ UNCHANGED <<locked_, shutdown_, waiting_queue_, ready_queue_, submitted>>

\* dispatch, or execute with blocking allowed, by a handler of this strand: the
\* function runs before the call returns.
dispatch(h) ==
    /\ submitted' = submitted \cup {h}
    /\ over' = over \cup {h}
    /\ UNCHANGED <<locked_, shutdown_, waiting_queue_, ready_queue_>>

\* shutdown, in the destructor of the execution context
shutdown ==
    /\ shutdown_' = TRUE
    /\ over' = over \cup Elements(waiting_queue_) \cup Elements(ready_queue_)
    /\ waiting_queue_' = <<>>
    /\ ready_queue_' = <<>>
    /\ UNCHANGED <<locked_, submitted>>
=============================================================================
