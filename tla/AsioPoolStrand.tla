--------------------------- MODULE AsioPoolStrand ---------------------------
(***************************************************************************)
(* The pool as the executor of a strand, and what its users may count on.  *)
(*                                                                         *)
(* Source: 20251411-SocketC++/Boost-Asio/include/asio/detail/impl/         *)
(*         strand_executor_service.hpp                                     *)
(***************************************************************************)
EXTENDS AsioPool

S == INSTANCE AsioStrand WITH
        None <- NoOp,
        inv  <- [i \in Handlers |-> InvokerAt(i)],
        up   <- [i \in Handlers |-> UpcallOf(i)]

\* The scheduler is an executor as AsioStrand has it: whichever thread wakes up,
\* sleeps, stops or throws, an invoker is run once for each time it is handed
\* over (impl/strand_executor_service.hpp:109).
StrandSpec == S!Spec

\* A client or handler sees the strand run its handlers in the order in which it
\* has submitted them, each once.
SerialSpec == S!SerialSpec
-----------------------------------------------------------------------------
(***************************************************************************)
(* Liveness.  The threads of the pool call run(); a thread in run(), in a  *)
(* handler or in a call that posts goes on.  Nothing is assumed of I/O.    *)
(***************************************************************************)
Progress(a) ==
    \/ Posting(a)
    \/ a \in Clients /\ ClientStops(a) /\ UNCHANGED <<strandVars, bodyVars>>
    \/ a \in Threads /\ \/ Body(a)
                        \/ RunStep(a) /\ UNCHANGED <<strandVars, bodyVars>>
                        \/ RunAgain(a) /\ ~threw[a]

FairSpec == Spec /\ \A a \in Actors : WF_vars(Progress(a))

\* Every handler submitted is finally run, unless a handler throws or the
\* context is destroyed before.
EveryHandlerRuns ==
    ~(submitted = over /\ posted = ran) ~>
        (submitted = over /\ posted = ran) \/ Thrown \/ shutdown_

\* run() finally returns on every thread once the work guards are gone.
RunReturns ==
    (\A c \in Clients : post[c] = "gone") ~> (\A t \in Threads : pc[t] = "out") \/ Thrown
=============================================================================
