--------------------------- MODULE SerialExecutor ---------------------------
(***************************************************************************)
(* What a strand promises: handlers run one at a time, in the order in     *)
(* which they were submitted, except those a running handler dispatches,   *)
(* which run at once inside it.  Implemented by AsioStrand.                *)
(***************************************************************************)
EXTENDS Sequences

CONSTANTS Handlers, None

VARIABLES
    queue,     \* submitted, oldest first
    running,   \* the handler that runs, or None
    over,      \* handlers that have run, or were destroyed
    closed     \* handlers are no longer taken

vars == <<queue, running, over, closed>>

Init == queue = <<>> /\ running = None /\ over = {} /\ closed = FALSE

Known(h) == h \in over \/ h = running \/ \E k \in DOMAIN queue : queue[k] = h

Submit(h) ==
    /\ ~Known(h)
    /\ IF closed THEN over' = over \cup {h} /\ UNCHANGED queue
                 ELSE queue' = Append(queue, h) /\ UNCHANGED over
    /\ UNCHANGED <<running, closed>>

Dispatch(h) ==
    /\ ~Known(h)
    /\ running # None
    /\ over' = over \cup {h}
    /\ UNCHANGED <<queue, running, closed>>

Start ==
    /\ running = None /\ queue # <<>>
    /\ running' = Head(queue)
    /\ queue' = Tail(queue)
    /\ UNCHANGED <<over, closed>>

End ==
    /\ running # None
    /\ running' = None
    /\ over' = over \cup {running}
    /\ UNCHANGED <<queue, closed>>

Close ==
    /\ running = None
    /\ closed' = TRUE
    /\ queue' = <<>>
    /\ over' = over \cup {queue[k] : k \in DOMAIN queue}
    /\ UNCHANGED running

Next == (\E h \in Handlers : Submit(h) \/ Dispatch(h)) \/ Start \/ End \/ Close

Spec == Init /\ [][Next]_vars
=============================================================================
