------------------------------ MODULE Dispatch ------------------------------
(***************************************************************************)
(* What a prethreaded server promises, whatever schedules its threads:     *)
(* connections are handed out in the order in which they were established, *)
(* each to one thread, a thread has one connection at a time, and the      *)
(* descriptor is closed by that thread.  The process may stop at any time. *)
(* Implemented by PrethreadKernel and PrethreadUser.                       *)
(***************************************************************************)
EXTENDS Integers, Sequences

CONSTANTS Workers, Clients, None

VARIABLES
    up,        \* the process runs
    pending,   \* established connections no worker has yet, oldest first
    serving,   \* the connection of each worker, or None
    done       \* connections served and closed

vars == <<up, pending, serving, done>>

Init ==
    /\ up = TRUE
    /\ pending = <<>>
    /\ serving = [w \in Workers |-> None]
    /\ done = {}

Known(c) ==
    \/ \E i \in DOMAIN pending : pending[i] = c
    \/ \E w \in Workers : serving[w] = c
    \/ c \in done

Arrive(c) ==
    /\ up
    /\ ~Known(c)
    /\ pending' = Append(pending, c)
    /\ UNCHANGED <<up, serving, done>>

Take(w) ==
    /\ up
    /\ serving[w] = None
    /\ pending # <<>>
    /\ serving' = [serving EXCEPT ![w] = Head(pending)]
    /\ pending' = Tail(pending)
    /\ UNCHANGED <<up, done>>

Finish(w) ==
    /\ up
    /\ serving[w] # None
    /\ done' = done \cup {serving[w]}
    /\ serving' = [serving EXCEPT ![w] = None]
    /\ UNCHANGED <<up, pending>>

Halt ==
    /\ up
    /\ up' = FALSE
    /\ UNCHANGED <<pending, serving, done>>

Next ==
    \/ \E c \in Clients : Arrive(c)
    \/ \E w \in Workers : Take(w) \/ Finish(w)
    \/ Halt

Spec == Init /\ [][Next]_vars
=============================================================================
