---------------------------- MODULE RwLock_proofs ----------------------------
(***************************************************************************)
(* Proofs about RwLock, for every finite set of threads.                   *)
(***************************************************************************)
EXTENDS RwLock, FiniteSetTheorems, TLAPS

\* rw_mutex belongs to the one thread between its lock and its unlock or wait.
MutexInv == \A t \in Threads : rw_mutex = t <=> pc[t] \in {"in", "woken", "cleanup"}

\* Only the two blocking functions wait; a thread inside a function has the
\* lock exactly when that function is unlock.
FlowInv ==
    \A t \in Threads :
        /\ pc[t] \in {"wait", "relock", "woken", "cancel", "cleanup", "dead"} =>
              op[t] \in {"rdlock", "wrlock"}
        /\ pc[t] # "idle" => (held[t] = "none" <=> op[t] # "unlock")

CountInv ==
    /\ rw_nwaitreaders = Cardinality(Counted("rdlock"))
    /\ rw_nwaitwriters = Cardinality(Counted("wrlock"))

IInv == TypeOK /\ MutexInv /\ FlowInv /\ CountInv /\ Exclusion /\ NoForgottenWaiter

\* The sets the counters stand for are finite, so that they have a size.
LEMMA Sizes ==
  /\ \A f : IsFiniteSet(Counted(f)) /\ Cardinality(Counted(f)) \in Nat
  /\ \A h : IsFiniteSet(Holders(h)) /\ Cardinality(Holders(h)) \in Nat
  <1>1. \A f : Counted(f) \in SUBSET Threads
    BY DEF Counted
  <1>2. \A h : Holders(h) \in SUBSET Threads
    BY DEF Holders
  <1> QED BY <1>1, <1>2, RwAssumption, FS_Subset, FS_CardinalityType

LEMMA SizesPrime ==
  /\ \A f : IsFiniteSet(Counted(f)') /\ Cardinality(Counted(f)') \in Nat
  /\ \A h : IsFiniteSet(Holders(h)') /\ Cardinality(Holders(h)') \in Nat
  <1>1. \A f : Counted(f)' \in SUBSET Threads
    BY DEF Counted
  <1>2. \A h : Holders(h)' \in SUBSET Threads
    BY DEF Holders
  <1> QED BY <1>1, <1>2, RwAssumption, FS_Subset, FS_CardinalityType

LEMMA InitInv == Init => IInv
  <1> SUFFICES ASSUME Init PROVE IInv
    OBVIOUS
  <1>1. Counted("rdlock") = {} /\ Counted("wrlock") = {} /\ Holders("read") = {}
          /\ Holders("write") = {}
    BY DEF Init, Counted, Holders
  <1>2. Cardinality({}) = 0
    BY FS_EmptySet
  <1>3. TypeOK /\ MutexInv /\ FlowInv
    BY RwAssumption, Zenon DEF Init, TypeOK, MutexInv, FlowInv, Ops, PCs
  <1>4. CountInv /\ Exclusion
    BY <1>1, <1>2 DEF Init, CountInv, Exclusion
  <1>5. NoForgottenWaiter
    BY DEF Init, NoForgottenWaiter, Sleeping
  <1> QED BY <1>3, <1>4, <1>5 DEF IInv
-----------------------------------------------------------------------------
\* The owner of rw_mutex and the control flow of every thread.
LEMMA FlowStep == TypeOK /\ MutexInv /\ FlowInv /\ Next => MutexInv' /\ FlowInv'
  <1> SUFFICES ASSUME TypeOK, MutexInv, FlowInv, Next PROVE MutexInv' /\ FlowInv'
    OBVIOUS
  <1>n. Nobody \notin Threads
    BY RwAssumption
  <1> USE <1>n DEF TypeOK, MutexInv, FlowInv
  <1>1. ASSUME NEW t \in Threads, NEW f \in Ops, Call(t, f) PROVE MutexInv' /\ FlowInv'
    BY <1>1 DEF Call, LockOps
  <1>2. ASSUME NEW t \in Threads, Lock(t) PROVE MutexInv' /\ FlowInv'
    BY <1>2 DEF Lock
  <1>3. ASSUME NEW t \in Threads, Woken(t) PROVE MutexInv' /\ FlowInv'
    BY <1>3 DEF Woken
  <1>4. ASSUME NEW t \in Threads, Cleanup(t) PROVE MutexInv' /\ FlowInv'
    BY <1>4 DEF Cleanup
  <1>5. ASSUME NEW t \in Threads, RdLock(t) PROVE MutexInv' /\ FlowInv'
    BY <1>5 DEF RdLock, In, Return
  <1>6. ASSUME NEW t \in Threads, WrLock(t) PROVE MutexInv' /\ FlowInv'
    BY <1>6 DEF WrLock, In, Return
  <1>7. ASSUME NEW t \in Threads, TryRdLock(t) PROVE MutexInv' /\ FlowInv'
    BY <1>7 DEF TryRdLock, In, Return
  <1>8. ASSUME NEW t \in Threads, TryWrLock(t) PROVE MutexInv' /\ FlowInv'
    BY <1>8 DEF TryWrLock, In, Return
  <1>9. ASSUME NEW t \in Threads, Unlock(t) PROVE MutexInv' /\ FlowInv'
    <2>1. CASE rw_refcount = 0
      BY <1>9, <2>1 DEF Unlock, In
    <2>2. CASE rw_refcount # 0
      <3>1. PICK woken \in SUBSET Threads :
              /\ UnlockWakes(woken)
              /\ pc' = [u \in Threads |-> IF u = t THEN "idle"
                                          ELSE IF u \in woken THEN "relock" ELSE pc[u]]
        BY <1>9, <2>2 DEF Unlock
      <3>2. \A u \in woken : pc[u] = "wait"
        BY <3>1 DEF UnlockWakes, Sleeping
      <3> QED BY <1>9, <2>2, <3>1, <3>2 DEF Unlock, In
    <2> QED BY <2>1, <2>2
  <1>10. ASSUME NEW t \in Threads, SpuriousWake(t) PROVE MutexInv' /\ FlowInv'
    BY <1>10 DEF SpuriousWake
  <1>11. ASSUME NEW t \in Threads, Cancel(t) PROVE MutexInv' /\ FlowInv'
    BY <1>11 DEF Cancel
  <1> QED
    BY <1>1, <1>2, <1>3, <1>4, <1>5, <1>6, <1>7, <1>8, <1>9, <1>10, <1>11 DEF Next, Step
-----------------------------------------------------------------------------
\* A set that gains or loses one thread.
LEMMA AddOne ==
  ASSUME NEW S, IsFiniteSet(S), NEW t, t \notin S
  PROVE  Cardinality(S \cup {t}) = Cardinality(S) + 1
  BY FS_AddElement

LEMMA RemoveOne ==
  ASSUME NEW S, IsFiniteSet(S), NEW t \in S
  PROVE  Cardinality(S \ {t}) = Cardinality(S) - 1
  BY FS_RemoveElement

\* The two counters are right after every step.
LEMMA CountStep == IInv /\ Next => CountInv'
  <1> SUFFICES ASSUME IInv, Next PROVE CountInv'
    OBVIOUS
  <1>i. TypeOK /\ MutexInv /\ FlowInv /\ CountInv
    BY DEF IInv
  <1>f. \A f : IsFiniteSet(Counted(f)) /\ Cardinality(Counted(f)) \in Nat
    BY Sizes
  <1>u. ASSUME UNCHANGED <<rw_nwaitreaders, rw_nwaitwriters>>,
               Counted("rdlock")' = Counted("rdlock"), Counted("wrlock")' = Counted("wrlock")
        PROVE  CountInv'
    BY <1>i, <1>u DEF CountInv
  <1>1. ASSUME NEW t \in Threads, NEW f \in Ops, Call(t, f) PROVE CountInv'
    BY <1>1, <1>u, <1>i DEF Call, Counted, TypeOK
  <1>2. ASSUME NEW t \in Threads, Lock(t) PROVE CountInv'
    BY <1>2, <1>u, <1>i DEF Lock, Counted, TypeOK
  <1>3. ASSUME NEW t \in Threads, Woken(t) \/ Cleanup(t) PROVE CountInv'
    <2>1. pc[t] \in {"woken", "cleanup"} /\ op' = op /\ Uncount(t)
            /\ pc'[t] \in {"in", "dead"} /\ \A u \in Threads \ {t} : pc'[u] = pc[u]
      BY <1>3, <1>i DEF Woken, Cleanup, TypeOK
    <2>2. op[t] \in {"rdlock", "wrlock"}
      BY <2>1, <1>i DEF FlowInv
    <2>3. \A f : Counted(f)' = Counted(f) \ {t}
      BY <2>1 DEF Counted
    <2>4. t \in Counted(op[t]) /\ \A f : f # op[t] => t \notin Counted(f)
      BY <2>1 DEF Counted
    <2>5. Cardinality(Counted(op[t]) \ {t}) = Cardinality(Counted(op[t])) - 1
      BY <2>4, <1>f, RemoveOne
    <2>6. \A f : f # op[t] => Counted(f)' = Counted(f)
      BY <2>3, <2>4
    <2>7. CASE op[t] = "rdlock"
      BY <2>1, <2>3, <2>5, <2>6, <2>7, <1>i, Zenon DEF CountInv, Uncount
    <2>8. CASE op[t] = "wrlock"
      BY <2>1, <2>3, <2>5, <2>6, <2>8, <1>i DEF CountInv, Uncount
    <2> QED BY <2>2, <2>7, <2>8
  <1>4. ASSUME NEW t \in Threads, RdLock(t) \/ WrLock(t) PROVE CountInv'
    <2>1. pc[t] = "in" /\ op' = op /\ op[t] \in {"rdlock", "wrlock"}
      BY <1>4 DEF RdLock, WrLock, In
    <2>2. CASE pc'[t] = "wait"
      <3>1. \A u \in Threads \ {t} : pc'[u] = pc[u]
        BY <1>4, <1>i DEF RdLock, WrLock, Return, TypeOK
      <3>2. Counted(op[t])' = Counted(op[t]) \cup {t} /\ t \notin Counted(op[t])
        BY <2>1, <2>2, <3>1 DEF Counted
      <3>3. \A f : f # op[t] => Counted(f)' = Counted(f)
        BY <2>1, <2>2, <3>1 DEF Counted
      <3>4. Cardinality(Counted(op[t])') = Cardinality(Counted(op[t])) + 1
        BY <3>2, <1>f, AddOne
      <3>5. CASE op[t] = "rdlock"
        <4>1. rw_nwaitreaders' = rw_nwaitreaders + 1 /\ rw_nwaitwriters' = rw_nwaitwriters
          BY <1>4, <1>i, <2>1, <2>2, <3>5 DEF RdLock, WrLock, Return, TypeOK, In
        <4> QED BY <4>1, <2>1, <3>3, <3>4, <3>5, <1>i DEF CountInv
      <3>6. CASE op[t] = "wrlock"
        <4>1. rw_nwaitwriters' = rw_nwaitwriters + 1 /\ rw_nwaitreaders' = rw_nwaitreaders
          BY <1>4, <1>i, <2>1, <2>2, <3>6 DEF RdLock, WrLock, Return, TypeOK, In
        <4> QED BY <4>1, <2>1, <3>3, <3>4, <3>6, <1>i DEF CountInv
      <3> QED BY <2>1, <3>5, <3>6
    <2>3. CASE pc'[t] # "wait"
      <3>1. pc' = [pc EXCEPT ![t] = "idle"]
              /\ UNCHANGED <<rw_nwaitreaders, rw_nwaitwriters>>
        BY <1>4, <1>i, <2>3 DEF RdLock, WrLock, Return, TypeOK
      <3> QED BY <3>1, <2>1, <1>u, <1>i DEF Counted, TypeOK
    <2> QED BY <2>2, <2>3
  <1>5. ASSUME NEW t \in Threads, TryRdLock(t) \/ TryWrLock(t) PROVE CountInv'
    <2>1. pc[t] = "in" /\ pc' = [pc EXCEPT ![t] = "idle"]
            /\ UNCHANGED <<rw_nwaitreaders, rw_nwaitwriters, op>>
      BY <1>5 DEF TryRdLock, TryWrLock, Return, In
    <2> QED BY <2>1, <1>u, <1>i DEF Counted, TypeOK
  <1>6. ASSUME NEW t \in Threads, Unlock(t) PROVE CountInv'
    <2>1. pc[t] = "in" /\ UNCHANGED <<rw_nwaitreaders, rw_nwaitwriters, op>>
      BY <1>6 DEF Unlock, In
    <2>2. CASE rw_refcount = 0
      BY <1>6, <1>u, <2>1, <2>2 DEF Unlock, Counted
    <2>3. CASE rw_refcount # 0
      <3>1. PICK woken \in SUBSET Threads :
              /\ UnlockWakes(woken)
              /\ pc' = [u \in Threads |-> IF u = t THEN "idle"
                                          ELSE IF u \in woken THEN "relock" ELSE pc[u]]
        BY <1>6, <2>3 DEF Unlock
      <3>2. \A u \in woken : pc[u] = "wait"
        BY <3>1 DEF UnlockWakes, Sleeping
      <3> QED BY <3>1, <3>2, <2>1, <1>u DEF Counted
    <2> QED BY <2>2, <2>3
  <1>7. ASSUME NEW t \in Threads, SpuriousWake(t) \/ Cancel(t) PROVE CountInv'
    BY <1>7, <1>u, <1>i DEF SpuriousWake, Cancel, Counted, TypeOK
  <1> QED
    BY <1>1, <1>2, <1>3, <1>4, <1>5, <1>6, <1>7 DEF Next, Step
-----------------------------------------------------------------------------
\* What a thread may do to the holders: nothing, take, or give back.
LEMMA ExclusionStep == IInv /\ Next => Exclusion'
  <1> SUFFICES ASSUME IInv, Next PROVE Exclusion'
    OBVIOUS
  <1>i. TypeOK /\ FlowInv /\ Exclusion
    BY DEF IInv
  <1>f. \A h : IsFiniteSet(Holders(h)) /\ Cardinality(Holders(h)) \in Nat
    BY Sizes
  <1>0. Cardinality({}) = 0
    BY FS_EmptySet
  <1>u. ASSUME UNCHANGED <<rw_refcount, held, dumped>> PROVE Exclusion'
    BY <1>u, <1>i DEF Exclusion, Holders
  <1>r. ASSUME NEW t \in Threads, held[t] = "none", rw_refcount >= 0, ~dumped',
               held' = [held EXCEPT ![t] = "read"], rw_refcount' = rw_refcount + 1
        PROVE  Exclusion'
    <2>1. Holders("read")' = Holders("read") \cup {t} /\ t \notin Holders("read")
      BY <1>r, <1>i DEF Holders, TypeOK
    <2>2. Holders("write") = {} /\ rw_refcount = Cardinality(Holders("read"))
      BY <1>r, <1>i DEF Exclusion
    <2>3. Holders("write")' = {}
      BY <1>r, <1>i, <2>2 DEF Holders, TypeOK
    <2>4. Cardinality(Holders("read")') = rw_refcount + 1
      BY <2>1, <2>2, <1>f, AddOne
    <2> QED BY <1>r, <2>3, <2>4 DEF Exclusion
  <1>w. ASSUME NEW t \in Threads, held[t] = "none", rw_refcount = 0, ~dumped',
               held' = [held EXCEPT ![t] = "write"], rw_refcount' = -1
        PROVE  Exclusion'
    <2>1. Holders("write") = {} /\ Holders("read") = {}
      BY <1>w, <1>i, <1>f, FS_EmptySet DEF Exclusion
    <2>2. Holders("write")' = {t} /\ Holders("read")' = {}
      BY <1>w, <1>i, <2>1 DEF Holders, TypeOK
    <2> QED BY <1>w, <2>2 DEF Exclusion
  <1>1. ASSUME NEW t \in Threads, NEW f \in Ops, Call(t, f) PROVE Exclusion'
    BY <1>1, <1>u DEF Call
  <1>2. ASSUME NEW t \in Threads, Lock(t) \/ Woken(t) \/ Cleanup(t) PROVE Exclusion'
    BY <1>2, <1>u DEF Lock, Woken, Cleanup
  <1>3. ASSUME NEW t \in Threads, SpuriousWake(t) \/ Cancel(t) PROVE Exclusion'
    BY <1>3, <1>u DEF SpuriousWake, Cancel
  <1>n. ASSUME NEW t \in Threads, pc[t] = "in", op[t] # "unlock" PROVE held[t] = "none"
    BY <1>n, <1>i DEF FlowInv
  <1>z. ~dumped
    BY <1>i DEF Exclusion
  <1>4. ASSUME NEW t \in Threads, RdLock(t) PROVE Exclusion'
    <2>1. held[t] = "none"
      BY <1>4, <1>n DEF RdLock, In
    <2> QED BY <1>4, <1>u, <1>r, <1>z, <2>1, <1>i DEF RdLock, Return, TypeOK
  <1>5. ASSUME NEW t \in Threads, WrLock(t) PROVE Exclusion'
    <2>1. held[t] = "none"
      BY <1>5, <1>n DEF WrLock, In
    <2> QED BY <1>5, <1>u, <1>w, <1>z, <2>1, <1>i DEF WrLock, Return, TypeOK
  <1>k. ASSUME NEW t \in Threads, held[t] = "none", held' = [held EXCEPT ![t] = "none"]
        PROVE  held' = held
    BY <1>k, <1>i DEF TypeOK
  <1>6. ASSUME NEW t \in Threads, TryRdLock(t) PROVE Exclusion'
    <2>1. held[t] = "none"
      BY <1>6, <1>n DEF TryRdLock, In
    <2>2. CASE rw_refcount = -1 \/ rw_nwaitwriters > 0
      BY <1>6, <2>1, <2>2, <1>k, <1>u DEF TryRdLock, Return
    <2>3. CASE ~(rw_refcount = -1 \/ rw_nwaitwriters > 0)
      BY <1>6, <2>1, <2>3, <1>r, <1>z, <1>i DEF TryRdLock, Return, TypeOK
    <2> QED BY <2>2, <2>3
  <1>7. ASSUME NEW t \in Threads, TryWrLock(t) PROVE Exclusion'
    <2>1. held[t] = "none"
      BY <1>7, <1>n DEF TryWrLock, In
    <2>2. CASE rw_refcount # 0
      BY <1>7, <2>1, <2>2, <1>k, <1>u DEF TryWrLock, Return
    <2>3. CASE rw_refcount = 0
      BY <1>7, <2>1, <2>3, <1>w, <1>z DEF TryWrLock, Return
    <2> QED BY <2>2, <2>3
  <1>8. ASSUME NEW t \in Threads, Unlock(t) PROVE Exclusion'
    <2>1. held[t] \in {"read", "write"}
      BY <1>8, <1>i DEF Unlock, In, FlowInv, TypeOK
    <2>2. t \in Holders("read") \/ t \in Holders("write")
      BY <2>1 DEF Holders
    <2>3. rw_refcount # 0
      BY <2>2, <1>i, <1>f, FS_EmptySet DEF Exclusion
    <2>4. held' = [held EXCEPT ![t] = "none"] /\ ~dumped'
      BY <1>8, <2>3, <1>z DEF Unlock
    <2>5. CASE rw_refcount > 0
      <3>1. Holders("write") = {} /\ rw_refcount = Cardinality(Holders("read"))
        BY <2>5, <1>i DEF Exclusion
      <3>2. t \in Holders("read")
        BY <2>2, <3>1
      <3>3. Holders("read")' = Holders("read") \ {t} /\ Holders("write")' = {}
        BY <2>4, <3>1, <1>i DEF Holders, TypeOK
      <3>4. Cardinality(Holders("read") \ {t}) = rw_refcount - 1
        BY <3>1, <3>2, <1>f, RemoveOne
      <3>5. rw_refcount' = rw_refcount - 1
        BY <1>8, <2>3, <2>5 DEF Unlock
      <3> QED BY <2>4, <3>3, <3>4, <3>5 DEF Exclusion
    <2>6. CASE rw_refcount = -1
      <3>1. Holders("read") = {} /\ \E w \in Threads : Holders("write") = {w}
        BY <2>6, <1>i, <1>f DEF Exclusion
      <3>2. Holders("write") = {t}
        BY <2>2, <3>1
      <3>3. Holders("read")' = {} /\ Holders("write")' = {}
        BY <2>4, <3>1, <3>2, <1>i DEF Holders, TypeOK
      <3>4. rw_refcount' = 0
        BY <1>8, <2>6 DEF Unlock
      <3> QED BY <2>4, <3>3, <3>4, <1>0 DEF Exclusion
    <2> QED BY <2>3, <2>5, <2>6, <1>i DEF TypeOK
  <1> QED
    BY <1>1, <1>2, <1>3, <1>4, <1>5, <1>6, <1>7, <1>8 DEF Next, Step
-----------------------------------------------------------------------------
\* A counted writer is asleep, awake or cancelled.
LEMMA CountedWriter ==
  ASSUME TypeOK, CountInv, rw_nwaitwriters > 0
  PROVE  Sleeping("wrlock") # {} \/ WriterAwake \/ WriterCancelled
  <1>1. Counted("wrlock") # {}
    BY FS_EmptySet DEF CountInv
  <1> QED BY <1>1 DEF Counted, Sleeping, WriterAwake, WriterCancelled

\* A step that only moves one thread on from a place where it did not sleep.
LEMMA MoveOn ==
  ASSUME TypeOK, NoForgottenWaiter, rw_refcount' = rw_refcount, NEW t \in Threads,
         \A u \in Threads \ {t} : pc'[u] = pc[u] /\ op'[u] = op[u],
         pc'[t] # "wait",
         \/ op[t] # "wrlock" /\ pc[t] # "wait"
         \/ op'[t] = op[t] /\ pc[t] \in {"wait", "relock", "woken"}
              /\ pc'[t] \in {"relock", "woken", "in", "cancel"}
              /\ (pc'[t] = "cancel" => pc[t] = "wait")
         \/ op'[t] = op[t] /\ pc[t] \in {"cancel", "cleanup"} /\ pc'[t] \in {"cleanup", "dead"}
         \/ pc[t] \in {"idle", "lock"}
  PROVE  NoForgottenWaiter'
  <1>1. Sleeping("wrlock")' \subseteq Sleeping("wrlock")
          /\ Sleeping("rdlock")' \subseteq Sleeping("rdlock")
    BY DEF Sleeping
  <1>2. WriterAwake => WriterAwake'
    BY DEF WriterAwake
  <1>3. WriterCancelled => WriterCancelled'
    BY DEF WriterCancelled
  <1> QED BY <1>1, <1>2, <1>3 DEF NoForgottenWaiter

LEMMA ForgottenStep == IInv /\ Next => NoForgottenWaiter'
  <1> SUFFICES ASSUME IInv, Next PROVE NoForgottenWaiter'
    OBVIOUS
  <1>i. TypeOK /\ FlowInv /\ CountInv /\ NoForgottenWaiter
    BY DEF IInv
  <1>n. ASSUME rw_refcount' # 0 PROVE NoForgottenWaiter'
    BY <1>n DEF NoForgottenWaiter
  <1>1. ASSUME NEW t \in Threads, NEW f \in Ops, Call(t, f) PROVE NoForgottenWaiter'
    BY <1>1, <1>i, MoveOn DEF Call, TypeOK
  <1>2. ASSUME NEW t \in Threads, Lock(t) PROVE NoForgottenWaiter'
    BY <1>2, <1>i, MoveOn DEF Lock, TypeOK
  <1>3. ASSUME NEW t \in Threads, Woken(t) PROVE NoForgottenWaiter'
    BY <1>3, <1>i, MoveOn DEF Woken, TypeOK
  <1>4. ASSUME NEW t \in Threads, Cleanup(t) PROVE NoForgottenWaiter'
    BY <1>4, <1>i, MoveOn DEF Cleanup, TypeOK
  <1>5. ASSUME NEW t \in Threads, SpuriousWake(t) PROVE NoForgottenWaiter'
    BY <1>5, <1>i, MoveOn DEF SpuriousWake, TypeOK
  <1>6. ASSUME NEW t \in Threads, Cancel(t) PROVE NoForgottenWaiter'
    BY <1>6, <1>i, MoveOn DEF Cancel, TypeOK
  <1>7. ASSUME NEW t \in Threads, RdLock(t) PROVE NoForgottenWaiter'
    <2>1. CASE rw_refcount < 0 \/ rw_nwaitwriters > 0
      <3>1. /\ rw_refcount' = rw_refcount /\ op' = op /\ op[t] = "rdlock"
            /\ pc' = [pc EXCEPT ![t] = "wait"]
        BY <1>7, <2>1 DEF RdLock, In
      <3>2. Sleeping("wrlock")' = Sleeping("wrlock")
        BY <3>1, <1>i DEF Sleeping, TypeOK
      <3>3. (WriterAwake => WriterAwake') /\ (WriterCancelled => WriterCancelled')
        BY <3>1, <1>i DEF WriterAwake, WriterCancelled, TypeOK
      <3>4. rw_refcount = 0 =>
              Sleeping("wrlock") # {} \/ WriterAwake \/ WriterCancelled
        BY <2>1, <1>i, CountedWriter
      <3> QED BY <3>1, <3>2, <3>3, <3>4, <1>i DEF NoForgottenWaiter
    <2>2. CASE ~(rw_refcount < 0 \/ rw_nwaitwriters > 0)
      BY <1>7, <2>2, <1>n, <1>i DEF RdLock, TypeOK
    <2> QED BY <2>1, <2>2
  <1>8. ASSUME NEW t \in Threads, WrLock(t) PROVE NoForgottenWaiter'
    BY <1>8, <1>n DEF WrLock
  <1>9. ASSUME NEW t \in Threads, TryRdLock(t) PROVE NoForgottenWaiter'
    <2>1. CASE rw_refcount = -1 \/ rw_nwaitwriters > 0
      BY <1>9, <2>1, <1>i, MoveOn DEF TryRdLock, In, Return, TypeOK
    <2>2. CASE ~(rw_refcount = -1 \/ rw_nwaitwriters > 0)
      BY <1>9, <2>2, <1>n, <1>i DEF TryRdLock, TypeOK
    <2> QED BY <2>1, <2>2
  <1>10. ASSUME NEW t \in Threads, TryWrLock(t) PROVE NoForgottenWaiter'
    BY <1>10, <1>n DEF TryWrLock
  <1>11. ASSUME NEW t \in Threads, Unlock(t) PROVE NoForgottenWaiter'
    <2>1. CASE rw_refcount = 0
      <3>1. UNCHANGED <<rw_refcount, pc, op>>
        BY <1>11, <2>1 DEF Unlock
      <3> QED BY <3>1, <1>i DEF NoForgottenWaiter, Sleeping, WriterAwake, WriterCancelled
    <2>2. CASE rw_refcount # 0
      <3>1. PICK woken \in SUBSET Threads :
              /\ UnlockWakes(woken)
              /\ pc' = [u \in Threads |-> IF u = t THEN "idle"
                                          ELSE IF u \in woken THEN "relock" ELSE pc[u]]
        BY <1>11, <2>2 DEF Unlock
      <3>2. op' = op /\ op[t] = "unlock" /\ pc[t] = "in"
        BY <1>11 DEF Unlock, In
      <3>3. \A u \in woken : pc[u] = "wait"
        BY <3>1 DEF UnlockWakes, Sleeping
      <3>4. (WriterAwake => WriterAwake') /\ (WriterCancelled => WriterCancelled')
        BY <3>1, <3>2, <3>3 DEF WriterAwake, WriterCancelled
      <3>5. Sleeping("wrlock")' \subseteq Sleeping("wrlock")
        BY <3>1, <3>2 DEF Sleeping
      <3>6. CASE rw_nwaitwriters > 0
        <4>1. CASE Sleeping("wrlock") = {}
          BY <4>1, <3>4, <3>5, <3>6, <1>i, CountedWriter DEF NoForgottenWaiter
        <4>2. CASE Sleeping("wrlock") # {}
          <5>1. PICK w \in Sleeping("wrlock") : woken = {w}
            BY <3>1, <3>6, <4>2 DEF UnlockWakes
          <5>2. WriterAwake'
            BY <5>1, <3>1, <3>2 DEF WriterAwake, Sleeping
          <5> QED BY <5>2 DEF NoForgottenWaiter
        <4> QED BY <4>1, <4>2
      <3>7. CASE ~(rw_nwaitwriters > 0)
        <4>1. Counted("wrlock") = {}
          BY <3>7, <1>i, Sizes, FS_EmptySet DEF CountInv
        <4>2. Sleeping("wrlock") = {}
          BY <4>1 DEF Counted, Sleeping
        <4>3. woken = Sleeping("rdlock")
          BY <3>1, <3>7 DEF UnlockWakes
        <4>4. Sleeping("rdlock")' = {}
          BY <4>3, <3>1, <3>2 DEF Sleeping
        <4> QED BY <4>2, <4>4, <3>5 DEF NoForgottenWaiter
      <3> QED BY <3>6, <3>7
    <2> QED BY <2>1, <2>2
  <1> QED
    BY <1>1, <1>2, <1>3, <1>4, <1>5, <1>6, <1>7, <1>8, <1>9, <1>10, <1>11 DEF Next, Step
-----------------------------------------------------------------------------
\* The types; that the counters stay natural numbers needs their meaning.
LEMMA TypeStep == IInv /\ Next => TypeOK'
  <1> SUFFICES ASSUME IInv, Next PROVE TypeOK'
    OBVIOUS
  <1>i. TypeOK
    BY DEF IInv
  <1>c. rw_nwaitreaders' \in Nat /\ rw_nwaitwriters' \in Nat
    BY CountStep, SizesPrime DEF CountInv
  <1> USE <1>i, <1>c DEF TypeOK, Ops, LockOps, PCs
  <1>1. ASSUME NEW t \in Threads, NEW f \in Ops, Call(t, f) PROVE TypeOK'
    BY <1>1 DEF Call
  <1>2. ASSUME NEW t \in Threads, Lock(t) PROVE TypeOK'
    BY <1>2 DEF Lock
  <1>3. ASSUME NEW t \in Threads, Woken(t) \/ Cleanup(t) PROVE TypeOK'
    BY <1>3 DEF Woken, Cleanup
  <1>4. ASSUME NEW t \in Threads, RdLock(t) PROVE TypeOK'
    BY <1>4 DEF RdLock, Return
  <1>5. ASSUME NEW t \in Threads, WrLock(t) PROVE TypeOK'
    BY <1>5 DEF WrLock, Return
  <1>6. ASSUME NEW t \in Threads, TryRdLock(t) PROVE TypeOK'
    BY <1>6 DEF TryRdLock, Return
  <1>7. ASSUME NEW t \in Threads, TryWrLock(t) PROVE TypeOK'
    BY <1>7 DEF TryWrLock, Return
  <1>8. ASSUME NEW t \in Threads, Unlock(t) PROVE TypeOK'
    <2>1. pc' \in [Threads -> PCs]
      BY <1>8 DEF Unlock
    <2>2. rw_refcount' \in Nat \cup {-1}
      BY <1>8 DEF Unlock
    <2> QED BY <1>8, <2>1, <2>2, Zenon DEF Unlock
  <1>9. ASSUME NEW t \in Threads, SpuriousWake(t) \/ Cancel(t) PROVE TypeOK'
    BY <1>9 DEF SpuriousWake, Cancel
  <1> QED
    BY <1>1, <1>2, <1>3, <1>4, <1>5, <1>6, <1>7, <1>8, <1>9 DEF Next, Step

LEMMA InvStep == IInv /\ [Next]_vars => IInv'
  <1>1. IInv /\ Next => IInv'
    BY FlowStep, CountStep, ExclusionStep, ForgottenStep, TypeStep DEF IInv
  <1>2. IInv /\ UNCHANGED vars => IInv'
    BY DEF IInv, vars, TypeOK, MutexInv, FlowInv, CountInv, Counted, Exclusion, Holders,
           NoForgottenWaiter, Sleeping, WriterAwake, WriterCancelled
  <1> QED BY <1>1, <1>2

\* The lock's inductive invariant: the types, the owner of rw_mutex, the control
\* flow, and what the three counters count.
THEOREM Invariance == Spec => []IInv
  BY InitInv, InvStep, PTL DEF Spec

\* The counters of pthread_rwlock_t keep their ranges through every
\* interleaving of calls, wake-ups and cancellations.
THEOREM TypesHold == Spec => []TypeOK
  <1>1. IInv => TypeOK
    BY DEF IInv
  <1> QED BY <1>1, Invariance, PTL

\* Any number of readers or one writer has the lock, rw_refcount says which,
\* and unlock never finds a count of zero.
THEOREM ExclusionHolds == Spec => []Exclusion
  <1>1. IInv => Exclusion
    BY DEF IInv
  <1> QED BY <1>1, Invariance, PTL

\* A lock nobody is using can be destroyed, whatever was cancelled before.
THEOREM QuietLockIsFreeHolds == Spec => []QuietLockIsFree
  <1>1. IInv => QuietLockIsFree
    <2> SUFFICES ASSUME IInv, \A t \in Threads : pc[t] \in {"idle", "dead"} /\ held[t] = "none"
                 PROVE  rw_refcount = 0 /\ rw_nwaitreaders = 0 /\ rw_nwaitwriters = 0
      BY DEF QuietLockIsFree
    <2>1. Counted("rdlock") = {} /\ Counted("wrlock") = {}
      BY DEF Counted
    <2>2. Holders("read") = {} /\ Holders("write") = {}
      BY DEF Holders
    <2>3. Cardinality({}) = 0
      BY FS_EmptySet
    <2> QED BY <2>1, <2>2, <2>3 DEF IInv, CountInv, Exclusion
  <1> QED BY <1>1, Invariance, PTL

\* No thread sleeps beside a free lock with no writer on its way to it, but for
\* readers after the cancellation of a waiting writer.
THEOREM NoForgottenWaiterHolds == Spec => []NoForgottenWaiter
  <1>1. IInv => NoForgottenWaiter
    BY DEF IInv
  <1> QED BY <1>1, Invariance, PTL

\* A read lock is never granted while a writer is counted as waiting.
THEOREM WritersFirstHolds == Spec => WritersFirst
  <1> DEFINE Granted == \A t \in Threads :
                           held[t] # "read" /\ held'[t] = "read" => Counted("wrlock") = {}
  <1>1. IInv /\ [Next]_vars => [Granted]_vars
    <2> SUFFICES ASSUME IInv, Next, NEW t \in Threads, held[t] # "read", held'[t] = "read"
                 PROVE  Counted("wrlock") = {}
      OBVIOUS
    <2>1. TypeOK /\ CountInv
      BY DEF IInv
    <2>2. \/ RdLock(t) /\ held'[t] = "read"
          \/ TryRdLock(t) /\ held'[t] = "read"
      BY <2>1, SMTT(30)
         DEF Next, Step, Call, Lock, Woken, Cleanup, RdLock, WrLock, TryRdLock, TryWrLock,
             Unlock, SpuriousWake, Cancel, Return, TypeOK
    <2>3. ~(rw_nwaitwriters > 0)
      BY <2>1, <2>2 DEF RdLock, TryRdLock, Return, TypeOK
    <2> QED BY <2>1, <2>3, Sizes, FS_EmptySet DEF CountInv
  <1> QED BY <1>1, Invariance, PTL DEF Spec, WritersFirst
=============================================================================
