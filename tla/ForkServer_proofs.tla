-------------------------- MODULE ForkServer_proofs --------------------------
(***************************************************************************)
(* Proofs about ForkServer, for any set of connections and any backlog.    *)
(***************************************************************************)
EXTENDS ForkServer, TLAPS

IInv == TypeOK /\ OwnDescriptors /\ NoForgottenZombie

LEMMA InitInv == Init => IInv
  <1> SUFFICES ASSUME Init PROVE IInv
    OBVIOUS
  <1> USE ForkAssumption DEF Init
  <1>1. TypeOK
    <2>1. pending \in BOOLEAN
      BY Zenon
    <2>2. backlog \in Seq(Conns)
      OBVIOUS
    <2>3. cfds \in [Conns -> SUBSET (Conns \cup {Listen})]
      OBVIOUS
    <2>4. cpc \in [Conns -> ChildPCs]
      BY DEF ChildPCs
    <2> QED BY <2>1, <2>2, <2>3, <2>4 DEF TypeOK, ParentPCs, HandlerPCs
  <1>2. OwnDescriptors
    BY DEF OwnDescriptors
  <1>3. NoForgottenZombie
    BY DEF NoForgottenZombie, Zombies
  <1> QED BY <1>1, <1>2, <1>3 DEF IInv

\* Types, action by action.
LEMMA TypeStep == TypeOK /\ [Next]_vars => TypeOK'
  <1> SUFFICES ASSUME TypeOK, [Next]_vars PROVE TypeOK'
    OBVIOUS
  <1> USE DEF TypeOK, ParentPCs, HandlerPCs, ChildPCs
  <1>1. ASSUME NEW c \in Conns, ClientConnect(c) PROVE TypeOK'
    BY <1>1 DEF ClientConnect
  <1>2. ASSUME NEW c \in Conns, ClientHangup(c) PROVE TypeOK'
    BY <1>2 DEF ClientHangup
  <1>3. CASE ParentAccept
    <2>1. Head(backlog) \in Conns /\ Tail(backlog) \in Seq(Conns)
      BY <1>3 DEF ParentAccept
    <2> QED BY <1>3, <2>1 DEF ParentAccept
  <1>4. CASE ParentFails
    BY <1>4 DEF ParentFails, ParentRuns
  <1>5. CASE ParentLog
    BY <1>5 DEF ParentLog, ParentRuns
  <1>6. CASE ParentLogged
    BY <1>6 DEF ParentLogged, ParentRuns
  <1>7. CASE ParentFork
    BY <1>7 DEF ParentFork, ParentRuns
  <1>8. CASE ParentClose
    BY <1>8 DEF ParentClose, ParentRuns
  <1>9. CASE SigChld
    BY <1>9, Zenon DEF SigChld
  <1>10. CASE HandlerLog \/ HandlerLogged \/ HandlerReturns
    BY <1>10 DEF HandlerLog, HandlerLogged, HandlerReturns
  <1>11. ASSUME NEW c \in Conns, Reap(c) PROVE TypeOK'
    BY <1>11 DEF Reap
  <1>12. ASSUME NEW c \in Conns, ChildStart(c) PROVE TypeOK'
    BY <1>12 DEF ChildStart
  <1>13. ASSUME NEW c \in Conns, ChildExit(c) PROVE TypeOK'
    BY <1>13 DEF ChildExit
  <1>14. CASE UNCHANGED vars
    BY <1>14 DEF vars
  <1> QED
    BY <1>1, <1>2, <1>3, <1>4, <1>5, <1>6, <1>7, <1>8, <1>9, <1>10, <1>11, <1>12, <1>13,
       <1>14 DEF Next, ParentStep, HandlerStep, Child

\* Descriptors change hands only in accept, fork, the two closes and exit.
LEMMA DescriptorStep == IInv /\ [Next]_vars => OwnDescriptors'
  <1> SUFFICES ASSUME IInv, [Next]_vars PROVE OwnDescriptors'
    OBVIOUS
  <1> USE ForkAssumption DEF IInv, TypeOK, OwnDescriptors, ParentRuns
  <1>1. CASE \E c \in Conns : ClientConnect(c) \/ ClientHangup(c)
    BY <1>1, Zenon DEF ClientConnect, ClientHangup
  <1>2. CASE ParentAccept
    BY <1>2 DEF ParentAccept
  <1>3. CASE ParentFails
    BY <1>3 DEF ParentFails
  <1>4. CASE ParentLog \/ ParentLogged
    BY <1>4, Zenon DEF ParentLog, ParentLogged
  <1>5. CASE ParentFork
    BY <1>5, Zenon DEF ParentFork
  <1>6. CASE ParentClose
    BY <1>6 DEF ParentClose
  <1>7. CASE SigChld \/ HandlerLog \/ HandlerLogged \/ HandlerReturns
    BY <1>7, Zenon DEF SigChld, HandlerLog, HandlerLogged, HandlerReturns
  <1>8. ASSUME NEW c \in Conns, Reap(c) PROVE OwnDescriptors'
    BY <1>8 DEF Reap
  <1>9. ASSUME NEW c \in Conns, ChildStart(c) PROVE OwnDescriptors'
    BY <1>9, Zenon DEF ChildStart
  <1>10. ASSUME NEW c \in Conns, ChildExit(c) PROVE OwnDescriptors'
    BY <1>10, Zenon DEF ChildExit
  <1>11. CASE UNCHANGED vars
    BY <1>11 DEF vars
  <1> QED
    BY <1>1, <1>2, <1>3, <1>4, <1>5, <1>6, <1>7, <1>8, <1>9, <1>10, <1>11, Zenon
       DEF Next, ParentStep, HandlerStep, Child

\* A child becomes a zombie only together with a signal, and sig_chld returns
\* only when waitpid has found none.
LEMMA ZombieStep == IInv /\ [Next]_vars => NoForgottenZombie'
  <1> SUFFICES ASSUME IInv, [Next]_vars, status' = "up", Zombies' # {}
               PROVE  pending' \/ hpc' # "none"
    BY DEF NoForgottenZombie
  <1> USE DEF IInv, TypeOK, NoForgottenZombie, Zombies, ParentRuns
  <1>1. CASE \E c \in Conns : ClientConnect(c) \/ ClientHangup(c)
    BY <1>1 DEF ClientConnect, ClientHangup
  <1>2. CASE ParentAccept \/ ParentLog \/ ParentLogged \/ ParentClose
    BY <1>2 DEF ParentAccept, ParentLog, ParentLogged, ParentClose
  <1>3. CASE ParentFails
    BY <1>3 DEF ParentFails
  <1>4. CASE ParentFork
    <2>1. Zombies' \subseteq Zombies
      BY <1>4 DEF ParentFork
    <2> QED BY <1>4, <2>1 DEF ParentFork
  <1>5. CASE SigChld \/ HandlerLog \/ HandlerLogged \/ HandlerReturns
    BY <1>5 DEF SigChld, HandlerLog, HandlerLogged, HandlerReturns
  <1>6. ASSUME NEW c \in Conns, Reap(c) PROVE pending' \/ hpc' # "none"
    BY <1>6 DEF Reap
  <1>7. ASSUME NEW c \in Conns, ChildStart(c) PROVE pending' \/ hpc' # "none"
    <2>1. Zombies' \subseteq Zombies
      BY <1>7 DEF ChildStart
    <2> QED BY <1>7, <2>1 DEF ChildStart
  <1>8. ASSUME NEW c \in Conns, ChildExit(c) PROVE pending' \/ hpc' # "none"
    BY <1>8, Zenon DEF ChildExit
  <1>9. CASE UNCHANGED vars
    BY <1>9 DEF vars
  <1> QED
    BY <1>1, <1>2, <1>3, <1>4, <1>5, <1>6, <1>7, <1>8, <1>9
       DEF Next, ParentStep, HandlerStep, Child

\* The inductive invariant: the descriptors of the parent and of its children over
\* fork and close, and the zombies sig_chld has still to wait for.
THEOREM InvHolds == Spec => []IInv
  <1>1. IInv /\ [Next]_vars => IInv'
    BY TypeStep, DescriptorStep, ZombieStep DEF IInv
  <1> QED BY InitInv, <1>1, PTL DEF Spec

\* The server keeps its types, and connfd is a connection from accept on.
THEOREM TypeCorrect == Spec => []TypeOK
  <1>1. IInv => TypeOK
    BY DEF IInv
  <1> QED BY <1>1, InvHolds, PTL

\* A connection is open in the parent from accept to Close, in its own child from
\* fork to exit, and in no other process.
THEOREM OwnDescriptorsHolds == Spec => []OwnDescriptors
  <1>1. IInv => OwnDescriptors
    BY DEF IInv
  <1> QED BY <1>1, InvHolds, PTL

\* However SIGCHLDs are merged, a zombie exists only while the signal is pending or
\* the loop of sig_chld is still to find it.
THEOREM NoForgottenZombieHolds == Spec => []NoForgottenZombie
  <1>1. IInv => NoForgottenZombie
    BY DEF IInv
  <1> QED BY <1>1, InvHolds, PTL
=============================================================================
