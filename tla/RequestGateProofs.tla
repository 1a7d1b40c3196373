------------------------- MODULE RequestGateProofs --------------------------
(***************************************************************************)
(* Proofs about RequestGate for every set of contexts and closers.         *)
(***************************************************************************)
EXTENDS RequestGate, FiniteSetTheorems, TLAPS

\* Once the monitor has started to drain, the gate is closed for good.
ClosedBeforeDrain == waiter # "idle" => ~accepting

IInv ==
    /\ TypeOK
    /\ IsFiniteSet(held)
    /\ CountsOutstanding
    /\ NoLostWakeup
    /\ ClosedBeforeDrain
    /\ DrainIsFinal

\* The counter is zero exactly when nobody holds an admission.
LEMMA ZeroIsEmpty == IInv => (admitted = 0 <=> held = {})
BY FS_EmptySet DEF IInv, CountsOutstanding

\* Adding or dropping one admission moves the cardinality by one.
LEMMA HeldCardinality ==
    ASSUME IInv, NEW c \in Contexts
    PROVE  /\ c \notin held => /\ IsFiniteSet(held \cup {c})
                               /\ Cardinality(held \cup {c}) = admitted + 1
           /\ c \in held => /\ IsFiniteSet(held \ {c})
                            /\ Cardinality(held \ {c}) = admitted - 1
                            /\ admitted > 0
<1>1. Cardinality(held) = admitted /\ IsFiniteSet(held) /\ admitted \in Nat
  BY DEF IInv, CountsOutstanding, TypeOK
<1>2. c \notin held => /\ IsFiniteSet(held \cup {c})
                       /\ Cardinality(held \cup {c}) = admitted + 1
  BY <1>1, FS_AddElement
<1>3. c \in held => /\ IsFiniteSet(held \ {c})
                    /\ Cardinality(held \ {c}) = admitted - 1
  BY <1>1, FS_RemoveElement
<1>4. c \in held => admitted > 0
  BY <1>1, ZeroIsEmpty, SMT
<1> QED
  BY <1>2, <1>3, <1>4

\* The initial state satisfies the inductive invariant.
LEMMA InitInvariant == Init => IInv
<1> SUFFICES ASSUME Init PROVE IInv
  OBVIOUS
<1>1. IsFiniteSet(held) /\ Cardinality(held) = 0
  BY FS_EmptySet, Zenon DEF Init
<1>2. TypeOK
  BY DEF Init, TypeOK, WaiterStates
<1> QED
  BY <1>1, <1>2 DEF Init, IInv, CountsOutstanding, NoLostWakeup,
     ClosedBeforeDrain, DrainIsFinal

\* Every step of every thread preserves the inductive invariant.
LEMMA StepInvariant == IInv /\ [Next]_vars => IInv'
<1> SUFFICES ASSUME IInv, [Next]_vars PROVE IInv'
  OBVIOUS
<1> USE DEF IInv, TypeOK, WaiterStates, CountsOutstanding, NoLostWakeup,
            ClosedBeforeDrain, DrainIsFinal
<1>1. ASSUME NEW c \in Contexts, Admit(c) PROVE IInv'
  BY <1>1, HeldCardinality DEF Admit
<1>2. ASSUME NEW c \in Contexts, Release(c) PROVE IInv'
  <2>1. TypeOK' /\ IsFiniteSet(held') /\ CountsOutstanding'
    BY <1>2, HeldCardinality DEF Release, OweNotify
  <2>2. NoLostWakeup'
    BY <1>2 DEF Release, OweNotify
  <2>3. ClosedBeforeDrain' /\ DrainIsFinal'
    BY <1>2 DEF Release
  <2> QED
    BY <2>1, <2>2, <2>3
<1>3. ASSUME NEW t \in Closers, Close(t) PROVE IInv'
  BY <1>3 DEF Close, OweNotify
<1>4. ASSUME CloseAndDrain PROVE IInv'
  BY <1>4, ThreadAssumption DEF CloseAndDrain, OweNotify
<1>5. ASSUME NEW t \in Contexts \cup Closers, NotifyOne(t) PROVE IInv'
  BY <1>5 DEF NotifyOne, gateState
<1>6. ASSUME StartWait PROVE IInv'
  BY <1>6 DEF StartWait, gateState
<1>7. ASSUME Expire PROVE IInv'
  BY <1>7 DEF Expire, gateState
<1>8. ASSUME CheckGate PROVE IInv'
  BY <1>8, ZeroIsEmpty DEF CheckGate, gateState
<1>9. ASSUME PollNotified PROVE IInv'
  BY <1>9 DEF PollNotified, gateState
<1>10. ASSUME Resume PROVE IInv'
  BY <1>10 DEF Resume, gateState
<1>11. ASSUME TimeOut PROVE IInv'
  BY <1>11, ZeroIsEmpty DEF TimeOut, gateState
<1>12. CASE UNCHANGED vars
  BY <1>12 DEF vars
<1> QED
  BY <1>1, <1>2, <1>3, <1>4, <1>5, <1>6, <1>7, <1>8, <1>9, <1>10, <1>11,
     <1>12 DEF Next

\* The inductive invariant holds throughout.
LEMMA Invariance == Spec => []IInv
BY InitInvariant, StepInvariant, PTL DEF Spec

\* Type correctness of the gate.
THEOREM TypeCorrect == Spec => []TypeOK
<1>1. IInv => TypeOK
  BY DEF IInv
<1> QED
  BY <1>1, Invariance, PTL

\* The counter always equals the number of outstanding admissions.
THEOREM CountIsExact == Spec => []CountsOutstanding
<1>1. IInv => CountsOutstanding
  BY DEF IInv
<1> QED
  BY <1>1, Invariance, PTL

\* A waiter asleep on a drained gate always has a wakeup coming.
THEOREM WakeupNeverLost == Spec => []NoLostWakeup
<1>1. IInv => NoLostWakeup
  BY DEF IInv
<1> QED
  BY <1>1, Invariance, PTL

\* A drain that was reported cannot be undone by a later request.
THEOREM DrainNeverUndone == Spec => []DrainIsFinal
<1>1. IInv => DrainIsFinal
  BY DEF IInv
<1> QED
  BY <1>1, Invariance, PTL

\* The mutex, counter and Notify implement the abstract barrier.
THEOREM GateImplementsBarrier == Spec => ImplementsBarrier
<1>1. Init => Barrier!Init
  BY DEF Init, Barrier!Init, Outcome
<1>2. IInv /\ [Next]_vars => [Barrier!Next]_Barrier!vars
  <2> SUFFICES ASSUME IInv, [Next]_vars
               PROVE  [Barrier!Next]_Barrier!vars
    OBVIOUS
  <2> USE DEF Outcome, Barrier!vars
  <2>1. ASSUME NEW c \in Contexts, Admit(c) PROVE Barrier!Admit(c)
    BY <2>1 DEF Admit, Barrier!Admit
  <2>2. ASSUME NEW c \in Contexts, Release(c) PROVE Barrier!Release(c)
    BY <2>2 DEF Release, Barrier!Release
  <2>3. ASSUME NEW t \in Closers, Close(t) PROVE Barrier!Close
    BY <2>3 DEF Close, Barrier!Close
  <2>4. ASSUME CloseAndDrain PROVE Barrier!Close
    BY <2>4 DEF CloseAndDrain, Barrier!Close
  <2>5. ASSUME NEW t \in Contexts \cup Closers, NotifyOne(t)
        PROVE  UNCHANGED Barrier!vars
    BY <2>5 DEF NotifyOne, gateState
  <2>6. ASSUME StartWait PROVE Barrier!StartDrain
    BY <2>6 DEF StartWait, gateState, Barrier!StartDrain, IInv,
       ClosedBeforeDrain
  <2>7. ASSUME Expire PROVE Barrier!Expire
    BY <2>7 DEF Expire, gateState, Barrier!Expire
  <2>8. ASSUME CheckGate
        PROVE  Barrier!Drained \/ Barrier!GaveUp \/ UNCHANGED Barrier!vars
    BY <2>8, ZeroIsEmpty DEF CheckGate, gateState, Barrier!Drained,
       Barrier!GaveUp
  <2>9. ASSUME PollNotified PROVE UNCHANGED Barrier!vars
    BY <2>9 DEF PollNotified, gateState
  <2>10. ASSUME Resume PROVE UNCHANGED Barrier!vars
    BY <2>10 DEF Resume, gateState
  <2>11. ASSUME TimeOut PROVE Barrier!Drained \/ Barrier!GaveUp
    BY <2>11, ZeroIsEmpty DEF TimeOut, gateState, Barrier!Drained,
       Barrier!GaveUp
  <2>12. CASE UNCHANGED vars
    BY <2>12 DEF vars
  <2> QED
    BY <2>1, <2>2, <2>3, <2>4, <2>5, <2>6, <2>7, <2>8, <2>9, <2>10, <2>11,
       <2>12 DEF Next, Barrier!Next
<1> QED
  BY <1>1, <1>2, Invariance, PTL DEF Spec, ImplementsBarrier, Barrier!Spec
=============================================================================
