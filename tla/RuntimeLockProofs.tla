-------------------------- MODULE RuntimeLockProofs -------------------------
(***************************************************************************)
(* RuntimeLock never loses a wake-up and implements the auto-reset event,  *)
(* for any number of waiting and signalling threads.                       *)
(***************************************************************************)
EXTENDS RuntimeLock, TLAPS

USE DEF WaitPc, ReadyPc, Critical, Goto

\* The initial state satisfies the inductive invariant.
LEMMA InitIInv == Init => IInv
  BY ThreadAssumption
  DEF Init, IInv, TypeOK, OwnerIsCritical, BlockedAsleep, BlockingOnUnset,
      ConsumesSignal, NoLostWakeup

\* Every step of wait() and ready() keeps the variables well typed.
LEMMA TypeStep == TypeOK /\ [Next]_vars => TypeOK'
<1> SUFFICES ASSUME TypeOK, [Next]_vars PROVE TypeOK'
  OBVIOUS
<1> USE ThreadAssumption DEF TypeOK
<1>1. ASSUME NEW w \in Waiters, CallWait(w) \/ WaitStep(w) \/ SpuriousWake(w)
      PROVE  TypeOK'
  BY <1>1 DEF CallWait, WaitStep, SpuriousWake, LockForWait, TestReady, Block,
              Awaken, Consume, UnlockAfterWait
<1>2. ASSUME NEW s \in Setters, CallReady(s) \/ ReadyStep(s)
      PROVE  TypeOK'
  BY <1>2 DEF CallReady, ReadyStep, LoadReady, LockForReady, StoreReady,
              UnlockAfterReady, NotifyOne, ReturnReady
<1>3. CASE UNCHANGED vars
  BY <1>3 DEF vars
<1>4. QED
  BY <1>1, <1>2, <1>3 DEF Next

\* wait() and ready() are inside their critical sections exactly while they own
\* the mutex.
LEMMA MutexStep == TypeOK /\ OwnerIsCritical /\ [Next]_vars => OwnerIsCritical'
<1> SUFFICES ASSUME TypeOK, OwnerIsCritical, [Next]_vars PROVE OwnerIsCritical'
  OBVIOUS
<1> USE ThreadAssumption DEF TypeOK, OwnerIsCritical
<1>1. ASSUME NEW w \in Waiters, CallWait(w) \/ WaitStep(w) \/ SpuriousWake(w)
      PROVE  OwnerIsCritical'
  BY <1>1 DEF CallWait, WaitStep, SpuriousWake, LockForWait, TestReady, Block,
              Awaken, Consume, UnlockAfterWait
<1>2. ASSUME NEW s \in Setters, CallReady(s) \/ ReadyStep(s)
      PROVE  OwnerIsCritical'
  BY <1>2 DEF CallReady, ReadyStep, LoadReady, LockForReady, StoreReady,
              UnlockAfterReady, NotifyOne, ReturnReady
<1>3. CASE UNCHANGED vars
  BY <1>3 DEF vars
<1>4. QED
  BY <1>1, <1>2, <1>3 DEF Next

\* The facts about the threads between testing ready_ and acting on the test.
LEMMA LocalStep ==
  TypeOK /\ OwnerIsCritical /\ BlockedAsleep /\ BlockingOnUnset /\ ConsumesSignal
    /\ [Next]_vars => BlockedAsleep' /\ BlockingOnUnset' /\ ConsumesSignal'
<1> SUFFICES ASSUME TypeOK, OwnerIsCritical, BlockedAsleep, BlockingOnUnset,
                    ConsumesSignal, [Next]_vars
             PROVE  BlockedAsleep' /\ BlockingOnUnset' /\ ConsumesSignal'
  OBVIOUS
<1> USE ThreadAssumption
    DEF TypeOK, OwnerIsCritical, BlockedAsleep, BlockingOnUnset, ConsumesSignal
<1>1. ASSUME NEW w \in Waiters, CallWait(w) \/ WaitStep(w) \/ SpuriousWake(w)
      PROVE  BlockedAsleep' /\ BlockingOnUnset' /\ ConsumesSignal'
  BY <1>1 DEF CallWait, WaitStep, SpuriousWake, LockForWait, TestReady, Block,
              Awaken, Consume, UnlockAfterWait
<1>2. ASSUME NEW s \in Setters, CallReady(s) \/ ReadyStep(s)
      PROVE  BlockedAsleep' /\ BlockingOnUnset' /\ ConsumesSignal'
  BY <1>2 DEF CallReady, ReadyStep, LoadReady, LockForReady, StoreReady,
              UnlockAfterReady, NotifyOne, ReturnReady
<1>3. CASE UNCHANGED vars
  BY <1>3 DEF vars
<1>4. QED
  BY <1>1, <1>2, <1>3 DEF Next

\* No step of wait() or ready() loses a wake-up.
LEMMA WakeupStep == IInv /\ [Next]_vars => NoLostWakeup'
<1> SUFFICES ASSUME IInv, [Next]_vars PROVE NoLostWakeup'
  OBVIOUS
<1> USE ThreadAssumption
    DEF IInv, TypeOK, OwnerIsCritical, BlockedAsleep, BlockingOnUnset,
        ConsumesSignal, NoLostWakeup, WakeupPending
<1>1. ASSUME NEW w \in Waiters, CallWait(w) \/ WaitStep(w) \/ SpuriousWake(w)
      PROVE  NoLostWakeup'
  <2>1. CASE CallWait(w)
    BY <2>1 DEF CallWait
  <2>2. CASE LockForWait(w)
    BY <2>2 DEF LockForWait
  <2>3. CASE TestReady(w)
    BY <2>3 DEF TestReady
  <2>4. CASE Block(w)
    BY <2>4 DEF Block
  <2>5. CASE Awaken(w)
    BY <2>5 DEF Awaken
  <2>6. CASE Consume(w)
    BY <2>6 DEF Consume
  <2>7. CASE UnlockAfterWait(w)
    BY <2>7 DEF UnlockAfterWait
  <2>8. CASE SpuriousWake(w)
    BY <2>8 DEF SpuriousWake
  <2>9. QED
    BY <1>1, <2>1, <2>2, <2>3, <2>4, <2>5, <2>6, <2>7, <2>8 DEF WaitStep
<1>2. ASSUME NEW s \in Setters, CallReady(s) \/ ReadyStep(s)
      PROVE  NoLostWakeup'
  <2>1. CASE CallReady(s)
    BY <2>1 DEF CallReady
  <2>2. CASE LoadReady(s)
    BY <2>2 DEF LoadReady
  <2>3. CASE LockForReady(s)
    BY <2>3 DEF LockForReady
  <2>4. CASE StoreReady(s)
    BY <2>4 DEF StoreReady
  <2>5. CASE UnlockAfterReady(s)
    BY <2>5 DEF UnlockAfterReady
  <2>6. CASE NotifyOne(s)
    BY <2>6 DEF NotifyOne
  <2>7. CASE ReturnReady(s)
    BY <2>7 DEF ReturnReady
  <2>8. QED
    BY <1>2, <2>1, <2>2, <2>3, <2>4, <2>5, <2>6, <2>7 DEF ReadyStep
<1>3. CASE UNCHANGED vars
  BY <1>3 DEF vars
<1>4. QED
  BY <1>1, <1>2, <1>3 DEF Next

\* IInv is an inductive invariant of RuntimeLock.
THEOREM LockInvariant == Spec => []IInv
<1>1. IInv /\ [Next]_vars => IInv'
  BY TypeStep, MutexStep, LocalStep, WakeupStep DEF IInv
<1>2. QED
  BY InitIInv, <1>1, PTL DEF Spec

\* While a signal is pending no thread blocked in wait() is left behind, for any
\* number of threads that call wait() and ready().
THEOREM LockNoLostWakeup == Spec => []NoLostWakeup
<1>1. IInv => NoLostWakeup
  BY DEF IInv
<1>2. QED
  BY LockInvariant, <1>1, PTL

-----------------------------------------------------------------------------
\* A step of a thread in wait() is a step of the event, or invisible.
LEMMA WaitRefines ==
  ASSUME TypeOK, ConsumesSignal, NEW w \in Waiters,
         CallWait(w) \/ WaitStep(w) \/ SpuriousWake(w)
  PROVE  [Event!Next]_(Event!evars)
<1> USE ThreadAssumption DEF TypeOK, ConsumesSignal, InWait
<1>1. CASE CallWait(w)
  <2>1. Event!CallWait(w)
    BY <1>1 DEF CallWait, Event!CallWait
  <2>2. QED
    BY <2>1 DEF Event!Next
<1>2. CASE Consume(w)
  <2>1. Event!Pass(w)
    BY <1>2 DEF Consume, Event!Pass
  <2>2. QED
    BY <2>1 DEF Event!Next
<1>3. CASE LockForWait(w) \/ TestReady(w) \/ Block(w) \/ Awaken(w)
             \/ UnlockAfterWait(w) \/ SpuriousWake(w)
  BY <1>3 DEF LockForWait, TestReady, Block, Awaken, UnlockAfterWait,
              SpuriousWake, Event!evars
<1>4. QED
  BY <1>1, <1>2, <1>3 DEF WaitStep

\* A step of a thread in ready() is a step of the event, or invisible.
LEMMA ReadyRefines ==
  ASSUME TypeOK, NEW s \in Setters, CallReady(s) \/ ReadyStep(s)
  PROVE  [Event!Next]_(Event!evars)
<1> USE ThreadAssumption DEF TypeOK, InWait
<1>1. CASE CallReady(s)
  <2>1. Event!CallReady(s)
    BY <1>1 DEF CallReady, Event!CallReady
  <2>2. QED
    BY <2>1 DEF Event!Next
<1>2. CASE LoadReady(s) /\ ready
  <2>1. Event!Raise(s)
    BY <1>2 DEF LoadReady, Event!Raise
  <2>2. QED
    BY <2>1 DEF Event!Next
<1>3. CASE StoreReady(s)
  <2>1. Event!Raise(s)
    BY <1>3 DEF StoreReady, Event!Raise
  <2>2. QED
    BY <2>1 DEF Event!Next
<1>4. CASE ReturnReady(s)
  <2>1. Event!Return(s)
    BY <1>4 DEF ReturnReady, Event!Return
  <2>2. QED
    BY <2>1 DEF Event!Next
<1>5. CASE (LoadReady(s) /\ ~ready) \/ LockForReady(s) \/ UnlockAfterReady(s)
             \/ NotifyOne(s)
  BY <1>5 DEF LoadReady, LockForReady, UnlockAfterReady, NotifyOne, Event!evars
<1>6. QED
  BY <1>1, <1>2, <1>3, <1>4, <1>5 DEF ReadyStep

\* RuntimeLock implements the auto-reset event, for any number of threads.
THEOREM LockImplementsEvent == Spec => ImplementsEvent
<1>1. Init => Event!Init
  BY ThreadAssumption DEF Init, Event!Init, InWait
<1>2. IInv /\ [Next]_vars => [Event!Next]_(Event!evars)
  <2> SUFFICES ASSUME IInv, [Next]_vars PROVE [Event!Next]_(Event!evars)
    OBVIOUS
  <2>1. CASE UNCHANGED vars
    BY <2>1 DEF vars, Event!evars, InWait
  <2>2. CASE Next
    BY <2>2, WaitRefines, ReadyRefines DEF Next, IInv
  <2>3. QED
    BY <2>1, <2>2
<1>3. QED
  BY <1>1, <1>2, LockInvariant, PTL DEF Spec, ImplementsEvent, Event!Spec
=============================================================================
