---------------------------- MODULE RuntimeLock -----------------------------
(***************************************************************************)
(* RuntimeLock (src/thread.cc): the mutex m_, the atomic flag ready_ and   *)
(* the condition variable cv_ that park the simulation thread until the    *)
(* server thread handles a command.  Every step below is one atomic access *)
(* to that shared state, so that the unlocked load at the head of ready()  *)
(* and the gap between testing the predicate and blocking are visible.     *)
(***************************************************************************)
EXTENDS Naturals

CONSTANTS Waiters,  \* threads that call wait()
          Setters,  \* threads that call ready()
          NoThread  \* owner of the mutex when it is free

ASSUME ThreadAssumption ==
    /\ Waiters \cap Setters = {}
    /\ NoThread \notin Waiters \cup Setters

VARIABLES m,        \* the thread that owns m_, or NoThread
          ready,    \* ready_
          blocked,  \* the threads blocked on cv_
          pc        \* the next step of each thread

vars == <<m, ready, blocked, pc>>

WaitPc == {"idle", "w_lock", "w_test", "w_block", "w_sleep", "w_store", "w_unlock"}
ReadyPc == {"idle", "r_load", "r_lock", "r_store", "r_unlock", "r_notify", "r_return"}

Goto(t, l) == pc' = [pc EXCEPT ![t] = l]

Init ==
    /\ m = NoThread
    /\ ready = FALSE
    /\ blocked = {}
    /\ pc = [t \in Waiters \cup Setters |-> "idle"]

-----------------------------------------------------------------------------
(* RuntimeLock::wait                                                       *)

CallWait(w) ==
    /\ pc[w] = "idle"
    /\ Goto(w, "w_lock")
    /\ UNCHANGED <<m, ready, blocked>>

\* unique_lock's constructor, and the re-acquisition when cv_.wait wakes up.
LockForWait(w) ==
    /\ pc[w] = "w_lock"
    /\ m = NoThread
    /\ m' = w
    /\ Goto(w, "w_test")
    /\ UNCHANGED <<ready, blocked>>

\* Mutant: cv_.wait without its predicate: any wake-up passes.
TestReady_OnlyOnce(w) ==
    /\ pc[w] = "w_test"
    /\ \/ Goto(w, "w_store")
       \/ ~ready /\ Goto(w, "w_block")
    /\ UNCHANGED <<m, ready, blocked>>

\* The predicate ready_.load() of cv_.wait.
TestReady(w) ==
    /\ pc[w] = "w_test"
    /\ Goto(w, IF ready THEN "w_store" ELSE "w_block")
    /\ UNCHANGED <<m, ready, blocked>>

\* Release m_ and block on cv_, atomically.
Block(w) ==
    /\ pc[w] = "w_block"
    /\ m' = NoThread
    /\ blocked' = blocked \cup {w}
    /\ Goto(w, "w_sleep")
    /\ UNCHANGED ready

\* A notified thread goes on to take the mutex again.
Awaken(w) ==
    /\ pc[w] = "w_sleep"
    /\ w \notin blocked
    /\ Goto(w, "w_lock")
    /\ UNCHANGED <<m, ready, blocked>>

\* Wake up without a notification, which the predicate absorbs.
SpuriousWake(w) ==
    /\ pc[w] = "w_sleep"
    /\ w \in blocked
    /\ blocked' = blocked \ {w}
    /\ Goto(w, "w_lock")
    /\ UNCHANGED <<m, ready>>

\* Mutant: ready_ is not reset when the waiter passes.
Consume_NoReset(w) ==
    /\ pc[w] = "w_store"
    /\ Goto(w, "w_unlock")
    /\ UNCHANGED <<m, ready, blocked>>

Consume(w) ==
    /\ pc[w] = "w_store"
    /\ ready' = FALSE
    /\ Goto(w, "w_unlock")
    /\ UNCHANGED <<m, blocked>>

UnlockAfterWait(w) ==
    /\ pc[w] = "w_unlock"
    /\ m' = NoThread
    /\ Goto(w, "idle")
    /\ UNCHANGED <<ready, blocked>>

-----------------------------------------------------------------------------
(* RuntimeLock::ready                                                      *)

CallReady(s) ==
    /\ pc[s] = "idle"
    /\ Goto(s, "r_load")
    /\ UNCHANGED <<m, ready, blocked>>

\* The unlocked test: a signal that is already pending is not raised again.
LoadReady(s) ==
    /\ pc[s] = "r_load"
    /\ Goto(s, IF ready THEN "r_return" ELSE "r_lock")
    /\ UNCHANGED <<m, ready, blocked>>

\* Mutant: ready_ is set without taking the mutex.
LockForReady_NoMutex(s) ==
    /\ pc[s] = "r_lock"
    /\ Goto(s, "r_store")
    /\ UNCHANGED <<m, ready, blocked>>

LockForReady(s) ==
    /\ pc[s] = "r_lock"
    /\ m = NoThread
    /\ m' = s
    /\ Goto(s, "r_store")
    /\ UNCHANGED <<ready, blocked>>

StoreReady(s) ==
    /\ pc[s] = "r_store"
    /\ ready' = TRUE
    /\ Goto(s, "r_unlock")
    /\ UNCHANGED <<m, blocked>>

UnlockAfterReady(s) ==
    /\ pc[s] = "r_unlock"
    /\ m' = NoThread
    /\ Goto(s, "r_notify")
    /\ UNCHANGED <<ready, blocked>>

\* Mutant: the notification is forgotten.
NotifyOne_Dropped(s) ==
    /\ pc[s] = "r_notify"
    /\ Goto(s, "r_return")
    /\ UNCHANGED <<m, ready, blocked>>

\* notify_one: unblock one of the blocked threads, if there is one.
NotifyOne(s) ==
    /\ pc[s] = "r_notify"
    /\ Goto(s, "r_return")
    /\ IF blocked = {}
       THEN blocked' = {}
       ELSE \E w \in blocked : blocked' = blocked \ {w}
    /\ UNCHANGED <<m, ready>>

ReturnReady(s) ==
    /\ pc[s] = "r_return"
    /\ Goto(s, "idle")
    /\ UNCHANGED <<m, ready, blocked>>

-----------------------------------------------------------------------------
\* The steps a thread takes by itself once it is inside wait() or ready().
WaitStep(w) ==
    \/ LockForWait(w) \/ TestReady(w) \/ Block(w) \/ Awaken(w)
    \/ Consume(w) \/ UnlockAfterWait(w)

ReadyStep(s) ==
    \/ LoadReady(s) \/ LockForReady(s) \/ StoreReady(s)
    \/ UnlockAfterReady(s) \/ NotifyOne(s) \/ ReturnReady(s)

Next ==
    \/ \E w \in Waiters : CallWait(w) \/ WaitStep(w) \/ SpuriousWake(w)
    \/ \E s \in Setters : CallReady(s) \/ ReadyStep(s)

Spec == Init /\ [][Next]_vars

\* A thread the operating system schedules keeps running.  Nobody is obliged to
\* call wait() or ready(), and no wake-up is owed to a thread nobody notified.
FairSpec ==
    /\ Spec
    /\ \A w \in Waiters : WF_vars(WaitStep(w))
    /\ \A s \in Setters : WF_vars(ReadyStep(s))

-----------------------------------------------------------------------------
TypeOK ==
    /\ m \in Waiters \cup Setters \cup {NoThread}
    /\ ready \in BOOLEAN
    /\ blocked \subseteq Waiters
    /\ pc \in [Waiters \cup Setters -> WaitPc \cup ReadyPc]
    /\ \A w \in Waiters : pc[w] \in WaitPc
    /\ \A s \in Setters : pc[s] \in ReadyPc

\* The steps taken while holding m_.
Critical == {"w_test", "w_block", "w_store", "w_unlock", "r_store", "r_unlock"}

\* A thread is in a critical step exactly when it owns m_ (so two never are).
OwnerIsCritical ==
    \A t \in Waiters \cup Setters : pc[t] \in Critical <=> m = t

\* A blocked thread is asleep.
BlockedAsleep == \A w \in blocked : pc[w] = "w_sleep"

\* A thread about to block has seen ready_ unset, and it still is: the store in
\* ready() needs the mutex that thread holds.
BlockingOnUnset == \A w \in Waiters : pc[w] = "w_block" => ~ready

\* A thread about to consume the signal finds it set.
ConsumesSignal == \A w \in Waiters : pc[w] = "w_store" => ready

\* The wake-up is on its way: a setter that has stored ready_ has not notified
\* yet, or a waiter is up and will test ready_.
WakeupPending ==
    \/ \E s \in Setters : pc[s] \in {"r_unlock", "r_notify"}
    \/ \E w \in Waiters \ blocked :
           pc[w] \in {"w_sleep", "w_lock", "w_test", "w_store"}

\* wait() and ready() never lose a wake-up: while a signal is pending, a thread
\* blocked on cv_ is not left behind.  (The unlocked test at the head of ready()
\* and the notification after the unlock are what could break it.)
NoLostWakeup == ready /\ blocked # {} => WakeupPending

\* What makes NoLostWakeup inductive.
IInv ==
    /\ TypeOK
    /\ OwnerIsCritical
    /\ BlockedAsleep
    /\ BlockingOnUnset
    /\ ConsumesSignal
    /\ NoLostWakeup

InWait(w) == pc[w] \in WaitPc \ {"idle", "w_unlock"}

\* RuntimeLock implements the auto-reset event its users rely on.
Event == INSTANCE RuntimeEvent WITH
    signal  <- ready,
    waiting <- {w \in Waiters : InWait(w)},
    calling <- {s \in Setters : pc[s] \in {"r_load", "r_lock", "r_store"}},
    raised  <- {s \in Setters : pc[s] \in {"r_unlock", "r_notify", "r_return"}}

\* Every step of wait() and ready() is a step of the auto-reset event or
\* changes nothing its users see.
ImplementsEvent == Event!Spec

\* A pending signal is consumed once somebody waits for it, although only one
\* thread is notified and a setter that finds ready_ set notifies nobody.
SignalConsumed ==
    (ready /\ \E w \in Waiters : InWait(w)) ~> ~ready
=============================================================================
