---------------------------- MODULE RuntimeEvent ----------------------------
(***************************************************************************)
(* What RuntimeLock (src/thread.cc) promises its callers: an auto-reset    *)
(* event.  A wait() returns only by consuming a pending signal; a ready()  *)
(* makes a signal pending; signals do not accumulate.                      *)
(***************************************************************************)
CONSTANTS Waiters,  \* threads that call wait(): the simulation thread
          Setters   \* threads that call ready(): the server thread, teardown

VARIABLES signal,   \* BOOLEAN: a signal is pending
          waiting,  \* the waiters inside wait()
          calling,  \* the setters inside ready(), signal not yet raised
          raised    \* the setters inside ready() that have raised the signal

evars == <<signal, waiting, calling, raised>>

Init ==
    /\ signal = FALSE
    /\ waiting = {}
    /\ calling = {}
    /\ raised = {}

CallWait(w) ==
    /\ w \notin waiting
    /\ waiting' = waiting \cup {w}
    /\ UNCHANGED <<signal, calling, raised>>

\* The only way out of wait(): consume the pending signal.
Pass(w) ==
    /\ w \in waiting
    /\ signal
    /\ signal' = FALSE
    /\ waiting' = waiting \ {w}
    /\ UNCHANGED <<calling, raised>>

CallReady(s) ==
    /\ s \notin calling \cup raised
    /\ calling' = calling \cup {s}
    /\ UNCHANGED <<signal, waiting, raised>>

Raise(s) ==
    /\ s \in calling
    /\ signal' = TRUE
    /\ calling' = calling \ {s}
    /\ raised' = raised \cup {s}
    /\ UNCHANGED waiting

Return(s) ==
    /\ s \in raised
    /\ raised' = raised \ {s}
    /\ UNCHANGED <<signal, waiting, calling>>

Next ==
    \/ \E w \in Waiters : CallWait(w) \/ Pass(w)
    \/ \E s \in Setters : CallReady(s) \/ Raise(s) \/ Return(s)

Spec == Init /\ [][Next]_evars
=============================================================================
