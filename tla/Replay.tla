------------------------------- MODULE Replay -------------------------------
(* The replay of a recorded trace: the emulation loop of                     *)
(* src/tools/hgdb-replay/engine.cc with the simulator interface it offers    *)
(* (vpi.cc, vcd_db.cc), the callbacks of the simulator client (src/src/      *)
(* rtl.cc), and the debugger as the one who is called back at a clock edge   *)
(* and may go to another time before it returns.                             *)
(*                                                                           *)
(* Requests come while the loop is inside a callback: the engine calls any   *)
(* other moment undefined (engine.cc:126).                                   *)
EXTENDS Integers, FiniteSets, FiniteSetsExt, Sequences, SequencesExt

CONSTANTS
    Traces,      \* traces: signal -> (time of a change -> value)
    Clocks,      \* the lists of clock names that a connection can ask for
    TimeMod,     \* uint64_t arithmetic wraps here
    StartTimes,  \* where the replay can be told to begin (--start-time)
    JumpTimes,   \* the times a client can jump to
    MaxRequests  \* bound: requests of the client in one replay

ClockNames == UNION {ToSet(names) : names \in Clocks}

\* A trace ends before the last times there are, and a clock is one bit.
ASSUME ReplayAssumption ==
    /\ TimeMod \in Nat \ {0} /\ MaxRequests \in Nat
    /\ StartTimes \subseteq 0 .. TimeMod - 1
    /\ \A tr \in Traces : \A s \in DOMAIN tr : DOMAIN tr[s] \subseteq 0 .. TimeMod - 3
    /\ \A tr \in Traces : \A s \in DOMAIN tr \cap ClockNames :
          \A x \in DOMAIN tr[s] : tr[s][x] \in {0, 1}
    /\ \A names \in Clocks : DOMAIN names = 1 .. Len(names)

VARIABLES
    trace,      \* the recorded values
    ts,         \* timestamp_
    now,        \* current_time_
    inCallback, \* is_callback_eval_
    overridden, \* overridden_values_
    watched,    \* the handles in watched_values_
    callbacks,  \* callbacks_: the handles, each of a signal since some request
    deleted,    \* the callbacks whose deleted flag is set
    cbHandles,  \* cb_handles_: the name of a callback -> its handle
    clockHandles, \* clock_handles_ of the scheduler
    running,    \* running_
    pc,         \* where the loop is
    time,       \* the time the loop works on
    changed,    \* changed_values left to fire
    firing,     \* the handle whose callback runs
    requests,   \* requests so far
    reached,    \* ghost: the edge that was evaluated or gone to last
    posedge     \* ghost: the time of the evaluation under way, or -1

vars == <<trace, ts, now, inCallback, overridden, watched, callbacks, deleted,
          cbHandles, clockHandles, running, pc, time, changed, firing, requests, reached, posedge>>
clientVars == <<watched, callbacks, deleted, cbHandles, clockHandles>>

-----------------------------------------------------------------------------
(* The trace database.  A signal is its own handle.                          *)

Signals == DOMAIN trace

\* get_signal_value: the last change at or before that time, 0 before any.
ValueAt(s, t) ==
    LET past == {x \in DOMAIN trace[s] : x <= t}
    IN  IF past = {} THEN 0 ELSE trace[s][Max(past)]

\* get_next_value_change_time
NextChanges(t) ==
    UNION {{x \in DOMAIN trace[s] : x > t} : s \in watched}

\* get_prev_value_change_time for the value "1", over the clocks.
PrevPosedges(clocks, t) ==
    UNION {{x \in DOMAIN trace[s] : x < t /\ trace[s][x] = 1} : s \in clocks}

\* vpi_get_value
Value(s) == IF s \in DOMAIN overridden THEN overridden[s] ELSE ValueAt(s, now)

\* vpi_get_time: inside a callback the values are those before the edge.
SimTime == IF inCallback THEN (now + 1) % TimeMod ELSE now

ChangeTime(t) == ts' = t % TimeMod /\ now' = t % TimeMod

-----------------------------------------------------------------------------
(* Callbacks.                                                                *)

\* What is known of the callbacks: cb_handles_, callbacks_ with the deleted flags,
\* and the signals the engine watches for them (on_cb_added, on_cb_removed).
Client == [names |-> cbHandles, cbs |-> callbacks, deleted |-> deleted, watched |-> watched]

SetClient(st) ==
    /\ cbHandles' = st.names /\ callbacks' = st.cbs
    /\ deleted' = st.deleted /\ watched' = st.watched

\* add_call_back for the names in S, in the request with this number: a name that
\* has a callback keeps it.  A request gives a signal one callback at most.
Handle(s, n) == [obj |-> s, at |-> n]
RegisterCbs(st, S, n) ==
    LET new == S \ DOMAIN st.names
    IN  [names |-> [s \in DOMAIN st.names \cup S |->
                       IF s \in new THEN Handle(s, n) ELSE st.names[s]],
         cbs |-> st.cbs \cup {Handle(s, n) : s \in new},
         deleted |-> st.deleted, watched |-> st.watched \cup new]

\* remove_call_back for the names in S
RemoveCbs_KeepsCallback(st, S) ==
    [names |-> [s \in DOMAIN st.names \ S |-> st.names[s]],
     cbs |-> st.cbs, deleted |-> st.deleted,
     watched |-> st.watched \ {st.names[s].obj : s \in S \cap DOMAIN st.names}]
RemoveCbs(st, S) ==
    LET gone == {st.names[s] : s \in S \cap DOMAIN st.names}
    IN  [names |-> [s \in DOMAIN st.names \ S |-> st.names[s]],
         cbs |-> st.cbs, deleted |-> st.deleted \cup gone,
         watched |-> st.watched \ {c.obj : c \in gone}]

\* monitor_signals: a name that is not a signal removes the callbacks of the
\* names before it, those that were there already too.
MonitorSignals(names, n) ==
    LET valid == {i \in DOMAIN names : \A j \in 1 .. i : names[j] \in Signals}
        added == {names[i] : i \in valid}
        st    == RegisterCbs(Client, added, n)
    IN  IF valid = DOMAIN names THEN st ELSE RemoveCbs(st, added)

\* A connection makes a scheduler, which looks its clocks up, and then asks
\* for the callbacks on the clocks (add_cb_clocks).
ConnectClocks(names, n) ==
    /\ clockHandles' = ToSet(names) \cap Signals
    /\ SetClient(MonitorSignals(names, n))

-----------------------------------------------------------------------------
Init ==
    /\ trace \in Traces
    /\ ts \in StartTimes /\ now = ts /\ inCallback = FALSE /\ overridden = <<>>
    /\ watched = {} /\ callbacks = {} /\ deleted = {} /\ cbHandles = <<>> /\ clockHandles = {}
    /\ running = TRUE /\ pc = "start" /\ time = 0 /\ changed = <<>> /\ firing = "none"
    /\ requests = 0 /\ reached = ts /\ posedge = -1

\* The callback of the start of the simulation waits for a client, whose
\* connection registers the clocks.
Start ==
    /\ pc = "start"
    /\ \E names \in Clocks : ConnectClocks(names, requests)
    /\ pc' = "loop"
    /\ UNCHANGED <<trace, ts, now, inCallback, overridden, running, time, changed, firing,
                   requests, reached, posedge>>

\* The loop looks for the next change, reads the new values there, and goes
\* back to just before.  watched_values_ keeps no values: every watched signal
\* counts as changed.
Schedule ==
    /\ pc = "loop" /\ running /\ NextChanges(ts) # {}
    /\ time' = Min(NextChanges(ts))
    /\ ChangeTime(time' - 1)
    /\ changed' = [h \in watched |-> ValueAt(h, time')]
    /\ overridden' = <<>>
    /\ pc' = "fire"
    /\ UNCHANGED <<trace, inCallback, clientVars, running, firing, requests, reached, posedge>>

EndOfTrace ==
    /\ pc = "loop" /\ (~running \/ NextChanges(ts) = {})
    /\ pc' = "done"
    /\ UNCHANGED <<trace, ts, now, inCallback, overridden, clientVars, running, time, changed,
                   firing, requests, reached, posedge>>

\* trigger_cb: the callbacks of the signal that are not deleted; the debugger
\* evaluates when the clock is high (eval_hgdb_on_clk).  They are the ones there
\* are when the signal fires: the code runs over callbacks_ itself, so that one a
\* Connect registers meanwhile (vpi.cc:328) may be called too, or the loop be
\* undefined when the table grows; that is left out.
Fire(h) ==
    /\ pc = "fire" /\ h \in DOMAIN changed
    /\ inCallback' = TRUE
    /\ overridden' = [x \in DOMAIN overridden \cup {h} |->
                          IF x = h THEN changed[h] ELSE overridden[x]]
    /\ changed' = [x \in DOMAIN changed \ {h} |-> changed[x]]
    /\ firing' = h
    /\ LET called == \E c \in callbacks \ deleted : c.obj = h
       IN  IF called /\ changed[h] # 0
           THEN pc' = "eval" /\ posedge' = time
           ELSE pc' = "called" /\ UNCHANGED posedge
    /\ UNCHANGED <<trace, ts, now, clientVars, running, time, requests, reached>>

\* eval() returns.
Return ==
    /\ pc = "eval"
    /\ pc' = "called"
    /\ reached' = posedge /\ posedge' = -1
    /\ UNCHANGED <<trace, ts, now, inCallback, overridden, clientVars, running, time, changed,
                   firing, requests>>

\* After the callback the other signals fire too, unless the time was changed.
AfterCallback ==
    /\ pc = "called"
    /\ inCallback' = FALSE
    /\ pc' = IF ts # time - 1 \/ DOMAIN changed = {} THEN "advance" ELSE "fire"
    /\ UNCHANGED <<trace, ts, now, overridden, clientVars, running, time, changed, firing,
                   requests, reached, posedge>>

\* The end of a turn: past the change, or past the edge that was gone to, in
\* which case only timestamp_ is moved.
Advance_RewoundStays ==
    /\ pc = "advance"
    /\ overridden' = <<>>
    /\ IF ts = time - 1 THEN ChangeTime(time + 1) ELSE UNCHANGED <<ts, now>>
    /\ changed' = <<>>
    /\ pc' = "loop"
    /\ UNCHANGED <<trace, inCallback, clientVars, running, time, firing, requests, reached, posedge>>
Advance_NoStep ==
    /\ pc = "advance"
    /\ overridden' = <<>> /\ changed' = <<>>
    /\ pc' = "loop"
    /\ UNCHANGED <<trace, ts, now, inCallback, clientVars, running, time, firing, requests,
                   reached, posedge>>
Advance ==
    /\ pc = "advance"
    /\ overridden' = <<>>
    /\ IF ts = time - 1 THEN ChangeTime(time + 1)
       ELSE ts' = (ts + 1) % TimeMod /\ UNCHANGED now
    /\ changed' = <<>>
    /\ pc' = "loop"
    /\ UNCHANGED <<trace, inCallback, clientVars, running, time, firing, requests, reached, posedge>>

-----------------------------------------------------------------------------
(* The debugger inside a callback.                                           *)

\* on_rewound: just before the last edge of a clock before that time; without
\* one nothing happens and the request reports an error.
Rewind_OnEdge(t) ==
    LET times == PrevPosedges(clockHandles, t)
    IN  IF times = {} THEN UNCHANGED <<ts, now, posedge>>
        ELSE ChangeTime(Max(times)) /\ posedge' = Max(times)
Rewind(t) ==
    LET times == PrevPosedges(clockHandles, t)
    IN  IF times = {} THEN UNCHANGED <<ts, now, posedge>>
        ELSE ChangeTime(Max(times) - 1) /\ posedge' = Max(times)

Request ==
    /\ pc = "eval" /\ requests < MaxRequests
    /\ requests' = requests + 1

\* reverse_last_posedge, from the scheduler that steps back past the first
\* breakpoint of the cycle.
ReverseLastPosedge ==
    /\ Request
    /\ Rewind(SimTime)
    /\ UNCHANGED <<trace, inCallback, overridden, clientVars, running, pc, time, changed, firing,
                   reached>>

\* The jump command; the evaluation under way goes on at the new time.
Jump ==
    /\ Request
    /\ \E t \in JumpTimes : Rewind(t)
    /\ UNCHANGED <<trace, inCallback, overridden, clientVars, running, pc, time, changed, firing,
                   reached>>

\* A client connects again.
Connect ==
    /\ Request
    /\ \E names \in Clocks : ConnectClocks(names, requests')
    /\ UNCHANGED <<trace, ts, now, inCallback, overridden, running, pc, time, changed, firing,
                   reached, posedge>>

\* detach() removes the callbacks on clocks, the only ones here.
Detach ==
    /\ Request
    /\ SetClient(RemoveCbs(Client, DOMAIN cbHandles))
    /\ UNCHANGED <<trace, ts, now, inCallback, overridden, clockHandles, running, pc, time, changed,
                   firing, reached, posedge>>

\* finish_sim ends the loop.
FinishSim ==
    /\ Request
    /\ running' = FALSE
    /\ UNCHANGED <<trace, ts, now, inCallback, overridden, clientVars, pc, time, changed, firing,
                   reached, posedge>>

Next ==
    \/ Start \/ Schedule \/ EndOfTrace \/ Return \/ AfterCallback \/ Advance
    \/ \E h \in Signals : Fire(h)
    \/ ReverseLastPosedge \/ Jump \/ Connect \/ Detach \/ FinishSim

\* The loop never waits but in a callback, and a paused client goes on: Return
\* is its command to continue.
Spec == Init /\ [][Next]_vars /\ WF_vars(Next)

-----------------------------------------------------------------------------
ChangesOf(s) == DOMAIN trace[s]
PosedgesOf(s) == {x \in ChangesOf(s) : trace[s][x] = 1}

\* Running forward, the debugger is called at the next edge after the one it was
\* at last, whether it got there by running, by stepping back or by a jump; only
\* several clocks of one instant give several calls for it.
\* The one edge that can be passed over comes one unit after another change of a
\* clock: the loop goes on from one unit after the change it has just handled
\* (emulation_loop, engine.cc:130).
EdgesInOrder ==
    [][pc = "fire" /\ pc' = "eval" =>
          /\ IF DOMAIN overridden = {} THEN reached < time ELSE reached <= time
          /\ \A c \in watched : \A x \in PosedgesOf(c) :
                reached < x /\ x < time => \E d \in Signals \cap ClockNames : x - 1 \in ChangesOf(d)]_vars

\* What a client sees in a callback is the design just before the edge it is at:
\* the time is that of the edge, and the signals have the values from before it.
\* After stepping back or a jump the edge is one where a clock rises; running
\* forward, a clock is high there, but the change may be of another clock
\* (watched_values_ is never filled, engine.cc:46).  At an edge at time 0 the
\* time before it wraps and shows the end of the trace (engine.cc:74), and a
\* clock whose callback has run keeps the value it was given there.
EvalShowsEdge ==
    pc = "eval" =>
        /\ SimTime = posedge
        /\ IF posedge = time
           THEN \E s \in Signals : posedge \in ChangesOf(s) /\ Value(firing) = 1
           ELSE \E s \in Signals : posedge \in PosedgesOf(s)
        /\ posedge # 0 =>
              \A s \in Signals \ DOMAIN overridden : Value(s) = ValueAt(s, posedge - 1)

\* Only a clock that is still monitored makes the debugger evaluate: a detach in
\* the callback of one clock silences the clocks of the same instant that have
\* not fired yet (trigger_cb, vpi.cc:443).
DetachedIsQuiet ==
    [][pc = "fire" /\ pc' = "eval" => firing' \in DOMAIN cbHandles]_vars

\* However often the client goes back, jumps or connects again, a replay comes
\* to its end once the client stops and lets it run (emulation_loop).
ReplayEnds == <>(pc = "done")
=============================================================================
