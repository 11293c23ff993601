------------------------------ MODULE Monitor -------------------------------
(***************************************************************************)
(* The monitor (src/monitor.cc): the variables the debugger watches for    *)
(* its clients, for data breakpoints and for the delayed variables of the  *)
(* symbol table, with the debugger's calls to it (src/debug.cc).  A data   *)
(* breakpoint is known here by the watch id it holds.                      *)
(***************************************************************************)
EXTENDS Naturals, Sequences, FiniteSets

CONSTANTS
    Signal,      \* the design's signals
    Value,       \* their values
    NoValue,     \* the empty optional
    Undefined,   \* what reading an empty optional yields
    Group,       \* [Signal -> set of signals]: the RTL names of one source variable
    DataBp,      \* the data breakpoints clients ask for
    SignalOf,    \* [DataBp -> Signal]: the variable each one watches
    NoWatch,     \* the data breakpoint is not inserted
    ClientType,  \* the kinds of watches clients ask for
    Depth,       \* depths of delayed variables
    MaxWatches,  \* bound on watch_id_count_
    MaxTime      \* bound on the number of clock edges

ASSUME MonitorAssumption ==
    /\ Group \in [Signal -> SUBSET Signal]
    /\ \A s \in Signal : s \in Group[s]
    /\ \A s, t \in Signal : t \in Group[s] => Group[t] = Group[s]
    /\ SignalOf \in [DataBp -> Signal]
    /\ ClientType \subseteq {"breakpoint", "clock_edge", "changed"}
    /\ Depth \subseteq Nat \ {0}
    /\ NoValue \notin Value /\ Undefined \notin Value
    /\ NoWatch \notin Nat

VARIABLES
    trace,     \* the values of the signals at each clock edge so far
    count,     \* watch_id_count_
    watched,   \* watched_variables_
    cell,      \* the shared value of each watch: the cell the named watch created
    watchId,   \* watch_id of each data breakpoint
    delayed,   \* delayed_variables_: the watch and the value of each signal in it
    asked,     \* history: the clock edge at which a delay was first asked for
    lost       \* history: the clock edge at which the watch of a delay was removed

vars == <<trace, count, watched, cell, watchId, delayed, asked, lost>>

Now == Len(trace)
Rtl == trace[Now]      \* the simulator's current values

Init ==
    /\ \E v \in [Signal -> Value] : trace = <<v>>
    /\ count = 0
    /\ watched = <<>>
    /\ cell = <<>>
    /\ watchId = [b \in DataBp |-> NoWatch]
    /\ delayed = <<>>
    /\ asked = <<>>
    /\ lost = <<>>

\* f with the pair x, y added.
With(f, x, y) == [z \in DOMAIN f \cup {x} |-> IF z = x THEN y ELSE f[z]]
Without(f, x) == [z \in DOMAIN f \ {x} |-> f[z]]

\* is_monitored
Monitored(s, type) ==
    {id \in DOMAIN watched : watched[id].signal = s /\ watched[id].type = type}

-----------------------------------------------------------------------------
\* add_watch_var, with a new value cell or the cell of another watch.
AddWatchVar(w, c) ==
    /\ count < MaxWatches
    /\ watched' = With(watched, count, w)
    /\ cell' = IF c = count THEN With(cell, count, NoValue) ELSE cell
    /\ count' = count + 1

\* Mutant: no search for a watch that is there already.
AddMonitorVariable_Again(s, type) ==
    /\ AddWatchVar([signal |-> s, type |-> type, cell |-> count], count)
    /\ UNCHANGED <<trace, watchId, delayed, asked, lost>>

\* add_monitor_variable, from handle_monitor: a watched variable keeps its id.
AddMonitorVariable(s, type) ==
    /\ Monitored(s, type) = {}
    /\ AddWatchVar([signal |-> s, type |-> type, cell |-> count], count)
    /\ UNCHANGED <<trace, watchId, delayed, asked, lost>>

\* remove_monitor_variable.  A delay that loses its watch stays in
\* delayed_variables_, and so does the id that nothing has any more.
EraseWatch(id) ==
    /\ watched' = Without(watched, id)
    /\ lost' = [s \in DOMAIN lost \cup {t \in DOMAIN delayed : delayed[t].watch = id} |->
                  IF s \in DOMAIN lost THEN lost[s] ELSE Now]

\* handle_monitor, remove: the track id a client gives may be that of any watch.
RemoveMonitorVariable(id) ==
    /\ EraseWatch(id)
    /\ UNCHANGED <<trace, count, cell, watchId, delayed, asked>>

\* Mutant: only the cell of the very same signal is looked for.
SharedCells_OwnName(s) ==
    {watched[id].cell : id \in {i \in DOMAIN watched :
        watched[i].type = "data" /\ watched[i].signal = s}}

\* get_watched_value_ptr: the cells of the data watches of the source variable.
SharedCells(s) ==
    {watched[id].cell : id \in {i \in DOMAIN watched :
        watched[i].type = "data" /\ watched[i].signal \in Group[s]}}

\* handle_data_breakpoint, add: a variable that is watched already leaves the
\* breakpoint's watch_id as it is, 0 in a new breakpoint.
AddDataBreakpoint(b) ==
    LET s == SignalOf[b]
    IN  \/ /\ Monitored(s, "data") # {}
           /\ watchId' = [watchId EXCEPT ![b] = IF @ = NoWatch THEN 0 ELSE @]
           /\ UNCHANGED <<trace, count, watched, cell, delayed, asked, lost>>
        \/ /\ Monitored(s, "data") = {}
           /\ \E c \in IF SharedCells(s) = {} THEN {count} ELSE SharedCells(s) :
                AddWatchVar([signal |-> s, type |-> "data", cell |-> c], c)
           /\ watchId' = [watchId EXCEPT ![b] = count]
           /\ UNCHANGED <<trace, delayed, asked, lost>>

\* handle_data_breakpoint, remove: the watch goes with the breakpoint.
RemoveDataBreakpoint(b) ==
    /\ watchId[b] # NoWatch
    /\ EraseWatch(watchId[b])
    /\ watchId' = [watchId EXCEPT ![b] = NoWatch]
    /\ UNCHANGED <<trace, count, cell, delayed, asked>>

\* handle_data_breakpoint, clear: the watches stay.
ClearDataBreakpoints ==
    /\ watchId' = [b \in DataBp |-> NoWatch]
    /\ UNCHANGED <<trace, count, watched, cell, delayed, asked, lost>>

\* process_delayed_breakpoint: a buffer that holds the current value, one more
\* for every insertion; delayed_variables_ keeps the first one of the signal.
AddDelayedVariable(s, d) ==
    /\ AddWatchVar([signal |-> s, type |-> "delay_clock_edge", cell |-> count,
                    depth |-> d, values |-> <<Rtl[s]>>], count)
    /\ delayed' = IF s \in DOMAIN delayed THEN delayed
                  ELSE With(delayed, s, [watch |-> count, value |-> NoValue])
    /\ asked' = IF <<s, d>> \in DOMAIN asked THEN asked ELSE With(asked, <<s, d>>, Now)
    /\ UNCHANGED <<trace, watchId, lost>>

-----------------------------------------------------------------------------
Buffers == {id \in DOMAIN watched : watched[id].type = "delay_clock_edge"}

\* WatchVariableBuffer::get_value, dereferenced whether or not it has a value.
BufferFront(w) == IF Len(w.values) = w.depth THEN Head(w.values) ELSE Undefined

\* Mutant: the buffer pops one value too early.
BufferPush_PopsEarly(w, v) ==
    LET q == Append(w.values, v)
    IN  [w EXCEPT !.values = IF Len(q) >= w.depth THEN Tail(q) ELSE q]

\* WatchVariableBuffer::set_value
BufferPush(w, v) ==
    LET q == Append(w.values, v)
    IN  [w EXCEPT !.values = IF Len(q) > w.depth THEN Tail(q) ELSE q]

\* A clock edge: the simulator has new values, and update_delayed_values takes
\* the old ones out of the buffers and puts the new ones in.
ClockEdge(v) ==
    /\ Now < MaxTime
    /\ trace' = Append(trace, v)
    /\ delayed' = [s \in DOMAIN delayed |->
                     IF delayed[s].watch \in Buffers
                     THEN [delayed[s] EXCEPT !.value = BufferFront(watched[delayed[s].watch])]
                     ELSE delayed[s]]
    /\ watched' = [id \in DOMAIN watched |->
                     IF id \in Buffers
                     THEN BufferPush(watched[id], v[watched[id].signal])
                     ELSE watched[id]]
    /\ UNCHANGED <<count, cell, watchId, asked, lost>>

\* var_changed, when eval_breakpoint evaluates a data breakpoint: a watch that
\* does not hold the variable's value takes it.
EvaluateData(b) ==
    /\ watchId[b] \in DOMAIN watched
    /\ LET w == watched[watchId[b]]
           v == Rtl[w.signal]
       IN  \/ /\ watchId[b] \in Buffers
              /\ BufferFront(w) # v
              /\ watched' = [watched EXCEPT ![watchId[b]] = BufferPush(w, v)]
              /\ UNCHANGED cell
           \/ /\ watchId[b] \notin Buffers
              /\ cell[w.cell] # v
              /\ cell' = [cell EXCEPT ![w.cell] = v]
              /\ UNCHANGED watched
    /\ UNCHANGED <<trace, count, watchId, delayed, asked, lost>>

Next ==
    \/ \E s \in Signal, type \in ClientType : AddMonitorVariable(s, type)
    \/ \E id \in DOMAIN watched : RemoveMonitorVariable(id)
    \/ \E b \in DataBp :
          AddDataBreakpoint(b) \/ RemoveDataBreakpoint(b) \/ EvaluateData(b)
    \/ ClearDataBreakpoints
    \/ \E s \in Signal, d \in Depth : AddDelayedVariable(s, d)
    \/ \E v \in [Signal -> Value] : ClockEdge(v)

Spec == Init /\ [][Next]_vars

-----------------------------------------------------------------------------
\* A client that asks twice for the same variable gets the same watch: there are
\* never two watches of one type for one signal, whatever was removed and added.
OneWatch ==
    \A i, j \in DOMAIN watched \ Buffers :
        watched[i].signal = watched[j].signal /\ watched[i].type = watched[j].type
            => i = j

\* "they share the same variable": the data watches of one source variable share
\* one stored value, so that a change seen through one RTL name of the variable is
\* not reported again through another, whatever watches were removed in between.
SharedCell ==
    \A i, j \in DOMAIN watched :
        /\ watched[i].type = "data" /\ watched[j].type = "data"
        /\ watched[j].signal \in Group[watched[i].signal]
        => watched[i].cell = watched[j].cell

\* A delayed variable of depth d shows the signal's value d clock edges ago, from
\* the d-th edge after it was first asked for, however often it is asked for
\* again.  A client that removes the watch behind it stops it there: from then on
\* it keeps the value it had, also when it is asked for again, because
\* delayed_variables_ keeps the id of the watch that is gone.  (One depth per
\* signal: delayed_variables_ keeps the first one.)
DelayedValue ==
    \A a \in DOMAIN asked :
        LET s == a[1]
            t == IF s \in DOMAIN lost THEN lost[s] ELSE Now
        IN  t - asked[a] >= a[2] => delayed[s].value = trace[t - a[2]][s]
=============================================================================
