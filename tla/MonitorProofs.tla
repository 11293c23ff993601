--------------------------- MODULE MonitorProofs ----------------------------
(***************************************************************************)
(* The monitor's promises for every design, every number of watches and    *)
(* every length of the simulation: one watch per variable and type, one    *)
(* stored value per source variable, and delayed values that are as old as *)
(* they should be.                                                         *)
(***************************************************************************)
EXTENDS Monitor, SequenceTheorems, TLAPS

PlainWatch == [signal : Signal, type : ClientType \cup {"data"}, cell : Nat]

BufferWatch == [signal : Signal, type : {"delay_clock_edge"}, cell : Nat,
                depth : Depth, values : Seq(Value)]

\* What the map of watches holds, and that the next id is not in it.
WatchesOK ==
    /\ count \in Nat
    /\ \A id \in DOMAIN watched :
          /\ id \in Nat /\ id < count
          /\ watched[id] \in PlainWatch \cup BufferWatch

\* The simulator has values for the signals.
TraceOK ==
    /\ trace \in Seq([Signal -> Value])
    /\ Len(trace) # 0

MonitorInv == WatchesOK /\ TraceOK

-----------------------------------------------------------------------------
(* Buffers                                                                 *)

\* A watch is a buffer exactly when its type says so.
LEMMA WatchKinds ==
  ASSUME NEW w \in PlainWatch \cup BufferWatch
  PROVE  /\ w.signal \in Signal /\ w.cell \in Nat
         /\ w.type = "delay_clock_edge" => w \in BufferWatch
         /\ w.type # "delay_clock_edge" => w \in PlainWatch
<1>1. "delay_clock_edge" \notin ClientType \cup {"data"}
  BY MonitorAssumption
<1>2. QED
  BY <1>1 DEF PlainWatch, BufferWatch

\* set_value appends the value, and drops the oldest one when there are more
\* than the depth.
LEMMA PushValues ==
  ASSUME NEW w \in BufferWatch, NEW v \in Value
  PROVE  /\ BufferPush(w, v) \in BufferWatch
         /\ BufferPush(w, v).signal = w.signal
         /\ BufferPush(w, v).type = w.type
         /\ BufferPush(w, v).cell = w.cell
         /\ BufferPush(w, v).depth = w.depth
         /\ LET u == BufferPush(w, v).values
                n == Len(w.values)
            IN  /\ n \in Nat
                /\ n + 1 <= w.depth => /\ Len(u) = n + 1
                                       /\ \A k \in 1..n : u[k] = w.values[k]
                                       /\ u[n + 1] = v
                /\ n + 1 > w.depth => /\ Len(u) = n
                                      /\ \A k \in 1..n :
                                            u[k] = IF k = n THEN v ELSE w.values[k + 1]
<1> DEFINE q == Append(w.values, v)
           n == Len(w.values)
           u == IF Len(q) > w.depth THEN Tail(q) ELSE q
<1>1. w.values \in Seq(Value) /\ w.depth \in Nat /\ n \in Nat
  BY MonitorAssumption, LenProperties DEF BufferWatch
<1>2. /\ q \in Seq(Value) /\ Len(q) = n + 1
      /\ \A k \in 1..n : q[k] = w.values[k]
      /\ q[n + 1] = v
  BY <1>1, AppendProperties
<1>3. q # <<>>
  BY <1>1, <1>2, EmptySeq
<1> HIDE DEF q
<1>4. /\ Tail(q) \in Seq(Value) /\ Len(Tail(q)) = n
      /\ \A k \in 1..n : Tail(q)[k] = q[k + 1]
  BY <1>1, <1>2, <1>3, HeadTailProperties, LenProperties
<1>5. u \in Seq(Value)
  BY <1>2, <1>4
<1>6. BufferPush(w, v) = [w EXCEPT !.values = u]
  BY DEF BufferPush, q
<1>7. n + 1 <= w.depth => u = q
  BY <1>1, <1>2
<1>8. n + 1 > w.depth => u = Tail(q)
  BY <1>1, <1>2
<1>9. \A k \in 1..n : Tail(q)[k] = IF k = n THEN v ELSE w.values[k + 1]
  <2> SUFFICES ASSUME NEW k \in 1..n
               PROVE  Tail(q)[k] = IF k = n THEN v ELSE w.values[k + 1]
    OBVIOUS
  <2>1. Tail(q)[k] = q[k + 1]
    BY <1>4
  <2>2. CASE k = n
    BY <1>2, <2>1, <2>2
  <2>3. CASE k # n
    <3>1. k + 1 \in 1..n
      BY <1>1, <2>3
    <3>2. QED
      BY <1>2, <2>1, <2>3, <3>1
  <2>4. QED
    BY <2>2, <2>3
<1> HIDE DEF u, n
<1>10. BufferPush(w, v) \in BufferWatch /\ BufferPush(w, v).values = u
       /\ BufferPush(w, v).signal = w.signal /\ BufferPush(w, v).type = w.type
       /\ BufferPush(w, v).cell = w.cell /\ BufferPush(w, v).depth = w.depth
  BY <1>5, <1>6 DEF BufferWatch
<1>11. QED
  BY <1>1, <1>2, <1>4, <1>7, <1>8, <1>9, <1>10 DEF n

-----------------------------------------------------------------------------
(* What a step does to the watches                                         *)

\* Watches are removed, and the others keep what they watch.
WatchesLeft ==
    /\ count' = count
    /\ DOMAIN watched' \subseteq DOMAIN watched
    /\ \A id \in DOMAIN watched' :
          /\ watched'[id] \in PlainWatch \cup BufferWatch
          /\ watched'[id].signal = watched[id].signal
          /\ watched'[id].type = watched[id].type
          /\ watched'[id].cell = watched[id].cell

\* One watch is added.
WatchAdded(w) ==
    /\ count' = count + 1
    /\ DOMAIN watched' = DOMAIN watched \cup {count}
    /\ watched'[count] = w
    /\ \A id \in DOMAIN watched : watched'[id] = watched[id]

\* The cell a data watch gets.
CellChosen(w) ==
    w.cell \in IF SharedCells(w.signal) = {} THEN {count} ELSE SharedCells(w.signal)

\* add_watch_var adds a watch under an id that no other watch has.
LEMMA AddedWatch ==
  ASSUME MonitorInv, NEW w, NEW c, AddWatchVar(w, c)
  PROVE  WatchAdded(w)
<1>1. count \notin DOMAIN watched
  BY DEF MonitorInv, WatchesOK
<1>2. QED
  BY <1>1 DEF AddWatchVar, With, WatchAdded

\* The cells that are shared are those of watches.
LEMMA SharedCellsType ==
  ASSUME MonitorInv, NEW s
  PROVE  SharedCells(s) \subseteq Nat
  BY WatchKinds DEF MonitorInv, WatchesOK, SharedCells

\* A step leaves watches or adds one; a watch other than a buffer is added only
\* when the signal has none of its type, a data watch with the cell of the source
\* variable if there is one.
LEMMA WatchStep ==
  ASSUME MonitorInv, [Next]_vars
  PROVE  \/ WatchesLeft
         \/ \E w \in PlainWatch \cup BufferWatch :
               /\ WatchAdded(w)
               /\ \/ w.type = "delay_clock_edge"
                  \/ /\ Monitored(w.signal, w.type) = {}
                     /\ w.type = "data" => CellChosen(w)
<1> USE DEF MonitorInv, WatchesOK
<1>1. ASSUME UNCHANGED <<watched, count>> PROVE WatchesLeft
  BY <1>1 DEF WatchesLeft
<1>2. ASSUME NEW s \in Signal, NEW type \in ClientType, AddMonitorVariable(s, type)
      PROVE  \E w \in PlainWatch :
                WatchAdded(w) /\ Monitored(w.signal, w.type) = {} /\ w.type # "data"
  <2> DEFINE w == [signal |-> s, type |-> type, cell |-> count]
  <2>1. w \in PlainWatch /\ w.signal = s /\ w.type = type
    BY DEF PlainWatch
  <2>2. Monitored(s, type) = {} /\ AddWatchVar(w, count)
    BY <1>2 DEF AddMonitorVariable
  <2>3. type # "data"
    BY MonitorAssumption
  <2> HIDE DEF w
  <2>4. WatchAdded(w)
    BY <2>2, AddedWatch
  <2>5. QED
    BY <2>1, <2>2, <2>3, <2>4
<1>3. ASSUME NEW id, watched' = Without(watched, id), UNCHANGED count
      PROVE  WatchesLeft
  BY <1>3 DEF Without, WatchesLeft
<1>4. ASSUME NEW b \in DataBp, AddDataBreakpoint(b)
      PROVE  \/ UNCHANGED <<watched, count>>
             \/ \E w \in PlainWatch :
                   WatchAdded(w) /\ Monitored(w.signal, w.type) = {} /\ CellChosen(w)
  <2>1. SignalOf[b] \in Signal
    BY MonitorAssumption
  <2>2. CASE Monitored(SignalOf[b], "data") # {}
    BY <1>4, <2>2 DEF AddDataBreakpoint
  <2>3. CASE Monitored(SignalOf[b], "data") = {}
    <3>1. PICK c \in IF SharedCells(SignalOf[b]) = {} THEN {count} ELSE SharedCells(SignalOf[b]) :
             AddWatchVar([signal |-> SignalOf[b], type |-> "data", cell |-> c], c)
      BY <1>4, <2>3 DEF AddDataBreakpoint
    <3> DEFINE w == [signal |-> SignalOf[b], type |-> "data", cell |-> c]
    <3>2. c \in Nat
      BY <3>1, SharedCellsType
    <3>3. /\ w \in PlainWatch
          /\ w.signal = SignalOf[b] /\ w.type = "data" /\ w.cell = c
      BY <2>1, <3>2 DEF PlainWatch
    <3>4. AddWatchVar(w, c)
      BY <3>1
    <3> HIDE DEF w
    <3>5. WatchAdded(w)
      BY <3>4, AddedWatch
    <3>6. Monitored(w.signal, w.type) = {} /\ CellChosen(w)
      BY <2>3, <3>1, <3>3 DEF CellChosen
    <3>7. QED
      BY <3>3, <3>5, <3>6
  <2>4. QED
    BY <2>2, <2>3
<1>5. ASSUME NEW s \in Signal, NEW d \in Depth, AddDelayedVariable(s, d)
      PROVE  \E w \in BufferWatch : WatchAdded(w) /\ w.type = "delay_clock_edge"
  <2> DEFINE w == [signal |-> s, type |-> "delay_clock_edge", cell |-> count,
                   depth |-> d, values |-> <<Rtl[s]>>]
  <2>1. Rtl[s] \in Value
    BY LenProperties, ElementOfSeq DEF TraceOK, Rtl, Now
  <2>2. w \in BufferWatch /\ w.type = "delay_clock_edge"
    BY <2>1 DEF BufferWatch
  <2>3. AddWatchVar(w, count)
    BY <1>5 DEF AddDelayedVariable
  <2> HIDE DEF w
  <2>4. QED
    BY <2>2, <2>3, AddedWatch
<1>6. ASSUME NEW v \in [Signal -> Value], ClockEdge(v)
      PROVE  WatchesLeft
  <2>1. /\ count' = count /\ DOMAIN watched' = DOMAIN watched
        /\ \A id \in DOMAIN watched : watched'[id] =
              IF id \in Buffers THEN BufferPush(watched[id], v[watched[id].signal])
              ELSE watched[id]
    BY <1>6 DEF ClockEdge
  <2>2. ASSUME NEW id \in Buffers
        PROVE  id \in DOMAIN watched /\ watched[id] \in BufferWatch /\ v[watched[id].signal] \in Value
    BY <2>2, WatchKinds DEF Buffers
  <2>3. QED
    BY <2>1, <2>2, PushValues DEF WatchesLeft
<1>7. ASSUME NEW b \in DataBp, EvaluateData(b)
      PROVE  WatchesLeft
  <2> DEFINE i == watchId[b]
             v == Rtl[watched[i].signal]
  <2>1. i \in DOMAIN watched /\ count' = count
    BY <1>7 DEF EvaluateData
  <2>2. CASE UNCHANGED watched
    BY <1>1, <2>1, <2>2
  <2>3. CASE i \in Buffers /\ watched' = [watched EXCEPT ![i] = BufferPush(watched[i], v)]
    <3>1. watched[i] \in BufferWatch /\ watched[i].signal \in Signal
      BY <2>1, <2>3, WatchKinds DEF Buffers
    <3>2. v \in Value
      BY <3>1, LenProperties, ElementOfSeq DEF TraceOK, Rtl, Now
    <3> HIDE DEF i, v
    <3>3. QED
      BY <2>1, <2>3, <3>1, <3>2, PushValues DEF WatchesLeft
  <2>4. QED
    BY <1>7, <2>2, <2>3 DEF EvaluateData
<1>8. CASE ClearDataBreakpoints \/ UNCHANGED vars
  BY <1>1, <1>8 DEF ClearDataBreakpoints, vars
<1>9. ASSUME NEW b \in DataBp, RemoveDataBreakpoint(b) PROVE WatchesLeft
  BY <1>3, <1>9 DEF RemoveDataBreakpoint, EraseWatch
<1>10. ASSUME NEW id, RemoveMonitorVariable(id) PROVE WatchesLeft
  BY <1>3, <1>10 DEF RemoveMonitorVariable, EraseWatch
<1>11. QED
  BY <1>1, <1>2, <1>4, <1>5, <1>6, <1>7, <1>8, <1>9, <1>10 DEF Next

\* The invariant holds initially.
LEMMA MonitorInit == Init => MonitorInv
<1> SUFFICES ASSUME Init PROVE MonitorInv
  OBVIOUS
<1>1. PICK v \in [Signal -> Value] : trace = <<v>>
  BY DEF Init
<1>2. TraceOK
  BY <1>1 DEF TraceOK
<1>3. WatchesOK
  BY DEF Init, WatchesOK
<1>4. QED
  BY <1>2, <1>3 DEF MonitorInv

\* The trace grows by the values of an edge, or stays.
LEMMA TraceStep ==
  ASSUME TraceOK, [Next]_vars
  PROVE  TraceOK'
<1>1. CASE UNCHANGED trace
  BY <1>1 DEF TraceOK
<1>2. ASSUME NEW v \in [Signal -> Value], ClockEdge(v) PROVE TraceOK'
  <2>1. trace' = Append(trace, v)
    BY <1>2 DEF ClockEdge
  <2>2. QED
    BY <2>1, AppendProperties, LenProperties DEF TraceOK
<1>3. QED
  BY <1>1, <1>2 DEF Next, AddMonitorVariable, RemoveMonitorVariable, AddDataBreakpoint,
     RemoveDataBreakpoint, ClearDataBreakpoints, AddDelayedVariable, EvaluateData, vars

\* Every step keeps the invariant.
LEMMA MonitorStep ==
  ASSUME MonitorInv, [Next]_vars
  PROVE  MonitorInv'
<1>1. TraceOK'
  BY TraceStep DEF MonitorInv
<1>2. CASE WatchesLeft
  BY <1>1, <1>2 DEF WatchesLeft, MonitorInv, WatchesOK
<1>3. ASSUME NEW w \in PlainWatch \cup BufferWatch, WatchAdded(w) PROVE MonitorInv'
  BY <1>1, <1>3 DEF WatchAdded, MonitorInv, WatchesOK
<1>4. QED
  BY <1>2, <1>3, WatchStep

-----------------------------------------------------------------------------
(* One watch per variable and type, one value per source variable          *)

\* A step keeps watches apart.
LEMMA OneWatchStep ==
  ASSUME MonitorInv, OneWatch, [Next]_vars
  PROVE  OneWatch'
<1>1. CASE WatchesLeft
  BY <1>1 DEF WatchesLeft, OneWatch, Buffers
<1>2. ASSUME NEW w \in PlainWatch \cup BufferWatch, WatchAdded(w),
             \/ w.type = "delay_clock_edge"
             \/ Monitored(w.signal, w.type) = {}
      PROVE  OneWatch'
  <2> SUFFICES ASSUME NEW i \in DOMAIN watched', NEW j \in DOMAIN watched',
                      watched'[i].type # "delay_clock_edge",
                      watched'[j].type # "delay_clock_edge",
                      watched'[i].signal = watched'[j].signal,
                      watched'[i].type = watched'[j].type
               PROVE  i = j
    BY DEF OneWatch, Buffers
  <2>1. CASE i \in DOMAIN watched /\ j \in DOMAIN watched
    BY <1>2, <2>1 DEF WatchAdded, OneWatch, Buffers
  <2>2. ASSUME NEW k \in DOMAIN watched, w.type # "delay_clock_edge",
               watched[k].signal = w.signal, watched[k].type = w.type
        PROVE  FALSE
    BY <1>2, <2>2 DEF Monitored
  <2>3. QED
    BY <1>2, <2>1, <2>2 DEF WatchAdded
<1>3. QED
  BY <1>1, <1>2, WatchStep

\* There are never two watches of one type for one signal: for every design,
\* whatever clients and data breakpoints add and remove in whatever order.
THEOREM MonitorOneWatch == Spec => []OneWatch
<1>1. Init => OneWatch
  BY DEF Init, OneWatch, Buffers
<1>2. QED
  BY <1>1, MonitorInit, MonitorStep, OneWatchStep, PTL DEF Spec

\* A step leaves the data watches of a source variable with one cell.
LEMMA SharedCellStep ==
  ASSUME MonitorInv, SharedCell, [Next]_vars
  PROVE  SharedCell'
<1>1. CASE WatchesLeft
  BY <1>1 DEF WatchesLeft, SharedCell
<1>2. ASSUME NEW w \in PlainWatch \cup BufferWatch, WatchAdded(w),
             w.type = "data" => CellChosen(w)
      PROVE  SharedCell'
  <2>1. w.signal \in Signal /\ \A k \in DOMAIN watched : watched[k].signal \in Signal
    BY WatchKinds DEF MonitorInv, WatchesOK
  <2>2. \A s, t \in Signal : t \in Group[s] => s \in Group[t] /\ Group[t] = Group[s]
    BY MonitorAssumption
  <2>3. ASSUME NEW k \in DOMAIN watched, watched[k].type = "data", w.type = "data",
               watched[k].signal \in Group[w.signal]
        PROVE  watched[k].cell = w.cell
    <3>1. watched[k].cell \in SharedCells(w.signal)
      BY <2>3 DEF SharedCells
    <3>2. w.cell \in SharedCells(w.signal)
      BY <1>2, <2>3, <3>1 DEF CellChosen
    <3>3. PICK l \in DOMAIN watched :
             /\ watched[l].type = "data" /\ watched[l].signal \in Group[w.signal]
             /\ w.cell = watched[l].cell
      BY <3>2 DEF SharedCells
    <3>4. watched[k].signal \in Group[watched[l].signal]
      BY <2>1, <2>2, <2>3, <3>3
    <3>5. QED
      BY <2>3, <3>3, <3>4 DEF SharedCell
  <2> SUFFICES ASSUME NEW i \in DOMAIN watched', NEW j \in DOMAIN watched',
                      watched'[i].type = "data", watched'[j].type = "data",
                      watched'[j].signal \in Group[watched'[i].signal]
               PROVE  watched'[i].cell = watched'[j].cell
    BY DEF SharedCell
  <2>4. CASE i = count /\ j = count
    BY <2>4
  <2>5. CASE i = count /\ j \in DOMAIN watched
    BY <1>2, <2>3, <2>5 DEF WatchAdded
  <2>6. CASE i \in DOMAIN watched /\ j = count
    <3>1. watched'[i] = watched[i] /\ watched'[j] = w
      BY <1>2, <2>6 DEF WatchAdded
    <3>2. watched[i].signal \in Group[w.signal]
      BY <2>1, <2>2, <2>6, <3>1
    <3>3. QED
      BY <2>3, <2>6, <3>1, <3>2
  <2>7. CASE i \in DOMAIN watched /\ j \in DOMAIN watched
    <3>1. watched'[i] = watched[i] /\ watched'[j] = watched[j]
      BY <1>2, <2>7 DEF WatchAdded
    <3>2. QED
      BY <2>7, <3>1 DEF SharedCell
  <2>8. QED
    BY <1>2, <2>4, <2>5, <2>6, <2>7 DEF WatchAdded
<1>3. QED
  BY <1>1, <1>2, WatchStep

\* The data watches of one source variable share one stored value, for every
\* grouping of the RTL names into source variables and whatever was removed in
\* between: the watch whose name the cell has may long be gone.
THEOREM MonitorSharedCell == Spec => []SharedCell
<1>1. Init => SharedCell
  BY DEF Init, SharedCell
<1>2. QED
  BY <1>1, MonitorInit, MonitorStep, SharedCellStep, PTL DEF Spec

-----------------------------------------------------------------------------
(* Delayed variables                                                       *)

\* The buffer w of a signal, asked for at edge t, holds the last values of the
\* trace: all since then, or as many as its depth.
Filled(tr, w, t) ==
    /\ Len(w.values) = IF Len(tr) - t + 1 <= w.depth THEN Len(tr) - t + 1 ELSE w.depth
    /\ \A k \in 1..Len(w.values) :
          w.values[k] = tr[Len(tr) - Len(w.values) + k][w.signal]

\* The buffer behind a delayed variable is there and holds the last values, and the
\* value taken out of it at the last edge is as old as the depth.
DelayHeld(s) ==
    LET id == delayed[s].watch
        w == watched[id]
        t == asked[<<s, w.depth>>]
    IN  /\ delayed[s] \in [watch : Nat, value : Value \cup {NoValue, Undefined}]
        /\ id \in DOMAIN watched /\ w \in BufferWatch /\ w.signal = s
        /\ <<s, w.depth>> \in DOMAIN asked
        /\ t \in 1..Len(trace)
        /\ Filled(trace, w, t)
        /\ Len(trace) - t >= w.depth => delayed[s].value = trace[Len(trace) - w.depth][s]

\* The buffer behind a delayed variable was removed at an edge, and no watch has its
\* id again: the value is the one that was shown then.
DelayLost(s, d) ==
    LET t == asked[<<s, d>>]
    IN  /\ delayed[s].watch \in Nat /\ delayed[s].watch < count
        /\ delayed[s].watch \notin DOMAIN watched
        /\ <<s, d>> \in DOMAIN asked
        /\ lost[s] \in 1..Len(trace) /\ t \in 1..Len(trace)
        /\ lost[s] - t >= d => delayed[s].value = trace[lost[s] - d][s]

DelayOK(s) ==
    /\ s \notin DOMAIN lost => DelayHeld(s)
    /\ s \in DOMAIN lost => \E d \in Depth : DelayLost(s, d)

\* Every delay that was asked for has a delayed variable of its signal.
DelayInv ==
    /\ \A a \in DOMAIN asked : a \in Signal \X Depth /\ a[1] \in DOMAIN delayed
    /\ DOMAIN lost \subseteq DOMAIN delayed
    /\ \A s \in DOMAIN delayed : DelayOK(s)

\* At a clock edge the buffer gives the value of that many edges ago, if it was
\* asked for that long ago, and takes the new value in.
LEMMA PushFilled ==
  ASSUME NEW w \in BufferWatch, NEW tr \in Seq([Signal -> Value]), NEW t \in 1..Len(tr),
         Filled(tr, w, t), NEW v \in [Signal -> Value]
  PROVE  /\ Filled(Append(tr, v), BufferPush(w, v[w.signal]), t)
         /\ Len(Append(tr, v)) - t >= w.depth =>
               BufferFront(w) = Append(tr, v)[Len(Append(tr, v)) - w.depth][w.signal]
         /\ BufferFront(w) \in Value \cup {Undefined}
<1> DEFINE n == Len(w.values)
           m == Len(tr)
           x == v[w.signal]
           p == BufferPush(w, x)
           u == p.values
           d == w.depth
           a == Append(tr, v)
<1>1. /\ x \in Value /\ d \in Nat /\ d # 0 /\ w.values \in Seq(Value)
  BY MonitorAssumption DEF BufferWatch
<1>2. /\ p.signal = w.signal /\ p.depth = d
      /\ n \in Nat
      /\ n + 1 <= d => /\ Len(u) = n + 1
                       /\ \A k \in 1..n : u[k] = w.values[k]
                       /\ u[n + 1] = x
      /\ n + 1 > d => /\ Len(u) = n
                      /\ \A k \in 1..n : u[k] = IF k = n THEN x ELSE w.values[k + 1]
  BY <1>1, PushValues
<1>3. /\ m \in Nat /\ Len(a) = m + 1
      /\ \A k \in 1..m : a[k] = tr[k]
      /\ a[m + 1] = v
  BY AppendProperties, LenProperties
<1>4. /\ n = IF m - t + 1 <= d THEN m - t + 1 ELSE d
      /\ \A k \in 1..n : w.values[k] = tr[m - n + k][w.signal]
  BY DEF Filled
<1>5. n <= m /\ n >= 1 /\ n <= d /\ t \in Nat /\ t >= 1 /\ t <= m
  BY <1>1, <1>3, <1>4
<1>6. BufferFront(w) = IF n = d THEN w.values[1] ELSE Undefined
  BY <1>1, <1>5, HeadTailProperties, EmptySeq DEF BufferFront
<1>7. w.values[1] \in Value
  BY <1>1, <1>2, <1>5, ElementOfSeq
<1>8. Len(u) = IF Len(a) - t + 1 <= d THEN Len(a) - t + 1 ELSE d
  <2> HIDE DEF n, m, x, p, u, d, a
  <2>1. QED
    BY <1>1, <1>2, <1>3, <1>4, <1>5
<1>9. ASSUME NEW k \in 1..Len(u) PROVE u[k] = a[Len(a) - Len(u) + k][w.signal]
  <2> HIDE DEF n, m, x, p, u, d, a
  <2>1. CASE n + 1 <= d
    <3>1. Len(u) = n + 1 /\ Len(a) - Len(u) + k = m - n + k
      <4>1. Len(u) = n + 1 /\ Len(a) = m + 1 /\ n \in Nat /\ m \in Nat
        BY <1>2, <1>3, <2>1
      <4>2. QED
        BY <4>1
    <3>2. CASE k = n + 1
      <4>1. m - n + k = m + 1
        BY <1>2, <1>3, <3>2
      <4>2. QED
        BY <1>2, <1>3, <2>1, <3>1, <3>2, <4>1 DEF x
    <3>3. CASE k # n + 1
      <4>1. k \in 1..n /\ m - n + k \in 1..m
        BY <1>2, <1>3, <1>5, <3>1, <3>3
      <4>2. u[k] = w.values[k]
        BY <1>2, <2>1, <4>1
      <4>3. w.values[k] = tr[m - n + k][w.signal]
        BY <1>4, <4>1
      <4>4. QED
        BY <1>3, <3>1, <4>1, <4>2, <4>3
    <3>4. QED
      BY <3>2, <3>3
  <2>2. CASE n + 1 > d
    <3>1. Len(u) = n /\ Len(a) - Len(u) + k = m - n + k + 1 /\ k \in 1..n
      <4>1. Len(u) = n /\ Len(a) = m + 1 /\ n \in Nat /\ m \in Nat
        BY <1>2, <1>3, <2>2
      <4>2. QED
        BY <4>1
    <3>2. CASE k = n
      <4>1. m - n + k + 1 = m + 1
        BY <1>2, <1>3, <3>2
      <4>2. u[k] = x
        BY <1>2, <2>2, <3>1, <3>2
      <4>3. QED
        BY <1>3, <3>1, <4>1, <4>2 DEF x
    <3>3. CASE k # n
      <4>1. k + 1 \in 1..n /\ m - n + (k + 1) \in 1..m /\ m - n + k + 1 = m - n + (k + 1)
        BY <1>2, <1>3, <1>5, <3>1, <3>3
      <4>2. u[k] = w.values[k + 1]
        BY <1>2, <2>2, <3>1, <3>3
      <4>3. w.values[k + 1] = tr[m - n + (k + 1)][w.signal]
        BY <1>4, <4>1
      <4>4. QED
        BY <1>3, <3>1, <4>1, <4>2, <4>3
    <3>4. QED
      BY <3>2, <3>3
  <2>3. QED
    BY <1>1, <1>2, <2>1, <2>2
<1>10. Filled(a, p, t)
  BY <1>2, <1>8, <1>9 DEF Filled
<1>11. ASSUME Len(a) - t >= d PROVE BufferFront(w) = a[Len(a) - d][w.signal]
  <2> HIDE DEF n, m, x, p, u, d, a
  <2>1. n = d /\ 1 \in 1..n
    BY <1>1, <1>3, <1>4, <1>5, <1>11
  <2>2. Len(a) - d = m - n + 1 /\ m - n + 1 \in 1..m
    BY <1>1, <1>2, <1>3, <1>5, <2>1
  <2>3. w.values[1] = tr[m - n + 1][w.signal]
    BY <1>4, <2>1
  <2>4. QED
    BY <1>3, <1>6, <2>1, <2>2, <2>3
<1>12. QED
  BY <1>6, <1>7, <1>10, <1>11

\* A delay whose watch is gone keeps its value while the trace grows and other
\* watches come and go.
LEMMA LostStays ==
  ASSUME MonitorInv, MonitorInv', NEW s, s \in DOMAIN delayed, s \in DOMAIN lost,
         NEW d \in Depth, DelayLost(s, d),
         delayed'[s] = delayed[s], lost'[s] = lost[s], count' \in {count, count + 1},
         DOMAIN watched' \subseteq DOMAIN watched \cup {count},
         <<s, d>> \in DOMAIN asked', asked'[<<s, d>>] = asked[<<s, d>>],
         Len(trace) <= Len(trace'), \A k \in 1..Len(trace) : trace'[k] = trace[k]
  PROVE  DelayLost(s, d)'
<1> DEFINE t == asked[<<s, d>>]
           e == lost[s]
           n == Len(trace)
           m == Len(trace')
<1>1. /\ delayed[s].watch \in Nat /\ delayed[s].watch < count
      /\ delayed[s].watch \notin DOMAIN watched
      /\ e \in 1..n /\ t \in 1..n
      /\ e - t >= d => delayed[s].value = trace[e - d][s]
  BY DEF DelayLost
<1>2. count \in Nat /\ n \in Nat /\ m \in Nat /\ d \in Nat /\ n <= m
  BY MonitorAssumption, LenProperties DEF MonitorInv, WatchesOK, TraceOK
<1>3. delayed'[s].watch = delayed[s].watch /\ delayed'[s].value = delayed[s].value
  OBVIOUS
<1>4. delayed'[s].watch \in Nat /\ delayed'[s].watch < count' /\ delayed'[s].watch \notin DOMAIN watched'
  BY <1>1, <1>2, <1>3
<1>5. lost'[s] = e /\ asked'[<<s, d>>] = t
  OBVIOUS
<1>6. \A k \in 1..n : trace'[k] = trace[k]
  OBVIOUS
<1> HIDE DEF t, e, n
<1>7. e \in 1..m /\ t \in 1..m
  BY <1>1, <1>2
<1>8. e - t >= d => e - d \in 1..n
  BY <1>1, <1>2
<1>9. e - t >= d => delayed'[s].value = trace'[e - d][s]
  BY <1>1, <1>3, <1>6, <1>8
<1>10. QED
  BY <1>4, <1>5, <1>7, <1>9 DEF DelayLost

\* A step that leaves the buffers and the trace alone leaves the delays alone.
LEMMA DelayFrame ==
  ASSUME MonitorInv, MonitorInv', DelayInv, UNCHANGED <<trace, delayed, asked, lost>>,
         count' \in {count, count + 1},
         DOMAIN watched' \subseteq DOMAIN watched \cup {count},
         \A id \in DOMAIN watched : watched[id] \in BufferWatch =>
             id \in DOMAIN watched' /\ watched'[id] = watched[id]
  PROVE  DelayInv'
<1>1. ASSUME NEW s \in DOMAIN delayed, s \notin DOMAIN lost PROVE DelayHeld(s)'
  <2>1. DelayHeld(s)
    BY <1>1 DEF DelayInv, DelayOK
  <2>2. QED
    BY <2>1 DEF DelayHeld
<1>2. ASSUME NEW s \in DOMAIN delayed, s \in DOMAIN lost PROVE \E d \in Depth : DelayLost(s, d)'
  <2>1. PICK d \in Depth : DelayLost(s, d)
    BY <1>2 DEF DelayInv, DelayOK
  <2>2. <<s, d>> \in DOMAIN asked /\ Len(trace) <= Len(trace')
    BY <2>1, LenProperties DEF DelayLost, MonitorInv, TraceOK
  <2>3. DelayLost(s, d)'
    BY <1>2, <2>1, <2>2, LostStays
  <2>4. QED
    BY <2>3
<1>3. QED
  BY <1>1, <1>2 DEF DelayInv, DelayOK

\* Removing a watch stops the delays that it is behind, and no others.
LEMMA DelayErase ==
  ASSUME MonitorInv, MonitorInv', DelayInv, NEW id, EraseWatch(id),
         UNCHANGED <<trace, count, delayed, asked>>
  PROVE  DelayInv'
<1>1. /\ DOMAIN watched' = DOMAIN watched \ {id}
      /\ \A i \in DOMAIN watched' : watched'[i] = watched[i]
      /\ DOMAIN lost' = DOMAIN lost \cup {t \in DOMAIN delayed : delayed[t].watch = id}
      /\ \A s \in DOMAIN lost' : lost'[s] = IF s \in DOMAIN lost THEN lost[s] ELSE Len(trace)
  BY DEF EraseWatch, Without, Now
<1>2. ASSUME NEW s \in DOMAIN delayed, s \notin DOMAIN lost' PROVE DelayHeld(s)'
  <2>1. DelayHeld(s) /\ delayed[s].watch # id
    BY <1>1, <1>2 DEF DelayInv, DelayOK
  <2>2. QED
    BY <1>1, <2>1 DEF DelayHeld
<1>3. ASSUME NEW s \in DOMAIN delayed, s \in DOMAIN lost PROVE \E d \in Depth : DelayLost(s, d)'
  <2>1. PICK d \in Depth : DelayLost(s, d)
    BY <1>3 DEF DelayInv, DelayOK
  <2>2. <<s, d>> \in DOMAIN asked /\ Len(trace) <= Len(trace') /\ lost'[s] = lost[s]
    BY <1>1, <1>3, <2>1, LenProperties DEF DelayLost, MonitorInv, TraceOK
  <2>3. DelayLost(s, d)'
    BY <1>1, <1>3, <2>1, <2>2, LostStays
  <2>4. QED
    BY <2>3
<1>4. ASSUME NEW s \in DOMAIN delayed, s \notin DOMAIN lost, s \in DOMAIN lost'
      PROVE  \E d \in Depth : DelayLost(s, d)'
  <2>0. PICK d : d = watched[id].depth
    OBVIOUS
  <2>1. DelayHeld(s) /\ delayed[s].watch = id /\ lost'[s] = Len(trace)
    BY <1>1, <1>4 DEF DelayInv, DelayOK
  <2>2. d \in Depth /\ id \in Nat /\ id < count /\ Len(trace) \in 1..Len(trace)
    BY <2>0, <2>1, LenProperties DEF DelayHeld, BufferWatch, MonitorInv, WatchesOK, TraceOK
  <2>3. /\ <<s, d>> \in DOMAIN asked /\ asked[<<s, d>>] \in 1..Len(trace)
        /\ Len(trace) - asked[<<s, d>>] >= d => delayed[s].value = trace[Len(trace) - d][s]
    BY <2>0, <2>1 DEF DelayHeld
  <2>4. DelayLost(s, d)'
    BY <1>1, <2>1, <2>2, <2>3 DEF DelayLost
  <2>5. QED
    BY <2>2, <2>4
<1>5. DOMAIN lost' \subseteq DOMAIN delayed'
  BY <1>1 DEF DelayInv
<1>6. QED
  BY <1>2, <1>3, <1>4, <1>5 DEF DelayInv, DelayOK

\* Asking for a delay starts a buffer, which counts if it is the signal's first.
LEMMA DelayAdd ==
  ASSUME MonitorInv, MonitorInv', DelayInv, NEW s \in Signal, NEW d \in Depth, AddDelayedVariable(s, d)
  PROVE  DelayInv'
<1> DEFINE w == [signal |-> s, type |-> "delay_clock_edge", cell |-> count,
                 depth |-> d, values |-> <<Rtl[s]>>]
           m == Len(trace)
<1>1. m \in Nat /\ m # 0 /\ trace[m] \in [Signal -> Value] /\ d \in Nat /\ d # 0 /\ count \in Nat
  BY MonitorAssumption, LenProperties, ElementOfSeq DEF MonitorInv, TraceOK, WatchesOK
<1>2. Rtl[s] = trace[m][s] /\ Rtl[s] \in Value
  BY <1>1 DEF Rtl, Now
<1>3. /\ w \in BufferWatch /\ w.signal = s /\ w.depth = d
      /\ Len(w.values) = 1 /\ w.values[1] = trace[m][s]
  BY <1>1, <1>2 DEF BufferWatch
<1>4. /\ AddWatchVar(w, count) /\ trace' = trace /\ lost' = lost
      /\ delayed' = IF s \in DOMAIN delayed THEN delayed
                    ELSE With(delayed, s, [watch |-> count, value |-> NoValue])
      /\ asked' = IF <<s, d>> \in DOMAIN asked THEN asked ELSE With(asked, <<s, d>>, m)
  BY DEF AddDelayedVariable, Now
<1> HIDE DEF w, m
<1>5. WatchAdded(w) /\ count \notin DOMAIN watched
  BY <1>4, AddedWatch DEF MonitorInv, WatchesOK
<1>6. /\ \A a \in DOMAIN asked : a \in DOMAIN asked' /\ asked'[a] = asked[a]
      /\ \A a \in DOMAIN asked' : a \in DOMAIN asked \/ a = <<s, d>>
      /\ <<s, d>> \in DOMAIN asked'
  BY <1>4 DEF With
<1>7. /\ \A r \in DOMAIN delayed : r \in DOMAIN delayed' /\ delayed'[r] = delayed[r]
      /\ \A r \in DOMAIN delayed' : r \in DOMAIN delayed \/ r = s
      /\ s \in DOMAIN delayed'
  BY <1>4 DEF With
<1>8. \A a \in DOMAIN asked' : a \in Signal \X Depth /\ a[1] \in DOMAIN delayed'
  BY <1>6, <1>7 DEF DelayInv
<1>9. ASSUME NEW r \in DOMAIN delayed, r \notin DOMAIN lost PROVE DelayHeld(r)'
  <2> DEFINE u == watched[delayed[r].watch]
             t == asked[<<r, u.depth>>]
  <2>1. /\ delayed[r] \in [watch : Nat, value : Value \cup {NoValue, Undefined}]
        /\ delayed[r].watch \in DOMAIN watched /\ u \in BufferWatch /\ u.signal = r
        /\ <<r, u.depth>> \in DOMAIN asked
        /\ t \in 1..Len(trace) /\ Filled(trace, u, t)
        /\ Len(trace) - t >= u.depth => delayed[r].value = trace[Len(trace) - u.depth][r]
    BY <1>9 DEF DelayInv, DelayOK, DelayHeld
  <2>2. delayed'[r] = delayed[r] /\ trace' = trace
    BY <1>4, <1>7, <1>9
  <2>3. delayed[r].watch \in DOMAIN watched' /\ watched'[delayed[r].watch] = u
    BY <1>5, <2>1 DEF WatchAdded
  <2>4. <<r, u.depth>> \in DOMAIN asked' /\ asked'[<<r, u.depth>>] = t
    BY <1>6, <2>1
  <2> HIDE DEF u, t
  <2>5. QED
    BY <2>1, <2>2, <2>3, <2>4 DEF DelayHeld
<1>10. ASSUME NEW r \in DOMAIN delayed, r \in DOMAIN lost PROVE \E e \in Depth : DelayLost(r, e)'
  <2>1. PICK e \in Depth : DelayLost(r, e)
    BY <1>10 DEF DelayInv, DelayOK
  <2>2. <<r, e>> \in DOMAIN asked' /\ asked'[<<r, e>>] = asked[<<r, e>>]
    BY <1>6, <2>1 DEF DelayLost
  <2>3. /\ Len(trace) <= Len(trace') /\ \A k \in 1..Len(trace) : trace'[k] = trace[k]
        /\ lost'[r] = lost[r] /\ delayed'[r] = delayed[r]
    <3>1. trace' = trace /\ lost' = lost /\ delayed'[r] = delayed[r]
      BY <1>4, <1>7, <1>10
    <3>2. Len(trace) <= Len(trace)
      BY <1>1 DEF m
    <3>3. QED
      BY <3>1, <3>2
  <2>4. count' = count + 1 /\ DOMAIN watched' = DOMAIN watched \cup {count}
    BY <1>5 DEF WatchAdded
  <2>5. DelayLost(r, e)'
    BY <1>10, <2>1, <2>2, <2>3, <2>4, LostStays
  <2>6. QED
    BY <2>5
<1>11. ASSUME s \notin DOMAIN delayed PROVE s \notin DOMAIN lost' /\ DelayHeld(s)'
  <2>0. s \notin DOMAIN lost'
    BY <1>4, <1>11 DEF DelayInv
  <2>1. <<s, d>> \notin DOMAIN asked
    BY <1>11 DEF DelayInv
  <2>2. asked'[<<s, d>>] = m
    BY <1>4, <2>1 DEF With
  <2>3. delayed'[s] = [watch |-> count, value |-> NoValue]
    BY <1>4, <1>11 DEF With
  <2>4. delayed'[s] \in [watch : Nat, value : Value \cup {NoValue, Undefined}]
        /\ delayed'[s].watch = count
    BY <1>1, <2>3
  <2>5. count \in DOMAIN watched' /\ watched'[count] = w
    BY <1>5 DEF WatchAdded
  <2>6. Filled(trace, w, m)
    BY <1>1, <1>3 DEF Filled, m
  <2>7. m \in 1..m /\ ~(m - m >= d)
    BY <1>1
  <2>8. QED
    BY <1>3, <1>4, <1>6, <2>0, <2>2, <2>4, <2>5, <2>6, <2>7 DEF DelayHeld, m
<1>12. ASSUME NEW r \in DOMAIN delayed' PROVE DelayOK(r)'
  BY <1>4, <1>7, <1>9, <1>10, <1>11, <1>12 DEF DelayOK
<1>13. DOMAIN lost' \subseteq DOMAIN delayed'
  BY <1>4, <1>7 DEF DelayInv
<1>14. QED
  BY <1>8, <1>12, <1>13 DEF DelayInv

\* A clock edge takes the old value out of every buffer and the new one in.
LEMMA DelayEdge ==
  ASSUME MonitorInv, MonitorInv', DelayInv, NEW v \in [Signal -> Value], ClockEdge(v)
  PROVE  DelayInv'
<1>1. trace \in Seq([Signal -> Value])
  BY DEF MonitorInv, TraceOK
<1>2. /\ trace' = Append(trace, v) /\ asked' = asked /\ lost' = lost /\ count' = count
      /\ DOMAIN delayed' = DOMAIN delayed /\ DOMAIN watched' = DOMAIN watched
      /\ \A s \in DOMAIN delayed : delayed[s].watch \in Buffers =>
            delayed'[s] = [delayed[s] EXCEPT !.value = BufferFront(watched[delayed[s].watch])]
      /\ \A s \in DOMAIN delayed : delayed[s].watch \notin Buffers => delayed'[s] = delayed[s]
      /\ \A id \in Buffers : watched'[id] = BufferPush(watched[id], v[watched[id].signal])
  BY DEF ClockEdge, Buffers
<1>3. ASSUME NEW s \in DOMAIN delayed, s \notin DOMAIN lost PROVE DelayHeld(s)'
  <2> DEFINE id == delayed[s].watch
             w == watched[id]
             t == asked[<<s, w.depth>>]
             p == BufferPush(w, v[w.signal])
  <2>1. /\ delayed[s] \in [watch : Nat, value : Value \cup {NoValue, Undefined}]
        /\ id \in DOMAIN watched /\ w \in BufferWatch /\ w.signal = s
        /\ <<s, w.depth>> \in DOMAIN asked
        /\ t \in 1..Len(trace)
        /\ Filled(trace, w, t)
    BY <1>3 DEF DelayInv, DelayOK, DelayHeld
  <2>2. id \in Buffers
    BY <2>1 DEF Buffers, BufferWatch
  <2>3. watched'[id] = p
    BY <1>2, <2>2
  <2>4. delayed'[s] = [delayed[s] EXCEPT !.value = BufferFront(w)]
    BY <1>2, <2>2
  <2>5. v[w.signal] \in Value
    BY <2>1 DEF BufferWatch
  <2> HIDE DEF w, t, p, id
  <2>6. p \in BufferWatch /\ p.signal = s /\ p.depth = w.depth
    BY <2>1, <2>5, PushValues DEF p
  <2>7. /\ Filled(trace', p, t)
        /\ Len(trace') - t >= w.depth => BufferFront(w) = trace'[Len(trace') - w.depth][w.signal]
        /\ BufferFront(w) \in Value \cup {Undefined}
    <3>1. w \in BufferWatch /\ t \in 1..Len(trace) /\ Filled(trace, w, t)
      BY <2>1
    <3>2. /\ Filled(Append(trace, v), BufferPush(w, v[w.signal]), t)
          /\ Len(Append(trace, v)) - t >= w.depth =>
                BufferFront(w) = Append(trace, v)[Len(Append(trace, v)) - w.depth][w.signal]
          /\ BufferFront(w) \in Value \cup {Undefined}
      BY <1>1, <3>1, PushFilled
    <3>3. trace' = Append(trace, v)
      BY <1>2
    <3>4. QED
      BY <3>2, <3>3 DEF p
  <2>8. Len(trace') = Len(trace) + 1 /\ Len(trace) \in Nat
    BY <1>1, <1>2, AppendProperties, LenProperties
  <2>9. t \in 1..Len(trace')
    BY <2>1, <2>8
  <2>10. /\ delayed'[s] \in [watch : Nat, value : Value \cup {NoValue, Undefined}]
         /\ delayed'[s].watch = id /\ delayed'[s].value = BufferFront(w)
    BY <2>1, <2>4, <2>7 DEF id
  <2>11. asked'[<<s, p.depth>>] = t /\ <<s, p.depth>> \in DOMAIN asked'
    BY <1>2, <2>1, <2>6 DEF t
  <2>12. QED
    BY <1>2, <2>1, <2>3, <2>6, <2>7, <2>9, <2>10, <2>11 DEF DelayHeld
<1>4. ASSUME NEW s \in DOMAIN delayed, s \in DOMAIN lost PROVE \E d \in Depth : DelayLost(s, d)'
  <2>1. PICK d \in Depth : DelayLost(s, d)
    BY <1>4 DEF DelayInv, DelayOK
  <2>2. <<s, d>> \in DOMAIN asked /\ delayed[s].watch \notin Buffers
    BY <2>1 DEF DelayLost, Buffers
  <2>3. Len(trace) <= Len(trace') /\ \A k \in 1..Len(trace) : trace'[k] = trace[k]
    BY <1>1, <1>2, AppendProperties, LenProperties
  <2>4. /\ delayed'[s] = delayed[s] /\ lost'[s] = lost[s] /\ asked' = asked
        /\ count' = count /\ DOMAIN watched' = DOMAIN watched
    BY <1>2, <2>2
  <2>5. DelayLost(s, d)'
    BY <1>4, <2>1, <2>2, <2>3, <2>4, LostStays
  <2>6. QED
    BY <2>5
<1>5. QED
  BY <1>2, <1>3, <1>4 DEF DelayInv, DelayOK

\* Without data breakpoints every step keeps the delays: nothing else puts a value
\* into a buffer.
LEMMA DelayStep ==
  ASSUME DataBp = {}, MonitorInv, MonitorInv', DelayInv, [Next]_vars
  PROVE  DelayInv'
<1>1. ASSUME NEW s \in Signal, NEW type \in ClientType, AddMonitorVariable(s, type)
      PROVE  DelayInv'
  <2>1. WatchAdded([signal |-> s, type |-> type, cell |-> count])
    BY <1>1, AddedWatch DEF AddMonitorVariable
  <2>2. UNCHANGED <<trace, delayed, asked, lost>>
    BY <1>1 DEF AddMonitorVariable
  <2>3. QED
    BY <2>1, <2>2, DelayFrame DEF WatchAdded
<1>2. ASSUME NEW id \in DOMAIN watched, RemoveMonitorVariable(id)
      PROVE  DelayInv'
  <2>1. EraseWatch(id) /\ UNCHANGED <<trace, count, delayed, asked>>
    BY <1>2 DEF RemoveMonitorVariable
  <2>2. QED
    BY <2>1, DelayErase
<1>3. CASE ClearDataBreakpoints \/ UNCHANGED vars
  BY <1>3, DelayFrame DEF ClearDataBreakpoints, vars
<1>4. QED
  BY <1>1, <1>2, <1>3, DelayAdd, DelayEdge DEF Next

\* A delayed variable shows the value its signal had that many clock edges ago, for
\* every depth, design and length of the simulation, however often it is asked for
\* again and whatever clients watch and remove; once its buffer is removed it keeps
\* the value it had then.  The hypotheses are those under which it is meant to: one
\* depth per signal, and no data breakpoint, whose watch id 0 may be that of somebody
\* else's buffer.
THEOREM MonitorDelayedValue ==
  ASSUME DataBp = {}, \A d, e \in Depth : d = e
  PROVE  Spec => []DelayedValue
<1>1. Init => DelayInv
  BY DEF Init, DelayInv
<1>2. DelayInv => DelayedValue
  <2> SUFFICES ASSUME DelayInv, NEW a \in DOMAIN asked
               PROVE  LET s == a[1]
                          t == IF s \in DOMAIN lost THEN lost[s] ELSE Len(trace)
                      IN  t - asked[a] >= a[2] => delayed[s].value = trace[t - a[2]][s]
    BY DEF DelayedValue, Now
  <2> DEFINE s == a[1]
  <2>1. a \in Signal \X Depth /\ s \in DOMAIN delayed /\ DelayOK(s)
    BY DEF DelayInv
  <2>2. a = <<s, a[2]>> /\ a[2] \in Depth
    BY <2>1
  <2>3. CASE s \notin DOMAIN lost
    <3> DEFINE w == watched[delayed[s].watch]
    <3>1. /\ w.depth \in Depth
          /\ Len(trace) - asked[<<s, w.depth>>] >= w.depth =>
                delayed[s].value = trace[Len(trace) - w.depth][s]
      BY <2>1, <2>3 DEF DelayOK, DelayHeld, BufferWatch
    <3>2. a[2] = w.depth
      BY <2>2, <3>1
    <3> HIDE DEF s, w
    <3>3. QED
      BY <2>2, <2>3, <3>1, <3>2 DEF s
  <2>4. CASE s \in DOMAIN lost
    <3>1. PICK d \in Depth : DelayLost(s, d)
      BY <2>1, <2>4 DEF DelayOK
    <3>2. a[2] = d
      BY <2>2, <3>1
    <3>3. lost[s] - asked[<<s, d>>] >= d => delayed[s].value = trace[lost[s] - d][s]
      BY <3>1 DEF DelayLost
    <3> HIDE DEF s
    <3>4. QED
      BY <2>2, <2>4, <3>2, <3>3 DEF s
  <2>5. QED
    BY <2>3, <2>4
<1>3. QED
  BY <1>1, <1>2, MonitorInit, MonitorStep, DelayStep, PTL DEF Spec
=============================================================================
