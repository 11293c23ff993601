--------------------------- MODULE DebuggerProofs ---------------------------
(***************************************************************************)
(* The debugger's two threads around the scheduler: the state keeps its    *)
(* types, the list stays in order and without duplicates, and eval() hands *)
(* out every breakpoint of a cycle, forwards only.                         *)
(***************************************************************************)
EXTENDS Debugger, SchedulerProofs, WellFoundedInduction

\* The calls the server thread makes.
CallType ==
    [op : {"add"}, ids : SUBSET BpId, cond : Cond]
    \cup [op : {"remove"}, ids : SUBSET BpId]
    \cup [op : {"mode", "assign"}, mode : Mode]
    \cup [op : {"single", "pause"}, value : BOOLEAN]
    \cup [op : {"reorder", "clear", "ready", "finish", "unregister", "release"}]

TodoOK == todo \in Seq(CallType)

\* The type invariant, with the types of the calls that are left: what they are
\* about ends up in the scheduler's list.
DebuggerInv == TypeOK /\ InsertedTracked /\ TodoOK

Misuse == {"none", "freed breakpoint", "null expression"}

\* The debugger's own variables.
DebuggerTypeOK ==
    /\ sim \in SimPc
    /\ hits \subseteq Entry
    /\ signal \in BOOLEAN
    /\ pause \in BOOLEAN /\ attached \in BOOLEAN /\ running \in BOOLEAN
    /\ connected \in BOOLEAN /\ finished \in BOOLEAN
    /\ freed \subseteq Entry
    /\ misuse \in Misuse
    /\ due \subseteq BpId /\ passed \subseteq BpId /\ steady \in BOOLEAN

\* The invariant is the scheduler's and the debugger's own.
LEMMA InvParts == DebuggerInv <=> Inv /\ DebuggerTypeOK /\ TodoOK
  BY Zenon DEF DebuggerInv, TypeOK, DebuggerTypeOK, Misuse, Inv

\* And so it is in the next state.
LEMMA InvPartsNext == DebuggerInv' <=> Inv' /\ DebuggerTypeOK' /\ TodoOK'
  BY Zenon DEF DebuggerInv, TypeOK, DebuggerTypeOK, Misuse, Inv

\* The debugger's initial state satisfies the invariant.
LEMMA InitDebugger == Init => DebuggerInv
<1> SUFFICES ASSUME Init PROVE DebuggerInv
  OBVIOUS
<1>1. Inv
  BY InitInv DEF Init
<1>2. DebuggerTypeOK
  BY Zenon DEF Init, DebuggerTypeOK, Misuse, SimPc, Parked
<1>3. TodoOK
  BY EmptySeq DEF Init, TodoOK
<1>4. QED
  BY <1>1, <1>2, <1>3, InvParts

-----------------------------------------------------------------------------
(* The calls left of a request                                             *)

\* The first call is well typed, and so are the others.
LEMMA HeadTodo ==
  ASSUME TodoOK, todo # <<>>
  PROVE  /\ Head(todo) \in CallType
         /\ Tail(todo) \in Seq(CallType)
         /\ 1 \in DOMAIN todo
         /\ Head(todo) = todo[1]
         /\ DOMAIN Tail(todo) = 1..(Len(todo) - 1)
         /\ \A k \in DOMAIN Tail(todo) : k + 1 \in DOMAIN todo /\ Tail(todo)[k] = todo[k + 1]
  BY HeadTailProperties, EmptySeq, LenProperties DEF TodoOK

\* Replacing the first call keeps the others.
LEMMA ReplaceHead ==
  ASSUME TodoOK, todo # <<>>, NEW r \in CallType, NEW t, t = [todo EXCEPT ![1] = r]
  PROVE  /\ t \in Seq(CallType)
         /\ t # <<>>
         /\ DOMAIN t = DOMAIN todo
         /\ t[1] = r
         /\ \A k \in DOMAIN todo : k # 1 => t[k] = todo[k]
<1>1. 1 \in 1..Len(todo) /\ DOMAIN todo = 1..Len(todo) /\ Len(todo) \in Nat
  BY HeadTodo, LenProperties DEF TodoOK
<1>2. t \in Seq(CallType) /\ Len(t) = Len(todo)
  BY <1>1, ExceptSeq DEF TodoOK
<1>3. QED
  BY <1>1, <1>2, EmptySeq

\* DoneFor leaves a call of the same kind for fewer breakpoints, or the rest.
LEMMA DoneForTodo ==
  ASSUME TodoOK, todo # <<>>, NEW id \in BpId, Head(todo).op \in {"add", "remove"},
         DoneFor(id)
  PROVE  \/ todo' = Tail(todo)
         \/ \E r \in CallType : r.op = Head(todo).op /\ todo' = [todo EXCEPT ![1] = r]
<1> DEFINE r == [todo[1] EXCEPT !.ids = @ \ {id}]
<1>1. todo[1] \in CallType /\ Head(todo) = todo[1]
  BY HeadTodo
<1>2. r \in CallType /\ r.op = todo[1].op
  <2>1. CASE todo[1] \in [op : {"add"}, ids : SUBSET BpId, cond : Cond]
    BY <2>1 DEF CallType
  <2>2. CASE todo[1] \in [op : {"remove"}, ids : SUBSET BpId]
    BY <2>2 DEF CallType
  <2>3. QED
    BY <1>1, <2>1, <2>2 DEF CallType
<1>3. [todo EXCEPT ![1].ids = @ \ {id}] = [todo EXCEPT ![1] = r]
  OBVIOUS
<1>4. QED
  BY <1>1, <1>2, <1>3 DEF DoneFor

\* A call of the server thread takes itself off the list, or is replaced by what
\* is left of it.
LEMMA ServerTodo ==
  ASSUME TodoOK, ServerStep
  PROVE  /\ todo # <<>>
         /\ \/ todo' = Tail(todo)
            \/ \E r \in CallType :
                  /\ todo' = [todo EXCEPT ![1] = r]
                  /\ \/ r.op = Head(todo).op /\ r.op \in {"add", "remove"}
                     \/ Head(todo).op = "mode" /\ r.op = "assign" /\ r.mode = Head(todo).mode
<1>1. CASE ServeAdd \/ ServeRemove
  <2>1. PICK id \in Head(todo).ids : DoneFor(id)
    BY <1>1 DEF ServeAdd, ServeRemove
  <2>2. todo # <<>> /\ Head(todo).op \in {"add", "remove"}
    BY <1>1 DEF ServeAdd, ServeRemove, Calling
  <2>3. id \in BpId
    BY <2>1, <2>2, HeadTodo DEF CallType
  <2>4. QED
    BY <2>1, <2>2, <2>3, DoneForTodo
<1>2. CASE ServeMode
  <2>1. todo # <<>> /\ Head(todo).op = "mode"
    BY <1>2 DEF ServeMode, Calling
  <2>2. todo[1] \in [op : {"mode", "assign"}, mode : Mode] /\ Head(todo) = todo[1]
    BY <2>1, HeadTodo DEF CallType
  <2> DEFINE r == [todo[1] EXCEPT !.op = "assign"]
  <2>3. r \in CallType /\ r.op = "assign" /\ r.mode = todo[1].mode
    BY <2>2 DEF CallType
  <2>4. [todo EXCEPT ![1].op = "assign"] = [todo EXCEPT ![1] = r]
    OBVIOUS
  <2>5. todo' = Tail(todo) \/ todo' = [todo EXCEPT ![1].op = "assign"]
    BY <1>2 DEF ServeMode, Done
  <2>6. QED
    BY <2>1, <2>2, <2>3, <2>4, <2>5
<1>3. CASE \/ ServeReorder \/ ServeClear \/ ServeAssign \/ ServeReady \/ ServeSingle
           \/ ServePause \/ ServeFinish \/ ServeUnregister \/ ServeRelease
  BY <1>3 DEF ServeReorder, ServeClear, ServeAssign, ServeReady, ServeSingle, ServePause,
              ServeFinish, ServeUnregister, ServeRelease, Calling, Done
<1>4. QED
  BY <1>1, <1>2, <1>3 DEF ServerStep

\* The list of calls stays well typed.
LEMMA ServerTodoType ==
  ASSUME TodoOK, ServerStep
  PROVE  TodoOK'
<1>1. todo # <<>>
  BY ServerTodo
<1>2. CASE todo' = Tail(todo)
  BY <1>1, <1>2, HeadTodo DEF TodoOK
<1>3. ASSUME NEW r \in CallType, todo' = [todo EXCEPT ![1] = r] PROVE TodoOK'
  BY <1>1, <1>3, ReplaceHead DEF TodoOK
<1>4. QED
  BY <1>2, <1>3, ServerTodo

-----------------------------------------------------------------------------
(* The steps                                                               *)

\* A step that leaves the scheduler alone keeps its invariant.
LEMMA SchedulerKept ==
  ASSUME Inv, UNCHANGED svars
  PROVE  Inv'
  BY DEF svars, Inv, SchedulerTypeOK, InsertedTracked

\* Each of the server thread's calls keeps the scheduler's invariant.
LEMMA ServerInv ==
  ASSUME Inv, TodoOK, ServerStep
  PROVE  Inv'
<1>1. CASE ServeAdd
  <2>1. PICK id \in Head(todo).ids : AddNormal(id, Head(todo).cond)
    BY <1>1 DEF ServeAdd
  <2>2. Head(todo) \in CallType /\ Head(todo).op = "add"
    BY <1>1, HeadTodo DEF ServeAdd, Calling
  <2>3. id \in BpId /\ Head(todo).cond \in Cond
    BY <2>1, <2>2 DEF CallType
  <2>4. QED
    BY <2>1, <2>3, NormalStep
<1>2. CASE ServeRemove
  <2>1. PICK id \in Head(todo).ids : RemoveFlag(id, "normal")
    BY <1>2 DEF ServeRemove
  <2>2. Head(todo) \in CallType /\ Head(todo).op = "remove"
    BY <1>2, HeadTodo DEF ServeRemove, Calling
  <2>3. id \in BpId /\ "normal" \in Flag
    BY <2>1, <2>2 DEF CallType, Flag
  <2>4. QED
    BY <2>1, <2>3, RemoveStep
<1>3. CASE ServeReorder
  BY <1>3, ReorderStep DEF ServeReorder
<1>4. CASE ServeClear
  BY <1>4, SettingStep DEF ServeClear
<1>5. CASE ServeMode
  BY <1>5, SettingStep, SchedulerKept DEF ServeMode
<1>6. CASE ServeAssign
  <2>1. Head(todo) \in CallType /\ Head(todo).op = "assign" /\ AssignMode(Head(todo).mode)
    BY <1>6, HeadTodo DEF ServeAssign, Calling
  <2>2. Head(todo).mode \in Mode
    BY <2>1 DEF CallType
  <2>3. QED
    BY <2>1, <2>2, SettingStep
<1>7. CASE ServeSingle
  <2>1. Head(todo) \in CallType /\ Head(todo).op = "single" /\ SetSingle(Head(todo).value)
    BY <1>7, HeadTodo DEF ServeSingle, Calling
  <2>2. Head(todo).value \in BOOLEAN
    BY <2>1 DEF CallType
  <2>3. QED
    BY <2>1, <2>2, SettingStep
<1>8. CASE ServeReady \/ ServePause \/ ServeFinish \/ ServeUnregister \/ ServeRelease
  BY <1>8, SchedulerKept
  DEF ServeReady, ServePause, ServeFinish, ServeUnregister, ServeRelease
<1>9. QED
  BY <1>1, <1>2, <1>3, <1>4, <1>5, <1>6, <1>7, <1>8 DEF ServerStep

\* Each of the server thread's calls keeps the debugger's variables typed.
LEMMA ServerType ==
  ASSUME Inv, DebuggerTypeOK, TodoOK, ServerStep
  PROVE  DebuggerTypeOK'
<1> USE DEF DebuggerTypeOK, session, history
<1>1. CASE ServeAdd
  BY <1>1 DEF ServeAdd
<1>2. ASSUME Forget PROVE freed' \subseteq Entry /\ due' \subseteq BpId /\ passed' \subseteq BpId
  BY <1>2 DEF Forget, Inv, SchedulerTypeOK
<1>3. CASE ServeRemove
  BY <1>2, <1>3 DEF ServeRemove
<1>4. CASE ServeClear
  BY <1>2, <1>4 DEF ServeClear
<1>5. CASE ServeReorder \/ ServeAssign \/ ServeReady
  BY <1>5 DEF ServeReorder, ServeAssign, ServeReady
<1>6. CASE ServeMode
  BY <1>6 DEF ServeMode
<1>7. CASE ServeSingle
  BY <1>7 DEF ServeSingle
<1>8. CASE ServePause
  <2>1. Head(todo) \in CallType /\ Head(todo).op = "pause" /\ pause' = Head(todo).value
    BY <1>8, HeadTodo DEF ServePause, Calling
  <2>2. Head(todo).value \in BOOLEAN
    BY <2>1 DEF CallType
  <2>3. QED
    BY <1>8, <2>1, <2>2 DEF ServePause
<1>9. CASE ServeFinish \/ ServeUnregister \/ ServeRelease
  BY <1>9 DEF ServeFinish, ServeUnregister, ServeRelease
<1>10. QED
  BY <1>1, <1>3, <1>4, <1>5, <1>6, <1>7, <1>8, <1>9 DEF ServerStep

\* The simulation thread's steps keep the scheduler's invariant.
LEMMA SimInv ==
  ASSUME Inv, SimStep \/ Assertion
  PROVE  Inv'
<1>1. CASE Assertion
  <2>1. PICK a \in Asserts : AddAssert(a[1], a[2])
    BY <1>1 DEF Assertion
  <2>2. a[1] \in BpId /\ a[2] \in Ns
    BY SchedulerAssumption
  <2>3. QED
    BY <2>1, <2>2, AssertStep
<1>2. CASE StartEvaluation
  BY <1>2, StartStep DEF StartEvaluation
<1>3. CASE Fetch
  BY <1>3, NextStep DEF Fetch
<1>4. CASE Resume \/ ClockEdge \/ FreeRun \/ Finish \/ Finished \/ Evaluate \/ Report
  <2>1. UNCHANGED svars
    BY <1>4, Zenon DEF Resume, ClockEdge, FreeRun, Finish, Finished, Evaluate, Report, vars
  <2>2. QED
    BY <2>1, SchedulerKept
<1>5. QED
  BY <1>1, <1>2, <1>3, <1>4 DEF SimStep

\* Evaluating and reporting a batch moves the simulation thread on, or is the
\* undefined use of a breakpoint.
LEMMA EvaluateStep ==
  ASSUME Evaluate \/ Report
  PROVE  /\ sim \in {"eval", "report"}
         /\ sim' \in {sim, "next", "report", "hit_wait"}
         /\ hits' = hits \/ hits' \subseteq batch
         /\ misuse' = misuse \/ misuse' \in Misuse
         /\ UNCHANGED <<svars, signal, todo, session, freed, history>>
<1>1. CASE Evaluate
  <2>1. hits' = hits \/ hits' \subseteq batch
    BY <1>1, Zenon DEF Evaluate
  <2>2. QED
    BY <1>1, <2>1, Zenon DEF Evaluate, SimAt, Misuse
<1>2. CASE Report
  BY <1>2, Zenon DEF Report, SimAt, Misuse
<1>3. QED
  BY <1>1, <1>2

\* The simulation thread's steps keep the debugger's variables typed.
LEMMA SimType ==
  ASSUME Inv, DebuggerTypeOK, SimStep \/ Assertion
  PROVE  DebuggerTypeOK' /\ todo' = todo
<1> USE DEF DebuggerTypeOK, session, history
<1>1. CASE Resume
  BY <1>1 DEF Resume, SimPc, Parked
<1>2. CASE ClockEdge
  BY <1>2 DEF ClockEdge, SimPc, Parked
<1>3. CASE FreeRun \/ Finished \/ Assertion
  BY <1>3 DEF FreeRun, Finished, Assertion, vars, dvars
<1>4. CASE Finish
  BY <1>4 DEF Finish, SimPc, Parked
<1>5. CASE StartEvaluation
  <2>1. due' \subseteq BpId
    <3>1. \A i \in DOMAIN breakpoints : breakpoints[i] \in Entry
      BY ElementOfSeq, LenProperties DEF Inv, SchedulerTypeOK
    <3>2. \A i \in DOMAIN breakpoints : breakpoints[i].id \in BpId
      BY <3>1 DEF Entry
    <3>3. QED
      BY <1>5, <3>2 DEF StartEvaluation
  <2>2. QED
    BY <1>5, <2>1 DEF StartEvaluation, SimPc, Parked
<1>6. CASE Fetch
  <2>1. passed' \subseteq BpId
    <3>1. batch' \subseteq Entry
      BY <1>6, NextStep DEF Fetch, Inv, SchedulerTypeOK
    <3>2. QED
      BY <1>6, <3>1 DEF Fetch, Entry
  <2>2. QED
    BY <1>6, <2>1 DEF Fetch, SimPc, Parked
<1>7. CASE Evaluate \/ Report
  <2>1. batch \subseteq Entry
    BY DEF Inv, SchedulerTypeOK
  <2>2. QED
    BY <1>7, <2>1, EvaluateStep DEF SimPc, Parked
<1>8. QED
  BY <1>1, <1>2, <1>3, <1>4, <1>5, <1>6, <1>7 DEF SimStep

\* A request that arrives changes nothing but the list of calls, which was empty.
LEMMA RequestFrame ==
  ASSUME Request
  PROVE  /\ Alive /\ connected /\ todo = <<>>
         /\ UNCHANGED <<svars, sim, hits, signal, pause, attached, running, finished,
                        freed, misuse, history>>
         /\ \/ UNCHANGED connected /\ (Patient => sim \in Parked /\ ~signal)
            \/ connected' = FALSE /\ todo' = Detach
<1>1. ASSUME NEW kind, NEW calls, Ask(kind, calls)
      PROVE  /\ Alive /\ connected /\ todo = <<>>
             /\ UNCHANGED <<svars, sim, hits, signal, pause, attached, running, finished,
                            freed, misuse, history>>
             /\ UNCHANGED connected /\ (Patient => sim \in Parked /\ ~signal)
  BY <1>1, Zenon DEF Ask, session
<1>2. CASE Disconnect
  BY <1>2, Zenon DEF Disconnect
<1>3. CASE ChangeOption
  BY <1>1, <1>3, Zenon DEF ChangeOption
<1>4. ASSUME NEW l, NEW c, AddAtLocation(l, c) \/ RemoveAtLocation(l) PROVE
             /\ Alive /\ connected /\ todo = <<>>
             /\ UNCHANGED <<svars, sim, hits, signal, pause, attached, running, finished,
                            freed, misuse, history>>
             /\ UNCHANGED connected /\ (Patient => sim \in Parked /\ ~signal)
  BY <1>1, <1>4, Zenon DEF AddAtLocation, RemoveAtLocation
<1>5. ASSUME NEW id, NEW c, AddById(id, c) \/ RemoveById(id) PROVE
             /\ Alive /\ connected /\ todo = <<>>
             /\ UNCHANGED <<svars, sim, hits, signal, pause, attached, running, finished,
                            freed, misuse, history>>
             /\ UNCHANGED connected /\ (Patient => sim \in Parked /\ ~signal)
  BY <1>1, <1>5, Zenon DEF AddById, RemoveById
<1>6. CASE Continue \/ StepOver \/ StepBack \/ ReverseContinue \/ Jump \/ Stop
  BY <1>1, <1>6, Zenon DEF Continue, StepOver, StepBack, ReverseContinue, Jump, Stop
<1>7. QED
  BY <1>2, <1>3, <1>4, <1>5, <1>6, Zenon DEF Request

-----------------------------------------------------------------------------
(* What a request becomes                                                  *)

\* The shape of a request's calls: the evaluation mode is not half set, and the
\* call that lets the simulation run is the last one.
Orderly(calls) ==
    /\ calls \in Seq(CallType)
    /\ \A k \in DOMAIN calls :
          /\ calls[k].op # "assign"
          /\ calls[k].op \in {"ready", "release"} => k = Len(calls)

\* Every insertion is followed by the sort.
Sorts(calls) ==
    \A k \in DOMAIN calls :
        calls[k].op = "add" => k + 1 \in DOMAIN calls /\ calls[k + 1].op = "reorder"

\* Nothing is sorted.
SortsNothing(calls) == \A k \in DOMAIN calls : calls[k].op # "reorder"

\* What the clients' kinds of requests mean for the order of the list:
\* handle_breakpoint_id does not sort it, handle_breakpoint does.
AddsUnsorted == "add id" \in Requests
AddsSorted == "add location" \in Requests

\* The last part of detach() is orderly.
LEMMA DetachOrderly == Orderly(Detach) /\ Sorts(Detach) /\ SortsNothing(Detach)
<1>1. /\ Detach \in Seq(CallType)
      /\ DOMAIN Detach = 1..3 /\ Len(Detach) = 3
      /\ Detach[1].op = "unregister" /\ Detach[2].op = "mode" /\ Detach[3].op = "release"
  BY DEF Detach, Call, ModeTo, CallType, Mode
<1>2. QED
  BY <1>1 DEF Orderly, Sorts, SortsNothing

\* The requests' calls are orderly; only "add id" inserts without a sort, and
\* only "add location" sorts.
LEMMA RequestCalls ==
  ASSUME Request
  PROVE  /\ Orderly(todo')
         /\ ~AddsUnsorted => Sorts(todo')
         /\ ~AddsSorted => SortsNothing(todo')
<1>1. CASE Disconnect
  BY <1>1, DetachOrderly DEF Disconnect
<1>2. ASSUME NEW kind, NEW calls, Ask(kind, calls) PROVE todo' = calls /\ kind \in Requests
  BY <1>2 DEF Ask
<1>3. ASSUME NEW l \in Locations, NEW c \in Cond, AddAtLocation(l, c)
      PROVE  Orderly(todo') /\ Sorts(todo') /\ AddsSorted
  <2>1. todo' = <<Add(At(l), c), Call("reorder")>> /\ AddsSorted
    BY <1>2, <1>3, Zenon DEF AddAtLocation, AddsSorted
  <2>2. /\ todo' \in Seq(CallType) /\ DOMAIN todo' = 1..2
        /\ todo'[1].op = "add" /\ todo'[2].op = "reorder"
    BY <2>1 DEF Add, Call, CallType, At
  <2>3. QED
    BY <2>1, <2>2 DEF Orderly, Sorts
<1>4. ASSUME NEW l \in Locations, RemoveAtLocation(l)
      PROVE  Orderly(todo') /\ Sorts(todo') /\ SortsNothing(todo')
  <2>1. todo' = <<Remove(At(l))>>
    BY <1>2, <1>4, Zenon DEF RemoveAtLocation
  <2>2. todo' \in Seq(CallType) /\ DOMAIN todo' = 1..1 /\ todo'[1].op = "remove"
    BY <2>1 DEF Remove, CallType, At
  <2>3. QED
    BY <2>1, <2>2 DEF Orderly, Sorts, SortsNothing
<1>5. ASSUME NEW id \in BpId, NEW c \in Cond, AddById(id, c)
      PROVE  Orderly(todo') /\ SortsNothing(todo') /\ AddsUnsorted
  <2>1. todo' = <<Add({id}, c)>> /\ AddsUnsorted
    BY <1>2, <1>5, Zenon DEF AddById, AddsUnsorted
  <2>2. todo' \in Seq(CallType) /\ DOMAIN todo' = 1..1 /\ todo'[1].op = "add"
    BY <2>1 DEF Add, CallType
  <2>3. QED
    BY <2>1, <2>2 DEF Orderly, SortsNothing
<1>6. ASSUME NEW id \in BpId, RemoveById(id)
      PROVE  Orderly(todo') /\ Sorts(todo') /\ SortsNothing(todo')
  <2>1. todo' = <<Remove({id})>>
    BY <1>2, <1>6, Zenon DEF RemoveById
  <2>2. todo' \in Seq(CallType) /\ DOMAIN todo' = 1..1 /\ todo'[1].op = "remove"
    BY <2>1 DEF Remove, CallType
  <2>3. QED
    BY <2>1, <2>2 DEF Orderly, Sorts, SortsNothing
<1>7. CASE Continue \/ StepOver \/ StepBack \/ ReverseContinue
  <2>1. PICK m \in Mode : todo' = <<ModeTo(m), Call("ready")>>
    <3>1. \/ todo' = <<ModeTo("BreakPointOnly"), Call("ready")>>
          \/ todo' = <<ModeTo("StepOver"), Call("ready")>>
          \/ todo' = <<ModeTo("StepBack"), Call("ready")>>
          \/ todo' = <<ModeTo("ReverseBreakpointOnly"), Call("ready")>>
      BY <1>2, <1>7, Zenon DEF Continue, StepOver, StepBack, ReverseContinue
    <3>2. QED
      BY <3>1, Zenon DEF Mode
  <2>2. /\ todo' \in Seq(CallType) /\ DOMAIN todo' = 1..2 /\ Len(todo') = 2
        /\ todo'[1].op = "mode" /\ todo'[2].op = "ready"
    BY <2>1 DEF ModeTo, Call, CallType
  <2>3. QED
    BY <2>1, <2>2 DEF Orderly, Sorts, SortsNothing
<1>8. CASE Jump
  <2>1. todo' = <<Call("ready")>>
    BY <1>2, <1>8, Zenon DEF Jump
  <2>2. todo' \in Seq(CallType) /\ DOMAIN todo' = 1..1 /\ Len(todo') = 1 /\ todo'[1].op = "ready"
    BY <2>1 DEF Call, CallType
  <2>3. QED
    BY <2>2 DEF Orderly, Sorts, SortsNothing
<1>9. CASE Stop
  <2>1. todo' = <<Call("clear"), ModeTo("None"), Call("finish")>> \o Detach
    BY <1>2, <1>9, Zenon DEF Stop
  <2> DEFINE first == <<Call("clear"), ModeTo("None"), Call("finish")>>
  <2>2. /\ first \in Seq(CallType) /\ Len(first) = 3
        /\ first[1].op = "clear" /\ first[2].op = "mode" /\ first[3].op = "finish"
    BY DEF Call, ModeTo, CallType, Mode
  <2>3. /\ Detach \in Seq(CallType) /\ Len(Detach) = 3
        /\ Detach[1].op = "unregister" /\ Detach[2].op = "mode" /\ Detach[3].op = "release"
    BY DEF Detach, Call, ModeTo, CallType, Mode
  <2> HIDE DEF first
  <2>4. todo' = first \o Detach
    BY <2>1 DEF first
  <2>5. /\ todo' \in Seq(CallType) /\ Len(todo') = 6 /\ DOMAIN todo' = 1..6
        /\ \A i \in 1..6 : todo'[i] = IF i <= 3 THEN first[i] ELSE Detach[i - 3]
    <3>1. /\ first \o Detach \in Seq(CallType)
          /\ Len(first \o Detach) = Len(first) + Len(Detach)
          /\ \A i \in 1..(Len(first) + Len(Detach)) : (first \o Detach)[i] =
                IF i <= Len(first) THEN first[i] ELSE Detach[i - Len(first)]
      BY <2>2, <2>3, ConcatProperties
    <3>2. DOMAIN todo' = 1..Len(todo')
      BY <2>4, <3>1, LenProperties
    <3>3. Len(first) + Len(Detach) = 6
      BY <2>2, <2>3
    <3>4. QED
      BY <2>2, <2>4, <3>1, <3>2, <3>3, Zenon
  <2>6. /\ todo'[1].op = "clear" /\ todo'[2].op = "mode" /\ todo'[3].op = "finish"
        /\ todo'[4].op = "unregister" /\ todo'[5].op = "mode" /\ todo'[6].op = "release"
    BY <2>2, <2>3, <2>5
  <2>7. QED
    BY <2>5, <2>6 DEF Orderly, Sorts, SortsNothing
<1>10. CASE ChangeOption
  <2>1. PICK b \in BOOLEAN : \/ todo' = <<[op |-> "single", value |-> b]>>
                             \/ todo' = <<[op |-> "pause", value |-> b]>>
    BY <1>2, <1>10, Zenon DEF ChangeOption
  <2>2. todo' \in Seq(CallType) /\ DOMAIN todo' = 1..1 /\ todo'[1].op \in {"single", "pause"}
    <3>1. CASE todo' = <<[op |-> "single", value |-> b]>>
      BY <3>1 DEF CallType
    <3>2. CASE todo' = <<[op |-> "pause", value |-> b]>>
      BY <3>2 DEF CallType
    <3>3. QED
      BY <2>1, <3>1, <3>2
  <2>3. QED
    BY <2>2 DEF Orderly, Sorts, SortsNothing
<1>11. QED
  BY <1>1, <1>3, <1>4, <1>5, <1>6, <1>7, <1>8, <1>9, <1>10, Zenon DEF Request

\* A request that arrives keeps the invariant.
LEMMA RequestInv ==
  ASSUME DebuggerInv, Request
  PROVE  DebuggerInv'
<1>1. Inv /\ DebuggerTypeOK
  BY InvParts
<1>2. Inv'
  BY <1>1, RequestFrame, SchedulerKept
<1>3. DebuggerTypeOK'
  BY <1>1, RequestFrame DEF DebuggerTypeOK, history
<1>4. TodoOK'
  BY RequestCalls DEF Orderly, TodoOK
<1>5. QED
  BY <1>2, <1>3, <1>4, InvPartsNext

\* The invariant is inductive.
LEMMA DebuggerStep == DebuggerInv /\ [Next]_vars => DebuggerInv'
<1> SUFFICES ASSUME DebuggerInv, [Next]_vars PROVE DebuggerInv'
  OBVIOUS
<1>1. Inv /\ DebuggerTypeOK /\ TodoOK
  BY InvParts
<1>2. CASE UNCHANGED vars
  <2>1. Inv' /\ DebuggerTypeOK' /\ TodoOK'
    BY <1>1, <1>2, SchedulerKept DEF vars, dvars, DebuggerTypeOK, TodoOK
  <2>2. QED
    BY <2>1, InvPartsNext
<1>3. CASE SimStep \/ Assertion
  <2>1. Inv' /\ DebuggerTypeOK' /\ TodoOK'
    BY <1>1, <1>3, SimInv, SimType DEF TodoOK
  <2>2. QED
    BY <2>1, InvPartsNext
<1>4. CASE ServerStep
  <2>1. Inv' /\ DebuggerTypeOK' /\ TodoOK'
    BY <1>1, <1>4, ServerInv, ServerType, ServerTodoType
  <2>2. QED
    BY <2>1, InvPartsNext
<1>5. QED
  BY <1>2, <1>3, <1>4, RequestInv DEF Next

\* The debugger's state is well typed, for every symbol table, every set of
\* requests and every interleaving of the two threads.
THEOREM DebuggerTypeCorrect == Spec => []TypeOK
<1>1. DebuggerInv => TypeOK
  BY DEF DebuggerInv
<1>2. QED
  BY InitDebugger, DebuggerStep, <1>1, PTL DEF Spec

\* Only Fetch changes what eval() holds.
LEMMA BatchFrame ==
  ASSUME Next, ~Fetch
  PROVE  batch' = batch
<1>1. CASE Request
  BY <1>1, RequestFrame DEF svars
<1>2. CASE ServerStep
  BY <1>2 DEF ServerStep, ServeAdd, ServeRemove, ServeReorder, ServeClear, ServeMode,
              ServeAssign, ServeReady, ServeSingle, ServePause, ServeFinish,
              ServeUnregister, ServeRelease, AddNormal, InsertNormal, UpdateNormal,
              RemoveFlag, Reorder, ClearAll, UnsetFlags, AssignMode, SetSingle, svars
<1>3. CASE Assertion
  BY <1>3 DEF Assertion, AddAssert
<1>4. CASE StartEvaluation
  BY <1>4 DEF StartEvaluation, Start
<1>5. CASE Evaluate \/ Report
  BY <1>5, EvaluateStep DEF svars
<1>6. CASE Resume \/ ClockEdge \/ FreeRun \/ Finish \/ Finished
  BY <1>6 DEF Resume, ClockEdge, FreeRun, Finish, Finished, vars, svars
<1>7. QED
  BY <1>1, <1>2, <1>3, <1>4, <1>5, <1>6 DEF Next, SimStep

\* A hit is reported with the position of its first breakpoint: the breakpoints
\* handed out together are at one source position, under the debugger too.
THEOREM DebuggerOneLocation == Spec => []BatchOneLocation
<1>1. Init => BatchOneLocation
  BY DEF Init, SchedulerInit, BatchOneLocation
<1>2. DebuggerInv /\ BatchOneLocation /\ [Next]_vars => BatchOneLocation'
  <2> SUFFICES ASSUME DebuggerInv, BatchOneLocation, [Next]_vars PROVE BatchOneLocation'
    OBVIOUS
  <2>1. CASE batch' = batch
    BY <2>1 DEF BatchOneLocation
  <2>2. CASE Fetch
    BY <2>2, InvParts, NextLocation DEF Fetch
  <2>3. QED
    BY <2>1, <2>2, BatchFrame DEF vars, svars
<1>3. QED
  BY InitDebugger, DebuggerStep, <1>1, <1>2, PTL DEF Spec

\* The search of add_breakpoint for the entry of an inserted id finds one, under
\* every interleaving of the debugger's threads.
THEOREM DebuggerInsertedTracked == Spec => []InsertedTracked
<1>1. DebuggerInv => InsertedTracked
  BY DEF DebuggerInv
<1>2. QED
  BY InitDebugger, DebuggerStep, <1>1, PTL DEF Spec

-----------------------------------------------------------------------------
(* What the calls do to the list                                           *)

\* The same ids at the same positions.
SameIds(s, t) == DOMAIN t = DOMAIN s /\ \A i \in DOMAIN s : t[i].id = s[i].id

\* No id has two entries.
Distinct(s) == \A i, j \in DOMAIN s : s[i].id = s[j].id => i = j

\* The entries that are left are the ones outside D, in their old order.
LEMMA SurvivorsOrder ==
  ASSUME NEW s \in Seq(Entry), NEW t \in Seq(Entry), SameIds(s, t),
         NEW D, NEW f \in Survivors(s, D)
  PROVE  /\ Pick(t, f) \in Seq(Entry)
         /\ DOMAIN Pick(t, f) = DOMAIN f /\ DOMAIN f \subseteq Nat
         /\ \A k \in DOMAIN f : f[k] \in DOMAIN s \ D /\ f[k] \in Nat /\ Pick(t, f)[k] = t[f[k]]
         /\ \A j, k \in DOMAIN f : j < k => f[j] < f[k]
         /\ \A i \in DOMAIN s \ D : \E k \in DOMAIN f : f[k] = i
<1>1. PICK n \in 0..Len(s) : f \in [1..n -> DOMAIN s]
  BY DEF Survivors
<1>2. /\ \A j, k \in DOMAIN f : j < k => f[j] < f[k]
      /\ \A i \in DOMAIN s : i \notin D <=> \E k \in DOMAIN f : f[k] = i
  BY DEF Survivors
<1>3. DOMAIN s \subseteq Nat /\ Len(s) \in Nat
  BY LenProperties
<1>4. Pick(t, f) \in Seq(Entry)
  BY ErasedList DEF SameIds
<1>5. QED
  BY <1>1, <1>2, <1>3, <1>4 DEF Pick

\* Erasing keeps a list without duplicates that way.
LEMMA EraseDistinct ==
  ASSUME NEW s \in Seq(Entry), NEW t \in Seq(Entry), SameIds(s, t),
         NEW D \in SUBSET DOMAIN s, NEW f \in Survivors(s, D), Distinct(s)
  PROVE  /\ Distinct(Pick(t, f))
         /\ Ids(Pick(t, f)) = Ids(s) \ {s[i].id : i \in D}
<1>1. /\ DOMAIN Pick(t, f) = DOMAIN f /\ DOMAIN f \subseteq Nat
      /\ \A k \in DOMAIN f : f[k] \in DOMAIN s \ D /\ f[k] \in Nat /\ Pick(t, f)[k] = t[f[k]]
      /\ \A j, k \in DOMAIN f : j < k => f[j] < f[k]
      /\ \A i \in DOMAIN s \ D : \E k \in DOMAIN f : f[k] = i
  BY SurvivorsOrder
<1>2. \A k \in DOMAIN f : Pick(t, f)[k].id = s[f[k]].id
  BY <1>1 DEF SameIds
<1>3. \A j, k \in DOMAIN f : f[j] = f[k] => j = k
  BY <1>1
<1>4. Distinct(Pick(t, f))
  BY <1>1, <1>2, <1>3 DEF Distinct
<1>5. ASSUME NEW id \in Ids(Pick(t, f)) PROVE id \in Ids(s) \ {s[i].id : i \in D}
  <2>1. PICK k \in DOMAIN f : id = s[f[k]].id
    BY <1>1, <1>2 DEF Ids
  <2>2. f[k] \in DOMAIN s /\ f[k] \notin D
    BY <1>1
  <2>3. QED
    BY <2>1, <2>2 DEF Ids, Distinct
<1>6. ASSUME NEW id \in Ids(s) \ {s[i].id : i \in D} PROVE id \in Ids(Pick(t, f))
  <2>1. PICK i \in DOMAIN s : id = s[i].id
    BY DEF Ids
  <2>2. PICK k \in DOMAIN f : f[k] = i
    BY <1>1, <2>1
  <2>3. QED
    BY <1>1, <1>2, <2>1, <2>2 DEF Ids
<1>7. QED
  BY <1>4, <1>5, <1>6

\* Erasing keeps the execution order.
LEMMA EraseSorted ==
  ASSUME NEW s \in Seq(Entry), NEW t \in Seq(Entry), SameIds(s, t),
         NEW D, NEW f \in Survivors(s, D), Sorted(s)
  PROVE  Sorted(Pick(t, f))
<1>1. /\ DOMAIN Pick(t, f) = DOMAIN f
      /\ \A k \in DOMAIN f : f[k] \in DOMAIN s /\ Pick(t, f)[k] = t[f[k]]
      /\ \A j, k \in DOMAIN f : j < k => f[j] < f[k]
  BY SurvivorsOrder
<1>2. \A k \in DOMAIN f : Pick(t, f)[k].id = s[f[k]].id
  BY <1>1 DEF SameIds
<1>3. QED
  BY <1>1, <1>2 DEF Sorted

\* A list with the same ids is as ordered and as free of duplicates.
LEMMA SameIdsKept ==
  ASSUME NEW s, NEW t, SameIds(s, t)
  PROVE  /\ Ids(t) = Ids(s)
         /\ Distinct(s) => Distinct(t)
         /\ Sorted(s) => Sorted(t)
<1>1. Ids(t) = Ids(s)
  BY DEF SameIds, Ids
<1>2. Distinct(s) => Distinct(t)
  BY DEF SameIds, Distinct
<1>3. Sorted(s) => Sorted(t)
  BY DEF SameIds, Sorted
<1>4. QED
  BY <1>1, <1>2, <1>3

\* Unsetting the flags keeps the ids.
LEMMA ClearedIds ==
  ASSUME NEW s \in Seq(Entry)
  PROVE  /\ Cleared(s) \in Seq(Entry) /\ SameIds(s, Cleared(s))
         /\ \A i \in DOMAIN s : ~Cleared(s)[i].evaluated
<1>1. \A i \in DOMAIN s : s[i] \in Entry
  BY ElementOfSeq, LenProperties
<1>2. QED
  BY <1>1, ClearedType DEF SameIds, Cleared, Entry

\* The same ids and the same evaluated flags at the same positions.
SameFlags(s, t) ==
    SameIds(s, t) /\ \A i \in DOMAIN s : t[i].evaluated = s[i].evaluated

\* add_breakpoint rewrites an entry, or appends entries that are not evaluated
\* for an id that had none.
LEMMA AddList ==
  ASSUME Inv, NEW id \in BpId, NEW c \in Cond, AddNormal(id, c)
  PROVE  /\ UNCHANGED <<current, mode, single, batch, fault>>
         /\ \/ UNCHANGED inserted /\ SameFlags(breakpoints, breakpoints')
            \/ /\ id \notin inserted /\ inserted' = inserted \cup {id}
               /\ \E new \in Seq(Entry) :
                     /\ breakpoints' = breakpoints \o new
                     /\ Len(new) = Len(NsOf[id])
                     /\ \A k \in DOMAIN new : new[k].id = id /\ ~new[k].evaluated
<1>1. UNCHANGED <<current, mode, single, batch, fault>>
  BY DEF AddNormal, InsertNormal, UpdateNormal
<1>2. \A i \in DOMAIN breakpoints : breakpoints[i] \in Entry
  BY ElementOfSeq, LenProperties DEF Inv, SchedulerTypeOK
<1>3. CASE UNCHANGED <<breakpoints, inserted>>
  BY <1>1, <1>3 DEF SameFlags, SameIds
<1>4. CASE InsertNormal(id, c) /\ Correct(id, c)
  <2> DEFINE new == NewEntries(id, "normal", c, NoVar)
  <2>1. NsOf[id] \in Seq(Ns) /\ DbCond[id] \in Cond
    BY SchedulerAssumption
  <2>2. /\ new \in [DOMAIN NsOf[id] -> Entry]
        /\ \A k \in DOMAIN NsOf[id] : new[k].id = id /\ ~new[k].evaluated
    <3>1. "normal" \in Flag
      BY DEF Flag
    <3>2. ASSUME NEW k \in DOMAIN NsOf[id]
          PROVE  new[k] \in Entry /\ new[k].id = id /\ ~new[k].evaluated
      BY <2>1, <3>1, ElementOfSeq, NewEntryType DEF NewEntries, NewEntry
    <3>3. QED
      BY <3>2 DEF NewEntries
  <2>3. new \in Seq(Entry) /\ DOMAIN new = DOMAIN NsOf[id]
    BY <2>1, <2>2, MapType
  <2>4. breakpoints' = breakpoints \o new /\ id \notin inserted
        /\ inserted' = IF NsOf[id] = <<>> THEN inserted ELSE inserted \cup {id}
    BY <1>4 DEF InsertNormal
  <2> HIDE DEF new
  <2>5. Len(new) = Len(NsOf[id])
    BY <2>1, <2>3, LenProperties
  <2>6. CASE NsOf[id] = <<>>
    <3>1. new = <<>>
      BY <2>3, <2>5, <2>6, EmptySeq
    <3>2. breakpoints' = breakpoints
      BY <2>4, <3>1, ConcatEmptySeq DEF Inv, SchedulerTypeOK
    <3>3. QED
      BY <1>3, <2>4, <2>6, <3>2
  <2>7. CASE NsOf[id] # <<>>
    BY <1>1, <2>2, <2>3, <2>4, <2>5, <2>7
  <2>8. QED
    BY <2>6, <2>7
<1>5. CASE InsertNormal(id, c) /\ ~Correct(id, c)
  BY <1>3, <1>5 DEF InsertNormal
<1>6. CASE UpdateNormal(id, c)
  <2>1. ASSUME NEW i \in DOMAIN breakpoints,
               breakpoints' = [breakpoints EXCEPT ![i].expr = c,
                                                  ![i].type = @ \cup {"normal"}]
        PROVE  SameFlags(breakpoints, breakpoints')
    BY <1>2, <2>1 DEF SameFlags, SameIds, Entry
  <2>2. QED
    BY <1>1, <1>3, <1>6, <2>1 DEF UpdateNormal
<1>7. QED
  BY <1>4, <1>5, <1>6 DEF AddNormal

\* remove_breakpoint rewrites an entry, or erases the first one of the id.
LEMMA RemoveList ==
  ASSUME Inv, NEW id \in BpId, NEW flag \in Flag, RemoveFlag(id, flag)
  PROVE  /\ UNCHANGED <<current, mode, single, batch, fault>>
         /\ \/ UNCHANGED inserted /\ SameFlags(breakpoints, breakpoints')
            \/ /\ inserted' = inserted \ {id}
               /\ \E i \in DOMAIN breakpoints :
                     /\ breakpoints[i].id = id
                     /\ \E f \in Survivors(breakpoints, {i}) :
                           breakpoints' = Pick(breakpoints, f)
<1>1. \A i \in DOMAIN breakpoints : breakpoints[i] \in Entry
  BY ElementOfSeq, LenProperties DEF Inv, SchedulerTypeOK
<1>2. ASSUME NEW i \in DOMAIN breakpoints,
             breakpoints' = [breakpoints EXCEPT ![i].type = @ \ {flag}]
      PROVE  SameFlags(breakpoints, breakpoints')
  BY <1>1, <1>2 DEF SameFlags, SameIds, Entry
<1>3. CASE UNCHANGED <<breakpoints, inserted>>
  BY <1>3 DEF SameFlags, SameIds, RemoveFlag
<1>4. QED
  BY <1>2, <1>3 DEF RemoveFlag

\* start_breakpoint_evaluation erases entries and unsets the flags of the others.
LEMMA StartList ==
  ASSUME Inv, Start
  PROVE  /\ UNCHANGED <<mode, single, batch, fault>> /\ current' = NoBp
         /\ \A i \in DOMAIN breakpoints' : ~breakpoints'[i].evaluated
         /\ \E D \in SUBSET DOMAIN breakpoints, t \in Seq(Entry) :
               /\ SameIds(breakpoints, t)
               /\ \A i \in D : breakpoints[i].type = {"assert"} /\ breakpoints[i].evaluated
               /\ inserted' = inserted \ {breakpoints[i].id : i \in D}
               /\ \E f \in Survivors(breakpoints, D) : breakpoints' = Cleared(Pick(t, f))
<1> USE DEF Inv, SchedulerTypeOK
<1> DEFINE hit == {i \in DOMAIN breakpoints :
                      /\ breakpoints[i].id \in inserted
                      /\ IsFirst(breakpoints, i)
                      /\ "assert" \in breakpoints[i].type
                      /\ breakpoints[i].evaluated}
           gone == {i \in hit : breakpoints[i].type = {"assert"}}
           kept == [i \in DOMAIN breakpoints |->
                       [breakpoints[i] EXCEPT
                           !.type = IF i \in hit \ gone THEN @ \ {"assert"} ELSE @]]
<1>1. \A j \in DOMAIN breakpoints : breakpoints[j] \in Entry
  BY ElementOfSeq
<1>2. kept \in [DOMAIN breakpoints -> Entry]
      /\ \A j \in DOMAIN breakpoints : kept[j].id = breakpoints[j].id
  <2>1. ASSUME NEW i \in hit \ gone
        PROVE  breakpoints[i].type \ {"assert"} \in (SUBSET Flag) \ {{}}
    <3>1. /\ breakpoints[i].type \in (SUBSET Flag) \ {{}}
          /\ "assert" \in breakpoints[i].type
          /\ breakpoints[i].type # {"assert"}
      BY <1>1, <2>1 DEF Entry
    <3>2. QED
      BY <3>1, DropFlag
  <2>2. QED
    BY <1>1, <2>1 DEF Entry
<1>3. PICK f \in Survivors(breakpoints, gone) : breakpoints' = Cleared(Pick(kept, f))
  BY DEF Start
<1>4. /\ inserted' = inserted \ {breakpoints[i].id : i \in gone}
      /\ current' = NoBp /\ UNCHANGED <<mode, single, batch, fault>>
  BY DEF Start
<1>5. /\ gone \in SUBSET DOMAIN breakpoints
      /\ \A i \in gone : breakpoints[i].type = {"assert"} /\ breakpoints[i].evaluated
  OBVIOUS
<1> HIDE DEF kept, gone, hit
<1>6. kept \in Seq(Entry) /\ SameIds(breakpoints, kept)
  BY <1>2, RewriteKeepsIds DEF SameIds
<1>7. Pick(kept, f) \in Seq(Entry)
  BY <1>3, <1>6, SurvivorsOrder
<1>8. \A i \in DOMAIN breakpoints' : ~breakpoints'[i].evaluated
  BY <1>3, <1>7, ClearedIds DEF SameIds
<1>9. QED
  BY <1>3, <1>4, <1>5, <1>6, <1>8

\* next_breakpoints only marks entries as evaluated.
LEMMA NextList ==
  ASSUME Inv, NextBreakpoints
  PROVE  /\ UNCHANGED <<inserted, mode, single>>
         /\ SameIds(breakpoints, breakpoints')
<1>1. \A j \in DOMAIN breakpoints : Evaluated(breakpoints[j]).id = breakpoints[j].id
  <2>1. \A j \in DOMAIN breakpoints : breakpoints[j] \in Entry
    BY ElementOfSeq, LenProperties DEF Inv, SchedulerTypeOK
  <2>2. QED
    BY <2>1 DEF Evaluated, Entry
<1>2. ASSUME NEW I, HandOut(I) PROVE SameIds(breakpoints, breakpoints')
  BY <1>1, <1>2 DEF HandOut, SameIds
<1>3. CASE UNCHANGED <<breakpoints, inserted, mode, single>>
  BY <1>3 DEF SameIds
<1>4. CASE NextNormal
  <2>1. UNCHANGED <<inserted, mode, single>>
    BY <1>4, Zenon DEF NextNormal, NothingNext
  <2>2. UNCHANGED breakpoints \/ \E I : HandOut(I)
    BY <1>4, Zenon DEF NextNormal, NothingNext
  <2>3. QED
    BY <1>2, <2>1, <2>2 DEF SameIds
<1>5. CASE NextReverse
  <2>1. UNCHANGED <<inserted, mode, single>>
    BY <1>5, Zenon DEF NextReverse, NothingNext
  <2>2. SameIds(breakpoints, breakpoints')
    <3>1. UNCHANGED breakpoints \/ \E I : HandOut(I)
      BY <1>5, Zenon DEF NextReverse, NothingNext
    <3>2. QED
      BY <1>2, <3>1 DEF SameIds
  <2>3. QED
    BY <2>1, <2>2
<1>6. CASE NextStepOver \/ NextStepBack \/ NothingNext
  <2>1. UNCHANGED <<breakpoints, inserted, mode, single>>
    BY <1>6, Zenon DEF NextStepOver, NextStepBack, NothingNext, StepTo
  <2>2. QED
    BY <1>3, <2>1
<1>7. QED
  BY <1>4, <1>5, <1>6 DEF NextBreakpoints

\* reorder_breakpoints permutes the entries.
LEMMA ReorderList ==
  ASSUME Inv, Reorder
  PROVE  /\ UNCHANGED <<inserted, current, mode, single, batch, fault>>
         /\ Sorted(breakpoints')
         /\ DOMAIN breakpoints' = DOMAIN breakpoints
         /\ \E p \in [DOMAIN breakpoints -> DOMAIN breakpoints] :
               /\ \A k \in DOMAIN breakpoints : breakpoints'[k] = breakpoints[p[k]]
               /\ \A i, j \in DOMAIN breakpoints : p[i] = p[j] => i = j
               /\ \A i \in DOMAIN breakpoints : \E k \in DOMAIN breakpoints : p[k] = i
<1>1. PICK p \in [DOMAIN breakpoints -> DOMAIN breakpoints] :
         /\ \A i, j \in DOMAIN breakpoints : p[i] = p[j] => i = j
         /\ Sorted(Pick(breakpoints, p))
         /\ breakpoints' = Pick(breakpoints, p)
  BY DEF Reorder
<1> DEFINE n == Len(breakpoints)
<1>2. DOMAIN breakpoints = 1..n /\ n \in Nat
  BY LenProperties DEF Inv, SchedulerTypeOK
<1> HIDE DEF n
<1>3. /\ DOMAIN breakpoints' = 1..n
      /\ \A k \in 1..n : breakpoints'[k] = breakpoints[p[k]]
  BY <1>1, <1>2, PickType DEF Inv, SchedulerTypeOK
<1>4. \A i \in 1..n : \E k \in 1..n : p[k] = i
  <2>1. IsFiniteSet(1..n)
    BY <1>2, FS_Interval
  <2>2. p \in Injection(1..n, 1..n)
    BY <1>1, <1>2, Fun_IsInj
  <2>3. p \in Surjection(1..n, 1..n)
    BY <2>1, <2>2, FS_Injection
  <2>4. QED
    BY <2>3 DEF Surjection
<1>5. Sorted(breakpoints') /\ UNCHANGED <<inserted, current, mode, single, batch, fault>>
  BY <1>1 DEF Reorder
<1>6. /\ DOMAIN breakpoints' = DOMAIN breakpoints
      /\ \A k \in DOMAIN breakpoints : breakpoints'[k] = breakpoints[p[k]]
      /\ \A i \in DOMAIN breakpoints : \E k \in DOMAIN breakpoints : p[k] = i
  BY <1>2, <1>3, <1>4
<1>7. QED
  BY <1>1, <1>5, <1>6, Zenon

\* Sorting a list without duplicates leaves one with the same ids.
LEMMA ReorderDistinct ==
  ASSUME Inv, Reorder, Distinct(breakpoints)
  PROVE  Distinct(breakpoints') /\ Ids(breakpoints') = Ids(breakpoints)
<1>1. DOMAIN breakpoints' = DOMAIN breakpoints
  BY ReorderList
<1>2. PICK p \in [DOMAIN breakpoints -> DOMAIN breakpoints] :
         /\ \A k \in DOMAIN breakpoints : breakpoints'[k] = breakpoints[p[k]]
         /\ \A i, j \in DOMAIN breakpoints : p[i] = p[j] => i = j
         /\ \A i \in DOMAIN breakpoints : \E k \in DOMAIN breakpoints : p[k] = i
  BY ReorderList
<1>3. Distinct(breakpoints')
  BY <1>1, <1>2 DEF Distinct
<1>4. \A id \in Ids(breakpoints') : id \in Ids(breakpoints)
  BY <1>1, <1>2 DEF Ids
<1>5. \A id \in Ids(breakpoints) : id \in Ids(breakpoints')
  BY <1>1, <1>2 DEF Ids
<1>6. QED
  BY <1>3, <1>4, <1>5

-----------------------------------------------------------------------------
(* Every breakpoint is in the list once                                    *)

OneNamespace == \A id \in BpId : Len(NsOf[id]) = 1

\* The parts of InsertedOnce.
LEMMA OnceParts ==
  /\ InsertedOnce <=> Ids(breakpoints) = inserted /\ Distinct(breakpoints)
  /\ InsertedOnce' <=> Ids(breakpoints') = inserted' /\ Distinct(breakpoints')
  BY DEF InsertedOnce, Distinct

\* A list with the same ids is as good.
LEMMA OnceSameIds ==
  ASSUME InsertedOnce, UNCHANGED inserted, SameIds(breakpoints, breakpoints')
  PROVE  InsertedOnce'
  BY SameIdsKept, OnceParts

\* An id that is not inserted is appended once.
LEMMA OnceAdd ==
  ASSUME Inv, InsertedOnce, OneNamespace, NEW id \in BpId, NEW c \in Cond, AddNormal(id, c)
  PROVE  InsertedOnce'
<1>1. CASE UNCHANGED inserted /\ SameFlags(breakpoints, breakpoints')
  BY <1>1, OnceSameIds DEF SameFlags
<1>2. ASSUME id \notin inserted, inserted' = inserted \cup {id},
             NEW new \in Seq(Entry), breakpoints' = breakpoints \o new,
             Len(new) = Len(NsOf[id]),
             \A k \in DOMAIN new : new[k].id = id /\ ~new[k].evaluated
      PROVE  InsertedOnce'
  <2> DEFINE n == Len(breakpoints)
  <2>1. n \in Nat /\ DOMAIN breakpoints = 1..n
    BY LenProperties DEF Inv, SchedulerTypeOK
  <2>2. Len(new) = 1 /\ DOMAIN new = 1..1
    BY <1>2, LenProperties DEF OneNamespace
  <2>3. /\ DOMAIN breakpoints' = 1..(n + 1)
        /\ \A i \in 1..n : breakpoints'[i] = breakpoints[i]
        /\ breakpoints'[n + 1].id = id
    <3>1. /\ breakpoints' \in Seq(Entry)
          /\ Len(breakpoints') = n + 1
          /\ \A i \in 1..(n + 1) : breakpoints'[i] =
                IF i <= n THEN breakpoints[i] ELSE new[i - n]
      BY <1>2, <2>2, ConcatProperties DEF Inv, SchedulerTypeOK
    <3>2. DOMAIN breakpoints' = 1..(n + 1)
      BY <3>1, LenProperties
    <3> HIDE DEF n
    <3>3. breakpoints'[n + 1] = new[1]
      BY <2>1, <3>1
    <3>4. QED
      BY <1>2, <2>1, <2>2, <3>1, <3>2, <3>3
  <2> HIDE DEF n
  <2>4. \A i \in 1..n : breakpoints[i].id # id
    BY <1>2, <2>1 DEF InsertedOnce, Ids
  <2>5. Distinct(breakpoints')
    BY <2>1, <2>3, <2>4, OnceParts DEF Distinct
  <2>6. Ids(breakpoints') = Ids(breakpoints) \cup {id}
    <3>1. \A x \in Ids(breakpoints') : x \in Ids(breakpoints) \cup {id}
      BY <2>1, <2>3 DEF Ids
    <3>2. \A x \in Ids(breakpoints) \cup {id} : x \in Ids(breakpoints')
      <4>1. id \in Ids(breakpoints')
        BY <2>1, <2>3 DEF Ids
      <4>2. ASSUME NEW i \in 1..n PROVE breakpoints[i].id \in Ids(breakpoints')
        BY <2>1, <2>3 DEF Ids
      <4>3. QED
        BY <2>1, <4>1, <4>2 DEF Ids
    <3>3. QED
      BY <3>1, <3>2
  <2>7. QED
    BY <1>2, <2>5, <2>6, OnceParts
<1>3. QED
  BY <1>1, <1>2, AddList

\* remove_breakpoint takes the only entry of the id with it.
LEMMA OnceRemove ==
  ASSUME Inv, InsertedOnce, NEW id \in BpId, NEW flag \in Flag, RemoveFlag(id, flag)
  PROVE  InsertedOnce'
<1>1. CASE UNCHANGED inserted /\ SameFlags(breakpoints, breakpoints')
  BY <1>1, OnceSameIds DEF SameFlags
<1>2. ASSUME inserted' = inserted \ {id}, NEW i \in DOMAIN breakpoints,
             breakpoints[i].id = id, NEW f \in Survivors(breakpoints, {i}),
             breakpoints' = Pick(breakpoints, f)
      PROVE  InsertedOnce'
  <2>1. breakpoints \in Seq(Entry) /\ SameIds(breakpoints, breakpoints)
    BY DEF Inv, SchedulerTypeOK, SameIds
  <2>2. {i} \in SUBSET DOMAIN breakpoints /\ Distinct(breakpoints)
    BY OnceParts
  <2>3. /\ Distinct(Pick(breakpoints, f))
        /\ Ids(Pick(breakpoints, f)) = Ids(breakpoints) \ {breakpoints[j].id : j \in {i}}
    BY <2>1, <2>2, EraseDistinct
  <2>4. {breakpoints[j].id : j \in {i}} = {id}
    BY <1>2
  <2>5. QED
    BY <1>2, <2>3, <2>4, OnceParts
<1>3. QED
  BY <1>1, <1>2, RemoveList

\* start_breakpoint_evaluation erases an id with its only entry.
LEMMA OnceStart ==
  ASSUME Inv, InsertedOnce, Start
  PROVE  InsertedOnce'
<1>1. PICK D \in SUBSET DOMAIN breakpoints, t \in Seq(Entry) :
         /\ SameIds(breakpoints, t)
         /\ inserted' = inserted \ {breakpoints[i].id : i \in D}
         /\ \E f \in Survivors(breakpoints, D) : breakpoints' = Cleared(Pick(t, f))
  BY StartList, Zenon
<1>2. PICK f \in Survivors(breakpoints, D) : breakpoints' = Cleared(Pick(t, f))
  BY <1>1
<1>3. breakpoints \in Seq(Entry) /\ Distinct(breakpoints)
  BY OnceParts DEF Inv, SchedulerTypeOK
<1>4. /\ Distinct(Pick(t, f)) /\ Pick(t, f) \in Seq(Entry)
      /\ Ids(Pick(t, f)) = Ids(breakpoints) \ {breakpoints[i].id : i \in D}
  <2>1. SameIds(breakpoints, t) /\ f \in Survivors(breakpoints, D)
    BY <1>1, <1>2
  <2>2. Pick(t, f) \in Seq(Entry)
    BY <1>3, <2>1, SurvivorsOrder
  <2>3. QED
    BY <1>3, <2>1, <2>2, EraseDistinct
<1>5. Distinct(breakpoints') /\ Ids(breakpoints') = Ids(Pick(t, f))
  BY <1>2, <1>4, ClearedIds, SameIdsKept
<1>6. QED
  BY <1>1, <1>4, <1>5, OnceParts

\* Every step but a failing assertion keeps every breakpoint in the list once.
LEMMA OnceStep ==
  ASSUME DebuggerInv, InsertedOnce, OneNamespace, Next, ~Assertion
  PROVE  InsertedOnce'
<1>1. Inv /\ TodoOK
  BY InvParts
<1>2. CASE UNCHANGED <<breakpoints, inserted>>
  BY <1>2 DEF InsertedOnce
<1>3. CASE Request
  BY <1>2, <1>3, RequestFrame DEF svars
<1>4. CASE Resume \/ ClockEdge \/ FreeRun \/ Finish \/ Finished
  BY <1>2, <1>4 DEF Resume, ClockEdge, FreeRun, Finish, Finished, vars, svars
<1>5. CASE Evaluate \/ Report
  BY <1>2, <1>5, EvaluateStep DEF svars
<1>6. CASE StartEvaluation
  BY <1>1, <1>6, OnceStart DEF StartEvaluation
<1>7. CASE Fetch
  BY <1>1, <1>7, NextList, OnceSameIds DEF Fetch
<1>8. CASE ServeAdd
  <2>1. PICK id \in Head(todo).ids : AddNormal(id, Head(todo).cond)
    BY <1>8 DEF ServeAdd
  <2>2. Head(todo) \in CallType /\ Head(todo).op = "add"
    BY <1>1, <1>8, HeadTodo DEF ServeAdd, Calling
  <2>3. id \in BpId /\ Head(todo).cond \in Cond
    BY <2>1, <2>2 DEF CallType
  <2>4. QED
    BY <1>1, <2>1, <2>3, OnceAdd
<1>9. CASE ServeRemove
  <2>1. PICK id \in Head(todo).ids : RemoveFlag(id, "normal")
    BY <1>9 DEF ServeRemove
  <2>2. Head(todo) \in CallType /\ Head(todo).op = "remove"
    BY <1>1, <1>9, HeadTodo DEF ServeRemove, Calling
  <2>3. id \in BpId /\ "normal" \in Flag
    BY <2>1, <2>2 DEF CallType, Flag
  <2>4. QED
    BY <1>1, <2>1, <2>3, OnceRemove
<1>10. CASE ServeReorder
  BY <1>1, <1>10, ReorderDistinct, ReorderList, OnceParts DEF ServeReorder
<1>11. CASE ServeClear
  <2>1. breakpoints' = <<>> /\ inserted' = {}
    BY <1>11 DEF ServeClear, ClearAll
  <2>2. QED
    BY <2>1 DEF InsertedOnce, Ids
<1>12. CASE ServeMode
  <2>1. CASE UnsetFlags
    BY <1>1, <2>1, ClearedIds, OnceSameIds DEF UnsetFlags, Inv, SchedulerTypeOK
  <2>2. QED
    BY <1>2, <1>12, <2>1 DEF ServeMode, svars
<1>13. CASE \/ ServeAssign \/ ServeReady \/ ServeSingle \/ ServePause \/ ServeFinish
            \/ ServeUnregister \/ ServeRelease
  BY <1>2, <1>13 DEF ServeAssign, ServeReady, ServeSingle, ServePause, ServeFinish,
                     ServeUnregister, ServeRelease, AssignMode, SetSingle, svars
<1>14. QED
  BY <1>3, <1>4, <1>5, <1>6, <1>7, <1>8, <1>9, <1>10, <1>11, <1>12, <1>13
  DEF Next, SimStep, ServerStep

\* With one namespace and no assertions a breakpoint that is inserted is in the
\* list exactly once, and the scheduler knows it: for every symbol table, every
\* set of requests and every interleaving.
THEOREM BreakpointsListedOnce ==
  ASSUME OneNamespace, Asserts = {}
  PROVE  Spec => []InsertedOnce
<1>1. Init => InsertedOnce
  BY DEF Init, SchedulerInit, InsertedOnce, Ids
<1>2. DebuggerInv /\ InsertedOnce /\ [Next]_vars => InsertedOnce'
  <2>1. ~Assertion
    BY DEF Assertion
  <2>2. InsertedOnce /\ UNCHANGED vars => InsertedOnce'
    BY DEF vars, svars, InsertedOnce
  <2>3. QED
    BY <2>1, <2>2, OnceStep
<1>3. QED
  BY InitDebugger, DebuggerStep, <1>1, <1>2, PTL DEF Spec

-----------------------------------------------------------------------------
(* The list is in execution order between requests                         *)

SortPending(calls) == \E k \in DOMAIN calls : calls[k].op = "reorder"

\* The list is in order unless the request being handled will still sort it.
SortInv == Sorts(todo) /\ (Sorted(breakpoints) \/ SortPending(todo))

\* A sort stays in the list of calls until it is made, and an insertion leaves
\* the one that follows it.
LEMMA SortsKept ==
  ASSUME TodoOK, Sorts(todo), ServerStep
  PROVE  /\ Sorts(todo')
         /\ SortPending(todo) /\ Head(todo).op # "reorder" => SortPending(todo')
         /\ Head(todo).op = "add" => SortPending(todo')
<1>1. /\ todo # <<>> /\ 1 \in DOMAIN todo /\ Head(todo) = todo[1]
      /\ DOMAIN Tail(todo) = 1..(Len(todo) - 1)
      /\ \A k \in DOMAIN Tail(todo) : k + 1 \in DOMAIN todo /\ Tail(todo)[k] = todo[k + 1]
  BY ServerTodo, HeadTodo
<1>2. DOMAIN todo = 1..Len(todo) /\ Len(todo) \in Nat
  BY LenProperties DEF TodoOK
<1>3. CASE todo' = Tail(todo)
  <2>1. \A k \in DOMAIN todo : k # 1 => k - 1 \in DOMAIN todo' /\ todo'[k - 1] = todo[k]
    BY <1>1, <1>2, <1>3
  <2>2. Sorts(todo')
    BY <1>1, <1>2, <1>3, <2>1 DEF Sorts
  <2>3. Head(todo).op = "add" => SortPending(todo')
    <3>1. Head(todo).op = "add" => 2 \in DOMAIN todo /\ todo[2].op = "reorder"
      BY <1>1 DEF Sorts
    <3>2. 2 \in DOMAIN todo => 1 \in DOMAIN todo' /\ todo'[1] = todo[2]
      BY <2>1
    <3>3. QED
      BY <3>1, <3>2 DEF SortPending
  <2>4. SortPending(todo) /\ Head(todo).op # "reorder" => SortPending(todo')
    BY <1>1, <2>1 DEF SortPending
  <2>5. QED
    BY <2>2, <2>3, <2>4
<1>4. ASSUME NEW r \in CallType, todo' = [todo EXCEPT ![1] = r],
             \/ r.op = Head(todo).op /\ r.op \in {"add", "remove"}
             \/ Head(todo).op = "mode" /\ r.op = "assign"
      PROVE  /\ Sorts(todo')
             /\ SortPending(todo) /\ Head(todo).op # "reorder" => SortPending(todo')
             /\ Head(todo).op = "add" => SortPending(todo')
  <2>1. /\ DOMAIN todo' = DOMAIN todo /\ todo'[1] = r
        /\ \A k \in DOMAIN todo : k # 1 => todo'[k] = todo[k]
    BY <1>1, <1>4, ReplaceHead
  <2>2. \A k \in DOMAIN todo : k + 1 # 1
    BY <1>2
  <2>3. Sorts(todo')
    BY <1>1, <1>4, <2>1, <2>2 DEF Sorts
  <2>4. SortPending(todo) /\ Head(todo).op # "reorder" => SortPending(todo')
    BY <1>1, <2>1 DEF SortPending
  <2>5. Head(todo).op = "add" => SortPending(todo')
    BY <1>1, <2>1, <2>2 DEF Sorts, SortPending
  <2>6. QED
    BY <2>3, <2>4, <2>5
<1>5. QED
  BY <1>3, <1>4, ServerTodo

\* Every call but an insertion keeps the list in order, and the sort sorts it.
LEMMA ServerSorted ==
  ASSUME Inv, TodoOK, ServerStep
  PROVE  /\ Sorted(breakpoints) /\ Head(todo).op # "add" => Sorted(breakpoints')
         /\ Head(todo).op = "reorder" => Sorted(breakpoints')
<1>1. CASE ServeAdd
  BY <1>1 DEF ServeAdd, Calling
<1>2. CASE ServeRemove
  <2>1. PICK id \in Head(todo).ids : RemoveFlag(id, "normal")
    BY <1>2 DEF ServeRemove
  <2>2. Head(todo) \in CallType /\ Head(todo).op = "remove"
    BY <1>2, HeadTodo DEF ServeRemove, Calling
  <2>3. id \in BpId /\ "normal" \in Flag
    BY <2>1, <2>2 DEF CallType, Flag
  <2>4. breakpoints \in Seq(Entry) /\ SameIds(breakpoints, breakpoints)
    BY DEF Inv, SchedulerTypeOK, SameIds
  <2>5. CASE SameFlags(breakpoints, breakpoints')
    BY <2>2, <2>5, SameIdsKept DEF SameFlags
  <2>6. ASSUME NEW i \in DOMAIN breakpoints, NEW f \in Survivors(breakpoints, {i}),
               breakpoints' = Pick(breakpoints, f)
        PROVE  Sorted(breakpoints) => Sorted(breakpoints')
    BY <2>4, <2>6, EraseSorted
  <2>7. QED
    BY <2>1, <2>2, <2>3, <2>5, <2>6, RemoveList
<1>3. CASE ServeReorder
  BY <1>3, ReorderList DEF ServeReorder
<1>4. CASE ServeClear
  <2>1. breakpoints' = <<>> /\ Head(todo).op = "clear"
    BY <1>4 DEF ServeClear, ClearAll, Calling
  <2>2. QED
    BY <2>1 DEF Sorted
<1>5. CASE ServeMode
  <2>1. CASE UnsetFlags
    BY <1>5, <2>1, ClearedIds, SameIdsKept DEF UnsetFlags, Inv, SchedulerTypeOK, ServeMode, Calling
  <2>2. QED
    BY <1>5, <2>1 DEF ServeMode, svars, Calling
<1>6. CASE \/ ServeAssign \/ ServeReady \/ ServeSingle \/ ServePause \/ ServeFinish
           \/ ServeUnregister \/ ServeRelease
  BY <1>6 DEF ServeAssign, ServeReady, ServeSingle, ServePause, ServeFinish,
              ServeUnregister, ServeRelease, AssignMode, SetSingle, svars, Calling
<1>7. QED
  BY <1>1, <1>2, <1>3, <1>4, <1>5, <1>6 DEF ServerStep

\* The simulation thread keeps the order, assertions apart.
LEMMA SimSorted ==
  ASSUME Inv, SimStep
  PROVE  Sorted(breakpoints) => Sorted(breakpoints')
<1>1. CASE StartEvaluation
  <2>1. PICK D \in SUBSET DOMAIN breakpoints, t \in Seq(Entry) :
           /\ SameIds(breakpoints, t)
           /\ \E f \in Survivors(breakpoints, D) : breakpoints' = Cleared(Pick(t, f))
    BY <1>1, StartList, Zenon DEF StartEvaluation
  <2>2. PICK f \in Survivors(breakpoints, D) : breakpoints' = Cleared(Pick(t, f))
    BY <2>1
  <2>3. breakpoints \in Seq(Entry) /\ SameIds(breakpoints, t)
    BY <2>1 DEF Inv, SchedulerTypeOK
  <2>4. Pick(t, f) \in Seq(Entry)
    BY <2>3, SurvivorsOrder
  <2>5. Sorted(breakpoints) => Sorted(Pick(t, f))
    BY <2>3, EraseSorted
  <2>6. QED
    BY <2>2, <2>4, <2>5, ClearedIds, SameIdsKept
<1>2. CASE Fetch
  BY <1>2, NextList, SameIdsKept DEF Fetch
<1>3. CASE Evaluate \/ Report
  BY <1>3, EvaluateStep DEF svars
<1>4. CASE Resume \/ ClockEdge \/ FreeRun \/ Finish \/ Finished
  BY <1>4 DEF Resume, ClockEdge, FreeRun, Finish, Finished, vars, svars
<1>5. QED
  BY <1>1, <1>2, <1>3, <1>4 DEF SimStep

\* Every step but a failing assertion keeps the order, or the pending sort.
LEMMA SortStep ==
  ASSUME DebuggerInv, SortInv, ~AddsUnsorted, Next, ~Assertion
  PROVE  SortInv'
<1>1. Inv /\ TodoOK /\ DebuggerTypeOK
  BY InvParts
<1>2. CASE SimStep
  BY <1>1, <1>2, SimSorted, SimType DEF SortInv
<1>3. CASE ServerStep
  BY <1>1, <1>3, ServerSorted, SortsKept DEF SortInv
<1>4. CASE Request
  <2>1. Sorted(breakpoints)
    BY <1>4, RequestFrame DEF SortInv, SortPending
  <2>2. breakpoints' = breakpoints
    BY <1>4, RequestFrame DEF svars
  <2>3. QED
    BY <1>4, <2>1, <2>2, RequestCalls DEF SortInv
<1>5. QED
  BY <1>2, <1>3, <1>4 DEF Next

\* When breakpoints are added by source position, each time with the sort, the
\* list is in execution order whenever no request is being handled: for every
\* symbol table and every interleaving of the two threads.
THEOREM ListSortedWhenIdle ==
  ASSUME ~AddsUnsorted, Asserts = {}
  PROVE  Spec => []SortedWhenIdle
<1>1. ~Assertion
  BY DEF Assertion
<1>2. Init => SortInv
  BY DEF Init, SchedulerInit, SortInv, Sorts, Sorted
<1>3. DebuggerInv /\ SortInv /\ [Next]_vars => SortInv'
  <2>1. SortInv /\ UNCHANGED vars => SortInv'
    BY DEF vars, svars, dvars, SortInv
  <2>2. QED
    BY <1>1, <2>1, SortStep
<1>4. SortInv => SortedWhenIdle
  BY DEF SortInv, SortedWhenIdle, SortPending
<1>5. QED
  BY InitDebugger, DebuggerStep, <1>2, <1>3, <1>4, PTL DEF Spec

-----------------------------------------------------------------------------
(* Patient clients: requests are handled while the simulation is parked    *)

\* The calls of detach(), the one thing that also happens while eval() runs.
Leaving(calls) ==
    \A k \in DOMAIN calls :
        /\ calls[k].op \in {"unregister", "mode", "assign", "release"}
        /\ calls[k].op \in {"mode", "assign"} => calls[k].mode = "None"

\* The call that lets the simulation run is the last of its request.
ReadyLast(calls) ==
    \A k \in DOMAIN calls : calls[k].op \in {"ready", "release"} => k = Len(calls)

\* Only the call being made has the mode half set.
AssignFirst(calls) == \A k \in DOMAIN calls : calls[k].op = "assign" => k = 1

\* While calls are left the simulation stays parked, unless they are detach()'s;
\* and a mode that is half set is not taken for a steady one.
PatientInv ==
    /\ ReadyLast(todo) /\ AssignFirst(todo)
    /\ todo # <<>> => (sim \in Parked /\ ~signal) \/ Leaving(todo)
    /\ todo # <<>> /\ todo[1].op = "assign" => ~steady \/ todo[1].mode = "None"

\* The calls that are left keep the shape of the request, nothing is left when the
\* simulation may run, and setting half a mode is not steady.
LEMMA ShapeKept ==
  ASSUME TodoOK, ReadyLast(todo), AssignFirst(todo), ServerStep
  PROVE  /\ ReadyLast(todo') /\ AssignFirst(todo')
         /\ Leaving(todo) => Leaving(todo')
         /\ Head(todo).op \in {"ready", "release"} => todo' = <<>>
         /\ todo' # <<>> /\ todo'[1].op = "assign" => ~steady'
<1>1. /\ todo # <<>> /\ 1 \in DOMAIN todo /\ Head(todo) = todo[1]
      /\ Tail(todo) \in Seq(CallType)
      /\ DOMAIN Tail(todo) = 1..(Len(todo) - 1)
      /\ \A k \in DOMAIN Tail(todo) : k + 1 \in DOMAIN todo /\ Tail(todo)[k] = todo[k + 1]
  BY ServerTodo, HeadTodo
<1>2. DOMAIN todo = 1..Len(todo) /\ Len(todo) \in Nat
  BY LenProperties DEF TodoOK
<1>3. CASE todo' = Tail(todo)
  <2>1. Len(todo') = Len(todo) - 1
    BY <1>1, <1>2, <1>3, HeadTailProperties DEF TodoOK
  <2>2. ReadyLast(todo')
    BY <1>1, <1>2, <1>3, <2>1 DEF ReadyLast
  <2>3. \A k \in DOMAIN todo' : todo'[k].op # "assign"
    BY <1>1, <1>2, <1>3 DEF AssignFirst
  <2>4. Leaving(todo) => Leaving(todo')
    BY <1>1, <1>3 DEF Leaving
  <2>5. Head(todo).op \in {"ready", "release"} => todo' = <<>>
    <3>1. ASSUME Head(todo).op \in {"ready", "release"} PROVE Len(todo') = 0
      BY <1>1, <1>2, <2>1, <3>1 DEF ReadyLast
    <3>2. QED
      BY <1>1, <1>3, <3>1, EmptySeq
  <2>6. todo' # <<>> => 1 \in DOMAIN todo'
    BY <1>1, <1>3, EmptySeq, LenProperties
  <2>7. QED
    BY <2>2, <2>3, <2>4, <2>5, <2>6 DEF AssignFirst
<1>4. ASSUME NEW r \in CallType, todo' = [todo EXCEPT ![1] = r], todo' # Tail(todo),
             \/ r.op = Head(todo).op /\ r.op \in {"add", "remove"}
             \/ Head(todo).op = "mode" /\ r.op = "assign" /\ r.mode = Head(todo).mode
      PROVE  /\ ReadyLast(todo') /\ AssignFirst(todo')
             /\ Leaving(todo) => Leaving(todo')
             /\ Head(todo).op \in {"ready", "release"} => todo' = <<>>
             /\ todo' # <<>> /\ todo'[1].op = "assign" => ~steady'
  <2>1. /\ DOMAIN todo' = DOMAIN todo /\ todo'[1] = r /\ todo' \in Seq(CallType)
        /\ \A k \in DOMAIN todo : k # 1 => todo'[k] = todo[k]
    BY <1>1, <1>4, ReplaceHead
  <2>2. Len(todo') = Len(todo)
    BY <1>2, <2>1, LenProperties
  <2>3. ReadyLast(todo')
    BY <1>1, <1>4, <2>1, <2>2 DEF ReadyLast
  <2>4. AssignFirst(todo')
    BY <1>4, <2>1 DEF AssignFirst
  <2>5. Leaving(todo) => Leaving(todo')
    BY <1>1, <1>4, <2>1 DEF Leaving
  <2>6. Head(todo).op = "mode" => ServeMode
    BY DEF ServerStep, ServeAdd, ServeRemove, ServeReorder, ServeClear, ServeMode,
           ServeAssign, ServeReady, ServeSingle, ServePause, ServeFinish,
           ServeUnregister, ServeRelease, Calling
  <2>7. r.op = "assign" => ~steady'
    BY <1>4, <2>6 DEF ServeMode, Done
  <2>8. QED
    BY <1>4, <2>1, <2>3, <2>4, <2>5, <2>7
<1>5. QED
  BY <1>3, <1>4, ServerTodo

\* The simulation thread leaves its place in lock_.wait() on a signal only.
LEMMA SimParked ==
  ASSUME SimStep \/ Assertion
  PROVE  /\ sim \in Parked /\ ~signal => sim' = sim /\ signal' = signal
         /\ steady' # steady => StartEvaluation
         /\ StartEvaluation => sim \notin Parked
<1>1. CASE Resume
  BY <1>1 DEF Resume, history, StartEvaluation, SimAt, Parked
<1>2. CASE ClockEdge \/ FreeRun \/ Finish \/ Finished
  BY <1>2 DEF ClockEdge, FreeRun, Finish, Finished, SimAt, Parked, history, vars, dvars,
              StartEvaluation
<1>3. CASE Assertion
  BY <1>3 DEF Assertion, dvars, SimAt, Parked, StartEvaluation
<1>4. CASE StartEvaluation \/ Fetch
  BY <1>4 DEF StartEvaluation, Fetch, SimAt, Parked
<1>5. CASE Evaluate \/ Report
  BY <1>5, EvaluateStep DEF history, Parked, StartEvaluation, SimAt
<1>6. QED
  BY <1>1, <1>2, <1>3, <1>4, <1>5 DEF SimStep

\* The server thread does not move the simulation thread, and signals it with the
\* last call of a request only.
LEMMA ServerParked ==
  ASSUME ServerStep
  PROVE  /\ sim' = sim
         /\ signal' # signal => Head(todo).op \in {"ready", "release"}
         /\ steady' => steady
<1>1. CASE ServeAdd \/ ServeRemove \/ ServeReorder \/ ServeClear \/ ServeAssign
  BY <1>1 DEF ServeAdd, ServeRemove, ServeReorder, ServeClear, ServeAssign, history
<1>2. CASE ServeMode \/ ServeSingle
  BY <1>2 DEF ServeMode, ServeSingle
<1>3. CASE ServeReady \/ ServePause \/ ServeFinish \/ ServeUnregister \/ ServeRelease
  BY <1>3 DEF ServeReady, ServePause, ServeFinish, ServeUnregister, ServeRelease,
              Calling, history
<1>4. QED
  BY <1>1, <1>2, <1>3 DEF ServerStep

\* Patient clients keep the simulation parked while they are served.
LEMMA PatientStep ==
  ASSUME DebuggerInv, PatientInv, Patient, [Next]_vars
  PROVE  PatientInv'
<1>1. TodoOK /\ Inv /\ DebuggerTypeOK
  BY InvParts
<1>2. CASE SimStep \/ Assertion
  <2>1. todo' = todo
    BY <1>1, <1>2, SimType
  <2>2. StartEvaluation /\ todo # <<>> => Leaving(todo)
    BY <1>2, SimParked DEF PatientInv
  <2>3. todo # <<>> => 1 \in DOMAIN todo
    BY <1>1, HeadTodo
  <2>4. StartEvaluation /\ todo # <<>> /\ todo[1].op = "assign" => todo[1].mode = "None"
    BY <2>2, <2>3 DEF Leaving
  <2>5. QED
    BY <1>2, <2>1, <2>4, SimParked DEF PatientInv
<1>3. CASE ServerStep
  <2>1. /\ ReadyLast(todo') /\ AssignFirst(todo')
        /\ Leaving(todo) => Leaving(todo')
        /\ Head(todo).op \in {"ready", "release"} => todo' = <<>>
        /\ todo' # <<>> /\ todo'[1].op = "assign" => ~steady'
    BY <1>1, <1>3, ShapeKept DEF PatientInv
  <2>2. todo # <<>>
    BY <1>1, <1>3, ServerTodo
  <2>3. QED
    BY <1>3, <2>1, <2>2, ServerParked DEF PatientInv
<1>4. CASE Request
  <2>1. Orderly(todo') /\ ReadyLast(todo') /\ AssignFirst(todo')
    BY <1>4, RequestCalls DEF Orderly, ReadyLast, AssignFirst
  <2>2. todo' # <<>> => todo'[1].op # "assign"
    <3>1. todo' # <<>> => 1 \in DOMAIN todo'
      BY <2>1, EmptySeq, LenProperties DEF Orderly
    <3>2. QED
      BY <2>1, <3>1 DEF Orderly
  <2>3. Leaving(Detach)
    <3>1. /\ DOMAIN Detach = 1..3
          /\ Detach[1].op = "unregister" /\ Detach[2].op = "mode" /\ Detach[3].op = "release"
          /\ Detach[2].mode = "None"
      BY DEF Detach, Call, ModeTo
    <3>2. QED
      BY <3>1 DEF Leaving
  <2>4. (sim' \in Parked /\ ~signal') \/ Leaving(todo')
    BY <1>4, <2>3, RequestFrame
  <2>5. QED
    BY <2>1, <2>2, <2>4 DEF PatientInv
<1>5. CASE UNCHANGED vars
  BY <1>5 DEF vars, dvars, PatientInv
<1>6. QED
  BY <1>2, <1>3, <1>4, <1>5 DEF Next

\* Initially nothing has been asked for.
LEMMA PatientInit == Init => PatientInv
  BY DEF Init, PatientInv, ReadyLast, AssignFirst

\* When eval() runs and clients are patient, no sort is pending.
LEMMA NoSortPending ==
  ASSUME TodoOK, PatientInv, sim \notin Parked
  PROVE  ~SortPending(todo)
<1>1. CASE todo = <<>>
  BY <1>1 DEF SortPending
<1>2. CASE Leaving(todo)
  BY <1>2 DEF Leaving, SortPending
<1>3. QED
  BY <1>1, <1>2 DEF PatientInv

-----------------------------------------------------------------------------
(* Natural numbers and ranks                                               *)

\* Every nonempty set of natural numbers has a least element.
LEMMA LeastNatural ==
  ASSUME NEW T \in SUBSET Nat, T # {}
  PROVE  \E x \in T : \A y \in T : x <= y
<1> DEFINE R == OpToRel(<, Nat)
<1>1. IsWellFoundedOn(R, Nat)
  BY NatLessThanWellFounded
<1>2. \A x, y \in Nat : y < x => <<y, x>> \in R
  BY DEF OpToRel
<1> HIDE DEF R
<1>3. PICK x \in T : \A y \in T : ~(<<y, x>> \in R)
  BY <1>1, WFMin
<1>4. \A y \in T : ~(y < x)
  BY <1>2, <1>3
<1>5. QED
  BY <1>4

\* Every nonempty set of natural numbers with a bound has a greatest element.
LEMMA GreatestNatural ==
  ASSUME NEW T \in SUBSET Nat, T # {}, NEW n \in Nat, \A x \in T : x <= n
  PROVE  \E x \in T : \A y \in T : y <= x
<1> DEFINE D == {n - x : x \in T}
<1>1. D \in SUBSET Nat
  OBVIOUS
<1>2. D # {}
  <2>1. PICK x : x \in T
    OBVIOUS
  <2>2. n - x \in D
    BY <2>1
  <2>3. QED
    BY <2>2
<1>3. PICK d \in D : \A y \in D : d <= y
  BY <1>1, <1>2, LeastNatural
<1>4. PICK x \in T : d = n - x
  OBVIOUS
<1>5. \A y \in T : n - y \in D
  OBVIOUS
<1>6. \A y \in T : n - x <= n - y
  BY <1>3, <1>4, <1>5
<1>7. QED
  BY <1>6

\* A breakpoint's rank is its place in the execution order.
LEMMA RankType ==
  ASSUME NEW id \in BpId
  PROVE  Rank(id) \in DOMAIN Order /\ Rank(id) \in Nat /\ Order[Rank(id)] = id
<1>1. \E i \in DOMAIN Order : Order[i] = id
  BY SchedulerAssumption
<1>2. Rank(id) \in DOMAIN Order /\ Order[Rank(id)] = id
  BY <1>1, Zenon DEF Rank
<1>3. DOMAIN Order \subseteq Nat
  BY SchedulerAssumption, LenProperties
<1>4. QED
  BY <1>2, <1>3

\* The rank of the i-th breakpoint of the execution order is i.
LEMMA RankOfOrder ==
  ASSUME NEW i \in DOMAIN Order
  PROVE  Order[i] \in BpId /\ Rank(Order[i]) = i
<1>1. Order[i] \in BpId
  BY SchedulerAssumption, ElementOfSeq, LenProperties
<1>2. QED
  BY <1>1, RankType, SchedulerAssumption

-----------------------------------------------------------------------------
(* What a cycle has handed out                                             *)

\* Every entry of t has the id and the flag of an entry of s.
Drawn(s, t) ==
    \A k \in DOMAIN t : \E i \in DOMAIN s :
        t[k].id = s[i].id /\ t[k].evaluated = s[i].evaluated

\* Removing breakpoints leaves some of the entries, with their flags, and the
\* history keeps the ids that are left.
LEMMA RemoveDrawn ==
  ASSUME Inv, TodoOK, ServeRemove \/ ServeClear
  PROVE  /\ Drawn(breakpoints, breakpoints')
         /\ passed' = passed \ (Ids(breakpoints) \ Ids(breakpoints'))
         /\ due' = due \ (Ids(breakpoints) \ Ids(breakpoints'))
         /\ UNCHANGED <<current, mode, single, steady>>
<1>1. CASE ServeRemove
  <2>1. PICK id \in Head(todo).ids : RemoveFlag(id, "normal")
    BY <1>1 DEF ServeRemove
  <2>2. Head(todo) \in CallType /\ Head(todo).op = "remove"
    BY <1>1, HeadTodo DEF ServeRemove, Calling
  <2>3. id \in BpId /\ "normal" \in Flag
    BY <2>1, <2>2 DEF CallType, Flag
  <2>4. SameFlags(breakpoints, breakpoints') => Drawn(breakpoints, breakpoints')
    BY DEF SameFlags, SameIds, Drawn
  <2>5. ASSUME NEW i \in DOMAIN breakpoints, NEW f \in Survivors(breakpoints, {i}),
               breakpoints' = Pick(breakpoints, f)
        PROVE  Drawn(breakpoints, breakpoints')
    <3>1. breakpoints \in Seq(Entry) /\ SameIds(breakpoints, breakpoints)
      BY DEF Inv, SchedulerTypeOK, SameIds
    <3>2. /\ DOMAIN breakpoints' = DOMAIN f
          /\ \A k \in DOMAIN f : f[k] \in DOMAIN breakpoints /\ breakpoints'[k] = breakpoints[f[k]]
      BY <2>5, <3>1, SurvivorsOrder
    <3>3. QED
      BY <3>2 DEF Drawn
  <2>6. Drawn(breakpoints, breakpoints') /\ UNCHANGED <<current, mode, single>>
    BY <2>1, <2>3, <2>4, <2>5, RemoveList
  <2>7. QED
    BY <1>1, <2>6 DEF ServeRemove, Forget
<1>2. CASE ServeClear
  <2>1. breakpoints' = <<>> /\ UNCHANGED <<current, mode, single, steady>>
    BY <1>2 DEF ServeClear, ClearAll
  <2>2. Drawn(breakpoints, breakpoints')
    BY <2>1 DEF Drawn
  <2>3. QED
    BY <1>2, <2>1, <2>2 DEF ServeClear, Forget
<1>3. QED
  BY <1>1, <1>2

\* Sorting keeps the entries with their flags.
LEMMA ReorderDrawn ==
  ASSUME Inv, Reorder
  PROVE  /\ Drawn(breakpoints, breakpoints') /\ Drawn(breakpoints', breakpoints)
         /\ Ids(breakpoints') = Ids(breakpoints)
<1>1. PICK p \in [DOMAIN breakpoints -> DOMAIN breakpoints] :
         /\ \A k \in DOMAIN breakpoints : breakpoints'[k] = breakpoints[p[k]]
         /\ \A i \in DOMAIN breakpoints : \E k \in DOMAIN breakpoints : p[k] = i
  BY ReorderList, Zenon
<1>2. DOMAIN breakpoints' = DOMAIN breakpoints
  BY ReorderList
<1>3. Drawn(breakpoints, breakpoints')
  BY <1>1, <1>2 DEF Drawn
<1>4. Drawn(breakpoints', breakpoints)
  BY <1>1, <1>2 DEF Drawn
<1>5. \A s, t : Drawn(s, t) => Ids(t) \subseteq Ids(s)
  BY DEF Drawn, Ids
<1>6. QED
  BY <1>3, <1>4, <1>5

\* The steps that leave the list and the cycle's history alone, or end it.
LEMMA CycleFrame ==
  ASSUME Inv, DebuggerTypeOK, TodoOK, PatientInv,
         \/ SimStep /\ ~StartEvaluation /\ ~Fetch
         \/ Request
         \/ ServeMode \/ ServeAssign \/ ServeReady \/ ServeSingle \/ ServePause
         \/ ServeFinish \/ ServeUnregister \/ ServeRelease
         \/ UNCHANGED vars
  PROVE  \/ ~steady' \/ mode' = "None"
         \/ UNCHANGED <<breakpoints, inserted, current, mode, single, due, passed, steady>>
<1>1. CASE SimStep /\ ~StartEvaluation /\ ~Fetch
  <2>1. CASE Evaluate \/ Report
    BY <2>1, EvaluateStep DEF svars, history
  <2>2. CASE Resume \/ ClockEdge \/ FreeRun \/ Finish \/ Finished
    BY <2>2 DEF Resume, ClockEdge, FreeRun, Finish, Finished, svars, history, vars, dvars
  <2>3. QED
    BY <1>1, <2>1, <2>2 DEF SimStep
<1>2. CASE Request
  BY <1>2, RequestFrame DEF svars, history
<1>3. CASE ServeMode
  BY <1>3 DEF ServeMode, svars
<1>4. CASE ServeAssign
  <2>1. /\ todo # <<>> /\ Head(todo).op = "assign" /\ mode' = Head(todo).mode
        /\ steady' = steady
    BY <1>4 DEF ServeAssign, Calling, AssignMode, history
  <2>2. Head(todo) = todo[1]
    BY <2>1, HeadTodo
  <2>3. QED
    BY <2>1, <2>2 DEF PatientInv
<1>5. CASE ServeSingle
  <2>1. steady' = (steady /\ single' = single)
    BY <1>5 DEF ServeSingle
  <2>2. CASE single' = single
    <3>1. steady' = steady
      BY <2>1, <2>2 DEF DebuggerTypeOK
    <3>2. QED
      BY <1>5, <2>2, <3>1 DEF ServeSingle, SetSingle
  <2>3. QED
    BY <2>1, <2>2
<1>6. CASE ServeReady \/ ServePause \/ ServeFinish \/ ServeUnregister \/ ServeRelease
  BY <1>6 DEF ServeReady, ServePause, ServeFinish, ServeUnregister, ServeRelease,
              svars, history
<1>7. CASE UNCHANGED vars
  BY <1>7 DEF vars, svars, dvars
<1>8. QED
  BY <1>1, <1>2, <1>3, <1>4, <1>5, <1>6, <1>7

\* In a cycle whose mode is steady: in BreakPointOnly the ids handed out are in
\* the list and marked, in StepOver they are not after the current one.
ForwardInv ==
    steady =>
      /\ mode = "BreakPointOnly" =>
            /\ passed \subseteq Ids(breakpoints)
            /\ \A i \in DOMAIN breakpoints :
                  breakpoints[i].id \in passed => breakpoints[i].evaluated
      /\ mode = "StepOver" =>
            \A id \in passed : {id, current} \subseteq BpId /\ Rank(id) <= Rank(current)

\* What next_normal_breakpoints hands out, and from where on.
LEMMA FetchNormal ==
  ASSUME Inv, NextNormal
  PROVE  \/ /\ NothingNext
            /\ \A i \in DOMAIN breakpoints : ~IsNext(i)
         \/ \E i \in DOMAIN breakpoints, I \in SUBSET DOMAIN breakpoints :
               /\ IsNext(i) /\ HandOut(I)
               /\ i \in I /\ \A j \in I : i <= j
               /\ single => I = {i}
<1>1. ASSUME NEW i \in DOMAIN breakpoints, IsNext(i),
             HandOut({i} \cup IF ~single /\ breakpoints[i].type = {"normal"}
                              THEN Scan(i, TRUE) ELSE {})
      PROVE  \E I \in SUBSET DOMAIN breakpoints :
                /\ HandOut(I)
                /\ i \in I /\ \A j \in I : i <= j
                /\ single => I = {i}
  <2> DEFINE I == {i} \cup IF ~single /\ breakpoints[i].type = {"normal"}
                           THEN Scan(i, TRUE) ELSE {}
  <2>1. DOMAIN breakpoints \subseteq Nat
    BY LenProperties DEF Inv, SchedulerTypeOK
  <2>2. \A j \in Scan(i, TRUE) : j \in DOMAIN breakpoints /\ j > i
    BY DEF Scan
  <2>3. I \in SUBSET DOMAIN breakpoints /\ \A j \in I : i <= j
    <3>1. \A a, b \in Nat : a <= a /\ (b > a => a <= b)
      OBVIOUS
    <3>2. \A j \in I : j = i \/ j \in Scan(i, TRUE)
      BY Zenon
    <3>3. i \in Nat /\ \A j \in Scan(i, TRUE) : j \in Nat /\ i <= j
      BY <2>1, <2>2, <3>1, Zenon
    <3>4. \A j \in I : j \in DOMAIN breakpoints /\ i <= j
      BY <2>2, <3>1, <3>2, <3>3, Zenon
    <3>5. QED
      BY <3>4, Zenon
  <2>4. single => I = {i}
    OBVIOUS
  <2>5. HandOut(I)
    BY <1>1
  <2>6. QED
    BY <2>3, <2>4, <2>5
<1>2. QED
  BY <1>1, Zenon DEF NextNormal

\* Handing out the positions of I marks these entries only.
LEMMA HandOutFlags ==
  ASSUME Inv, NEW I \in SUBSET DOMAIN breakpoints, HandOut(I)
  PROVE  /\ SameIds(breakpoints, breakpoints')
         /\ \A i \in DOMAIN breakpoints :
               breakpoints'[i].evaluated <=> breakpoints[i].evaluated \/ i \in I
         /\ \A e \in batch' : \E i \in I : e.id = breakpoints[i].id
         /\ \A i \in I : breakpoints[i].id \in {e.id : e \in batch'}
<1>1. \A j \in DOMAIN breakpoints :
         /\ Evaluated(breakpoints[j]).id = breakpoints[j].id
         /\ Evaluated(breakpoints[j]).evaluated = TRUE
  <2>1. \A j \in DOMAIN breakpoints : breakpoints[j] \in Entry
    BY ElementOfSeq, LenProperties DEF Inv, SchedulerTypeOK
  <2>2. QED
    BY <2>1 DEF Evaluated, Entry
<1>2. SameIds(breakpoints, breakpoints')
  BY <1>1 DEF HandOut, SameIds
<1>3. \A i \in DOMAIN breakpoints :
         breakpoints'[i].evaluated <=> breakpoints[i].evaluated \/ i \in I
  BY <1>1 DEF HandOut
<1>4. batch' = {Evaluated(breakpoints[i]) : i \in I}
  BY DEF HandOut
<1>5. \A e \in batch' : \E i \in I : e.id = breakpoints[i].id
  BY <1>1, <1>4
<1>6. \A i \in I : breakpoints[i].id \in {e.id : e \in batch'}
  BY <1>1, <1>4
<1>7. QED
  BY <1>2, <1>3, <1>5, <1>6

\* next_step_over_breakpoints goes one breakpoint on in the execution order.
LEMMA FetchStepOver ==
  ASSUME Inv, NextStepOver
  PROVE  \/ NothingNext
         \/ \E i \in DOMAIN Order :
               /\ current' = Order[i]
               /\ \A e \in batch' : e.id = Order[i]
               /\ current \in BpId => Rank(current) < i
<1>1. ASSUME NEW i \in DOMAIN Order,
             IF current = NoBp THEN i = 1 ELSE i > 1 /\ Order[i - 1] = current,
             StepTo(Order[i])
      PROVE  /\ current' = Order[i]
             /\ \A e \in batch' : e.id = Order[i]
             /\ current \in BpId => Rank(current) < i
  <2>1. current' = Order[i] /\ \A e \in batch' : e.id = Order[i]
    BY <1>1 DEF StepTo, Temporaries
  <2>2. DOMAIN Order = 1..Len(Order) /\ Len(Order) \in Nat
    BY SchedulerAssumption, LenProperties
  <2>3. ASSUME current \in BpId PROVE Rank(current) < i
    <3>1. i > 1 /\ Order[i - 1] = current
      BY <1>1, <2>3, SchedulerAssumption
    <3>2. i - 1 \in DOMAIN Order
      BY <2>2, <3>1
    <3>3. Rank(current) = i - 1
      BY <3>1, <3>2, RankOfOrder
    <3>4. QED
      BY <2>2, <3>3
  <2>4. QED
    BY <2>1, <2>3
<1>2. QED
  BY <1>1, Zenon DEF NextStepOver

\* What next_breakpoints hands out is marked and not before what was handed out.
LEMMA ForwardFetch ==
  ASSUME Inv, Distinct(breakpoints), ForwardInv, Fetch
  PROVE  ForwardInv'
<1>1. /\ NextBreakpoints /\ steady' = steady
      /\ passed' = passed \cup {e.id : e \in batch'}
      /\ mode' = mode /\ SameIds(breakpoints, breakpoints')
  BY NextList DEF Fetch
<1>2. CASE NothingNext
  <2>1. passed' = passed /\ UNCHANGED <<breakpoints, current>>
    BY <1>1, <1>2 DEF NothingNext
  <2>2. QED
    BY <1>1, <2>1 DEF ForwardInv
<1>3. CASE mode = "BreakPointOnly" /\ steady
  <2>1. NextNormal
    BY <1>1, <1>3 DEF NextBreakpoints
  <2>2. ASSUME NEW I \in SUBSET DOMAIN breakpoints, HandOut(I)
        PROVE  ForwardInv'
    <3>1. /\ \A i \in DOMAIN breakpoints :
                breakpoints'[i].evaluated <=> breakpoints[i].evaluated \/ i \in I
          /\ \A e \in batch' : \E i \in I : e.id = breakpoints[i].id
      BY <2>2, HandOutFlags
    <3>2. Ids(breakpoints') = Ids(breakpoints)
      BY <1>1, SameIdsKept
    <3>3. passed' \subseteq Ids(breakpoints')
      <4>1. {e.id : e \in batch'} \subseteq Ids(breakpoints)
        BY <3>1 DEF Ids
      <4>2. QED
        BY <1>1, <1>3, <3>2, <4>1 DEF ForwardInv
    <3>4. ASSUME NEW i \in DOMAIN breakpoints, breakpoints[i].id \in passed'
          PROVE  breakpoints'[i].evaluated
      <4>1. CASE breakpoints[i].id \in passed
        BY <1>3, <3>1, <4>1 DEF ForwardInv
      <4>2. ASSUME NEW e \in batch', e.id = breakpoints[i].id PROVE breakpoints'[i].evaluated
        BY <3>1, <4>2 DEF Distinct
      <4>3. QED
        BY <1>1, <3>4, <4>1, <4>2
    <3>5. mode' = "BreakPointOnly" /\ mode' # "StepOver"
      BY <1>1, <1>3
    <3>6. \A i \in DOMAIN breakpoints' :
             breakpoints'[i].id \in passed' => breakpoints'[i].evaluated
      BY <1>1, <3>4 DEF SameIds
    <3>7. QED
      BY <3>3, <3>5, <3>6 DEF ForwardInv
  <2>3. QED
    BY <1>2, <2>1, <2>2, FetchNormal
<1>4. CASE mode = "StepOver" /\ steady
  <2>1. NextStepOver
    BY <1>1, <1>4 DEF NextBreakpoints
  <2>2. ASSUME NEW i \in DOMAIN Order, current' = Order[i],
               \A e \in batch' : e.id = Order[i],
               current \in BpId => Rank(current) < i
        PROVE  ForwardInv'
    <3>1. current' \in BpId /\ Rank(current') = i /\ i \in Nat
      BY <2>2, RankOfOrder, RankType
    <3>2. ASSUME NEW id \in passed' PROVE id \in BpId /\ Rank(id) <= Rank(current')
      <4>1. CASE id \in passed
        <5>1. id \in BpId /\ current \in BpId /\ Rank(id) <= Rank(current) /\ Rank(current) < i
          BY <1>4, <2>2, <4>1 DEF ForwardInv
        <5>2. Rank(id) \in Nat /\ Rank(current) \in Nat
          BY <5>1, RankType
        <5>3. QED
          BY <3>1, <5>1, <5>2
      <4>2. CASE id = Order[i]
        BY <2>2, <3>1, <4>2
      <4>3. QED
        BY <1>1, <2>2, <4>1, <4>2
    <3>3. QED
      BY <1>1, <1>4, <3>1, <3>2 DEF ForwardInv
  <2>3. QED
    BY <1>2, <2>1, <2>2, FetchStepOver
<1>5. QED
  BY <1>1, <1>3, <1>4 DEF ForwardInv

\* Inserting appends what has not been handed out.
LEMMA ForwardAdd ==
  ASSUME Inv, TodoOK, InsertedOnce, ForwardInv, ServeAdd
  PROVE  ForwardInv'
<1>1. PICK id \in Head(todo).ids : AddNormal(id, Head(todo).cond)
  BY DEF ServeAdd
<1>2. Head(todo) \in CallType /\ Head(todo).op = "add"
  BY HeadTodo DEF ServeAdd, Calling
<1>3. id \in BpId /\ Head(todo).cond \in Cond
  BY <1>1, <1>2 DEF CallType
<1>4. UNCHANGED <<current, mode, passed, steady>>
  BY <1>1, <1>3, AddList DEF ServeAdd, history
<1>5. CASE SameFlags(breakpoints, breakpoints')
  <2>1. Ids(breakpoints') = Ids(breakpoints)
    BY <1>5, SameIdsKept DEF SameFlags
  <2>2. QED
    BY <1>4, <1>5, <2>1 DEF ForwardInv, SameFlags, SameIds
<1>6. ASSUME id \notin inserted, NEW new \in Seq(Entry), breakpoints' = breakpoints \o new,
             \A k \in DOMAIN new : new[k].id = id /\ ~new[k].evaluated
      PROVE  ForwardInv'
  <2>1. breakpoints \in Seq(Entry)
    BY DEF Inv, SchedulerTypeOK
  <2>2. Ids(breakpoints) \subseteq Ids(breakpoints')
    BY <1>6, <2>1, ConcatIds
  <2>3. id \notin Ids(breakpoints)
    BY <1>6 DEF InsertedOnce
  <2>4. \A i \in DOMAIN breakpoints' :
           \/ i \in DOMAIN breakpoints /\ breakpoints'[i] = breakpoints[i]
           \/ breakpoints'[i].id = id
    <3>1. /\ breakpoints' \in Seq(Entry) /\ Len(breakpoints') = Len(breakpoints) + Len(new)
          /\ \A i \in 1..(Len(breakpoints) + Len(new)) : breakpoints'[i] =
                IF i <= Len(breakpoints) THEN breakpoints[i] ELSE new[i - Len(breakpoints)]
      BY <1>6, <2>1, ConcatProperties
    <3>2. /\ DOMAIN breakpoints = 1..Len(breakpoints) /\ Len(breakpoints) \in Nat
          /\ DOMAIN new = 1..Len(new) /\ Len(new) \in Nat
          /\ DOMAIN breakpoints' = 1..(Len(breakpoints) + Len(new))
      BY <2>1, <3>1, LenProperties
    <3>3. QED
      BY <1>6, <3>1, <3>2
  <2>5. steady /\ mode = "BreakPointOnly" => id \notin passed
    BY <2>3 DEF ForwardInv
  <2>6. QED
    BY <1>4, <2>2, <2>4, <2>5 DEF ForwardInv
<1>7. QED
  BY <1>1, <1>3, <1>5, <1>6, AddList

\* Every step but a failing assertion keeps the account of what was handed out.
LEMMA ForwardStep ==
  ASSUME DebuggerInv, InsertedOnce, PatientInv, ForwardInv, [Next]_vars, ~Assertion
  PROVE  ForwardInv'
<1>1. Inv /\ DebuggerTypeOK /\ TodoOK
  BY InvParts
<1>2. CASE ~steady' \/ mode' = "None"
  BY <1>2 DEF ForwardInv
<1>3. CASE UNCHANGED <<breakpoints, current, mode, passed, steady>>
  BY <1>3 DEF ForwardInv
<1>4. CASE StartEvaluation
  <2>1. passed' = {}
    BY <1>4 DEF StartEvaluation
  <2>2. QED
    BY <2>1 DEF ForwardInv
<1>5. CASE Fetch
  BY <1>1, <1>5, ForwardFetch, OnceParts
<1>6. CASE ServeAdd
  BY <1>1, <1>6, ForwardAdd
<1>7. CASE ServeRemove \/ ServeClear
  <2>1. /\ Drawn(breakpoints, breakpoints')
        /\ passed' = passed \ (Ids(breakpoints) \ Ids(breakpoints'))
        /\ UNCHANGED <<current, mode, steady>>
    BY <1>1, <1>7, RemoveDrawn
  <2>2. QED
    BY <2>1 DEF ForwardInv, Drawn
<1>8. CASE ServeReorder
  <2>1. Drawn(breakpoints, breakpoints') /\ Ids(breakpoints') = Ids(breakpoints)
    BY <1>1, <1>8, ReorderDrawn DEF ServeReorder
  <2>2. UNCHANGED <<current, mode, passed, steady>>
    BY <1>8 DEF ServeReorder, Reorder, history
  <2>3. QED
    BY <2>1, <2>2 DEF ForwardInv, Drawn
<1>9. QED
  BY <1>1, <1>2, <1>3, <1>4, <1>5, <1>6, <1>7, <1>8, CycleFrame
  DEF Next, SimStep, ServerStep

\* The simulation thread leaves the loop's head with next_breakpoints only.
LEMMA NextIsFetch ==
  ASSUME DebuggerInv, [Next]_vars, sim = "next", sim' # "next"
  PROVE  Fetch
<1>1. Inv /\ DebuggerTypeOK /\ TodoOK
  BY InvParts
<1>2. ~UNCHANGED vars
  BY DEF vars, dvars
<1>3. ~Request
  BY RequestFrame
<1>4. ~ServerStep
  BY ServerParked
<1>5. ~Assertion
  BY DEF Assertion, SimAt
<1>6. ~(Resume \/ ClockEdge \/ FreeRun \/ Finish \/ Finished \/ StartEvaluation)
  BY DEF Resume, ClockEdge, FreeRun, Finish, Finished, StartEvaluation, SimAt, Parked
<1>7. ~(Evaluate \/ Report)
  BY Zenon DEF Evaluate, Report, SimAt
<1>8. QED
  BY <1>2, <1>3, <1>4, <1>5, <1>6, <1>7 DEF Next, SimStep

\* What next_breakpoints hands out comes after everything handed out before.
LEMMA FetchForward ==
  ASSUME DebuggerInv, InsertedOnce, SortInv, PatientInv, ForwardInv, Fetch, batch' # {},
         steady, mode \in {"BreakPointOnly", "StepOver"},
         NEW e \in batch', NEW id \in passed
  PROVE  Rank(id) < Rank(e.id)
<1>1. Inv /\ TodoOK /\ DebuggerTypeOK /\ NextBreakpoints
  BY InvParts DEF Fetch
<1>2. CASE mode = "BreakPointOnly"
  <2>1. Sorted(breakpoints) /\ Distinct(breakpoints)
    BY <1>1, NoSortPending, OnceParts DEF Fetch, SimAt, Parked, SortInv
  <2>2. NextNormal /\ ~NothingNext
    BY <1>1, <1>2 DEF NextBreakpoints, NothingNext
  <2>3. PICK i \in DOMAIN breakpoints, I \in SUBSET DOMAIN breakpoints :
           IsNext(i) /\ HandOut(I) /\ \A j \in I : i <= j
    BY <1>1, <2>2, FetchNormal
  <2>4. PICK j \in I : e.id = breakpoints[j].id
    BY <1>1, <2>3, HandOutFlags
  <2>5. PICK m \in DOMAIN breakpoints : id = breakpoints[m].id /\ breakpoints[m].evaluated
    <3>1. id \in Ids(breakpoints)
      BY <1>2 DEF ForwardInv
    <3>2. PICK m \in DOMAIN breakpoints : id = breakpoints[m].id
      BY <3>1 DEF Ids
    <3>3. breakpoints[m].evaluated
      BY <1>2, <3>2 DEF ForwardInv
    <3>4. QED
      BY <3>2, <3>3
  <2>6. DOMAIN breakpoints \subseteq Nat /\ \A k \in DOMAIN breakpoints : breakpoints[k] \in Entry
    BY <1>1, ElementOfSeq, LenProperties DEF Inv, SchedulerTypeOK
  <2>7. m < i
    BY <2>3, <2>5, <2>6 DEF IsNext
  <2>8. j \in DOMAIN breakpoints /\ m < j
    BY <2>3, <2>4, <2>6, <2>7
  <2>9. Rank(id) <= Rank(e.id) /\ id # e.id
    <3>1. Rank(breakpoints[m].id) <= Rank(breakpoints[j].id)
      BY <2>1, <2>8 DEF Sorted
    <3>2. breakpoints[m].id # breakpoints[j].id
      BY <2>1, <2>6, <2>8 DEF Distinct
    <3>3. QED
      BY <2>4, <2>5, <3>1, <3>2
  <2>10. id \in BpId /\ e.id \in BpId
    BY <2>4, <2>5, <2>6, <2>8 DEF Entry
  <2>11. QED
    BY <2>9, <2>10, RankType
<1>3. CASE mode = "StepOver"
  <2>1. NextStepOver /\ ~NothingNext
    BY <1>1, <1>3 DEF NextBreakpoints, NothingNext
  <2>2. PICK i \in DOMAIN Order :
           /\ \A d \in batch' : d.id = Order[i]
           /\ current \in BpId => Rank(current) < i
    BY <1>1, <2>1, FetchStepOver
  <2>3. current \in BpId /\ Rank(id) <= Rank(current)
    BY <1>3 DEF ForwardInv
  <2>4. Rank(e.id) = i /\ i \in Nat
    BY <2>2, RankOfOrder, RankType
  <2>5. id \in BpId
    BY <1>1 DEF DebuggerTypeOK
  <2>6. QED
    BY <2>2, <2>3, <2>4, <2>5, RankType
<1>4. QED
  BY <1>2, <1>3

\* The initial state has handed out nothing and has nothing to sort.
LEMMA CycleInit == Init => InsertedOnce /\ SortInv /\ ForwardInv
<1>1. Init => InsertedOnce
  BY DEF Init, SchedulerInit, InsertedOnce, Ids
<1>2. Init => SortInv
  BY DEF Init, SchedulerInit, SortInv, Sorts, Sorted
<1>3. Init => ForwardInv
  BY DEF Init, ForwardInv
<1>4. QED
  BY <1>1, <1>2, <1>3

\* With patient clients that add breakpoints by source position, one namespace
\* and no assertions, a cycle only goes forward in execution order and hands out
\* nothing twice: for every symbol table, every set of such requests and every
\* interleaving, in BreakPointOnly and in StepOver.
THEOREM CycleGoesForward ==
  ASSUME Patient, OneNamespace, ~AddsUnsorted, Asserts = {}
  PROVE  Spec => ForwardOnly
<1> DEFINE I == DebuggerInv /\ InsertedOnce /\ SortInv /\ PatientInv /\ ForwardInv
           Forward == sim = "next" /\ sim' = "eval" /\ steady /\ mode \in {"BreakPointOnly", "StepOver"} =>
                        \A e \in batch' : \A id \in passed : Rank(id) < Rank(e.id)
<1>1. Init => I
  BY InitDebugger, PatientInit, CycleInit
<1>2. I /\ [Next]_vars => I'
  <2>1. ~Assertion
    BY DEF Assertion
  <2>2. UNCHANGED vars /\ InsertedOnce /\ SortInv => InsertedOnce' /\ SortInv'
    BY DEF vars, svars, dvars, InsertedOnce, SortInv
  <2>3. QED
    BY <2>1, <2>2, DebuggerStep, OnceStep, SortStep, PatientStep, ForwardStep
<1>3. I /\ [Next]_vars => Forward
  <2> SUFFICES ASSUME I, [Next]_vars, sim = "next", sim' = "eval", steady,
                      mode \in {"BreakPointOnly", "StepOver"},
                      NEW e \in batch', NEW id \in passed
               PROVE  Rank(id) < Rank(e.id)
    OBVIOUS
  <2>1. Fetch
    BY NextIsFetch
  <2>2. QED
    BY <2>1, FetchForward
<1>4. QED
  BY <1>1, <1>2, <1>3, PTL DEF Spec, ForwardOnly

-----------------------------------------------------------------------------
(* Every breakpoint of the cycle is evaluated                              *)

\* The entries of t are entries of s, with id and flag, in the same order.
DrawnInOrder(s, t) ==
    \E f \in [DOMAIN t -> DOMAIN s] :
        /\ \A j, k \in DOMAIN t : j < k => f[j] < f[k]
        /\ \A k \in DOMAIN t : t[k].id = s[f[k]].id /\ t[k].evaluated = s[f[k]].evaluated

\* Removing keeps the order of what is left.
LEMMA RemoveInOrder ==
  ASSUME Inv, TodoOK, ServeRemove \/ ServeClear
  PROVE  DrawnInOrder(breakpoints, breakpoints')
<1>1. breakpoints \in Seq(Entry) /\ SameIds(breakpoints, breakpoints)
  BY DEF Inv, SchedulerTypeOK, SameIds
<1>2. CASE ServeRemove
  <2>1. PICK id \in Head(todo).ids : RemoveFlag(id, "normal")
    BY <1>2 DEF ServeRemove
  <2>2. Head(todo) \in CallType /\ Head(todo).op = "remove"
    BY <1>2, HeadTodo DEF ServeRemove, Calling
  <2>3. id \in BpId /\ "normal" \in Flag
    BY <2>1, <2>2 DEF CallType, Flag
  <2>4. CASE SameFlags(breakpoints, breakpoints')
    <3> DEFINE f == [k \in DOMAIN breakpoints' |-> k]
    <3>1. f \in [DOMAIN breakpoints' -> DOMAIN breakpoints]
      BY <2>4 DEF SameFlags, SameIds
    <3>2. \A k \in DOMAIN breakpoints' :
             /\ breakpoints'[k].id = breakpoints[f[k]].id
             /\ breakpoints'[k].evaluated = breakpoints[f[k]].evaluated
      BY <2>4 DEF SameFlags, SameIds
    <3>3. \A j, k \in DOMAIN breakpoints' : j < k => f[j] < f[k]
      OBVIOUS
    <3> HIDE DEF f
    <3>4. QED
      BY <3>1, <3>2, <3>3 DEF DrawnInOrder
  <2>5. ASSUME NEW i \in DOMAIN breakpoints, NEW f \in Survivors(breakpoints, {i}),
               breakpoints' = Pick(breakpoints, f)
        PROVE  DrawnInOrder(breakpoints, breakpoints')
    <3>1. /\ DOMAIN breakpoints' = DOMAIN f
          /\ \A k \in DOMAIN f : f[k] \in DOMAIN breakpoints /\ breakpoints'[k] = breakpoints[f[k]]
          /\ \A j, k \in DOMAIN f : j < k => f[j] < f[k]
      BY <1>1, <2>5, SurvivorsOrder
    <3>2. f \in [DOMAIN f -> DOMAIN breakpoints]
      BY DEF Survivors
    <3>3. QED
      BY <3>1, <3>2 DEF DrawnInOrder
  <2>6. QED
    BY <2>1, <2>3, <2>4, <2>5, RemoveList
<1>3. CASE ServeClear
  <2>1. breakpoints' = <<>>
    BY <1>3 DEF ServeClear, ClearAll
  <2>2. <<>> \in [DOMAIN breakpoints' -> DOMAIN breakpoints] /\ DOMAIN breakpoints' = {}
    BY <2>1
  <2>3. QED
    BY <2>2 DEF DrawnInOrder
<1>4. QED
  BY <1>2, <1>3

\* When next_normal_breakpoints finds nothing, the last entry is evaluated.
LEMMA NothingLeft ==
  ASSUME Inv, \A i \in DOMAIN breakpoints : ~IsNext(i), breakpoints # <<>>
  PROVE  Len(breakpoints) \in DOMAIN breakpoints /\ breakpoints[Len(breakpoints)].evaluated
<1> DEFINE n == Len(breakpoints)
           T == {i \in DOMAIN breakpoints : breakpoints[i].evaluated}
<1>1. DOMAIN breakpoints = 1..n /\ n \in Nat /\ n # 0
  BY LenProperties, EmptySeq DEF Inv, SchedulerTypeOK
<1> HIDE DEF n
<1>2. T # {}
  <2>1. SUFFICES ASSUME T = {} PROVE FALSE
    OBVIOUS
  <2>2. IsNext(1)
    BY <2>1 DEF IsNext
  <2>3. QED
    BY <1>1, <2>2
<1>3. T \in SUBSET Nat /\ \A x \in T : x <= n
  BY <1>1
<1> HIDE DEF T
<1>4. PICK k \in T : \A y \in T : y <= k
  BY <1>1, <1>2, <1>3, GreatestNatural
<1>5. k \in DOMAIN breakpoints /\ breakpoints[k].evaluated /\ k \in Nat
  BY <1>3 DEF T
<1>6. k + 1 \notin DOMAIN breakpoints
  <2>1. SUFFICES ASSUME k + 1 \in DOMAIN breakpoints PROVE FALSE
    OBVIOUS
  <2>2. \A j \in DOMAIN breakpoints : j >= k + 1 => ~breakpoints[j].evaluated
    BY <1>1, <1>4, <1>5 DEF T
  <2>3. (k + 1) - 1 = k
    BY <1>5
  <2>4. IsNext(k + 1)
    BY <1>5, <2>2, <2>3 DEF IsNext
  <2>5. QED
    BY <2>1, <2>4
<1>7. k = n
  BY <1>1, <1>5, <1>6
<1>8. QED
  BY <1>5, <1>7 DEF n

\* A cycle that ends in BreakPointOnly has found no entry to go on with.
LEMMA CycleEnds ==
  ASSUME Inv, Fetch, sim' = "edge", mode = "BreakPointOnly"
  PROVE  \A i \in DOMAIN breakpoints : ~IsNext(i)
<1>1. NextNormal /\ batch' = {}
  BY DEF Fetch, NextBreakpoints
<1>2. SUFFICES ASSUME NEW i \in DOMAIN breakpoints, NEW I \in SUBSET DOMAIN breakpoints,
                      HandOut(I), i \in I
               PROVE  FALSE
  BY <1>1, FetchNormal
<1>3. \A k \in I : breakpoints[k].id \in {e.id : e \in batch'}
  BY <1>2, HandOutFlags
<1>4. QED
  BY <1>1, <1>2, <1>3

\* What is to be evaluated in the cycle is in the list when the cycle starts.
LEMMA StartDue ==
  ASSUME Inv, StartEvaluation
  PROVE  /\ due' \subseteq Ids(breakpoints')
         /\ \A i \in DOMAIN breakpoints' : ~breakpoints'[i].evaluated
<1>1. Start /\ due' = {breakpoints[i].id : i \in {j \in DOMAIN breakpoints :
                   ~(breakpoints[j].type = {"assert"} /\ breakpoints[j].evaluated)}}
  BY DEF StartEvaluation
<1>2. PICK D \in SUBSET DOMAIN breakpoints, t \in Seq(Entry) :
         /\ SameIds(breakpoints, t)
         /\ \A i \in D : breakpoints[i].type = {"assert"} /\ breakpoints[i].evaluated
         /\ \E f \in Survivors(breakpoints, D) : breakpoints' = Cleared(Pick(t, f))
  BY <1>1, StartList, Zenon
<1>3. PICK f \in Survivors(breakpoints, D) : breakpoints' = Cleared(Pick(t, f))
  BY <1>2
<1>4. breakpoints \in Seq(Entry)
  BY DEF Inv, SchedulerTypeOK
<1>5. /\ Pick(t, f) \in Seq(Entry) /\ DOMAIN Pick(t, f) = DOMAIN f
      /\ \A k \in DOMAIN f : f[k] \in DOMAIN breakpoints /\ Pick(t, f)[k] = t[f[k]]
      /\ \A i \in DOMAIN breakpoints \ D : \E k \in DOMAIN f : f[k] = i
  BY <1>2, <1>4, SurvivorsOrder
<1>6. Ids(breakpoints') = Ids(Pick(t, f))
  BY <1>3, <1>5, ClearedIds, SameIdsKept
<1>7. ASSUME NEW id \in due' PROVE id \in Ids(Pick(t, f))
  <2>1. PICK i \in DOMAIN breakpoints :
           /\ ~(breakpoints[i].type = {"assert"} /\ breakpoints[i].evaluated)
           /\ id = breakpoints[i].id
    BY <1>1, <1>7
  <2>2. i \notin D
    BY <1>2, <2>1
  <2>3. PICK k \in DOMAIN f : f[k] = i
    BY <1>5, <2>1, <2>2
  <2>4. Pick(t, f)[k].id = id
    BY <1>2, <1>5, <2>1, <2>3 DEF SameIds
  <2>5. QED
    BY <1>5, <2>4 DEF Ids
<1>8. QED
  BY <1>1, <1>6, <1>7, StartList

\* One by one in the order of the list: a cycle whose mode is steady has marked a
\* front part of it, and what it has marked it has handed out.
LineInv ==
    steady /\ mode = "BreakPointOnly" /\ single =>
      /\ due \subseteq Ids(breakpoints)
      /\ \A i, j \in DOMAIN breakpoints :
            i < j /\ breakpoints[j].evaluated => breakpoints[i].evaluated
      /\ \A i \in DOMAIN breakpoints : breakpoints[i].evaluated => breakpoints[i].id \in passed

\* Entries that are appended are not evaluated and leave the front part as it is.
LEMMA LineAppend ==
  ASSUME Inv, LineInv, NEW new \in Seq(Entry), breakpoints' = breakpoints \o new,
         \A k \in DOMAIN new : ~new[k].evaluated,
         UNCHANGED <<mode, single, due, passed, steady>>
  PROVE  LineInv'
<1>1. breakpoints \in Seq(Entry)
  BY DEF Inv, SchedulerTypeOK
<1>2. Ids(breakpoints) \subseteq Ids(breakpoints')
  BY <1>1, ConcatIds
<1>3. /\ DOMAIN breakpoints = 1..Len(breakpoints) /\ Len(breakpoints) \in Nat
      /\ \A i \in DOMAIN breakpoints' :
            \/ i \in DOMAIN breakpoints /\ breakpoints'[i] = breakpoints[i]
            \/ i \in Nat /\ i > Len(breakpoints) /\ ~breakpoints'[i].evaluated
  <2>1. /\ breakpoints' \in Seq(Entry) /\ Len(breakpoints') = Len(breakpoints) + Len(new)
        /\ \A i \in 1..(Len(breakpoints) + Len(new)) : breakpoints'[i] =
              IF i <= Len(breakpoints) THEN breakpoints[i] ELSE new[i - Len(breakpoints)]
    BY <1>1, ConcatProperties
  <2>2. /\ DOMAIN breakpoints = 1..Len(breakpoints) /\ Len(breakpoints) \in Nat
        /\ DOMAIN new = 1..Len(new) /\ Len(new) \in Nat
        /\ DOMAIN breakpoints' = 1..(Len(breakpoints) + Len(new))
    BY <1>1, <2>1, LenProperties
  <2>3. QED
    BY <2>1, <2>2
<1>4. ASSUME NEW i \in DOMAIN breakpoints', NEW j \in DOMAIN breakpoints', i < j,
             breakpoints'[j].evaluated
      PROVE  /\ i \in DOMAIN breakpoints /\ breakpoints'[i] = breakpoints[i]
             /\ j \in DOMAIN breakpoints /\ breakpoints'[j] = breakpoints[j]
  BY <1>3, <1>4
<1>5. \A i \in DOMAIN breakpoints' : breakpoints'[i].evaluated =>
         i \in DOMAIN breakpoints /\ breakpoints'[i] = breakpoints[i]
  BY <1>3
<1>6. QED
  BY <1>2, <1>4, <1>5 DEF LineInv

\* next_normal_breakpoints marks the entry after the front part.
LEMMA LineFetch ==
  ASSUME Inv, LineInv, Fetch
  PROVE  LineInv'
<1>1. /\ NextBreakpoints /\ UNCHANGED <<mode, single, due, steady>>
      /\ passed' = passed \cup {e.id : e \in batch'}
  BY NextList DEF Fetch
<1>2. SUFFICES ASSUME steady, mode = "BreakPointOnly", single PROVE LineInv'
  BY <1>1 DEF LineInv
<1>3. NextNormal
  BY <1>1, <1>2 DEF NextBreakpoints
<1>4. CASE NothingNext
  BY <1>1, <1>4 DEF NothingNext, LineInv
<1>5. ASSUME NEW i \in DOMAIN breakpoints, IsNext(i), HandOut({i}) PROVE LineInv'
  <2>1. /\ SameIds(breakpoints, breakpoints')
        /\ \A k \in DOMAIN breakpoints :
              breakpoints'[k].evaluated <=> breakpoints[k].evaluated \/ k = i
        /\ breakpoints[i].id \in passed'
    BY <1>1, <1>5, HandOutFlags
  <2>2. Ids(breakpoints') = Ids(breakpoints)
    BY <2>1, SameIdsKept
  <2>3. DOMAIN breakpoints = 1..Len(breakpoints) /\ Len(breakpoints) \in Nat
    BY LenProperties DEF Inv, SchedulerTypeOK
  <2>4. ASSUME NEW k \in DOMAIN breakpoints, k < i PROVE breakpoints[k].evaluated
    <3>1. i > 1 /\ i - 1 \in DOMAIN breakpoints /\ breakpoints[i - 1].evaluated
      BY <1>5, <2>3, <2>4 DEF IsNext
    <3>2. k = i - 1 \/ k < i - 1
      BY <2>3, <2>4
    <3>3. QED
      BY <1>2, <3>1, <3>2 DEF LineInv
  <2>5. QED
    BY <1>1, <1>2, <2>1, <2>2, <2>4 DEF LineInv, SameIds
<1>6. QED
  BY <1>2, <1>3, <1>4, <1>5, FetchNormal

\* Every step but a sort keeps it.
LEMMA LineStep ==
  ASSUME DebuggerInv, PatientInv, LineInv, [Next]_vars, ~ServeReorder
  PROVE  LineInv'
<1>1. Inv /\ DebuggerTypeOK /\ TodoOK
  BY InvParts
<1>2. CASE ~steady' \/ mode' = "None"
  BY <1>2 DEF LineInv
<1>3. CASE UNCHANGED <<breakpoints, mode, single, due, passed, steady>>
  BY <1>3 DEF LineInv
<1>4. CASE StartEvaluation
  BY <1>1, <1>4, StartDue DEF LineInv
<1>5. CASE Fetch
  BY <1>1, <1>5, LineFetch
<1>6. CASE ServeAdd
  <2>1. PICK id \in Head(todo).ids : AddNormal(id, Head(todo).cond)
    BY <1>6 DEF ServeAdd
  <2>2. Head(todo) \in CallType /\ Head(todo).op = "add"
    BY <1>1, <1>6, HeadTodo DEF ServeAdd, Calling
  <2>3. id \in BpId /\ Head(todo).cond \in Cond
    BY <2>1, <2>2 DEF CallType
  <2>4. UNCHANGED <<mode, single, due, passed, steady>>
    BY <1>1, <1>6, <2>1, <2>3, AddList DEF ServeAdd, history
  <2>5. CASE SameFlags(breakpoints, breakpoints')
    <3>1. Ids(breakpoints') = Ids(breakpoints)
      BY <2>5, SameIdsKept DEF SameFlags
    <3>2. QED
      BY <2>4, <2>5, <3>1 DEF LineInv, SameFlags, SameIds
  <2>6. QED
    BY <1>1, <2>1, <2>3, <2>4, <2>5, AddList, LineAppend
<1>7. CASE ServeRemove \/ ServeClear
  <2>1. /\ passed' = passed \ (Ids(breakpoints) \ Ids(breakpoints'))
        /\ due' = due \ (Ids(breakpoints) \ Ids(breakpoints'))
        /\ UNCHANGED <<mode, single, steady>>
    BY <1>1, <1>7, RemoveDrawn
  <2>2. PICK f \in [DOMAIN breakpoints' -> DOMAIN breakpoints] :
           /\ \A j, k \in DOMAIN breakpoints' : j < k => f[j] < f[k]
           /\ \A k \in DOMAIN breakpoints' :
                 /\ breakpoints'[k].id = breakpoints[f[k]].id
                 /\ breakpoints'[k].evaluated = breakpoints[f[k]].evaluated
    BY <1>1, <1>7, RemoveInOrder DEF DrawnInOrder
  <2>3. SUFFICES ASSUME steady, mode = "BreakPointOnly", single PROVE LineInv'
    BY <2>1 DEF LineInv
  <2>4. due' \subseteq Ids(breakpoints')
    BY <2>1, <2>3 DEF LineInv
  <2>5. \A k \in DOMAIN breakpoints' :
           breakpoints'[k].evaluated => breakpoints'[k].id \in passed'
    <3>1. \A k \in DOMAIN breakpoints' : breakpoints'[k].id \in Ids(breakpoints')
      BY DEF Ids
    <3>2. QED
      BY <2>1, <2>2, <2>3, <3>1 DEF LineInv
  <2>6. \A j, k \in DOMAIN breakpoints' :
           j < k /\ breakpoints'[k].evaluated => breakpoints'[j].evaluated
    BY <2>2, <2>3 DEF LineInv
  <2>7. QED
    BY <2>4, <2>5, <2>6 DEF LineInv
<1>8. CASE Assertion
  <2>1. PICK a \in Asserts : AddAssert(a[1], a[2])
    BY <1>8 DEF Assertion
  <2> DEFINE e == NewEntry(a[1], a[2], "assert", TrueCond, TrueCond, NoVar)
  <2>2. e \in Entry /\ ~e.evaluated
    BY <2>1, SchedulerAssumption, NewEntryType DEF Flag, NewEntry
  <2>3. breakpoints' = Append(breakpoints, e) /\ UNCHANGED <<mode, single, due, passed, steady>>
    BY <1>8, <2>1 DEF AddAssert, Assertion, dvars
  <2> HIDE DEF e
  <2>4. breakpoints' = breakpoints \o <<e>> /\ <<e>> \in Seq(Entry)
    BY <1>1, <2>2, <2>3, AppendIsConcat DEF Inv, SchedulerTypeOK
  <2>5. \A k \in DOMAIN <<e>> : ~(<<e>>[k]).evaluated
    BY <2>2
  <2>6. QED
    BY <1>1, <2>3, <2>4, <2>5, LineAppend
<1>9. QED
  BY <1>1, <1>2, <1>3, <1>4, <1>5, <1>6, <1>7, <1>8, CycleFrame
  DEF Next, SimStep, ServerStep

\* Without a request that sorts, no sort is ever among the calls.
LEMMA NothingSorted ==
  ASSUME DebuggerInv, SortsNothing(todo), ~AddsSorted, [Next]_vars
  PROVE  SortsNothing(todo') /\ ~ServeReorder
<1>1. Inv /\ DebuggerTypeOK /\ TodoOK
  BY InvParts
<1>2. ~ServeReorder
  BY <1>1, HeadTodo DEF ServeReorder, Calling, SortsNothing
<1> SUFFICES SortsNothing(todo')
  BY <1>2
<1>3. CASE SimStep \/ Assertion
  BY <1>1, <1>3, SimType
<1>4. CASE Request
  BY <1>4, RequestCalls
<1>5. CASE ServerStep
  <2>1. todo # <<>> /\ 1 \in DOMAIN todo /\ Head(todo) = todo[1]
    BY <1>1, <1>5, ServerTodo, HeadTodo
  <2>2. CASE todo' = Tail(todo)
    BY <1>1, <2>1, <2>2, HeadTodo DEF SortsNothing
  <2>3. ASSUME NEW r \in CallType, todo' = [todo EXCEPT ![1] = r],
               r.op \in {"add", "remove", "assign"}
        PROVE  SortsNothing(todo')
    <3>1. /\ DOMAIN todo' = DOMAIN todo /\ todo'[1] = r
          /\ \A k \in DOMAIN todo : k # 1 => todo'[k] = todo[k]
      BY <1>1, <2>1, <2>3, ReplaceHead
    <3>2. QED
      BY <2>3, <3>1 DEF SortsNothing
  <2>4. QED
    BY <1>1, <1>5, <2>2, <2>3, ServerTodo
<1>6. CASE UNCHANGED vars
  BY <1>6 DEF vars, dvars
<1>7. QED
  BY <1>3, <1>4, <1>5, <1>6 DEF Next

\* With patient clients that add breakpoints by id, in single_thread_mode_ a cycle
\* evaluates every entry there is: the breakpoints that were there when it
\* started and every failed assertion.  For every symbol table and any number of
\* namespaces, with assertions failing between the edges.
THEOREM AssertionsEvaluatedSingly ==
  ASSUME Patient, ~AddsSorted
  PROVE  Spec => AllEvaluatedSingly /\ AssertionEvaluated
<1> DEFINE I == DebuggerInv /\ PatientInv /\ SortsNothing(todo) /\ LineInv
           Ends == sim = "next" /\ sim' = "edge" /\ steady /\ mode = "BreakPointOnly" /\ single
<1>1. Init => I
  <2>1. Init => SortsNothing(todo) /\ LineInv
    BY DEF Init, SortsNothing, LineInv
  <2>2. QED
    BY <2>1, InitDebugger, PatientInit
<1>2. I /\ [Next]_vars => I'
  BY DebuggerStep, PatientStep, NothingSorted, LineStep
<1>3. I /\ [Next]_vars /\ Ends =>
        \A i \in DOMAIN breakpoints : breakpoints[i].evaluated /\ breakpoints[i].id \in passed
  <2> SUFFICES ASSUME I, [Next]_vars, Ends, NEW i \in DOMAIN breakpoints
               PROVE  breakpoints[i].evaluated /\ breakpoints[i].id \in passed
    OBVIOUS
  <2>1. Inv /\ Fetch
    BY InvParts, NextIsFetch
  <2>2. \A j \in DOMAIN breakpoints : ~IsNext(j)
    BY <2>1, CycleEnds
  <2>3. DOMAIN breakpoints = 1..Len(breakpoints) /\ Len(breakpoints) \in Nat /\ breakpoints # <<>>
    BY <2>1, LenProperties DEF Inv, SchedulerTypeOK
  <2>4. breakpoints[Len(breakpoints)].evaluated
    BY <2>1, <2>2, <2>3, NothingLeft
  <2>5. i = Len(breakpoints) \/ i < Len(breakpoints)
    BY <2>3
  <2>6. breakpoints[i].evaluated
    BY <2>3, <2>4, <2>5 DEF LineInv
  <2>7. QED
    BY <2>6 DEF LineInv
<1>4. I /\ [Next]_vars => (Ends => due \subseteq passed)
  <2> SUFFICES ASSUME I, [Next]_vars, Ends, NEW id \in due PROVE id \in passed
    OBVIOUS
  <2>1. id \in Ids(breakpoints)
    BY DEF LineInv
  <2>2. PICK i \in DOMAIN breakpoints : id = breakpoints[i].id
    BY <2>1 DEF Ids
  <2>3. QED
    BY <1>3, <2>2
<1>5. I /\ [Next]_vars => (Ends => \A i \in DOMAIN breakpoints :
             "assert" \in breakpoints[i].type => breakpoints[i].evaluated)
  BY <1>3
<1>6. QED
  BY <1>1, <1>2, <1>4, <1>5, PTL DEF Spec, AllEvaluatedSingly, AssertionEvaluated

\* Singly in a list that is sorted: what is still to be evaluated in the cycle
\* comes after everything that is marked.
AheadInv ==
    steady /\ mode = "BreakPointOnly" /\ single =>
      /\ due \subseteq Ids(breakpoints)
      /\ \A i \in DOMAIN breakpoints : breakpoints[i].evaluated => breakpoints[i].id \in passed
      /\ \A i, j \in DOMAIN breakpoints :
            breakpoints[i].id \in due \ passed /\ breakpoints[j].evaluated =>
                Rank(breakpoints[j].id) < Rank(breakpoints[i].id)

\* The entry that next_normal_breakpoints marks is before all that is still to be
\* evaluated, also when breakpoints were added in front of it.
LEMMA AheadFetch ==
  ASSUME Inv, Sorted(breakpoints), Distinct(breakpoints), AheadInv, Fetch
  PROVE  AheadInv'
<1>1. /\ NextBreakpoints /\ UNCHANGED <<mode, single, due, steady>>
      /\ passed' = passed \cup {e.id : e \in batch'}
  BY NextList DEF Fetch
<1>2. SUFFICES ASSUME steady, mode = "BreakPointOnly", single PROVE AheadInv'
  BY <1>1 DEF AheadInv
<1>3. NextNormal
  BY <1>1, <1>2 DEF NextBreakpoints
<1>4. CASE NothingNext
  BY <1>1, <1>4 DEF NothingNext, AheadInv
<1>5. ASSUME NEW i \in DOMAIN breakpoints, IsNext(i), HandOut({i}) PROVE AheadInv'
  <2>1. /\ SameIds(breakpoints, breakpoints')
        /\ \A k \in DOMAIN breakpoints :
              breakpoints'[k].evaluated <=> breakpoints[k].evaluated \/ k = i
        /\ breakpoints[i].id \in passed'
    BY <1>1, <1>5, HandOutFlags
  <2>2. Ids(breakpoints') = Ids(breakpoints)
    BY <2>1, SameIdsKept
  <2>3. /\ DOMAIN breakpoints = 1..Len(breakpoints) /\ Len(breakpoints) \in Nat
        /\ \A k \in DOMAIN breakpoints : breakpoints[k].id \in BpId
    <3>1. breakpoints \in Seq(Entry)
      BY DEF Inv, SchedulerTypeOK
    <3>2. \A k \in DOMAIN breakpoints : breakpoints[k] \in Entry
      BY <3>1, ElementOfSeq, LenProperties
    <3>3. QED
      BY <3>1, <3>2, LenProperties DEF Entry
  <2>4. ASSUME NEW m \in DOMAIN breakpoints, breakpoints[m].id \in due \ passed'
        PROVE  Rank(breakpoints[i].id) < Rank(breakpoints[m].id)
    <3>1. breakpoints[m].id \in due \ passed /\ m # i /\ ~breakpoints[m].evaluated
      BY <1>1, <1>2, <2>1, <2>4 DEF AheadInv
    <3>2. ~(m < i)
      <4>1. SUFFICES ASSUME m < i PROVE FALSE
        OBVIOUS
      <4>2. i > 1 /\ i - 1 \in DOMAIN breakpoints /\ breakpoints[i - 1].evaluated
        BY <1>5, <2>3, <4>1 DEF IsNext
      <4>3. m < i - 1
        BY <2>3, <3>1, <4>1, <4>2
      <4>4. Rank(breakpoints[m].id) <= Rank(breakpoints[i - 1].id)
        BY <4>2, <4>3 DEF Sorted
      <4>5. Rank(breakpoints[i - 1].id) < Rank(breakpoints[m].id)
        BY <1>2, <3>1, <4>2 DEF AheadInv
      <4>6. Rank(breakpoints[m].id) \in Nat /\ Rank(breakpoints[i - 1].id) \in Nat
        BY <2>3, <4>2, RankType
      <4>7. QED
        BY <4>4, <4>5, <4>6
    <3>3. i < m
      BY <2>3, <3>1, <3>2
    <3>4. Rank(breakpoints[i].id) <= Rank(breakpoints[m].id)
      BY <3>3 DEF Sorted
    <3>5. breakpoints[i].id # breakpoints[m].id
      BY <3>1 DEF Distinct
    <3>6. QED
      BY <2>3, <3>4, <3>5, RankType
  <2>5. ASSUME NEW m \in DOMAIN breakpoints, breakpoints[m].id \in due \ passed',
               NEW j \in DOMAIN breakpoints, breakpoints'[j].evaluated
        PROVE  Rank(breakpoints[j].id) < Rank(breakpoints[m].id)
    <3>1. CASE j = i
      BY <2>4, <2>5, <3>1
    <3>2. CASE breakpoints[j].evaluated
      <4>1. breakpoints[m].id \in due \ passed
        BY <1>1, <2>5
      <4>2. QED
        BY <1>2, <3>2, <4>1 DEF AheadInv
    <3>3. QED
      BY <2>1, <2>5, <3>1, <3>2
  <2>6. /\ DOMAIN breakpoints' = DOMAIN breakpoints
        /\ \A k \in DOMAIN breakpoints : breakpoints'[k].id = breakpoints[k].id
    BY <2>1 DEF SameIds
  <2>7. \A k \in DOMAIN breakpoints : breakpoints'[k].evaluated => breakpoints[k].id \in passed'
    BY <1>1, <1>2, <2>1 DEF AheadInv
  <2>8. due' \subseteq Ids(breakpoints')
    BY <1>1, <1>2, <2>2 DEF AheadInv
  <2>9. \A m, j \in DOMAIN breakpoints' :
            breakpoints'[m].id \in due' \ passed' /\ breakpoints'[j].evaluated =>
                Rank(breakpoints'[j].id) < Rank(breakpoints'[m].id)
    BY <1>1, <2>5, <2>6
  <2>10. QED
    BY <2>6, <2>7, <2>8, <2>9 DEF AheadInv
<1>6. QED
  BY <1>2, <1>3, <1>4, <1>5, FetchNormal

\* Every step but a failing assertion keeps it.
LEMMA AheadStep ==
  ASSUME DebuggerInv, InsertedOnce, SortInv, PatientInv, AheadInv, [Next]_vars, ~Assertion
  PROVE  AheadInv'
<1>1. Inv /\ DebuggerTypeOK /\ TodoOK
  BY InvParts
<1>2. CASE ~steady' \/ mode' = "None"
  BY <1>2 DEF AheadInv
<1>3. CASE UNCHANGED <<breakpoints, mode, single, due, passed, steady>>
  BY <1>3 DEF AheadInv
<1>4. CASE StartEvaluation
  BY <1>1, <1>4, StartDue DEF AheadInv
<1>5. CASE Fetch
  <2>1. Sorted(breakpoints) /\ Distinct(breakpoints)
    BY <1>1, <1>5, NoSortPending, OnceParts DEF Fetch, SimAt, Parked, SortInv
  <2>2. QED
    BY <1>1, <1>5, <2>1, AheadFetch
<1>6. CASE ServeAdd
  <2>1. PICK id \in Head(todo).ids : AddNormal(id, Head(todo).cond)
    BY <1>6 DEF ServeAdd
  <2>2. Head(todo) \in CallType /\ Head(todo).op = "add"
    BY <1>1, <1>6, HeadTodo DEF ServeAdd, Calling
  <2>3. id \in BpId /\ Head(todo).cond \in Cond
    BY <2>1, <2>2 DEF CallType
  <2>4. UNCHANGED <<mode, single, due, passed, steady>>
    BY <1>1, <1>6, <2>1, <2>3, AddList DEF ServeAdd, history
  <2>5. CASE SameFlags(breakpoints, breakpoints')
    <3>1. Ids(breakpoints') = Ids(breakpoints)
      BY <2>5, SameIdsKept DEF SameFlags
    <3>2. QED
      BY <2>4, <2>5, <3>1 DEF AheadInv, SameFlags, SameIds
  <2>6. ASSUME id \notin inserted, NEW new \in Seq(Entry), breakpoints' = breakpoints \o new,
               \A k \in DOMAIN new : new[k].id = id /\ ~new[k].evaluated
        PROVE  AheadInv'
    <3>1. breakpoints \in Seq(Entry)
      BY <1>1 DEF Inv, SchedulerTypeOK
    <3>2. Ids(breakpoints) \subseteq Ids(breakpoints')
      BY <2>6, <3>1, ConcatIds
    <3>3. id \notin Ids(breakpoints)
      BY <2>6 DEF InsertedOnce
    <3>4. \A i \in DOMAIN breakpoints' :
             \/ i \in DOMAIN breakpoints /\ breakpoints'[i] = breakpoints[i]
             \/ breakpoints'[i].id = id /\ ~breakpoints'[i].evaluated
      <4>1. /\ breakpoints' \in Seq(Entry) /\ Len(breakpoints') = Len(breakpoints) + Len(new)
            /\ \A i \in 1..(Len(breakpoints) + Len(new)) : breakpoints'[i] =
                  IF i <= Len(breakpoints) THEN breakpoints[i] ELSE new[i - Len(breakpoints)]
        BY <2>6, <3>1, ConcatProperties
      <4>2. /\ DOMAIN breakpoints = 1..Len(breakpoints) /\ Len(breakpoints) \in Nat
            /\ DOMAIN new = 1..Len(new) /\ Len(new) \in Nat
            /\ DOMAIN breakpoints' = 1..(Len(breakpoints) + Len(new))
        BY <3>1, <4>1, LenProperties
      <4>3. QED
        BY <2>6, <4>1, <4>2
    <3>5. steady /\ mode = "BreakPointOnly" /\ single => id \notin due
      BY <3>3 DEF AheadInv
    <3>6. QED
      BY <2>4, <3>2, <3>4, <3>5 DEF AheadInv
  <2>7. QED
    BY <1>1, <2>1, <2>3, <2>5, <2>6, AddList
<1>7. ASSUME Drawn(breakpoints, breakpoints'),
             passed' = passed \ (Ids(breakpoints) \ Ids(breakpoints')),
             due' = due \ (Ids(breakpoints) \ Ids(breakpoints')),
             UNCHANGED <<mode, single, steady>>
      PROVE  AheadInv'
  <2>1. SUFFICES ASSUME steady, mode = "BreakPointOnly", single PROVE AheadInv'
    BY <1>7 DEF AheadInv
  <2>2. \A k \in DOMAIN breakpoints' : breakpoints'[k].id \in Ids(breakpoints')
    BY DEF Ids
  <2>3. due' \subseteq Ids(breakpoints')
    BY <1>7, <2>1 DEF AheadInv
  <2>4. \A k \in DOMAIN breakpoints' : breakpoints'[k].evaluated => breakpoints'[k].id \in passed'
    BY <1>7, <2>1, <2>2 DEF AheadInv, Drawn
  <2>5. ASSUME NEW k \in DOMAIN breakpoints', breakpoints'[k].id \in due' \ passed',
               NEW l \in DOMAIN breakpoints', breakpoints'[l].evaluated
        PROVE  Rank(breakpoints'[l].id) < Rank(breakpoints'[k].id)
    <3>1. PICK i \in DOMAIN breakpoints : breakpoints'[k].id = breakpoints[i].id
      BY <1>7 DEF Drawn
    <3>2. PICK j \in DOMAIN breakpoints :
             breakpoints'[l].id = breakpoints[j].id /\ breakpoints[j].evaluated
      BY <1>7, <2>5 DEF Drawn
    <3>3. breakpoints[i].id \in due \ passed
      BY <1>7, <2>2, <2>5, <3>1
    <3>4. Rank(breakpoints[j].id) < Rank(breakpoints[i].id)
      BY <2>1, <3>2, <3>3 DEF AheadInv
    <3>5. QED
      BY <3>1, <3>2, <3>4
  <2>6. QED
    BY <2>3, <2>4, <2>5 DEF AheadInv
<1>8. CASE ServeRemove \/ ServeClear
  BY <1>1, <1>7, <1>8, RemoveDrawn
<1>9. CASE ServeReorder
  <2>1. Drawn(breakpoints, breakpoints') /\ Ids(breakpoints') = Ids(breakpoints)
    BY <1>1, <1>9, ReorderDrawn DEF ServeReorder
  <2>2. UNCHANGED <<mode, single, due, passed, steady>>
    BY <1>9 DEF ServeReorder, Reorder, history
  <2>3. QED
    BY <1>7, <2>1, <2>2
<1>10. QED
  BY <1>1, <1>2, <1>3, <1>4, <1>5, <1>6, <1>8, <1>9, CycleFrame
  DEF Next, SimStep, ServerStep

\* With patient clients that add breakpoints by source position, one namespace and
\* no assertions, a cycle in single_thread_mode_ evaluates every breakpoint that
\* was there when it started and has not been removed, though breakpoints are
\* added and the list is sorted again while a hit is looked at.
THEOREM BreakpointsEvaluatedSingly ==
  ASSUME Patient, OneNamespace, ~AddsUnsorted, Asserts = {}
  PROVE  Spec => AllEvaluatedSingly
<1> DEFINE I == DebuggerInv /\ InsertedOnce /\ SortInv /\ PatientInv /\ AheadInv
           Ends == sim = "next" /\ sim' = "edge" /\ steady /\ mode = "BreakPointOnly" /\ single
<1>1. Init => I
  <2>1. Init => AheadInv
    BY DEF Init, AheadInv
  <2>2. QED
    BY <2>1, InitDebugger, PatientInit, CycleInit
<1>2. I /\ [Next]_vars => I'
  <2>1. ~Assertion
    BY DEF Assertion
  <2>2. UNCHANGED vars /\ InsertedOnce /\ SortInv => InsertedOnce' /\ SortInv'
    BY DEF vars, svars, dvars, InsertedOnce, SortInv
  <2>3. QED
    BY <2>1, <2>2, DebuggerStep, OnceStep, SortStep, PatientStep, AheadStep
<1>3. I /\ [Next]_vars => (Ends => due \subseteq passed)
  <2> SUFFICES ASSUME I, [Next]_vars, Ends, NEW id \in due, id \notin passed PROVE FALSE
    OBVIOUS
  <2>1. Inv /\ Fetch /\ TodoOK
    BY InvParts, NextIsFetch
  <2>2. \A j \in DOMAIN breakpoints : ~IsNext(j)
    BY <2>1, CycleEnds
  <2>3. id \in Ids(breakpoints)
    BY DEF AheadInv
  <2>4. PICK i \in DOMAIN breakpoints : id = breakpoints[i].id
    BY <2>3 DEF Ids
  <2>5. breakpoints \in Seq(Entry)
    BY <2>1 DEF Inv, SchedulerTypeOK
  <2>6. /\ DOMAIN breakpoints = 1..Len(breakpoints) /\ Len(breakpoints) \in Nat
        /\ breakpoints # <<>>
        /\ \A k \in DOMAIN breakpoints : breakpoints[k] \in Entry
    BY <2>4, <2>5, ElementOfSeq, LenProperties
  <2> DEFINE n == Len(breakpoints)
  <2>7. n \in DOMAIN breakpoints /\ breakpoints[n].evaluated
    BY <2>1, <2>2, <2>6, NothingLeft
  <2>8. Rank(breakpoints[n].id) < Rank(breakpoints[i].id)
    BY <2>4, <2>7 DEF AheadInv
  <2>9. ~breakpoints[i].evaluated
    BY <2>4 DEF AheadInv
  <2>10. i < n
    BY <2>6, <2>7, <2>9
  <2>11. Sorted(breakpoints)
    BY <2>1, NoSortPending DEF Fetch, SimAt, Parked, SortInv
  <2>12. Rank(breakpoints[i].id) <= Rank(breakpoints[n].id)
    BY <2>7, <2>10, <2>11 DEF Sorted
  <2>13. Rank(breakpoints[i].id) \in Nat /\ Rank(breakpoints[n].id) \in Nat
    BY <2>6, <2>7, RankType DEF Entry
  <2>14. QED
    BY <2>8, <2>12, <2>13
<1>4. QED
  BY <1>1, <1>2, <1>3, PTL DEF Spec, AllEvaluatedSingly
=============================================================================
