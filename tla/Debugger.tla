------------------------------ MODULE Debugger ------------------------------
(***************************************************************************)
(* The debugger (src/debug.cc) as two threads around the scheduler: the    *)
(* simulation thread, which runs eval() at every positive clock edge, and  *)
(* the server thread, which handles the clients' requests one at a time.   *)
(* A request is handled in several calls and the simulation thread runs    *)
(* between them: the scheduler's lock covers a call, not a request.        *)
(*                                                                         *)
(* The lock that parks the simulation thread is the auto-reset event that  *)
(* RuntimeLock is proved to implement.  The model starts when the first    *)
(* connection request has succeeded; what a signal's value is, and so      *)
(* whether a breakpoint hits, is left open.                                *)
(***************************************************************************)
EXTENDS Scheduler

CONSTANTS
    Requests,  \* the kinds of requests clients send
    Patient    \* TRUE: clients send one only while the simulation is parked

VARIABLES
    sim,       \* the simulation thread's place in run() and eval()
    hits,      \* the breakpoints of the batch that were triggered
    signal,    \* lock_: a signal is pending
    todo,      \* the calls left of the request the server thread handles
    pause,     \* pause_at_posedge
    attached,  \* the clock callbacks are registered
    running,   \* is_running_
    connected, \* a client is connected
    finished,  \* the simulator has been told to finish
    freed,     \* the breakpoints of the batch that a request has erased
    misuse,    \* the undefined use of a breakpoint by eval(), or "none"
    due,       \* history: ids to be evaluated in this cycle, and still there
    passed,    \* history: ids handed out in this cycle, and still there
    steady     \* history: mode and single_thread_mode_ have not changed since then

dvars == <<sim, hits, signal, todo, pause, attached, running, connected,
           finished, freed, misuse, due, passed, steady>>
vars == <<svars, dvars>>

history == <<due, passed, steady>>
session == <<pause, attached, running, connected, finished>>

Parked == {"run_wait", "pause_wait", "hit_wait"}
SimPc == Parked \cup {"edge", "start", "next", "eval", "report", "done"}

Init ==
    /\ SchedulerInit
    /\ sim = "run_wait"
    /\ hits = {}
    /\ signal = FALSE
    /\ todo = <<>>
    /\ pause = FALSE
    /\ attached = TRUE
    /\ running = TRUE
    /\ connected = TRUE
    /\ finished = FALSE
    /\ freed = {}
    /\ misuse = "none"
    /\ due = {} /\ passed = {} /\ steady = FALSE

\* No undefined step has been taken: what follows one is not modelled.
Alive == fault = "none" /\ misuse = "none"

-----------------------------------------------------------------------------
(* The simulation thread: run() and eval()                                 *)

SimAt(pc) == Alive /\ sim = pc

\* lock_.wait() returns, in run(), at the head of eval() or after a hit.
Resume ==
    /\ Alive /\ sim \in Parked
    /\ signal
    /\ signal' = FALSE
    /\ sim' = CASE sim = "run_wait"   -> "edge"
                [] sim = "pause_wait" -> "start"
                [] sim = "hit_wait"   -> "next"
    /\ hits' = {}
    /\ UNCHANGED <<svars, todo, session, freed, misuse, history>>

\* A positive clock edge: eval_hgdb_on_clk calls eval().
ClockEdge ==
    /\ SimAt("edge") /\ ~finished
    /\ attached
    /\ sim' = IF pause THEN "pause_wait" ELSE "start"
    /\ UNCHANGED <<svars, hits, signal, todo, session, freed, misuse, history>>

\* A clock edge after the callbacks have been removed.
FreeRun ==
    /\ SimAt("edge") /\ ~finished
    /\ ~attached
    /\ UNCHANGED vars

\* The simulator finishes, as a stop command told it to.
Finish ==
    /\ SimAt("edge") /\ finished
    /\ sim' = "done"
    /\ UNCHANGED <<svars, hits, signal, todo, session, freed, misuse, history>>

Finished ==
    /\ SimAt("done")
    /\ UNCHANGED vars

\* The design's assertion task fails between two edges: handle_assert.
Assertion ==
    /\ SimAt("edge")
    /\ Len(breakpoints) < MaxBps
    /\ \E a \in Asserts : AddAssert(a[1], a[2])
    /\ UNCHANGED dvars

StartEvaluation ==
    /\ SimAt("start")
    /\ Start
    /\ sim' = "next"
    /\ due' = {breakpoints[i].id : i \in {j \in DOMAIN breakpoints :
                   ~(breakpoints[j].type = {"assert"} /\ breakpoints[j].evaluated)}}
    /\ passed' = {}
    /\ steady' = TRUE
    /\ UNCHANGED <<hits, signal, todo, session, freed, misuse>>

\* next_breakpoints(); an empty answer ends the cycle.
Fetch ==
    /\ SimAt("next")
    /\ NextBreakpoints
    /\ sim' = IF batch' = {} THEN "edge" ELSE "eval"
    /\ freed' = {}
    /\ passed' = passed \cup {e.id : e \in batch'}
    /\ UNCHANGED <<hits, signal, todo, session, misuse, due, steady>>

BreakpointOnly == mode \in {"BreakPointOnly", "ReverseBreakpointOnly"}

IsTemporary(e) == e.expr = NoCond

SameEntry(e, d) == e.id = d.id /\ e.ns = d.ns

\* The expression eval_breakpoint looks at, which a request may have replaced.
CanTrigger(e) ==
    IF BreakpointOnly
    THEN \E i \in DOMAIN breakpoints :
            SameEntry(breakpoints[i], e) /\ breakpoints[i].expr \notin BadCond
    ELSE e.enable \notin BadCond

\* eval_breakpoints, on every breakpoint of the batch.
Evaluate ==
    /\ SimAt("eval")
    /\ \/ /\ freed # {}
          /\ misuse' = "freed breakpoint"
          /\ UNCHANGED <<sim, hits>>
       \/ /\ \E e \in batch : IsTemporary(e)
          /\ BreakpointOnly
          /\ misuse' = "null expression"
          /\ UNCHANGED <<sim, hits>>
       \/ /\ freed = {} /\ (BreakpointOnly => \A e \in batch : ~IsTemporary(e))
          /\ \E H \in SUBSET {e \in batch : CanTrigger(e)} :
                /\ hits' = H
                /\ sim' = IF H = {} THEN "next" ELSE "report"
          /\ UNCHANGED misuse
    /\ UNCHANGED <<svars, signal, todo, session, freed, history>>

\* send_breakpoint_hit reads the breakpoints again, then lock_.wait().
Report ==
    /\ SimAt("report")
    /\ IF hits \cap freed # {}
       THEN misuse' = "freed breakpoint" /\ UNCHANGED sim
       ELSE sim' = "hit_wait" /\ UNCHANGED misuse
    /\ UNCHANGED <<svars, hits, signal, todo, session, freed, history>>

SimStep ==
    \/ Resume \/ ClockEdge \/ FreeRun \/ Finish \/ Finished
    \/ StartEvaluation \/ Fetch \/ Evaluate \/ Report

-----------------------------------------------------------------------------
(* The clients' requests: what each becomes for the server thread.         *)

Locations == {Loc[id] : id \in BpId}
At(l) == {id \in BpId : Loc[id] = l}

Add(ids, c) == [op |-> "add", ids |-> ids, cond |-> c]
Remove(ids) == [op |-> "remove", ids |-> ids]
ModeTo(m)   == [op |-> "mode", mode |-> m]
Call(op)    == [op |-> op]

\* Mutant: detach leaves the evaluation mode as it is.
Detach_KeepsMode == <<Call("unregister"), Call("release")>>

\* Debugger::detach: the callbacks go first, the lock is released last.
Detach == <<Call("unregister"), ModeTo("None"), Call("release")>>

Ask(kind, calls) ==
    /\ kind \in Requests
    /\ Alive /\ connected /\ ~finished
    /\ todo = <<>>
    /\ Patient => sim \in Parked /\ ~signal
    /\ todo' = calls
    /\ UNCHANGED <<svars, sim, hits, signal, session, freed, misuse, history>>

\* Mutant: the list is not sorted after the insertion.
AddAtLocation_NoSort(l, c) == Ask("add location", <<Add(At(l), c)>>)

\* handle_breakpoint, add: every breakpoint at the position, then the sort.
AddAtLocation(l, c) == Ask("add location", <<Add(At(l), c), Call("reorder")>>)

\* handle_breakpoint, remove
RemoveAtLocation(l) == Ask("remove location", <<Remove(At(l))>>)

\* handle_breakpoint_id: no sort.
AddById(id, c) == Ask("add id", <<Add({id}, c)>>)

RemoveById(id) == Ask("remove id", <<Remove({id})>>)

\* handle_command
Continue        == Ask("continue", <<ModeTo("BreakPointOnly"), Call("ready")>>)
StepOver        == Ask("step over", <<ModeTo("StepOver"), Call("ready")>>)
StepBack        == Ask("step back", <<ModeTo("StepBack"), Call("ready")>>)
ReverseContinue == Ask("reverse", <<ModeTo("ReverseBreakpointOnly"), Call("ready")>>)
Jump            == Ask("jump", <<Call("ready")>>)
Stop            == Ask("stop", <<Call("clear"), ModeTo("None"), Call("finish")>> \o Detach)

\* handle_option_change
ChangeOption ==
    \/ \E b \in BOOLEAN : Ask("single", <<[op |-> "single", value |-> b]>>)
    \/ \E b \in BOOLEAN : Ask("pause", <<[op |-> "pause", value |-> b]>>)

\* The last client goes away, detach_after_disconnect_ being set.
Disconnect ==
    /\ "disconnect" \in Requests
    /\ Alive /\ connected
    /\ todo = <<>>
    /\ connected' = FALSE
    /\ todo' = Detach
    /\ UNCHANGED <<svars, sim, hits, signal, pause, attached, running, finished,
                   freed, misuse, history>>

Request ==
    \/ \E l \in Locations, c \in Cond : AddAtLocation(l, c)
    \/ \E l \in Locations : RemoveAtLocation(l)
    \/ \E id \in BpId, c \in Cond : AddById(id, c)
    \/ \E id \in BpId : RemoveById(id)
    \/ Continue \/ StepOver \/ StepBack \/ ReverseContinue \/ Jump \/ Stop
    \/ ChangeOption
    \/ Disconnect

-----------------------------------------------------------------------------
(* The server thread: the calls of the request, one by one.                *)

Calling(op) == Alive /\ todo # <<>> /\ Head(todo).op = op

Done == todo' = Tail(todo)

\* The call is done for one of its breakpoints.
DoneFor(id) ==
    todo' = IF Head(todo).ids = {id} THEN Tail(todo)
            ELSE [todo EXCEPT ![1].ids = @ \ {id}]

\* Erased entries are freed, also those eval() holds a pointer to, and ids that
\* leave the list leave the history with it.
Forget ==
    LET left == {e \in batch : \E i \in DOMAIN breakpoints' : SameEntry(breakpoints'[i], e)}
        gone == Ids(breakpoints) \ Ids(breakpoints')
    IN  /\ freed' = freed \cup {e \in batch \ left : ~IsTemporary(e)}
        /\ due' = due \ gone
        /\ passed' = passed \ gone

ServeAdd ==
    /\ Calling("add")
    /\ \E id \in Head(todo).ids : AddNormal(id, Head(todo).cond) /\ DoneFor(id)
    /\ UNCHANGED <<sim, hits, signal, session, freed, misuse, history>>

ServeRemove ==
    /\ Calling("remove")
    /\ \E id \in Head(todo).ids : RemoveFlag(id, "normal") /\ DoneFor(id)
    /\ Forget
    /\ UNCHANGED <<sim, hits, signal, session, misuse, steady>>

ServeReorder ==
    /\ Calling("reorder")
    /\ Reorder
    /\ Done
    /\ UNCHANGED <<sim, hits, signal, session, freed, misuse, history>>

ServeClear ==
    /\ Calling("clear")
    /\ ClearAll
    /\ Done
    /\ Forget
    /\ UNCHANGED <<sim, hits, signal, session, misuse, steady>>

\* set_evaluation_mode: nothing when the mode is the same, else two steps.
ServeMode ==
    /\ Calling("mode")
    /\ IF mode = Head(todo).mode
       THEN Done /\ UNCHANGED <<svars, steady>>
       ELSE /\ UnsetFlags
            /\ todo' = [todo EXCEPT ![1].op = "assign"]
            /\ steady' = FALSE
    /\ UNCHANGED <<sim, hits, signal, session, freed, misuse, due, passed>>

ServeAssign ==
    /\ Calling("assign")
    /\ AssignMode(Head(todo).mode)
    /\ Done
    /\ UNCHANGED <<sim, hits, signal, session, freed, misuse, history>>

ServeReady ==
    /\ Calling("ready")
    /\ signal' = TRUE
    /\ Done
    /\ UNCHANGED <<svars, sim, hits, session, freed, misuse, history>>

ServeSingle ==
    /\ Calling("single")
    /\ SetSingle(Head(todo).value)
    /\ steady' = (steady /\ single' = single)
    /\ Done
    /\ UNCHANGED <<sim, hits, signal, session, freed, misuse, due, passed>>

ServePause ==
    /\ Calling("pause")
    /\ pause' = Head(todo).value
    /\ Done
    /\ UNCHANGED <<svars, sim, hits, signal, attached, running, connected, finished,
                   freed, misuse, history>>

ServeFinish ==
    /\ Calling("finish")
    /\ finished' = TRUE
    /\ Done
    /\ UNCHANGED <<svars, sim, hits, signal, pause, attached, running, connected,
                   freed, misuse, history>>

ServeUnregister ==
    /\ Calling("unregister")
    /\ attached' = FALSE
    /\ Done
    /\ UNCHANGED <<svars, sim, hits, signal, pause, running, connected, finished,
                   freed, misuse, history>>

\* The end of detach: only the first one releases the simulation.
ServeRelease ==
    /\ Calling("release")
    /\ running' = FALSE
    /\ signal' = (signal \/ running)
    /\ Done
    /\ UNCHANGED <<svars, sim, hits, pause, attached, connected, finished, freed, misuse,
                   history>>

ServerStep ==
    \/ ServeAdd \/ ServeRemove \/ ServeReorder \/ ServeClear \/ ServeMode
    \/ ServeAssign \/ ServeReady \/ ServeSingle \/ ServePause \/ ServeFinish
    \/ ServeUnregister \/ ServeRelease

-----------------------------------------------------------------------------
Next == SimStep \/ Assertion \/ Request \/ ServerStep

Spec == Init /\ [][Next]_vars

\* The simulator keeps simulating unless lock_ parks it, and the server thread
\* handles what it has received.  Nobody has to send anything.
FairSpec ==
    /\ Spec
    /\ WF_vars(SimStep)
    /\ WF_vars(ServerStep)

-----------------------------------------------------------------------------
TypeOK ==
    /\ SchedulerTypeOK
    /\ sim \in SimPc
    /\ hits \subseteq Entry
    /\ signal \in BOOLEAN
    /\ pause \in BOOLEAN /\ attached \in BOOLEAN /\ running \in BOOLEAN
    /\ connected \in BOOLEAN /\ finished \in BOOLEAN
    /\ freed \subseteq Entry
    /\ misuse \in {"none", "freed breakpoint", "null expression"}
    /\ due \subseteq BpId /\ passed \subseteq BpId /\ steady \in BOOLEAN

\* Between requests the list is in execution order, whatever was added and
\* removed while the simulation ran or was parked.
SortedWhenIdle == todo = <<>> => Sorted(breakpoints)

\* A breakpoint that is inserted once is in the list once, and the scheduler
\* knows it (one namespace, no data breakpoint, no assertion).
InsertedOnce ==
    /\ Ids(breakpoints) = inserted
    /\ \A i, j \in DOMAIN breakpoints : breakpoints[i].id = breakpoints[j].id => i = j

\* In a cycle eval() only goes forward in execution order, handing out nothing
\* twice, until the client changes direction: "when user add new breakpoints to the list that has high
\* priority, we need to skip then and evaluate them at the next evaluation cycle".
ForwardOnly ==
    [][sim = "next" /\ sim' = "eval" /\ steady /\ mode \in {"BreakPointOnly", "StepOver"} =>
         \A e \in batch' : \A id \in passed : Rank(id) < Rank(e.id)]_vars

\* At each clock edge every inserted breakpoint is evaluated: when the cycle
\* ends, all that were in the list when it started, and still are, have been
\* handed out.
AllEvaluated ==
    [][sim = "next" /\ sim' = "edge" /\ steady /\ mode = "BreakPointOnly" =>
         due \subseteq passed]_vars

\* The same for single_thread_mode_, where breakpoints are handed out singly.
AllEvaluatedSingly ==
    [][sim = "next" /\ sim' = "edge" /\ steady /\ mode = "BreakPointOnly" /\ single =>
         due \subseteq passed]_vars

\* When the cycle ends in single_thread_mode_, every assertion in the list has
\* been evaluated, also next to an inserted breakpoint of the same id.
AssertionEvaluated ==
    [][sim = "next" /\ sim' = "edge" /\ steady /\ mode = "BreakPointOnly" /\ single =>
         \A i \in DOMAIN breakpoints :
             "assert" \in breakpoints[i].type => breakpoints[i].evaluated]_vars

\* "If none of the breakpoints can be triggered, hgdb unpauses the simulation":
\* eval() does not go round its loop for ever.
EvaluationEnds == sim = "start" ~> sim \in {"edge", "hit_wait"} \/ ~Alive

\* When the last client has gone the simulation runs on by itself, wherever it
\* was and whatever had been asked of it.
DetachFrees == ~connected ~> ([](sim \in {"edge", "done"}) \/ ~Alive)
=============================================================================
