# A TLA+ model of hgdb

hgdb is a debugger for generated hardware. It is loaded into a Verilog simulator
through VPI, stops the simulation at clock edges, evaluates breakpoints that come
from a symbol table, and talks to clients (IDEs, a console) over a WebSocket. This
directory models the part of it that decides *which breakpoints are evaluated and
when the simulation stops* (the lock between its two threads, the scheduler, the
evaluation loop with the requests that change it, the monitor), *what a breakpoint
and an expression mean* (the symbol table, the expression language), *who may ask for
what* (the session, the protocol, the namespaces) and *the simulator that replays a
recorded trace*.

Paths below are relative to the repository (`src/debug.cc` is the debugger).

## Inventory

| Component | State | Operations | Used by / uses |
|---|---|---|---|
| Runtime lock, `src/thread.cc` | mutex, `ready_`, condition variable | `wait`, `ready` | parks the simulation thread; the server thread releases it |
| Scheduler, `src/scheduler.cc` | `breakpoints_`, `inserted_breakpoints_`, `current_breakpoint_id_`, `evaluation_mode_` | add / remove / clear for normal, data and assertion breakpoints, sort, start of a cycle, `next_breakpoints` in five modes | both threads of the debugger |
| Debugger, `src/debug.cc` | `is_running_`, `pause_at_posedge`, `detach_after_disconnect_`, the lock, caches | `run`, `eval` (simulation thread); one handler per request (server thread); `detach` | scheduler, monitor, server, symbol table, simulator |
| Monitor, `src/monitor.cc` | `watched_variables_`, `watch_id_count_`, value cells, delay buffers | add / remove watches, value updates, `var_changed` | debugger |
| Server, `src/server.cc` | connections, topics | open, close, message, send | calls the debugger's handlers and `detach` |
| Namespaces, `src/namespace.cc` | one RTL client and monitor per instantiation of the design, `mapped_namespaces_` | mapping of instances, choice of a namespace | scheduler, debugger |
| Simulator client, `src/rtl.cc` | callbacks, handle caches, rewind data | values, callbacks, rewind, finish | debugger |
| Simulator entry points, `src/sim.cc` | the debugger object | start, teardown | simulator |
| Expressions, `src/eval.cc` | an expression tree and its symbols | parse, `eval`, `correct` | scheduler, debugger |
| Symbol table, `src/db.cc`, `src/symbol.cc` | SQL, JSON or remote tables, path mapping | breakpoint, instance and variable queries, execution order | both threads of the debugger |
| Protocol, `src/proto.cc` | none | parse a request, build a response | debugger |
| Replay, `tools/hgdb-replay` | time, clock values, VPI emulation | `run` loop, rewind | stands in for a simulator |
| VCD, FSDB, db tools, bindings | - | file readers, printers, clients | - |

**How they interact.** The simulator calls `eval()` on its own thread at every
positive clock edge. `eval()` asks the scheduler for a batch of breakpoints,
evaluates it, and on a hit sends a message and calls `lock_.wait()`. The server
thread handles one request at a time; handlers call the scheduler and the monitor
directly, and the commands call `lock_.ready()`. The scheduler's lock protects one
call, not a request, and `next_breakpoints` hands out raw pointers.

**What is hard.** A request may arrive at any point of an evaluation, or while the
simulation thread is on its way to park. The place in the breakpoint list is
recomputed from flags after every wake-up, while the list was edited. Three kinds of
breakpoints, several namespaces and ids that are looked up by "the first entry"
interact. The end of a session has to release a thread that may be anywhere. A table
can be replaced, or fail to load, under a scheduler built on the one before; both
threads may query a remote table over one connection. The JSON table keeps addresses
into entries that it sorts and merges again; the parser's actions are not undone when
it backtracks; a replay goes back and forth in unsigned time. The full list, line by
line, is under `hazards` in `PROJECT.json`.

**What makes it correct**, by component: the lock loses no wake-up and lets one
`wait` pass for one signal; the scheduler's two views of what is inserted agree, a
batch is one source position, a cycle evaluates every inserted breakpoint, goes
forward and ends; a detach frees the simulation; a variable has one watch, the RTL
names of a source variable share one stored value, a delayed variable is late by
exactly its depth. A loaded table counts its breakpoints and instances without gaps,
finds a breakpoint where it says it is, and gives it the variables in scope, the newest
first. An expression means what precedence demands and is evaluated with current
values. A replay meets the edges in order and shows the design before each. Every
request has one answer, and a session whose clients keep to the protocol does not
crash the simulator.

## Modules

| Module | Models | State | Actions |
|---|---|---|---|
| `RuntimeEvent` | what the lock promises: an auto-reset event | `signal`, `waiting`, `calling`, `raised` | `Pass` is a `wait` that returns, `Raise` a `ready` |
| `RuntimeLock` | `src/thread.cc`, one step per access to the mutex, the flag and the condition variable | `m`, `ready`, `blocked`, `pc` | the lines of `wait` and `ready`, with spurious wake-ups |
| `RuntimeLockProofs` | theorems about `RuntimeLock` | | |
| `Scheduler` | `src/scheduler.cc`, one action per public method | the four members above, `single` (the option), `batch` (what the last `next_breakpoints` returned), `fault` | `AddNormal`, `AddData`, `AddAssert`, `RemoveFlag`, `ClearData`, `Reorder`, `ClearAll`, `Start`, `UnsetFlags` and `AssignMode` (`set_evaluation_mode`), `NextBreakpoints` |
| `SchedulerProofs` | theorems about `Scheduler` | | |
| `Debugger` | `run`, `eval`, the breakpoint, command and option handlers, `detach`; EXTENDS `Scheduler` | `sim` (the place in `run`/`eval`), `todo` (the calls left of the request being handled), `signal` (the lock, as the event `RuntimeLock` implements), session flags, history variables | simulation thread: `Resume`, `ClockEdge`, `StartEvaluation`, `Fetch`, `Evaluate`, `Report`, ...; clients: one action per request; server thread: one `Serve...` action per call |
| `DebuggerProofs` | theorems about `Debugger`; EXTENDS `SchedulerProofs` | | |
| `Monitor` | `src/monitor.cc` and the calls of `src/debug.cc` to it | `watched`, `cell`, `watchId`, `delayed`, the signal trace | add watches, remove any watch by its track id, data breakpoints, delayed variables, clock edge, `var_changed` |
| `MonitorProofs` | theorems about `Monitor` | | |
| `JsonTable` | `JSONSymbolTableProvider` of `src/db.cc`, the name resolution of `src/symbol.cc` | the document, `roots_`, `module_defs_`, the counters | `Parse`, `LoadRoot` (one root: instance tree, reordering, numbering), `DropOnError`; the queries are operators |
| `Expression` | `DebugExpression` of `src/eval.cc`, `validate_expr`, the signal cache of `src/debug.cc`; the parser and the operators are parameters | the text, the expression, the cache, the signals | `Construct`, `Validate`, `ResolveSymbol`, `NextNamespace`; `SetExprValues` with the steps of `get_signal_value`: `LookUp` (under the lock), `FetchRtl` (without it), `StoreOwn` (under it again); `EvalNow`; beside it another reader (`FetchOther`, `StoreOther`) and what changes values and the cache: `Advance`, `StartEvaluation`, `SetRtl` and `EraseCached` (`handle_set_value`), `HandleOptionChange` |
| `ExpressionParser` | the grammar with the parser's stacks and the operators of `src/eval.cc`, the reference; EXTENDS `Expression` | | operators |
| `ExpressionProofs` | the theorem about `Expression` | | |
| `Replay` | `tools/hgdb-replay`: the emulation loop and the VPI it offers, the callbacks of `src/rtl.cc` | timestamps, callbacks, watched and overridden values, the loop's locals | `Schedule`, `Fire`, `Return`, `Advance`, ...; `ReverseLastPosedge`, `Jump`, `Connect`, `Detach`, `FinishSim` inside a callback |
| `ReplayProofs` | theorems about `Replay` | | |
| `Protocol` | `src/proto.cc`: which documents are which requests; the messages of a remote table | | operators |
| `NetworkTable` | `WSNetworkProvider` and `get_resp` of `src/symbol.cc`, the other end included | the pending queries, the mutex, `payload_`, `has_message_` | `Send`, `Lock`, `Receive`, `Answer`, `Reopen` |
| `Hierarchy` | `src/rtl.cc`: where the design holds the design of a table, full names | | operators |
| `Session` | `src/server.cc`, every handler of `src/debug.cc`, `src/namespace.cc`, `src/sim.cc`; EXTENDS `Protocol`, `NetworkTable`, `Hierarchy` | connections, inboxes, responses, topics, `db_`, `scheduler_`, namespaces, watches, the two threads, `crash` | clients: `Open`, `Ask`, `Close`; server thread: `Take`, one `Handle...` per request, the steps of a connection; simulation thread: start, edge, hit, wait, teardown |
| `SessionProofs` | theorems about `Session`: queries and responses | | |
| `SessionSafetyProofs` | the theorem about orderly sessions; EXTENDS `SessionProofs` | | |
| `MC...` | small instances for TLC | | |

Choices that hold throughout:

- *Data.* A breakpoint is its id, namespace, type flags, `evaluated` flag and the
  names of its expressions. Its position, instance and execution order are functions
  of the id. An expression is valid or not (`BadCond`), and whether it is true is a
  free choice in `Evaluate`.
- *Atomicity.* A scheduler call is one step, except `set_evaluation_mode`, which
  holds no lock and takes two. A request is the sequence of its calls in `todo`; the
  simulation thread runs between them. A race inside `std::vector` itself is not
  modelled.
- *Sort.* `std::sort` is not stable: `Reorder` may permute entries of one id.
- *Undefined behaviour.* A null dereference or the use of an erased breakpoint sets
  `fault` or `misuse` and ends the behaviour; `freed` holds the breakpoints of the
  current batch that a request has erased, a later re-insertion being another object. Reading the empty optional in
  `next_reverse_breakpoints` may also yield any position of the list.
- *Names and texts.* A dotted name is the sequence of its parts, a file name its
  directory and base name, a text the sequence of its characters (one for a whole
  identifier or number), a JSON document a function from member names to values with
  their JSON kind.
- *Two views of the debugger.* `Debugger` has the evaluation in full and starts in a
  connected session; `Session` has everything that outlives a request and takes from
  the evaluation only that an inserted breakpoint may hit. `NetworkTable` and `Debugger`
  use the event that `RuntimeLock` is proved to implement.
- *Temporaries.* Step over and step back return breakpoints that are not in the list
  and have no expression (`NoCond`).

## Runs

| Run | Question | States |
|---|---|---|
| `runtime_lock` | Two waiters, two setters: no lost wake-up (`NoLostWakeup`, and `IInv`, its inductive form), refinement of the event (`ImplementsEvent`), a pending signal is consumed (`SignalConsumed`) | 2 152 |
| `scheduler` | Any order of scheduler calls, one id that may be a normal, a data and an assertion breakpoint, conditions and variables that cannot be resolved: entries always keep a type flag (`SchedulerTypeOK`), inserted ids have an entry (`InsertedTracked`) | 238 000 |
| `debugger_commands` | All commands and options, edits by location, a simulator that may or may not rewind: `BatchOneLocation`, `ForwardOnly`, `AllEvaluatedSingly`, `TypeOK` | 131 000 |
| `debugger_concurrent` | Requests at any moment, stop and disconnect: `InsertedOnce`, `SortedWhenIdle`, and the liveness property `DetachFrees` | 260 000 |
| `debugger_assertions` | Failing assertions of the design between clock edges, with edits of the same ids, steps forward and back: `AssertionEvaluated`, `AllEvaluatedSingly`, and `EvaluationEnds` | 1.2 million |
| `monitor_data` | Watches and data breakpoints on two RTL names of one variable, removed by any track id: `OneWatch`, `SharedCell` | 2.8 million |
| `monitor_delay` | Delayed variables over every trace of two signals, whose buffers clients may remove: `DelayedValue` | 740 000 |
| `symbols` | Every document with three entries of nine kinds in the block of the top module, one or two roots that share a child, with and without reordering, with references that cannot be resolved, constants, a variable whose RTL name is the source name of another, and assignments to elements: `IdsDense`, `BreakpointsAlive`, `InstanceIdsInverse`, `LinesInOrder`, `LocationFindsBreakpoint`, `ContextInScope`, `ResolvesToNewest`, `AssignmentsFound`, `NoUndefinedVariable` | 33 000 |
| `expressions` | Every text of up to five characters and every pair of binary operators with brackets and unary operators; some expressions evaluated while, between any two steps of a read, values, time and cache change: `ParsesAsReference`, `GuardedDivision`, `EvaluatesCurrent` | 3.5 million |
| `replay` | One clock, two clocks at different rates, an edge at time 0, two changes one unit apart, of one clock and of two; stepping back, jumping, detaching and connecting again inside callbacks: `EvalShowsEdge`, `EdgesInOrder`, `DetachedIsQuiet`, `ReplayEnds` | 54 000 |
| `session` | Two clients, tables that are local, remote, unreachable and missing, requests of every type, complete, incomplete and unreadable, at any moment: `OneResponseEach`, `OrderlySessionSafe`, `OwnAnswer`, `RequestsServed` | 318 000 |
| `debugger_batch_skips` | expected violation, see below | |

**Bounds.** `MaxBps` stops insertions into a list of that length: two is enough for a
normal and a data or assertion entry of one id, which is where "the first entry with
this id" matters, and three holds a batch, the entry it skips and one more. Three ids
give two instances on one line and a second line. Two RTL names give one shared value
cell. A trace of four edges with depth two fills a buffer, reads it and shifts it.
`MaxWatches` bounds `watch_id_count_`, `MaxTime` the trace. The values of signals are only
compared with each other in `Monitor`, so its runs take them as symmetric. Three entries in a block
are a declaration, an assignment and what stands between or around them; a child with
two instances and two roots is where ids and addresses could clash. Five characters
reach every place where the grammar backtracks within an operand, the pairs of operators
those between operands; `MaxInt` stands for the largest value of a literal, and the
signals take the smallest value, -1 and 0, where a division can trap. Times wrap at
`TimeMod`. In `session`, `MaxRequests` bounds the requests sent by all clients: three
are a connection, a second one or an edit, and a request that meets what they left;
`MaxChannels` bounds the connections ever opened. One request is on its way at a time: what
a client sends while another is handled waits in its socket, as if it were sent later; the
order in which the library would deliver several waiting requests is not modelled beyond
that. In `expressions` one other read may be under way, of one signal: that is enough to
store an old value behind the reader's back.

**Deadlock** is not checked where the system may really stop: in the scheduler and
monitor specifications the bounds end a behaviour, in `debugger_commands` and
`debugger_concurrent` an undefined step does, `symbols` ends when the document is loaded,
`expressions` with a text that is refused, `replay` with the trace, and `session` with the
simulation, an undefined step or a server thread that waits for a table.

**Fairness** (`Debugger!FairSpec`): weak fairness of the simulation thread, which the
simulator keeps running unless the lock parks it, and of the server thread, whose
event loop handles what it has received. Clients are not obliged to send anything. In
`RuntimeLock!FairSpec` every thread inside `wait` or `ready` goes on when it can, as
the operating system's scheduler provides; nobody has to call them. `EvaluationEnds`
and `DetachFrees` hold up to an undefined step (`~Alive`). In `Session` the two threads and
the other end of a remote table keep going, for the same reasons; clients need not send
anything and the simulation need not end. `RequestsServed` has the exceptions the code
has: a table that cannot be reached, and an answer the other thread has taken. In `Replay`
the loop goes on, and a paused client continues; the number of its requests is bounded.

**What an orderly session is.** `OrderlySessionSafe` shows what the code relies on its
clients for, and that this is enough: connect first and once, with a table whose top the
design has (or keep the table there is), name a namespace that exists for a monitor
where there are several, no connection opened or closed during a broadcast, no
message pending when the simulation ends, and the flag that keeps the table only with a
table loaded at the start. Outside it the model reaches the undefined steps listed below.

## Proofs

TLAPS checks these for every value of the constants.

- `LockInvariant`: `IInv` is an invariant of the lock for any sets of waiters and
  setters. `NoLostWakeup` alone is not inductive: it needs that the owner of the
  mutex is the one thread in a critical step, that a blocked thread is asleep, that a
  thread about to block still sees `ready_` unset (the store needs the mutex the
  thread holds), and that a thread about to consume the signal finds it set.
- `LockNoLostWakeup` follows from it.
- `LockImplementsEvent`: every step of `wait` and `ready` is a step of the auto-reset
  event or changes nothing its users see. The second disjunct of a `ready` that finds
  the flag set is where `IInv` is used. `Debugger` uses the event in place of the lock.
- `SchedulerTypeCorrect` and `SchedulerInsertedTracked`: for any symbol table, any
  number of breakpoints and namespaces and every order of calls, each entry of the
  list keeps at least one type flag, and every id of `inserted_breakpoints_` has an
  entry. The invariant is their conjunction: both are needed for the erasures, where
  `inserted` loses the ids of the erased entries. The lemmas say what erasing
  positions (`EraseKeepsIds`), rewriting entries in place (`RewriteKeepsIds`),
  appending (`ConcatIds`) and sorting do to the type of the list and to its ids.

- `OneLocationPerBatch` and, under the debugger's threads, `DebuggerOneLocation`: what
  is handed out together is at one source position in all five modes. `batch` is set
  by `next_breakpoints` alone, so the argument is about what each mode collects.
- `DebuggerTypeCorrect` and `DebuggerInsertedTracked`: `DebuggerInv` adds to the types
  the calls still in `todo`, since what they are about ends up in the list.
- `BreakpointsListedOnce` (`InsertedOnce`): an insertion looks for the id first, a
  removal erases its entry and its id in one call, so no interleaving duplicates one.
  With several namespaces one id has one entry in each, and an assertion may share the
  id: hence `OneNamespace` and `Asserts = {}`.
- `ListSortedWhenIdle` (`SortedWhenIdle`): `SortInv` says that the list is sorted or the
  calls left contain the sort. Requests by id do not sort (see below): hence
  `~AddsUnsorted`.
- `CycleGoesForward` (`ForwardOnly`), `BreakpointsEvaluatedSingly` and
  `AssertionsEvaluatedSingly` (`AllEvaluatedSingly`, `AssertionEvaluated`): what an
  evaluation cycle does while the list is edited and sorted at every hit. `PatientInv`
  says where the simulation thread is while a request is handled; then `ForwardInv`:
  what was handed out is marked (`BreakPointOnly`) or not after the current position
  (`StepOver`); `AheadInv`: in a sorted list what is still due comes after everything
  marked, so that a breakpoint inserted in front is the only thing skipped; `LineInv`:
  in an unsorted one the marked entries are a front part. They hold for clients that
  edit only while the simulation waits (`Patient`), and each for requests of one kind:
  a list that is sorted at some requests and appended to at others has neither shape.
- `MonitorOneWatch`, `MonitorSharedCell`: for every design and every grouping of RTL
  names. `MonitorInv` is the type of the watches and of the trace; the rest is what
  adding (`WatchAdded`) and removing do to the two properties.
- `MonitorDelayedValue`: for every depth. `DelayInv` says what the buffer holds after a
  clock edge: the values of the last edges since it was asked for, oldest first. It
  holds for one depth per design and without data breakpoints, for the reasons below.
  Clients may remove the buffer at any time (`lost` is the time when they did): `DelayHeld` is
  the case of a variable whose buffer is there, `DelayLost` the one whose buffer is gone. It
  needs that a lost id never comes back (watch ids only grow), so that asking again
  (`debug.cc:1516`) does not attach the variable to another watch.
- `QueryGetsOwnAnswer` (`OwnAnswer`): `NetInv` says that, until two threads have queried
  at once, one query is pending, and what is on the wire or signalled in `payload_`
  belongs to it. `ReadInv` (the server thread holds a request unless it is idle, and a
  request that was read names an action of its type) is needed to know what handlers do.
- `RequestsAnsweredOnce` (`OneResponseEach`): `AnswerInv` says that channel ids are given
  out once, that one request is on its way, with the number it was sent with as its
  token, and that nothing has been answered while it is. The lemmas follow the token
  through `parse_request` and show for each handler that it responds once.
- `OrderlySessionIsSafe` (`OrderlySessionSafe`): for any tables, design and number of
  clients. `SafeInv` says that in an orderly session one table is loaded and `scheduler_`
  was made for it as soon as the connection is made (`TableOK`); that a connection which
  loads a table is the first one and has got the table's names (`FreshOK`, which uses
  `NetInv`); that where there is one namespace every instance of the table is mapped to it
  (`MapOK`, from what the search in the design returns: `PlacesType`, `PlacedOnce`); that
  messages come from connections that are there and a request that needs the table finds
  it (`AskOK`); and that without a scheduler the simulation thread does not evaluate
  (`SimOK`). Every null pointer and freed table of the model is excluded by one of these.
- `ReplayShowsEdge` (`EvalShowsEdge`), `ReplayEdgesInOrder` (`EdgesInOrder`) and
  `ReplayDetachedQuiet` (`DetachedIsQuiet`): for every recorded trace, every list of clocks
  and every sequence of requests inside the callbacks. `TurnInv` says where `timestamp_` is
  in a turn of the loop: one before the change being handled, or one before the edge that
  was gone to, in unsigned time. `OrderInv` says what was passed over: between turns no
  edge up to `timestamp_` is missed but those one unit after another change, and inside a
  turn the edges at its time are evaluated or still to fire. It holds because `Fire` calls
  back every watched clock, which is `CallbackInv`: the watched signals are those with a
  callback in `cb_handles_`, the one of the signal that is not deleted, also after
  `monitor_signals` has failed halfway. An evaluation under way needs no order: whatever
  clocks a connection leaves behind, it ends at the edge it is at or has gone to.
- `ExpressionEvaluatesCurrent` (`EvaluatesCurrent`): for every list of namespaces, every
  text and every interleaving of the steps of `get_signal_value` (the test of the cache, the
  read without the lock, the store) with those of another reader, `set_value`, the cache option,
  the clearing of the cache and the simulation. `SearchInv` says that nothing of an earlier namespace is left in the handles
  and that no earlier namespace has all the symbols, `ResolveInv` that a namespace is given
  up only for a symbol it does not have, and `CacheInv` that the cache agrees with the
  simulator unless a signal changed under it, and `ReadInv` that an evaluation with no change in it (`quiet`) has read,
  and has fetched, current values. An old value that is stored after a change is one of the
  exceptions the property names; the proof shows that these are all.
  That the parser builds the tree a text stands for is an assumption here; the run checks it
  (`ParsesAsReference`).

Assumptions: `ThreadAssumption` (waiters and setters are disjoint), `SchedulerAssumption`
(the execution order lists every id once, conditions and namespaces are of their types),
`MonitorAssumption` (the groups are a partition of the signals, each data breakpoint has
one), `SessionAssumption` (a simulation starts with one table or none, the instances of a
table have one top, and its breakpoints are in its instances), `DesignAssumption` (the
design is a finite list of modules), `ReplayAssumption` (a trace ends before the last two
times there are, a clock is 0 or 1), `ExpressionAssumption` (there is a namespace; of the
texts whose evaluation is followed the parser builds the reference tree, or none). TLC
evaluates all of them.

Only model-checked:

- liveness, which the prover does not handle: `SignalConsumed`, `EvaluationEnds`,
  `DetachFrees`, `ReplayEnds`, `RequestsServed`;
- the nine properties of `JsonTable`, and `ParsesAsReference` and `GuardedDivision` of
  `ExpressionParser`, whose definitions recurse over trees and texts: induction over data
  is out of the prover's reach.

## Disagreements between the code and its texts

One run is expected to find a violation; `findings` quotes the lines.

- `debugger_batch_skips`: with three breakpoints on one line, two of them in one
  instance (an unrolled loop), a cycle ends without having evaluated the second.
  `AllEvaluated` fails for batches; `AllEvaluatedSingly` holds in single-thread mode.

Others are in the models as the code has them, without a run of their own:

- clearing data breakpoints erases by id and may take the normal breakpoint of that id
  (`src/scheduler.cc:500`);
- reverse-continue on a simulator that cannot go back evaluates the first breakpoint for
  ever while it does not hit (`src/scheduler.cc:179`): `EvaluationEnds` is checked without
  reverse-continue;
- a data breakpoint with an invalid condition writes through a null pointer
  (`src/scheduler.cc:450`); with an invalid variable its first entry stays behind;
- the guard before `breakpoints_[*target_index]` is never true for an empty optional
  (`src/scheduler.cc:203`);
- an assertion behind another entry with its id is not removed after its evaluation
  (`src/scheduler.cc:287`);
- removal looks at the first entry of an id only, so the other namespaces keep theirs;
- breakpoints added by id are not sorted (`src/debug.cc:596`), although the reverse
  search says that they are (`src/scheduler.cc:187`): `SortedWhenIdle` is checked for
  requests by location;
- a breakpoint removed during its evaluation is used after it was freed
  (`src/debug.cc:127`); a continue during a step evaluates the missing expression of a
  temporary breakpoint (`src/debug.cc:1291`);
- a delayed variable is read before its buffer is full (`src/monitor.cc:112`), and the
  first depth asked for a signal wins (`src/debug.cc:1516`);
- a data breakpoint on a variable that is watched already keeps watch id 0
  (`src/debug.cc:1046`), and may thus change or remove the watch with that id, a delay
  buffer included: `monitor_delay` has no data breakpoints for this reason;
- a client may remove any watch by its track id, the one other clients share and the buffer
  of a delayed variable too (`src/monitor.cc:44`). `delayed_variables_` keeps the id of the
  buffer that is gone, so that the variable keeps its last value for good, also when a
  breakpoint asks for it again (`src/debug.cc:1516`): `DelayedValue` says so;
- a signal value is read without the lock and stored in the cache afterwards
  (`src/debug.cc:1272`, `:1281`): a `set_value` or the clearing of the cache in between
  leaves an old value there, which later evaluations use; so does a value that is set while
  the cache is switched off (`src/debug.cc:945`). These are exceptions in `EvaluatesCurrent`;
- a scoped name also stands for a variable whose RTL name it is (`src/symbol.cc:67`): a newer
  variable hides an older one whose source name is the newer one's RTL name, as
  `ResolvesToNewest` has it;
- a second connection frees the table under the scheduler and the simulation thread, and
  a failed one leaves them without any (`src/debug.cc:508`); it also doubles the namespaces
  of every definition (`src/namespace.cc:49`), after which a monitor request that names no
  namespace follows a null pointer (`src/debug.cc:889`);
- so does one after a connection with a table whose top the design does not have: nothing
  is mapped then (`src/namespace.cc:33`), and the instance finds no namespace;
- commands before the first connection use a scheduler that is not there
  (`src/debug.cc:637`); the answer that no table is loaded has no token (`src/debug.cc:1204`);
- an unknown monitor action and an unset line number do not make a request fail
  (`src/proto.cc:1018`, `src/proto.cc:790`): the default action or an arbitrary line is used;
- two threads that query a remote table at once may get each other's answers
  (`src/symbol.cc:465`), and a table that cannot be reached blocks the server thread
  (`src/symbol.cc:294`);
- when a table leaves out the top of its instances' names, the prefix computed for them
  keeps one part of the path too many (`src/rtl.cc:755`): `SessionAssumption` asks for one
  top in the names of a table;
- file names recorded as relative paths with a directory are not found by their location
  (`src/db.cc:1158`); a shared variable loses its delay (`src/db.cc:751`);
- in the expression grammar an unclosed bracket may leave an action with too few operands
  (`src/eval.cc:133`); numbers too large for the type become its largest value
  (`src/eval.cc:226`); the smallest value divided by -1 raises the fault of a division by
  zero (`src/eval.cc:394`), which no test of the divisor in a condition prevents, hence the
  exception in `GuardedDivision`;
- a replay may pass over an edge that comes one unit after another change of a clock
  (`tools/hgdb-replay/engine.cc:130`), one that may have lost its callback since: a connection
  that names a signal the trace does not have takes away the callbacks that were there
  before (`src/rtl.cc:943`); and at an edge at time 0 it shows the end of the trace
  (`tools/hgdb-replay/engine.cc:74`).

## Not modelled

- In `Expression`: the race on `cached_signal_values_` itself (it is cleared without the
  lock, `src/debug.cc:1374`; here clearing is one step), and more than one other read under
  way.
- In `Replay`: a callback that is registered while `trigger_cb` runs over the callbacks
  (`tools/hgdb-replay/vpi.cc:440`, `:328`). The code may call it in the same loop, or use an
  invalid iterator when the table grows; in the model the callbacks of a signal are those
  there are when it fires.
- In `Session`: several requests on their way at once (see the bounds).
- The text of messages and responses, and the frame of a breakpoint.
- The SQL queries of `DBSymbolTableProvider`: they belong to the database library, and
  what they should return is what `JsonTable` computes.
- Handles, slices, value formats and clock discovery of `src/rtl.cc`: data conversions of
  the simulator's interface.
- The threads that evaluate a batch of more than 32 breakpoints. They write bits of one
  `std::vector<bool>` (`src/debug.cc:1363`), so that the halves of most sizes share a word
  and a result may be lost; a faithful instance needs more breakpoints than TLC can hold.
- The delivery of watched values to the clients of a topic.
- Starting without blocking and without a table under Verilator, which leaves `eval()`
  without a scheduler.
- VCD and FSDB parsing and the conversion of a trace to a database; command line tools;
  bindings; logging and performance counters: file formats and output, no behaviour over
  time.
- In `Debugger`: data breakpoints (they are in `Scheduler` and `Monitor`) and more than one
  namespace (`Scheduler` and `Session` have them).

## Plan

What would come next:

1. Data breakpoints in one module: `Scheduler` with `Monitor` under `Debugger`'s
   handlers, so that a watch id and an entry can be related.
2. Topics and the delivery of watched values.
3. `JsonTable` without recursion over trees (the entries as paths in a fixed document), so
   that the numbering of breakpoints and instances can be proved.
