------------------------------- MODULE Session -------------------------------
(***************************************************************************)
(* A debugging session: clients come and go, load a symbol table and send  *)
(* requests (src/server.cc, src/debug.cc, src/namespace.cc, src/sim.cc),   *)
(* while the simulation thread runs, hits breakpoints and ends.            *)
(*                                                                         *)
(* The module is about what outlives a request: the connections, the table *)
(* and the scheduler built for it, the namespaces and the watches.  How    *)
(* breakpoints are chosen and evaluated is left to Scheduler and Debugger: *)
(* here an inserted breakpoint may hit at any edge.  Handlers run one at a *)
(* time on the server thread; the one for a connection is split where the  *)
(* simulation thread can see the table go and the new one come.            *)
(***************************************************************************)
EXTENDS NetworkTable, Hierarchy, TLC

CONSTANTS
    Messages,    \* the documents clients send, without their tokens
    Table,       \* symbol table names -> what is behind them
    Starts,      \* how the simulation is started: the simulator, its flag, the environment's table
    EnvBps,      \* the breakpoints set from the environment
    Signals,     \* the full names of the design's signals
    MaxChannels, \* bound on the clients that connect
    MaxRequests  \* bound on the requests sent

ASSUME SessionAssumption ==
    /\ Thread = {"server", "sim"}
    /\ \A s \in Starts :
          /\ s.verilator \in BOOLEAN /\ s.skipLoad \in BOOLEAN
          /\ s.env = None \/ \E n \in DOMAIN Table : s.env = {n}
    /\ \A n \in DOMAIN Table :
          /\ \A a \in Range(Table[n].insts) : Len(a) \in Nat \ {0}
          /\ \A a, b \in Range(Table[n].insts) : Head(a) = Head(b)
          /\ \A b \in DOMAIN Table[n].bps : Table[n].bps[b].inst \in DOMAIN Table[n].insts
    /\ MaxChannels \in Nat /\ MaxRequests \in Nat

VARIABLES
    conns,      \* connections_, by channel id
    count,      \* channel_count_
    sent,       \* how many requests have been sent
    inbox,      \* the message of a channel the server has not looked at, if any
    replies,    \* the responses to the last request, each with its channel
    last,       \* history: the last request handled, and whether its token may be lost
    topics,     \* topics_: the channels of each watch id
    srv,        \* the server thread's place
    cur,        \* the request it handles, if any
    db,         \* db_, with the path mapping given to it, if any
    fresh,      \* the table create_symbol_table has returned, if any
    sched,      \* scheduler_: its table, breakpoints and mode, if any
    loads,      \* the number of tables loaded so far
    namespaces, \* namespaces_: the definition each is mapped to
    mapped,     \* mapped_namespaces_: definition, table that was loaded, namespace
    watches,    \* the variables each namespace's monitor watches, by id
    sim,        \* the simulation thread's place
    signal,     \* lock_: a signal is pending
    attached,   \* the evaluation callbacks are registered
    running,    \* is_running_
    detachOpt,  \* detach_after_disconnect_
    verilator,  \* the simulator is Verilator, which has a callback from the start
    skipLoad,   \* the simulator was started with the flag that keeps db_
    stopped,    \* the server has been stopped
    finished,   \* the simulator has been told to finish
    crash,      \* the undefined or fatal step the debugger has taken, or "none"
    orderly     \* history: the clients have kept to what the code relies on

clients == <<conns, count, sent, inbox>>
table   == <<db, fresh, sched, loads, namespaces, mapped>>
simvars == <<sim, signal, attached, running, finished>>
flags   == <<detachOpt, verilator, skipLoad, stopped>>
vars == <<clients, replies, last, topics, srv, cur, table, watches, simvars, flags,
          crash, orderly, net>>

Channels == 0 .. MaxChannels - 1
Instances(n) == Range(Table[n].insts)

\* Where the design has what a table describes, under Verilator and elsewhere.
Places == [n \in DOMAIN Table |-> [v \in BOOLEAN |-> InstanceMapping(Instances(n), v)]]
Fits(n, v) == Places[n][v] # <<>>

\* A breakpoint of a scheduler: what it was set as, and its id.
NewScheduler(n, bps) == [table |-> n, bps |-> bps, mode |-> "BreakPointOnly"]

Alive == crash = "none"

-----------------------------------------------------------------------------
(* Namespaces                                                              *)

\* compute_instance_mapping: all but one of the places the design was found at
\* get a new namespace, and the first ones are mapped to them.
ComputeInstanceMapping(ns, places) ==
    LET more == IF places = <<>> THEN ns ELSE ns \o [i \in 1 .. Len(places) - 1 |-> NoMapping]
    IN  places \o SubSeq(more, Len(places) + 1, Len(more))

\* compute_mapping: every namespace is appended, those of earlier tables again.
NamedAfter(ns, load) == {<<ns[i].top, load, i>> : i \in DOMAIN ns}

ComputeMapping(ns) == mapped \cup NamedAfter(ns, loads)

Info == Table[The(db).file]

\* Whether the thread's query to the table has been answered: over a WebSocket,
\* get_resp() may have got another query's answer.
Visible(t) == Info.kind = "ws" => result[t] # None

InstanceName(id) == IF Visible("server") /\ id \in DOMAIN Info.insts THEN {Info.insts[id]} ELSE None
InstanceOfBp(id) ==
    IF Visible("server") /\ id \in DOMAIN Info.bps THEN {Info.insts[Info.bps[id].inst]} ELSE None

\* get_namespace: the index of the namespace, or none for a null pointer.
GetNamespace(inst, bp, ns) ==
    LET byInst == UNION {InstanceName(i) : i \in inst}
        name   == IF byInst # None THEN byInst ELSE UNION {InstanceOfBp(i) : i \in bp}
        found  == {e \in mapped : e[1] = Head(The(name))}
    IN  IF \E i \in ns : i < Len(namespaces) THEN {i + 1 : i \in ns}
        ELSE IF name = None THEN {1}
        ELSE IF \E e \in found : found = {e} THEN {e[3] : e \in found}
        ELSE None

\* get_namespace asks the table for a name unless the namespace is given.
AsksTable(inst, bp, ns) == ~(\E i \in ns : i < Len(namespaces)) /\ (inst # None \/ bp # None)

-----------------------------------------------------------------------------
(* Symbol tables                                                           *)

\* resolve_filename_to_db: a file is a directory and a name.
Resolve(file) ==
    IF file[1] \in DOMAIN The(db).map THEN <<The(db).map[file[1]], file[2]>> ELSE file

\* get_breakpoints(filename, line, column): only SQLite tables map the path, a
\* column counts more than a line, and without both the whole file is meant.
BreakpointsAt(file, line, column) ==
    LET f == IF Info.kind = "sqlite" THEN Resolve(file) ELSE file
    IN  {id \in DOMAIN Info.bps :
            /\ Visible("server")
            /\ Info.bps[id].file = f
            /\ column # 0 => Info.bps[id].line = line /\ Info.bps[id].column = column
            /\ column = 0 /\ line # 0 => Info.bps[id].line = line}

\* get_breakpoints(filename): the path is mapped here, and again in the other one.
BreakpointsIn(file) ==
    BreakpointsAt(IF Info.kind = "sqlite" THEN Resolve(file) ELSE file, 0, 0)

\* resolve_var_name: the full name, if it is a signal's.
ResolveVarName(ns, var, inst, bp) ==
    LET scope == IF bp # None THEN UNION {InstanceOfBp(i) : i \in bp}
                 ELSE UNION {InstanceName(i) : i \in inst}
        names == IF bp = None /\ inst = None THEN {var}
                 ELSE {name \o var : name \in {i \in scope : var \in Info.vars}}
    IN  {FullName(namespaces[ns], name) : name \in names} \cap Signals

NoArgs == [instance_id |-> 0, breakpoint_id |-> 0, filename |-> <<"", "">>, line_num |-> 0,
           col_num |-> 0, instance_name |-> "", name |-> ""]

\* The query a handler makes, standing for those it makes one after the other.
ById(f) ==
    IF f.inst # None THEN {SymbolRequest("get_instance_name", [NoArgs EXCEPT !.instance_id = The(f.inst)])}
    ELSE IF f.bp # None THEN {SymbolRequest("get_breakpoint", [NoArgs EXCEPT !.breakpoint_id = The(f.bp)])}
    ELSE None

QueryOf(req) ==
    CASE req.type = "connection"  -> {SymbolRequest("get_instance_names", NoArgs)}
      [] req.type \in {"breakpoint", "bp-location"} ->
            {SymbolRequest("get_breakpoints", [NoArgs EXCEPT !.filename = req.f.file])}
      [] req.type = "breakpoint-id" /\ req.f.action = "add" ->
            {SymbolRequest("get_breakpoint", [NoArgs EXCEPT !.breakpoint_id = req.f.id])}
      [] req.type = "data-breakpoint" ->
            {SymbolRequest("get_assigned_breakpoints", [NoArgs EXCEPT !.breakpoint_id = req.f.id])}
      [] req.type = "debugger-info" /\ req.f.command = "filename" ->
            {SymbolRequest("get_filenames", NoArgs)}
      [] req.type \in {"evaluation", "monitor", "set-value"} -> ById(req.f)
      [] OTHER -> None

-----------------------------------------------------------------------------
(* Clients and connections                                                 *)

\* A broadcast of the simulation thread goes through connections_ without the
\* lock: it may not survive a change of them.
ConnectionsChange ==
    IF sim = "sending"
    THEN orderly' = FALSE /\ crash' \in {"none", "connections changed"}
    ELSE UNCHANGED <<orderly, crash>>

\* on_connect
Open ==
    /\ Alive /\ ~stopped /\ sim # "stopping"
    /\ count < MaxChannels
    /\ conns' = conns \cup {count}
    /\ count' = count + 1
    /\ ConnectionsChange
    /\ UNCHANGED <<sent, inbox, replies, last, topics, srv, cur, table, watches, simvars,
                   flags, net>>

\* The document of a request with its token.
WithToken(doc, n) ==
    [m \in DOMAIN doc \cup {"token"} |-> IF m = "token" THEN Str(n) ELSE doc[m]]

\* A client sends a request, with a number of its own as the token.  What is sent
\* while the server thread is busy stays in the socket: it counts as sent later,
\* so that one request is on its way at a time, and a client that sends several
\* without waiting is not told from one that waits.
Ask(ch, doc) ==
    /\ Alive
    /\ ch \in conns /\ cur = None
    /\ \A c \in Channels : inbox[c] = <<>>
    /\ sent < MaxRequests
    /\ sent' = sent + 1
    /\ inbox' = [inbox EXCEPT ![ch] = <<IF doc = None THEN None ELSE
                    {WithToken(The(doc), sent + 1)}>>]
    /\ replies' = <<>> /\ last' = None
    /\ UNCHANGED <<conns, count, topics, srv, cur, table, watches, simvars,
                   flags, crash, orderly, net>>

\* detach: the lock is released by the first one only.
Detach ==
    /\ attached' = FALSE
    /\ sched' = {[s EXCEPT !.mode = "None"] : s \in sched}
    /\ running' = FALSE
    /\ signal' = (signal \/ running)

\* on_disconnect, after the request being handled; what else was sent is lost.
Close(ch) ==
    /\ Alive /\ ch \in conns
    /\ srv = "idle"
    /\ conns' = conns \ {ch}
    /\ inbox' = [inbox EXCEPT ![ch] = <<>>]
    /\ IF conns' = {} /\ detachOpt THEN Detach ELSE UNCHANGED <<attached, sched, running, signal>>
    /\ ConnectionsChange
    /\ UNCHANGED <<count, sent, replies, last, topics, srv, cur, db, fresh, loads,
                   namespaces, mapped, watches, sim, finished, flags, net>>

-----------------------------------------------------------------------------
(* The server thread                                                       *)

AtServer(place) == Alive /\ srv = place

\* What the code relies on its clients to do: connect first and once, with a
\* table of the design, and say which namespace is meant where there are several.
Careful(req) ==
    /\ req.type = "connection" => skipLoad \/ loads = 0
    /\ req.type = "connection" /\ req.ok /\ req.f.db \in DOMAIN Table =>
          skipLoad \/ Fits(req.f.db, verilator)
    /\ req.type \notin {"connection", "option-change", "error"} => db # None
    /\ req.type = "monitor" /\ req.ok =>
          Len(namespaces) = 1 \/ \E i \in req.f.ns : i < Len(namespaces)

\* on_message of the server: the channel of the connection is looked up, then
\* the message parsed; a connection that is not there any more is fatal.
Take(ch) ==
    /\ AtServer("idle") /\ ~stopped
    /\ inbox[ch] # <<>>
    /\ IF ch \notin conns
       THEN /\ crash' = "unknown connection"
            /\ UNCHANGED <<inbox, srv, cur, orderly, result>>
       ELSE LET p == ParseRequest(Head(inbox[ch]))
            IN  /\ inbox' = [inbox EXCEPT ![ch] = <<>>]
                /\ cur' = {[ch |-> ch, req |-> p.req, token |-> p.token]}
                /\ srv' = IF ~p.req.ok THEN "reject"
                          ELSE IF p.req.type = "connection" THEN "create"
                          ELSE IF db # None /\ Info.kind = "ws" /\ QueryOf(p.req) # None THEN "query"
                          ELSE "handle"
                /\ orderly' = (orderly /\ Careful(p.req))
                /\ result' = [result EXCEPT !["server"] = None]
                /\ UNCHANGED crash
    /\ UNCHANGED <<conns, count, sent, replies, last, topics, table, watches, simvars, flags,
                   query, lock, wire, payload, ready, overlap>>

\* The requests that check_send_db_error answers, without their tokens.
Checked == {"breakpoint", "breakpoint-id", "bp-location"}

\* The handler returns.
Done ==
    LET c == The(cur)
        bare == c.req.type = "error" \/ (c.req.type \in Checked /\ db = None)
    IN  /\ last' = {[ch |-> c.ch, token |-> sent, bare |-> bare]}
        /\ cur' = None
        /\ srv' = "idle"

\* Its response goes to the channel of the request, if that is still connected.
RespondWith(token, ok) ==
    /\ replies' = IF The(cur).ch \in conns
                  THEN Append(replies, [ch |-> The(cur).ch, token |-> token, ok |-> ok])
                  ELSE replies
    /\ Done

Respond(ok) == RespondWith(The(cur).token, ok)

\* on_message of the debugger: a request that cannot be read is answered here.
Reject ==
    /\ AtServer("reject")
    /\ Respond(FALSE)
    /\ UNCHANGED <<clients, topics, table, watches, simvars, flags, crash, orderly, net>>

\* The query of a handler to a table behind a WebSocket.
ServerSends ==
    /\ AtServer("query") /\ query["server"] = None
    /\ Send("server", The(QueryOf(The(cur).req)))
    /\ UNCHANGED <<clients, replies, last, topics, srv, cur, table, watches, simvars, flags,
                   crash, orderly>>

ServerLocks ==
    /\ AtServer("query")
    /\ Lock("server")
    /\ UNCHANGED <<clients, replies, last, topics, srv, cur, table, watches, simvars, flags,
                   crash, orderly>>

ServerReceives ==
    /\ AtServer("query")
    /\ Receive("server")
    /\ srv' = IF The(cur).req.type = "connection" THEN "load" ELSE "handle"
    /\ UNCHANGED <<clients, replies, last, topics, cur, table, watches, simvars, flags, crash,
                   orderly>>

-----------------------------------------------------------------------------
(* handle_connection                                                       *)

\* Mutant: a file that is not there is waited for, too.
Create_WaitsForFile ==
    /\ AtServer("create")
    /\ LET name == The(cur).req.f.db
       IN  /\ skipLoad \/ (name \in DOMAIN Table /\ Table[name].kind # "missing")
           /\ srv' = IF skipLoad THEN "load"
                     ELSE IF Table[name].kind = "ws unreachable" THEN "hung"
                     ELSE "reset"
           /\ fresh' = {name}
    /\ UNCHANGED <<clients, replies, last, topics, cur, db, sched, loads, namespaces, mapped,
                   watches, simvars, flags, crash, orderly, net>>

\* create_symbol_table: a WebSocket that cannot be opened is waited for.  A "tcp:"
\* name is like a file that is missing: the host it is asked for has two slashes.
Create ==
    /\ AtServer("create")
    /\ LET name  == The(cur).req.f.db
           known == name \in DOMAIN Table
       IN  /\ srv' = IF skipLoad THEN "load"
                     ELSE IF known /\ Table[name].kind = "ws unreachable" THEN "hung"
                     ELSE "reset"
           /\ fresh' = IF known /\ Table[name].kind # "missing" THEN {name} ELSE None
    /\ UNCHANGED <<clients, replies, last, topics, cur, db, sched, loads, namespaces, mapped,
                   watches, simvars, flags, crash, orderly, net>>

\* initialize_db: db_ is reset first, whatever it is replaced by, ...
Reset ==
    /\ AtServer("reset")
    /\ db' = None
    /\ srv' = IF fresh = None THEN "load" ELSE "assign"
    /\ crash' = IF sim = "asked" THEN "freed table" ELSE crash
    /\ UNCHANGED <<clients, replies, last, topics, cur, fresh, sched, loads, namespaces,
                   mapped, watches, simvars, flags, orderly, net>>

\* ... then assigned, ...
Assign ==
    /\ AtServer("assign")
    /\ db' = {[n |-> loads + 1, file |-> The(fresh), map |-> <<>>]}
    /\ loads' = loads + 1
    /\ srv' = IF Table[The(fresh)].kind = "ws" THEN "query" ELSE "load"
    /\ Reopen
    /\ UNCHANGED <<clients, replies, last, topics, cur, fresh, sched, namespaces, mapped,
                   watches, simvars, flags, crash, orderly>>

\* What initialize_db does for a table: the namespaces are mapped and the
\* scheduler is made, with the breakpoints from the environment.
Load(places, bps) ==
    \E ns \in {ComputeInstanceMapping(namespaces, places)} :
        /\ namespaces' = ns
        /\ mapped' = ComputeMapping(ns)
        /\ watches' = watches \o [i \in 1 .. Len(ns) - Len(namespaces) |-> <<>>]
        /\ sched' = {NewScheduler(loads, {<<"normal", b>> : b \in bps})}

\* ... and the rest of initialize_db and of handle_connection.
Connected ==
    /\ AtServer("load")
    /\ LET r    == The(cur).req
           new  == fresh # None /\ ~skipLoad
           seen == Visible("server")
       IN  /\ IF new
              THEN Load(IF seen THEN Places[The(fresh)][verilator] ELSE <<>>,
                        IF seen THEN EnvBps \cap DOMAIN Info.bps ELSE {})
              ELSE UNCHANGED <<namespaces, mapped, watches, sched>>
           /\ db' = {[d EXCEPT !.map = r.f.map] : d \in db}
           /\ attached' = (attached \/ ((new \/ skipLoad) /\ ~verilator))
           /\ running' = (running \/ new \/ skipLoad)
           /\ Respond(new \/ skipLoad)
    /\ fresh' = None
    /\ UNCHANGED <<clients, topics, loads, sim, signal, finished, flags, crash, orderly, net>>

-----------------------------------------------------------------------------
(* The other handlers                                                      *)

Handling(type) == AtServer("handle") /\ The(cur).req.type = type
F == The(cur).req.f

\* A null pointer is dereferenced: there is no response.
Crash(why) ==
    /\ crash' = why
    /\ UNCHANGED <<clients, replies, last, topics, srv, cur, table, watches, simvars, flags,
                   orderly, net>>

\* The handler only answers.
OnlyRespond(ok) ==
    /\ Respond(ok)
    /\ UNCHANGED <<clients, topics, table, watches, simvars, flags, crash, orderly, net>>

\* The handler leaves other breakpoints in the scheduler.
SetBreakpoints(bps) ==
    /\ sched' = {[s EXCEPT !.bps = bps] : s \in sched}
    /\ Respond(TRUE)
    /\ UNCHANGED <<clients, topics, db, fresh, loads, namespaces, mapped, watches, simvars, flags,
                   crash, orderly, net>>

\* check_send_db_error: its response has no token.
CheckSendDbError ==
    /\ RespondWith(None, FALSE)
    /\ UNCHANGED <<clients, topics, table, watches, simvars, flags, crash, orderly, net>>

Bps == The(sched).bps
Normal(ids) == {<<"normal", id>> : id \in ids}

\* Mutant: no return after the response that there is no breakpoint.
HandleBreakpoint_NoReturn ==
    /\ Handling("breakpoint")
    /\ IF db = None THEN CheckSendDbError
       ELSE \E line \in F.lines :
               LET ids == BreakpointsAt(F.file, line, F.column)
               IN  CASE F.action = "add" /\ ids = {} ->
                            /\ replies' = [i \in {1, 2} |-> [ch |-> The(cur).ch,
                                                  token |-> The(cur).token, ok |-> i = 2]]
                            /\ Done
                            /\ UNCHANGED <<clients, topics, table, watches, simvars, flags,
                                           crash, orderly, net>>
                     [] F.action = "add" /\ ids # {} -> SetBreakpoints(Bps \cup Normal(ids))
                     [] OTHER                        -> SetBreakpoints(Bps \ Normal(ids))

HandleBreakpoint ==
    /\ Handling("breakpoint")
    /\ IF db = None THEN CheckSendDbError
       ELSE \E line \in F.lines :
               LET ids == BreakpointsAt(F.file, line, F.column)
               IN  CASE F.action = "add" /\ ids = {} -> OnlyRespond(FALSE)
                     [] F.action = "add" /\ ids # {} -> SetBreakpoints(Bps \cup Normal(ids))
                     [] OTHER                        -> SetBreakpoints(Bps \ Normal(ids))

HandleBreakpointId ==
    /\ Handling("breakpoint-id")
    /\ LET there == Visible("server") /\ F.id \in DOMAIN Info.bps
       IN  CASE db = None                      -> CheckSendDbError
             [] db # None /\ F.action = "remove" -> SetBreakpoints(Bps \ Normal({F.id}))
             [] db # None /\ F.action = "add" ->
                    IF there THEN SetBreakpoints(Bps \cup Normal({F.id})) ELSE OnlyRespond(FALSE)

\* handle_bp_location: an empty list is a success too.
HandleBpLocation ==
    /\ Handling("bp-location")
    /\ IF db = None THEN CheckSendDbError
       ELSE LET ids == IF F.line = None THEN BreakpointsIn(F.file)
                       ELSE BreakpointsAt(F.file, The(F.line), ValueOr(F.column, 0))
            IN  OnlyRespond(ids \subseteq DOMAIN Info.bps)

\* stop(), called by the command: the server, with every connection, and detach.
\* The simulator that ends calls it in two steps, as the server thread may run between them.
Stop ==
    /\ conns' = {}
    /\ inbox' = [ch \in Channels |-> <<>>]
    /\ stopped' = TRUE
    /\ attached' = (attached /\ ~running)
    /\ running' = FALSE
    /\ signal' = (signal \/ running)

ModeOf(command) ==
    IF command \in {"continue", "reverse_continue"} THEN "BreakPointOnly" ELSE "Step"

\* handle_command: the scheduler is used without asking whether there is one.  A
\* jump only succeeds where the simulator can go back; the response to a stop
\* finds no connection.
HandleCommand ==
    /\ Handling("command")
    /\ CASE sched = None -> Crash("no scheduler")
         [] sched # None /\ F.command = "stop" ->
                /\ Stop
                /\ sched' = {[s EXCEPT !.bps = {}, !.mode = "None"] : s \in sched}
                /\ finished' = TRUE
                /\ Done
                /\ ConnectionsChange
                /\ UNCHANGED <<count, sent, replies, topics, db, fresh, loads, namespaces, mapped, watches,
                               sim, detachOpt, verilator, skipLoad, net>>
         [] sched # None /\ F.command # "stop" ->
                /\ sched' = IF F.command = "jump" THEN sched
                            ELSE {[s EXCEPT !.mode = ModeOf(F.command)] : s \in sched}
                /\ signal' = TRUE
                /\ \E ok \in {TRUE} \cup {F.command # "jump"} : Respond(ok)
                /\ UNCHANGED <<clients, topics, db, fresh, loads, namespaces, mapped, watches, sim,
                               attached, running, finished, flags, crash, orderly, net>>

HandleDebugInfo ==
    /\ Handling("debugger-info")
    /\ CASE F.command = "breakpoints" /\ sched = None -> Crash("no scheduler")
         [] F.command = "filename" /\ db = None       -> Crash("no table")
         [] OTHER                                     -> OnlyRespond(TRUE)

HandlePathMapping ==
    /\ Handling("path-mapping")
    /\ db' = {[d EXCEPT !.map = F.map] : d \in db}
    /\ Respond(db # None)
    /\ UNCHANGED <<clients, topics, fresh, sched, loads, namespaces, mapped, watches, simvars,
                   flags, crash, orderly, net>>

\* handle_evaluation: without a table, or with a name that is not a signal's, an
\* error.  A name without a place may be a signal's in any namespace.
HandleEvaluation ==
    /\ Handling("evaluation")
    /\ IF db = None THEN OnlyRespond(FALSE)
       ELSE LET ns     == ValueOr(GetNamespace(F.inst, F.bp, F.ns), 1)
                places == IF F.inst = None /\ F.bp = None THEN DOMAIN namespaces ELSE {ns}
            IN  OnlyRespond(\E n \in places : ResolveVarName(n, F.expr, F.inst, F.bp) # None)

HandleOptionChange ==
    /\ Handling("option-change")
    /\ detachOpt' = IF "detach_after_disconnect" \in DOMAIN F.bools
                    THEN F.bools["detach_after_disconnect"] ELSE detachOpt
    /\ Respond(TRUE)
    /\ UNCHANGED <<clients, topics, table, watches, simvars, verilator, skipLoad, stopped, crash,
                   orderly, net>>

\* A null pointer is met on the way to the namespace and the name of a variable.
NoTable(f) == db = None /\ (AsksTable(f.inst, f.bp, f.ns) \/ f.inst # None \/ f.bp # None)

\* add_monitor_variable: the id of the variable, which may be watched already.
WatchId(ns, var) ==
    LET old == {i \in DOMAIN watches[ns] : watches[ns][i] = var}
    IN  IF old = {} THEN Len(watches[ns]) + 1 ELSE The(old)

\* handle_monitor: the namespace is used without asking whether there is one.
HandleMonitor ==
    /\ Handling("monitor")
    /\ IF NoTable(F) THEN Crash("no table")
       ELSE LET ns   == GetNamespace(F.inst, F.bp, F.ns)
                n    == The(ns)
                full == ResolveVarName(n, F.var, F.inst, F.bp)
                id   == IF F.action = "add" THEN WatchId(n, The(full)) ELSE F.id
                who  == IF id \in DOMAIN topics THEN topics[id] ELSE {}
            IN  CASE ns = None -> Crash("no namespace")
                  [] ns # None /\ F.action = "add" /\ full = None -> OnlyRespond(FALSE)
                  [] OTHER ->
                         /\ watches' = [watches EXCEPT ![n] =
                                IF F.action = "add" /\ id > Len(@) THEN Append(@, The(full))
                                ELSE IF F.action = "remove" /\ id \in DOMAIN @
                                THEN [@ EXCEPT ![id] = <<>>] ELSE @]
                         /\ topics' = (id :> IF F.action = "add" THEN who \cup {The(cur).ch}
                                             ELSE who \ {The(cur).ch}) @@ topics
                         /\ Respond(TRUE)
                         /\ UNCHANGED <<clients, table, simvars, flags, crash, orderly, net>>

\* Mutant: the namespace is not checked here either.
HandleSetValue_NoCheck ==
    /\ Handling("set-value")
    /\ LET ns == GetNamespace(F.inst, F.bp, F.ns)
       IN  CASE NoTable(F)               -> Crash("no table")
             [] ~NoTable(F) /\ ns = None -> Crash("no namespace")
             [] OTHER -> OnlyRespond(ResolveVarName(The(ns), F.var, F.inst, F.bp) # None)

\* handle_set_value
HandleSetValue ==
    /\ Handling("set-value")
    /\ IF NoTable(F) THEN Crash("no table")
       ELSE OnlyRespond(\E n \in GetNamespace(F.inst, F.bp, F.ns) :
                            ResolveVarName(n, F.var, F.inst, F.bp) # None)

\* handle_data_breakpoint: an id is always given, of the namespace or of the
\* breakpoint.  The watches of data breakpoints are left to Monitor.
HandleDataBreakpoint ==
    /\ Handling("data-breakpoint")
    /\ IF db = None /\ AsksTable(None, {F.id}, F.ns) THEN Crash("no table")
       ELSE LET ns  == GetNamespace(None, {F.id}, F.ns)
                ids == IF Visible("server") /\ F.id \in DOMAIN Info.bps THEN {F.id} ELSE {}
            IN  CASE ns = None -> OnlyRespond(FALSE)
                  [] ns # None /\ F.action \in {"add", "info"} ->
                         IF db = None THEN Crash("no table")
                         ELSE IF ids = {} \/ ResolveVarName(The(ns), The(F.var), None, ids) = None
                         THEN OnlyRespond(FALSE)
                         ELSE SetBreakpoints(Bps \cup {<<"data", id>> : id \in
                                                       IF F.action = "add" THEN ids ELSE {}})
                  [] ns # None /\ F.action = "clear" ->
                         IF sched = None THEN Crash("no scheduler")
                         ELSE SetBreakpoints({b \in Bps : b[1] # "data"})
                  [] ns # None /\ F.action = "remove" ->
                         IF sched = None THEN Crash("no scheduler")
                         ELSE SetBreakpoints(Bps \ {<<"data", F.id>>})

Handle ==
    \/ HandleBreakpoint \/ HandleBreakpointId \/ HandleBpLocation \/ HandleCommand
    \/ HandleDebugInfo \/ HandlePathMapping \/ HandleEvaluation \/ HandleOptionChange
    \/ HandleMonitor \/ HandleSetValue \/ HandleDataBreakpoint

ServerStep ==
    \/ \E ch \in Channels : Take(ch)
    \/ Reject \/ ServerSends \/ ServerLocks \/ ServerReceives
    \/ Create \/ Reset \/ Assign \/ Connected
    \/ Handle

-----------------------------------------------------------------------------
(* The simulation thread                                                   *)

AtSim(place) == Alive /\ sim = place

\* lock_.wait() returns, in run() or after a hit.
Resume ==
    /\ Alive /\ sim \in {"run_wait", "parked"}
    /\ signal
    /\ signal' = FALSE
    /\ sim' = "edge"
    /\ UNCHANGED <<clients, replies, last, topics, srv, cur, table, watches, attached, running,
                   finished, flags, crash, orderly, net>>

\* eval(): the scheduler looks for the next step in the table it was made for,
\* and a breakpoint may hit.  There is a scheduler: run() has waited for a command.
Eval ==
    /\ AtSim("edge") /\ attached /\ ~finished
    /\ LET s     == The(sched)
           stale == {d.n : d \in db} # {s.table}
       IN  \/ /\ s.mode = "Step" /\ stale
              /\ crash' = "freed table"
              /\ UNCHANGED sim
           \/ /\ s.mode # "None" /\ (s.mode = "Step" \/ s.bps # {})
              /\ sim' = "hit"
              /\ UNCHANGED crash
    /\ UNCHANGED <<clients, replies, last, topics, srv, cur, table, watches, signal, attached,
                   running, finished, flags, orderly, net>>

\* send_breakpoint_hit reads the debugger's table, ...
Report ==
    /\ AtSim("hit")
    /\ \/ db = None /\ crash' = "no table" /\ UNCHANGED <<sim, net>>
       \/ /\ db # None /\ Info.kind = "ws"
          /\ Send("sim", SymbolRequest("get_generator_variables", NoArgs))
          /\ sim' = "asked"
          /\ UNCHANGED crash
       \/ /\ db # None /\ Info.kind # "ws"
          /\ sim' = "sending"
          /\ UNCHANGED <<crash, net>>
    /\ UNCHANGED <<clients, replies, last, topics, srv, cur, table, watches, signal, attached,
                   running, finished, flags, orderly>>

SimLocks ==
    /\ AtSim("asked")
    /\ Lock("sim")
    /\ UNCHANGED <<clients, replies, last, topics, srv, cur, table, watches, simvars, flags,
                   crash, orderly>>

SimReceives ==
    /\ AtSim("asked")
    /\ Receive("sim")
    /\ sim' = "sending"
    /\ UNCHANGED <<clients, replies, last, topics, srv, cur, table, watches, signal, attached,
                   running, finished, flags, crash, orderly>>

\* ... and sends the hit to everyone; then the thread waits.
Broadcast ==
    /\ AtSim("sending")
    /\ sim' = "parked"
    /\ UNCHANGED <<clients, replies, last, topics, srv, cur, table, watches, signal, attached,
                   running, finished, flags, crash, orderly, net>>

\* The simulation ends: teardown_hgdb_debugger closes the connections, ...
Teardown ==
    /\ AtSim("edge")
    /\ sim' = "stopping"
    /\ conns' = {}
    /\ orderly' = (orderly /\ \A ch \in Channels : inbox[ch] = <<>>)
    /\ UNCHANGED <<count, sent, inbox, replies, last, topics, srv, cur, table, watches, signal,
                   attached, running, finished, flags, crash, net>>

\* ... stops the server, which finishes the request it handles, and detaches.
EndOfSimulation ==
    /\ AtSim("stopping")
    /\ stopped' = TRUE
    /\ sim' = "ended"
    /\ attached' = (attached /\ ~running)
    /\ running' = FALSE
    /\ signal' = (signal \/ running)
    /\ sched' = IF running THEN {[s EXCEPT !.mode = "None"] : s \in sched} ELSE sched
    /\ UNCHANGED <<clients, replies, last, topics, srv, cur, db, fresh, loads, namespaces,
                   mapped, watches, finished, detachOpt, verilator, skipLoad, crash,
                   orderly, net>>

SimStep ==
    \/ Resume \/ Eval \/ Report \/ SimLocks \/ SimReceives \/ Broadcast \/ EndOfSimulation

\* The other end of the table's connection answers.
Remote ==
    /\ Alive
    /\ Answer
    /\ UNCHANGED <<clients, replies, last, topics, srv, cur, table, watches, simvars, flags,
                   crash, orderly>>

-----------------------------------------------------------------------------
\* initialize_hgdb_runtime_vpi and run(): the table from the environment is
\* loaded before the server starts, and the simulation waits.
Init ==
    /\ conns = {} /\ count = 0 /\ sent = 0
    /\ inbox = [ch \in Channels |-> <<>>]
    /\ replies = <<>> /\ last = None
    /\ topics = <<>>
    /\ srv = "idle" /\ cur = None /\ fresh = None
    /\ \E s \in Starts :
          LET ns == IF s.env = None THEN <<NoMapping>>
                    ELSE ComputeInstanceMapping(<<NoMapping>>, Places[The(s.env)][s.verilator])
          IN  /\ verilator = s.verilator
              /\ skipLoad = s.skipLoad
              /\ db = {[n |-> 1, file |-> e, map |-> <<>>] : e \in s.env}
              /\ sched = {NewScheduler(1, Normal(EnvBps)) : e \in s.env}
              /\ loads = Cardinality(s.env)
              /\ namespaces = ns
              /\ mapped = UNION {NamedAfter(ns, 1) : e \in s.env}
              /\ watches = [i \in DOMAIN ns |-> <<>>]
              /\ attached = (s.verilator \/ s.env # None)
              /\ orderly = ((s.skipLoad => s.env # None) /\ \A e \in s.env : Fits(e, s.verilator))
    /\ sim = "run_wait" /\ signal = FALSE /\ running = TRUE
    /\ detachOpt = FALSE /\ stopped = FALSE /\ finished = FALSE
    /\ crash = "none"
    /\ NetInit

Next ==
    \/ Open
    \/ \E ch \in Channels : Close(ch) \/ \E doc \in Messages : Ask(ch, doc)
    \/ ServerStep
    \/ SimStep \/ Teardown
    \/ Remote

\* Both threads and the other end keep going; nobody has to send anything, and
\* the simulation need not end.
Spec == Init /\ [][Next]_vars /\ WF_vars(ServerStep) /\ WF_vars(SimStep) /\ WF_vars(Remote)

-----------------------------------------------------------------------------
\* Every request that has been handled has got one response, on the connection
\* it came from and in the order of the requests, whatever the other clients do;
\* the response carries the request's token, unless the message was no request
\* or there was no table to ask (send_message, GenericResponse).
OneResponseEach ==
    \A l \in last : l.ch \in conns =>
        \E r \in Range(replies) :
            /\ replies = <<r>>
            /\ r.ch = l.ch
            /\ r.token = {l.token} \/ (l.bare /\ r.token = None)

\* As long as the clients connect first and once, with a table of the design, name
\* a namespace where there are several and do not come or go while a hit is broadcast, the debugger never
\* follows a null pointer, uses a freed table or looks up a connection in vain.
OrderlySessionSafe == orderly => crash = "none"

\* A query to a table behind a WebSocket gets its own answer, as long as the two
\* threads have not queried it at the same time ("it's a single thread model").
OwnAnswer ==
    [][\A t \in Thread : ~overlap /\ query[t] # None /\ query'[t] = None => result'[t] = query[t]]_vars

Pending(ch) == inbox[ch] # <<>> \/ \E c \in cur : c.ch = ch

\* A client that stays gets every request handled to its end, unless the server
\* thread waits for a table that cannot be reached or whose answer the other
\* thread has taken.
RequestsServed ==
    \A ch \in Channels :
        Pending(ch) ~> ~Pending(ch) \/ ch \notin conns \/ ~Alive \/ stopped \/ overlap \/ srv = "hung"
=============================================================================
