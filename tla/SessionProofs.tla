---------------------------- MODULE SessionProofs ----------------------------
(***************************************************************************)
(* Theorems about Session: a query to a remote table gets its own answer,  *)
(* and a request gets one response.                                        *)
(***************************************************************************)
EXTENDS Session, TLAPS

-----------------------------------------------------------------------------
(* The step of a handler                                                   *)

\* The actions that a request of a type may name.
Known(req) ==
    /\ req.type = "breakpoint-id" => req.f.action \in {"add", "remove"}
    /\ req.type = "data-breakpoint" => req.f.action \in {"clear", "remove", "add", "info"}

\* The server thread has a request unless it is idle, and has read it unless
\* it is about to reject it.
ReadInv ==
    /\ srv = "idle" => cur = None
    /\ srv # "idle" => \E c : cur = {c}
    /\ srv \notin {"idle", "reject"} => \A c \in cur : c.req.ok
    /\ \A c \in cur : c.req.ok => Known(c.req)

\* What a handler does to the requests and to the connection of the table: it
\* meets an undefined step, responds, or stops the server.
Handled ==
    /\ UNCHANGED <<count, sent, net>>
    /\ orderly' => orderly
    /\ \/ UNCHANGED <<conns, inbox, replies, last, srv, cur>>
       \/ /\ UNCHANGED <<conns, inbox>>
          /\ \E ok : Respond(ok)
       \/ /\ UNCHANGED <<conns, inbox>>
          /\ db = None /\ The(cur).req.type \in Checked
          /\ \E ok : RespondWith(None, ok)
       \/ /\ conns' = {} /\ inbox' = [ch \in Channels |-> <<>>]
          /\ UNCHANGED replies
          /\ Done

\* The only element of an optional value.
LEMMA TheOnly == ASSUME NEW x PROVE The({x}) = x
  BY DEF The

\* An undefined step leaves the requests alone.
LEMMA CrashHandled == ASSUME NEW why, Crash(why) PROVE Handled
  BY Zenon DEF Crash, Handled, clients

\* A handler that only answers.
LEMMA OnlyRespondHandled == ASSUME NEW ok, OnlyRespond(ok) PROVE Handled
  BY Zenon DEF OnlyRespond, Handled, clients

\* A handler that changes the breakpoints and answers.
LEMMA SetBreakpointsHandled == ASSUME NEW bps, SetBreakpoints(bps) PROVE Handled
  BY Zenon DEF SetBreakpoints, Handled, clients

\* The answer that there is no table.
LEMMA CheckSendHandled ==
  ASSUME CheckSendDbError, db = None, The(cur).req.type \in Checked PROVE Handled
  BY Zenon DEF CheckSendDbError, Handled, clients

\* Handlers run where the request has been read and the table been asked.
LEMMA HandlePlace == ASSUME Handle PROVE Alive /\ srv = "handle"
  BY Zenon DEF Handle, HandleBreakpoint, HandleBreakpointId, HandleBpLocation, HandleCommand,
     HandleDebugInfo, HandlePathMapping, HandleEvaluation, HandleOptionChange, HandleMonitor,
     HandleSetValue, HandleDataBreakpoint, Handling, AtServer

\* Every handler does one of these.
LEMMA HandleHandled == ASSUME ReadInv, Handle PROVE Handled
  <1>0. srv = "handle"
    BY HandlePlace
  <1>k. Known(The(cur).req)
    <2>1. PICK c : cur = {c}
      BY <1>0, Zenon DEF ReadInv
    <2>2. c.req.ok => Known(c.req)
      BY <2>1 DEF ReadInv
    <2>3. c.req.ok
      BY <1>0, <2>1 DEF ReadInv
    <2> QED BY <2>1, <2>2, <2>3, TheOnly, Zenon
  <1>1. CASE HandleBreakpoint
    <2>1. CASE db = None
      BY <1>1, <2>1, CheckSendHandled, Zenon DEF HandleBreakpoint, Handling, Checked
    <2>2. CASE db # None
      <3>1. PICK line \in F.lines :
               LET ids == BreakpointsAt(F.file, line, F.column)
               IN  CASE F.action = "add" /\ ids = {} -> OnlyRespond(FALSE)
                     [] F.action = "add" /\ ids # {} -> SetBreakpoints(Bps \cup Normal(ids))
                     [] OTHER                        -> SetBreakpoints(Bps \ Normal(ids))
        BY <1>1, <2>2, Zenon DEF HandleBreakpoint
      <3> DEFINE ids == BreakpointsAt(F.file, line, F.column)
      <3>2. \/ OnlyRespond(FALSE)
            \/ SetBreakpoints(Bps \cup Normal(ids))
            \/ SetBreakpoints(Bps \ Normal(ids))
        <4> HIDE DEF ids
        <4> QED BY <3>1, Zenon DEF ids
      <3> HIDE DEF ids
      <3> QED BY <3>2, OnlyRespondHandled, SetBreakpointsHandled, Zenon
    <2> QED BY <2>1, <2>2
  <1>2. CASE HandleBreakpointId
    <2>0. The(cur).req.type = "breakpoint-id" /\ F.action \in {"add", "remove"}
      BY <1>2, <1>k, Zenon DEF HandleBreakpointId, Handling, Known, F
    <2>1. CASE db = None
      <3>1. CheckSendDbError
        BY <1>2, <2>1, Zenon DEF HandleBreakpointId
      <3> QED BY <2>0, <2>1, <3>1, CheckSendHandled, Zenon DEF Checked
    <2>2. CASE db # None /\ F.action = "remove"
      <3>1. SetBreakpoints(Bps \ Normal({F.id}))
        BY <1>2, <2>2, Zenon DEF HandleBreakpointId
      <3> QED BY <3>1, SetBreakpointsHandled, Zenon
    <2>3. CASE db # None /\ F.action = "add"
      <3>1. SetBreakpoints(Bps \cup Normal({F.id})) \/ OnlyRespond(FALSE)
        BY <1>2, <2>3, Zenon DEF HandleBreakpointId
      <3> QED BY <3>1, SetBreakpointsHandled, OnlyRespondHandled, Zenon
    <2> QED BY <2>0, <2>1, <2>2, <2>3, Zenon
  <1>3. CASE HandleBpLocation
    <2>0. The(cur).req.type = "bp-location"
      BY <1>3, Zenon DEF HandleBpLocation, Handling
    <2>1. CASE db = None
      <3>1. CheckSendDbError
        BY <1>3, <2>1, Zenon DEF HandleBpLocation
      <3> QED BY <2>0, <2>1, <3>1, CheckSendHandled, Zenon DEF Checked
    <2>2. CASE db # None
      <3>1. \E ok : OnlyRespond(ok)
        BY <1>3, <2>2, Zenon DEF HandleBpLocation
      <3> QED BY <3>1, OnlyRespondHandled, Zenon
    <2> QED BY <2>1, <2>2
  <1>4. CASE HandleCommand
    <2>1. CASE sched = None
      <3>1. \E why : Crash(why)
        BY <1>4, <2>1, Zenon DEF HandleCommand
      <3> QED BY <3>1, CrashHandled, Zenon
    <2>2. CASE sched # None /\ F.command = "stop"
      BY <1>4, <2>2, Zenon DEF HandleCommand, Stop, Handled, ConnectionsChange
    <2>3. CASE sched # None /\ F.command # "stop"
      <3>1. /\ \E ok \in {TRUE} \cup {F.command # "jump"} : Respond(ok)
            /\ UNCHANGED <<clients, orderly, net>>
        BY <1>4, <2>3, Zenon DEF HandleCommand
      <3> QED BY <3>1, Zenon DEF Handled, clients
    <2> QED BY <2>1, <2>2, <2>3, Zenon
  <1>5. CASE HandleDebugInfo
    <2>1. (\E why : Crash(why)) \/ OnlyRespond(TRUE)
      BY <1>5, Zenon DEF HandleDebugInfo
    <2> QED BY <2>1, CrashHandled, OnlyRespondHandled, Zenon
  <1>6. CASE HandlePathMapping
    BY <1>6, Zenon DEF HandlePathMapping, Handled, clients
  <1>7. CASE HandleEvaluation
    <2>1. \E ok : OnlyRespond(ok)
      BY <1>7, Zenon DEF HandleEvaluation
    <2> QED BY <2>1, OnlyRespondHandled, Zenon
  <1>8. CASE HandleOptionChange
    BY <1>8, Zenon DEF HandleOptionChange, Handled, clients
  <1>9. CASE HandleMonitor
    <2>1. \/ \E why : Crash(why)
          \/ \E ok : OnlyRespond(ok)
          \/ Respond(TRUE) /\ UNCHANGED <<clients, orderly, net>>
      BY <1>9, Zenon DEF HandleMonitor
    <2>2. CASE Respond(TRUE) /\ UNCHANGED <<clients, orderly, net>>
      BY <2>2, Zenon DEF Handled, clients
    <2> QED BY <2>1, <2>2, CrashHandled, OnlyRespondHandled, Zenon
  <1>10. CASE HandleSetValue
    <2>1. (\E why : Crash(why)) \/ \E ok : OnlyRespond(ok)
      BY <1>10, Zenon DEF HandleSetValue
    <2> QED BY <2>1, CrashHandled, OnlyRespondHandled, Zenon
  <1>11. CASE HandleDataBreakpoint
    <2>0. F.action \in {"clear", "remove", "add", "info"}
      BY <1>11, <1>k, Zenon DEF HandleDataBreakpoint, Handling, Known, F
    <2>1. \/ \E why : Crash(why)
          \/ OnlyRespond(FALSE)
          \/ \E bps : SetBreakpoints(bps)
      BY <1>11, <2>0, Zenon DEF HandleDataBreakpoint
    <2> QED BY <2>1, CrashHandled, OnlyRespondHandled, SetBreakpointsHandled, Zenon
  <1> QED
    BY <1>1, <1>2, <1>3, <1>4, <1>5, <1>6, <1>7, <1>8, <1>9, <1>10, <1>11, Zenon DEF Handle

-----------------------------------------------------------------------------
(* The requests the server thread reads                                    *)

\* A request that is not rejected names an action of its type.
LEMMA PayloadKnown ==
  ASSUME NEW type, NEW doc, ParsePayload(type, doc).ok
  PROVE  Known(ParsePayload(type, doc))
  <1> DEFINE r == ParsePayload(type, doc)
  <1>1. CASE type = "breakpoint-id"
    <2> DEFINE id  == Member(doc, "id", "number")
               act == Member(doc, "action", "string")
    <2>1. r = BreakPointIDRequest(doc)
      BY <1>1, Zenon DEF ParsePayload
    <2>2. CASE id = None \/ act \notin {{"add"}, {"remove"}}
      <3>1. r = Rejected("breakpoint-id")
        BY <2>1, <2>2, Zenon DEF BreakPointIDRequest
      <3> QED BY <3>1 DEF Accepted, Rejected
    <2>3. CASE ~(id = None \/ act \notin {{"add"}, {"remove"}})
      <3>1. r = Accepted("breakpoint-id", [id |-> The(id), action |-> The(act)])
        BY <2>1, <2>3, Zenon DEF BreakPointIDRequest
      <3>2. The(act) \in {"add", "remove"}
        BY <2>3, TheOnly, Zenon
      <3> HIDE DEF r, id, act
      <3>3. r.type = "breakpoint-id" /\ r.f.action = The(act)
        BY <3>1 DEF Accepted, Rejected
      <3>4. Known(r)
        BY <3>2, <3>3 DEF Known
      <3> QED BY <3>4 DEF r
    <2> QED BY <2>2, <2>3
  <1>2. CASE type = "data-breakpoint"
    <2> DEFINE act == Member(doc, "action", "string")
               id  == Member(doc, "breakpoint-id", "number")
               var == Member(doc, "var_name", "string")
               bad == \/ act \notin {{"clear"}, {"remove"}, {"add"}, {"info"}}
                      \/ act # {"clear"} /\ id = None
                      \/ act \in {{"add"}, {"info"}} /\ var = None
               fields == [action |-> The(act), id |-> IF act = {"clear"} THEN 0 ELSE The(id),
                          var |-> var, ns |-> Member(doc, "namespace_id", "number")]
    <2>1. r = DataBreakpointRequest(doc)
      BY <1>2, Zenon DEF ParsePayload
    <2>2. CASE bad
      <3>1. r = Rejected("data-breakpoint")
        BY <2>1, <2>2, Zenon DEF DataBreakpointRequest
      <3> QED BY <3>1 DEF Accepted, Rejected
    <2>3. CASE ~bad
      <3>1. r = Accepted("data-breakpoint", fields)
        BY <2>1, <2>3, Zenon DEF DataBreakpointRequest
      <3>2. The(act) \in {"clear", "remove", "add", "info"}
        BY <2>3, TheOnly, Zenon
      <3>3. fields.action = The(act)
        OBVIOUS
      <3> HIDE DEF r, fields
      <3>4. r.type = "data-breakpoint" /\ r.f.action = The(act)
        BY <3>1, <3>3 DEF Accepted
      <3> HIDE DEF act
      <3>5. Known(r)
        BY <3>2, <3>4, Zenon DEF Known, act
      <3> QED BY <3>5 DEF r
    <2> QED BY <2>2, <2>3
  <1>3. CASE type \notin {"breakpoint-id", "data-breakpoint"}
    <2>1. \E t, fields : /\ t \notin {"breakpoint-id", "data-breakpoint"}
                         /\ r = Accepted(t, fields) \/ r = Rejected(t)
      BY <1>3, Zenon DEF ParsePayload, BreakPointRequest, ConnectionRequest,
         BreakPointLocationRequest, CommandRequest, DebuggerInformationRequest,
         PathMappingRequest, EvaluationRequest, OptionChangeRequest, MonitorRequest, SetValueRequest
    <2> HIDE DEF r
    <2>2. r.type \notin {"breakpoint-id", "data-breakpoint"}
      BY <2>1 DEF Accepted, Rejected
    <2>3. Known(r)
      BY <2>2 DEF Known
    <2> QED BY <2>3 DEF r
  <1> QED BY <1>1, <1>2, <1>3

-----------------------------------------------------------------------------
(* A query to a remote table                                               *)

\* What is on the way belongs to the one query that waits, until two threads
\* have queried the table at once.
NetInv ==
    /\ query = [t \in Thread |-> query[t]]
    /\ result = [t \in Thread |-> result[t]]
    /\ \A t \in Thread : lock = {t} => query[t] # None
    /\ ~overlap =>
         /\ \A t \in Thread : query[t] # None => \E q : query[t] = {q}
         /\ \A t, u \in Thread : query[t] # None /\ query[u] # None => t = u
         /\ wire # <<>> => ~ready /\ \E t \in Thread : \E q : query[t] = {q} /\ wire = <<q>>
         /\ ready => \E t \in Thread : query[t] # None /\ query[t] = payload

\* What a step of the session does to the connection of the table.
NetStep ==
    \/ UNCHANGED net
    \/ Answer
    \/ Reopen
    \/ \E t \in Thread : Lock(t) \/ Receive(t) \/ \E q : Send(t, q)
    \/ /\ UNCHANGED <<query, lock, wire, payload, ready, overlap>>
       /\ \E t \in Thread : \E r : result' = [result EXCEPT ![t] = r]

\* Every step of the session is one of these.
LEMMA NextNet == ASSUME ReadInv, Next PROVE NetStep
  <1>t. "server" \in Thread /\ "sim" \in Thread
    BY SessionAssumption
  <1>1. CASE Open
    BY <1>1, Zenon DEF Open, NetStep
  <1>2. CASE \E ch \in Channels : Close(ch) \/ \E doc \in Messages : Ask(ch, doc)
    BY <1>2, Zenon DEF Close, Ask, NetStep
  <1>3. CASE \E ch \in Channels : Take(ch)
    <2>1. PICK ch \in Channels : Take(ch)
      BY <1>3, Zenon
    <2>2. UNCHANGED <<query, lock, wire, payload, ready, overlap>>
      BY <2>1, Zenon DEF Take
    <2>3. UNCHANGED result \/ result' = [result EXCEPT !["server"] = None]
      BY <2>1, Zenon DEF Take
    <2>4. CASE UNCHANGED result
      BY <2>2, <2>4 DEF NetStep, net
    <2>5. CASE result' = [result EXCEPT !["server"] = None]
      BY <1>t, <2>2, <2>5, Zenon DEF NetStep
    <2> QED BY <2>3, <2>4, <2>5
  <1>4. CASE Reject \/ Create \/ Reset \/ Connected
    BY <1>4, Zenon DEF Reject, Create, Reset, Connected, NetStep
  <1>5. CASE ServerSends \/ ServerLocks \/ ServerReceives
    BY <1>t, <1>5, Zenon DEF ServerSends, ServerLocks, ServerReceives, NetStep
  <1>6. CASE Assign
    BY <1>6, Zenon DEF Assign, NetStep
  <1>7. CASE Handle
    <2>1. Handled
      BY <1>7, HandleHandled
    <2> QED BY <2>1, Zenon DEF Handled, NetStep
  <1>8. CASE SimStep
    BY <1>t, <1>8, Zenon DEF SimStep, Resume, Eval, Report, SimLocks, SimReceives, Broadcast,
       EndOfSimulation, NetStep
  <1>9. CASE Teardown \/ Remote
    BY <1>9, Zenon DEF Teardown, Remote, NetStep
  <1> QED BY <1>1, <1>2, <1>3, <1>4, <1>5, <1>6, <1>7, <1>8, <1>9, Zenon DEF Next, ServerStep

\* They keep what is on the way with the query it belongs to.
LEMMA NetInvStep == ASSUME NetInv, NetStep PROVE NetInv'
  <1>1. CASE UNCHANGED net
    BY <1>1 DEF NetInv, net
  <1>2. CASE Answer
    <2>1. CASE overlap
      BY <1>2, <2>1 DEF NetInv, Answer
    <2>2. CASE ~overlap
      <3>1. PICK t, q : t \in Thread /\ query[t] = {q} /\ wire = <<q>>
        BY <1>2, <2>2 DEF NetInv, Answer
      <3>2. wire' = <<>> /\ payload' = {q}
        BY <1>2, <3>1 DEF Answer
      <3>3. query[t] # None /\ query[t] = payload'
        BY <3>1, <3>2 DEF None
      <3>4. t \in Thread
        BY <3>1
      <3> QED BY <1>2, <2>2, <3>2, <3>3, <3>4, Zenon DEF NetInv, Answer
    <2> QED BY <2>1, <2>2
  <1>3. CASE Reopen
    <2>1. wire' = <<>> /\ ~ready' /\ lock' = None /\ query' = query /\ result' = result /\ overlap' = overlap
      BY <1>3 DEF Reopen
    <2> QED BY <2>1 DEF NetInv, None
  <1>4. ASSUME NEW t \in Thread, Lock(t)
        PROVE  NetInv'
    <2>1. /\ query[t] # None /\ lock' = {t}
          /\ UNCHANGED <<query, result, wire, payload, ready, overlap>>
      BY <1>4, Zenon DEF Lock
    <2>2. \A u \in Thread : lock' = {u} => query'[u] # None
      BY <2>1
    <2> QED BY <2>1, <2>2 DEF NetInv
  <1>5. ASSUME NEW t \in Thread, Receive(t)
        PROVE  NetInv'
    <2>1. /\ lock = {t} /\ lock' = None /\ ready /\ ~ready'
          /\ query' = [query EXCEPT ![t] = None]
          /\ UNCHANGED <<wire, payload, overlap>>
      BY <1>5, Zenon DEF Receive
    <2>2. result' = [u \in Thread |-> result'[u]]
      BY <1>5 DEF Receive, NetInv
    <2>3. query' = [u \in Thread |-> IF u = t THEN None ELSE query[u]]
      BY <2>1 DEF NetInv
    <2>4. ~overlap => wire = <<>>
      BY <2>1 DEF NetInv
    <2> QED BY <2>1, <2>2, <2>3, <2>4 DEF NetInv, None
  <1>6. ASSUME NEW t \in Thread, NEW q, Send(t, q)
        PROVE  NetInv'
    <2>1. /\ lock = None /\ query[t] = None
          /\ query' = [query EXCEPT ![t] = {q}]
          /\ wire' = Append(wire, q)
          /\ overlap' = (overlap \/ \E u \in Thread \ {t} : query[u] # None)
          /\ UNCHANGED <<result, lock, payload, ready>>
      BY <1>6, Zenon DEF Send
    <2>2. query' = [u \in Thread |-> IF u = t THEN {q} ELSE query[u]]
      BY <2>1 DEF NetInv
    <2>3. CASE overlap'
      BY <2>1, <2>2, <2>3 DEF NetInv, None
    <2>4. CASE ~overlap'
      <3>1. ~overlap /\ \A u \in Thread : query[u] = None
        BY <2>1, <2>4
      <3>2. wire = <<>> /\ ~ready
        BY <3>1 DEF NetInv, None
      <3>3. wire' = <<q>>
        BY <2>1, <3>2
      <3>4. \A u \in Thread : u # t => query'[u] = None
        BY <2>2, <3>1
      <3>5. query'[t] = {q}
        BY <2>2
      <3> QED BY <2>1, <2>2, <3>2, <3>3, <3>4, <3>5 DEF NetInv, None
    <2> QED BY <2>3, <2>4
  <1>7. ASSUME UNCHANGED <<query, lock, wire, payload, ready, overlap>>,
               NEW t \in Thread, NEW r, result' = [result EXCEPT ![t] = r]
        PROVE  NetInv'
    BY <1>7 DEF NetInv
  <1> QED BY <1>1, <1>2, <1>3, <1>4, <1>5, <1>6, <1>7, Zenon DEF NetStep

-----------------------------------------------------------------------------
(* Where the server thread is                                              *)

\* The steps that leave the requests where they are.
Elsewhere ==
    /\ UNCHANGED <<clients, replies, last, cur>>
    /\ srv' = srv \/ (srv \notin {"idle", "reject"} /\ srv' \notin {"idle", "reject"})

\* A step handles requests or comes and goes, or leaves them where they are.
LEMMA NextRequests ==
  ASSUME ReadInv, Next
  PROVE  \/ Open \/ Teardown
         \/ \E ch \in Channels : Close(ch) \/ Take(ch) \/ \E doc \in Messages : Ask(ch, doc)
         \/ (\E c : cur = {c}) /\ Handled
         \/ Elsewhere
  <1>1. CASE Reject \/ Connected
    <2>1. srv \in {"reject", "load"}
      BY <1>1, Zenon DEF Reject, Connected, AtServer
    <2>2. \E c : cur = {c}
      BY <2>1, Zenon DEF ReadInv
    <2> QED BY <1>1, <2>2, Zenon DEF Reject, Connected, Handled, clients
  <1>2. CASE ServerSends \/ ServerLocks
    BY <1>2, Zenon DEF ServerSends, ServerLocks, Elsewhere
  <1>3. CASE ServerReceives
    <2>1. srv = "query" /\ srv' \in {"load", "handle"}
      BY <1>3, Zenon DEF ServerReceives, AtServer
    <2> QED BY <1>3, <2>1, Zenon DEF ServerReceives, Elsewhere
  <1>4. CASE Create
    <2>1. srv = "create" /\ srv' \in {"load", "hung", "reset"}
      BY <1>4, Zenon DEF Create, AtServer
    <2> QED BY <1>4, <2>1, Zenon DEF Create, Elsewhere
  <1>5. CASE Reset
    <2>1. srv = "reset" /\ srv' \in {"load", "assign"}
      BY <1>5, Zenon DEF Reset, AtServer
    <2> QED BY <1>5, <2>1, Zenon DEF Reset, Elsewhere
  <1>6. CASE Assign
    <2>1. srv = "assign" /\ srv' \in {"load", "query"}
      BY <1>6, Zenon DEF Assign, AtServer
    <2> QED BY <1>6, <2>1, Zenon DEF Assign, Elsewhere
  <1>7. CASE Handle
    <2>1. srv = "handle"
      BY <1>7, HandlePlace
    <2>2. \E c : cur = {c}
      BY <2>1, Zenon DEF ReadInv
    <2> QED BY <1>7, <2>2, HandleHandled, Zenon
  <1>8. CASE SimStep
    BY <1>8, Zenon DEF SimStep, Resume, Eval, Report, SimLocks, SimReceives, Broadcast,
       EndOfSimulation, Elsewhere
  <1>9. CASE Remote
    BY <1>9, Zenon DEF Remote, Elsewhere
  <1> QED BY <1>1, <1>2, <1>3, <1>4, <1>5, <1>6, <1>7, <1>8, <1>9, Zenon DEF Next, ServerStep

\* A request that has been read names an action it may name.
LEMMA ParseKnown ==
  ASSUME NEW msg, ParseRequest(msg).req.ok PROVE Known(ParseRequest(msg).req)
  <1>1. \/ ParseRequest(msg).req = Rejected("error")
        \/ \E type, doc : ParseRequest(msg).req = ParsePayload(type, doc)
    BY DEF ParseRequest
  <1>2. CASE ParseRequest(msg).req = Rejected("error")
    BY <1>2 DEF Rejected
  <1>3. ASSUME NEW type, NEW doc, ParseRequest(msg).req = ParsePayload(type, doc)
        PROVE  Known(ParseRequest(msg).req)
    BY <1>3, PayloadKnown, Zenon
  <1> QED BY <1>1, <1>2, <1>3, Zenon

\* Where the server thread is tells whether it has a request.
LEMMA ReadStep == ASSUME ReadInv, [Next]_vars PROVE ReadInv'
  <1>1. CASE UNCHANGED <<srv, cur>>
    BY <1>1, Zenon DEF ReadInv
  <1>2. CASE UNCHANGED vars
    BY <1>1, <1>2, Zenon DEF vars
  <1>3. CASE Open \/ Teardown
    BY <1>1, <1>3, Zenon DEF Open, Teardown
  <1>4. ASSUME NEW ch \in Channels, Close(ch) \/ \E doc \in Messages : Ask(ch, doc)
        PROVE  ReadInv'
    BY <1>1, <1>4, Zenon DEF Close, Ask
  <1>5. ASSUME NEW ch \in Channels, Take(ch)
        PROVE  ReadInv'
    <2>1. CASE ch \notin conns
      BY <1>1, <1>5, <2>1, Zenon DEF Take
    <2>2. CASE ch \in conns
      <3> DEFINE p == ParseRequest(Head(inbox[ch]))
                 c == [ch |-> ch, req |-> p.req, token |-> p.token]
      <3>1. /\ cur' = {c}
            /\ ~p.req.ok => srv' = "reject"
            /\ p.req.ok => srv' \in {"create", "query", "handle"}
        BY <1>5, <2>2, Zenon DEF Take
      <3>2. c.req = p.req
        OBVIOUS
      <3>3. p.req.ok => Known(p.req)
        BY ParseKnown, Zenon
      <3> HIDE DEF p, c
      <3>4. c.req.ok => Known(c.req)
        BY <3>2, <3>3, Zenon
      <3>5. \A d \in cur' : d = c
        BY <3>1
      <3>6. srv' # "idle" /\ (srv' # "reject" => c.req.ok)
        BY <3>1, <3>2
      <3> QED BY <3>1, <3>4, <3>5, <3>6, Zenon DEF ReadInv
    <2> QED BY <2>1, <2>2
  <1>6. CASE Handled
    <2>1. \/ UNCHANGED <<srv, cur>>
          \/ Done
      BY <1>6, Zenon DEF Handled, Respond, RespondWith
    <2>2. CASE Done
      <3>1. cur' = None /\ srv' = "idle"
        BY <2>2, Zenon DEF Done
      <3> QED BY <3>1 DEF ReadInv, None
    <2> QED BY <1>1, <2>1, <2>2
  <1>7. CASE Elsewhere
    <2>1. cur' = cur
      BY <1>7 DEF Elsewhere
    <2>2. CASE srv' = srv
      BY <1>1, <2>1, <2>2
    <2>3. CASE srv \notin {"idle", "reject"} /\ srv' \notin {"idle", "reject"}
      BY <2>1, <2>3, Zenon DEF ReadInv
    <2> QED BY <1>7, <2>2, <2>3, Zenon DEF Elsewhere
  <1> QED BY <1>2, <1>3, <1>4, <1>5, <1>6, <1>7, NextRequests, Zenon

\* A query to a table behind a WebSocket gets its own answer, as long as the two
\* threads have not queried it at the same time: for any tables and any number of
\* requests, what get_resp() takes from payload_ is the answer to what it has sent.
THEOREM QueryGetsOwnAnswer == Spec => OwnAnswer
  <1>1. Init => ReadInv
    BY Zenon DEF Init, ReadInv, None
  <1>2. Init => NetInv
    BY DEF Init, NetInit, NetInv, None
  <1>3. NetInv /\ ReadInv /\ [Next]_vars => NetInv'
    <2>1. ASSUME NetInv, UNCHANGED vars PROVE NetInv'
      BY <2>1, Zenon DEF vars, net, NetInv
    <2> QED BY <2>1, NextNet, NetInvStep, Zenon
  <1>4. ASSUME ReadInv, NetInv, [Next]_vars
        PROVE  [\A t \in Thread : ~overlap /\ query[t] # None /\ query'[t] = None
                                  => result'[t] = query[t]]_vars
    <2> SUFFICES ASSUME Next, NEW t \in Thread, ~overlap, query[t] # None, query'[t] = None
                 PROVE  result'[t] = query[t]
      BY <1>4, Zenon
    <2>1. NetStep
      BY <1>4, NextNet
    <2>2. PICK u \in Thread : Receive(u)
      <3>1. CASE \E u \in Thread : Lock(u) \/ \E q : Send(u, q)
        BY <1>4, <3>1 DEF Lock, Send, NetInv, None
      <3> QED BY <2>1, <3>1, Zenon DEF NetStep, net, Answer, Reopen
    <2>3. /\ ready /\ lock = {u}
          /\ query' = [query EXCEPT ![u] = None]
          /\ result' = [result EXCEPT ![u] = SymbolResponse(The(query[u]).type, The(payload))]
      BY <2>2, Zenon DEF Receive
    <2>4. u = t
      BY <1>4, <2>3 DEF NetInv
    <2>5. query[t] = payload
      BY <1>4, <2>3 DEF NetInv
    <2>6. PICK q : query[t] = {q}
      BY <1>4, Zenon DEF NetInv
    <2>7. The(query[t]) = q /\ The(payload) = q
      BY <2>5, <2>6, TheOnly, Zenon
    <2>8. SymbolResponse(q.type, q) = {q}
      BY Zenon DEF SymbolResponse
    <2> QED BY <1>4, <2>3, <2>4, <2>6, <2>7, <2>8 DEF NetInv
  <1> QED BY <1>1, <1>2, <1>3, <1>4, ReadStep, PTL DEF Spec, OwnAnswer

-----------------------------------------------------------------------------
(* One response for a request                                              *)

\* A message in an inbox carries the number of the last request, unless it is
\* no document; so does the request being handled, unless it could not be read.
Stamped(msg) == msg = None \/ \E doc : msg = {WithToken(doc, sent)}
OwnToken(token, type) == token = {sent} \/ (type = "error" /\ token = None)

Ids == 0 .. count - 1

\* Channel ids are given out once.  There is at most one request on its way, and
\* nothing has been answered while there is.
AnswerInv ==
    /\ count \in Nat /\ sent \in Nat
    /\ \A ch \in conns : ch \in Ids
    /\ inbox = [ch \in Channels |-> inbox[ch]]
    /\ \A ch \in Channels : inbox[ch] # <<>> =>
          /\ \E msg : inbox[ch] = <<msg>> /\ Stamped(msg)
          /\ cur = None /\ last = None /\ replies = <<>>
          /\ \A other \in Channels : inbox[other] # <<>> => other = ch
    /\ \A c \in cur :
          /\ c.ch \in Ids /\ OwnToken(c.token, c.req.type)
          /\ last = None /\ replies = <<>>
    /\ \A l \in last : l.ch \in Ids
    /\ OneResponseEach

\* The token parse_request finds is the one the message was sent with.
LEMMA ParseToken ==
  ASSUME NEW msg, Stamped(msg)
  PROVE  OwnToken(ParseRequest(msg).token, ParseRequest(msg).req.type)
  <1> DEFINE p == ParseRequest(msg)
  <1>1. \/ p = [req |-> Rejected("error"), token |-> None]
        \/ /\ msg # None
           /\ \E req : p = [req |-> req, token |-> Member(The(msg), "token", "string")]
    BY Zenon DEF ParseRequest
  <1>2. CASE p = [req |-> Rejected("error"), token |-> None]
    BY <1>2 DEF OwnToken, Rejected
  <1>3. CASE /\ msg # None
             /\ \E req : p = [req |-> req, token |-> Member(The(msg), "token", "string")]
    <2>1. p.token = Member(The(msg), "token", "string")
      BY <1>3
    <2>2. PICK doc : msg = {WithToken(doc, sent)}
      BY <1>3, Zenon DEF Stamped
    <2> DEFINE d == WithToken(doc, sent)
    <2>3. The(msg) = d
      BY <2>2, TheOnly, Zenon
    <2>4. "token" \in DOMAIN d /\ d["token"] = Str(sent)
      BY DEF WithToken
    <2> HIDE DEF d
    <2>5. d["token"].v = sent /\ d["token"].kind = "string"
      BY <2>4 DEF Str
    <2>6. {m \in DOMAIN d \cap {"token"} : d[m].kind = "string"} = {"token"}
      BY <2>4, <2>5
    <2>7. Member(d, "token", "string") = {sent}
      BY <2>5, <2>6 DEF Member
    <2> QED BY <2>1, <2>3, <2>7, Zenon DEF OwnToken
  <1> QED BY <1>1, <1>2, <1>3

\* A response to the request in hand is the only one, and carries its token.
LEMMA AnswerResponds ==
  ASSUME AnswerInv, NEW c, cur = {c}, NEW token, NEW ok, RespondWith(token, ok),
         UNCHANGED <<conns, inbox, count, sent>>,
         \/ token = c.token
         \/ token = None /\ db = None /\ c.req.type \in Checked
  PROVE  AnswerInv'
  <1> DEFINE bare == c.req.type = "error" \/ (c.req.type \in Checked /\ db = None)
             l == [ch |-> c.ch, token |-> sent, bare |-> bare]
             r == [ch |-> c.ch, token |-> token, ok |-> ok]
  <1>1. The(cur) = c
    BY TheOnly, Zenon
  <1>2. /\ last' = {l} /\ cur' = None
        /\ replies' = IF c.ch \in conns THEN Append(replies, r) ELSE replies
    BY <1>1, Zenon DEF RespondWith, Done
  <1>3. c.ch \in Ids /\ OwnToken(c.token, c.req.type) /\ last = None /\ replies = <<>>
    BY DEF AnswerInv
  <1>4. cur # None
    BY DEF None
  <1>5. \A ch \in Channels : inbox[ch] = <<>>
    BY <1>4, Zenon DEF AnswerInv
  <1>6. token = {sent} \/ (bare /\ token = None)
    BY <1>3, Zenon DEF OwnToken
  <1>7. l.ch = c.ch /\ l.token = sent /\ l.bare = bare /\ r.ch = c.ch /\ r.token = token
    OBVIOUS
  <1> HIDE DEF l, r, bare
  <1>8. OneResponseEach'
    <2> SUFFICES ASSUME c.ch \in conns
                 PROVE  \E x \in Range(replies') :
                           /\ replies' = <<x>> /\ x.ch = l.ch
                           /\ x.token = {l.token} \/ (l.bare /\ x.token = None)
      BY <1>2, <1>7 DEF OneResponseEach
    <2>1. replies' = <<r>>
      BY <1>2, <1>3
    <2>2. r \in Range(replies')
      BY <2>1 DEF Range
    <2>3. r.token = {l.token} \/ (l.bare /\ r.token = None)
      BY <1>6, <1>7
    <2> QED BY <1>7, <2>1, <2>2, <2>3, Zenon
  <1>9. \A x \in last' : x.ch \in Ids
    BY <1>2, <1>3, <1>7
  <1>10. Ids' = Ids
    BY DEF Ids
  <1> QED BY <1>2, <1>5, <1>8, <1>9, <1>10 DEF AnswerInv, None

\* Connections that go leave the responses as they are.
LEMMA AnswerLeaves ==
  ASSUME AnswerInv, conns' \subseteq conns, UNCHANGED <<count, sent, replies, last, cur>>,
         inbox' = [ch \in Channels |-> inbox'[ch]],
         \A ch \in Channels : inbox'[ch] \in {inbox[ch], <<>>}
  PROVE  AnswerInv'
  <1>1. Ids' = Ids
    BY DEF Ids
  <1>2. OneResponseEach'
    BY DEF OneResponseEach, AnswerInv
  <1>3. \A ch \in Channels : inbox'[ch] # <<>> =>
          /\ \E msg : inbox'[ch] = <<msg>> /\ Stamped(msg)'
          /\ cur' = None /\ last' = None /\ replies' = <<>>
          /\ \A other \in Channels : inbox'[other] # <<>> => other = ch
    <2>1. \A msg : Stamped(msg)' = Stamped(msg)
      BY DEF Stamped
    <2> TAKE ch \in Channels
    <2> HAVE inbox'[ch] # <<>>
    <2>2. inbox'[ch] = inbox[ch] /\ inbox[ch] # <<>>
      OBVIOUS
    <2>3. /\ \E msg : inbox[ch] = <<msg>> /\ Stamped(msg)
          /\ cur = None /\ last = None /\ replies = <<>>
          /\ \A other \in Channels : inbox[other] # <<>> => other = ch
      BY <2>2, Zenon DEF AnswerInv
    <2>4. \A other \in Channels : inbox'[other] # <<>> => inbox[other] # <<>>
      OBVIOUS
    <2> QED BY <2>1, <2>2, <2>3, <2>4, Zenon
  <1>4. \A c \in cur : OwnToken(c.token, c.req.type)' = OwnToken(c.token, c.req.type)
    BY DEF OwnToken
  <1> QED BY <1>1, <1>2, <1>3, <1>4 DEF AnswerInv

\* Every step leaves at most one request on its way, and one response to it.
LEMMA AnswerStep == ASSUME ReadInv, AnswerInv, [Next]_vars PROVE AnswerInv'
  <1> USE DEF AnswerInv
  <1>1. CASE UNCHANGED <<clients, replies, last, cur>>
    <2>1. UNCHANGED <<conns, count, sent, inbox, replies, last, cur>>
      BY <1>1, Zenon DEF clients
    <2>2. \A ch \in Channels : inbox'[ch] \in {inbox[ch], <<>>}
      BY <2>1
    <2>3. inbox' = [ch \in Channels |-> inbox'[ch]]
      BY <2>1
    <2> HIDE DEF AnswerInv
    <2> QED BY <2>1, <2>2, <2>3, AnswerLeaves
  <1>2. CASE UNCHANGED vars
    BY <1>1, <1>2, Zenon DEF vars
  <1>3. CASE Elsewhere
    BY <1>1, <1>3, Zenon DEF Elsewhere
  <1>4. CASE Open
    <2>1. /\ conns' = conns \cup {count} /\ count' = count + 1
          /\ UNCHANGED <<sent, inbox, replies, last, cur>>
      BY <1>4, Zenon DEF Open
    <2>2. Ids \subseteq Ids' /\ count \in Ids' /\ count \notin Ids
      BY <2>1 DEF Ids
    <2>3. \A msg : Stamped(msg)' = Stamped(msg)
      BY <2>1 DEF Stamped
    <2>4. \A c \in cur : OwnToken(c.token, c.req.type)' = OwnToken(c.token, c.req.type)
      BY <2>1 DEF OwnToken
    <2>5. OneResponseEach'
      <3>1. \A l \in last : l.ch \in conns' => l.ch \in conns
        BY <2>1, <2>2
      <3> QED BY <2>1, <3>1 DEF OneResponseEach
    <2>6. \A ch \in conns' : ch \in Ids'
      BY <2>1, <2>2
    <2>7. count' \in Nat
      BY <2>1
    <2>8. \A ch \in Channels : inbox'[ch] # <<>> =>
            /\ \E msg : inbox'[ch] = <<msg>> /\ Stamped(msg)'
            /\ cur' = None /\ last' = None /\ replies' = <<>>
            /\ \A other \in Channels : inbox'[other] # <<>> => other = ch
      BY <2>1, <2>3
    <2>9. \A c \in cur' :
            /\ c.ch \in Ids' /\ OwnToken(c.token, c.req.type)'
            /\ last' = None /\ replies' = <<>>
      BY <2>1, <2>2, <2>4
    <2>10. \A l \in last' : l.ch \in Ids'
      BY <2>1, <2>2
    <2>11. sent' \in Nat /\ inbox' = [ch \in Channels |-> inbox'[ch]]
      BY <2>1
    <2> QED BY <2>5, <2>6, <2>7, <2>8, <2>9, <2>10, <2>11
  <1>5. CASE Teardown
    <2>1. conns' = {} /\ UNCHANGED <<count, sent, inbox, replies, last, cur>>
      BY <1>5, Zenon DEF Teardown
    <2>2. inbox' = [ch \in Channels |-> inbox'[ch]] /\ \A ch \in Channels : inbox'[ch] \in {inbox[ch], <<>>}
      BY <2>1
    <2> HIDE DEF AnswerInv
    <2> QED BY <2>1, <2>2, AnswerLeaves
  <1>6. ASSUME NEW ch \in Channels, Close(ch)
        PROVE  AnswerInv'
    <2>1. /\ conns' = conns \ {ch} /\ inbox' = [inbox EXCEPT ![ch] = <<>>]
          /\ UNCHANGED <<count, sent, replies, last, cur>>
      BY <1>6, Zenon DEF Close
    <2>2. inbox' = [c \in Channels |-> IF c = ch THEN <<>> ELSE inbox[c]]
      BY <2>1
    <2>3. inbox' = [c \in Channels |-> inbox'[c]] /\ \A c \in Channels : inbox'[c] \in {inbox[c], <<>>}
      BY <2>2
    <2>4. conns' \subseteq conns
      BY <2>1
    <2> HIDE DEF AnswerInv
    <2> QED BY <2>1, <2>3, <2>4, AnswerLeaves
  <1>7. ASSUME NEW ch \in Channels, NEW doc \in Messages, Ask(ch, doc)
        PROVE  AnswerInv'
    <2>0. PICK msg : msg = IF doc = None THEN None ELSE {WithToken(The(doc), sent + 1)}
      OBVIOUS
    <2>1. /\ cur = None /\ sent' = sent + 1
          /\ \A c \in Channels : inbox[c] = <<>>
          /\ inbox' = [inbox EXCEPT ![ch] = <<msg>>]
          /\ replies' = <<>> /\ last' = None
          /\ UNCHANGED <<conns, count, cur>>
      BY <1>7, <2>0, Zenon DEF Ask
    <2>2. Stamped(msg)'
      BY <2>0, <2>1, Zenon DEF Stamped
    <2>3. inbox' = [c \in Channels |-> IF c = ch THEN <<msg>> ELSE <<>>]
      BY <2>1
    <2>4. \A c \in Channels : inbox'[c] # <<>> => c = ch /\ inbox'[c] = <<msg>>
      BY <2>3
    <2>5. OneResponseEach' /\ \A l \in last' : l.ch \in Ids'
      BY <2>1 DEF OneResponseEach, None
    <2>6. Ids' = Ids /\ sent' \in Nat
      BY <2>1 DEF Ids
    <2>7. inbox' = [c \in Channels |-> inbox'[c]]
      BY <2>3
    <2>8. \A c \in Channels : inbox'[c] # <<>> =>
            /\ \E m : inbox'[c] = <<m>> /\ Stamped(m)'
            /\ cur' = None /\ last' = None /\ replies' = <<>>
            /\ \A other \in Channels : inbox'[other] # <<>> => other = c
      BY <2>1, <2>2, <2>4, Zenon
    <2>9. cur' = {}
      BY <2>1 DEF None
    <2> QED BY <2>1, <2>5, <2>6, <2>7, <2>8, <2>9
  <1>8. ASSUME NEW ch \in Channels, Take(ch)
        PROVE  AnswerInv'
    <2>1. inbox[ch] # <<>> /\ UNCHANGED <<conns, count, sent, replies, last>>
      BY <1>8, Zenon DEF Take
    <2>2. CASE ch \notin conns
      <3>1. UNCHANGED <<clients, replies, last, cur>>
        BY <1>8, <2>2, Zenon DEF Take, clients
      <3> QED BY <1>1, <3>1
    <2>3. CASE ch \in conns
      <3>0. PICK p : p = ParseRequest(Head(inbox[ch]))
        OBVIOUS
      <3> DEFINE c == [ch |-> ch, req |-> p.req, token |-> p.token]
      <3>1. cur' = {c} /\ inbox' = [inbox EXCEPT ![ch] = <<>>]
        BY <1>8, <2>3, <3>0, Zenon DEF Take
      <3>2. PICK msg : inbox[ch] = <<msg>> /\ Stamped(msg)
        BY <2>1, Zenon
      <3>3. Head(inbox[ch]) = msg
        BY <3>2
      <3>4. OwnToken(p.token, p.req.type)
        BY <3>0, <3>2, <3>3, ParseToken, Zenon
      <3>5. c.ch = ch /\ c.req = p.req /\ c.token = p.token
        OBVIOUS
      <3> HIDE DEF c
      <3>6. last = None /\ replies = <<>> /\ \A other \in Channels : inbox[other] # <<>> => other = ch
        BY <2>1, Zenon
      <3>7. inbox' = [d \in Channels |-> <<>>]
        BY <3>1, <3>6
      <3>8. ch \in Ids /\ Ids' = Ids
        BY <2>1, <2>3 DEF Ids
      <3>9. OwnToken(c.token, c.req.type)'
        <4>1. OwnToken(c.token, c.req.type)
          BY <3>4, <3>5, Zenon
        <4> QED BY <2>1, <4>1 DEF OwnToken
      <3>10. OneResponseEach' /\ \A l \in last' : l.ch \in Ids'
        BY <2>1, <3>6 DEF OneResponseEach, None
      <3> QED BY <2>1, <3>1, <3>5, <3>6, <3>7, <3>8, <3>9, <3>10
    <2> QED BY <2>2, <2>3
  <1>9. CASE (\E c : cur = {c}) /\ Handled
    <2>0. count' = count /\ sent' = sent
      BY <1>9, Zenon DEF Handled
    <2>1. CASE UNCHANGED <<conns, inbox, replies, last, srv, cur>>
      BY <1>1, <2>0, <2>1, Zenon DEF clients
    <2>2. ASSUME NEW c, cur = {c}, UNCHANGED <<conns, inbox>>, NEW ok, Respond(ok)
          PROVE  AnswerInv'
      <3>1. RespondWith(c.token, ok)
        BY <2>2, TheOnly, Zenon DEF Respond
      <3> HIDE DEF AnswerInv
      <3> QED BY <2>0, <2>2, <3>1, AnswerResponds
    <2>3. ASSUME NEW c, cur = {c}, UNCHANGED <<conns, inbox>>, db = None,
                 The(cur).req.type \in Checked, NEW ok, RespondWith(None, ok)
          PROVE  AnswerInv'
      <3>1. c.req.type \in Checked
        BY <2>3, TheOnly, Zenon
      <3> HIDE DEF AnswerInv
      <3> QED BY <2>0, <2>3, <3>1, AnswerResponds
    <2>4. ASSUME NEW c, cur = {c}, conns' = {}, inbox' = [ch \in Channels |-> <<>>],
                 UNCHANGED replies, Done
          PROVE  AnswerInv'
      <3>1. The(cur) = c
        BY <2>4, TheOnly, Zenon
      <3>2. cur' = None /\ \E bare : last' = {[ch |-> c.ch, token |-> sent, bare |-> bare]}
        BY <2>4, <3>1, Zenon DEF Done
      <3>3. Ids' = Ids /\ c.ch \in Ids
        BY <2>0, <2>4 DEF Ids
      <3>4. \A l \in last' : l.ch \in Ids'
        BY <3>2, <3>3
      <3>5. OneResponseEach'
        BY <2>4 DEF OneResponseEach
      <3> QED BY <2>0, <2>4, <3>2, <3>4, <3>5 DEF None
    <2> QED BY <1>9, <2>1, <2>2, <2>3, <2>4, Zenon DEF Handled
  <1> HIDE DEF AnswerInv
  <1> QED BY <1>2, <1>3, <1>4, <1>5, <1>6, <1>7, <1>8, <1>9, NextRequests, Zenon

\* Every request that has been handled has got one response, on the connection it
\* came from and with its token: for any tables, any number of clients and whatever
\* they send, come and go (send_message, GenericResponse).
THEOREM RequestsAnsweredOnce == Spec => []OneResponseEach
  <1>1. Init => ReadInv
    BY Zenon DEF Init, ReadInv, None
  <1>2. Init => AnswerInv
    <2> SUFFICES ASSUME Init PROVE AnswerInv
      OBVIOUS
    <2>1. /\ conns = {} /\ count = 0 /\ sent = 0 /\ inbox = [ch \in Channels |-> <<>>]
          /\ last = None /\ cur = None
      BY Zenon DEF Init
    <2> QED BY <2>1 DEF AnswerInv, OneResponseEach, None
  <1>3. AnswerInv => OneResponseEach
    BY DEF AnswerInv
  <1> QED BY <1>1, <1>2, <1>3, ReadStep, AnswerStep, PTL DEF Spec
=============================================================================
