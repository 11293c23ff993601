------------------------------ MODULE Protocol ------------------------------
(***************************************************************************)
(* The messages of src/proto.cc: what the debugger makes of a JSON         *)
(* document a client has sent, and what a symbol table at the other end of *)
(* a connection is asked and answers.                                      *)
(*                                                                         *)
(* A document is a function from the names of its members to values, each  *)
(* with its JSON kind; strings are compared as a whole.  Documents and     *)
(* payloads that are not objects are left out.  An optional value is a set *)
(* of at most one element.                                                 *)
(***************************************************************************)
EXTENDS Naturals, Sequences, FiniteSets

CONSTANT AnyLine  \* the values an unset line number may happen to have

Str(x)    == [kind |-> "string", v |-> x]
Num(x)    == [kind |-> "number", v |-> x]
Bool(x)   == [kind |-> "bool", v |-> x]
Object(d) == [kind |-> "object", v |-> d]
Null      == [kind |-> "null", v |-> "null"]

None == {}
The(opt) == CHOOSE x \in opt : TRUE
ValueOr(opt, default) == IF opt = None THEN default ELSE The(opt)

\* get_member: the member, if it is there and of the kind asked for.
Member(doc, name, kind) == {doc[n].v : n \in {m \in DOMAIN doc \cap {name} : doc[m].kind = kind}}

\* get_member of a map: every value of it has to be a string.
MapMember(doc, name) ==
    {[k \in DOMAIN d |-> d[k].v] : d \in {o \in Member(doc, name, "object") :
                                              \A k \in DOMAIN o : o[k].kind = "string"}}

Accepted(type, fields) == [type |-> type, ok |-> TRUE, f |-> fields]
Rejected(type)         == [type |-> type, ok |-> FALSE, f |-> <<>>]

-----------------------------------------------------------------------------
(* parse_payload of each request                                           *)

\* The line number of an addition is read whether or not it is there.
BreakPointRequest(doc) ==
    LET file == Member(doc, "filename", "string")
        act  == Member(doc, "action", "string")
        line == Member(doc, "line_num", "number")
        none == IF act = {"add"} THEN AnyLine ELSE {0}
    IN  IF file = None \/ act \notin {{"add"}, {"remove"}} THEN Rejected("breakpoint")
        ELSE Accepted("breakpoint",
                [file |-> The(file), action |-> The(act),
                 lines |-> IF line = None THEN none ELSE line,
                 column |-> ValueOr(Member(doc, "column_num", "number"), 0)])

BreakPointIDRequest(doc) ==
    LET id  == Member(doc, "id", "number")
        act == Member(doc, "action", "string")
    IN  IF id = None \/ act \notin {{"add"}, {"remove"}} THEN Rejected("breakpoint-id")
        ELSE Accepted("breakpoint-id", [id |-> The(id), action |-> The(act)])

ConnectionRequest(doc) ==
    LET db == Member(doc, "db_filename", "string")
    IN  IF db = None THEN Rejected("connection")
        ELSE Accepted("connection", [db |-> The(db),
                                     map |-> ValueOr(MapMember(doc, "path-mapping"), <<>>)])

BreakPointLocationRequest(doc) ==
    LET file == Member(doc, "filename", "string")
    IN  IF file = None THEN Rejected("bp-location")
        ELSE Accepted("bp-location", [file |-> The(file),
                                      line |-> Member(doc, "line_num", "number"),
                                      column |-> Member(doc, "column_num", "number")])

Commands == {"continue", "step_over", "stop", "step_back", "reverse_continue", "jump"}

CommandRequest(doc) ==
    LET command == Member(doc, "command", "string")
        time    == Member(doc, "time", "number")
    IN  IF \/ command = None \/ ~(command \subseteq Commands)
           \/ command = {"jump"} /\ time = None
        THEN Rejected("command")
        ELSE Accepted("command", [command |-> The(command)])

DebuggerInformationRequest(doc) ==
    LET command == Member(doc, "command", "string")
    IN  IF command = None
           \/ ~(command \subseteq {"breakpoints", "status", "options", "design", "filename"})
        THEN Rejected("debugger-info")
        ELSE Accepted("debugger-info", [command |-> The(command)])

PathMappingRequest(doc) ==
    LET mapping == MapMember(doc, "path-mapping")
    IN  IF mapping = None THEN Rejected("path-mapping")
        ELSE Accepted("path-mapping", [map |-> The(mapping)])

EvaluationRequest(doc) ==
    LET expr == Member(doc, "expression", "string")
    IN  IF expr = None THEN Rejected("evaluation")
        ELSE Accepted("evaluation", [expr |-> The(expr),
                                     bp |-> Member(doc, "breakpoint_id", "number"),
                                     inst |-> Member(doc, "instance_id", "number"),
                                     ns |-> Member(doc, "namespace_id", "number")])

OptionChangeRequest(doc) ==
    IF \E o \in DOMAIN doc : doc[o].kind \notin {"bool", "number", "string"}
    THEN Rejected("option-change")
    ELSE Accepted("option-change",
            [bools |-> [o \in {n \in DOMAIN doc : doc[n].kind = "bool"} |-> doc[o].v]])

\* An action that is neither of the two is not an error: what is left is the
\* default, the addition of a variable without a name.
MonitorRequest(doc) ==
    LET act  == Member(doc, "action_type", "string")
        type == Member(doc, "monitor_type", "string")
        var  == Member(doc, "var_name", "string")
        id   == Member(doc, "track_id", "number")
        ns   == Member(doc, "namespace_id", "number")
    IN  IF \/ act = None
           \/ act = {"add"} /\ (var = None \/ type \notin {{"breakpoint"}, {"clock_edge"}, {"changed"}})
           \/ act = {"remove"} /\ id = None
        THEN Rejected("monitor")
        ELSE Accepted("monitor",
                CASE act = {"add"} ->
                        [action |-> "add", var |-> The(var), ns |-> ns, id |-> 0,
                         bp |-> Member(doc, "breakpoint_id", "number"),
                         inst |-> Member(doc, "instance_id", "number")]
                  [] act = {"remove"} ->
                        [action |-> "remove", var |-> <<>>, ns |-> ns, id |-> The(id),
                         bp |-> None, inst |-> None]
                  [] OTHER ->
                        [action |-> "add", var |-> <<>>, ns |-> None, id |-> 0,
                         bp |-> None, inst |-> None])

SetValueRequest(doc) ==
    LET var == Member(doc, "var_name", "string")
    IN  IF var = None \/ Member(doc, "value", "number") = None THEN Rejected("set-value")
        ELSE Accepted("set-value", [var |-> The(var),
                                    bp |-> Member(doc, "breakpoint_id", "number"),
                                    inst |-> Member(doc, "instance_id", "number"),
                                    ns |-> Member(doc, "namespace_id", "number")])

DataBreakpointRequest(doc) ==
    LET act == Member(doc, "action", "string")
        id  == Member(doc, "breakpoint-id", "number")
        var == Member(doc, "var_name", "string")
    IN  IF \/ act \notin {{"clear"}, {"remove"}, {"add"}, {"info"}}
           \/ act # {"clear"} /\ id = None
           \/ act \in {{"add"}, {"info"}} /\ var = None
        THEN Rejected("data-breakpoint")
        ELSE Accepted("data-breakpoint",
                [action |-> The(act), id |-> IF act = {"clear"} THEN 0 ELSE The(id),
                 var |-> var, ns |-> Member(doc, "namespace_id", "number")])

ParsePayload(type, doc) ==
    CASE type = "breakpoint"      -> BreakPointRequest(doc)
      [] type = "breakpoint-id"   -> BreakPointIDRequest(doc)
      [] type = "connection"      -> ConnectionRequest(doc)
      [] type = "bp-location"     -> BreakPointLocationRequest(doc)
      [] type = "command"         -> CommandRequest(doc)
      [] type = "debugger-info"   -> DebuggerInformationRequest(doc)
      [] type = "path-mapping"    -> PathMappingRequest(doc)
      [] type = "evaluation"      -> EvaluationRequest(doc)
      [] type = "option-change"   -> OptionChangeRequest(doc)
      [] type = "monitor"         -> MonitorRequest(doc)
      [] type = "set-value"       -> SetValueRequest(doc)
      [] type = "data-breakpoint" -> DataBreakpointRequest(doc)
      [] OTHER                    -> Rejected("error")

\* parse_request.  A message is a document, or no document at all; without an
\* envelope the token is not looked for.
ParseRequest(msg) ==
    LET doc  == The(msg)
        type == Member(doc, "type", "string")
    IN  IF \/ msg = None
           \/ Member(doc, "request", "bool") # {TRUE}
           \/ type = None
           \/ "payload" \notin DOMAIN doc
        THEN [req |-> Rejected("error"), token |-> None]
        ELSE [req |-> ParsePayload(The(type), doc["payload"].v),
              token |-> Member(doc, "token", "string")]

-----------------------------------------------------------------------------
(* The requests to a symbol table elsewhere, and its answers               *)

\* The shape of the result each request is answered with.
Shape ==
    [get_breakpoint |-> "breakpoint", get_breakpoints |-> "breakpoints",
     get_instance_name |-> "string", get_instance_id |-> "number",
     get_context_variables |-> "context variables",
     get_generator_variables |-> "generator variables",
     get_instance_names |-> "strings", get_annotation_values |-> "strings",
     get_all_array_names |-> "strings", get_filenames |-> "strings",
     get_execution_bp_orders |-> "numbers",
     get_assigned_breakpoints |-> "assignments"]

\* SymbolRequest::str: the members that are written for the request.
SymbolRequest(type, args) ==
    [type |-> type,
     args |-> CASE type = "get_breakpoints" ->
                     [k \in {"filename", "line_num", "col_num"} |-> args[k]]
                [] type \in {"get_instance_name", "get_generator_variables"} ->
                     [k \in {"instance_id"} |-> args[k]]
                [] type \in {"get_breakpoint", "get_context_variables"} ->
                     [k \in {"breakpoint_id"} |-> args[k]]
                [] type = "get_instance_id" ->
                     [k \in {IF args["instance_name"] = "" THEN "breakpoint_id"
                             ELSE "instance_name"} |-> args[k]]
                [] type = "get_annotation_values" -> [k \in {"name"} |-> args[k]]
                [] type = "get_assigned_breakpoints" ->
                     [k \in {"name", "breakpoint_id"} |-> args[k]]
                [] OTHER -> <<>>]

\* SymbolResponse::parse: "we ignore type since it's a single thread model".  An
\* answer to another request is taken when it has the right shape, and is an
\* empty result otherwise.
SymbolResponse(type, answer) == IF Shape[answer.type] = Shape[type] THEN {answer} ELSE None
=============================================================================
