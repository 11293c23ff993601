------------------------------ MODULE MCSession ------------------------------
(* Bounded instance of Session: tables of every kind, and requests that are  *)
(* complete, incomplete and unreadable.                                      *)
EXTENDS Session

MCBps == (0 :> [file |-> <<"t", "a">>, line |-> 1, column |-> 1, inst |-> 0])
MCTableOf(kind, inst) ==
    [kind |-> kind, insts |-> (0 :> inst), bps |-> MCBps, vars |-> {<<"x">>}]

MCTable == [one  |-> MCTableOf("sqlite", <<"top">>),
            two  |-> MCTableOf("json", <<"core", "s">>),
            ws   |-> MCTableOf("ws", <<"top">>),
            down |-> MCTableOf("ws unreachable", <<"top">>),
            gone |-> MCTableOf("missing", <<"top">>)]

MCModule(def, path) == [def |-> def, path |-> path]
MCDesign == <<MCModule("tb", <<"tb">>), MCModule("top", <<"tb", "dut">>),
              MCModule("core", <<"tb", "c0">>), MCModule("core", <<"tb", "c1">>),
              MCModule("sub", <<"tb", "c0", "s">>), MCModule("sub", <<"tb", "c1", "s">>)>>
MCSignals == {<<"tb", "dut", "x">>, <<"tb", "c0", "s", "x">>, <<"tb", "c1", "s", "x">>}

MCStarts == {[verilator |-> FALSE, skipLoad |-> FALSE, env |-> {}],
             [verilator |-> TRUE,  skipLoad |-> FALSE, env |-> {}],
             [verilator |-> FALSE, skipLoad |-> TRUE,  env |-> {"one"}]}

MCRequest(type, doc) ==
    {[request |-> Bool(TRUE), type |-> Str(type), payload |-> Object(doc)]}

MCConnect(name) == MCRequest("connection", [db_filename |-> Str(name)])
MCCommand(name) == MCRequest("command", [command |-> Str(name)])
MCBreakpoint(action, dir) ==
    MCRequest("breakpoint", [action |-> Str(action), filename |-> Str(<<dir, "a">>), line_num |-> Num(1)])
MCMap == Object([c |-> Str("t")])
MCVar == [var_name |-> Str(<<"x">>)]
MCData == ("breakpoint-id" :> Num(0)) @@ ("namespace_id" :> Num(0))
MCAdd(var) == [action_type |-> Str("add"), monitor_type |-> Str("breakpoint"), var_name |-> Str(var)]

MCMessages ==
    {MCConnect(n) : n \in {"one", "two", "ws", "down", "gone"}}
    \cup {MCCommand(c) : c \in {"continue", "step_over", "stop"}}
    \cup {MCBreakpoint("add", "t"), MCBreakpoint("add", "c"), MCBreakpoint("remove", "t"),
          MCRequest("breakpoint", [action |-> Str("add"), filename |-> Str(<<"t", "a">>)]),
          MCRequest("breakpoint-id", [action |-> Str("add"), id |-> Num(0)]),
          MCRequest("breakpoint-id", [action |-> Str("remove"), id |-> Num(0)]),
          MCRequest("bp-location", [filename |-> Str(<<"c", "a">>)]),
          MCRequest("command", [command |-> Str("jump"), time |-> Num(1)]),
          MCRequest("debugger-info", [command |-> Str("breakpoints")]),
          MCRequest("debugger-info", [command |-> Str("filename")]),
          MCRequest("path-mapping", ("path-mapping" :> MCMap)),
          MCRequest("evaluation", [expression |-> Str(<<"x">>), breakpoint_id |-> Num(0)]),
          MCRequest("option-change", [detach_after_disconnect |-> Bool(TRUE)]),
          MCRequest("monitor", MCAdd(<<"tb", "dut", "x">>)),
          MCRequest("monitor", ("instance_id" :> Num(0)) @@ MCAdd(<<"x">>)),
          MCRequest("monitor", [action_type |-> Str("remove"), track_id |-> Num(1)]),
          MCRequest("monitor", [action_type |-> Str("toggle")]),
          MCRequest("set-value", ("value" :> Num(1)) @@ ("instance_id" :> Num(0)) @@ MCVar),
          MCRequest("data-breakpoint", ("action" :> Str("add")) @@ MCData @@ MCVar),
          MCRequest("data-breakpoint", ("action" :> Str("clear")) @@ MCData),
          MCRequest("data-breakpoint", ("action" :> Str("remove")) @@ MCData),
          MCRequest("unknown", <<>>),
          None}
=============================================================================
