----------------------------- MODULE Expression -----------------------------
(* The life of an expression of a condition or an evaluation request: the    *)
(* resolution of its symbols in a list of namespaces (validate_expr), the    *)
(* reading of their values through the signal cache (src/src/debug.cc) and   *)
(* its evaluation, while values, the cache and the time change.  The         *)
(* simulation thread reads conditions, the server thread the expressions of  *)
(* evaluation requests; each may read while the other one runs.  The parser  *)
(* and the operators of src/src/eval.cc are parameters here; the module      *)
(* ExpressionParser has them.                                                *)
EXTENDS Integers, Sequences

CONSTANTS
    Texts,      \* the expressions
    Evaluated,  \* bound: the expressions whose evaluation is followed
    Names,      \* the symbols
    Statics,    \* function: symbols with a static value -> the value
    Predefined, \* the symbols that need no signal ($time, $instance)
    Valid,      \* Valid[n]: the symbols that are signals of namespace n
    Values,     \* bound: the values a signal takes
    Parse(_),   \* of a text: whether the grammar matches, the tree and the symbols
    ValueOf(_, _), \* of a tree, with the values of its symbols
    Meaning(_)  \* the tree that precedence and associativity give a text

NsCount == Len(Valid)

Node(op, args) == [op |-> op, args |-> args, of |-> ""]
Leaf(op, char) == [op |-> op, args |-> <<>>, of |-> char]
Null == Node("null", <<>>)

\* There is a namespace, and the parser builds the tree a text stands for, or none.
ASSUME ExpressionAssumption ==
    /\ NsCount \in Nat \ {0}
    /\ Evaluated \subseteq Texts
    /\ DOMAIN Statics \subseteq Names /\ Predefined \subseteq Names
    /\ \A x \in Evaluated : Parse(x).root \in {Null, Meaning(x)}

VARIABLES
    text,    \* expression_
    expr,    \* DebugExpression: root, static, handles, values, correct
    phase,   \* what the caller of the expression does next
    ns,      \* the namespace the symbols are looked up in
    todo,    \* symbols of the loop under way
    by,      \* the thread that reads the expression's values
    own,     \* its get_signal_value under way: the symbol and the value read
    other,   \* a get_signal_value of another expression: its thread, signal, value
    erasing, \* the set of the signal handle_set_value is taking out of the cache
    sim,     \* the value of each signal, a pair of namespace and name
    cache,   \* cached_signal_values_
    cacheOn, \* use_signal_cache_
    moved,   \* ghost: the cache was left with an old value since it was cleared
    quiet,   \* ghost: the values read since the loop began are current
    result   \* what eval() returned, 0 while there is nothing

simVars == <<sim, cache, cacheOn, moved>>
readVars == <<by, own, other, erasing>>
vars == <<text, expr, phase, ns, todo, readVars, simVars, quiet, result>>

-----------------------------------------------------------------------------
(* The life of an expression.                                                *)

Thread == {"simulation", "server"}
Nobody == [by |-> "nobody", of |-> "", value |-> 0]

Init ==
    /\ text \in Texts
    /\ expr = [root |-> Null, symbols |-> {}, static |-> {}, handles |-> <<>>,
               values |-> <<>>, correct |-> TRUE]
    /\ phase = "new" /\ ns = 1 /\ todo = {}
    /\ by \in Thread /\ own = Nobody /\ other = Nobody /\ erasing = {}
    /\ sim = [h \in (0 .. NsCount) \X Names |-> 0]
    /\ cache = <<>> /\ cacheOn = FALSE
    /\ moved = FALSE /\ quiet = FALSE /\ result = 0

\* DebugExpression::correct: an expression without a root is never correct.
Correct(x) == x.correct /\ x.root # Null

\* The constructor: parse() drops the tree when the grammar does not match, but
\* not the symbols.
Construct ==
    /\ phase = "new"
    /\ LET r == Parse(text)
           e == [expr EXCEPT !.root = r.root, !.symbols = r.symbols, !.correct = r.ok]
       IN  /\ expr' = e
           /\ phase' = IF Correct(e) /\ text \in Evaluated THEN "validate" ELSE "parsed"
    /\ UNCHANGED <<text, ns, todo, readVars, simVars, quiet, result>>

\* validate_expr begins in the next namespace: the static values of the
\* context, then every symbol that has none.
Validate ==
    /\ phase = "validate"
    /\ expr' = [expr EXCEPT !.static = @ \cup (expr.symbols \cap DOMAIN Statics)]
    /\ todo' = expr.symbols \ expr'.static
    /\ phase' = "resolve"
    /\ UNCHANGED <<text, ns, readVars, simVars, quiet, result>>

\* emplace of a map: what is there already stays.
Emplace(f, x, v) ==
    [y \in DOMAIN f \cup {x} |-> IF y \in DOMAIN f THEN f[y] ELSE v]

\* set_resolved_symbol_handle
Resolved(e, s, handle) ==
    [e EXCEPT !.handles = Emplace(@, s, handle), !.values = Emplace(@, s, 0)]

\* One symbol of the loop; the first that is not a signal ends it.
ResolveSymbol(s) ==
    /\ phase = "resolve" /\ s \in todo
    /\ \/ /\ s \in Predefined
          /\ expr' = Resolved(expr, s, <<0, s>>)
          /\ todo' = todo \ {s} /\ phase' = phase
       \/ /\ s \in Valid[ns] \ Predefined
          /\ expr' = Resolved(expr, s, <<ns, s>>)
          /\ todo' = todo \ {s} /\ phase' = phase
       \/ /\ s \notin Valid[ns] \cup Predefined
          /\ expr' = [expr EXCEPT !.correct = FALSE]
          /\ todo' = {} /\ phase' = phase
    /\ UNCHANGED <<text, ns, readVars, simVars, quiet, result>>

\* DebugExpression::clear.
Clear_KeepsHandles(e) == [e EXCEPT !.correct = TRUE]
Clear(e) == [e EXCEPT !.handles = <<>>, !.values = <<>>, !.correct = TRUE]

\* find_matching_namespace_validate: the first namespace that has all symbols.
NextNamespace ==
    /\ phase = "resolve" /\ todo = {}
    /\ \/ /\ Correct(expr)
          /\ phase' = "ready" /\ UNCHANGED <<expr, ns>>
       \/ /\ ~Correct(expr) /\ ns < NsCount
          /\ expr' = Clear(expr)
          /\ ns' = ns + 1 /\ phase' = "validate"
       \/ /\ ~Correct(expr) /\ ns = NsCount
          /\ expr' = [Clear(expr) EXCEPT !.correct = FALSE]
          /\ phase' = "parsed" /\ UNCHANGED ns
    /\ UNCHANGED <<text, todo, readVars, simVars, quiet, result>>

\* The server thread has a request in hand, the simulation thread a batch.
Reading == phase \in {"read", "missed", "fetched"}
ServerBusy == (by = "server" /\ Reading) \/ other.by = "server" \/ erasing # {}
SimulationBusy == (by = "simulation" /\ Reading) \/ other.by = "simulation"

\* set_expr_values reads the symbols one by one, through the cache.
SetExprValues ==
    /\ phase = "ready" /\ (by = "server" => ~ServerBusy)
    /\ todo' = DOMAIN expr.handles
    /\ phase' = "read" /\ result' = 0
    /\ quiet' = (~moved /\ erasing = {})
    /\ UNCHANGED <<text, expr, ns, readVars, simVars>>

WithValue(e, s, v) == [e EXCEPT !.values = [@ EXCEPT ![s] = v]]

\* get_signal_value looks into the cache under the lock; the symbols that are no
\* signals do not come to it.
LookUp(s) ==
    /\ phase = "read" /\ s \in todo
    /\ LET h == expr.handles[s]
           cached == cacheOn /\ h \in DOMAIN cache
       IN  \/ /\ s \in Predefined \/ cached
              /\ expr' = WithValue(expr, s, IF s \in Predefined THEN sim[h] ELSE cache[h])
              /\ todo' = todo \ {s}
              /\ UNCHANGED <<phase, own>>
           \/ /\ s \notin Predefined /\ ~cached
              /\ own' = [by |-> by, of |-> s, value |-> 0] /\ phase' = "missed"
              /\ UNCHANGED <<expr, todo>>
    /\ UNCHANGED <<text, ns, by, other, erasing, simVars, quiet, result>>

\* It has let go of the lock and asks the simulator, which may fail: then the
\* loop is given up, and the expression is not evaluated.
FetchRtl ==
    /\ phase = "missed"
    /\ \/ /\ own' = [own EXCEPT !.value = sim[expr.handles[own.of]]] /\ phase' = "fetched"
          /\ UNCHANGED todo
       \/ own' = Nobody /\ phase' = "ready" /\ todo' = {}
    /\ UNCHANGED <<text, expr, ns, by, other, erasing, simVars, quiet, result>>

\* It takes the lock again and puts the value into the cache, whatever happened
\* to the signal and to the cache since: what is there already stays.
Store(h, v) ==
    LET stale == cacheOn /\ h \notin DOMAIN cache \cup erasing /\ v # sim[h]
    IN  /\ cache' = IF cacheOn THEN Emplace(cache, h, v) ELSE cache
        /\ moved' = (moved \/ stale) /\ quiet' = (quiet /\ ~stale)

StoreOwn ==
    /\ phase = "fetched"
    /\ Store(expr.handles[own.of], own.value)
    /\ expr' = WithValue(expr, own.of, own.value)
    /\ todo' = todo \ {own.of}
    /\ own' = Nobody /\ phase' = "read"
    /\ UNCHANGED <<text, ns, by, other, erasing, sim, cacheOn, result>>

\* DebugExpression::eval.  Static values were given to their symbols before.
Environment ==
    [s \in expr.symbols |->
        IF s \in DOMAIN expr.values THEN expr.values[s] ELSE Statics[s]]

EvalNow ==
    /\ phase = "read" /\ todo = {}
    /\ result' = ValueOf(expr.root, Environment)
    /\ phase' = "ready"
    /\ UNCHANGED <<text, expr, ns, todo, readVars, simVars, quiet>>

-----------------------------------------------------------------------------
(* What happens around it, once the expression is in use.                    *)

InUse == phase = "ready" \/ Reading

\* The signals the expression reads; the others do not matter.
Signals == {expr.handles[s] : s \in DOMAIN expr.handles}
Settable == Signals \ {<<0, s>> : s \in Predefined}

\* get_signal_value of another condition or request did not find the signal in
\* the cache and has just read it.
FetchOther(t, h) ==
    /\ InUse /\ other.by = "nobody"
    /\ t = "server" => ~ServerBusy
    /\ other' = [by |-> t, of |-> h, value |-> sim[h]]
    /\ UNCHANGED <<text, expr, phase, ns, todo, by, own, erasing, simVars, quiet, result>>

StoreOther ==
    /\ other.by # "nobody"
    /\ Store(other.of, other.value)
    /\ other' = Nobody
    /\ UNCHANGED <<text, expr, phase, ns, todo, by, own, erasing, sim, cacheOn, result>>

\* The simulation runs on, or a reverse continue or a step back takes it to an
\* earlier clock edge inside the loop of eval().
Advance ==
    /\ InUse /\ ~SimulationBusy
    /\ \E h \in Signals : \E v \in Values \ {sim[h]} : sim' = [sim EXCEPT ![h] = v]
    /\ moved' = (moved \/ cache # <<>>)
    /\ quiet' = FALSE
    /\ UNCHANGED <<text, expr, phase, ns, todo, readVars, cache, cacheOn, result>>

\* start_breakpoint_evaluation at the next clock edge.
StartEvaluation ==
    /\ InUse /\ ~SimulationBusy
    /\ cache' = <<>> /\ moved' = FALSE
    /\ UNCHANGED <<text, expr, phase, ns, todo, readVars, sim, cacheOn, quiet, result>>

\* handle_set_value gives the simulator the value; only while the cache is in use
\* does it go on to the cache.
SetRtl ==
    /\ InUse /\ ~ServerBusy
    /\ \E h \in Settable : \E v \in Values \ {sim[h]} :
          /\ sim' = [sim EXCEPT ![h] = v]
          /\ erasing' = IF cacheOn THEN {h} ELSE {}
          /\ moved' = (moved \/ (~cacheOn /\ h \in DOMAIN cache))
    /\ quiet' = FALSE
    /\ UNCHANGED <<text, expr, phase, ns, todo, by, own, other, cache, cacheOn, result>>

\* Then it takes the old value out of the cache.
EraseCached ==
    /\ erasing # {}
    /\ cache' = [h \in DOMAIN cache \ erasing |-> cache[h]]
    /\ erasing' = {}
    /\ UNCHANGED <<text, expr, phase, ns, todo, by, own, other, sim, cacheOn, moved, quiet, result>>

HandleOptionChange ==
    /\ InUse /\ ~ServerBusy
    /\ cacheOn' = ~cacheOn
    /\ UNCHANGED <<text, expr, phase, ns, todo, readVars, sim, cache, moved, quiet, result>>

Next ==
    \/ Construct \/ Validate \/ NextNamespace
    \/ \E s \in Names : ResolveSymbol(s)
    \/ SetExprValues \/ FetchRtl \/ StoreOwn \/ EvalNow
    \/ \E s \in Names : LookUp(s)
    \/ \E t \in Thread : \E h \in Settable : FetchOther(t, h)
    \/ StoreOther \/ Advance \/ StartEvaluation
    \/ SetRtl \/ EraseCached \/ HandleOptionChange

Spec == Init /\ [][Next]_vars

-----------------------------------------------------------------------------
Fits(n) == expr.symbols \subseteq Valid[n] \cup Predefined \cup DOMAIN Statics
CurrentValue(s) ==
    LET first == CHOOSE n \in 1 .. NsCount : Fits(n) /\ \A m \in 1 .. n - 1 : ~Fits(m)
    IN  IF s \in DOMAIN Statics THEN Statics[s]
        ELSE IF s \in Predefined THEN sim[<<0, s>>] ELSE sim[<<first, s>>]
\* What eval() computes is the value of the text for what the signals are: the
\* static values win, every other symbol has the value of the first namespace
\* that has all the symbols, also after some were found in an earlier one, and
\* the cache hides no change.  It is claimed of an evaluation during which no
\* signal changes and no set_value is at work (quiet), and not of what the cache
\* holds after one of these (moved): the
\* simulation has moved since it was cleared; a value was set with the cache
\* switched off (debug.cc:945); a value that was read before a change was stored
\* after it (debug.cc:1272, :1281).
EvaluatesCurrent ==
    [][EvalNow /\ quiet =>
          result' = ValueOf(Meaning(text), [s \in expr.symbols |-> CurrentValue(s)])]_vars
=============================================================================
