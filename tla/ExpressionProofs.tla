-------------------------- MODULE ExpressionProofs --------------------------
(* Proof that an expression is evaluated with the current values of the      *)
(* right signals: the namespaces, the static values and the signal cache.    *)
EXTENDS Expression, TLAPS

-----------------------------------------------------------------------------
(* The inductive invariant                                                  *)

Fields == {"root", "symbols", "static", "handles", "values", "correct"}

\* The symbols that have to be found in the simulator.
Wanted == expr.symbols \ DOMAIN Statics

\* Where a symbol is in the namespace that is tried.
HandleOf(s) == IF s \in Predefined THEN <<0, s>> ELSE <<ns, s>>

\* The expression is a record; what was looked up is in the namespace that is tried.
ExprInv ==
    /\ DOMAIN expr = Fields
    /\ ns \in 1 .. NsCount
    /\ phase \in {"new", "parsed", "validate", "resolve", "ready", "read", "missed", "fetched"}
    /\ DOMAIN own = {"by", "of", "value"}
    /\ phase = "new" => ns = 1 /\ DOMAIN expr.handles = {} /\ DOMAIN expr.values = {}
                        /\ expr.static = {}

\* The expression stands for its text, and no namespace before this one fits it.
SearchInv ==
    phase \in {"validate", "resolve", "ready", "read", "missed", "fetched"} =>
        /\ expr.root = Meaning(text) /\ expr.root # Null
        /\ expr.static \subseteq expr.symbols \cap DOMAIN Statics
        /\ \A m \in 1 .. ns - 1 : ~Fits(m)
        /\ DOMAIN expr.values = DOMAIN expr.handles
        /\ DOMAIN expr.handles \subseteq Wanted
        /\ \A s \in DOMAIN expr.handles : /\ expr.handles[s] = HandleOf(s)
                                          /\ s \in Valid[ns] \cup Predefined

\* How far the search is.
ResolveInv ==
    /\ phase = "validate" => expr.correct = TRUE /\ DOMAIN expr.handles = {}
    /\ phase = "resolve" =>
          /\ todo \subseteq Wanted
          /\ expr.correct => Wanted \subseteq DOMAIN expr.handles \cup todo
          /\ ~expr.correct => ~Fits(ns) /\ todo = {}
    /\ phase \in {"ready", "read", "missed", "fetched"} => Wanted \subseteq DOMAIN expr.handles

\* Unless it was left with an old value, the cache has the values of the signals, but
\* for the one handle_set_value is about to take out.
CacheInv ==
    /\ moved \in BOOLEAN /\ quiet \in BOOLEAN
    /\ ~moved => \A h \in DOMAIN cache \ erasing : cache[h] = sim[h]

\* What was read since the loop began, and no change followed, is current.
ReadInv ==
    Reading /\ quiet =>
        /\ ~moved /\ erasing = {}
        /\ \A s \in DOMAIN expr.handles \ todo : expr.values[s] = sim[expr.handles[s]]
        /\ phase = "fetched" => own.value = sim[expr.handles[own.of]]

Inv == ExprInv /\ SearchInv /\ ResolveInv /\ CacheInv /\ ReadInv

-----------------------------------------------------------------------------
(* The invariant is inductive                                               *)

\* An expression begins with nothing looked up.
LEMMA InitInv ==
  ASSUME Init
  PROVE  Inv
  <1>1. ExprInv
    <2>1. DOMAIN own = {"by", "of", "value"}
      <3>1. own = Nobody
        BY DEF Init
      <3> QED BY <3>1 DEF Nobody
    <2>2. /\ expr = [root |-> Null, symbols |-> {}, static |-> {}, handles |-> <<>>,
                     values |-> <<>>, correct |-> TRUE]
          /\ phase = "new" /\ ns = 1
      BY DEF Init
    <2>3. ns \in 1 .. NsCount
      BY <2>2, ExpressionAssumption
    <2> QED BY <2>1, <2>2, <2>3 DEF ExprInv, Fields
  <1>2. SearchInv /\ ResolveInv
    BY DEF Init, SearchInv, ResolveInv
  <1>3. CacheInv
    <2>1. DOMAIN cache = {}
      BY DEF Init
    <2>2. moved = FALSE /\ quiet = FALSE /\ phase = "new"
      BY DEF Init
    <2> QED BY <2>1, <2>2 DEF CacheInv
  <1>4. ReadInv
    BY DEF Init, ReadInv, Reading
  <1> QED BY <1>1, <1>2, <1>3, <1>4 DEF Inv

\* A text that is parsed has its tree.
LEMMA ConstructInv ==
  ASSUME Inv, Construct
  PROVE  Inv'
  <1> USE DEF Inv
  <1>1. /\ expr'.root = Parse(text).root /\ expr'.symbols = Parse(text).symbols
        /\ expr'.correct = Parse(text).ok /\ expr'.static = expr.static
        /\ expr'.handles = expr.handles /\ expr'.values = expr.values
        /\ DOMAIN expr' = DOMAIN expr
    BY DEF Construct, ExprInv, Fields
  <1>2. /\ ns' = ns /\ text' = text /\ moved' = moved /\ quiet' = quiet /\ cache' = cache
        /\ sim' = sim /\ phase = "new" /\ UNCHANGED readVars
    BY DEF Construct, simVars
  <1>3. \/ phase' = "validate" /\ Correct(expr') /\ text \in Evaluated
        \/ phase' = "parsed"
    BY DEF Construct
  <1>4. ExprInv'
    BY <1>1, <1>2, <1>3 DEF ExprInv, readVars
  <1>5. ASSUME phase' = "validate" PROVE SearchInv' /\ ResolveInv'
    <2>1. expr'.root = Meaning(text) /\ expr'.root # Null /\ expr'.correct
      BY <1>1, <1>3, <1>5, ExpressionAssumption DEF Correct
    <2>2. ns = 1 /\ DOMAIN expr.handles = {} /\ DOMAIN expr.values = {} /\ expr.static = {}
      BY <1>2 DEF ExprInv
    <2>3. SearchInv'
      BY <1>1, <1>2, <2>1, <2>2 DEF SearchInv
    <2>4. ResolveInv'
      BY <1>1, <1>5, <2>1, <2>2 DEF ResolveInv
    <2> QED BY <2>3, <2>4
  <1>6. ASSUME phase' = "parsed" PROVE SearchInv' /\ ResolveInv'
    BY <1>6 DEF SearchInv, ResolveInv
  <1>7. CacheInv' /\ ReadInv'
    BY <1>2, <1>3 DEF CacheInv, ReadInv, Reading, readVars
  <1> QED BY <1>3, <1>4, <1>5, <1>6, <1>7

\* The static values leave the wanted symbols to look up.
LEMMA ValidateInv ==
  ASSUME Inv, Validate
  PROVE  Inv'
  <1> USE DEF Inv
  <1>1. /\ expr'.root = expr.root /\ expr'.symbols = expr.symbols /\ expr'.correct = expr.correct
        /\ expr'.static = expr.static \cup (expr.symbols \cap DOMAIN Statics)
        /\ expr'.handles = expr.handles /\ expr'.values = expr.values
        /\ DOMAIN expr' = DOMAIN expr
    BY DEF Validate, ExprInv, Fields
  <1>2. /\ ns' = ns /\ text' = text /\ moved' = moved /\ quiet' = quiet /\ cache' = cache
        /\ sim' = sim /\ phase = "validate" /\ phase' = "resolve"
        /\ todo' = expr.symbols \ expr'.static /\ UNCHANGED readVars
    BY DEF Validate, simVars
  <1>3. ExprInv'
    BY <1>1, <1>2 DEF ExprInv, readVars
  <1>4. SearchInv'
    BY <1>1, <1>2 DEF SearchInv, Fits, Wanted, HandleOf
  <1>5. ResolveInv'
    <2>1. expr'.static = expr.symbols \cap DOMAIN Statics
      BY <1>1, <1>2 DEF SearchInv
    <2> QED BY <1>1, <1>2, <2>1 DEF ResolveInv, Wanted
  <1>6. CacheInv' /\ ReadInv'
    BY <1>2 DEF CacheInv, ReadInv, Reading, readVars
  <1> QED BY <1>3, <1>4, <1>5, <1>6

\* A symbol of the namespace gets its handle there; one that is not in it shows that
\* the namespace does not fit.
LEMMA ResolveSymbolInv ==
  ASSUME Inv, NEW s, ResolveSymbol(s)
  PROVE  Inv'
  <1> USE DEF Inv
  <1>1. /\ phase = "resolve" /\ s \in todo /\ phase' = "resolve"
        /\ ns' = ns /\ text' = text /\ moved' = moved /\ quiet' = quiet /\ cache' = cache
        /\ sim' = sim /\ UNCHANGED readVars
    BY DEF ResolveSymbol, simVars
  <1>2. s \in Wanted /\ expr.correct
    BY <1>1 DEF ResolveInv
  <1>3. CacheInv' /\ ReadInv'
    BY <1>1 DEF CacheInv, ReadInv, Reading, readVars
  <1>4. CASE s \in Valid[ns] \cup Predefined
    <2>1. expr' = Resolved(expr, s, HandleOf(s)) /\ todo' = todo \ {s}
      BY <1>4 DEF ResolveSymbol, HandleOf
    <2>2. /\ expr'.root = expr.root /\ expr'.symbols = expr.symbols
          /\ expr'.correct = expr.correct /\ expr'.static = expr.static
          /\ expr'.handles = Emplace(expr.handles, s, HandleOf(s))
          /\ expr'.values = Emplace(expr.values, s, 0)
          /\ DOMAIN expr' = DOMAIN expr
      BY <2>1 DEF Resolved, ExprInv, Fields
    <2>3. /\ DOMAIN expr'.handles = DOMAIN expr.handles \cup {s}
          /\ DOMAIN expr'.values = DOMAIN expr.values \cup {s}
          /\ \A x \in DOMAIN expr.handles : expr'.handles[x] = expr.handles[x]
          /\ s \notin DOMAIN expr.handles => expr'.handles[s] = HandleOf(s)
      BY <2>2 DEF Emplace
    <2>4. ExprInv'
      BY <1>1, <2>2 DEF ExprInv, readVars
    <2>5. \A x \in DOMAIN expr'.handles : expr'.handles[x] = HandleOf(x) /\ x \in Valid[ns] \cup Predefined
      BY <1>1, <1>4, <2>3 DEF SearchInv
    <2>6. SearchInv'
      BY <1>1, <1>2, <2>2, <2>3, <2>5 DEF SearchInv, Fits, Wanted, HandleOf
    <2>7. ResolveInv'
      BY <1>1, <1>2, <2>1, <2>2, <2>3 DEF ResolveInv, Wanted
    <2> QED BY <1>3, <2>4, <2>6, <2>7
  <1>5. CASE s \notin Valid[ns] \cup Predefined
    <2>1. /\ expr'.root = expr.root /\ expr'.symbols = expr.symbols
          /\ expr'.correct = FALSE /\ expr'.static = expr.static
          /\ expr'.handles = expr.handles /\ expr'.values = expr.values
          /\ DOMAIN expr' = DOMAIN expr /\ todo' = {}
      BY <1>5 DEF ResolveSymbol, ExprInv, Fields
    <2>2. ExprInv'
      BY <1>1, <2>1 DEF ExprInv, readVars
    <2>3. SearchInv'
      BY <1>1, <2>1 DEF SearchInv, Fits, Wanted, HandleOf
    <2>4. ~Fits(ns)
      BY <1>2, <1>5 DEF Fits, Wanted
    <2>5. ResolveInv'
      BY <1>1, <2>1, <2>4 DEF ResolveInv, Fits
    <2> QED BY <1>3, <2>2, <2>3, <2>5
  <1> QED BY <1>4, <1>5

\* A namespace with all the wanted symbols fits; otherwise the search goes on, with
\* nothing left of what was found.
LEMMA NextNamespaceInv ==
  ASSUME Inv, NextNamespace
  PROVE  Inv'
  <1> USE DEF Inv
  <1>1. /\ phase = "resolve" /\ todo = {}
        /\ text' = text /\ moved' = moved /\ quiet' = quiet /\ cache' = cache /\ sim' = sim
        /\ UNCHANGED readVars
    BY DEF NextNamespace, simVars
  <1>2. ns \in 1 .. NsCount /\ NsCount \in Nat /\ expr.root # Null
    BY <1>1, ExpressionAssumption DEF ExprInv, SearchInv, ResolveInv
  <1>3. CASE Correct(expr) /\ phase' = "ready" /\ UNCHANGED <<expr, ns>>
    <2>1. ExprInv'
      BY <1>1, <1>3 DEF ExprInv, readVars
    <2>2. SearchInv'
      BY <1>1, <1>3 DEF SearchInv, Fits, Wanted, HandleOf
    <2>3. ResolveInv'
      BY <1>1, <1>3 DEF ResolveInv, Wanted, Correct
    <2>4. CacheInv' /\ ReadInv'
      BY <1>1, <1>3 DEF CacheInv, ReadInv, Reading, readVars
    <2> QED BY <2>1, <2>2, <2>3, <2>4
  <1>4. CASE ~Correct(expr) /\ ns < NsCount /\ expr' = Clear(expr) /\ ns' = ns + 1
             /\ phase' = "validate"
    <2>1. /\ expr'.root = expr.root /\ expr'.symbols = expr.symbols
          /\ expr'.correct = TRUE /\ expr'.static = expr.static
          /\ expr'.handles = <<>> /\ expr'.values = <<>>
          /\ DOMAIN expr' = DOMAIN expr
      BY <1>4 DEF Clear, ExprInv, Fields
    <2>2. DOMAIN expr'.handles = {} /\ DOMAIN expr'.values = {}
      BY <2>1
    <2>3. ExprInv'
      BY <1>1, <1>2, <1>4, <2>1 DEF ExprInv, readVars
    <2>4. ~Fits(ns)
      BY <1>1, <1>2, <1>4 DEF Correct, ResolveInv
    <2>5. \A m \in 1 .. ns' - 1 : ~Fits(m)
      BY <1>1, <1>2, <1>4, <2>4 DEF SearchInv
    <2>6. SearchInv'
      BY <1>1, <2>1, <2>2, <2>5 DEF SearchInv, Fits
    <2>7. ResolveInv'
      BY <1>4, <2>1, <2>2 DEF ResolveInv
    <2>8. CacheInv' /\ ReadInv'
      BY <1>1, <1>4 DEF CacheInv, ReadInv, Reading, readVars
    <2> QED BY <2>3, <2>6, <2>7, <2>8
  <1>5. CASE phase' = "parsed" /\ ns' = ns /\ expr' = [Clear(expr) EXCEPT !.correct = FALSE]
    <2>1. DOMAIN expr' = DOMAIN expr
      BY <1>5 DEF Clear
    <2>2. ExprInv'
      BY <1>1, <1>5, <2>1 DEF ExprInv, readVars
    <2>3. SearchInv' /\ ResolveInv'
      BY <1>5 DEF SearchInv, ResolveInv
    <2>4. CacheInv' /\ ReadInv'
      BY <1>1, <1>5 DEF CacheInv, ReadInv, Reading, readVars
    <2> QED BY <2>2, <2>3, <2>4
  <1> QED BY <1>3, <1>4, <1>5 DEF NextNamespace

\* A step that leaves the expression and its place in the search alone.
LEMMA SearchKept ==
  ASSUME ExprInv, SearchInv, ResolveInv, UNCHANGED <<text, expr, ns>>, InUse, InUse',
         DOMAIN own' = {"by", "of", "value"}
  PROVE  ExprInv' /\ SearchInv' /\ ResolveInv'
  <1>1. ExprInv'
    BY DEF ExprInv, InUse, Reading
  <1>2. SearchInv'
    BY DEF SearchInv, InUse, Reading, Fits, Wanted, HandleOf
  <1>3. ResolveInv'
    BY DEF ResolveInv, InUse, Reading, Wanted
  <1> QED BY <1>1, <1>2, <1>3

\* A symbol gets a value.
LEMMA ValueKept ==
  ASSUME ExprInv, SearchInv, ResolveInv, NEW s, NEW v, expr' = WithValue(expr, s, v),
         UNCHANGED <<text, ns>>, Reading, phase' = "read", DOMAIN own' = {"by", "of", "value"}
  PROVE  /\ ExprInv' /\ SearchInv' /\ ResolveInv'
         /\ expr'.handles = expr.handles /\ expr'.values = [expr.values EXCEPT ![s] = v]
  <1>1. /\ expr'.root = expr.root /\ expr'.symbols = expr.symbols
        /\ expr'.correct = expr.correct /\ expr'.static = expr.static
        /\ expr'.handles = expr.handles /\ expr'.values = [expr.values EXCEPT ![s] = v]
        /\ DOMAIN expr' = DOMAIN expr
    BY DEF WithValue, ExprInv, Fields
  <1>2. ExprInv'
    BY <1>1 DEF ExprInv
  <1>3. SearchInv'
    BY <1>1 DEF SearchInv, Reading, Fits, Wanted, HandleOf
  <1>4. ResolveInv'
    BY <1>1 DEF ResolveInv, Reading, Wanted
  <1> QED BY <1>1, <1>2, <1>3, <1>4

\* A symbol is read from the cache, or the simulator has to be asked.
LEMMA LookUpInv ==
  ASSUME Inv, NEW s, LookUp(s)
  PROVE  Inv'
  <1> USE DEF Inv
  <1>1. /\ phase = "read" /\ s \in todo /\ Reading
        /\ UNCHANGED <<ns, text, moved, quiet, sim, cache, erasing>>
    BY DEF LookUp, simVars, Reading
  <1>2. CacheInv'
    BY <1>1 DEF CacheInv
  <1>3. PICK h : h = expr.handles[s]
    OBVIOUS
  <1>4. PICK v : v = IF s \in Predefined THEN sim[h] ELSE cache[h]
    OBVIOUS
  <1>5. CASE /\ s \in Predefined \/ h \in DOMAIN cache
             /\ expr' = WithValue(expr, s, v) /\ todo' = todo \ {s} /\ UNCHANGED <<phase, own>>
    <2>1. /\ ExprInv' /\ SearchInv' /\ ResolveInv'
          /\ expr'.handles = expr.handles /\ expr'.values = [expr.values EXCEPT ![s] = v]
      <3>1. phase' = "read" /\ DOMAIN own' = {"by", "of", "value"} /\ expr' = WithValue(expr, s, v)
        BY <1>1, <1>5 DEF ExprInv
      <3> QED BY <1>1, <3>1, ValueKept
    <2>2. ASSUME quiet
          PROVE  \A x \in DOMAIN expr'.handles \ todo' : expr'.values[x] = sim[expr'.handles[x]]
      <3>1. /\ ~moved /\ erasing = {}
            /\ \A x \in DOMAIN expr.handles \ todo : expr.values[x] = sim[expr.handles[x]]
        BY <1>1, <2>2 DEF ReadInv
      <3>2. v = sim[h]
        BY <1>4, <1>5, <3>1 DEF CacheInv
      <3>3. DOMAIN expr.values = DOMAIN expr.handles
        BY <1>1 DEF SearchInv
      <3> QED BY <1>1, <1>3, <1>5, <2>1, <3>1, <3>2, <3>3
    <2>3. ReadInv'
      BY <1>1, <1>5, <2>2 DEF ReadInv
    <2> QED BY <1>2, <2>1, <2>3
  <1>6. CASE /\ own' = [by |-> by, of |-> s, value |-> 0] /\ phase' = "missed"
             /\ UNCHANGED <<expr, todo>>
    <2>1. ExprInv' /\ SearchInv' /\ ResolveInv'
      BY <1>1, <1>6, SearchKept DEF InUse, Reading
    <2>2. ReadInv'
      BY <1>1, <1>6 DEF ReadInv, Reading
    <2> QED BY <1>2, <2>1, <2>2
  <1> QED BY <1>3, <1>4, <1>5, <1>6 DEF LookUp

\* What the simulator gives is the value of the signal.
LEMMA FetchRtlInv ==
  ASSUME Inv, FetchRtl
  PROVE  Inv'
  <1> USE DEF Inv
  <1>1. /\ phase = "missed" /\ phase' \in {"fetched", "ready"}
        /\ UNCHANGED <<text, expr, ns, moved, quiet, sim, cache, erasing>>
    BY DEF FetchRtl, simVars
  <1>2. DOMAIN own' = {"by", "of", "value"}
    BY DEF FetchRtl, ExprInv, Nobody
  <1>3. ExprInv' /\ SearchInv' /\ ResolveInv'
    BY <1>1, <1>2, SearchKept DEF InUse, Reading
  <1>4. CacheInv'
    BY <1>1 DEF CacheInv
  <1>5. ASSUME phase' = "fetched"
        PROVE  /\ own'.value = sim[expr.handles[own.of]] /\ own'.of = own.of /\ todo' = todo
    BY <1>5 DEF FetchRtl, ExprInv
  <1>6. ReadInv'
    BY <1>1, <1>5 DEF ReadInv, Reading
  <1> QED BY <1>3, <1>4, <1>6

\* A value that goes into the cache is current, or the cache is known to be out of
\* date, or the value is about to be taken out.
LEMMA StoreInv ==
  ASSUME CacheInv, NEW h, NEW v, Store(h, v), UNCHANGED <<sim, erasing>>
  PROVE  /\ CacheInv'
         /\ quiet' => quiet /\ (~moved => ~moved')
  <1> DEFINE stale == cacheOn /\ h \notin DOMAIN cache \cup erasing /\ v # sim[h]
  <1>1. /\ cache' = IF cacheOn THEN Emplace(cache, h, v) ELSE cache
        /\ moved' = (moved \/ stale) /\ quiet' = (quiet /\ ~stale)
    BY DEF Store
  <1>2. moved \in BOOLEAN /\ quiet \in BOOLEAN
    BY DEF CacheInv
  <1>3. moved' \in BOOLEAN /\ quiet' \in BOOLEAN
    BY <1>1, <1>2, Zenon
  <1>4. quiet' => quiet /\ ~stale
    BY <1>1, <1>2, Zenon
  <1>5. ~moved' <=> ~moved /\ ~stale
    BY <1>1, <1>2, Zenon
  <1>6. ASSUME ~moved, ~stale PROVE \A x \in DOMAIN cache' \ erasing' : cache'[x] = sim'[x]
    <2>1. \A x \in DOMAIN cache \ erasing : cache[x] = sim[x]
      BY <1>6 DEF CacheInv
    <2> QED BY <1>1, <1>6, <2>1 DEF Emplace
  <1> HIDE DEF stale
  <1>7. CacheInv'
    BY <1>3, <1>5, <1>6 DEF CacheInv
  <1> QED BY <1>4, <1>5, <1>7

\* The value that was read is the symbol's and goes into the cache.
LEMMA StoreOwnInv ==
  ASSUME Inv, StoreOwn
  PROVE  Inv'
  <1> USE DEF Inv
  <1>1. PICK s, v : s = own.of /\ v = own.value
    OBVIOUS
  <1>2. /\ phase = "fetched" /\ phase' = "read" /\ Reading /\ todo' = todo \ {s} /\ own' = Nobody
        /\ UNCHANGED <<text, ns, sim, erasing>> /\ Store(expr.handles[s], v)
        /\ expr' = WithValue(expr, s, v)
    BY <1>1 DEF StoreOwn, Reading
  <1>3. CacheInv' /\ (quiet' => quiet /\ (~moved => ~moved'))
    BY <1>2, StoreInv
  <1>4. /\ ExprInv' /\ SearchInv' /\ ResolveInv'
        /\ expr'.handles = expr.handles /\ expr'.values = [expr.values EXCEPT ![s] = v]
    <2>1. DOMAIN own' = {"by", "of", "value"}
      BY <1>2 DEF Nobody
    <2> QED BY <1>2, <2>1, ValueKept
  <1>5. ASSUME quiet'
        PROVE  /\ ~moved' /\ erasing' = {}
               /\ \A x \in DOMAIN expr'.handles \ todo' : expr'.values[x] = sim[expr'.handles[x]]
    <2>1. /\ ~moved /\ erasing = {} /\ v = sim[expr.handles[s]]
          /\ \A x \in DOMAIN expr.handles \ todo : expr.values[x] = sim[expr.handles[x]]
      BY <1>1, <1>2, <1>3, <1>5 DEF ReadInv
    <2>2. DOMAIN expr.values = DOMAIN expr.handles
      BY <1>2 DEF SearchInv
    <2> QED BY <1>2, <1>3, <1>4, <1>5, <2>1, <2>2
  <1>6. ReadInv'
    BY <1>2, <1>5 DEF ReadInv
  <1> QED BY <1>3, <1>4, <1>6

\* A value another thread stores late leaves the cache known to be out of date.
LEMMA StoreOtherInv ==
  ASSUME Inv, StoreOther
  PROVE  Inv'
  <1> USE DEF Inv
  <1>1. /\ UNCHANGED <<text, expr, phase, ns, todo, own, erasing, sim>>
        /\ Store(other.of, other.value)
    BY DEF StoreOther
  <1>2. CacheInv' /\ (quiet' => quiet /\ (~moved => ~moved'))
    BY <1>1, StoreInv
  <1>3. ExprInv'
    BY <1>1 DEF ExprInv
  <1>4. SearchInv'
    BY <1>1 DEF SearchInv, Fits, Wanted, HandleOf
  <1>5. ResolveInv'
    BY <1>1 DEF ResolveInv, Fits, Wanted
  <1>6. ReadInv'
    BY <1>1, <1>2 DEF ReadInv, Reading
  <1> QED BY <1>2, <1>3, <1>4, <1>5, <1>6

\* A signal that changes is not in the cache, or is about to be taken out, or the
\* cache is known to be out of date.
LEMMA ChangeInv ==
  ASSUME Inv, Advance \/ SetRtl
  PROVE  Inv'
  <1> USE DEF Inv
  <1>1. /\ InUse /\ phase' = phase /\ quiet' = FALSE /\ cache' = cache
        /\ UNCHANGED <<text, expr, ns, own>> /\ moved \in BOOLEAN
    BY DEF Advance, SetRtl, CacheInv, readVars
  <1>2. ExprInv' /\ SearchInv' /\ ResolveInv'
    BY <1>1, SearchKept DEF InUse, Reading, ExprInv
  <1>3. moved' \in BOOLEAN
    BY <1>1, Zenon DEF Advance, SetRtl
  <1>4. ASSUME ~moved' PROVE \A h \in DOMAIN cache' \ erasing' : cache'[h] = sim'[h]
    <2>1. CASE Advance
      <3>1. cache' = <<>>
        BY <1>4, <2>1 DEF Advance
      <3>2. DOMAIN cache' = {}
        BY <3>1
      <3> QED BY <3>2
    <2>2. CASE SetRtl
      <3>1. PICK h, v : /\ sim' = [sim EXCEPT ![h] = v]
                        /\ erasing' = IF cacheOn THEN {h} ELSE {}
                        /\ moved' = (moved \/ (~cacheOn /\ h \in DOMAIN cache))
        BY <2>2, Zenon DEF SetRtl
      <3>2. ~moved /\ (cacheOn \/ h \notin DOMAIN cache)
        BY <1>4, <3>1
      <3>3. erasing = {}
        BY <2>2 DEF SetRtl, ServerBusy
      <3>4. \A x \in DOMAIN cache : cache[x] = sim[x]
        BY <3>2, <3>3 DEF CacheInv
      <3>5. \A x : x # h => sim'[x] = sim[x]
        BY <3>1
      <3>6. \A x \in DOMAIN cache' \ erasing' : x \in DOMAIN cache /\ x # h
        BY <1>1, <3>1, <3>2
      <3> QED BY <1>1, <3>4, <3>5, <3>6
    <2> QED BY <2>1, <2>2
  <1>5. CacheInv' /\ ReadInv'
    BY <1>1, <1>3, <1>4 DEF CacheInv, ReadInv
  <1> QED BY <1>2, <1>5

\* The old value is out of the cache.
LEMMA EraseCachedInv ==
  ASSUME Inv, EraseCached
  PROVE  Inv'
  <1> USE DEF Inv
  <1>1. /\ UNCHANGED <<text, expr, phase, ns, todo, own, sim, moved, quiet>>
        /\ erasing # {} /\ erasing' = {}
        /\ DOMAIN cache' = DOMAIN cache \ erasing
        /\ \A h \in DOMAIN cache' : cache'[h] = cache[h]
    BY DEF EraseCached
  <1>2. ExprInv'
    BY <1>1 DEF ExprInv
  <1>3. SearchInv'
    BY <1>1 DEF SearchInv, Fits, Wanted, HandleOf
  <1>4. ResolveInv'
    BY <1>1 DEF ResolveInv, Fits, Wanted
  <1>5. CacheInv'
    BY <1>1 DEF CacheInv
  <1>6. ReadInv'
    BY <1>1 DEF ReadInv, Reading
  <1> QED BY <1>2, <1>3, <1>4, <1>5, <1>6

\* Every step keeps the invariant.
LEMMA StepInv ==
  ASSUME Inv, [Next]_vars
  PROVE  Inv'
  <1>1. CASE Construct
    BY <1>1, ConstructInv
  <1>2. CASE Validate
    BY <1>2, ValidateInv
  <1>3. CASE NextNamespace
    BY <1>3, NextNamespaceInv
  <1>4. CASE \E s \in Names : ResolveSymbol(s)
    BY <1>4, ResolveSymbolInv
  <1>5. CASE \E s \in Names : LookUp(s)
    BY <1>5, LookUpInv
  <1>6. CASE Advance \/ SetRtl
    BY <1>6, ChangeInv
  <1>7. CASE SetExprValues
    <2>1. DOMAIN own' = {"by", "of", "value"} /\ InUse /\ InUse' /\ UNCHANGED <<text, expr, ns>>
      BY <1>7 DEF SetExprValues, InUse, Reading, Inv, ExprInv, readVars
    <2>2. ExprInv' /\ SearchInv' /\ ResolveInv'
      BY <2>1, SearchKept DEF Inv
    <2>3. /\ todo' = DOMAIN expr.handles /\ expr' = expr /\ phase' = "read"
          /\ UNCHANGED <<moved, cache, sim, erasing>> /\ quiet' = (~moved /\ erasing = {})
      BY <1>7 DEF SetExprValues, simVars, readVars
    <2>4. quiet' \in BOOLEAN
      BY <2>3
    <2>5. CacheInv' /\ ReadInv'
      BY <2>3, <2>4 DEF Inv, CacheInv, ReadInv
    <2> QED BY <2>2, <2>5 DEF Inv
  <1>8. CASE EvalNow
    <2>1. /\ UNCHANGED <<text, expr, ns, own, moved, quiet, sim, cache, erasing>>
          /\ phase = "read" /\ phase' = "ready"
      BY <1>8 DEF EvalNow, simVars, readVars
    <2>2. ExprInv' /\ SearchInv' /\ ResolveInv'
      BY <2>1, SearchKept DEF InUse, Reading, Inv, ExprInv
    <2>3. CacheInv' /\ ReadInv'
      BY <2>1 DEF Inv, CacheInv, ReadInv, Reading
    <2> QED BY <2>2, <2>3 DEF Inv
  <1>9. CASE StartEvaluation
    <2>1. /\ cache' = <<>> /\ moved' = FALSE /\ InUse
          /\ UNCHANGED <<text, expr, phase, ns, todo, own, sim, quiet, erasing>>
      BY <1>9 DEF StartEvaluation, readVars
    <2>2. ExprInv' /\ SearchInv' /\ ResolveInv'
      BY <2>1, SearchKept DEF InUse, Reading, Inv, ExprInv
    <2>3. DOMAIN cache' = {}
      BY <2>1
    <2>4. CacheInv' /\ ReadInv'
      BY <2>1, <2>3 DEF Inv, CacheInv, ReadInv, Reading
    <2> QED BY <2>2, <2>4 DEF Inv
  <1>10. CASE HandleOptionChange \/ \E t \in Thread : \E h \in Settable : FetchOther(t, h)
    <2>1. /\ UNCHANGED <<text, expr, phase, ns, todo, own, sim, cache, moved, quiet, erasing>>
          /\ InUse
      BY <1>10 DEF HandleOptionChange, FetchOther, simVars, readVars
    <2>2. ExprInv' /\ SearchInv' /\ ResolveInv'
      BY <2>1, SearchKept DEF InUse, Reading, Inv, ExprInv
    <2>3. CacheInv' /\ ReadInv'
      BY <2>1 DEF Inv, CacheInv, ReadInv, Reading
    <2> QED BY <2>2, <2>3 DEF Inv
  <1>11. CASE UNCHANGED vars
    <2>1. UNCHANGED <<text, expr, phase, ns, todo, own, erasing, sim, cache, moved, quiet>>
      BY <1>11 DEF vars, simVars, readVars
    <2>2. ExprInv'
      BY <2>1 DEF Inv, ExprInv
    <2>3. SearchInv'
      BY <2>1 DEF Inv, SearchInv, Fits, Wanted, HandleOf
    <2>4. ResolveInv'
      BY <2>1 DEF Inv, ResolveInv, Fits, Wanted
    <2>5. CacheInv' /\ ReadInv'
      BY <2>1 DEF Inv, CacheInv, ReadInv, Reading
    <2> QED BY <2>2, <2>3, <2>4, <2>5 DEF Inv
  <1> QED BY <1>1, <1>2, <1>3, <1>4, <1>5, <1>6, <1>7, <1>8, <1>9, <1>10, <1>11, FetchRtlInv,
            StoreOwnInv, StoreOtherInv, EraseCachedInv DEF Next

\* The invariant holds in every state.
LEMMA ExpressionInvariant == Spec => []Inv
  BY InitInv, StepInv, PTL DEF Spec

-----------------------------------------------------------------------------
(* The theorem                                                              *)

\* The namespace of an expression in use is the first that fits it.
LEMMA FirstNamespace ==
  ASSUME Inv, phase = "read"
  PROVE  ns = CHOOSE n \in 1 .. NsCount : Fits(n) /\ \A m \in 1 .. n - 1 : ~Fits(m)
  <1>1. ns \in 1 .. NsCount /\ NsCount \in Nat
    BY ExpressionAssumption DEF Inv, ExprInv
  <1>2. Fits(ns)
    <2>1. Wanted \subseteq Valid[ns] \cup Predefined
      BY DEF Inv, SearchInv, ResolveInv
    <2> QED BY <2>1 DEF Wanted, Fits
  <1>3. \A m \in 1 .. ns - 1 : ~Fits(m)
    BY DEF Inv, SearchInv
  <1>4. ASSUME NEW n \in 1 .. NsCount, Fits(n), \A m \in 1 .. n - 1 : ~Fits(m)
        PROVE  n = ns
    <2>1. CASE n < ns
      BY <1>1, <1>3, <1>4, <2>1
    <2>2. CASE ns < n
      BY <1>1, <1>2, <1>4, <2>2
    <2> QED BY <1>1, <2>1, <2>2
  <1> QED BY <1>1, <1>2, <1>3, <1>4, Zenon

\* For every parser that builds the tree a text stands for, every list of
\* namespaces and every interleaving of the steps of get_signal_value (the test of
\* the cache, the read, the store) in this and another reader with the steps of
\* handle_set_value, the clock edges and the clearing of the cache, eval() computes
\* the value of the text for what the signals of the first namespace that has all of
\* them are, unless the cache was left with an old value in one of the three ways
\* EvaluatesCurrent names (validate_expr, scheduler.cc:611; get_signal_value,
\* debug.cc:1257; handle_set_value, debug.cc:945).
THEOREM ExpressionEvaluatesCurrent == Spec => EvaluatesCurrent
  <1>1. ASSUME Inv, [Next]_vars
        PROVE  [EvalNow /\ quiet =>
                  result' = ValueOf(Meaning(text), [s \in expr.symbols |-> CurrentValue(s)])]_vars
    <2> SUFFICES ASSUME EvalNow, quiet
                 PROVE  result' = ValueOf(Meaning(text), [s \in expr.symbols |-> CurrentValue(s)])
      OBVIOUS
    <2>1. phase = "read" /\ todo = {} /\ result' = ValueOf(expr.root, Environment)
      BY DEF EvalNow
    <2>2. expr.root = Meaning(text)
      BY <1>1, <2>1 DEF Inv, SearchInv
    <2>3. ASSUME NEW s \in expr.symbols
          PROVE  (IF s \in DOMAIN expr.values THEN expr.values[s] ELSE Statics[s]) = CurrentValue(s)
      <3>1. s \in DOMAIN expr.values <=> s \notin DOMAIN Statics
        BY <1>1, <2>1 DEF Inv, SearchInv, ResolveInv, Wanted
      <3>2. ASSUME s \in DOMAIN expr.values PROVE expr.values[s] = sim[HandleOf(s)]
        BY <1>1, <2>1, <3>2 DEF Inv, SearchInv, ReadInv, Reading
      <3>3. CurrentValue(s) = IF s \in DOMAIN Statics THEN Statics[s] ELSE sim[HandleOf(s)]
        <4> DEFINE first == CHOOSE n \in 1 .. NsCount : Fits(n) /\ \A m \in 1 .. n - 1 : ~Fits(m)
        <4>1. first = ns
          BY <1>1, <2>1, FirstNamespace
        <4>2. CurrentValue(s) = IF s \in DOMAIN Statics THEN Statics[s]
                                ELSE IF s \in Predefined THEN sim[<<0, s>>] ELSE sim[<<first, s>>]
          BY Zenon DEF CurrentValue
        <4> HIDE DEF first
        <4> QED BY <4>1, <4>2 DEF HandleOf
      <3> QED BY <3>1, <3>2, <3>3
    <2>4. Environment = [s \in expr.symbols |-> CurrentValue(s)]
      BY <2>3, Zenon DEF Environment
    <2> QED BY <2>1, <2>2, <2>4
  <1> QED BY <1>1, ExpressionInvariant, PTL DEF Spec, EvaluatesCurrent
=============================================================================
