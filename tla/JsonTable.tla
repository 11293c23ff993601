----------------------------- MODULE JsonTable ------------------------------
(* The symbol table read from a JSON document: JSONSymbolTableProvider of    *)
(* src/src/db.cc.  Loading parses the document into module definitions whose *)
(* scopes are trees of entries, then handles the roots one by one: it builds *)
(* the instances, sorts and merges the entries of every module, and numbers  *)
(* the breakpoints.  The queries are operators on the loaded table.          *)
(*                                                                           *)
(* An entry is a record whose uid stands for the address the C++ code keeps  *)
(* of it.  A dotted or indexed name is the sequence of its tokens, an empty  *)
(* string is <<>> or "", a conjunction of conditions is their sequence.      *)
EXTENDS Integers, Sequences, FiniteSets, SequencesExt, TLC

CONSTANTS
    Documents,   \* the documents that can be loaded
    BaseName,    \* std::filesystem::path::filename of each file name
    Relative,    \* the file names that are relative paths
    IndexValue,  \* what get_symbol_value_ reads for the index variables it can
    MaxIndex,    \* bound on the array indices that are looked at
    TokenPrefix  \* pairs of tokens of which the first starts with the second

VARIABLES
    doc,      \* the document that is loaded
    roots,    \* roots_: the top instances
    defs,     \* module_defs_: module name -> definition
    instId,   \* the counter of instance ids
    numBps,   \* num_bps_
    loaded    \* the number of roots parse_db has handled

vars == <<doc, roots, defs, instId, numBps, loaded>>

None == [none |-> TRUE]
Undefined == [undefined |-> TRUE]

-----------------------------------------------------------------------------
(* Parsing.                                                                  *)

\* parse_var_defs reads neither the type nor the depth.
ParseVarDef(v) == [v EXCEPT !.type = "normal", !.depth = 1]

\* A variable in place, or a reference to the variables of the document,
\* which gives no variable when the document does not define it.
ParseVar(v) ==
    IF v.ref = "" THEN <<[v EXCEPT !.depth = IF v.type = "delay" THEN @ ELSE 1]>>
    ELSE IF v.ref \in DOMAIN doc.variables THEN <<ParseVarDef(doc.variables[v.ref])>>
    ELSE <<>>

RECURSIVE ParseEntry(_)
ParseEntry(e) ==
    [e EXCEPT !.vars = FlattenSeq([i \in DOMAIN @ |-> ParseVar(@[i])]),
              !.scope = [i \in DOMAIN @ |-> ParseEntry(@[i])]]

ParseModule(m) ==
    [m EXCEPT !.vars = FlattenSeq([i \in DOMAIN @ |-> ParseVar(@[i])]),
              !.scope = [i \in DOMAIN @ |-> ParseEntry(@[i])]]

RECURSIVE Dangling(_)
Dangling(scope) ==
    \E i \in DOMAIN scope :
        \/ \E j \in DOMAIN scope[i].vars : ParseVar(scope[i].vars[j]) = <<>>
        \/ Dangling(scope[i].scope)

\* info.error_reason is set when a reference cannot be resolved.
ParseError == \E i \in DOMAIN doc.table : Dangling(doc.table[i].scope)

NewInstance(name, def) ==
    [name |-> name, def |-> def, id |-> 0, bps |-> <<>>, subs |-> <<>>]

\* The definitions, and an instance for each one that is a top, in order.
ParseDefs ==
    [n \in {doc.table[i].name : i \in DOMAIN doc.table} |->
        LET i == CHOOSE i \in DOMAIN doc.table : doc.table[i].name = n
        IN  ParseModule(doc.table[i])]

ParseRoots ==
    LET tops == SelectSeq(doc.table, LAMBDA m : m.name \in doc.top)
    IN  [i \in DOMAIN tops |-> NewInstance(tops[i].name, tops[i].name)]

-----------------------------------------------------------------------------
(* Building the table.                                                       *)

\* resolve_module_instances: every module that is reached is defined.
RECURSIVE Resolvable(_)
Resolvable(name) ==
    /\ name \in DOMAIN defs
    /\ \A i \in DOMAIN defs[name].instances : Resolvable(defs[name].instances[i].module)

\* The id a child gets when it is made is replaced when its own tree is
\* built.  The children are visited in the order of an unordered map, here
\* the order of the definition's instances in the document.
RECURSIVE BuildInstanceTree(_, _)
BuildInstanceTree_IdByValue(inst, id) ==
    LET subs == defs[inst.def].instances
        Sub(i) == BuildInstanceTree(NewInstance(subs[i].name, subs[i].module), id + i).inst
    IN  [inst |-> [inst EXCEPT !.id = id, !.subs = [i \in DOMAIN subs |-> Sub(i)]],
         next |-> id + 1]
BuildInstanceTree(inst, id) ==
    LET subs == defs[inst.def].instances
        Build(acc, s) ==
            LET r == BuildInstanceTree(NewInstance(s.name, s.module), acc.next)
            IN  [subs |-> Append(acc.subs, r.inst), next |-> r.next]
        r == FoldLeft(Build, [subs |-> <<>>, next |-> id + 1 + Len(subs)], subs)
    IN  [inst |-> [inst EXCEPT !.id = id, !.subs = r.subs], next |-> r.next]

TypeRank(type) ==
    CASE type = "none" -> 0 [] type = "decl" -> 1 [] type = "block" -> 2
      [] type = "assign" -> 3

\* Three stable sorts, by type, then column, then line.
SortBlock_LineFirst(scope) ==
    LET Before(i, j) ==
            LET a == scope[i] b == scope[j] IN
            \/ a.column < b.column
            \/ a.column = b.column /\ a.line < b.line
            \/ a.column = b.column /\ a.line = b.line /\ i < j
        order == SetToSortSeq(DOMAIN scope, Before)
    IN  [i \in DOMAIN scope |-> scope[order[i]]]
SortBlock(scope) ==
    LET Before(i, j) ==
            LET a == scope[i] b == scope[j] IN
            \/ a.line < b.line
            \/ a.line = b.line /\ a.column < b.column
            \/ a.line = b.line /\ a.column = b.column /\ TypeRank(a.type) < TypeRank(b.type)
            \/ /\ a.line = b.line /\ a.column = b.column
               /\ TypeRank(a.type) = TypeRank(b.type) /\ i < j
        order == SetToSortSeq(DOMAIN scope, Before)
    IN  [i \in DOMAIN scope |-> scope[order[i]]]

Mergeable(ref, target) ==
    /\ ref.type \in {"assign", "decl"} /\ target.type = ref.type
    /\ target.line = ref.line /\ target.column = ref.column
    /\ target.condition = ref.condition
    /\ target.indices = <<>> /\ ref.indices = <<>>

\* Each entry takes over the variables of the equal ones that follow it.
MergeVar_Pairs(scope) ==
    LET Merge(acc, e) ==
            IF acc.open /\ Mergeable(Last(acc.out), e)
            THEN [open |-> FALSE,
                  out |-> Append(Front(acc.out), [Last(acc.out) EXCEPT !.vars = @ \o e.vars])]
            ELSE [open |-> TRUE, out |-> Append(acc.out, e)]
    IN  FoldLeft(Merge, [open |-> FALSE, out |-> <<>>], scope).out
MergeVar(scope) ==
    LET Merge(out, e) ==
            IF out # <<>> /\ Mergeable(Last(out), e)
            THEN Append(Front(out), [Last(out) EXCEPT !.vars = @ \o e.vars])
            ELSE Append(out, e)
    IN  FoldLeft(Merge, <<>>, scope)

\* After its children, a block is sorted, takes the line of its first entry
\* and has its variables merged.  The scope of a module itself is not sorted.
RECURSIVE ReorderEntry(_)
ReorderEntry(e) ==
    IF e.type # "block" THEN e
    ELSE LET sorted == SortBlock([i \in DOMAIN e.scope |-> ReorderEntry(e.scope[i])])
         IN  [e EXCEPT !.line = IF sorted = <<>> THEN @ ELSE sorted[1].line,
                       !.scope = MergeVar(sorted)]

ReorderBlockEntry ==
    [n \in DOMAIN defs |->
        [defs[n] EXCEPT !.scope = [i \in DOMAIN @ |-> ReorderEntry(@[i])]]]

\* The entries below a scope in the order DBVisitor visits them.
RECURSIVE Visit(_)
Visit(scope) ==
    FlattenSeq([i \in DOMAIN scope |-> <<scope[i]>> \o Visit(scope[i].scope)])

\* ScopeEntryVisitor: every statement with a line is a breakpoint.
Statements(def) ==
    SelectSeq(Visit(def.scope), LAMBDA e : e.type # "block" /\ e.line > 0)

\* An instance is numbered before its children.
RECURSIVE BuildBpIds(_, _, _)
BuildBpIds_IdByValue(inst, id, newDefs) ==
    LET stmts == Statements(newDefs[inst.def])
        bps == [i \in DOMAIN stmts |-> [id |-> id + i - 1, uid |-> stmts[i].uid]]
        Sub(i) == BuildBpIds(inst.subs[i], id + Len(stmts), newDefs).inst
    IN  [inst |-> [inst EXCEPT !.bps = bps, !.subs = [i \in DOMAIN @ |-> Sub(i)]],
         next |-> id + Len(stmts)]
BuildBpIds(inst, id, newDefs) ==
    LET stmts == Statements(newDefs[inst.def])
        bps == [i \in DOMAIN stmts |-> [id |-> id + i - 1, uid |-> stmts[i].uid]]
        Build(acc, s) ==
            LET r == BuildBpIds(s, acc.next, newDefs)
            IN  [subs |-> Append(acc.subs, r.inst), next |-> r.next]
        r == FoldLeft(Build, [subs |-> <<>>, next |-> id + Len(stmts)], inst.subs)
    IN  [inst |-> [inst EXCEPT !.bps = bps, !.subs = r.subs], next |-> r.next]

-----------------------------------------------------------------------------
Init ==
    /\ doc \in Documents
    /\ roots = <<>> /\ defs = <<>>
    /\ instId = 0 /\ numBps = 0 /\ loaded = -1

\* The constructor or parse(): the document is valid, it has been checked
\* against the schema.
Parse ==
    /\ loaded = -1
    /\ defs' = ParseDefs
    /\ roots' = ParseRoots
    /\ loaded' = 0
    /\ UNCHANGED <<doc, instId, numBps>>

\* One turn of the loop of parse_db.  A module that is not defined ends the
\* loading with no roots.
LoadRoot ==
    /\ loaded \in 0 .. Len(roots) - 1
    /\ LET r == loaded + 1 IN
       \/ /\ ~Resolvable(roots[r].def)
          /\ roots' = <<>>
          /\ UNCHANGED <<defs, instId, numBps>>
       \/ /\ Resolvable(roots[r].def)
          /\ LET tree == BuildInstanceTree(roots[r], instId)
                 newDefs == IF doc.reorder THEN ReorderBlockEntry ELSE defs
                 built == BuildBpIds(tree.inst, numBps, newDefs)
             IN  /\ defs' = newDefs
                 /\ roots' = [roots EXCEPT ![r] = built.inst]
                 /\ instId' = tree.next
                 /\ numBps' = built.next
    /\ loaded' = loaded + 1
    /\ UNCHANGED doc

\* parse() of a string gives up a table with references that were not
\* resolved; the constructor, which reads a file, keeps it.
DropOnError_Keep ==
    /\ FALSE
    /\ UNCHANGED vars
DropOnError ==
    /\ loaded = Len(roots) /\ roots # <<>>
    /\ doc.from = "string" /\ ParseError
    /\ roots' = <<>>
    /\ loaded' = 0
    /\ UNCHANGED <<doc, defs, instId, numBps>>

Next == Parse \/ LoadRoot \/ DropOnError

Spec == Init /\ [][Next]_vars /\ WF_vars(Next)

-----------------------------------------------------------------------------
(* Queries.  None is an empty optional, of an id -1 and of a name <<>>.      *)

\* The instances of a tree, a parent before its children, each with the path
\* of the instances above it.
RECURSIVE InstancesOf(_, _)
InstancesOf(inst, path) ==
    <<[inst |-> inst, path |-> Append(path, inst.name)]>>
        \o FlattenSeq([i \in DOMAIN inst.subs |->
                           InstancesOf(inst.subs[i], Append(path, inst.name))])

Instances == FlattenSeq([i \in DOMAIN roots |-> InstancesOf(roots[i], <<>>)])

\* The entries from the one with this address up to the top of the scope.
RECURSIVE Chain(_, _)
Chain(scope, uid) ==
    LET i == SelectInSeq(scope, LAMBDA e : e.uid = uid \/ Chain(e.scope, uid) # <<>>)
    IN  IF i = 0 THEN <<>> ELSE Append(Chain(scope[i].scope, uid), scope[i])

\* ScopeEntry::get_condition: the entry's condition, then its parents', the
\* module's last.
GetCondition(def, chain) ==
    SelectSeq(Append([i \in DOMAIN chain |-> chain[i].condition], def.condition),
              LAMBDA c : c # "")

\* ScopeEntry::get_filename: the nearest block that names a file.
GetFilename(chain) ==
    LET i == SelectInSeq(chain, LAMBDA e : e.filename # "")
    IN  IF i = 0 THEN "" ELSE chain[i].filename

IsFilenameEquivalent(query, ref) ==
    IF ref \in Relative THEN ref = BaseName[query] ELSE query = ref

BreakPointOf(inst, bp, chain, filename) ==
    [id |-> bp.id, instance_id |-> inst.id, filename |-> filename,
     line_num |-> chain[1].line, column_num |-> chain[1].column,
     condition |-> GetCondition(defs[inst.def], chain)]

\* filename_blocks is not empty.
HasFilename(def) == \E e \in ToSet(Visit(def.scope)) : e.filename # ""

\* BreakPointVisitor by location: the nearest enclosing block whose file is
\* the one asked for.
HandleFilename_AnyColumn(inst, filename, line, column) ==
    LET def == defs[inst.def]
        One(bp) ==
            LET chain == Chain(def.scope, bp.uid)
                i == SelectInSubSeq(chain, 2, Len(chain),
                         LAMBDA e : e.filename # "" /\ IsFilenameEquivalent(filename, e.filename))
            IN  IF i # 0 /\ (line = 0 \/ line + column = chain[1].line + chain[1].column)
                THEN <<BreakPointOf(inst, bp, chain, chain[i].filename)>> ELSE <<>>
    IN  FlattenSeq([i \in DOMAIN inst.bps |-> One(inst.bps[i])])
HandleFilename(inst, filename, line, column) ==
    LET def == defs[inst.def]
        One(bp) ==
            LET chain == Chain(def.scope, bp.uid)
                i == SelectInSubSeq(chain, 2, Len(chain),
                         LAMBDA e : e.filename # "" /\ IsFilenameEquivalent(filename, e.filename))
            IN  IF /\ i # 0
                   /\ line > 0 => line = chain[1].line
                   /\ line > 0 /\ column > 0 => column = chain[1].column
                THEN <<BreakPointOf(inst, bp, chain, chain[i].filename)>> ELSE <<>>
    IN  FlattenSeq([i \in DOMAIN inst.bps |-> One(inst.bps[i])])

\* BreakPointVisitor by id.
HandleId(inst, id) ==
    LET def == defs[inst.def]
        One(bp, chain) ==
            IF HasFilename(def) /\ GetFilename(chain) # ""
            THEN <<[bp |-> BreakPointOf(inst, bp, chain, GetFilename(chain)),
                    uid |-> bp.uid, def |-> inst.def]>>
            ELSE <<>>
        found == SelectSeq(inst.bps, LAMBDA bp : bp.id = id)
    IN  FlattenSeq([i \in DOMAIN found |-> One(found[i], Chain(def.scope, found[i].uid))])

GetBreakpoints(filename, line, column) ==
    FlattenSeq([i \in DOMAIN Instances |->
                   HandleFilename(Instances[i].inst, filename, line, column)])

RawBreakpoint(id) ==
    LET First(found) == IF found = <<>> THEN None ELSE found[1]
    IN  First(FlattenSeq([i \in DOMAIN Instances |-> HandleId(Instances[i].inst, id)]))

GetBreakpoint(id) ==
    LET Public(raw) == IF raw = None THEN None ELSE raw.bp
    IN  Public(RawBreakpoint(id))

\* The name of an instance is its path.
GetInstanceName(id) ==
    LET i == SelectInSeq(Instances, LAMBDA x : x.inst.id = id)
    IN  IF i = 0 THEN <<>> ELSE Instances[i].path

InstanceOfBp(id) ==
    LET i == SelectInSeq(Instances, LAMBDA x : \E j \in DOMAIN x.inst.bps : x.inst.bps[j].id = id)
    IN  IF i = 0 THEN None ELSE Instances[i].inst

\* From the root of that name down, one token after the other.
RECURSIVE Descend(_, _)
Descend(inst, tokens) ==
    IF tokens = <<>> THEN inst.id
    ELSE LET i == SelectInSeq(inst.subs, LAMBDA s : s.name = tokens[1])
         IN  IF i = 0 THEN -1 ELSE Descend(inst.subs[i], Tail(tokens))

GetInstanceId(tokens) ==
    LET i == SelectInSeq(roots, LAMBDA r : r.name = tokens[1])
    IN  IF i = 0 THEN -1 ELSE Descend(roots[i], Tail(tokens))

\* FilenameVisitor, from a root's definition through the modules below it.
RECURSIVE FilenamesOf(_)
FilenamesOf(name) ==
    LET entries == Visit(defs[name].scope)
    IN  ({entries[i].filename : i \in DOMAIN entries} \ {""})
            \cup UNION {FilenamesOf(defs[name].instances[i].module) :
                            i \in DOMAIN defs[name].instances}

GetFilenames == UNION {FilenamesOf(roots[i].def) : i \in DOMAIN roots}

\* walk_up_nodes: the earlier siblings of the entry, the nearest first, then
\* those of its parent, up to the scope of the module.
WalkUpNodes_Later(def, uid) ==
    LET chain == Chain(def.scope, uid)
        Siblings(i) == IF i = Len(chain) THEN def.scope ELSE chain[i + 1].scope
        Before(i) == SelectSeq(Siblings(i), LAMBDA e : e.uid # chain[i].uid)
    IN  FlattenSeq([i \in DOMAIN chain |-> Reverse(Before(i))])
WalkUpNodes(def, uid) ==
    LET chain == Chain(def.scope, uid)
        Siblings(i) == IF i = Len(chain) THEN def.scope ELSE chain[i + 1].scope
        Before(i) == SubSeq(Siblings(i), 1,
                            SelectInSeq(Siblings(i), LAMBDA e : e.uid = chain[i].uid) - 1)
    IN  FlattenSeq([i \in DOMAIN chain |-> Reverse(Before(i))])

\* The element of an array that an index selects; it is delayed when the
\* index is.
Indexed(var, index, value) ==
    [ref |-> "", name |-> Append(var.name, ToString(value)),
     value |-> Append(var.value, ToString(value)),
     rtl |-> TRUE, type |-> index.type, depth |-> 1]

\* The variables an entry gives to the context.  An assignment through an
\* index gives one variable for each index whose value can be read.  The
\* first variable of an assignment that lost its own is undefined.
ContextOf(e) ==
    IF e.type \notin {"decl", "assign"} THEN <<>>
    ELSE IF e.indices = <<>> THEN e.vars
    ELSE FlattenSeq([i \in DOMAIN e.indices |->
             LET x == e.indices[i].var
             IN  IF x \notin DOMAIN IndexValue THEN <<>>
                 ELSE IF e.vars = <<>> THEN <<Undefined>>
                 ELSE <<Indexed(e.vars[1], e.indices[i], IndexValue[x])>>])

GetContextVariables(id) ==
    LET bp == RawBreakpoint(id)
    IN  IF bp = None THEN <<>>
        ELSE LET nodes == WalkUpNodes(defs[bp.def], bp.uid)
             IN  Reverse(FlattenSeq([i \in DOMAIN nodes |-> ContextOf(nodes[i])]))

\* The delayed variables of an entry (an index is an RTL variable): all of an
\* assignment's when its first variable or one of its indices is delayed.
DelayedOf(e) ==
    IF e.type = "decl" THEN SelectSeq(e.vars, LAMBDA v : v.type = "delay")
    ELSE IF e.type # "assign" THEN <<>>
    ELSE IF e.vars = <<>> THEN <<Undefined>>
    ELSE IF \/ e.vars[1].type = "delay"
            \/ \E i \in DOMAIN e.indices : e.indices[i].type = "delay"
         THEN e.vars
    ELSE <<>>

GetContextDelayedVariables(id) ==
    LET bp == RawBreakpoint(id)
    IN  IF bp = None THEN <<>>
        ELSE LET nodes == WalkUpNodes(defs[bp.def], bp.uid)
             IN  Reverse(FlattenSeq([i \in DOMAIN nodes |-> DelayedOf(nodes[i])]))

GetGeneratorVariable(id) ==
    LET i == SelectInSeq(Instances, LAMBDA x : x.inst.id = id)
    IN  IF i = 0 THEN <<>> ELSE defs[Instances[i].inst.def].vars

\* std::string::starts_with on the joined tokens.
StartsWith(value, prefix) ==
    /\ Len(value) >= Len(prefix)
    /\ SubSeq(value, 1, Len(prefix) - 1) = Front(prefix)
    /\ <<value[Len(prefix)], Last(prefix)>> \in TokenPrefix \/ value[Len(prefix)] = Last(prefix)

\* resolve_scoped_name_breakpoint: the newest variable of that name or of that
\* value; a signal is below the instance.
FullName(v, inst) ==
    IF v.rtl /\ ~StartsWith(v.value, inst) THEN inst \o v.value ELSE v.value
Named(vs, name) == SelectSeq(vs, LAMBDA v : v.name = name \/ v.value = name)
ResolveScopedNameBreakpoint_Oldest(name, id) ==
    LET found == Named(GetContextVariables(id), name)
    IN  IF found = <<>> THEN <<>>
        ELSE FullName(Head(found), GetInstanceName(GetBreakpoint(id).instance_id))
ResolveScopedNameBreakpoint(name, id) ==
    LET found == Named(GetContextVariables(id), name)
    IN  IF found = <<>> THEN <<>>
        ELSE FullName(Last(found), GetInstanceName(GetBreakpoint(id).instance_id))

\* AssignmentVisitor::rtl_equivalent: the element an indexed assignment can
\* write, with the condition that it does, or the variable of that name.
RtlEquivalent_First(e, name) ==
    IF e.vars # <<>> /\ e.vars[1].name = name
    THEN [value |-> e.vars[1].value, condition |-> <<>>] ELSE None
RtlEquivalent(e, name) ==
    LET InRange(i, n) == e.indices[i].min <= n /\ n <= e.indices[i].max
        hits == {<<i, n>> \in (DOMAIN e.indices) \X (0 .. MaxIndex) :
                    ToString(n) = Last(name) /\ InRange(i, n)}
        j == SelectInSeq(e.vars, LAMBDA v : v.name = name)
    IN  IF e.indices # <<>> /\ e.vars[1].name = Front(name) /\ hits # {}
        THEN LET h == CHOOSE h \in hits : \A k \in hits : h[1] <= k[1]
             IN  [value |-> Append(e.vars[1].value, ToString(h[2])),
                  condition |-> <<e.indices[h[1]].var, ToString(h[2])>>]
        ELSE IF j = 0 THEN None
        ELSE [value |-> e.vars[j].value, condition |-> <<>>]

\* get_assigned_breakpoints: every assignment to the variable in the module
\* of the breakpoint, as breakpoints of the breakpoint's instance.
GetAssignedBreakpoints(name, id) ==
    LET bp == RawBreakpoint(id)
        inst == InstanceOfBp(id)
        One(e) ==
            LET info == RtlEquivalent(e, name)
                j == SelectInSeq(inst.bps, LAMBDA b : b.uid = e.uid)
            IN  IF e.type # "assign" \/ info = None \/ j = 0 THEN <<>>
                ELSE <<[id |-> inst.bps[j].id, value |-> info.value,
                        condition |-> GetCondition(defs[bp.def], Chain(defs[bp.def].scope, e.uid))
                                          \o info.condition]>>
    IN  IF bp = None \/ inst = None THEN <<>>
        ELSE LET entries == Visit(defs[bp.def].scope)
             IN  FlattenSeq([i \in DOMAIN entries |-> One(entries[i])])

GetInstanceNames == {Instances[i].path : i \in DOMAIN Instances}

GetAnnotationValues(name) ==
    LET found == SelectSeq(doc.attributes, LAMBDA a : a.name = name)
    IN  [i \in DOMAIN found |-> found[i].value]

ExecutionBpOrders == [i \in 1 .. numBps |-> i - 1]

-----------------------------------------------------------------------------
(* Properties.                                                               *)

Loaded == loaded = Len(roots) /\ roots # <<>> /\ ~ENABLED DropOnError

BpIds(inst) == {inst.bps[i].id : i \in DOMAIN inst.bps}

\* The scheduler steps through execution_bp_orders, which only counts: the ids
\* given to the breakpoints of all the instances of all the roots are exactly
\* the numbers it counts, each given once (build_bp_ids, db.cc:1065).
IdsDense ==
    Loaded =>
        /\ UNION {BpIds(Instances[i].inst) : i \in DOMAIN Instances}
               = ToSet(ExecutionBpOrders)
        /\ \A i, j \in DOMAIN Instances :
               i # j => BpIds(Instances[i].inst) \cap BpIds(Instances[j].inst) = {}

\* An instance keeps addresses of entries of its module, and handling the next
\* root sorts and merges every module again (db.cc:1923): what the first pass
\* left is never merged away by a later one.
BreakpointsAlive ==
    \A i \in DOMAIN Instances : \A j \in DOMAIN Instances[i].inst.bps :
        Chain(defs[Instances[i].inst.def].scope, Instances[i].inst.bps[j].uid) # <<>>

\* Instance ids are given in two places of build_instance_tree (db.cc:897):
\* no two instances share one, and the name of an id leads back to the id.
InstanceIdsInverse ==
    Loaded => \A i \in DOMAIN Instances :
        LET id == Instances[i].inst.id
        IN  /\ GetInstanceName(id) = Instances[i].path
            /\ GetInstanceId(GetInstanceName(id)) = id

\* With reordering, the breakpoints of a block are executed in the order of
\* its lines (handle_after, db.cc:916).
LinesInOrder ==
    Loaded /\ doc.reorder =>
        \A i \in DOMAIN Instances :
            LET inst == Instances[i].inst
                At(j) == Chain(defs[inst.def].scope, inst.bps[j].uid)
            IN  \A j, k \in DOMAIN inst.bps :
                    (/\ Len(At(j)) > 1 /\ Tail(At(j)) = Tail(At(k))
                     /\ At(j)[1].line < At(k)[1].line)
                        => inst.bps[j].id < inst.bps[k].id

\* A breakpoint that a client can name by id is found when it asks for the
\* location that the debugger reports for it, under the same condition, unless
\* the file is recorded by a relative path with a directory (db.cc:1158).
LocationFindsBreakpoint ==
    Loaded =>
        \A id \in ToSet(ExecutionBpOrders) :
            LET bp == GetBreakpoint(id) IN
            (bp # None /\ (bp.filename \in Relative => BaseName[bp.filename] = bp.filename))
                => /\ bp \in ToSet(GetBreakpoints(bp.filename, bp.line_num, bp.column_num))
                   /\ bp.filename \in GetFilenames
                   /\ \A x \in ToSet(GetBreakpoints(bp.filename, bp.line_num, bp.column_num)) :
                          x.line_num = bp.line_num /\ (bp.column_num > 0 => x.column_num = bp.column_num)

\* The entries of a scope before the one with this address, in the order of the
\* source, that are in its block or in one around it.
VisibleBefore(scope, uid) ==
    LET all == Visit(scope)
        outer == {e.uid : e \in ToSet(Chain(scope, uid))}
        Visible(e) ==
            /\ e.uid \notin outer
            /\ {x.uid : x \in ToSet(Tail(Chain(scope, e.uid)))} \subseteq outer
    IN  SelectSeq(SubSeq(all, 1, SelectInSeq(all, LAMBDA e : e.uid = uid) - 1), Visible)

\* The context of a breakpoint is what the statements before it in its block
\* and in the blocks around it define, oldest first, so that the last variable
\* of a name is its newest value (symbol.cc:64).  The reference goes through the
\* whole module in order and keeps what is in scope.
ContextInScope ==
    Loaded =>
        \A id \in ToSet(ExecutionBpOrders) :
            LET raw == RawBreakpoint(id)
                before == VisibleBefore(defs[raw.def].scope, raw.uid)
            IN  raw # None =>
                    GetContextVariables(id)
                        = FlattenSeq([i \in DOMAIN before |-> Reverse(ContextOf(before[i]))])

\* A name in an expression of a breakpoint is the source name or the RTL name of
\* a variable in scope (symbol.cc:67), and stands for the newest one that has it:
\* a variable whose RTL name is the source name of an older one takes that name.
\* A signal is below the breakpoint's own instance, also in a module with several
\* instances, provided no value starts with the text of an instance's name
\* (symbol.cc:69); a constant is its value.
ResolvesToNewest ==
    Loaded =>
        \A id \in ToSet(ExecutionBpOrders) :
            LET raw == RawBreakpoint(id)
                before == VisibleBefore(defs[raw.def].scope, raw.uid)
                inst == GetInstanceName(InstanceOfBp(id).id)
                Meant(name, vs) ==
                    LET i == CHOOSE i \in DOMAIN vs :
                               /\ name \in {vs[i].name, vs[i].value}
                               /\ \A j \in DOMAIN vs : j > i => name \notin {vs[j].name, vs[j].value}
                    IN  IF vs[i].rtl THEN inst \o vs[i].value ELSE vs[i].value
                ResolvesAll(vs) ==
                    \A name \in UNION {{v.name, v.value} : v \in ToSet(vs)} :
                        ResolveScopedNameBreakpoint(name, id) = Meant(name, vs)
            IN  raw # None =>
                    ResolvesAll(FlattenSeq([i \in DOMAIN before |-> Reverse(ContextOf(before[i]))]))

\* Watching a variable, or one element of it, breaks at every assignment to it
\* that the instance can stop at, whatever breakpoint of the instance the client
\* watches it from, and at nothing else (get_assigned_breakpoints, db.cc:1766):
\* an assignment through an index is one to every element of the index's range.
AssignmentsFound ==
    Loaded =>
        \A id \in ToSet(ExecutionBpOrders) :
            LET inst == InstanceOfBp(id)
                Element(name, k) == Append(name, ToString(k))
                Assigns(e, name) ==
                    \/ \E v \in ToSet(e.vars) : v.name = name
                    \/ \E index \in ToSet(e.indices) : \E k \in index.min .. index.max :
                          name = Element(e.vars[1].name, k)
                variables == UNION {{v.name : v \in ToSet(e.vars)} :
                                       e \in ToSet(Visit(defs[inst.def].scope))}
                elements == {Element(name, k) : name \in variables, k \in 0 .. MaxIndex}
            IN  GetBreakpoint(id) # None =>
                \A name \in variables \cup elements :
                    {a.id : a \in ToSet(GetAssignedBreakpoints(name, id))} =
                        {b.id : b \in {x \in ToSet(inst.bps) :
                            LET e == Chain(defs[inst.def].scope, x.uid)[1]
                            IN  e.type = "assign" /\ Assigns(e, name)}}

\* A table with a reference that cannot be resolved has assignments without a
\* variable; no query of a table parsed from a string reads the first variable
\* of one (db.cc:1525), because parse() gives such a table up.
NoUndefinedVariable ==
    Loaded /\ doc.from = "string" =>
        \A id \in ToSet(ExecutionBpOrders) :
            /\ Undefined \notin ToSet(GetContextDelayedVariables(id))
            /\ Undefined \notin ToSet(GetContextVariables(id))
=============================================================================
