----------------------------- MODULE Scheduler ------------------------------
(***************************************************************************)
(* The breakpoint scheduler (src/scheduler.cc): the list of inserted       *)
(* breakpoints and the choice of the ones to evaluate next, for each       *)
(* evaluation mode.  One action is one public method; the specification    *)
(* lets its callers, the simulation thread and the server thread, call     *)
(* them in any order.  Debugger composes them the way debug.cc does.       *)
(***************************************************************************)
EXTENDS Naturals, Sequences, FiniteSets

CONSTANTS
    BpId,      \* ids of the symbol table's breakpoints
    Order,     \* bp_ordering_: their execution order, a sequence of ids
    Loc,       \* [BpId -> file, line and column]
    Inst,      \* [BpId -> instance id]
    DbCond,    \* [BpId -> Cond]: the enable condition in the symbol table
    Ns,        \* namespaces: one per instantiation of the generated design
    NsOf,      \* [BpId -> Seq(Ns)]: the namespaces of the breakpoint's instance
    Cond,      \* conditions; TrueCond, the condition "1", is one
    TrueCond,
    BadCond,   \* the conditions that name no signal of the design
    Var,       \* variables a data breakpoint watches
    BadVar,    \* the variables that name no signal of the design
    NoVar,     \* the empty target_rtl_var_name
    NoCond,    \* the expression a temporary breakpoint does not have
    NoBp,      \* the empty optional
    Rewinds,   \* what reverse_last_posedge may answer: a subset of BOOLEAN
    Asserts,   \* the pairs of a breakpoint and a namespace an assertion names
    MaxBps     \* bound: no breakpoint is added to a list that long

ASSUME SchedulerAssumption ==
    /\ Order \in Seq(BpId)
    /\ \A id \in BpId : \E i \in DOMAIN Order : Order[i] = id
    /\ \A i, j \in DOMAIN Order : Order[i] = Order[j] => i = j
    /\ DbCond \in [BpId -> Cond]
    /\ NsOf \in [BpId -> Seq(Ns)]
    /\ TrueCond \in Cond
    /\ NoVar \notin Var
    /\ NoCond \notin Cond
    /\ NoBp \notin BpId
    /\ Rewinds \subseteq BOOLEAN /\ Rewinds # {}
    /\ Asserts \subseteq BpId \X Ns

VARIABLES
    breakpoints,  \* breakpoints_
    inserted,     \* inserted_breakpoints_
    current,      \* current_breakpoint_id_
    mode,         \* evaluation_mode_
    single,       \* single_thread_mode_, the debugger's option
    batch,        \* the breakpoints the last next_breakpoints() returned
    fault         \* the undefined step the process took, or "none"

svars == <<breakpoints, inserted, current, mode, single, batch, fault>>

Mode == {"BreakPointOnly", "StepOver", "StepBack", "ReverseBreakpointOnly", "None"}

Flag == {"normal", "data", "assert"}

\* Undefined steps: the debugger runs inside the simulator and ends with it.
Fault == {"none", "null breakpoint", "empty optional"}

\* DebugBreakPoint, as far as the scheduler looks at it: the file position and
\* the instance are those of its id.
Entry == [id : BpId, ns : Ns, type : (SUBSET Flag) \ {{}}, evaluated : BOOLEAN,
          expr : Cond \cup {NoCond}, enable : Cond, var : Var \cup {NoVar}]

SchedulerInit ==
    /\ breakpoints = <<>>
    /\ inserted = {}
    /\ current = NoBp
    /\ mode = "BreakPointOnly"
    /\ single = FALSE
    /\ batch = {}
    /\ fault = "none"

-----------------------------------------------------------------------------
(* Helpers on the list of breakpoints                                      *)

Ids(s) == {s[i].id : i \in DOMAIN s}

\* i is the first entry of its id: what a search from the beginning finds.
IsFirst(s, i) == \A j \in 1..(i - 1) : s[j].id # s[i].id

\* The entries of s at the positions f[1], f[2], ...
Pick(s, f) == [k \in DOMAIN f |-> s[f[k]]]

\* The one increasing enumeration of the positions of s outside D.
Survivors(s, D) ==
    {f \in UNION {[1..n -> DOMAIN s] : n \in 0..Len(s)} :
        /\ \A j, k \in DOMAIN f : j < k => f[j] < f[k]
        /\ \A i \in DOMAIN s : i \notin D <=> \E k \in DOMAIN f : f[k] = i}

\* clear_breakpoints: unset every evaluated flag.
Cleared(s) == [i \in DOMAIN s |-> [s[i] EXCEPT !.evaluated = FALSE]]

Correct(id, c) == c \notin BadCond /\ DbCond[id] \notin BadCond

NewEntry(id, ns, flag, c, enable, v) ==
    [id |-> id, ns |-> ns, type |-> {flag}, evaluated |-> FALSE,
     expr |-> c, enable |-> enable, var |-> v]

\* One new entry for every namespace of the breakpoint's instance.
NewEntries(id, flag, c, v) ==
    [k \in DOMAIN NsOf[id] |-> NewEntry(id, NsOf[id][k], flag, c, DbCond[id], v)]

-----------------------------------------------------------------------------
(* Inserting and removing breakpoints                                      *)

\* Mutant: the search in inserted_breakpoints_ is left out.
InsertNormal_Again(id, c) ==
    /\ IF Correct(id, c)
       THEN /\ breakpoints' = breakpoints \o NewEntries(id, "normal", c, NoVar)
            /\ inserted' = IF NsOf[id] = <<>> THEN inserted ELSE inserted \cup {id}
       ELSE UNCHANGED <<breakpoints, inserted>>
    /\ UNCHANGED <<current, mode, single, batch, fault>>

\* add_breakpoint(normal) of an id that is not inserted; an expression that
\* cannot be validated inserts nothing.
InsertNormal(id, c) ==
    /\ id \notin inserted
    /\ IF Correct(id, c)
       THEN /\ breakpoints' = breakpoints \o NewEntries(id, "normal", c, NoVar)
            /\ inserted' = IF NsOf[id] = <<>> THEN inserted ELSE inserted \cup {id}
       ELSE UNCHANGED <<breakpoints, inserted>>
    /\ UNCHANGED <<current, mode, single, batch, fault>>

\* add_breakpoint(normal) of an inserted id: its first entry is updated, even
\* with an expression that cannot be validated.
UpdateNormal(id, c) ==
    /\ id \in inserted
    /\ \/ \E i \in DOMAIN breakpoints :
             /\ breakpoints[i].id = id
             /\ IsFirst(breakpoints, i)
             /\ breakpoints' = [breakpoints EXCEPT ![i].expr = c,
                                                  ![i].type = @ \cup {"normal"}]
       \/ id \notin Ids(breakpoints) /\ UNCHANGED breakpoints
    /\ UNCHANGED <<inserted, current, mode, single, batch, fault>>

AddNormal(id, c) == InsertNormal(id, c) \/ UpdateNormal(id, c)

\* The entry that makes add_breakpoint(data) return early.
SameData(id, v, c) ==
    \E i \in DOMAIN breakpoints :
        /\ breakpoints[i].id = id
        /\ "data" \in breakpoints[i].type
        /\ breakpoints[i].var = v
        /\ breakpoints[i].expr = c

\* add_data_breakpoint.  With a variable that cannot be validated the first
\* entry stays behind without it; with only the expression invalid the null
\* pointer insert_bp returned is dereferenced.
AddData(id, v, c) ==
    /\ LET rejected == SameData(id, v, c) \/ NsOf[id] = <<>>
           half == NewEntry(id, NsOf[id][1], "data", c, DbCond[id], NoVar)
       IN  \/ /\ ~rejected /\ Correct(id, c) /\ v \notin BadVar
             /\ breakpoints' = breakpoints \o NewEntries(id, "data", c, v)
             /\ inserted' = inserted \cup {id}
             /\ UNCHANGED fault
          \/ /\ ~rejected /\ Correct(id, c) /\ v \in BadVar
             /\ breakpoints' = Append(breakpoints, half)
             /\ inserted' = inserted \cup {id}
             /\ UNCHANGED fault
          \/ /\ ~rejected /\ ~Correct(id, c) /\ v \notin BadVar
             /\ fault' = "null breakpoint"
             /\ UNCHANGED <<breakpoints, inserted>>
          \/ /\ rejected \/ (~Correct(id, c) /\ v \in BadVar)
             /\ UNCHANGED <<breakpoints, inserted, fault>>
    /\ UNCHANGED <<current, mode, single, batch>>

\* add_assert_breakpoint, with the condition the caller has cleared: no search
\* for an entry that is already there.
AddAssert(id, ns) ==
    /\ breakpoints' = Append(breakpoints,
                             NewEntry(id, ns, "assert", TrueCond, TrueCond, NoVar))
    /\ inserted' = inserted \cup {id}
    /\ UNCHANGED <<current, mode, single, batch, fault>>

\* Mutant: the flag is dropped and the entry stays, whatever flags are left.
RemoveFlag_KeepsEntry(id, flag) ==
    /\ \/ \E i \in DOMAIN breakpoints :
             /\ breakpoints[i].id = id
             /\ IsFirst(breakpoints, i)
             /\ breakpoints' = [breakpoints EXCEPT ![i].type = @ \ {flag}]
       \/ id \notin Ids(breakpoints) /\ UNCHANGED breakpoints
    /\ UNCHANGED <<inserted, current, mode, single, batch, fault>>

\* Mutant: the entry goes, its id stays in inserted_breakpoints_.
RemoveFlag_KeepsInserted(id, flag) ==
    /\ \/ \E i \in DOMAIN breakpoints :
             /\ breakpoints[i].id = id
             /\ IsFirst(breakpoints, i)
             /\ \/ /\ breakpoints[i].type \subseteq {flag}
                   /\ \E f \in Survivors(breakpoints, {i}) :
                         breakpoints' = Pick(breakpoints, f)
                \/ /\ ~(breakpoints[i].type \subseteq {flag})
                   /\ breakpoints' = [breakpoints EXCEPT ![i].type = @ \ {flag}]
       \/ id \notin Ids(breakpoints) /\ UNCHANGED breakpoints
    /\ UNCHANGED <<inserted, current, mode, single, batch, fault>>

\* remove_breakpoint and remove_data_breakpoint: drop a flag of the first entry
\* with this id, and the entry with its last flag.
RemoveFlag(id, flag) ==
    /\ \/ \E i \in DOMAIN breakpoints :
             /\ breakpoints[i].id = id
             /\ IsFirst(breakpoints, i)
             /\ \/ /\ breakpoints[i].type \subseteq {flag}
                   /\ \E f \in Survivors(breakpoints, {i}) :
                         breakpoints' = Pick(breakpoints, f)
                   /\ inserted' = inserted \ {id}
                \/ /\ ~(breakpoints[i].type \subseteq {flag})
                   /\ breakpoints' = [breakpoints EXCEPT ![i].type = @ \ {flag}]
                   /\ UNCHANGED inserted
       \/ id \notin Ids(breakpoints) /\ UNCHANGED <<breakpoints, inserted>>
    /\ UNCHANGED <<current, mode, single, batch, fault>>

\* clear_data_breakpoints: entries that are normal too keep that flag; for each
\* other id the first entry with the id is erased.
ClearData ==
    LET isData(i) == "data" \in breakpoints[i].type
        both(i) == isData(i) /\ "normal" \in breakpoints[i].type
        ids == {breakpoints[i].id : i \in {j \in DOMAIN breakpoints :
                                              isData(j) /\ ~both(j)}}
        gone == {i \in DOMAIN breakpoints :
                    breakpoints[i].id \in ids /\ IsFirst(breakpoints, i)}
        kept == [i \in DOMAIN breakpoints |->
                    [breakpoints[i] EXCEPT !.type = IF both(i) THEN {"normal"} ELSE @]]
    IN  /\ \E f \in Survivors(breakpoints, gone) : breakpoints' = Pick(kept, f)
        /\ inserted' = inserted \ ids
        /\ UNCHANGED <<current, mode, single, batch, fault>>

Rank(id) == CHOOSE i \in DOMAIN Order : Order[i] = id

Sorted(s) == \A i, j \in DOMAIN s : i < j => Rank(s[i].id) <= Rank(s[j].id)

\* reorder_breakpoints: std::sort, which may permute entries of the same id.
Reorder ==
    /\ \E p \in [DOMAIN breakpoints -> DOMAIN breakpoints] :
          /\ \A i, j \in DOMAIN breakpoints : p[i] = p[j] => i = j
          /\ Sorted(Pick(breakpoints, p))
          /\ breakpoints' = Pick(breakpoints, p)
    /\ UNCHANGED <<inserted, current, mode, single, batch, fault>>

\* Mutant: inserted_breakpoints_ is not cleared.
ClearAll_KeepsInserted ==
    /\ breakpoints' = <<>>
    /\ UNCHANGED <<inserted, current, mode, single, batch, fault>>

\* clear(), on a stop command.
ClearAll ==
    /\ breakpoints' = <<>>
    /\ inserted' = {}
    /\ UNCHANGED <<current, mode, single, batch, fault>>

-----------------------------------------------------------------------------
(* Evaluation                                                              *)

\* Mutant: the flags of the last cycle are not unset.
Start_KeepsFlags ==
    /\ current' = NoBp
    /\ UNCHANGED <<breakpoints, inserted, mode, single, batch, fault>>

\* Mutant: assertions are removed whether or not they have been evaluated.
Start_RemovesAll ==
    LET gone == {i \in DOMAIN breakpoints : breakpoints[i].type = {"assert"}}
    IN  /\ \E f \in Survivors(breakpoints, gone) :
              breakpoints' = Cleared(Pick(breakpoints, f))
        /\ inserted' = {id \in inserted : id \in Ids(breakpoints')}
        /\ current' = NoBp
        /\ UNCHANGED <<mode, single, batch, fault>>

\* start_breakpoint_evaluation, at a clock edge: the assertions that have been
\* evaluated are removed (remove_assert_breakpoints) and the flags unset.
Start ==
    LET hit == {i \in DOMAIN breakpoints :
                   /\ breakpoints[i].id \in inserted
                   /\ IsFirst(breakpoints, i)
                   /\ "assert" \in breakpoints[i].type
                   /\ breakpoints[i].evaluated}
        gone == {i \in hit : breakpoints[i].type = {"assert"}}
        kept == [i \in DOMAIN breakpoints |->
                    [breakpoints[i] EXCEPT
                        !.type = IF i \in hit \ gone THEN @ \ {"assert"} ELSE @]]
    IN  /\ \E f \in Survivors(breakpoints, gone) :
              breakpoints' = Cleared(Pick(kept, f))
        /\ inserted' = inserted \ {breakpoints[i].id : i \in gone}
        /\ current' = NoBp
        /\ UNCHANGED <<mode, single, batch, fault>>

\* set_evaluation_mode holds no lock: it unsets the flags, then changes the mode.
UnsetFlags ==
    /\ breakpoints' = Cleared(breakpoints)
    /\ UNCHANGED <<inserted, current, mode, single, batch, fault>>

AssignMode(m) ==
    /\ mode' = m
    /\ UNCHANGED <<breakpoints, inserted, current, single, batch, fault>>

SetSingle(b) ==
    /\ single' = b
    /\ UNCHANGED <<breakpoints, inserted, current, mode, batch, fault>>

\* Mutant: the scan does not stop at the end of the source position.
Scan_AnyLocation(ref, forward) ==
    {j \in DOMAIN breakpoints :
        /\ "data" \notin breakpoints[ref].type
        /\ IF forward THEN j > ref ELSE j < ref
        /\ Inst[breakpoints[j].id] # Inst[breakpoints[ref].id]
        /\ breakpoints[j].enable = breakpoints[ref].enable}

\* scan_breakpoints: the entries around ref at the same source position, of
\* other instances, with the same enable condition.
Scan(ref, forward) ==
    {j \in DOMAIN breakpoints :
        /\ "data" \notin breakpoints[ref].type
        /\ IF forward THEN j > ref ELSE j < ref
        /\ \A k \in DOMAIN breakpoints :
              (ref <= k /\ k <= j) \/ (j <= k /\ k <= ref)
                => Loc[breakpoints[k].id] = Loc[breakpoints[ref].id]
        /\ breakpoints[j].type # {"data"}
        /\ Inst[breakpoints[j].id] # Inst[breakpoints[ref].id]
        /\ breakpoints[j].enable = breakpoints[ref].enable}

Evaluated(e) == [e EXCEPT !.evaluated = TRUE]

\* Mutant: no entry is marked as evaluated.
HandOut_NotMarked(I) ==
    /\ batch' = {Evaluated(breakpoints[i]) : i \in I}
    /\ UNCHANGED breakpoints

\* Hand out the entries at the positions of I.
HandOut(I) ==
    /\ breakpoints' = [i \in DOMAIN breakpoints |->
                          IF i \in I THEN Evaluated(breakpoints[i]) ELSE breakpoints[i]]
    /\ batch' = {Evaluated(breakpoints[i]) : i \in I}

NothingNext ==
    /\ batch' = {}
    /\ UNCHANGED <<breakpoints, inserted, current, mode, single, fault>>

\* Mutants: the first entry that is not evaluated, or the last index plus two.
IsNext_FirstLeft(i) ==
    /\ ~breakpoints[i].evaluated
    /\ \A j \in 1..(i - 1) : breakpoints[j].evaluated

IsNext_SkipsOne(i) ==
    /\ \A j \in DOMAIN breakpoints : j + 1 >= i => ~breakpoints[j].evaluated
    /\ i > 1 => i > 2 /\ breakpoints[i - 2].evaluated

\* The position after the last evaluated entry.
IsNext(i) ==
    /\ \A j \in DOMAIN breakpoints : j >= i => ~breakpoints[j].evaluated
    /\ i > 1 => breakpoints[i - 1].evaluated

\* next_normal_breakpoints
NextNormal ==
    \/ /\ \A i \in DOMAIN breakpoints : ~IsNext(i)
       /\ NothingNext
    \/ /\ \E i \in DOMAIN breakpoints :
            /\ IsNext(i)
            /\ HandOut({i} \cup IF ~single /\ breakpoints[i].type = {"normal"}
                               THEN Scan(i, TRUE) ELSE {})
            /\ current' = breakpoints[i].id
       /\ UNCHANGED <<inserted, mode, single, fault>>

\* The position next_reverse_breakpoints goes on from, when it finds one.
ReverseTarget(i, rewound) ==
    IF current = NoBp THEN i = Len(breakpoints)
    ELSE IF breakpoints[1].id = current
         THEN i = IF rewound THEN Len(breakpoints) ELSE 1
         ELSE /\ i + 1 \in DOMAIN breakpoints
              /\ breakpoints[i + 1].id = current
              /\ \A j \in DOMAIN breakpoints : j > i + 1 => breakpoints[j].id # current

\* The search finds nothing: the empty optional is dereferenced.
ReverseLost == current # NoBp /\ current \notin Ids(breakpoints)

\* next_reverse_breakpoints.  An empty optional holds any number: one outside
\* the list is an access out of bounds.
NextReverse ==
    \/ /\ breakpoints = <<>>
       /\ NothingNext
    \/ /\ breakpoints # <<>>
       /\ \E rewound \in Rewinds, i \in DOMAIN breakpoints :
            LET I == {i} \cup IF single THEN {} ELSE Scan(i, FALSE)
            IN  /\ ReverseTarget(i, rewound) \/ ReverseLost
                /\ HandOut(I)
                /\ \E last \in I :
                     /\ \A j \in I : last <= j
                     /\ current' = breakpoints[last].id
       /\ UNCHANGED <<inserted, mode, single, fault>>
    \/ /\ breakpoints # <<>>
       /\ ReverseLost
       /\ fault' = "empty optional"
       /\ UNCHANGED <<breakpoints, inserted, current, mode, single, batch>>

\* create_next_breakpoints: temporary breakpoints, one per namespace, that are
\* not in the list.
Temporaries(id) ==
    {[id |-> id, ns |-> NsOf[id][k], type |-> {"normal"}, evaluated |-> TRUE,
      expr |-> NoCond, enable |-> DbCond[id], var |-> NoVar] : k \in DOMAIN NsOf[id]}

StepTo(id) ==
    /\ current' = id
    /\ batch' = Temporaries(id)
    /\ UNCHANGED <<breakpoints, inserted, mode, single, fault>>

\* next_step_over_breakpoints: the next breakpoint of the whole design.
NextStepOver ==
    \/ \E i \in DOMAIN Order :
          /\ IF current = NoBp THEN i = 1 ELSE i > 1 /\ Order[i - 1] = current
          /\ StepTo(Order[i])
    \/ /\ IF current = NoBp THEN Order = <<>> ELSE Order[Len(Order)] = current
       /\ NothingNext

\* next_step_back_breakpoints: the previous one, in the previous cycle if the
\* simulator can go back, else the first one again.
NextStepBack ==
    \/ /\ current = NoBp
       /\ NothingNext
    \/ \E i \in DOMAIN Order :
          /\ i < Len(Order)
          /\ Order[i + 1] = current
          /\ StepTo(Order[i])
    \/ /\ current # NoBp
       /\ Order[1] = current
       /\ \E rewound \in Rewinds : StepTo(Order[IF rewound THEN Len(Order) ELSE 1])

\* next_breakpoints
NextBreakpoints ==
    \/ mode = "BreakPointOnly" /\ NextNormal
    \/ mode = "StepOver" /\ NextStepOver
    \/ mode = "StepBack" /\ NextStepBack
    \/ mode = "ReverseBreakpointOnly" /\ NextReverse
    \/ mode = "None" /\ NothingNext

-----------------------------------------------------------------------------
\* The calls of the server thread.
Edit ==
    \/ /\ Len(breakpoints) < MaxBps
       /\ \/ \E id \in BpId, c \in Cond : InsertNormal(id, c)
          \/ \E id \in BpId, v \in Var, c \in Cond : AddData(id, v, c)
    \/ \E id \in BpId, c \in Cond : UpdateNormal(id, c)
    \/ \E id \in BpId, flag \in {"normal", "data"} : RemoveFlag(id, flag)
    \/ ClearData
    \/ Reorder
    \/ ClearAll
    \/ UnsetFlags
    \/ \E m \in Mode : AssignMode(m)
    \/ \E b \in BOOLEAN : SetSingle(b)

\* The calls of the simulation thread.
Simulate ==
    \/ /\ Len(breakpoints) < MaxBps
       /\ \E a \in Asserts : AddAssert(a[1], a[2])
    \/ Start
    \/ NextBreakpoints

SchedulerNext == fault = "none" /\ (Edit \/ Simulate)

SchedulerSpec == SchedulerInit /\ [][SchedulerNext]_svars

-----------------------------------------------------------------------------
SchedulerTypeOK ==
    /\ breakpoints \in Seq(Entry)
    /\ inserted \subseteq BpId
    /\ current \in BpId \cup {NoBp}
    /\ mode \in Mode
    /\ single \in BOOLEAN
    /\ batch \subseteq Entry
    /\ fault \in Fault

\* Every id in inserted_breakpoints_ has an entry in breakpoints_: the search
\* of add_breakpoint for the entry to update never comes back empty-handed,
\* whatever was erased in between.
InsertedTracked == inserted \subseteq Ids(breakpoints)

\* The breakpoints handed out together are at one source position: a hit is
\* reported with the position of the first of them only.
BatchOneLocation == \A e, f \in batch : Loc[e.id] = Loc[f.id]
=============================================================================
