------------------------------ MODULE Hierarchy ------------------------------
(***************************************************************************)
(* Where the simulator's design holds the design a symbol table describes  *)
(* (src/rtl.cc).  A table names its instances from a top definition down;  *)
(* the design may have the top anywhere, and more than once.  A name is    *)
(* the sequence of the parts between its dots.                             *)
(***************************************************************************)
EXTENDS Naturals, FiniteSets, SequencesExt

CONSTANT Design  \* the modules of the design, breadth first: definition and full name

ASSUME DesignAssumption ==
    /\ Len(Design) \in Nat /\ DOMAIN Design = 1 .. Len(Design)
    /\ \A i \in DOMAIN Design : Len(Design[i].path) > 0

NoMapping == [top |-> "", prefix |-> <<>>]

\* The numbers of a finite set, in their order.
InOrder(S) == [k \in 1 .. Cardinality(S) |->
                  CHOOSE i \in S : Cardinality({j \in S : j <= i}) = k]

\* compute_hierarchy_name_prefix, for simulators that tell the definition of a module
ByDefinition(insts) ==
    LET tops == {Head(name) : name \in insts}
        hits == InOrder({i \in DOMAIN Design : Design[i].def \in tops})
    IN  [k \in DOMAIN hits |-> [top |-> Design[hits[k]].def, prefix |-> Design[hits[k]].path]]

\* match: the parts of the name end with the tokens.  (With one part less than
\* tokens the code goes on and reads in front of the parts: not here.)
Match(path, tokens) ==
    /\ tokens # <<>> /\ Len(path) >= Len(tokens)
    /\ SubSeq(path, Len(path) - Len(tokens) + 1, Len(path)) = tokens

\* The same for Verilator, which does not tell definitions: modules are compared
\* with the shortest name of the top.  When that is the top itself, the first module
\* below a root is taken for it, whatever its name.  Here the names have one top.
ByInstance(insts) ==
    LET name  == CHOOSE n \in insts : \A o \in insts : Len(n) <= Len(o)
        top   == Head(name)
        path  == Tail(name)
        below == {i \in DOMAIN Design : Len(Design[i].path) > 1 \/ Design[i].path = <<top>>}
        hits  == InOrder(IF path = <<>> THEN {i \in below : \A j \in below : i <= j}
                         ELSE {i \in DOMAIN Design : Match(Design[i].path, path)})
        Prefix(full) == IF path # <<>> THEN SubSeq(full, 1, Len(full) - Len(path) + 1)
                        ELSE IF Len(full) > 1 THEN full ELSE <<"TOP">> \o full
    IN  [k \in DOMAIN hits |-> [top |-> top, prefix |-> Prefix(Design[hits[k]].path)]]

\* compute_instance_mapping and has_defname
InstanceMapping(insts, verilator) == IF verilator THEN ByInstance(insts) ELSE ByDefinition(insts)

\* get_full_name: the name in the design; one with another top is left as it is.
FullName(mapping, name) ==
    IF name = <<>> THEN name
    ELSE IF Head(name) = "$root" THEN Tail(name)
    ELSE IF Head(name) = mapping.top THEN mapping.prefix \o Tail(name)
    ELSE name
=============================================================================
