---------------------------- MODULE MCJsonTable -----------------------------
(* A top module whose block has three entries of every kind, with a child    *)
(* that is instantiated twice, alone or before a second top of the same      *)
(* child.  One variable has another one's name as its RTL name, one is a     *)
(* constant.                                                                 *)
EXTENDS JsonTable

V(name, value) == [ref |-> "", name |-> <<name>>, value |-> <<value>>, rtl |-> TRUE,
                   type |-> "normal", depth |-> 1]
Delay(v) == [v EXCEPT !.type = "delay", !.depth = 2]
Ref(id) == [V("", "") EXCEPT !.ref = id]

E(type, line, column, condition, vs) ==
    [uid |-> "", type |-> type, line |-> line, column |-> column, condition |-> condition,
     vars |-> vs, indices |-> <<>>, filename |-> "", scope |-> <<>>]
Blk(file, condition, scope) ==
    [E("block", 0, 0, condition, <<>>) EXCEPT !.filename = file, !.scope = scope]

Kinds ==
    {E("none", 2, 0, "", <<>>),
     E("decl", 1, 1, "", <<[V("a", "a0") EXCEPT !.rtl = FALSE]>>),
     E("assign", 1, 1, "", <<V("a", "a1")>>),
     E("assign", 1, 1, "c", <<Ref("v")>>),
     E("assign", 1, 1, "", <<Delay(V("b", "a"))>>),
     E("assign", 0, 1, "", <<Ref("w")>>),
     [E("assign", 1, 1, "", <<V("a", "a2")>>) EXCEPT
         !.indices = <<[var |-> "i", type |-> "normal", min |-> 0, max |-> 1]>>],
     Blk("", "d", <<[E("assign", 2, 1, "", <<V("a", "a3")>>) EXCEPT !.uid = "p"],
                    [E("assign", 1, 2, "", <<V("b", "b1")>>) EXCEPT !.uid = "q"]>>),
     Blk("rel", "", <<[E("none", 1, 0, "", <<>>) EXCEPT !.uid = "p"]>>)}

\* The addresses of the entries of one block.
Address(e, n) ==
    [e EXCEPT !.uid = n,
              !.scope = [i \in DOMAIN @ |-> [@[i] EXCEPT !.uid = n \o @]]]

Mod(name, scope, insts) ==
    [name |-> name, condition |-> "", vars |-> <<>>, scope |-> scope, instances |-> insts]
Inst(name, module) == [name |-> name, module |-> module]

Child == Mod("child",
             <<[Blk("rel", "", <<[E("assign", 2, 0, "", <<V("a", "a0")>>) EXCEPT !.uid = "y"],
                                 [E("assign", 1, 0, "", <<V("a", "a1")>>) EXCEPT !.uid = "z"]>>)
                EXCEPT !.uid = "x"]>>, <<>>)

TopScope(es) ==
    <<[E("decl", 1, 0, "", <<V("b", "b2")>>) EXCEPT !.uid = "m"],
      [Blk("/abs", "", [i \in 1 .. 3 |-> Address(es[i], <<"e1", "e2", "e3">>[i])])
       EXCEPT !.uid = "n"]>>

MCDocuments ==
    {[table |-> <<Mod("top", TopScope(es), <<Inst("u", "child"), Inst("w", "child")>>),
                  Child,
                  Mod("top2", <<>>, <<Inst("u", t[2])>>)>>,
      top |-> t[1], reorder |-> r, from |-> from,
      variables |-> [v |-> Delay(V("a", "a4"))], attributes |-> <<>>] :
        es \in [1 .. 3 -> Kinds], r \in BOOLEAN, from \in {"file", "string"},
        t \in {<<{"top"}, "child">>, <<{"top", "top2"}, "child">>, <<{"top", "top2"}, "missing">>}}


MCFiles == {"/abs", "rel"}
MCBaseName == [f \in MCFiles |-> IF f = "/abs" THEN "abs" ELSE f]
MCIndexValue == [i |-> 1]
=============================================================================
