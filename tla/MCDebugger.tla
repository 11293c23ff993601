----------------------------- MODULE MCDebugger -----------------------------
(* Breakpoints a and b on one line in two instances and c on the next line,  *)
(* or two of them on two lines, or, as a loop that is unrolled gives them,   *)
(* all three on one line with a and b in one instance; one namespace.        *)
EXTENDS Debugger, TLC

CONSTANTS a, b, c, line1, line2, i1, i2, n1

MCOrder2 == <<a, b>>
MCOrder3 == <<a, b, c>>
MCLoc == [id \in BpId |-> IF id = c THEN line2 ELSE line1]
MCLocs == [id \in BpId |-> IF id = a THEN line1 ELSE line2]
MCInst == [id \in BpId |-> IF id = b THEN i2 ELSE i1]
MCLoop == [id \in BpId |-> line1]
MCLoopInst == [id \in BpId |-> IF id = c THEN i2 ELSE i1]
MCDbCond == [id \in BpId |-> TrueCond]
MCNsOf == [id \in BpId |-> <<n1>>]
MCAsserts == {<<a, n1>>}
=============================================================================
