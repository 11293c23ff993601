----------------------------- MODULE MCMonitor ------------------------------
(* Signals x0 and x1 are two RTL names of one source variable, y is another  *)
(* variable.  The first two data breakpoints watch x0 and x1, the third y.   *)
EXTENDS Monitor, TLC

CONSTANTS x0, x1, y, b0, b1, b2, v0, v1

MCGroup == [s \in Signal |-> IF s = y THEN {y} ELSE Signal \ {y}]
MCSignalOf == [b \in DataBp |-> CASE b = b0 -> x0 [] b = b1 -> x1 [] b = b2 -> y]

\* The signals' values are only compared with each other.
ValueSymmetry == Permutations(Value)
=============================================================================
