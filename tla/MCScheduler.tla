---------------------------- MODULE MCScheduler -----------------------------
(* One breakpoint that clients insert as a normal and as a data breakpoint   *)
(* and that is also the site of an assertion.                                *)
EXTENDS Scheduler, TLC

CONSTANTS a, line1, i1, n1, x, y

MCOrder == <<a>>
MCLoc == [id \in BpId |-> line1]
MCInst == [id \in BpId |-> i1]
MCDbCond == [id \in BpId |-> TrueCond]
MCNsOf == [id \in BpId |-> <<n1>>]
MCAsserts == {<<a, n1>>}
=============================================================================
