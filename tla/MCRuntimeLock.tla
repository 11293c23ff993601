--------------------------- MODULE MCRuntimeLock ----------------------------
(* Two waiting threads (hgdb has one, the simulation thread; the class allows *)
(* more) and the two threads that can call ready().                            *)
EXTENDS RuntimeLock, TLC

CONSTANTS sim1, sim2, server, teardown, nobody

MCWaiters == {sim1, sim2}
MCSetters == {server, teardown}
=============================================================================
