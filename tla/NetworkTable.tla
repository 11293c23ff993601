---------------------------- MODULE NetworkTable ----------------------------
(***************************************************************************)
(* A symbol table at the other end of a WebSocket (src/symbol.cc).  Both   *)
(* threads of the debugger query it.  get_resp() sends the request and     *)
(* then receives: each of the two holds the provider's mutex, the pair     *)
(* does not.  The connection has one place for an answer, payload_, which  *)
(* the client's background thread overwrites, and has_message_ is the      *)
(* auto-reset event that RuntimeLock is proved to implement.               *)
(*                                                                         *)
(* The other end answers the requests it gets, in order.                   *)
(***************************************************************************)
EXTENDS Protocol

CONSTANT Thread  \* the threads that query the table

VARIABLES
    query,   \* the request a thread waits for the answer of, if any
    result,  \* what its last get_resp() has returned
    lock,    \* the thread that is inside receive(), if any
    wire,    \* the requests the other end has not answered yet
    payload, \* payload_, if it has been written
    ready,   \* has_message_ is signalled
    overlap  \* history: two threads have been inside get_resp() at once

net == <<query, result, lock, wire, payload, ready, overlap>>

NetInit ==
    /\ query = [t \in Thread |-> None]
    /\ result = [t \in Thread |-> None]
    /\ lock = None
    /\ wire = <<>>
    /\ payload = None
    /\ ready = FALSE
    /\ overlap = FALSE

\* A connection of its own for every table: what the old one had is gone.
Reopen ==
    /\ wire' = <<>>
    /\ payload' = None
    /\ ready' = FALSE
    /\ lock' = None
    /\ UNCHANGED <<query, result, overlap>>

\* get_resp, first half: send()
Send(t, q) ==
    /\ lock = None
    /\ query[t] = None
    /\ query' = [query EXCEPT ![t] = {q}]
    /\ wire' = Append(wire, q)
    /\ overlap' = (overlap \/ \E u \in Thread \ {t} : query[u] # None)
    /\ UNCHANGED <<result, lock, payload, ready>>

\* get_resp, second half: receive() takes the mutex and waits, ...
Lock(t) ==
    /\ query[t] # None
    /\ lock = None
    /\ lock' = {t}
    /\ UNCHANGED <<query, result, wire, payload, ready, overlap>>

\* Mutant: receive() does not wait for the message.
Receive_NoWait(t) ==
    /\ lock = {t}
    /\ result' = [result EXCEPT ![t] =
                    IF payload = None THEN None
                    ELSE SymbolResponse(The(query[t]).type, The(payload))]
    /\ query' = [query EXCEPT ![t] = None]
    /\ lock' = None
    /\ ready' = FALSE
    /\ UNCHANGED <<wire, payload, overlap>>

\* ... and, once there is a message, its payload is parsed as the answer.
Receive(t) ==
    /\ lock = {t}
    /\ ready
    /\ ready' = FALSE
    /\ result' = [result EXCEPT ![t] = SymbolResponse(The(query[t]).type, The(payload))]
    /\ query' = [query EXCEPT ![t] = None]
    /\ lock' = None
    /\ UNCHANGED <<wire, payload, overlap>>

\* The other end answers; on_message stores the answer and signals.
Answer ==
    /\ wire # <<>>
    /\ payload' = {Head(wire)}
    /\ wire' = Tail(wire)
    /\ ready' = TRUE
    /\ UNCHANGED <<query, result, lock, overlap>>
=============================================================================
