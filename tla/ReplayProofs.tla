---------------------------- MODULE ReplayProofs ----------------------------
(* Proofs about Replay: what a client sees inside a callback, in which order *)
(* the edges of the clocks come, and that a removed callback is not called.  *)
EXTENDS Replay, TLAPS, WellFoundedInduction

-----------------------------------------------------------------------------
(* The inductive invariant                                                  *)

ClockSignals == Signals \cap ClockNames

TypeInv ==
    /\ trace \in Traces
    /\ ts \in 0 .. TimeMod - 1 /\ now \in 0 .. TimeMod - 1
    /\ requests \in Nat /\ reached \in Nat /\ time \in Nat
    /\ pc \in {"start", "loop", "fire", "eval", "called", "advance", "done"}

\* The engine watches exactly the signals that have a callback, which is the only
\* one of the signal that is not deleted; no handle is of a request to come.
Consistent(st, n) ==
    /\ st.watched = DOMAIN st.names /\ st.watched \subseteq ClockSignals
    /\ st.deleted \subseteq st.cbs
    /\ \A s \in DOMAIN st.names : st.names[s] \in st.cbs \ st.deleted /\ st.names[s].obj = s
    /\ \A c \in st.cbs \ st.deleted : c.obj \in DOMAIN st.names /\ st.names[c.obj] = c
    /\ \A c \in st.cbs : c.at \in Nat /\ c.at <= n

CallbackInv ==
    /\ Consistent(Client, requests)
    /\ clockHandles \subseteq Signals
    /\ pc = "start" => callbacks = {}

\* The time before p, which wraps.
Before(p) == IF p = 0 THEN TimeMod - 1 ELSE p - 1

InTurn == pc \in {"fire", "eval", "called", "advance"}

\* In a turn of the loop the time is the one before the change that is handled, or
\* the one before the edge that was gone to.
TurnInv ==
    /\ InTurn => /\ now = ts
                 /\ time \in 1 .. TimeMod - 3
                 /\ \E d \in ClockSignals : time \in ChangesOf(d)
                 /\ DOMAIN changed \subseteq ClockSignals
                 /\ \A h \in DOMAIN changed : changed[h] = ValueAt(h, time)
    /\ pc = "fire" => ts = time - 1
    /\ pc \in {"eval", "called"} => firing \in DOMAIN overridden
    /\ pc = "eval" => /\ inCallback = TRUE
                      /\ overridden[firing] = 1
                      /\ posedge \in 0 .. TimeMod - 3 /\ ts = Before(posedge)
                      /\ posedge = time \/ \E s \in Signals : posedge \in PosedgesOf(s)

\* The edges after the last one that was evaluated and before this time are one
\* unit after another change.
Passed(t) ==
    \A c \in watched : \A x \in PosedgesOf(c) :
        reached < x /\ x < t => \E d \in ClockSignals : x - 1 \in ChangesOf(d)

\* The edges at the time of the turn will still fire.
ToFire ==
    \A c \in watched : time \in PosedgesOf(c) /\ reached < time => c \in DOMAIN changed

Forward == pc = "fire" \/ (pc \in {"called", "advance"} /\ ts = time - 1)
Rewound == pc \in {"called", "advance"} /\ ts # time - 1

OrderInv ==
    /\ pc = "start" => reached = ts
    /\ pc = "loop" => reached <= ts /\ Passed(ts + 1)
    /\ Forward => reached <= time /\ Passed(time) /\ ToFire
    /\ pc = "fire" /\ DOMAIN overridden = {} => reached < time
    /\ Rewound => reached \in 0 .. TimeMod - 3 /\ ts = Before(reached)
    /\ pc = "advance" /\ ts = time - 1 => DOMAIN changed = {}

Inv == TypeInv /\ CallbackInv /\ TurnInv /\ OrderInv

-----------------------------------------------------------------------------
(* Times                                                                    *)

\* Time wraps below 0 only.
LEMMA WrapTime ==
  ASSUME NEW p \in 0 .. TimeMod - 1
  PROVE  /\ Before(p) \in 0 .. TimeMod - 1
         /\ (p - 1) % TimeMod = Before(p)
         /\ (Before(p) + 1) % TimeMod = p
         /\ p % TimeMod = p
  <1>1. TimeMod \in Nat /\ TimeMod > 0
    BY ReplayAssumption
  <1>2. \A a \in Nat : a < TimeMod => a % TimeMod = a
    BY <1>1
  <1>3. (-1) % TimeMod = TimeMod - 1
    BY <1>1
  <1>4. TimeMod % TimeMod = 0
    BY <1>1
  <1>5. CASE p = 0
    BY <1>1, <1>2, <1>3, <1>4, <1>5 DEF Before
  <1>6. CASE p # 0
    BY <1>1, <1>2, <1>6 DEF Before
  <1> QED BY <1>5, <1>6

\* A set of natural numbers has a least element, and a greatest if it is bounded.
LEMMA LeastOf ==
  ASSUME NEW S \in SUBSET Nat, S # {}
  PROVE  \E x \in S : \A y \in S : x <= y
  <1> DEFINE R == {p \in Nat \X Nat : p[1] < p[2]}
  <1>1. IsWellFoundedOn(R, Nat)
    BY NatLessThanWellFounded, Zenon DEF OpToRel
  <1>2. \A x, y \in Nat : y < x => <<y, x>> \in R
    OBVIOUS
  <1> HIDE DEF R
  <1>3. PICK x \in S : \A y \in S : ~ (<<y, x>> \in R)
    BY <1>1, WFMin
  <1>4. \A y \in S : ~ (y < x)
    BY <1>2, <1>3
  <1>5. \A y \in S : x <= y
    BY <1>4
  <1> QED BY <1>5, Zenon

LEMMA MinOf ==
  ASSUME NEW S \in SUBSET Nat, S # {}
  PROVE  Min(S) \in S /\ \A y \in S : Min(S) <= y
  <1>1. \E x \in S : \A y \in S : x <= y
    BY LeastOf
  <1> QED BY <1>1, Zenon DEF Min

LEMMA MaxOf ==
  ASSUME NEW n \in Nat, NEW S \in SUBSET (0 .. n), S # {}
  PROVE  Max(S) \in S /\ \A y \in S : Max(S) >= y
  <1> DEFINE D == {n - x : x \in S}
  <1>0. \A x \in S : x \in 0 .. n
    OBVIOUS
  <1>1. D \in SUBSET Nat
    BY <1>0
  <1>2. D # {}
    OBVIOUS
  <1>3. PICK d \in D : \A e \in D : d <= e
    <2> HIDE DEF D
    <2> QED BY <1>1, <1>2, LeastOf
  <1>4. PICK x \in S : d = n - x
    BY <1>3
  <1>5. \A y \in S : x >= y
    <2> TAKE y \in S
    <2>1. n - y \in D
      OBVIOUS
    <2> HIDE DEF D
    <2> QED BY <1>0, <1>3, <1>4, <2>1
  <1> QED BY <1>5, Zenon DEF Max

-----------------------------------------------------------------------------
(* The trace                                                                *)

\* The changes of a trace are at times that have two times after them.
LEMMA TraceTimes ==
  ASSUME trace \in Traces, NEW s \in Signals
  PROVE  ChangesOf(s) \subseteq 0 .. TimeMod - 3
  BY ReplayAssumption DEF Signals, ChangesOf

\* A clock is 0 or 1 at any time, and 1 where it rises.
LEMMA ClockValue ==
  ASSUME trace \in Traces, NEW c \in ClockSignals, NEW t \in Nat
  PROVE  /\ ValueAt(c, t) \in {0, 1}
         /\ t \in PosedgesOf(c) => ValueAt(c, t) = 1
  <1> DEFINE past == {x \in DOMAIN trace[c] : x <= t}
  <1>1. c \in Signals /\ ChangesOf(c) \subseteq 0 .. TimeMod - 3
    BY TraceTimes DEF ClockSignals
  <1>2. \A x \in DOMAIN trace[c] : trace[c][x] \in {0, 1}
    BY ReplayAssumption DEF ClockSignals, Signals
  <1>3. past \in SUBSET (0 .. t) /\ past \subseteq DOMAIN trace[c]
    BY <1>1 DEF ChangesOf
  <1>4. t \in PosedgesOf(c) => t \in past /\ trace[c][t] = 1
    BY DEF PosedgesOf, ChangesOf
  <1>5. ValueAt(c, t) = IF past = {} THEN 0 ELSE trace[c][Max(past)]
    BY DEF ValueAt
  <1> HIDE DEF past
  <1>6. past # {} => Max(past) \in past /\ \A y \in past : Max(past) >= y
    BY <1>3, MaxOf
  <1>7. ASSUME t \in past PROVE Max(past) = t
    <2>1. Max(past) \in 0 .. t /\ Max(past) >= t
      BY <1>3, <1>6, <1>7
    <2> QED BY <2>1
  <1> QED BY <1>2, <1>3, <1>4, <1>5, <1>6, <1>7

\* The next change is of a watched clock, after the current time, and no watched
\* clock changes before it.
LEMMA NextChange ==
  ASSUME TypeInv, watched \subseteq ClockSignals, NextChanges(ts) # {}
  PROVE  LET t == Min(NextChanges(ts))
         IN  /\ t \in 1 .. TimeMod - 3 /\ t > ts
             /\ \E d \in ClockSignals : t \in ChangesOf(d)
             /\ \A c \in watched : \A x \in ChangesOf(c) : x > ts => t <= x
  <1>1. \A x : x \in NextChanges(ts) <=> \E c \in watched : x \in ChangesOf(c) /\ x > ts
    BY DEF NextChanges, ChangesOf
  <1>2. \A c \in watched : ChangesOf(c) \subseteq 0 .. TimeMod - 3
    BY TraceTimes DEF TypeInv, ClockSignals
  <1>3. NextChanges(ts) \in SUBSET Nat
    BY <1>1, <1>2
  <1> DEFINE t == Min(NextChanges(ts))
  <1>4. t \in NextChanges(ts) /\ \A y \in NextChanges(ts) : t <= y
    BY <1>3, MinOf
  <1> HIDE DEF t
  <1>5. PICK d \in watched : t \in ChangesOf(d) /\ t > ts
    BY <1>1, <1>4
  <1>6. t \in 1 .. TimeMod - 3
    BY <1>2, <1>5 DEF TypeInv
  <1>7. \A c \in watched : \A x \in ChangesOf(c) : x > ts => t <= x
    BY <1>1, <1>4
  <1> QED BY <1>5, <1>6, <1>7 DEF t

\* The edge that a request goes to is an edge of a clock.
LEMMA PrevPosedge ==
  ASSUME TypeInv, clockHandles \subseteq Signals, NEW t, PrevPosedges(clockHandles, t) # {}
  PROVE  LET p == Max(PrevPosedges(clockHandles, t))
         IN  p \in 0 .. TimeMod - 3 /\ \E s \in Signals : p \in PosedgesOf(s)
  <1> DEFINE P == PrevPosedges(clockHandles, t)
  <1>1. \A x \in P : \E s \in Signals : x \in PosedgesOf(s)
    BY DEF PrevPosedges, PosedgesOf, ChangesOf
  <1>2. P \in SUBSET (0 .. TimeMod - 3)
    BY <1>1, TraceTimes DEF TypeInv, PosedgesOf
  <1>3. P # {}
    OBVIOUS
  <1> HIDE DEF P
  <1>4. TimeMod - 3 \in Nat
    <2>1. PICK x \in P : x \in 0 .. TimeMod - 3
      BY <1>2, <1>3
    <2>2. TimeMod \in Nat
      BY ReplayAssumption
    <2> QED BY <2>1, <2>2
  <1>5. Max(P) \in P
    BY <1>2, <1>3, <1>4, MaxOf
  <1> QED BY <1>1, <1>2, <1>5 DEF P

-----------------------------------------------------------------------------
(* Callbacks                                                                *)

\* New callbacks are of signals that have none, and their handles are new.
LEMMA RegisterConsistent ==
  ASSUME NEW st, NEW n \in Nat, NEW S \in SUBSET ClockSignals, Consistent(st, n),
         \A c \in st.cbs : c.at # n
  PROVE  Consistent(RegisterCbs(st, S, n), n)
  <1> DEFINE r == RegisterCbs(st, S, n)
             new == S \ DOMAIN st.names
  <1>1. \A s \in new : Handle(s, n).obj = s /\ Handle(s, n).at = n
    BY DEF Handle
  <1>2. /\ DOMAIN r.names = DOMAIN st.names \cup S
        /\ \A s \in DOMAIN r.names : r.names[s] = IF s \in new THEN Handle(s, n) ELSE st.names[s]
        /\ r.cbs = st.cbs \cup {Handle(s, n) : s \in new}
        /\ r.deleted = st.deleted /\ r.watched = st.watched \cup new
    BY DEF RegisterCbs
  <1> HIDE DEF r
  <1>3. r.watched = DOMAIN r.names /\ r.watched \subseteq ClockSignals /\ r.deleted \subseteq r.cbs
    BY <1>2 DEF Consistent
  <1>4. \A s \in DOMAIN r.names : r.names[s] \in r.cbs \ r.deleted /\ r.names[s].obj = s
    BY <1>1, <1>2 DEF Consistent
  <1>5. ASSUME NEW c \in r.cbs \ r.deleted
        PROVE  c.obj \in DOMAIN r.names /\ r.names[c.obj] = c
    BY <1>1, <1>2 DEF Consistent
  <1>6. \A c \in r.cbs : c.at \in Nat /\ c.at <= n
    BY <1>1, <1>2 DEF Consistent
  <1> QED BY <1>3, <1>4, <1>5, <1>6 DEF Consistent, r

\* Removed callbacks are deleted, and their signals no longer watched.
LEMMA RemoveConsistent ==
  ASSUME NEW st, NEW n \in Nat, NEW S, Consistent(st, n)
  PROVE  Consistent(RemoveCbs(st, S), n)
  <1> DEFINE r == RemoveCbs(st, S)
             gone == {st.names[s] : s \in S \cap DOMAIN st.names}
  <1>1. /\ DOMAIN r.names = DOMAIN st.names \ S
        /\ \A s \in DOMAIN r.names : r.names[s] = st.names[s]
        /\ r.cbs = st.cbs /\ r.deleted = st.deleted \cup gone
        /\ r.watched = st.watched \ {c.obj : c \in gone}
    BY DEF RemoveCbs
  <1>2. {c.obj : c \in gone} = S \cap DOMAIN st.names
    BY DEF Consistent
  <1>3. \A s \in DOMAIN r.names : st.names[s] \notin gone
    BY <1>1 DEF Consistent
  <1> HIDE DEF r
  <1>4. r.watched = DOMAIN r.names /\ r.watched \subseteq ClockSignals /\ r.deleted \subseteq r.cbs
    BY <1>1, <1>2 DEF Consistent
  <1>5. \A s \in DOMAIN r.names : r.names[s] \in r.cbs \ r.deleted /\ r.names[s].obj = s
    BY <1>1, <1>3 DEF Consistent
  <1>6. ASSUME NEW c \in r.cbs \ r.deleted
        PROVE  c.obj \in DOMAIN r.names /\ r.names[c.obj] = c
    BY <1>1 DEF Consistent
  <1>7. \A c \in r.cbs : c.at \in Nat /\ c.at <= n
    BY <1>1 DEF Consistent
  <1> QED BY <1>4, <1>5, <1>6, <1>7 DEF Consistent, r

\* What monitor_signals leaves behind is consistent, whether all names are signals
\* or not.
LEMMA MonitorConsistent ==
  ASSUME NEW names \in Clocks, NEW n \in Nat, Consistent(Client, n), \A c \in callbacks : c.at # n
  PROVE  Consistent(MonitorSignals(names, n), n)
  <1> DEFINE valid == {i \in DOMAIN names : \A j \in 1 .. i : names[j] \in Signals}
             added == {names[i] : i \in valid}
             st    == RegisterCbs(Client, added, n)
  <1>1. DOMAIN names = 1 .. Len(names)
    BY ReplayAssumption
  <1>2. \A i \in valid : names[i] \in Signals
    <2> TAKE i \in valid
    <2>1. i \in 1 .. i
      BY <1>1
    <2> QED BY <2>1
  <1>3. \A i \in DOMAIN names : names[i] \in ClockNames
    <2>1. ToSet(names) = {names[i] : i \in DOMAIN names}
      BY DEF ToSet
    <2> QED BY <2>1 DEF ClockNames
  <1>4. added \in SUBSET ClockSignals
    BY <1>2, <1>3 DEF ClockSignals
  <1>5. \A c \in Client.cbs : c.at # n
    BY DEF Client
  <1> HIDE DEF added, valid
  <1>6. Consistent(st, n)
    BY <1>4, <1>5, RegisterConsistent
  <1>7. Consistent(RemoveCbs(st, added), n)
    BY <1>6, RemoveConsistent
  <1>8. MonitorSignals(names, n) = IF valid = DOMAIN names THEN st ELSE RemoveCbs(st, added)
    BY DEF MonitorSignals, valid, added
  <1> QED BY <1>6, <1>7, <1>8

\* The records that SetClient is given.
LEMMA ClientRecord ==
  ASSUME NEW st, NEW S, NEW n, NEW names \in Clocks,
         \/ st = MonitorSignals(names, n) 
         \/ st = RemoveCbs(Client, S),
         SetClient(st)
  PROVE  Client' = st
  <1>1. \E N, C, D, W : st = [names |-> N, cbs |-> C, deleted |-> D, watched |-> W]
    BY Zenon DEF MonitorSignals, RegisterCbs, RemoveCbs
  <1> QED BY <1>1 DEF SetClient, Client

\* A step that leaves the callbacks alone and is not to the start keeps them
\* consistent.
LEMMA CallbacksKept ==
  ASSUME CallbackInv, trace' = trace, UNCHANGED clientVars, requests \in Nat,
         requests' \in {requests, requests + 1}, pc' # "start"
  PROVE  CallbackInv'
  <1>1. Client' = Client
    BY DEF Client, clientVars
  <1>2. Consistent(Client, requests')
    BY DEF CallbackInv, Consistent
  <1>3. Consistent(Client, requests)'
    BY <1>1, <1>2 DEF Consistent, ClockSignals, Signals
  <1> QED BY <1>3 DEF CallbackInv, clientVars, Signals

\* A connection leaves consistent callbacks behind.
LEMMA ConnectConsistent ==
  ASSUME NEW names \in Clocks, ConnectClocks(names, requests'), trace' = trace, pc' # "start",
         requests' \in Nat, CallbackInv, 
         \/ callbacks = {} /\ requests' = requests
         \/ requests \in Nat /\ requests' = requests + 1
  PROVE  CallbackInv'
  <1>1. Consistent(Client, requests') /\ \A c \in callbacks : c.at # requests'
    BY DEF CallbackInv, Consistent, Client
  <1>2. Consistent(MonitorSignals(names, requests'), requests')
    BY <1>1, MonitorConsistent
  <1>3. Client' = MonitorSignals(names, requests')
    BY ClientRecord DEF ConnectClocks
  <1>4. Consistent(Client, requests)'
    BY <1>2, <1>3 DEF Consistent, ClockSignals, Signals
  <1>5. clockHandles' \subseteq Signals'
    BY DEF ConnectClocks, Signals
  <1> QED BY <1>4, <1>5 DEF CallbackInv

-----------------------------------------------------------------------------
(* The invariant is inductive                                               *)

\* The replay begins with no callback and no turn.
LEMMA InitInv ==
  ASSUME Init
  PROVE  Inv
  <1>1. TypeInv
    BY ReplayAssumption DEF Init, TypeInv
  <1>2. CallbackInv
    BY DEF Init, CallbackInv, Consistent, Client
  <1>3. TurnInv
    BY DEF Init, TurnInv, InTurn
  <1>4. OrderInv
    BY <1>1 DEF Init, OrderInv, Forward, Rewound
  <1> QED BY <1>1, <1>2, <1>3, <1>4 DEF Inv

\* At the start nothing was evaluated before the time the replay begins at.
LEMMA StartInv ==
  ASSUME Inv, Start
  PROVE  Inv'
  <1> USE DEF Inv
  <1>1. TypeInv'
    BY DEF TypeInv, Start
  <1>2. PICK names \in Clocks : ConnectClocks(names, requests)
    BY DEF Start
  <1>3. CallbackInv'
    <2>1. requests' = requests /\ requests \in Nat /\ callbacks = {} /\ trace' = trace /\ pc' # "start"
      BY DEF Start, TypeInv, CallbackInv
    <2>2. ConnectClocks(names, requests')
      BY <1>2, <2>1
    <2> QED BY <2>1, <2>2, ConnectConsistent
  <1>4. TurnInv'
    BY DEF TurnInv, Start, InTurn
  <1>5. OrderInv'
    <2>1. reached' = ts' /\ ts' \in Nat
      BY DEF Start, OrderInv, TypeInv
    <2>2. Passed(ts + 1)'
      <3> SUFFICES ASSUME NEW c \in watched', NEW x \in PosedgesOf(c)', reached' < x, x < ts' + 1
                   PROVE  FALSE
        BY DEF Passed
      <3>1. c \in Signals'
        BY <1>3 DEF CallbackInv, Consistent, Client, ClockSignals
      <3>2. x \in Nat
        BY <1>1, <3>1, ReplayAssumption DEF TypeInv, Signals, PosedgesOf, ChangesOf
      <3>3. \A a, b \in Nat : ~ (a < b /\ b < a + 1)
        OBVIOUS
      <3>4. ts' < x /\ x < ts' + 1
        BY <2>1, Zenon
      <3> QED BY <2>1, <3>2, <3>3, <3>4, Zenon
    <2> QED BY <2>1, <2>2 DEF Start, OrderInv, Forward, Rewound
  <1> QED BY <1>1, <1>3, <1>4, <1>5

\* The next change is the first of a watched clock after the time, so no edge lies
\* between them.
LEMMA ScheduleInv ==
  ASSUME Inv, Schedule
  PROVE  Inv'
  <1> USE DEF Inv
  <1>0. watched \subseteq ClockSignals
    BY DEF CallbackInv, Consistent, Client
  <1>1. /\ time' \in 1 .. TimeMod - 3 /\ time' > ts
        /\ \E d \in ClockSignals : time' \in ChangesOf(d)
        /\ \A c \in watched : \A x \in ChangesOf(c) : x > ts => time' <= x
    BY <1>0, NextChange DEF Schedule
  <1>2. TimeMod \in Nat
    BY ReplayAssumption
  <1>3. ts' = time' - 1 /\ now' = time' - 1
    <2>1. (time' - 1) % TimeMod = Before(time')
      BY <1>1, <1>2, WrapTime
    <2> QED BY <1>1, <2>1 DEF Schedule, ChangeTime, Before
  <1>4. TypeInv'
    BY <1>1, <1>2, <1>3 DEF TypeInv, Schedule
  <1>5. CallbackInv'
    BY CallbacksKept DEF Schedule, TypeInv
  <1>6. trace' = trace /\ watched' = watched /\ reached' = reached /\ pc = "loop" /\ pc' = "fire"
    BY DEF Schedule, clientVars
  <1>7. changed' = [h \in watched |-> ValueAt(h, time')]
    BY DEF Schedule
  <1>8. TurnInv'
    <2>1. (\E d \in ClockSignals : time \in ChangesOf(d))'
      BY <1>1, <1>6 DEF ClockSignals, Signals, ChangesOf
    <2>2. (DOMAIN changed \subseteq ClockSignals)'
      BY <1>0, <1>6, <1>7 DEF ClockSignals, Signals
    <2>3. (\A h \in DOMAIN changed : changed[h] = ValueAt(h, time))'
      BY <1>6, <1>7, Zenon DEF ValueAt
    <2> QED BY <1>1, <1>3, <1>6, <2>1, <2>2, <2>3 DEF TurnInv
  <1>9. reached < time'
    BY <1>1, <1>6 DEF OrderInv, TypeInv
  <1>10. Passed(time)'
    <2> SUFFICES ASSUME NEW c \in watched', NEW x \in PosedgesOf(c)', reached' < x, x < time'
                 PROVE  (\E d \in ClockSignals : x - 1 \in ChangesOf(d))'
      BY DEF Passed
    <2>1. c \in watched /\ x \in PosedgesOf(c) /\ x \in ChangesOf(c) /\ reached < x
      BY <1>6 DEF PosedgesOf, ChangesOf
    <2>2. x \in Nat
      BY <1>0, <2>1, TraceTimes DEF TypeInv, ClockSignals
    <2>3. x < ts + 1
      BY <1>1, <1>6, <2>1, <2>2 DEF TypeInv
    <2>4. \E d \in ClockSignals : x - 1 \in ChangesOf(d)
      BY <1>6, <2>1, <2>3 DEF OrderInv, Passed
    <2> QED BY <1>6, <2>4 DEF ClockSignals, Signals, ChangesOf
  <1>11. ToFire'
    BY <1>6, <1>7 DEF ToFire
  <1>12. OrderInv'
    BY <1>1, <1>6, <1>9, <1>10, <1>11 DEF OrderInv, Forward, Rewound, TypeInv
  <1> QED BY <1>4, <1>5, <1>8, <1>12

\* The end of the trace.
LEMMA EndInv ==
  ASSUME Inv, EndOfTrace
  PROVE  Inv'
  <1> USE DEF Inv
  <1>1. TypeInv'
    BY DEF TypeInv, EndOfTrace
  <1>2. CallbackInv'
    BY CallbacksKept DEF EndOfTrace, TypeInv
  <1>3. TurnInv' /\ OrderInv'
    BY DEF EndOfTrace, TurnInv, InTurn, OrderInv, Forward, Rewound
  <1> QED BY <1>1, <1>2, <1>3

\* A callback of a watched clock that rises leads to an evaluation: the edges of
\* the turn that are not evaluated are still to fire.
LEMMA FireInv ==
  ASSUME Inv, NEW h \in Signals, Fire(h)
  PROVE  Inv'
  <1> USE DEF Inv
  <1>0. watched \subseteq ClockSignals
    BY DEF CallbackInv, Consistent, Client
  <1>1. /\ pc = "fire" /\ h \in DOMAIN changed /\ InTurn /\ Forward
        /\ trace' = trace /\ watched' = watched /\ reached' = reached /\ time' = time
        /\ ts' = ts /\ now' = now /\ inCallback' = TRUE /\ firing' = h
    BY DEF Fire, clientVars, InTurn, Forward
  <1>2. /\ DOMAIN overridden' = DOMAIN overridden \cup {h} /\ overridden'[h] = changed[h]
        /\ DOMAIN changed' = DOMAIN changed \ {h}
        /\ \A x \in DOMAIN changed' : changed'[x] = changed[x]
    BY DEF Fire
  <1>3. \/ pc' = "eval" /\ posedge' = time /\ changed[h] # 0
        \/ pc' = "called" /\ ~ (changed[h] # 0 /\ \E c \in callbacks \ deleted : c.obj = h)
    BY DEF Fire
  <1>4. TypeInv'
    BY <1>3 DEF TypeInv, Fire
  <1>5. CallbackInv'
    BY <1>3, CallbacksKept DEF Fire, TypeInv
  <1>6. /\ ts = time - 1 /\ now = ts /\ time \in 1 .. TimeMod - 3
        /\ \E d \in ClockSignals : time \in ChangesOf(d)
        /\ DOMAIN changed \subseteq ClockSignals
        /\ \A x \in DOMAIN changed : changed[x] = ValueAt(x, time)
    BY <1>1 DEF TurnInv
  <1>7. h \in ClockSignals /\ changed[h] = ValueAt(h, time)
    BY <1>1, <1>6
  <1>8. changed[h] \in {0, 1} /\ (time \in PosedgesOf(h) => changed[h] = 1)
    BY <1>6, <1>7, ClockValue DEF TypeInv
  <1>9. TurnInv'
    <2>1. (\E d \in ClockSignals : time \in ChangesOf(d))'
      BY <1>1, <1>6 DEF ClockSignals, Signals, ChangesOf
    <2>2. (DOMAIN changed \subseteq ClockSignals)'
      BY <1>1, <1>2, <1>6 DEF ClockSignals, Signals
    <2>3. (\A x \in DOMAIN changed : changed[x] = ValueAt(x, time))'
      BY <1>1, <1>2, <1>6, Zenon DEF ValueAt
    <2>4. ts = Before(time) /\ time \in 0 .. TimeMod - 3
      BY <1>6 DEF Before
    <2>5. (/\ inCallback = TRUE
           /\ firing \in DOMAIN overridden
           /\ now = ts /\ time \in 1 .. TimeMod - 3)'
      BY <1>1, <1>2, <1>6
    <2>6. CASE pc' = "eval" /\ posedge' = time /\ changed[h] # 0
      <3>1. overridden'[firing'] = 1
        BY <1>1, <1>2, <1>8, <2>6
      <3>2. posedge' \in 0 .. TimeMod - 3 /\ ts' = Before(posedge') /\ posedge' = time'
        BY <1>1, <2>4, <2>6
      <3> QED BY <2>1, <2>2, <2>3, <2>5, <2>6, <3>1, <3>2 DEF TurnInv, Before
    <2>7. CASE pc' = "called"
      BY <2>1, <2>2, <2>3, <2>5, <2>7 DEF TurnInv
    <2> QED BY <1>3, <2>6, <2>7
  <1>10. reached <= time /\ Passed(time) /\ ToFire
    BY <1>1 DEF OrderInv
  <1>11. ASSUME pc' = "called" PROVE ToFire'
    <2> SUFFICES ASSUME NEW c \in watched', (time \in PosedgesOf(c))', (reached < time)'
                 PROVE  c \in DOMAIN changed'
      BY DEF ToFire
    <2>1. c \in watched /\ time \in PosedgesOf(c) /\ reached < time
      BY <1>1 DEF PosedgesOf, ChangesOf
    <2>2. c \in DOMAIN changed
      BY <1>10, <2>1 DEF ToFire
    <2>3. c # h
      <3>1. SUFFICES ASSUME c = h PROVE FALSE
        OBVIOUS
      <3>2. h \in DOMAIN cbHandles /\ cbHandles[h] \in callbacks \ deleted /\ cbHandles[h].obj = h
        BY <2>1, <3>1 DEF CallbackInv, Consistent, Client
      <3>3. changed[h] = 1
        BY <1>8, <2>1, <3>1
      <3> QED BY <1>3, <1>11, <3>2, <3>3
    <2> QED BY <1>2, <2>2, <2>3
  <1>12. Passed(time)'
    <2> SUFFICES ASSUME NEW c \in watched', NEW x \in PosedgesOf(c)', reached' < x, x < time'
                 PROVE  (\E d \in ClockSignals : x - 1 \in ChangesOf(d))'
      BY DEF Passed
    <2>1. c \in watched /\ x \in PosedgesOf(c) /\ reached < x /\ x < time
      BY <1>1 DEF PosedgesOf, ChangesOf
    <2>2. \E d \in ClockSignals : x - 1 \in ChangesOf(d)
      BY <1>10, <2>1 DEF Passed
    <2> QED BY <1>1, <2>2 DEF ClockSignals, Signals, ChangesOf
  <1>13. OrderInv'
    <2>1. CASE pc' = "eval"
      BY <2>1 DEF OrderInv, Forward, Rewound
    <2>2. CASE pc' = "called"
      BY <1>1, <1>6, <1>10, <1>11, <1>12, <2>2 DEF OrderInv, Forward, Rewound
    <2> QED BY <1>3, <2>1, <2>2
  <1> QED BY <1>4, <1>5, <1>9, <1>13

\* The evaluation ends at the edge it was at, or at the one it went to.
LEMMA ReturnInv ==
  ASSUME Inv, Return
  PROVE  Inv'
  <1> USE DEF Inv
  <1>1. /\ pc = "eval" /\ pc' = "called" /\ reached' = posedge
        /\ trace' = trace /\ ts' = ts /\ now' = now /\ time' = time /\ changed' = changed
    BY DEF Return
  <1>2. /\ now = ts /\ time \in 1 .. TimeMod - 3
        /\ \E d \in ClockSignals : time \in ChangesOf(d)
        /\ DOMAIN changed \subseteq ClockSignals
        /\ \A h \in DOMAIN changed : changed[h] = ValueAt(h, time)
        /\ posedge \in 0 .. TimeMod - 3 /\ ts = Before(posedge)
    BY <1>1 DEF TurnInv, InTurn
  <1>3. TypeInv'
    BY <1>1, <1>2 DEF TypeInv, Return
  <1>4. CallbackInv'
    BY <1>1, CallbacksKept DEF Return, TypeInv
  <1>5. TurnInv'
    BY <1>1, <1>2 DEF TurnInv, ClockSignals, Signals, ChangesOf, ValueAt, Return
  <1>6. ts = time - 1 => posedge = time
    <2>1. TimeMod \in Nat
      BY ReplayAssumption
    <2> QED BY <1>2, <2>1 DEF Before
  <1>7. ASSUME posedge = time PROVE (Passed(time) /\ ToFire)'
    <2>1. watched' \subseteq Signals' /\ trace' \in Traces
      BY <1>3, <1>4 DEF CallbackInv, Consistent, Client, ClockSignals, TypeInv
    <2>2. \A c \in watched' : \A x \in PosedgesOf(c)' : x \in Nat
      BY <2>1, ReplayAssumption DEF Signals, PosedgesOf, ChangesOf
    <2>3. \A a, b \in Nat : ~ (a < b /\ b < a)
      OBVIOUS
    <2>4. reached' = time' /\ time' \in Nat
      BY <1>1, <1>3, <1>7 DEF TypeInv
    <2>5. \A x \in Nat : ~ (reached' < x /\ x < time')
      BY <2>3, <2>4, Zenon
    <2>6. ~ (reached' < time')
      BY <2>4
    <2> QED BY <2>2, <2>5, <2>6, Zenon DEF Passed, ToFire
  <1>8. OrderInv'
    BY <1>1, <1>2, <1>6, <1>7 DEF OrderInv, Forward, Rewound, Before
  <1> QED BY <1>3, <1>4, <1>5, <1>8

\* After a callback.
LEMMA AfterCallbackInv ==
  ASSUME Inv, AfterCallback
  PROVE  Inv'
  <1> USE DEF Inv
  <1>1. /\ pc = "called" /\ pc' = IF ts # time - 1 \/ DOMAIN changed = {} THEN "advance" ELSE "fire"
        /\ trace' = trace /\ ts' = ts /\ now' = now /\ time' = time /\ changed' = changed
        /\ reached' = reached /\ watched' = watched /\ overridden' = overridden
    BY DEF AfterCallback, clientVars
  <1>2. TypeInv'
    BY <1>1 DEF TypeInv, AfterCallback
  <1>3. CallbackInv'
    BY <1>1, CallbacksKept DEF AfterCallback, TypeInv
  <1>4. TurnInv'
    BY <1>1 DEF TurnInv, InTurn, ClockSignals, Signals, ChangesOf, ValueAt
  <1>5. Passed(time) => Passed(time)'
    BY <1>1 DEF Passed, ClockSignals, Signals, ChangesOf, PosedgesOf
  <1>6. ToFire => ToFire'
    BY <1>1 DEF ToFire, ChangesOf, PosedgesOf
  <1>7. DOMAIN overridden' # {}
    BY <1>1 DEF TurnInv
  <1>8. OrderInv'
    BY <1>1, <1>5, <1>6, <1>7 DEF OrderInv, Forward, Rewound, Before
  <1> QED BY <1>2, <1>3, <1>4, <1>8

\* The turn ends one unit after the change, or at the edge that was gone to: an edge
\* that is passed over comes one unit after the change.
LEMMA AdvanceInv ==
  ASSUME Inv, Advance
  PROVE  Inv'
  <1> USE DEF Inv
  <1>1. /\ pc = "advance" /\ pc' = "loop" /\ time' = time
        /\ trace' = trace /\ reached' = reached /\ watched' = watched
    BY DEF Advance, clientVars
  <1>2. time \in 1 .. TimeMod - 3 /\ \E d \in ClockSignals : time \in ChangesOf(d)
    BY <1>1 DEF TurnInv, InTurn
  <1>3. TimeMod \in Nat
    BY ReplayAssumption
  <1>4. \A c \in watched : \A x \in PosedgesOf(c) : x \in Nat
    <2>1. \A c \in watched : ChangesOf(c) \subseteq 0 .. TimeMod - 3
      BY TraceTimes DEF CallbackInv, Consistent, Client, ClockSignals, TypeInv
    <2> QED BY <2>1 DEF PosedgesOf
  <1>5. ts' \in 0 .. TimeMod - 1 /\ now' \in 0 .. TimeMod - 1 /\ reached' <= ts' /\ Passed(ts + 1)'
    <2>1. CASE ts = time - 1
      <3>1. (time + 1) % TimeMod = time + 1
        BY <1>2, <1>3, WrapTime
      <3>2. ts' = time + 1 /\ now' = time + 1
        BY <2>1, <3>1 DEF Advance, ChangeTime
      <3>3. reached <= time /\ Passed(time) /\ ToFire /\ DOMAIN changed = {}
        BY <1>1, <2>1 DEF OrderInv, Forward
      <3>4. ASSUME NEW c \in watched, NEW x \in PosedgesOf(c), reached < x, x < time + 2
            PROVE  \E d \in ClockSignals : x - 1 \in ChangesOf(d)
        <4>1. x \in Nat /\ time \in Nat
          BY <1>2, <1>4
        <4>2. CASE x < time
          BY <3>3, <3>4, <4>2 DEF Passed
        <4>3. CASE x = time
          BY <3>3, <3>4, <4>3 DEF ToFire
        <4>4. CASE x = time + 1
          BY <1>2, <4>1, <4>4
        <4> QED BY <3>4, <4>1, <4>2, <4>3, <4>4
      <3>5. ts' \in 0 .. TimeMod - 1 /\ now' \in 0 .. TimeMod - 1 /\ reached' <= ts' /\ ts' + 1 = time + 2
        BY <1>1, <1>2, <1>3, <3>2, <3>3 DEF TypeInv
      <3>6. Passed(ts + 1)'
        BY <1>1, <3>4, <3>5 DEF Passed, ClockSignals, Signals, ChangesOf, PosedgesOf
      <3> QED BY <3>5, <3>6
    <2>2. CASE ts # time - 1
      <3>1. reached \in 0 .. TimeMod - 3 /\ ts = Before(reached)
        BY <1>1, <2>2 DEF OrderInv, Rewound
      <3>2. ts' = reached /\ now' = now
        BY <1>3, <2>2, <3>1, WrapTime DEF Advance
      <3>3. ASSUME NEW c \in watched, NEW x \in PosedgesOf(c), reached < x, x < reached + 1
            PROVE  FALSE
        BY <1>4, <3>1, <3>3
      <3>4. Passed(ts + 1)'
        BY <1>1, <3>2, <3>3 DEF Passed, PosedgesOf, ChangesOf
      <3>5. ts' \in 0 .. TimeMod - 1 /\ now' \in 0 .. TimeMod - 1 /\ reached' <= ts'
        BY <1>1, <1>3, <3>1, <3>2 DEF TypeInv
      <3> QED BY <3>4, <3>5
    <2> QED BY <2>1, <2>2
  <1>6. TypeInv'
    BY <1>1, <1>5 DEF TypeInv, Advance
  <1>7. CallbackInv'
    BY <1>1, CallbacksKept DEF Advance, TypeInv
  <1>8. TurnInv' /\ OrderInv'
    BY <1>1, <1>5 DEF TurnInv, InTurn, OrderInv, Forward, Rewound
  <1> QED BY <1>6, <1>7, <1>8

\* A request keeps the evaluation under way, at the edge it is at or at the one it
\* goes to; where the replay stands relative to the edges is asked when it returns.
LEMMA RequestInv ==
  ASSUME Inv, pc = "eval", CallbackInv', requests' = requests + 1,
         UNCHANGED <<trace, inCallback, overridden, pc, time, changed, firing, reached>>,
         \/ UNCHANGED <<ts, now, posedge>>
         \/ \E t : Rewind(t)
  PROVE  Inv'
  <1> USE DEF Inv
  <1>1. /\ now = ts /\ time \in 1 .. TimeMod - 3
        /\ posedge \in 0 .. TimeMod - 3 /\ ts = Before(posedge)
        /\ posedge = time \/ \E s \in Signals : posedge \in PosedgesOf(s)
    BY DEF TurnInv, InTurn
  <1>2. /\ now' = ts' /\ ts' \in 0 .. TimeMod - 1
        /\ posedge' \in 0 .. TimeMod - 3 /\ ts' = Before(posedge')
        /\ posedge' = time \/ \E s \in Signals : posedge' \in PosedgesOf(s)
    <2>1. CASE UNCHANGED <<ts, now, posedge>>
      BY <1>1, <2>1 DEF TypeInv
    <2>2. CASE \E t : Rewind(t) /\ PrevPosedges(clockHandles, t) # {}
      <3>1. PICK t : Rewind(t) /\ PrevPosedges(clockHandles, t) # {}
        BY <2>2
      <3> DEFINE p == Max(PrevPosedges(clockHandles, t))
      <3>2. p \in 0 .. TimeMod - 3 /\ \E s \in Signals : p \in PosedgesOf(s)
        BY <3>1, PrevPosedge DEF CallbackInv
      <3>3. ts' = (p - 1) % TimeMod /\ now' = (p - 1) % TimeMod /\ posedge' = p
        BY <3>1 DEF Rewind, ChangeTime
      <3> HIDE DEF p
      <3>4. p \in 0 .. TimeMod - 1
        BY <3>2, ReplayAssumption
      <3>5. (p - 1) % TimeMod = Before(p) /\ Before(p) \in 0 .. TimeMod - 1
        BY <3>4, WrapTime
      <3> QED BY <3>2, <3>3, <3>5
    <2>3. ASSUME NEW t, Rewind(t), PrevPosedges(clockHandles, t) = {}
          PROVE  UNCHANGED <<ts, now, posedge>>
      BY <2>3 DEF Rewind
    <2> QED BY <2>1, <2>2, <2>3
  <1>3. TypeInv'
    BY <1>2 DEF TypeInv
  <1>4. TurnInv'
    <2>1. (/\ InTurn /\ now = ts /\ time \in 1 .. TimeMod - 3
           /\ \E d \in ClockSignals : time \in ChangesOf(d)
           /\ DOMAIN changed \subseteq ClockSignals
           /\ \A h \in DOMAIN changed : changed[h] = ValueAt(h, time))'
      BY <1>2 DEF TurnInv, InTurn, ClockSignals, Signals, ChangesOf, ValueAt
    <2>2. (/\ inCallback = TRUE /\ firing \in DOMAIN overridden /\ overridden[firing] = 1
           /\ posedge \in 0 .. TimeMod - 3 /\ ts = Before(posedge))'
      BY <1>2 DEF TurnInv, Before
    <2>3. (posedge = time \/ \E s \in Signals : posedge \in PosedgesOf(s))'
      BY <1>2 DEF Signals, PosedgesOf, ChangesOf
    <2> QED BY <2>1, <2>2, <2>3 DEF TurnInv
  <1>5. OrderInv'
    BY DEF OrderInv, Forward, Rewound
  <1> QED BY <1>3, <1>4, <1>5

\* Every step keeps the invariant.
LEMMA StepInv ==
  ASSUME Inv, [Next]_vars
  PROVE  Inv'
  <1>1. CASE Start
    BY <1>1, StartInv
  <1>2. CASE Schedule
    BY <1>2, ScheduleInv
  <1>3. CASE EndOfTrace
    BY <1>3, EndInv
  <1>4. CASE Return
    BY <1>4, ReturnInv
  <1>5. CASE AfterCallback
    BY <1>5, AfterCallbackInv
  <1>6. CASE Advance
    BY <1>6, AdvanceInv
  <1>7. CASE \E h \in Signals : Fire(h)
    BY <1>7, FireInv
  <1>8. requests \in Nat /\ CallbackInv
    BY DEF Inv, TypeInv
  <1>9. CASE ReverseLastPosedge
    <2>1. CallbackInv'
      BY <1>8, <1>9, CallbacksKept DEF ReverseLastPosedge, Request
    <2> QED BY <1>9, <2>1, RequestInv DEF ReverseLastPosedge, Request
  <1>10. CASE Jump
    <2>1. CallbackInv'
      BY <1>8, <1>10, CallbacksKept DEF Jump, Request
    <2> QED BY <1>10, <2>1, RequestInv DEF Jump, Request
  <1>11. CASE Connect
    <2>1. PICK names \in Clocks : ConnectClocks(names, requests')
      BY <1>11 DEF Connect
    <2>2. trace' = trace /\ pc' # "start" /\ requests' = requests + 1 /\ requests' \in Nat
      BY <1>8, <1>11 DEF Connect, Request
    <2>3. CallbackInv'
      BY <1>8, <2>1, <2>2, ConnectConsistent
    <2> QED BY <1>11, <2>3, RequestInv DEF Connect, Request
  <1>12. CASE Detach
    <2> DEFINE st == RemoveCbs(Client, DOMAIN cbHandles)
    <2>1. trace' = trace /\ pc' # "start" /\ requests' = requests + 1 /\ clockHandles' = clockHandles
      BY <1>12 DEF Detach, Request
    <2>2. Client' = st
      BY <1>12 DEF Detach, SetClient, Client, RemoveCbs
    <2>3. Consistent(st, requests)
      BY <1>8, RemoveConsistent DEF CallbackInv
    <2> HIDE DEF st
    <2>4. Consistent(st, requests + 1)
      BY <1>8, <2>3 DEF Consistent
    <2>5. Consistent(Client, requests)'
      BY <2>1, <2>2, <2>4 DEF Consistent, ClockSignals, Signals
    <2>6. CallbackInv'
      BY <1>8, <2>1, <2>5 DEF CallbackInv, Signals
    <2> QED BY <1>12, <2>6, RequestInv DEF Detach, Request
  <1>13. CASE FinishSim
    <2>1. CallbackInv'
      BY <1>8, <1>13, CallbacksKept DEF FinishSim, Request
    <2> QED BY <1>13, <2>1, RequestInv DEF FinishSim, Request
  <1>14. CASE UNCHANGED vars
    <2>1. CallbackInv'
      BY <1>14 DEF Inv, CallbackInv, Consistent, Client, ClockSignals, Signals, vars, clientVars
    <2>2. TypeInv'
      BY <1>14 DEF Inv, TypeInv, vars
    <2>3. TurnInv'
      BY <1>14 DEF Inv, TurnInv, InTurn, ClockSignals, Signals, ChangesOf, PosedgesOf, ValueAt,
                   Before, vars
    <2>4. OrderInv'
      BY <1>14 DEF Inv, OrderInv, Forward, Rewound, Before, Passed, ToFire, ClockSignals, Signals,
                   ChangesOf, PosedgesOf, vars, clientVars
    <2> QED BY <2>1, <2>2, <2>3, <2>4 DEF Inv
  <1> QED BY <1>1, <1>2, <1>3, <1>4, <1>5, <1>6, <1>7, <1>9, <1>10, <1>11, <1>12, <1>13, <1>14
          DEF Next

\* The invariant holds in every state of every replay.
LEMMA ReplayInvariant == Spec => []Inv
  BY InitInv, StepInv, PTL DEF Spec

-----------------------------------------------------------------------------
(* The theorems                                                             *)

\* For every trace, every list of clocks and every sequence of requests inside the
\* callbacks, a client sees the design just before the edge it is at: the time is
\* that of the edge and the values are those from before it (emulation_loop and
\* on_rewound, engine.cc; vpi_get_time and vpi_get_value, vpi.cc).
THEOREM ReplayShowsEdge == Spec => []EvalShowsEdge
  <1>1. Inv => EvalShowsEdge
    <2> SUFFICES ASSUME Inv, pc = "eval"
                 PROVE  /\ SimTime = posedge
                        /\ IF posedge = time
                           THEN \E s \in Signals : posedge \in ChangesOf(s) /\ Value(firing) = 1
                           ELSE \E s \in Signals : posedge \in PosedgesOf(s)
                        /\ posedge # 0 =>
                              \A s \in Signals \ DOMAIN overridden :
                                 Value(s) = ValueAt(s, posedge - 1)
      BY DEF EvalShowsEdge
    <2>1. /\ now = ts /\ inCallback = TRUE
          /\ firing \in DOMAIN overridden /\ overridden[firing] = 1
          /\ posedge \in 0 .. TimeMod - 3 /\ ts = Before(posedge)
          /\ posedge = time \/ \E s \in Signals : posedge \in PosedgesOf(s)
          /\ \E d \in ClockSignals : time \in ChangesOf(d)
      BY DEF Inv, TurnInv, InTurn
    <2>2. (Before(posedge) + 1) % TimeMod = posedge
      BY <2>1, ReplayAssumption, WrapTime
    <2>3. SimTime = posedge
      BY <2>1, <2>2 DEF SimTime
    <2>4. Value(firing) = 1
      BY <2>1 DEF Value
    <2>5. ASSUME posedge # 0, NEW s \in Signals \ DOMAIN overridden
          PROVE  Value(s) = ValueAt(s, posedge - 1)
      BY <2>1, <2>5 DEF Value, Before
    <2> QED BY <2>1, <2>3, <2>4, <2>5 DEF ClockSignals
  <1> QED BY <1>1, ReplayInvariant, PTL

\* For every trace and every sequence of requests, running forward calls the
\* debugger at the next edge after the one it was at last; the one edge that can be
\* passed over comes one unit after another change of a clock (emulation_loop,
\* engine.cc:130).
THEOREM ReplayEdgesInOrder == Spec => EdgesInOrder
  <1>1. ASSUME Inv, [Next]_vars
        PROVE  [pc = "fire" /\ pc' = "eval" =>
                  /\ IF DOMAIN overridden = {} THEN reached < time ELSE reached <= time
                  /\ \A c \in watched : \A x \in PosedgesOf(c) :
                        reached < x /\ x < time =>
                            \E d \in Signals \cap ClockNames : x - 1 \in ChangesOf(d)]_vars
    BY <1>1 DEF Inv, OrderInv, Forward, Passed, ClockSignals
  <1> QED BY <1>1, ReplayInvariant, PTL DEF Spec, EdgesInOrder

\* For every trace and every sequence of requests, only a clock that is still
\* monitored makes the debugger evaluate (trigger_cb, vpi.cc:443).
THEOREM ReplayDetachedQuiet == Spec => DetachedIsQuiet
  <1>1. ASSUME Inv, [Next]_vars
        PROVE  [pc = "fire" /\ pc' = "eval" => firing' \in DOMAIN cbHandles]_vars
    <2> SUFFICES ASSUME pc = "fire", pc' = "eval" PROVE firing' \in DOMAIN cbHandles
      OBVIOUS
    <2>1. PICK h \in Signals : Fire(h)
      BY <1>1 DEF Next, vars, Start, Schedule, EndOfTrace, Return, AfterCallback, Advance,
                  ReverseLastPosedge, Jump, Connect, Detach, FinishSim, Request
    <2>2. PICK c \in callbacks \ deleted : c.obj = h
      BY <2>1 DEF Fire
    <2>3. c.obj \in DOMAIN cbHandles
      BY <1>1, <2>2 DEF Inv, CallbackInv, Consistent, Client
    <2> QED BY <2>1, <2>2, <2>3 DEF Fire
  <1> QED BY <1>1, ReplayInvariant, PTL DEF Spec, DetachedIsQuiet
=============================================================================
