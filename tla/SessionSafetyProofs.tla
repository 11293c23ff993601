------------------------- MODULE SessionSafetyProofs -------------------------
(***************************************************************************)
(* A session whose clients keep to what the code relies on meets no null   *)
(* pointer and no freed table, for any symbol tables and any design.       *)
(***************************************************************************)
EXTENDS SessionProofs, SequenceTheorems, FiniteSetTheorems, WellFoundedInduction

-----------------------------------------------------------------------------
(* The namespace of a table's instances                                    *)

\* Every nonempty set of names has a shortest one.
LEMMA ShortestName ==
  ASSUME NEW insts, insts # {}, \A a \in insts : Len(a) \in Nat \ {0}
  PROVE  \E n \in insts : \A o \in insts : Len(n) <= Len(o)
  <1> DEFINE T == {Len(a) : a \in insts}
             R == OpToRel(<, Nat)
  <1>1. IsWellFoundedOn(R, Nat)
    BY NatLessThanWellFounded
  <1>2. \A x, y \in Nat : y < x => <<y, x>> \in R
    BY DEF OpToRel
  <1>3. T \in SUBSET Nat /\ T # {}
    OBVIOUS
  <1> HIDE DEF R
  <1>4. PICK x \in T : \A y \in T : ~(<<y, x>> \in R)
    <2> HIDE DEF T
    <2> QED BY <1>1, <1>3, WFMin
  <1>5. \A y \in T : ~(y < x)
    BY <1>2, <1>3, <1>4
  <1>6. PICK n \in insts : Len(n) = x
    BY <1>4
  <1>7. \A o \in insts : ~(Len(o) < Len(n))
    BY <1>5, <1>6
  <1>8. \A o \in insts : Len(n) <= Len(o)
    BY <1>7
  <1> QED BY <1>8

\* A set of one number in order.
LEMMA InOrderType ==
  ASSUME NEW S, S \subseteq DOMAIN Design
  PROVE  /\ Cardinality(S) \in Nat
         /\ InOrder(S) = [k \in 1 .. Cardinality(S) |-> InOrder(S)[k]]
         /\ Cardinality(S) = 1 => InOrder(S)[1] \in S
  <1>1. IsFiniteSet(DOMAIN Design)
    BY DesignAssumption, FS_Interval
  <1>2. IsFiniteSet(S)
    BY <1>1, FS_Subset
  <1>3. Cardinality(S) \in Nat
    BY <1>2, FS_CardinalityType
  <1>4. InOrder(S) = [k \in 1 .. Cardinality(S) |-> InOrder(S)[k]]
    BY <1>3 DEF InOrder
  <1>5. ASSUME Cardinality(S) = 1 PROVE InOrder(S)[1] \in S
    <2>1. PICK i : S = {i}
      BY <1>2, <1>5, FS_Singleton
    <2>2. i \in Nat
      BY <2>1, DesignAssumption
    <2>3. {j \in S : j <= i} = {i}
      BY <2>1, <2>2
    <2>4. Cardinality({j \in S : j <= i}) = 1
      BY <2>3, FS_Singleton
    <2>5. \E x \in S : Cardinality({j \in S : j <= x}) = 1
      BY <2>1, <2>4
    <2>6. InOrder(S)[1] = CHOOSE x \in S : Cardinality({j \in S : j <= x}) = 1
      BY <1>5 DEF InOrder
    <2> QED BY <2>5, <2>6
  <1> QED BY <1>3, <1>4, <1>5

\* A table has a sequence of places, and when there is one of them, it is for
\* the top of every instance of the table.
LEMMA PlacesType ==
  ASSUME NEW n \in DOMAIN Table, NEW v \in BOOLEAN
  PROVE  \E c \in Nat :
           /\ Places[n][v] = [k \in 1 .. c |-> Places[n][v][k]]
           /\ c = 1 => \A name \in Instances(n) : Places[n][v][1].top = Head(name)
  <1> DEFINE insts == Instances(n)
             P == Places[n][v]
  <1>0. P = InstanceMapping(insts, v)
    BY DEF Places
  <1>a. /\ \A a \in insts : Len(a) \in Nat \ {0}
        /\ \A a, b \in insts : Head(a) = Head(b)
    BY SessionAssumption DEF Instances
  <1> HIDE DEF P, insts
  <1>1. CASE ~v
    <2> DEFINE tops == {Head(name) : name \in insts}
               S == {i \in DOMAIN Design : Design[i].def \in tops}
               hits == InOrder(S)
    <2>1. P = [k \in DOMAIN hits |->
                 [top |-> Design[hits[k]].def, prefix |-> Design[hits[k]].path]]
      BY <1>0, <1>1, Zenon DEF InstanceMapping, ByDefinition
    <2>2. S \subseteq DOMAIN Design
      OBVIOUS
    <2>3. \A i \in S : \A name \in insts : Design[i].def = Head(name)
      BY <1>a
    <2> HIDE DEF S
    <2>4. /\ Cardinality(S) \in Nat
          /\ hits = [k \in 1 .. Cardinality(S) |-> hits[k]]
          /\ Cardinality(S) = 1 => hits[1] \in S
      BY <2>2, InOrderType
    <2> HIDE DEF hits
    <2>5. DOMAIN hits = 1 .. Cardinality(S)
      BY <2>4
    <2>6. P = [k \in 1 .. Cardinality(S) |-> P[k]]
      BY <2>1, <2>5
    <2>7. ASSUME Cardinality(S) = 1, NEW name \in insts PROVE P[1].top = Head(name)
      <3>1. 1 \in DOMAIN hits
        BY <2>5, <2>7
      <3>2. P[1].top = Design[hits[1]].def
        BY <2>1, <3>1
      <3> QED BY <2>3, <2>4, <2>7, <3>2
    <2> QED BY <2>4, <2>6, <2>7 DEF P, insts
  <1>2. CASE v
    <2> DEFINE name == CHOOSE m \in insts : \A o \in insts : Len(m) <= Len(o)
               top   == Head(name)
               path  == Tail(name)
               below == {i \in DOMAIN Design : Len(Design[i].path) > 1 \/ Design[i].path = <<top>>}
               S == IF path = <<>> THEN {i \in below : \A j \in below : i <= j}
                    ELSE {i \in DOMAIN Design : Match(Design[i].path, path)}
               hits == InOrder(S)
               Prefix(full) == IF path # <<>> THEN SubSeq(full, 1, Len(full) - Len(path) + 1)
                               ELSE IF Len(full) > 1 THEN full ELSE <<"TOP">> \o full
    <2>1. P = [k \in DOMAIN hits |-> [top |-> top, prefix |-> Prefix(Design[hits[k]].path)]]
      BY <1>0, <1>2, Zenon DEF InstanceMapping, ByInstance
    <2>2. S \subseteq DOMAIN Design
      OBVIOUS
    <2>3. \A m \in insts : top = Head(m)
      <3>1. insts # {} => name \in insts
        BY <1>a, ShortestName
      <3> QED BY <1>a, <3>1
    <2> HIDE DEF S, top, Prefix
    <2>4. Cardinality(S) \in Nat /\ hits = [k \in 1 .. Cardinality(S) |-> hits[k]]
      BY <2>2, InOrderType
    <2> HIDE DEF hits
    <2>5. DOMAIN hits = 1 .. Cardinality(S)
      BY <2>4
    <2>6. P = [k \in 1 .. Cardinality(S) |-> P[k]]
      BY <2>1, <2>5
    <2>7. ASSUME Cardinality(S) = 1, NEW m \in insts PROVE P[1].top = Head(m)
      <3>1. 1 \in DOMAIN hits
        BY <2>5, <2>7
      <3>2. P[1].top = top
        BY <2>1, <3>1
      <3> QED BY <2>3, <2>7, <3>2
    <2> QED BY <2>4, <2>6, <2>7 DEF P, insts
  <1> QED BY <1>1, <1>2

\* The names a definition has in mapped_namespaces_.
Named(m, def) == {e \in m : e[1] = def}

\* Loading table n first leaves the one namespace ns.
OnePlace(n, v, ns) ==
    /\ n \in DOMAIN Table /\ v \in BOOLEAN /\ Fits(n, v)
    /\ ns = ComputeInstanceMapping(<<NoMapping>>, Places[n][v]) /\ Len(ns) = 1

\* Whichever load ns is entered for, the instance finds one entry.
FoundOnce(ns, name) == \A load : \E e : Named(NamedAfter(ns, load), Head(name)) = {e}

\* With one place, loading the first table maps every instance of it to the one
\* namespace there is.
LEMMA PlacedOnce ==
  ASSUME NEW n, NEW v, NEW ns, OnePlace(n, v, ns), NEW name \in Instances(n)
  PROVE  FoundOnce(ns, name)
  <1> SUFFICES ASSUME NEW load PROVE \E e : Named(NamedAfter(ns, load), Head(name)) = {e}
    BY Zenon DEF FoundOnce
  <1>0. /\ n \in DOMAIN Table /\ v \in BOOLEAN /\ Fits(n, v)
        /\ ns = ComputeInstanceMapping(<<NoMapping>>, Places[n][v]) /\ Len(ns) = 1
    BY DEF OnePlace
  <1> DEFINE P == Places[n][v]
             X == {P[k] : k \in DOMAIN P} \cup {NoMapping}
  <1>1. PICK c \in Nat : /\ P = [k \in 1 .. c |-> P[k]]
                         /\ c = 1 => \A m \in Instances(n) : P[1].top = Head(m)
    BY <1>0, PlacesType, Zenon
  <1>2. P # <<>> /\ ns = ComputeInstanceMapping(<<NoMapping>>, P)
    BY <1>0 DEF Fits
  <1> HIDE DEF P
  <1>3. P \in Seq(X) /\ Len(P) = c
    <2>1. \A k \in 1 .. c : P[k] \in X
      BY <1>1
    <2> HIDE DEF X
    <2> QED BY <1>1, <2>1
  <1>4. c >= 1
    BY <1>2, <1>3, EmptySeq
  <1> DEFINE more == <<NoMapping>> \o [i \in 1 .. c - 1 |-> NoMapping]
             rest == SubSeq(more, c + 1, Len(more))
  <1>5. ns = P \o rest
    BY <1>2, <1>3 DEF ComputeInstanceMapping
  <1>6. more \in Seq(X) /\ Len(more) = c
    <2> DEFINE first == <<NoMapping>>
               others == [i \in 1 .. c - 1 |-> NoMapping]
    <2>1. first \in Seq(X) /\ Len(first) = 1
      OBVIOUS
    <2>2. others \in Seq(X) /\ Len(others) = c - 1
      BY <1>4
    <2>3. more = first \o others
      OBVIOUS
    <2> HIDE DEF X, more, first, others
    <2>4. first \o others \in Seq(X) /\ Len(first \o others) = Len(first) + Len(others)
      BY <2>1, <2>2, ConcatProperties
    <2> QED BY <2>1, <2>2, <2>3, <2>4
  <1> HIDE DEF more
  <1>7. rest = <<>>
    BY <1>6, SubSeqProperties
  <1>8. ns = P
    <2> HIDE DEF X
    <2> QED BY <1>3, <1>5, <1>7, ConcatEmptySeq
  <1>9. c = 1
    BY <1>0, <1>3, <1>8
  <1>10. DOMAIN ns = {1} /\ ns[1].top = Head(name)
    BY <1>1, <1>8, <1>9
  <1>11. NamedAfter(ns, load) = {<<Head(name), load, 1>>}
    BY <1>10 DEF NamedAfter
  <1>12. Named(NamedAfter(ns, load), Head(name)) = {<<Head(name), load, 1>>}
    BY <1>11 DEF Named
  <1> QED BY <1>12

-----------------------------------------------------------------------------
(* The invariant of an orderly session                                     *)

\* db_ is the one table loaded, f, and scheduler_ was made for it.
HasDb(f) == \E d \in db : db = {d} /\ d = [n |-> 1, file |-> f, map |-> d.map]
HasSched == \E s \in sched : sched = {s} /\ s = [table |-> 1, bps |-> s.bps, mode |-> s.mode]

\* One table is loaded, and there is a scheduler for it as soon as the
\* connection that has loaded it is made.
TableOK ==
    /\ loads \in {0, 1} /\ skipLoad \in BOOLEAN /\ verilator \in BOOLEAN
    /\ loads = 0 => db = None /\ sched = None /\ namespaces = <<NoMapping>> /\ mapped = {}
    /\ loads = 1 => \E f \in DOMAIN Table : HasDb(f)
    /\ sched # None => loads = 1 /\ HasSched
    /\ loads = 1 /\ sched = None => srv \in {"query", "load"} /\ fresh # None /\ ~skipLoad
    /\ skipLoad => loads = 1

\* A connection that loads a table is the first one, and finds the table's names.
FreshOK ==
    /\ fresh # None =>
          /\ srv \in {"reset", "assign", "query", "load", "hung"}
          /\ \A c \in cur : c.req.type = "connection"
          /\ \E n \in DOMAIN Table : fresh = {n} /\ (skipLoad \/ Fits(n, verilator))
    /\ srv = "create" => \A c \in cur :
          /\ c.req.type = "connection"
          /\ skipLoad \/ loads = 0
          /\ c.req.f.db \in DOMAIN Table => skipLoad \/ Fits(c.req.f.db, verilator)
    /\ srv \in {"reset", "assign"} => ~skipLoad /\ loads = 0
    /\ srv = "assign" => fresh # None
    /\ fresh # None /\ ~skipLoad /\ srv \in {"query", "load"} =>
          /\ loads = 1 /\ sched = None /\ namespaces = <<NoMapping>> /\ mapped = {}
          /\ \A n \in fresh :
                HasDb(n) /\ (srv = "load" /\ Table[n].kind = "ws" => result["server"] # None)

\* Where there is one namespace, every instance of the table is mapped to it.
MapOK ==
    sched # None /\ Len(namespaces) = 1 =>
        \A f \in DOMAIN Table : HasDb(f) =>
            \A name \in Instances(f) : \E e \in mapped : Named(mapped, Head(name)) = {e}

\* Messages come from connections; a request that needs the table finds one.
AskOK ==
    /\ inbox = [ch \in Channels |-> inbox[ch]]
    /\ \A ch \in Channels : inbox[ch] # <<>> => ch \in conns
    /\ srv \in {"query", "handle"} => \A c \in cur :
          /\ c.req.type \notin {"connection", "option-change", "error"} => loads = 1
          /\ c.req.type = "monitor" =>
                Len(namespaces) = 1 \/ \E i \in c.req.f.ns : i < Len(namespaces)

\* Without a scheduler the simulation thread does not evaluate.
SimOK ==
    sched = None =>
        /\ attached => sim = "run_wait" /\ ~signal
        /\ sim \notin {"hit", "asked", "sending", "parked"}
        /\ ~overlap /\ query["sim"] = None

SafeBody == crash = "none" /\ TableOK /\ FreshOK /\ MapOK /\ AskOK /\ SimOK
SafeInv  == orderly => SafeBody

-----------------------------------------------------------------------------
(* Steps that keep the table                                               *)

\* The table and the scheduler stay, with other contents perhaps.
Kept ==
    /\ UNCHANGED <<fresh, loads, namespaces, mapped, skipLoad, verilator>>
    /\ db = None <=> db' = None
    /\ \A f \in DOMAIN Table : HasDb(f) <=> HasDb(f)'
    /\ sched = None <=> sched' = None
    /\ HasSched => HasSched'

\* The server thread stays where it is.
SameRequest == UNCHANGED <<srv, cur>> /\ result'["server"] = result["server"]

\* It has answered.
Answered == srv \in {"reject", "handle"} /\ srv' = "idle" /\ cur' = None

\* No step that keeps the table and the request, or answers it, is a danger to them.
LEMMA KeptTable ==
  ASSUME SafeBody, Kept, SameRequest \/ Answered
  PROVE  TableOK' /\ FreshOK' /\ MapOK'
  <1>0. TableOK /\ FreshOK /\ MapOK
    BY DEF SafeBody
  <1>1. MapOK'
    <2>1. sched = None <=> sched' = None
      BY DEF Kept
    <2>2. \A f \in DOMAIN Table : HasDb(f)' => HasDb(f)
      BY Zenon DEF Kept
    <2>3. namespaces' = namespaces /\ mapped' = mapped
      BY DEF Kept
    <2> QED BY <1>0, <2>1, <2>2, <2>3, Zenon DEF MapOK
  <1>2. TableOK'
    <2>1. loads = 1 => \E f \in DOMAIN Table : HasDb(f)'
      BY <1>0, Zenon DEF TableOK, Kept
    <2>2. sched' # None => loads = 1 /\ HasSched'
      BY <1>0, Zenon DEF TableOK, Kept
    <2>3. loads = 1 /\ sched' = None => srv' \in {"query", "load"} /\ fresh # None /\ ~skipLoad
      <3>1. loads = 1 /\ sched' = None => srv \in {"query", "load"} /\ fresh # None /\ ~skipLoad
        BY <1>0, Zenon DEF TableOK, Kept
      <3> QED BY <3>1 DEF SameRequest, Answered
    <2>4. UNCHANGED <<fresh, loads, namespaces, mapped, skipLoad, verilator>>
      BY DEF Kept
    <2>5. loads = 0 => db' = None /\ sched' = None /\ namespaces = <<NoMapping>> /\ mapped = {}
      BY <1>0, Zenon DEF TableOK, Kept
    <2>6. loads \in {0, 1} /\ skipLoad \in BOOLEAN /\ verilator \in BOOLEAN /\ (skipLoad => loads = 1)
      BY <1>0, Zenon DEF TableOK
    <2> QED BY <2>1, <2>2, <2>3, <2>4, <2>5, <2>6, Zenon DEF TableOK
  <1>3. FreshOK'
    <2>1. UNCHANGED <<fresh, loads, namespaces, mapped, skipLoad, verilator>>
      BY DEF Kept
    <2>2. sched = None <=> sched' = None
      BY DEF Kept
    <2>3. CASE SameRequest
      <3>1. srv' = srv /\ cur' = cur /\ result'["server"] = result["server"]
        BY <2>3 DEF SameRequest
      <3>2. \A n \in DOMAIN Table : HasDb(n) => HasDb(n)'
        BY Zenon DEF Kept
      <3>3. ASSUME fresh # None, ~skipLoad, srv \in {"query", "load"}
            PROVE  \A n \in fresh :
                     HasDb(n)' /\ (srv = "load" /\ Table[n].kind = "ws" => result'["server"] # None)
        <4>1. \A n \in fresh : n \in DOMAIN Table
          BY <1>0, <3>3 DEF FreshOK
        <4>2. \A n \in fresh :
                 HasDb(n) /\ (srv = "load" /\ Table[n].kind = "ws" => result["server"] # None)
          BY <1>0, <3>3, Zenon DEF FreshOK
        <4> QED BY <3>1, <3>2, <4>1, <4>2, Zenon
      <3> QED BY <1>0, <2>1, <2>2, <3>1, <3>3, Zenon DEF FreshOK
    <2>4. CASE Answered
      <3>1. srv' = "idle"
        BY <2>4 DEF Answered
      <3>2. fresh = None
        BY <1>0, <2>4 DEF FreshOK, Answered
      <3>3. srv' \notin {"create", "reset", "assign", "query", "load"}
        BY <3>1
      <3> QED BY <2>1, <3>2, <3>3, Zenon DEF FreshOK
    <2> QED BY <2>3, <2>4
  <1> QED BY <1>1, <1>2, <1>3

\* A step that keeps the table and leaves the clients and the simulation in order.
LEMMA KeptSafe ==
  ASSUME SafeBody, Kept, SameRequest \/ Answered, crash' = "none",
         inbox' = [ch \in Channels |-> inbox'[ch]],
         \A ch \in Channels : inbox'[ch] # <<>> => ch \in conns',
         SimOK'
  PROVE  SafeBody'
  <1>1. TableOK' /\ FreshOK' /\ MapOK'
    BY KeptTable
  <1>2. AskOK'
    <2>1. CASE SameRequest
      <3>1. srv' = srv /\ cur' = cur /\ loads' = loads /\ namespaces' = namespaces
        BY <2>1 DEF SameRequest, Kept
      <3> QED BY <3>1, Zenon DEF SafeBody, AskOK
    <2>2. CASE Answered
      <3>1. srv' \notin {"query", "handle"}
        BY <2>2 DEF Answered
      <3> QED BY <3>1, Zenon DEF AskOK
    <2> QED BY <2>1, <2>2
  <1> QED BY <1>1, <1>2, Zenon DEF SafeBody

\* Nothing about the table changes.
LEMMA TableKept == ASSUME UNCHANGED <<table, skipLoad, verilator>> PROVE Kept
  <1>1. /\ UNCHANGED <<fresh, loads, namespaces, mapped, skipLoad, verilator>>
        /\ db' = db /\ sched' = sched
    BY DEF table
  <1>2. \A f : HasDb(f) <=> HasDb(f)'
    BY <1>1, Zenon DEF HasDb
  <1>3. HasSched => HasSched'
    BY <1>1, Zenon DEF HasSched
  <1> QED BY <1>1, <1>2, <1>3, Zenon DEF Kept

\* The scheduler's breakpoints or mode change.
LEMMA SchedKept ==
  ASSUME UNCHANGED <<db, fresh, loads, namespaces, mapped, skipLoad, verilator>>,
         sched = None <=> sched' = None,
         ASSUME NEW b, NEW m, sched = {[table |-> 1, bps |-> b, mode |-> m]}
         PROVE  \E c, o : sched' = {[table |-> 1, bps |-> c, mode |-> o]}
  PROVE  Kept
  <1>2. \A f : HasDb(f) <=> HasDb(f)'
    BY Zenon DEF HasDb
  <1>3. HasSched => HasSched'
    <2> SUFFICES ASSUME NEW s, sched = {s}, s = [table |-> 1, bps |-> s.bps, mode |-> s.mode]
                 PROVE  HasSched'
      BY Zenon DEF HasSched
    <2>1. PICK b, m : b = s.bps /\ m = s.mode
      OBVIOUS
    <2>2. sched = {[table |-> 1, bps |-> b, mode |-> m]}
      BY <2>1, Zenon
    <2>3. PICK c, o : sched' = {[table |-> 1, bps |-> c, mode |-> o]}
      BY <2>2
    <2> DEFINE r == [table |-> 1, bps |-> c, mode |-> o]
    <2>4. r = [table |-> 1, bps |-> r.bps, mode |-> r.mode]
      OBVIOUS
    <2> HIDE DEF r
    <2>5. sched' = {r}
      BY <2>3 DEF r
    <2> QED BY <2>4, <2>5, Zenon DEF HasSched
  <1> QED BY <1>2, <1>3, Zenon DEF Kept

\* With another path mapping it is the same table, ...
LEMMA SameTable ==
  ASSUME TableOK, NEW map, db' = {[d EXCEPT !.map = map] : d \in db}
  PROVE  /\ db = None <=> db' = None
         /\ \A f : HasDb(f) <=> HasDb(f)'
  <1>2. db = None <=> db' = None
    BY DEF None
  <1>3. \A f : HasDb(f) <=> HasDb(f)'
    <2>1. CASE loads = 0
      <3>1. db = None /\ db' = None
        BY <1>2, <2>1 DEF TableOK
      <3> QED BY <3>1, Zenon DEF HasDb, None
    <2>2. CASE loads = 1
      <3>1. PICK g, d : g \in DOMAIN Table /\ db = {d} /\ d = [n |-> 1, file |-> g, map |-> d.map]
        BY <2>2, Zenon DEF TableOK, HasDb
      <3> DEFINE e == [n |-> 1, file |-> g, map |-> map]
      <3>2. [d EXCEPT !.map = map] = e
        BY <3>1
      <3>3. db' = {e}
        BY <3>1, <3>2
      <3>4. e.file = g /\ d.file = g /\ e = [n |-> 1, file |-> g, map |-> e.map]
        BY <3>1
      <3> HIDE DEF e
      <3>5. ASSUME NEW f, HasDb(f)' PROVE f = g
        <4>1. PICK x \in db' : x = [n |-> 1, file |-> f, map |-> x.map]
          BY <3>5, Zenon DEF HasDb
        <4>2. x = e
          BY <3>3, <4>1
        <4> QED BY <3>4, <4>1, <4>2
      <3>6. ASSUME NEW f, HasDb(f) PROVE f = g
        <4>1. PICK x \in db : x = [n |-> 1, file |-> f, map |-> x.map]
          BY <3>6, Zenon DEF HasDb
        <4>2. x = d
          BY <3>1, <4>1
        <4> QED BY <3>4, <4>1, <4>2
      <3>7. HasDb(g) /\ HasDb(g)'
        BY <3>1, <3>3, <3>4, Zenon DEF HasDb
      <3> QED BY <3>5, <3>6, <3>7, Zenon
    <2> QED BY <2>1, <2>2 DEF TableOK
  <1> QED BY <1>2, <1>3

\* ... and it is kept.
LEMMA MapKept ==
  ASSUME TableOK, UNCHANGED <<fresh, sched, loads, namespaces, mapped, skipLoad, verilator>>,
         NEW map, db' = {[d EXCEPT !.map = map] : d \in db}
  PROVE  Kept
  <1>1. HasSched => HasSched'
    BY Zenon DEF HasSched
  <1>2. (db = None <=> db' = None) /\ \A f : HasDb(f) <=> HasDb(f)'
    BY SameTable
  <1> QED BY <1>1, <1>2, Zenon DEF Kept

\* The simulation thread stays where it is, and nothing wakes or attaches it that
\* has no scheduler.
LEMMA SimKept ==
  ASSUME SimOK, sched = None <=> sched' = None, UNCHANGED <<sim, query, overlap>>,
         attached' => attached,
         signal' => signal \/ ~attached' \/ sched # None
  PROVE  SimOK'
  BY Zenon DEF SimOK

\* What a handler does that neither loads a table nor meets an undefined step.
Served ==
    /\ Kept /\ Answered /\ crash' = "none"
    /\ UNCHANGED <<conns, inbox>> \/ inbox' = [ch \in Channels |-> <<>>]
    /\ UNCHANGED <<sim, query, overlap>>
    /\ attached' => attached
    /\ signal' => signal \/ ~attached' \/ sched # None

\* It leaves the session in order.
LEMMA ServedSafe == ASSUME SafeBody, Served PROVE SafeBody'
  <1>1. SimOK'
    BY SimKept, Zenon DEF SafeBody, Served, Kept
  <1>2. /\ inbox' = [ch \in Channels |-> inbox'[ch]]
        /\ \A ch \in Channels : inbox'[ch] # <<>> => ch \in conns'
    <2>1. CASE UNCHANGED <<conns, inbox>>
      BY <2>1, Zenon DEF SafeBody, AskOK
    <2>2. CASE inbox' = [ch \in Channels |-> <<>>]
      BY <2>2
    <2> QED BY <2>1, <2>2, Zenon DEF Served
  <1>3. Kept /\ Answered /\ crash' = "none"
    BY DEF Served
  <1> QED BY <1>1, <1>2, <1>3, KeptSafe

\* A response ends the handling of a request.
LEMMA RespondAnswers ==
  ASSUME srv \in {"reject", "handle"}, NEW token, NEW ok, RespondWith(token, ok)
  PROVE  Answered
  BY Zenon DEF RespondWith, Done, Answered

\* A handler that only answers, ...
LEMMA OnlyRespondServes ==
  ASSUME SafeBody, srv = "handle", NEW ok, OnlyRespond(ok) PROVE Served
  <1>1. Answered
    BY RespondAnswers, Zenon DEF OnlyRespond, Respond
  <1>2. Kept
    <2>1. UNCHANGED <<table, skipLoad, verilator>>
      BY Zenon DEF OnlyRespond, flags
    <2> QED BY <2>1, TableKept
  <1> QED BY <1>1, <1>2, Zenon DEF OnlyRespond, Served, clients, simvars, net, SafeBody

\* ... and one that changes the breakpoints.
LEMMA SetBreakpointsServes ==
  ASSUME SafeBody, srv = "handle", NEW bps, SetBreakpoints(bps) PROVE Served
  <1>1. Answered
    BY RespondAnswers, Zenon DEF SetBreakpoints, Respond
  <1>2. Kept
    <2>1. /\ UNCHANGED <<db, fresh, loads, namespaces, mapped, skipLoad, verilator>>
          /\ sched' = {[s EXCEPT !.bps = bps] : s \in sched}
      BY Zenon DEF SetBreakpoints, flags
    <2>2. sched = None <=> sched' = None
      BY <2>1 DEF None
    <2>3. ASSUME NEW b, NEW m, sched = {[table |-> 1, bps |-> b, mode |-> m]}
          PROVE  \E c, o : sched' = {[table |-> 1, bps |-> c, mode |-> o]}
      <3>1. sched' = {[table |-> 1, bps |-> bps, mode |-> m]}
        BY <2>1, <2>3
      <3> QED BY <3>1
    <2> QED BY <2>1, <2>2, <2>3, SchedKept
  <1> QED BY <1>1, <1>2, Zenon DEF SetBreakpoints, Served, clients, simvars, net, SafeBody

-----------------------------------------------------------------------------
(* The handlers                                                            *)

\* The names get_instance_name finds are names of the table.
LEMMA NamesOfTable ==
  ASSUME NEW f \in DOMAIN Table, HasDb(f), NEW id
  PROVE  InstanceName(id) \subseteq Instances(f) /\ InstanceOfBp(id) \subseteq Instances(f)
  <1>1. PICK d : db = {d} /\ d = [n |-> 1, file |-> f, map |-> d.map]
    BY Zenon DEF HasDb
  <1>2. d.file = f
    BY <1>1
  <1>3. Info = Table[f]
    BY <1>1, <1>2, TheOnly, Zenon DEF Info
  <1>4. InstanceName(id) \subseteq Instances(f)
    BY <1>3 DEF InstanceName, Instances, Range, None
  <1>5. id \in DOMAIN Table[f].bps => Table[f].bps[id].inst \in DOMAIN Table[f].insts
    BY SessionAssumption
  <1>6. InstanceOfBp(id) \subseteq Instances(f)
    BY <1>3, <1>5 DEF InstanceOfBp, Instances, Range, None
  <1> QED BY <1>4, <1>6

\* With one namespace, or one that is named and there, a request has a namespace.
LEMMA NamespaceFound ==
  ASSUME SafeBody, sched # None, NEW inst, NEW bp, NEW ns,
         Len(namespaces) = 1 \/ \E i \in ns : i < Len(namespaces)
  PROVE  GetNamespace(inst, bp, ns) # None
  <1> DEFINE byInst == UNION {InstanceName(i) : i \in inst}
             name   == IF byInst # None THEN byInst ELSE UNION {InstanceOfBp(i) : i \in bp}
             found  == {e \in mapped : e[1] = Head(The(name))}
             G      == GetNamespace(inst, bp, ns)
  <1>0. G = IF \E i \in ns : i < Len(namespaces) THEN {i + 1 : i \in ns}
            ELSE IF name = None THEN {1}
            ELSE IF \E e \in found : found = {e} THEN {e[3] : e \in found}
            ELSE None
    BY Zenon DEF GetNamespace
  <1>1. CASE \E i \in ns : i < Len(namespaces)
    <2>1. G = {i + 1 : i \in ns} /\ ns # {}
      BY <1>0, <1>1, Zenon
    <2> HIDE DEF G
    <2>2. G # {}
      BY <2>1
    <2> QED BY <2>2 DEF None, G
  <1>2. CASE ~(\E i \in ns : i < Len(namespaces)) /\ name = None
    <2>1. G = {1}
      BY <1>0, <1>2, Zenon
    <2> HIDE DEF G
    <2>2. G # {}
      BY <2>1
    <2> QED BY <2>2 DEF None, G
  <1>3. CASE ~(\E i \in ns : i < Len(namespaces)) /\ name # None
    <2>1. PICK f \in DOMAIN Table : HasDb(f)
      BY Zenon DEF SafeBody, TableOK
    <2>2. name \subseteq Instances(f)
      <3>1. \A id : InstanceName(id) \subseteq Instances(f) /\ InstanceOfBp(id) \subseteq Instances(f)
        BY <2>1, NamesOfTable
      <3> QED BY <3>1, Zenon
    <2> HIDE DEF name
    <2>3. The(name) \in Instances(f)
      BY <1>3, <2>2 DEF The, None
    <2>4. Len(namespaces) = 1
      BY <1>3
    <2>5. PICK e \in mapped : Named(mapped, Head(The(name))) = {e}
      BY <2>1, <2>3, <2>4, Zenon DEF SafeBody, MapOK
    <2>6. found = {e}
      BY <2>5, Zenon DEF Named
    <2> HIDE DEF found
    <2>7. G = {x[3] : x \in found}
      BY <1>0, <1>3, <2>6, Zenon
    <2> HIDE DEF G
    <2>8. G # {}
      BY <2>6, <2>7
    <2> QED BY <2>8 DEF None, G
  <1> QED BY <1>1, <1>2, <1>3

\* A request that needs the table finds it and its scheduler.
LEMMA HandlerFindsTable ==
  ASSUME SafeBody, ReadInv, srv = "handle",
         The(cur).req.type \notin {"connection", "option-change", "error"}
  PROVE  db # None /\ sched # None
  <1>1. PICK c : cur = {c}
    BY Zenon DEF ReadInv
  <1>2. The(cur) = c
    BY <1>1, TheOnly, Zenon
  <1>3. loads = 1
    <2>1. \A x \in cur : x.req.type \notin {"connection", "option-change", "error"} => loads = 1
      BY DEF SafeBody, AskOK
    <2> QED BY <1>1, <1>2, <2>1
  <1>4. sched # None
    BY <1>3 DEF SafeBody, TableOK
  <1>5. db # None
    BY <1>3, Zenon DEF SafeBody, TableOK, HasDb, None
  <1> QED BY <1>4, <1>5

\* No handler of an orderly session meets a null pointer.
LEMMA HandleServes ==
  ASSUME SafeBody, ReadInv, orderly, orderly', Handle
  PROVE  Served
  <1>0. srv = "handle" /\ crash = "none"
    BY HandlePlace, Zenon DEF SafeBody
  <1>k. Known(The(cur).req)
    <2>1. PICK c : cur = {c}
      BY <1>0, Zenon DEF ReadInv
    <2>2. c.req.ok => Known(c.req)
      BY <2>1 DEF ReadInv
    <2>3. c.req.ok
      BY <1>0, <2>1 DEF ReadInv
    <2> QED BY <2>1, <2>2, <2>3, TheOnly, Zenon
  <1>n. The(cur).req.type \notin {"connection", "option-change", "error"} => db # None /\ sched # None
    BY <1>0, HandlerFindsTable
  <1>r. \A ok : OnlyRespond(ok) => Served
    BY <1>0, OnlyRespondServes
  <1>s. \A bps : SetBreakpoints(bps) => Served
    BY <1>0, SetBreakpointsServes
  <1>a. \A ok : Respond(ok) => Answered
    BY <1>0, RespondAnswers DEF Respond
  <1>1. CASE HandleBreakpoint
    <2>1. The(cur).req.type = "breakpoint"
      BY <1>1, Zenon DEF HandleBreakpoint, Handling
    <2>2. db # None
      BY <1>n, <2>1
    <2>3. PICK line \in F.lines :
             LET ids == BreakpointsAt(F.file, line, F.column)
             IN  CASE F.action = "add" /\ ids = {} -> OnlyRespond(FALSE)
                   [] F.action = "add" /\ ids # {} -> SetBreakpoints(Bps \cup Normal(ids))
                   [] OTHER                        -> SetBreakpoints(Bps \ Normal(ids))
      BY <1>1, <2>2, Zenon DEF HandleBreakpoint
    <2> DEFINE ids == BreakpointsAt(F.file, line, F.column)
    <2>4. \/ OnlyRespond(FALSE)
          \/ SetBreakpoints(Bps \cup Normal(ids))
          \/ SetBreakpoints(Bps \ Normal(ids))
      <3> HIDE DEF ids
      <3> QED BY <2>3, Zenon DEF ids
    <2> HIDE DEF ids
    <2> QED BY <1>r, <1>s, <2>4, Zenon
  <1>2. CASE HandleBreakpointId
    <2>0. The(cur).req.type = "breakpoint-id" /\ F.action \in {"add", "remove"}
      BY <1>2, <1>k, Zenon DEF HandleBreakpointId, Handling, Known, F
    <2>1. db # None
      BY <1>n, <2>0
    <2>2. CASE F.action = "remove"
      <3>1. SetBreakpoints(Bps \ Normal({F.id}))
        BY <1>2, <2>1, <2>2, Zenon DEF HandleBreakpointId
      <3> QED BY <1>s, <3>1, Zenon
    <2>3. CASE F.action = "add"
      <3>1. SetBreakpoints(Bps \cup Normal({F.id})) \/ OnlyRespond(FALSE)
        BY <1>2, <2>1, <2>3, Zenon DEF HandleBreakpointId
      <3> QED BY <1>r, <1>s, <3>1, Zenon
    <2> QED BY <2>0, <2>2, <2>3, Zenon
  <1>3. CASE HandleBpLocation
    <2>0. The(cur).req.type = "bp-location"
      BY <1>3, Zenon DEF HandleBpLocation, Handling
    <2>1. db # None
      BY <1>n, <2>0
    <2>2. \E ok : OnlyRespond(ok)
      BY <1>3, <2>1, Zenon DEF HandleBpLocation
    <2> QED BY <1>r, <2>2, Zenon
  <1>4. CASE HandleCommand
    <2>0. The(cur).req.type = "command"
      BY <1>4, Zenon DEF HandleCommand, Handling
    <2>1. sched # None
      BY <1>n, <2>0
    <2>2. CASE F.command = "stop"
      <3>1. /\ Stop /\ Done /\ ConnectionsChange
            /\ sched' = {[s EXCEPT !.bps = {}, !.mode = "None"] : s \in sched}
            /\ UNCHANGED <<db, fresh, loads, namespaces, mapped, sim, verilator, skipLoad, net>>
        BY <1>4, <2>1, <2>2, Zenon DEF HandleCommand
      <3>2. crash' = "none"
        BY <1>0, <3>1, Zenon DEF ConnectionsChange
      <3>3. Answered
        BY <1>0, <3>1, Zenon DEF Done, Answered
      <3>4. inbox' = [ch \in Channels |-> <<>>] /\ (attached' => attached)
        BY <3>1, Zenon DEF Stop
      <3>5. Kept
        <4>1. sched = None <=> sched' = None
          BY <3>1 DEF None
        <4>2. ASSUME NEW b, NEW m, sched = {[table |-> 1, bps |-> b, mode |-> m]}
              PROVE  \E c, o : sched' = {[table |-> 1, bps |-> c, mode |-> o]}
          <5>1. PICK s : s = [table |-> 1, bps |-> b, mode |-> m]
            OBVIOUS
          <5>2. [s EXCEPT !.bps = {}, !.mode = "None"] = [table |-> 1, bps |-> {}, mode |-> "None"]
            <6>1. [s EXCEPT !.bps = {}, !.mode = "None"] = [[s EXCEPT !.bps = {}] EXCEPT !.mode = "None"]
              BY <5>1
            <6>2. [s EXCEPT !.bps = {}] = [table |-> 1, bps |-> {}, mode |-> m]
              BY <5>1
            <6>3. [[table |-> 1, bps |-> {}, mode |-> m] EXCEPT !.mode = "None"]
                    = [table |-> 1, bps |-> {}, mode |-> "None"]
              OBVIOUS
            <6> QED BY <6>1, <6>2, <6>3, Zenon
          <5>3. sched' = {[s EXCEPT !.bps = {}, !.mode = "None"]}
            <6>1. sched = {s}
              BY <4>2, <5>1
            <6>2. sched' = {[x EXCEPT !.bps = {}, !.mode = "None"] : x \in sched}
              BY <3>1
            <6> QED BY <6>1, <6>2, Zenon
          <5> QED BY <5>2, <5>3
        <4> QED BY <3>1, <4>1, <4>2, SchedKept
      <3> QED BY <2>1, <3>1, <3>2, <3>3, <3>4, <3>5, Zenon DEF Served, net
    <2>3. CASE F.command # "stop"
      <3>0. PICK command : command = F.command
        OBVIOUS
      <3>1. /\ sched' = IF command = "jump" THEN sched
                        ELSE {[s EXCEPT !.mode = ModeOf(command)] : s \in sched}
            /\ \E ok \in {TRUE} \cup {F.command # "jump"} : Respond(ok)
            /\ UNCHANGED <<clients, db, fresh, loads, namespaces, mapped, sim, attached, flags, crash, net>>
        BY <1>4, <2>1, <2>3, <3>0, Zenon DEF HandleCommand
      <3>2. Answered
        BY <1>a, <3>1, Zenon
      <3>3. Kept
        <4>1. sched = None <=> sched' = None
          BY <3>1 DEF None
        <4>2. ASSUME NEW b, NEW m, sched = {[table |-> 1, bps |-> b, mode |-> m]}
              PROVE  \E c, o : sched' = {[table |-> 1, bps |-> c, mode |-> o]}
          <5>1. CASE command = "jump"
            BY <3>1, <4>2, <5>1
          <5>2. CASE command # "jump"
            <6>1. sched' = {[table |-> 1, bps |-> b, mode |-> ModeOf(command)]}
              BY <3>1, <4>2, <5>2
            <6> QED BY <6>1
          <5> QED BY <5>1, <5>2
        <4>3. UNCHANGED <<db, fresh, loads, namespaces, mapped, skipLoad, verilator>>
          BY <3>1, Zenon DEF flags
        <4> QED BY <4>1, <4>2, <4>3, SchedKept
      <3> QED BY <1>0, <2>1, <3>1, <3>2, <3>3, Zenon DEF Served, net, clients
    <2> QED BY <2>2, <2>3
  <1>5. CASE HandleDebugInfo
    <2>0. The(cur).req.type = "debugger-info"
      BY <1>5, Zenon DEF HandleDebugInfo, Handling
    <2>1. db # None /\ sched # None
      BY <1>n, <2>0
    <2>2. OnlyRespond(TRUE)
      BY <1>5, <2>1, Zenon DEF HandleDebugInfo
    <2> QED BY <1>r, <2>2, Zenon
  <1>6. CASE HandlePathMapping
    <2>0. PICK map : map = F.map
      OBVIOUS
    <2>1. /\ db' = {[d EXCEPT !.map = map] : d \in db}
          /\ \E ok : Respond(ok)
          /\ UNCHANGED <<clients, fresh, sched, loads, namespaces, mapped, simvars, flags, crash, net>>
      BY <1>6, <2>0, Zenon DEF HandlePathMapping
    <2>2. Answered
      BY <1>a, <2>1, Zenon
    <2>3. UNCHANGED <<fresh, sched, loads, namespaces, mapped, skipLoad, verilator>>
      BY <2>1, Zenon DEF flags
    <2>4. Kept
      <3>1. TableOK
        BY DEF SafeBody
      <3> QED BY <2>1, <2>3, <3>1, MapKept
    <2> QED BY <1>0, <2>1, <2>2, <2>4, Zenon DEF Served, net, clients, simvars
  <1>7. CASE HandleEvaluation
    <2>1. \E ok : OnlyRespond(ok)
      BY <1>7, Zenon DEF HandleEvaluation
    <2> QED BY <1>r, <2>1, Zenon
  <1>8. CASE HandleOptionChange
    <2>1. /\ Respond(TRUE)
          /\ UNCHANGED <<clients, table, simvars, verilator, skipLoad, crash, net>>
      BY <1>8, Zenon DEF HandleOptionChange
    <2>2. Answered
      BY <1>a, <2>1, Zenon
    <2>3. UNCHANGED <<table, skipLoad, verilator>>
      BY <2>1, Zenon
    <2>4. Kept
      BY <2>3, TableKept
    <2> QED BY <1>0, <2>1, <2>2, <2>4, Zenon DEF Served, net, clients, simvars
  <1>9. CASE HandleMonitor
    <2>0. The(cur).req.type = "monitor"
      BY <1>9, Zenon DEF HandleMonitor, Handling
    <2>1. db # None /\ sched # None
      BY <1>n, <2>0
    <2>2. ~NoTable(F)
      BY <2>1, Zenon DEF NoTable
    <2>3. GetNamespace(F.inst, F.bp, F.ns) # None
      <3>1. PICK c : cur = {c}
        BY <1>0, Zenon DEF ReadInv
      <3>2. The(cur) = c
        BY <3>1, TheOnly, Zenon
      <3>3. Len(namespaces) = 1 \/ \E i \in c.req.f.ns : i < Len(namespaces)
        BY <1>0, <2>0, <3>1, <3>2 DEF SafeBody, AskOK
      <3>4. F = c.req.f
        BY <3>2, Zenon DEF F
      <3>5. GetNamespace(c.req.f.inst, c.req.f.bp, c.req.f.ns) # None
        BY <2>1, <3>3, NamespaceFound
      <3> QED BY <3>4, <3>5, Zenon
    <2>4. \/ OnlyRespond(FALSE)
          \/ Respond(TRUE) /\ UNCHANGED <<clients, table, simvars, flags, crash, net>>
      BY <1>9, <2>2, <2>3, Zenon DEF HandleMonitor
    <2>5. CASE Respond(TRUE) /\ UNCHANGED <<clients, table, simvars, flags, crash, net>>
      <3>1. Answered
        BY <1>a, <2>5, Zenon
      <3>2. UNCHANGED <<table, skipLoad, verilator>>
        BY <2>5, Zenon DEF flags
      <3>3. Kept
        BY <3>2, TableKept
      <3> QED BY <1>0, <2>5, <3>1, <3>3, Zenon DEF Served, net, clients, simvars
    <2> QED BY <1>r, <2>4, <2>5, Zenon
  <1>10. CASE HandleSetValue
    <2>0. The(cur).req.type = "set-value"
      BY <1>10, Zenon DEF HandleSetValue, Handling
    <2>1. db # None
      BY <1>n, <2>0
    <2>2. ~NoTable(F)
      BY <2>1, Zenon DEF NoTable
    <2>3. \E ok : OnlyRespond(ok)
      BY <1>10, <2>2, Zenon DEF HandleSetValue
    <2> QED BY <1>r, <2>3, Zenon
  <1>11. CASE HandleDataBreakpoint
    <2>0. /\ The(cur).req.type = "data-breakpoint"
          /\ F.action \in {"clear", "remove", "add", "info"}
      BY <1>11, <1>k, Zenon DEF HandleDataBreakpoint, Handling, Known, F
    <2>1. db # None /\ sched # None
      BY <1>n, <2>0
    <2>2. \/ OnlyRespond(FALSE)
          \/ \E bps : SetBreakpoints(bps)
      BY <1>11, <2>0, <2>1, Zenon DEF HandleDataBreakpoint
    <2> QED BY <1>r, <1>s, <2>2, Zenon
  <1> QED
    BY <1>1, <1>2, <1>3, <1>4, <1>5, <1>6, <1>7, <1>8, <1>9, <1>10, <1>11, Zenon DEF Handle

-----------------------------------------------------------------------------
(* Clients and the simulation                                              *)

\* Clients come, go and ask; the connections do not change under a broadcast.
LEMMA ClientSafe ==
  ASSUME SafeBody, orderly',
         Open \/ \E ch \in Channels : Close(ch) \/ \E doc \in Messages : Ask(ch, doc)
  PROVE  SafeBody'
  <1>0. SimOK /\ AskOK /\ TableOK /\ crash = "none"
    BY DEF SafeBody
  <1>1. CASE Open
    <2>1. /\ ConnectionsChange /\ conns' = conns \cup {count}
          /\ UNCHANGED <<inbox, srv, cur, table, simvars, flags, net>>
      BY <1>1, Zenon DEF Open
    <2>2. crash' = "none"
      BY <1>0, <2>1, Zenon DEF ConnectionsChange
    <2>3. UNCHANGED <<table, skipLoad, verilator>>
      BY <2>1, Zenon DEF flags
    <2>4. Kept
      BY <2>3, TableKept
    <2>5. SameRequest
      BY <2>1, Zenon DEF SameRequest, net
    <2>6. SimOK'
      BY <1>0, <2>1, Zenon DEF SimOK, simvars, net, table
    <2>7. inbox' = [ch \in Channels |-> inbox'[ch]]
      BY <1>0, <2>1, Zenon DEF AskOK
    <2>8. \A ch \in Channels : inbox'[ch] # <<>> => ch \in conns'
      BY <1>0, <2>1, Zenon DEF AskOK
    <2> QED BY <2>2, <2>4, <2>5, <2>6, <2>7, <2>8, KeptSafe
  <1>2. ASSUME NEW ch \in Channels, Close(ch)
        PROVE  SafeBody'
    <2>1. /\ ConnectionsChange /\ conns' = conns \ {ch} /\ inbox' = [inbox EXCEPT ![ch] = <<>>]
          /\ Detach \/ UNCHANGED <<attached, sched, running, signal>>
          /\ UNCHANGED <<srv, cur, db, fresh, loads, namespaces, mapped, sim, flags, net>>
      BY <1>2, Zenon DEF Close
    <2>2. crash' = "none"
      BY <1>0, <2>1, Zenon DEF ConnectionsChange
    <2>3. UNCHANGED <<db, fresh, loads, namespaces, mapped, skipLoad, verilator>>
      BY <2>1, Zenon DEF flags
    <2>4. sched' = sched \/ sched' = {[s EXCEPT !.mode = "None"] : s \in sched}
      BY <2>1, Zenon DEF Detach
    <2>5. Kept
      <3>1. sched = None <=> sched' = None
        BY <2>4 DEF None
      <3>2. ASSUME NEW b, NEW m, sched = {[table |-> 1, bps |-> b, mode |-> m]}
            PROVE  \E c, o : sched' = {[table |-> 1, bps |-> c, mode |-> o]}
        <4>1. CASE sched' = sched
          BY <3>2, <4>1
        <4>2. CASE sched' = {[s EXCEPT !.mode = "None"] : s \in sched}
          <5>1. sched' = {[table |-> 1, bps |-> b, mode |-> "None"]}
            BY <3>2, <4>2
          <5> QED BY <5>1
        <4> QED BY <2>4, <4>1, <4>2
      <3> QED BY <2>3, <3>1, <3>2, SchedKept
    <2>6. SameRequest
      BY <2>1, Zenon DEF SameRequest, net
    <2>7. SimOK'
      <3>1. UNCHANGED <<sim, query, overlap>>
        BY <2>1, Zenon DEF net
      <3>2. (attached' => attached) /\ (signal' => signal \/ ~attached')
        <4>1. attached' = FALSE \/ UNCHANGED <<attached, signal>>
          BY <2>1, Zenon DEF Detach
        <4> QED BY <4>1
      <3>3. sched = None <=> sched' = None
        BY <2>5 DEF Kept
      <3> QED BY <1>0, <3>1, <3>2, <3>3, SimKept
    <2>8. inbox' = [c \in Channels |-> IF c = ch THEN <<>> ELSE inbox[c]]
      BY <1>0, <2>1 DEF AskOK
    <2>9. inbox' = [c \in Channels |-> inbox'[c]]
      BY <2>8
    <2>10. \A c \in Channels : inbox'[c] # <<>> => c \in conns'
      BY <1>0, <2>1, <2>8 DEF AskOK
    <2> QED BY <2>2, <2>5, <2>6, <2>7, <2>9, <2>10, KeptSafe
  <1>3. ASSUME NEW ch \in Channels, NEW doc \in Messages, Ask(ch, doc)
        PROVE  SafeBody'
    <2>1. /\ ch \in conns /\ \A c \in Channels : inbox[c] = <<>>
          /\ UNCHANGED <<conns, srv, cur, table, simvars, flags, crash, net>>
      BY <1>3, Zenon DEF Ask
    <2>2. PICK msg : inbox' = [inbox EXCEPT ![ch] = msg]
      BY <1>3, Zenon DEF Ask
    <2>3. UNCHANGED <<table, skipLoad, verilator>>
      BY <2>1, Zenon DEF flags
    <2>4. Kept
      BY <2>3, TableKept
    <2>5. SameRequest
      BY <2>1, Zenon DEF SameRequest, net
    <2>6. SimOK'
      BY <1>0, <2>1, Zenon DEF SimOK, simvars, net, table
    <2>7. inbox' = [c \in Channels |-> IF c = ch THEN msg ELSE <<>>]
      BY <1>0, <2>1, <2>2 DEF AskOK
    <2>8. inbox' = [c \in Channels |-> inbox'[c]]
      BY <2>7
    <2>9. \A c \in Channels : inbox'[c] # <<>> => c \in conns'
      BY <2>1, <2>7
    <2>10. crash' = "none"
      BY <1>0, <2>1
    <2> QED BY <2>4, <2>5, <2>6, <2>8, <2>9, <2>10, KeptSafe
  <1> QED BY <1>1, <1>2, <1>3, Zenon

\* What leaves the clients, the server thread and the table alone.
Aside ==
    /\ UNCHANGED <<conns, inbox, srv, cur, table, skipLoad, verilator>>
    /\ result'["server"] = result["server"]

\* A step of this kind is safe if the simulation thread is.
LEMMA AsideSafe ==
  ASSUME SafeBody, Aside, crash' = "none", SimOK' PROVE SafeBody'
  <1>1. Kept
    <2>1. UNCHANGED <<table, skipLoad, verilator>>
      BY Zenon DEF Aside
    <2> QED BY <2>1, TableKept
  <1>2. SameRequest
    BY Zenon DEF Aside, SameRequest
  <1>3. inbox' = [ch \in Channels |-> inbox'[ch]]
    BY Zenon DEF Aside, SafeBody, AskOK
  <1>4. \A ch \in Channels : inbox'[ch] # <<>> => ch \in conns'
    BY Zenon DEF Aside, SafeBody, AskOK
  <1> QED BY <1>1, <1>2, <1>3, <1>4, KeptSafe

\* The simulation thread evaluates and reports with a scheduler and its own table.
LEMMA SimSafe ==
  ASSUME SafeBody, NetInv, orderly', SimStep \/ Teardown \/ Remote
  PROVE  SafeBody'
  <1>0. SimOK /\ AskOK /\ TableOK /\ crash = "none"
    BY DEF SafeBody
  <1>t. "server" \in Thread /\ "sim" \in Thread
    BY SessionAssumption
  <1>n. sched' = sched /\ sched # None => SimOK'
    BY Zenon DEF SimOK
  <1>1. CASE Resume
    <2>1. /\ UNCHANGED <<clients, srv, cur, table, attached, flags, crash, net>>
          /\ sim \in {"run_wait", "parked"} /\ signal /\ sim' = "edge" /\ signal' = FALSE
      BY <1>1, Zenon DEF Resume
    <2>2. Aside
      BY <2>1, Zenon DEF Aside, clients, flags, net
    <2>3. SimOK'
      <3>1. sched' = sched /\ query' = query /\ overlap' = overlap /\ attached' = attached
        BY <2>1, Zenon DEF table, net
      <3> QED BY <1>0, <2>1, <3>1 DEF SimOK
    <2>4. crash' = "none"
      BY <1>0, <2>1
    <2> QED BY <2>2, <2>3, <2>4, AsideSafe
  <1>2. CASE Eval
    <2>1. /\ UNCHANGED <<clients, srv, cur, table, flags, net>>
          /\ sim = "edge" /\ attached
          /\ \/ crash' = crash
             \/ {d.n : d \in db} # {The(sched).table}
      BY <1>2, Zenon DEF Eval, AtSim
    <2>2. sched # None
      BY <1>0, <2>1 DEF SimOK
    <2>3. {d.n : d \in db} = {The(sched).table}
      <3>1. HasSched /\ loads = 1
        BY <1>0, <2>2, Zenon DEF TableOK
      <3>2. PICK s : sched = {s} /\ s = [table |-> 1, bps |-> s.bps, mode |-> s.mode]
        BY <3>1, Zenon DEF HasSched
      <3>3. The(sched) = s
        BY <3>2, TheOnly, Zenon
      <3>4. s.table = 1
        BY <3>2
      <3>5. PICK f, d : f \in DOMAIN Table /\ db = {d} /\ d = [n |-> 1, file |-> f, map |-> d.map]
        BY <1>0, <3>1, Zenon DEF TableOK, HasDb
      <3>6. d.n = 1
        BY <3>5
      <3>7. {x.n : x \in db} = {1}
        BY <3>5, <3>6
      <3> QED BY <3>3, <3>4, <3>7
    <2>4. crash' = "none"
      BY <1>0, <2>1, <2>3
    <2>5. Aside
      BY <2>1, Zenon DEF Aside, clients, flags, net
    <2>6. SimOK'
      BY <1>n, <2>1, <2>2, Zenon DEF table
    <2> QED BY <2>4, <2>5, <2>6, AsideSafe
  <1>3. CASE Report
    <2>1. /\ UNCHANGED <<clients, srv, cur, table, flags>>
          /\ sim = "hit" /\ (db = None \/ crash' = crash)
          /\ UNCHANGED net \/ UNCHANGED result
      BY <1>3, Zenon DEF Report, AtSim, Send
    <2>2. sched # None
      BY <1>0, <2>1 DEF SimOK
    <2>3. db # None
      BY <1>0, <2>2, Zenon DEF TableOK, HasDb, None
    <2>4. crash' = "none"
      BY <1>0, <2>1, <2>3
    <2>5. Aside
      BY <2>1, Zenon DEF Aside, clients, flags, net
    <2>6. SimOK'
      BY <1>n, <2>1, <2>2, Zenon DEF table
    <2> QED BY <2>4, <2>5, <2>6, AsideSafe
  <1>4. CASE SimLocks \/ SimReceives
    <2>1. /\ UNCHANGED <<clients, srv, cur, table, flags, crash>>
          /\ sim = "asked" /\ (Lock("sim") \/ Receive("sim"))
      BY <1>4, Zenon DEF SimLocks, SimReceives, AtSim
    <2>2. sched # None
      BY <1>0, <2>1 DEF SimOK
    <2>3. result'["server"] = result["server"]
      <3>1. result' = result \/ \E r : result' = [result EXCEPT !["sim"] = r]
        BY <2>1, Zenon DEF Lock, Receive
      <3> QED BY <1>t, <3>1 DEF NetInv
    <2>4. crash' = "none"
      BY <1>0, <2>1
    <2>5. Aside
      BY <2>1, <2>3, Zenon DEF Aside, clients, flags
    <2>6. SimOK'
      BY <1>n, <2>1, <2>2, Zenon DEF table
    <2> QED BY <2>4, <2>5, <2>6, AsideSafe
  <1>5. CASE Broadcast
    <2>1. UNCHANGED <<clients, srv, cur, table, flags, crash, net>> /\ sim = "sending"
      BY <1>5, Zenon DEF Broadcast, AtSim
    <2>2. sched # None
      BY <1>0, <2>1 DEF SimOK
    <2>4. crash' = "none"
      BY <1>0, <2>1
    <2>5. Aside
      BY <2>1, Zenon DEF Aside, clients, flags, net
    <2>6. SimOK'
      BY <1>n, <2>1, <2>2, Zenon DEF table
    <2> QED BY <2>4, <2>5, <2>6, AsideSafe
  <1>6. CASE EndOfSimulation
    <2>1. /\ UNCHANGED <<clients, srv, cur, db, fresh, loads, namespaces, mapped, verilator,
                         skipLoad, crash, net>>
          /\ sim = "stopping" /\ sim' = "ended" /\ (attached' => attached)
          /\ sched' = IF running THEN {[s EXCEPT !.mode = "None"] : s \in sched} ELSE sched
      BY <1>6, Zenon DEF EndOfSimulation, AtSim
    <2>2. Kept
      <3>1. sched = None <=> sched' = None
        BY <2>1 DEF None
      <3>2. ASSUME NEW b, NEW m, sched = {[table |-> 1, bps |-> b, mode |-> m]}
            PROVE  \E c, o : sched' = {[table |-> 1, bps |-> c, mode |-> o]}
        <4>1. CASE sched' = sched
          BY <3>2, <4>1
        <4>2. CASE sched' = {[s EXCEPT !.mode = "None"] : s \in sched}
          <5>1. sched' = {[table |-> 1, bps |-> b, mode |-> "None"]}
            BY <3>2, <4>2
          <5> QED BY <5>1
        <4> QED BY <2>1, <4>1, <4>2
      <3> QED BY <2>1, <3>1, <3>2, SchedKept
    <2>3. SameRequest
      BY <2>1, Zenon DEF SameRequest, net
    <2>4. SimOK'
      <3>1. sched = None <=> sched' = None
        BY <2>2 DEF Kept
      <3>2. query' = query /\ overlap' = overlap
        BY <2>1, Zenon DEF net
      <3> QED BY <1>0, <2>1, <3>1, <3>2 DEF SimOK
    <2>5. inbox' = [ch \in Channels |-> inbox'[ch]]
      BY <1>0, <2>1, Zenon DEF AskOK, clients
    <2>6. \A ch \in Channels : inbox'[ch] # <<>> => ch \in conns'
      BY <1>0, <2>1, Zenon DEF AskOK, clients
    <2>7. crash' = "none"
      BY <1>0, <2>1
    <2> QED BY <2>2, <2>3, <2>4, <2>5, <2>6, <2>7, KeptSafe
  <1>7. CASE Teardown
    <2>1. /\ UNCHANGED <<inbox, srv, cur, table, attached, signal, flags, crash, net>>
          /\ sim = "edge" /\ sim' = "stopping"
          /\ \A ch \in Channels : inbox[ch] = <<>>
      BY <1>7, Zenon DEF Teardown, AtSim
    <2>2. UNCHANGED <<table, skipLoad, verilator>>
      BY <2>1, Zenon DEF flags
    <2>3. Kept
      BY <2>2, TableKept
    <2>4. SameRequest
      BY <2>1, Zenon DEF SameRequest, net
    <2>5. SimOK'
      <3>1. sched' = sched /\ query' = query /\ overlap' = overlap /\ attached' = attached
        BY <2>1, Zenon DEF table, net
      <3> QED BY <1>0, <2>1, <3>1 DEF SimOK
    <2>6. inbox' = [ch \in Channels |-> inbox'[ch]]
      BY <1>0, <2>1, Zenon DEF AskOK
    <2>7. \A ch \in Channels : inbox'[ch] # <<>> => ch \in conns'
      BY <2>1, Zenon
    <2>8. crash' = "none"
      BY <1>0, <2>1
    <2> QED BY <2>3, <2>4, <2>5, <2>6, <2>7, <2>8, KeptSafe
  <1>8. CASE Remote
    <2>1. /\ UNCHANGED <<clients, srv, cur, table, simvars, flags, crash>>
          /\ UNCHANGED <<query, result, overlap>>
      BY <1>8, Zenon DEF Remote, Answer
    <2>2. Aside
      BY <2>1, Zenon DEF Aside, clients, flags
    <2>3. SimOK'
      BY <1>0, <2>1, Zenon DEF SimOK, simvars, table
    <2>4. crash' = "none"
      BY <1>0, <2>1
    <2> QED BY <2>2, <2>3, <2>4, AsideSafe
  <1> QED BY <1>1, <1>2, <1>3, <1>4, <1>5, <1>6, <1>7, <1>8, Zenon DEF SimStep

-----------------------------------------------------------------------------
(* The server thread                                                       *)

\* A query that did not overlap with another gets its own answer, and so one.
LEMMA ReceiveOwn ==
  ASSUME NetInv, ~overlap, NEW t \in Thread, Receive(t)
  PROVE  result'[t] # None
  <1>1. /\ ready /\ lock = {t}
        /\ result' = [result EXCEPT ![t] = SymbolResponse(The(query[t]).type, The(payload))]
    BY Zenon DEF Receive
  <1>2. query[t] # None
    BY <1>1 DEF NetInv
  <1>3. query[t] = payload
    BY <1>1, <1>2 DEF NetInv
  <1>4. PICK q : query[t] = {q}
    BY <1>2, Zenon DEF NetInv
  <1>5. The(query[t]) = q /\ The(payload) = q
    BY <1>3, <1>4, TheOnly, Zenon
  <1>6. SymbolResponse(q.type, q) = {q}
    BY Zenon DEF SymbolResponse
  <1>7. result'[t] = {q}
    BY <1>1, <1>5, <1>6 DEF NetInv
  <1> QED BY <1>7 DEF None

\* A message is taken from a connection that is there, and what it needs as well.
LEMMA TakeSafe ==
  ASSUME SafeBody, orderly', NEW ch \in Channels, Take(ch)
  PROVE  SafeBody'
  <1>0. SimOK /\ AskOK /\ TableOK /\ FreshOK /\ MapOK /\ crash = "none"
    BY DEF SafeBody
  <1>1. /\ srv = "idle" /\ inbox[ch] # <<>>
        /\ UNCHANGED <<conns, table, simvars, flags, query, overlap>>
    BY Zenon DEF Take, AtServer
  <1>2. ch \in conns
    BY <1>0, <1>1, Zenon DEF AskOK
  <1>3. PICK p : p = ParseRequest(Head(inbox[ch]))
    OBVIOUS
  <1> DEFINE c == [ch |-> ch, req |-> p.req, token |-> p.token]
  <1>4. /\ inbox' = [inbox EXCEPT ![ch] = <<>>] /\ cur' = {c} /\ Careful(p.req) /\ crash' = crash
        /\ srv' = IF ~p.req.ok THEN "reject"
                  ELSE IF p.req.type = "connection" THEN "create"
                  ELSE IF db # None /\ Info.kind = "ws" /\ QueryOf(p.req) # None THEN "query"
                  ELSE "handle"
    BY <1>2, <1>3, Zenon DEF Take
  <1>5. c.req = p.req
    OBVIOUS
  <1> HIDE DEF c
  <1>6. UNCHANGED <<db, fresh, sched, loads, namespaces, mapped, skipLoad, verilator>>
    BY <1>1, Zenon DEF table, flags
  <1>7. fresh = None /\ (loads = 1 => sched # None)
    BY <1>0, <1>1 DEF FreshOK, TableOK
  <1>8. /\ \A f : HasDb(f) <=> HasDb(f)'
        /\ HasSched <=> HasSched'
    BY <1>6, Zenon DEF HasDb, HasSched
  <1>9. /\ srv' \in {"reject", "create", "query", "handle"}
        /\ srv' = "create" => p.req.type = "connection" /\ p.req.ok
        /\ srv' \in {"query", "handle"} => p.req.type # "connection" /\ p.req.ok
    <2>1. CASE ~p.req.ok
      <3>1. srv' = "reject"
        BY <1>4, <2>1, Zenon
      <3> QED BY <3>1
    <2>2. CASE p.req.ok /\ p.req.type = "connection"
      <3>1. srv' = "create"
        BY <1>4, <2>2, Zenon
      <3> QED BY <2>2, <3>1
    <2>3. CASE p.req.ok /\ p.req.type # "connection"
      <3>1. srv' = "query" \/ srv' = "handle"
        BY <1>4, <2>3, Zenon
      <3> QED BY <2>3, <3>1
    <2> QED BY <2>1, <2>2, <2>3
  <1>10. TableOK'
    <2>1. loads' = 1 /\ sched' = None => FALSE
      BY <1>6, <1>7
    <2> QED BY <1>0, <1>6, <1>8, <2>1, Zenon DEF TableOK
  <1>11. FreshOK'
    <2>1. fresh' = None
      BY <1>6, <1>7
    <2>2. srv' = "create" =>
            /\ p.req.type = "connection"
            /\ skipLoad \/ loads = 0
            /\ p.req.f.db \in DOMAIN Table => skipLoad \/ Fits(p.req.f.db, verilator)
      BY <1>4, <1>9, Zenon DEF Careful
    <2>3. srv' = "create" => \A x \in cur' :
            /\ x.req.type = "connection"
            /\ skipLoad' \/ loads' = 0
            /\ x.req.f.db \in DOMAIN Table => skipLoad' \/ Fits(x.req.f.db, verilator')
      BY <1>4, <1>5, <1>6, <2>2, Zenon
    <2>4. srv' \notin {"reset", "assign"}
      BY <1>9
    <2> QED BY <2>1, <2>3, <2>4, Zenon DEF FreshOK
  <1>12. MapOK'
    BY <1>0, <1>6, <1>8, Zenon DEF MapOK
  <1>13. AskOK'
    <2>1. inbox' = [d \in Channels |-> IF d = ch THEN <<>> ELSE inbox[d]]
      BY <1>0, <1>4 DEF AskOK
    <2>2. /\ inbox' = [d \in Channels |-> inbox'[d]]
          /\ \A d \in Channels : inbox'[d] # <<>> => d \in conns'
      BY <1>0, <1>1, <2>1 DEF AskOK
    <2>3. p.req.type \notin {"connection", "option-change", "error"} => loads = 1
      <3>1. db # None => loads = 1
        BY <1>0 DEF TableOK
      <3> QED BY <1>4, <3>1, Zenon DEF Careful
    <2>4. srv' \in {"query", "handle"} /\ p.req.type = "monitor" =>
            Len(namespaces) = 1 \/ \E i \in p.req.f.ns : i < Len(namespaces)
      BY <1>4, <1>9, Zenon DEF Careful
    <2> QED BY <1>4, <1>5, <1>6, <2>2, <2>3, <2>4, Zenon DEF AskOK
  <1>14. SimOK'
    BY <1>0, <1>1, <1>6, Zenon DEF SimOK, simvars
  <1>15. crash' = "none"
    BY <1>0, <1>4
  <1> QED BY <1>10, <1>11, <1>12, <1>13, <1>14, <1>15, Zenon DEF SafeBody

\* The server thread rejects a request or queries a remote table.
LEMMA QuerySafe ==
  ASSUME SafeBody, ReadInv, NetInv, Reject \/ ServerSends \/ ServerLocks \/ ServerReceives
  PROVE  SafeBody'
  <1>0. SimOK /\ AskOK /\ TableOK /\ FreshOK /\ MapOK /\ crash = "none"
    BY DEF SafeBody
  <1>t. "server" \in Thread /\ "sim" \in Thread /\ "sim" # "server"
    BY SessionAssumption
  <1>1. CASE Reject
    <2>1. /\ srv = "reject" /\ \E ok : Respond(ok)
          /\ UNCHANGED <<clients, table, simvars, flags, crash, net>>
      BY <1>1, Zenon DEF Reject, AtServer
    <2>2. Answered
      BY <2>1, RespondAnswers, Zenon DEF Respond
    <2>3. Kept
      <3>1. UNCHANGED <<table, skipLoad, verilator>>
        BY <2>1, Zenon DEF flags
      <3> QED BY <3>1, TableKept
    <2>4. Served
      BY <1>0, <2>1, <2>2, <2>3, Zenon DEF Served, clients, simvars, net
    <2> QED BY <2>4, ServedSafe
  <1>2. CASE ServerSends
    <2>0. PICK q : q = The(QueryOf(The(cur).req))
      OBVIOUS
    <2>1. /\ Send("server", q)
          /\ UNCHANGED <<clients, srv, cur, table, simvars, flags, crash>>
      BY <1>2, <2>0, Zenon DEF ServerSends
    <2>2. /\ query' = [query EXCEPT !["server"] = {q}] /\ result' = result
          /\ overlap' = (overlap \/ \E u \in Thread \ {"server"} : query[u] # None)
      BY <2>1, Zenon DEF Send
    <2>3. Aside
      BY <2>1, <2>2, Zenon DEF Aside, clients, flags
    <2>4. query'["sim"] = query["sim"]
      BY <1>t, <2>2 DEF NetInv
    <2>5. query["sim"] = None /\ ~overlap => ~overlap'
      <3>1. Thread \ {"server"} = {"sim"}
        BY SessionAssumption
      <3> QED BY <2>2, <3>1
    <2>6. SimOK'
      BY <1>0, <2>1, <2>4, <2>5, Zenon DEF SimOK, simvars, table
    <2>7. crash' = "none"
      BY <1>0, <2>1
    <2> QED BY <2>3, <2>6, <2>7, AsideSafe
  <1>3. CASE ServerLocks
    <2>1. /\ UNCHANGED <<clients, srv, cur, table, simvars, flags, crash>>
          /\ UNCHANGED <<query, result, overlap>>
      BY <1>3, Zenon DEF ServerLocks, Lock
    <2>2. Aside
      BY <2>1, Zenon DEF Aside, clients, flags
    <2>3. SimOK'
      BY <1>0, <2>1, Zenon DEF SimOK, simvars, table
    <2>4. crash' = "none"
      BY <1>0, <2>1
    <2> QED BY <2>2, <2>3, <2>4, AsideSafe
  <1>4. CASE ServerReceives
    <2>0. PICK c : cur = {c}
      <3>1. srv = "query"
        BY <1>4, Zenon DEF ServerReceives, AtServer
      <3> QED BY <3>1, Zenon DEF ReadInv
    <2>c. The(cur) = c
      BY <2>0, TheOnly, Zenon
    <2>1. /\ srv = "query" /\ Receive("server")
          /\ UNCHANGED <<clients, cur, table, simvars, flags, crash>>
          /\ srv' = IF c.req.type = "connection" THEN "load" ELSE "handle"
      BY <1>4, <2>c, Zenon DEF ServerReceives, AtServer
    <2>2. UNCHANGED <<db, fresh, sched, loads, namespaces, mapped, skipLoad, verilator, conns, inbox>>
      BY <2>1, Zenon DEF table, flags, clients
    <2>3. query' = [query EXCEPT !["server"] = None] /\ overlap' = overlap
      BY <2>1, Zenon DEF Receive
    <2>4. /\ \A f : HasDb(f) <=> HasDb(f)'
          /\ HasSched <=> HasSched'
      BY <2>2, Zenon DEF HasDb, HasSched
    <2>5. fresh # None => c.req.type = "connection"
      BY <1>0, <2>0 DEF FreshOK
    <2>6. fresh # None => srv' = "load"
      BY <2>1, <2>5
    <2>7. srv' \in {"load", "handle"}
      BY <2>1
    <2>8. TableOK'
      <3>1. loads' = 1 /\ sched' = None => srv' \in {"query", "load"} /\ fresh' # None /\ ~skipLoad'
        <4>1. loads = 1 /\ sched = None => fresh # None /\ ~skipLoad
          BY <1>0 DEF TableOK
        <4> QED BY <2>2, <2>6, <4>1
      <3> QED BY <1>0, <2>2, <2>4, <3>1, Zenon DEF TableOK
    <2>9. FreshOK'
      <3>1. ASSUME fresh # None, ~skipLoad
            PROVE  /\ loads = 1 /\ sched = None /\ namespaces = <<NoMapping>> /\ mapped = {}
                   /\ \A n \in fresh : HasDb(n)' /\ result'["server"] # None
        <4>1. /\ loads = 1 /\ sched = None /\ namespaces = <<NoMapping>> /\ mapped = {}
              /\ \A n \in fresh : HasDb(n)
          BY <1>0, <2>1, <3>1 DEF FreshOK
        <4>2. ~overlap
          BY <1>0, <4>1 DEF SimOK
        <4>3. result'["server"] # None
          BY <1>t, <2>1, <4>2, ReceiveOwn
        <4> QED BY <2>4, <4>1, <4>3, Zenon
      <3>2. fresh # None =>
              /\ \A x \in cur : x.req.type = "connection"
              /\ \E n \in DOMAIN Table : fresh = {n} /\ (skipLoad \/ Fits(n, verilator))
        BY <1>0, Zenon DEF FreshOK
      <3>3. srv' \notin {"create", "reset", "assign"} /\ cur' = cur
        BY <2>1, <2>7
      <3>4. fresh' # None => srv' = "load"
        BY <2>2, <2>6
      <3> QED BY <2>2, <3>1, <3>2, <3>3, <3>4, Zenon DEF FreshOK
    <2>10. MapOK'
      BY <1>0, <2>2, <2>4, Zenon DEF MapOK
    <2>11. AskOK'
      <3>1. cur' = cur
        BY <2>1
      <3> QED BY <1>0, <2>1, <2>2, <3>1, Zenon DEF AskOK
    <2>12. SimOK'
      <3>1. query'["sim"] = query["sim"]
        BY <1>t, <2>3 DEF NetInv
      <3> QED BY <1>0, <2>1, <2>2, <2>3, <3>1, Zenon DEF SimOK, simvars
    <2>13. crash' = "none"
      BY <1>0, <2>1
    <2> QED BY <2>8, <2>9, <2>10, <2>11, <2>12, <2>13, Zenon DEF SafeBody
  <1> QED BY <1>1, <1>2, <1>3, <1>4

\* create_symbol_table and the first half of initialize_db: the table is the first.
LEMMA CreateSafe ==
  ASSUME SafeBody, ReadInv, Create \/ Reset \/ Assign
  PROVE  SafeBody'
  <1>0. SimOK /\ AskOK /\ TableOK /\ FreshOK /\ MapOK /\ crash = "none"
    BY DEF SafeBody
  <1>1. CASE Create
    <2>0. srv = "create"
      BY <1>1, Zenon DEF Create, AtServer
    <2>c. PICK c : cur = {c}
      BY <2>0, Zenon DEF ReadInv
    <2>n. PICK name : name = c.req.f.db
      OBVIOUS
    <2>t. The(cur).req.f.db = name
      BY <2>c, <2>n, TheOnly, Zenon
    <2>1. /\ srv' = IF skipLoad THEN "load"
                    ELSE IF name \in DOMAIN Table /\ Table[name].kind = "ws unreachable" THEN "hung"
                    ELSE "reset"
          /\ fresh' = IF name \in DOMAIN Table /\ Table[name].kind # "missing" THEN {name} ELSE None
          /\ UNCHANGED <<clients, cur, db, sched, loads, namespaces, mapped, simvars, flags, crash, net>>
      BY <1>1, <2>t, Zenon DEF Create
    <2>2. UNCHANGED <<skipLoad, verilator, conns, inbox>>
      BY <2>1, Zenon DEF flags, clients
    <2>3. /\ \A f : HasDb(f) <=> HasDb(f)'
          /\ HasSched <=> HasSched'
      BY <2>1, Zenon DEF HasDb, HasSched
    <2>4. loads = 1 => sched # None
      BY <1>0, <2>0 DEF TableOK
    <2>5. /\ c.req.type = "connection" /\ (skipLoad \/ loads = 0)
          /\ name \in DOMAIN Table => skipLoad \/ Fits(name, verilator)
      BY <1>0, <2>0, <2>c, <2>n, Zenon DEF FreshOK
    <2>6. srv' = "load" \/ srv' = "hung" \/ srv' = "reset"
      BY <2>1, Zenon
    <2>6a. srv' # "load" => ~skipLoad
      BY <2>1, Zenon
    <2>6b. srv' = "load" => skipLoad
      <3>1. ~skipLoad => srv' = "hung" \/ srv' = "reset"
        BY <2>1, Zenon
      <3> QED BY <3>1
    <2>7. TableOK'
      BY <1>0, <2>1, <2>2, <2>3, <2>4, Zenon DEF TableOK
    <2>8. FreshOK'
      <3>1. fresh' # None => \E n \in DOMAIN Table : fresh' = {n} /\ (skipLoad' \/ Fits(n, verilator'))
        BY <2>1, <2>2, <2>5, Zenon
      <3>2. \A x \in cur' : x.req.type = "connection"
        BY <2>1, <2>c, <2>5
      <3>3. srv' \in {"load", "hung", "reset"}
        BY <2>6
      <3>4. srv' = "reset" => ~skipLoad' /\ loads' = 0
        BY <2>1, <2>2, <2>5, <2>6a
      <3>5. ~(~skipLoad' /\ srv' \in {"query", "load"})
        BY <2>2, <2>6b, <3>3
      <3>6. srv' \notin {"create", "assign"} /\ srv' \in {"reset", "assign", "query", "load", "hung"}
        BY <3>3
      <3>7. srv' \in {"reset", "assign"} => ~skipLoad' /\ loads' = 0
        BY <3>4, <3>6
      <3> QED BY <3>1, <3>2, <3>5, <3>6, <3>7, Zenon DEF FreshOK
    <2>9. MapOK'
      BY <1>0, <2>1, <2>3, Zenon DEF MapOK
    <2>10. AskOK'
      <3>1. srv' \notin {"query", "handle"}
        BY <2>6
      <3> QED BY <1>0, <2>2, <3>1, Zenon DEF AskOK
    <2>11. SimOK'
      BY <1>0, <2>1, Zenon DEF SimOK, simvars, net
    <2>12. crash' = "none"
      BY <1>0, <2>1
    <2> QED BY <2>7, <2>8, <2>9, <2>10, <2>11, <2>12, Zenon DEF SafeBody
  <1>2. CASE Reset
    <2>0. srv = "reset"
      BY <1>2, Zenon DEF Reset, AtServer
    <2>1. /\ db' = None /\ srv' = IF fresh = None THEN "load" ELSE "assign"
          /\ sim # "asked" => crash' = crash
          /\ UNCHANGED <<clients, cur, fresh, sched, loads, namespaces, mapped, simvars, flags, net>>
      BY <1>2, Zenon DEF Reset
    <2>2. UNCHANGED <<skipLoad, verilator, conns, inbox>>
      BY <2>1, Zenon DEF flags, clients
    <2>3. ~skipLoad /\ loads = 0
      BY <1>0, <2>0 DEF FreshOK
    <2>4. sched = None /\ namespaces = <<NoMapping>> /\ mapped = {}
      BY <1>0, <2>3 DEF TableOK
    <2>5. crash' = "none"
      BY <1>0, <2>1, <2>4 DEF SimOK
    <2>6. TableOK'
      <3>1. loads' # 1
        BY <2>1, <2>3
      <3> QED BY <1>0, <2>1, <2>2, <2>3, <2>4, <3>1, Zenon DEF TableOK
    <2>7. FreshOK'
      <3>1. fresh' # None => srv' = "assign"
        BY <2>1
      <3>2. fresh' # None =>
              /\ \A x \in cur' : x.req.type = "connection"
              /\ \E n \in DOMAIN Table : fresh' = {n} /\ (skipLoad' \/ Fits(n, verilator'))
        BY <1>0, <2>1, <2>2, Zenon DEF FreshOK
      <3>3. srv' \notin {"create", "reset"} /\ (srv' = "assign" => fresh' # None)
        BY <2>1
      <3>4. ~skipLoad' /\ loads' = 0
        BY <2>1, <2>2, <2>3
      <3>5. ~(fresh' # None /\ srv' \in {"query", "load"})
        BY <3>1
      <3>6. fresh' # None => srv' \in {"reset", "assign", "query", "load", "hung"}
        BY <3>1
      <3> QED BY <3>2, <3>3, <3>4, <3>5, <3>6, Zenon DEF FreshOK
    <2>8. MapOK'
      BY <2>1, <2>4, Zenon DEF MapOK
    <2>9. AskOK'
      <3>1. srv' \notin {"query", "handle"}
        BY <2>1
      <3> QED BY <1>0, <2>2, <3>1, Zenon DEF AskOK
    <2>10. SimOK'
      BY <1>0, <2>1, Zenon DEF SimOK, simvars, net
    <2> QED BY <2>5, <2>6, <2>7, <2>8, <2>9, <2>10, Zenon DEF SafeBody
  <1>3. CASE Assign
    <2>0. srv = "assign"
      BY <1>3, Zenon DEF Assign, AtServer
    <2>1. ~skipLoad /\ loads = 0 /\ fresh # None
      BY <1>0, <2>0 DEF FreshOK
    <2>2. sched = None /\ namespaces = <<NoMapping>> /\ mapped = {}
      BY <1>0, <2>1 DEF TableOK
    <2>3. PICK n \in DOMAIN Table : fresh = {n} /\ (skipLoad \/ Fits(n, verilator))
      BY <1>0, <2>1, Zenon DEF FreshOK
    <2>4. The(fresh) = n
      BY <2>3, TheOnly, Zenon
    <2> DEFINE d == [n |-> 1, file |-> n, map |-> <<>>]
    <2>5. /\ db' = {[n |-> loads + 1, file |-> n, map |-> <<>>]} /\ loads' = loads + 1
          /\ srv' = IF Table[n].kind = "ws" THEN "query" ELSE "load"
          /\ UNCHANGED <<clients, cur, fresh, sched, namespaces, mapped, simvars, flags, crash>>
          /\ UNCHANGED <<query, result, overlap>>
      BY <1>3, <2>4, Zenon DEF Assign, Reopen
    <2>6. loads' = 1
      BY <2>1, <2>5
    <2>7. db' = {d} /\ d = [n |-> 1, file |-> n, map |-> d.map]
      BY <2>1, <2>5
    <2> HIDE DEF d
    <2>8. HasDb(n)'
      BY <2>7, Zenon DEF HasDb
    <2>9. UNCHANGED <<skipLoad, verilator, conns, inbox>>
      BY <2>5, Zenon DEF flags, clients
    <2>10. TableOK'
      <3>1. srv' \in {"query", "load"}
        BY <2>5
      <3>2. loads' # 0 /\ loads' \in {0, 1}
        BY <2>6
      <3> QED BY <1>0, <2>1, <2>2, <2>5, <2>6, <2>8, <2>9, <3>1, <3>2, Zenon DEF TableOK
    <2>11. FreshOK'
      <3>1. srv' \in {"query", "load"} /\ (srv' = "load" => Table[n].kind # "ws")
        BY <2>5
      <3>2. srv' \notin {"create", "reset", "assign"}
        BY <3>1
      <3>3. \A x \in cur' : x.req.type = "connection"
        BY <1>0, <2>1, <2>5, Zenon DEF FreshOK
      <3>4. fresh' = {n} /\ (skipLoad' \/ Fits(n, verilator'))
        BY <2>3, <2>5, <2>9, Zenon
      <3>5. \A m \in fresh' :
               HasDb(m)' /\ (srv' = "load" /\ Table[m].kind = "ws" => result'["server"] # None)
        BY <2>8, <3>1, <3>4, Zenon
      <3>6. srv' \in {"reset", "assign", "query", "load", "hung"}
        BY <3>1
      <3> QED BY <2>2, <2>5, <2>6, <3>2, <3>3, <3>4, <3>5, <3>6, Zenon DEF FreshOK
    <2>12. MapOK'
      BY <2>2, <2>5, Zenon DEF MapOK
    <2>13. AskOK'
      <3>1. \A x \in cur' : x.req.type = "connection"
        BY <1>0, <2>1, <2>5, Zenon DEF FreshOK
      <3>2. \A x \in cur' : x.req.type # "monitor"
        BY <3>1
      <3> QED BY <1>0, <2>6, <2>9, <3>2, Zenon DEF AskOK
    <2>14. SimOK'
      BY <1>0, <2>5, Zenon DEF SimOK, simvars
    <2>15. crash' = "none"
      BY <1>0, <2>5
    <2> QED BY <2>10, <2>11, <2>12, <2>13, <2>14, <2>15, Zenon DEF SafeBody
  <1> QED BY <1>1, <1>2, <1>3

\* The rest of initialize_db and of handle_connection: the first table is visible,
\* its names are mapped and the scheduler made.
LEMMA ConnectedSafe ==
  ASSUME SafeBody, ReadInv, Connected
  PROVE  SafeBody'
  <1>0. SimOK /\ AskOK /\ TableOK /\ FreshOK /\ MapOK /\ crash = "none"
    BY DEF SafeBody
  <1>1. srv = "load"
    BY Zenon DEF Connected, AtServer
  <1>2. PICK map : map = The(cur).req.f.map
    OBVIOUS
  <1>3. /\ db' = {[d EXCEPT !.map = map] : d \in db} /\ fresh' = None
        /\ \E ok : Respond(ok)
        /\ UNCHANGED <<clients, loads, sim, signal, flags, crash, net>>
    BY <1>2, Zenon DEF Connected
  <1>4. UNCHANGED <<skipLoad, verilator, conns, inbox, query, overlap>>
    BY <1>3, Zenon DEF flags, clients, net
  <1>5. srv' = "idle" /\ cur' = None
    BY <1>3, Zenon DEF Respond, RespondWith, Done
  <1>6. (db = None <=> db' = None) /\ \A f : HasDb(f) <=> HasDb(f)'
    BY <1>0, <1>3, SameTable
  <1>7. FreshOK'
    <2>1. srv' \notin {"create", "reset", "assign"}
      BY <1>5
    <2> QED BY <1>3, <2>1, Zenon DEF FreshOK
  <1>8. AskOK'
    <2>1. srv' \notin {"query", "handle"}
      BY <1>5
    <2> QED BY <1>0, <1>4, <2>1, Zenon DEF AskOK
  <1>9. crash' = "none"
    BY <1>0, <1>3
  <1>10. loads \in {0, 1} /\ skipLoad \in BOOLEAN /\ verilator \in BOOLEAN /\ (skipLoad => loads = 1)
    BY <1>0, Zenon DEF TableOK
  <1>11. loads = 1 => \E f \in DOMAIN Table : HasDb(f)'
    BY <1>0, <1>6, Zenon DEF TableOK
  <1>12. CASE fresh # None /\ ~skipLoad
    <2>1. PICK n \in DOMAIN Table : fresh = {n} /\ Fits(n, verilator)
      BY <1>0, <1>12, Zenon DEF FreshOK
    <2>2. /\ loads = 1 /\ sched = None /\ namespaces = <<NoMapping>> /\ mapped = {}
          /\ \A m \in fresh : HasDb(m) /\ (Table[m].kind = "ws" => result["server"] # None)
      BY <1>0, <1>1, <1>12, Zenon DEF FreshOK
    <2>3. The(fresh) = n
      BY <2>1, TheOnly, Zenon
    <2>4. HasDb(n) /\ (Table[n].kind = "ws" => result["server"] # None)
      BY <2>1, <2>2
    <2>5. PICK d : db = {d} /\ d = [n |-> 1, file |-> n, map |-> d.map]
      BY <2>4, Zenon DEF HasDb
    <2>6. d.file = n
      BY <2>5
    <2>7. The(db) = d
      BY <2>5, TheOnly, Zenon
    <2>8. Info = Table[n]
      BY <2>6, <2>7, Zenon DEF Info
    <2>9. Visible("server")
      BY <2>4, <2>8, Zenon DEF Visible
    <2>10. PICK places, bps : places = Places[n][verilator] /\ bps = EnvBps \cap DOMAIN Info.bps
      OBVIOUS
    <2>11. Load(places, bps)
      BY <1>12, <2>3, <2>9, <2>10, Zenon DEF Connected
    <2>12. PICK ns : ns = ComputeInstanceMapping(<<NoMapping>>, places)
      OBVIOUS
    <2>13. PICK new : new = NewScheduler(1, {<<"normal", b>> : b \in bps})
      OBVIOUS
    <2>14. namespaces' = ns /\ mapped' = mapped \cup NamedAfter(ns, loads) /\ sched' = {new}
      BY <2>2, <2>11, <2>12, <2>13, Zenon DEF Load, ComputeMapping
    <2>15. mapped' = NamedAfter(ns, 1)
      BY <2>2, <2>14
    <2>16. HasSched' /\ sched' # None
      <3>1. new = [table |-> 1, bps |-> new.bps, mode |-> new.mode]
        BY <2>13 DEF NewScheduler
      <3> QED BY <2>14, <3>1, Zenon DEF HasSched, None
    <2>17. TableOK'
      <3>1. loads' = 1 /\ loads' # 0
        BY <1>3, <2>2
      <3> QED BY <1>3, <1>4, <1>10, <1>11, <2>2, <2>16, <3>1, Zenon DEF TableOK
    <2>18. MapOK'
      <3> SUFFICES ASSUME Len(ns) = 1, NEW f \in DOMAIN Table, HasDb(f)', NEW name \in Instances(f)
                   PROVE  \E e \in mapped' : Named(mapped', Head(name)) = {e}
        BY <2>14, Zenon DEF MapOK
      <3>1. f = n
        <4>1. HasDb(f)
          BY <1>6
        <4>2. PICK x \in db : x = [n |-> 1, file |-> f, map |-> x.map]
          BY <4>1, Zenon DEF HasDb
        <4>3. x = d
          BY <2>5, <4>2
        <4> QED BY <2>6, <4>2, <4>3
      <3>2. name \in Instances(n)
        BY <3>1
      <3>3. ns = ComputeInstanceMapping(<<NoMapping>>, Places[n][verilator])
        BY <2>10, <2>12, Zenon
      <3>4. PICK e : Named(NamedAfter(ns, 1), Head(name)) = {e}
        <4>1. PICK v \in BOOLEAN : v = verilator
          BY <1>10
        <4>2. OnePlace(n, v, ns)
          BY <2>1, <3>3, <4>1, Zenon DEF OnePlace
        <4>3. FoundOnce(ns, name)
          BY <3>2, <4>2, PlacedOnce
        <4> QED BY <4>3, Zenon DEF FoundOnce
      <3>5. Named(mapped', Head(name)) = {e}
        BY <2>15, <3>4, Zenon
      <3>6. e \in mapped'
        BY <3>5, Zenon DEF Named
      <3> QED BY <3>5, <3>6
    <2>19. SimOK'
      BY <2>16, Zenon DEF SimOK
    <2> QED BY <1>7, <1>8, <1>9, <2>17, <2>18, <2>19, Zenon DEF SafeBody
  <1>13. CASE ~(fresh # None /\ ~skipLoad)
    <2>1. UNCHANGED <<namespaces, mapped, sched>>
      BY <1>13, Zenon DEF Connected
    <2>2. loads = 1 => sched # None
      BY <1>0, <1>13, Zenon DEF TableOK
    <2>3. HasSched => HasSched'
      BY <2>1, Zenon DEF HasSched
    <2>4. TableOK'
      <3>1. sched' # None => loads = 1 /\ HasSched'
        BY <1>0, <2>1, <2>3, Zenon DEF TableOK
      <3>2. loads = 0 => db' = None /\ sched' = None /\ namespaces' = <<NoMapping>> /\ mapped' = {}
        BY <1>0, <1>6, <2>1, Zenon DEF TableOK
      <3>3. loads' = loads
        BY <1>3
      <3> QED BY <1>4, <1>10, <1>11, <2>1, <2>2, <3>1, <3>2, <3>3, Zenon DEF TableOK
    <2>5. MapOK'
      BY <1>0, <1>6, <2>1, Zenon DEF MapOK
    <2>6. SimOK'
      <3>1. sched # None => SimOK'
        BY <2>1, Zenon DEF SimOK
      <3>2. CASE sched = None
        <4>1. ~skipLoad
          BY <1>10, <2>2, <3>2
        <4>2. attached' = (attached \/ (((fresh # None /\ ~skipLoad) \/ skipLoad) /\ ~verilator))
          BY Zenon DEF Connected
        <4>3. attached' => attached
          BY <1>13, <4>1, <4>2
        <4> QED BY <1>0, <1>3, <1>4, <2>1, <4>3, SimKept, Zenon
      <3> QED BY <3>1, <3>2
    <2> QED BY <1>7, <1>8, <1>9, <2>4, <2>5, <2>6, Zenon DEF SafeBody
  <1> QED BY <1>12, <1>13

-----------------------------------------------------------------------------
(* The theorem                                                             *)

\* A session that is out of order stays so.
LEMMA OrderlyBefore == ASSUME ReadInv, Next, orderly' PROVE orderly
  <1>1. CASE Open
    BY <1>1, Zenon DEF Open, ConnectionsChange
  <1>2. CASE \E ch \in Channels : Close(ch) \/ \E doc \in Messages : Ask(ch, doc)
    BY <1>2, Zenon DEF Close, Ask, ConnectionsChange
  <1>3. CASE \E ch \in Channels : Take(ch)
    BY <1>3, Zenon DEF Take
  <1>4. CASE Reject \/ ServerSends \/ ServerLocks \/ ServerReceives
    BY <1>4, Zenon DEF Reject, ServerSends, ServerLocks, ServerReceives
  <1>5. CASE Create \/ Reset \/ Assign \/ Connected
    BY <1>5, Zenon DEF Create, Reset, Assign, Connected
  <1>6. CASE Handle
    BY <1>6, HandleHandled, Zenon DEF Handled
  <1>7. CASE SimStep \/ Teardown \/ Remote
    BY <1>7, Zenon DEF SimStep, Resume, Eval, Report, SimLocks, SimReceives, Broadcast,
       EndOfSimulation, Teardown, Remote
  <1> QED BY <1>1, <1>2, <1>3, <1>4, <1>5, <1>6, <1>7, Zenon DEF Next, ServerStep

\* Every step of a session that is still in order leaves it safe.
LEMMA SafeStep == ASSUME ReadInv, NetInv, SafeInv, [Next]_vars PROVE SafeInv'
  <1> SUFFICES ASSUME orderly' PROVE SafeBody'
    BY DEF SafeInv
  <1>1. CASE UNCHANGED vars
    <2>1. /\ UNCHANGED <<conns, inbox, srv, cur, table, simvars, crash, net>>
          /\ skipLoad' = skipLoad /\ verilator' = verilator /\ orderly' = orderly
      BY <1>1, Zenon DEF vars, clients, flags
    <2>2. SafeBody
      BY <2>1, Zenon DEF SafeInv
    <2>3. Aside
      BY <2>1, Zenon DEF Aside, net
    <2>4. SimOK' /\ crash' = "none"
      BY <2>1, <2>2, Zenon DEF SafeBody, SimOK, simvars, net, table
    <2> QED BY <2>2, <2>3, <2>4, AsideSafe
  <1>2. CASE Next
    <2>1. orderly
      BY <1>2, OrderlyBefore
    <2>2. SafeBody
      BY <2>1 DEF SafeInv
    <2>3. CASE Open \/ \E ch \in Channels : Close(ch) \/ \E doc \in Messages : Ask(ch, doc)
      BY <2>2, <2>3, ClientSafe
    <2>4. CASE \E ch \in Channels : Take(ch)
      BY <2>2, <2>4, TakeSafe, Zenon
    <2>5. CASE Reject \/ ServerSends \/ ServerLocks \/ ServerReceives
      BY <2>2, <2>5, QuerySafe
    <2>6. CASE Create \/ Reset \/ Assign
      BY <2>2, <2>6, CreateSafe
    <2>7. CASE Connected
      BY <2>2, <2>7, ConnectedSafe
    <2>8. CASE Handle
      <3>1. Served
        BY <2>1, <2>2, <2>8, HandleServes
      <3> QED BY <2>2, <3>1, ServedSafe
    <2>9. CASE SimStep \/ Teardown \/ Remote
      BY <2>2, <2>9, SimSafe
    <2> QED
      BY <1>2, <2>3, <2>4, <2>5, <2>6, <2>7, <2>8, <2>9, Zenon DEF Next, ServerStep
  <1> QED BY <1>1, <1>2

\* A session starts in order, with the table of the environment or with none.
LEMMA SafeInit == ASSUME Init PROVE SafeInv
  <1> SUFFICES ASSUME orderly PROVE SafeBody
    BY DEF SafeInv
  <1>1. /\ conns = {} /\ inbox = [ch \in Channels |-> <<>>]
        /\ srv = "idle" /\ cur = None /\ fresh = None
        /\ sim = "run_wait" /\ signal = FALSE /\ crash = "none" /\ NetInit
    BY Zenon DEF Init
  <1>2. PICK s \in Starts :
          LET ns == IF s.env = None THEN <<NoMapping>>
                    ELSE ComputeInstanceMapping(<<NoMapping>>, Places[The(s.env)][s.verilator])
          IN  /\ verilator = s.verilator
              /\ skipLoad = s.skipLoad
              /\ db = {[n |-> 1, file |-> e, map |-> <<>>] : e \in s.env}
              /\ sched = {NewScheduler(1, Normal(EnvBps)) : e \in s.env}
              /\ loads = Cardinality(s.env)
              /\ namespaces = ns
              /\ mapped = UNION {NamedAfter(ns, 1) : e \in s.env}
              /\ orderly = ((s.skipLoad => s.env # None) /\ \A e \in s.env : Fits(e, s.verilator))
    BY Zenon DEF Init
  <1>3. /\ s.verilator \in BOOLEAN /\ s.skipLoad \in BOOLEAN
        /\ s.env = None \/ \E n \in DOMAIN Table : s.env = {n}
    BY <1>2, SessionAssumption, Zenon
  <1>4. verilator \in BOOLEAN /\ skipLoad \in BOOLEAN /\ (skipLoad => s.env # None)
    BY <1>2, <1>3, Zenon
  <1>5. FreshOK
    <2>1. srv \notin {"create", "reset", "assign"}
      BY <1>1
    <2> QED BY <1>1, <2>1, Zenon DEF FreshOK
  <1>6. AskOK
    <2>1. srv \notin {"query", "handle"} /\ \A ch \in Channels : inbox[ch] = <<>>
      BY <1>1
    <2>2. inbox = [ch \in Channels |-> inbox[ch]]
      BY <1>1
    <2> QED BY <2>1, <2>2, Zenon DEF AskOK
  <1>7. SimOK
    <2>1. query["sim"] = None /\ ~overlap
      BY <1>1, SessionAssumption DEF NetInit
    <2>2. sim \notin {"hit", "asked", "sending", "parked"}
      BY <1>1
    <2> QED BY <1>1, <2>1, <2>2 DEF SimOK
  <1>8. CASE s.env = None
    <2>1. db = {} /\ sched = {} /\ mapped = {} /\ loads = Cardinality({})
      BY <1>2, <1>8 DEF None
    <2>2. loads = 0
      BY <2>1, FS_EmptySet
    <2>3. namespaces = <<NoMapping>>
      BY <1>2, <1>8, Zenon
    <2>4. ~skipLoad
      BY <1>4, <1>8
    <2>5. TableOK
      <3>1. loads # 1 /\ loads \in {0, 1} /\ db = None /\ sched = None
        BY <2>1, <2>2 DEF None
      <3> QED BY <1>4, <2>1, <2>3, <2>4, <3>1, Zenon DEF TableOK
    <2>6. MapOK
      BY <2>1, Zenon DEF MapOK, None
    <2> QED BY <1>1, <1>5, <1>6, <1>7, <2>5, <2>6, Zenon DEF SafeBody
  <1>9. ASSUME NEW n \in DOMAIN Table, s.env = {n}
        PROVE  SafeBody
    <2>1. PICK v \in BOOLEAN : v = s.verilator
      BY <1>3
    <2>2. PICK ns : ns = ComputeInstanceMapping(<<NoMapping>>, Places[n][v])
      OBVIOUS
    <2>3. The(s.env) = n /\ s.env # None
      BY <1>9, TheOnly, Zenon DEF None
    <2>4. namespaces = ns
      BY <1>2, <2>1, <2>2, <2>3, Zenon
    <2>5. mapped = UNION {NamedAfter(ns, 1) : e \in {n}}
      BY <1>2, <1>9, <2>1, <2>2, <2>3, Zenon
    <2>6. mapped = NamedAfter(ns, 1)
      BY <2>5
    <2>7. PICK d : d = [n |-> 1, file |-> n, map |-> <<>>]
      OBVIOUS
    <2>8. db = {d}
      <3>1. db = {[n |-> 1, file |-> e, map |-> <<>>] : e \in {n}}
        BY <1>2, <1>9, Zenon
      <3> QED BY <2>7, <3>1
    <2>9. d.file = n /\ d = [n |-> 1, file |-> n, map |-> d.map]
      BY <2>7
    <2>10. HasDb(n)
      BY <2>8, <2>9, Zenon DEF HasDb
    <2>11. PICK r : r = NewScheduler(1, Normal(EnvBps))
      OBVIOUS
    <2>12. sched = {r}
      <3>1. sched = {NewScheduler(1, Normal(EnvBps)) : e \in {n}}
        BY <1>2, <1>9, Zenon
      <3> QED BY <2>11, <3>1
    <2>13. HasSched /\ sched # None
      <3>1. r = [table |-> 1, bps |-> r.bps, mode |-> r.mode]
        BY <2>11 DEF NewScheduler
      <3> QED BY <2>12, <3>1, Zenon DEF HasSched, None
    <2>14. loads = 1
      BY <1>2, <1>9, FS_Singleton
    <2>15. TableOK
      <3>1. loads # 0 /\ loads \in {0, 1}
        BY <2>14
      <3> QED BY <1>4, <2>10, <2>13, <2>14, <3>1, Zenon DEF TableOK
    <2>16. Fits(n, v)
      BY <1>2, <1>9, <2>1, Zenon
    <2>17. MapOK
      <3> SUFFICES ASSUME Len(ns) = 1, NEW f \in DOMAIN Table, HasDb(f), NEW name \in Instances(f)
                   PROVE  \E e \in mapped : Named(mapped, Head(name)) = {e}
        BY <2>4, Zenon DEF MapOK
      <3>1. f = n
        <4>1. PICK x \in db : x = [n |-> 1, file |-> f, map |-> x.map]
          BY Zenon DEF HasDb
        <4>2. x = d
          BY <2>8, <4>1
        <4> QED BY <2>9, <4>1, <4>2
      <3>2. name \in Instances(n)
        BY <3>1
      <3>3. PICK e : Named(NamedAfter(ns, 1), Head(name)) = {e}
        <4>1. OnePlace(n, v, ns)
          BY <2>2, <2>16, Zenon DEF OnePlace
        <4>2. FoundOnce(ns, name)
          BY <3>2, <4>1, PlacedOnce
        <4> QED BY <4>2, Zenon DEF FoundOnce
      <3>4. Named(mapped, Head(name)) = {e}
        BY <2>6, <3>3, Zenon
      <3>5. e \in mapped
        BY <3>4, Zenon DEF Named
      <3> QED BY <3>4, <3>5
    <2> QED BY <1>1, <1>5, <1>6, <1>7, <2>15, <2>17, Zenon DEF SafeBody
  <1> QED BY <1>3, <1>8, <1>9, Zenon

\* In a session whose clients connect first and once, with a table of the design,
\* name a namespace where there are several, and do not come or go while a hit is
\* broadcast, the debugger never follows a null pointer, uses a freed table or looks
\* up a connection in vain: for any tables, any design, any number of clients.
THEOREM OrderlySessionIsSafe == Spec => []OrderlySessionSafe
  <1>1. Init => ReadInv /\ NetInv /\ SafeInv
    <2> SUFFICES ASSUME Init PROVE ReadInv /\ NetInv /\ SafeInv
      OBVIOUS
    <2>1. srv = "idle" /\ cur = None /\ NetInit
      BY Zenon DEF Init
    <2>2. ReadInv
      BY <2>1, Zenon DEF ReadInv, None
    <2>3. NetInv
      BY <2>1 DEF NetInv, NetInit, None
    <2> QED BY <2>2, <2>3, SafeInit
  <1>2. ReadInv /\ NetInv /\ SafeInv /\ [Next]_vars => ReadInv' /\ NetInv' /\ SafeInv'
    <2> SUFFICES ASSUME ReadInv, NetInv, SafeInv, [Next]_vars PROVE ReadInv' /\ NetInv' /\ SafeInv'
      OBVIOUS
    <2>1. NetInv'
      <3>1. NetStep
        <4>1. CASE UNCHANGED vars
          BY <4>1, Zenon DEF vars, NetStep
        <4>2. CASE Next
          BY <4>2, NextNet
        <4> QED BY <4>1, <4>2
      <3> QED BY <3>1, NetInvStep
    <2> QED BY <2>1, ReadStep, SafeStep
  <1>3. SafeInv => OrderlySessionSafe
    BY DEF SafeInv, SafeBody, OrderlySessionSafe
  <1> QED BY <1>1, <1>2, <1>3, PTL DEF Spec
=============================================================================
