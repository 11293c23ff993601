--------------------------- MODULE SchedulerProofs --------------------------
(***************************************************************************)
(* The scheduler's variables keep their types, and inserted_breakpoints_   *)
(* never names a breakpoint that has no entry, whatever the order in which *)
(* the two threads call the scheduler's methods.                           *)
(***************************************************************************)
EXTENDS Scheduler, SequenceTheorems, FunctionTheorems, FiniteSetTheorems, TLAPS

\* A selection of the entries of a list is a list of entries.
LEMMA PickType ==
  ASSUME NEW S, NEW s \in Seq(S), NEW n \in Nat, NEW f \in [1..n -> DOMAIN s]
  PROVE  /\ Pick(s, f) \in Seq(S)
         /\ DOMAIN Pick(s, f) = 1..n
         /\ \A k \in 1..n : Pick(s, f)[k] = s[f[k]]
<1>1. \A k \in 1..n : s[f[k]] \in S
  BY ElementOfSeq
<1>2. Pick(s, f) = [k \in 1..n |-> s[f[k]]]
  BY DEF Pick
<1>3. QED
  BY <1>1, <1>2, IsASeq

\* Erasing positions keeps the other entries and adds none.
LEMMA SurvivorsType ==
  ASSUME NEW S, NEW s \in Seq(S), NEW D, NEW f \in Survivors(s, D)
  PROVE  \E n \in 0..Len(s) :
            /\ f \in [1..n -> DOMAIN s]
            /\ \A i \in DOMAIN s : i \notin D => \E k \in 1..n : f[k] = i
  BY DEF Survivors

\* Erasing the positions of D leaves a list of the same type that keeps the rest.
LEMMA ErasedList ==
  ASSUME NEW S, NEW s \in Seq(S), NEW t \in Seq(S), DOMAIN t = DOMAIN s,
         NEW D, NEW f \in Survivors(s, D)
  PROVE  /\ Pick(t, f) \in Seq(S)
         /\ \A i \in DOMAIN s :
               i \notin D => \E k \in DOMAIN Pick(t, f) : Pick(t, f)[k] = t[i]
<1>1. PICK n \in 0..Len(s) :
         /\ f \in [1..n -> DOMAIN s]
         /\ \A i \in DOMAIN s : i \notin D => \E k \in 1..n : f[k] = i
  BY SurvivorsType
<1>2. n \in Nat /\ f \in [1..n -> DOMAIN t]
  BY <1>1, LenProperties
<1>3. QED
  BY <1>1, <1>2, PickType

\* A list rebuilt position by position from entries is a list of entries.
LEMMA MapType ==
  ASSUME NEW S, NEW T, NEW s \in Seq(S), NEW t \in [DOMAIN s -> T]
  PROVE  t \in Seq(T) /\ DOMAIN t = DOMAIN s
<1>1. DOMAIN s = 1..Len(s) /\ Len(s) \in Nat
  BY LenProperties
<1>2. QED
  BY <1>1, IsASeq

\* Unsetting the flags keeps the entries and their ids.
LEMMA ClearedType ==
  ASSUME NEW s \in Seq(Entry)
  PROVE  Cleared(s) \in Seq(Entry) /\ Ids(Cleared(s)) = Ids(s)
<1>1. \A i \in DOMAIN s : s[i] \in Entry
  BY ElementOfSeq
<1>2. Cleared(s) \in [DOMAIN s -> Entry]
  BY <1>1 DEF Cleared, Entry
<1>3. DOMAIN Cleared(s) = DOMAIN s /\ \A i \in DOMAIN s : Cleared(s)[i].id = s[i].id
  BY <1>1 DEF Cleared, Entry
<1>4. QED
  BY <1>2, <1>3, MapType DEF Ids

\* Appending entries keeps the ids there were and adds the new ones.
LEMMA ConcatIds ==
  ASSUME NEW s \in Seq(Entry), NEW t \in Seq(Entry)
  PROVE  s \o t \in Seq(Entry) /\ Ids(s \o t) = Ids(s) \cup Ids(t)
<1>1. /\ s \o t \in Seq(Entry)
      /\ DOMAIN (s \o t) = 1..(Len(s) + Len(t))
      /\ \A i \in 1..(Len(s) + Len(t)) :
            (s \o t)[i] = IF i <= Len(s) THEN s[i] ELSE t[i - Len(s)]
  BY ConcatProperties, LenProperties
<1>2. DOMAIN s = 1..Len(s) /\ DOMAIN t = 1..Len(t) /\ Len(s) \in Nat /\ Len(t) \in Nat
  BY LenProperties
<1>3. \A i \in DOMAIN s : i \in DOMAIN (s \o t) /\ (s \o t)[i] = s[i]
  BY <1>1, <1>2
<1>4. \A i \in DOMAIN t :
         Len(s) + i \in DOMAIN (s \o t) /\ (s \o t)[Len(s) + i] = t[i]
  BY <1>1, <1>2
<1>5. \A i \in DOMAIN (s \o t) :
         \/ i \in DOMAIN s /\ (s \o t)[i] = s[i]
         \/ i - Len(s) \in DOMAIN t /\ (s \o t)[i] = t[i - Len(s)]
  BY <1>1, <1>2
<1>6. Ids(s) \cup Ids(t) \subseteq Ids(s \o t)
  BY <1>3, <1>4 DEF Ids
<1>7. Ids(s \o t) \subseteq Ids(s) \cup Ids(t)
  <2> SUFFICES ASSUME NEW i \in DOMAIN (s \o t)
               PROVE  (s \o t)[i].id \in Ids(s) \cup Ids(t)
    BY DEF Ids
  <2>1. QED
    BY <1>5 DEF Ids
<1>8. QED
  BY <1>1, <1>6, <1>7

\* Erasing the positions of D keeps an entry for every id of J, if no id of J
\* is erased.
LEMMA EraseKeepsIds ==
  ASSUME NEW s \in Seq(Entry), NEW t \in Seq(Entry), DOMAIN t = DOMAIN s,
         \A i \in DOMAIN s : t[i].id = s[i].id,
         NEW D, NEW f \in Survivors(s, D),
         NEW J, J \subseteq Ids(s),
         \A i \in DOMAIN s : i \in D => s[i].id \notin J
  PROVE  Pick(t, f) \in Seq(Entry) /\ J \subseteq Ids(Pick(t, f))
<1>1. /\ Pick(t, f) \in Seq(Entry)
      /\ \A i \in DOMAIN s :
            i \notin D => \E k \in DOMAIN Pick(t, f) : Pick(t, f)[k] = t[i]
  BY ErasedList
<1>2. ASSUME NEW id \in J PROVE id \in Ids(Pick(t, f))
  <2>1. PICK i \in DOMAIN s : s[i].id = id
    BY DEF Ids
  <2>2. PICK k \in DOMAIN Pick(t, f) : Pick(t, f)[k] = t[i]
    BY <1>1, <2>1
  <2>3. QED
    BY <2>1, <2>2 DEF Ids
<1>3. QED
  BY <1>1, <1>2

\* Rewriting entries in place keeps the list and its ids.
LEMMA RewriteKeepsIds ==
  ASSUME NEW s \in Seq(Entry), NEW t \in [DOMAIN s -> Entry],
         \A i \in DOMAIN s : t[i].id = s[i].id
  PROVE  t \in Seq(Entry) /\ DOMAIN t = DOMAIN s /\ Ids(t) = Ids(s)
<1>1. t \in Seq(Entry) /\ DOMAIN t = DOMAIN s
  BY MapType
<1>2. QED
  BY <1>1 DEF Ids

-----------------------------------------------------------------------------
Inv == SchedulerTypeOK /\ InsertedTracked

\* The empty scheduler satisfies the invariant.
LEMMA InitInv == SchedulerInit => Inv
<1> SUFFICES ASSUME SchedulerInit PROVE Inv
  OBVIOUS
<1>1. breakpoints \in Seq(Entry)
  BY DEF SchedulerInit
<1>2. inserted = {} /\ batch = {} /\ current = NoBp /\ single \in BOOLEAN
  BY DEF SchedulerInit
<1>3. mode \in Mode /\ fault \in Fault
  BY DEF SchedulerInit, Mode, Fault
<1>4. QED
  BY <1>1, <1>2, <1>3 DEF Inv, SchedulerTypeOK, InsertedTracked

\* What insert_bp builds is an entry, with one flag.
LEMMA NewEntryType ==
  ASSUME NEW id \in BpId, NEW ns \in Ns, NEW flag \in Flag,
         NEW c \in Cond \cup {NoCond}, NEW enable \in Cond, NEW v \in Var \cup {NoVar}
  PROVE  NewEntry(id, ns, flag, c, enable, v) \in Entry
         /\ NewEntry(id, ns, flag, c, enable, v).id = id
<1>1. {flag} \in (SUBSET Flag) \ {{}}
  BY Zenon
<1>2. QED
  BY <1>1 DEF NewEntry, Entry

\* add_breakpoint for a normal breakpoint keeps the invariant.
LEMMA NormalStep ==
  ASSUME Inv, NEW id \in BpId, NEW c \in Cond, AddNormal(id, c)
  PROVE  Inv'
<1> USE DEF Inv, SchedulerTypeOK
<1>1. CASE InsertNormal(id, c)
  <2>1. CASE Correct(id, c)
    <3> DEFINE new == NewEntries(id, "normal", c, NoVar)
    <3>1. NsOf[id] \in Seq(Ns) /\ DbCond[id] \in Cond
      BY SchedulerAssumption
    <3>2. new \in [DOMAIN NsOf[id] -> Entry]
          /\ \A k \in DOMAIN NsOf[id] : new[k].id = id
      <4>1. "normal" \in Flag
        BY DEF Flag
      <4>2. ASSUME NEW k \in DOMAIN NsOf[id]
            PROVE  new[k] \in Entry /\ new[k].id = id
        BY <3>1, <4>1, ElementOfSeq, NewEntryType DEF NewEntries
      <4>3. QED
        BY <4>2 DEF NewEntries
    <3>3. new \in Seq(Entry) /\ DOMAIN new = DOMAIN NsOf[id]
      BY <3>1, <3>2, MapType
    <3>4. NsOf[id] # <<>> => 1 \in DOMAIN new
      BY <3>1, <3>3, EmptySeq, LenProperties
    <3>5. NsOf[id] # <<>> => id \in Ids(new)
      BY <3>2, <3>3, <3>4 DEF Ids
    <3>6. breakpoints' = breakpoints \o new
          /\ inserted' = IF NsOf[id] = <<>> THEN inserted ELSE inserted \cup {id}
      BY <1>1, <2>1 DEF InsertNormal
    <3> HIDE DEF new
    <3>7. breakpoints' \in Seq(Entry) /\ Ids(breakpoints') = Ids(breakpoints) \cup Ids(new)
      BY <3>3, <3>6, ConcatIds
    <3>8. InsertedTracked'
      BY <3>5, <3>6, <3>7 DEF InsertedTracked, Ids
    <3>9. QED
      BY <1>1, <3>6, <3>7, <3>8 DEF InsertNormal
  <2>2. CASE ~Correct(id, c)
    BY <1>1, <2>2 DEF InsertNormal, InsertedTracked
  <2>3. QED
    BY <2>1, <2>2
<1>2. CASE UpdateNormal(id, c)
  <2>1. CASE UNCHANGED breakpoints
    BY <1>2, <2>1 DEF UpdateNormal, InsertedTracked
  <2>2. ASSUME NEW i \in DOMAIN breakpoints,
               breakpoints' = [breakpoints EXCEPT ![i].expr = c,
                                                  ![i].type = @ \cup {"normal"}]
        PROVE  Inv'
    <3>1. \A j \in DOMAIN breakpoints : breakpoints[j] \in Entry
      BY ElementOfSeq
    <3>2. breakpoints' \in [DOMAIN breakpoints -> Entry]
          /\ \A j \in DOMAIN breakpoints : breakpoints'[j].id = breakpoints[j].id
      BY <2>2, <3>1 DEF Entry, Flag
    <3>3. breakpoints' \in Seq(Entry) /\ DOMAIN breakpoints' = DOMAIN breakpoints
      BY <3>2, MapType
    <3>4. Ids(breakpoints') = Ids(breakpoints)
      BY <3>2, <3>3 DEF Ids
    <3>5. QED
      BY <1>2, <3>3, <3>4 DEF UpdateNormal, InsertedTracked
  <2>3. QED
    BY <1>2, <2>1, <2>2 DEF UpdateNormal
<1>3. QED
  BY <1>1, <1>2 DEF AddNormal

\* Appending the entries new, the only new id being id, keeps the invariant.
LEMMA AppendStep ==
  ASSUME Inv, NEW id \in BpId, NEW new \in Seq(Entry), id \in Ids(new),
         breakpoints' = breakpoints \o new,
         inserted' = inserted \cup {id},
         UNCHANGED <<current, mode, single, batch, fault>>
  PROVE  Inv'
<1> USE DEF Inv, SchedulerTypeOK
<1>1. breakpoints' \in Seq(Entry) /\ Ids(breakpoints') = Ids(breakpoints) \cup Ids(new)
  BY ConcatIds
<1>2. InsertedTracked'
  BY <1>1 DEF InsertedTracked, Ids
<1>3. QED
  BY <1>1, <1>2

\* add_data_breakpoint keeps the invariant, the refused ones included.
LEMMA DataStep ==
  ASSUME Inv, NEW id \in BpId, NEW v \in Var, NEW c \in Cond, AddData(id, v, c)
  PROVE  Inv'
<1> DEFINE new == NewEntries(id, "data", c, v)
           half == NewEntry(id, NsOf[id][1], "data", c, DbCond[id], NoVar)
<1>1. NsOf[id] \in Seq(Ns) /\ DbCond[id] \in Cond
  BY SchedulerAssumption
<1>2. CASE /\ NsOf[id] # <<>>
           /\ breakpoints' = breakpoints \o new
           /\ inserted' = inserted \cup {id}
           /\ UNCHANGED fault
  <2>1. new \in [DOMAIN NsOf[id] -> Entry]
        /\ \A k \in DOMAIN NsOf[id] : new[k].id = id
    <3>1. "data" \in Flag
      BY DEF Flag
    <3>2. ASSUME NEW k \in DOMAIN NsOf[id]
          PROVE  new[k] \in Entry /\ new[k].id = id
      BY <1>1, <3>1, ElementOfSeq, NewEntryType DEF NewEntries
    <3>3. QED
      BY <3>2 DEF NewEntries
  <2>2. new \in Seq(Entry) /\ DOMAIN new = DOMAIN NsOf[id]
    BY <1>1, <2>1, MapType
  <2>3. 1 \in DOMAIN new
    BY <1>1, <1>2, <2>2, EmptySeq, LenProperties
  <2>4. id \in Ids(new)
    BY <2>1, <2>2, <2>3 DEF Ids
  <2>5. UNCHANGED <<current, mode, single, batch, fault>>
    BY <1>2 DEF AddData
  <2> HIDE DEF new
  <2>6. QED
    BY <1>2, <2>2, <2>4, <2>5, AppendStep
<1>3. CASE /\ NsOf[id] # <<>>
           /\ breakpoints' = Append(breakpoints, half)
           /\ inserted' = inserted \cup {id}
           /\ UNCHANGED fault
  <2>1. 1 \in 1..Len(NsOf[id])
    BY <1>1, <1>3, EmptySeq
  <2>2. half \in Entry /\ half.id = id
    <3>1. "data" \in Flag /\ NsOf[id][1] \in Ns
      BY <1>1, <2>1, ElementOfSeq DEF Flag
    <3>2. QED
      BY <1>1, <3>1, NewEntryType
  <2> HIDE DEF half
  <2>3. <<half>> \in Seq(Entry) /\ id \in Ids(<<half>>)
    BY <2>2 DEF Ids
  <2>4. breakpoints' = breakpoints \o <<half>>
    BY <1>3, <2>2, AppendIsConcat DEF Inv, SchedulerTypeOK
  <2>5. UNCHANGED <<current, mode, single, batch, fault>>
    BY <1>3 DEF AddData
  <2>6. QED
    BY <1>3, <2>3, <2>4, <2>5, AppendStep
<1>4. CASE UNCHANGED <<breakpoints, inserted>> /\ fault' \in {fault, "null breakpoint"}
  BY <1>4 DEF AddData, Inv, SchedulerTypeOK, InsertedTracked, Fault
<1>5. QED
  BY <1>2, <1>3, <1>4 DEF AddData

\* add_assert_breakpoint keeps the invariant.
LEMMA AssertStep ==
  ASSUME Inv, NEW id \in BpId, NEW ns \in Ns, AddAssert(id, ns)
  PROVE  Inv'
<1> DEFINE e == NewEntry(id, ns, "assert", TrueCond, TrueCond, NoVar)
<1>1. e \in Entry /\ e.id = id
  <2>1. "assert" \in Flag /\ TrueCond \in Cond
    BY SchedulerAssumption DEF Flag
  <2>2. QED
    BY <2>1, NewEntryType
<1>2. breakpoints' = Append(breakpoints, e) /\ inserted' = inserted \cup {id}
      /\ UNCHANGED <<current, mode, single, batch, fault>>
  BY DEF AddAssert
<1> HIDE DEF e
<1>3. <<e>> \in Seq(Entry) /\ id \in Ids(<<e>>)
  BY <1>1 DEF Ids
<1>4. breakpoints' = breakpoints \o <<e>>
  BY <1>1, <1>2, AppendIsConcat DEF Inv, SchedulerTypeOK
<1>5. QED
  BY <1>2, <1>3, <1>4, AppendStep

\* Dropping a flag that is not the only one leaves a flag.
LEMMA DropFlag ==
  ASSUME NEW T \in (SUBSET Flag) \ {{}}, NEW flag, ~(T \subseteq {flag})
  PROVE  T \ {flag} \in (SUBSET Flag) \ {{}}
  OBVIOUS

\* remove_breakpoint keeps the invariant: an id leaves inserted_breakpoints_
\* together with the first of its entries.
LEMMA RemoveStep ==
  ASSUME Inv, NEW id \in BpId, NEW flag \in Flag, RemoveFlag(id, flag)
  PROVE  Inv'
<1> USE DEF Inv, SchedulerTypeOK
<1>1. CASE UNCHANGED <<breakpoints, inserted>>
  BY <1>1 DEF RemoveFlag, InsertedTracked
<1>2. ASSUME NEW i \in DOMAIN breakpoints, breakpoints[i].id = id,
             NEW f \in Survivors(breakpoints, {i}),
             breakpoints' = Pick(breakpoints, f),
             inserted' = inserted \ {id}
      PROVE  Inv'
  <2>1. Pick(breakpoints, f) \in Seq(Entry)
        /\ inserted \ {id} \subseteq Ids(Pick(breakpoints, f))
    BY <1>2, EraseKeepsIds DEF InsertedTracked
  <2>2. QED
    BY <1>2, <2>1 DEF RemoveFlag, InsertedTracked, Ids
<1>3. ASSUME NEW i \in DOMAIN breakpoints,
             ~(breakpoints[i].type \subseteq {flag}),
             breakpoints' = [breakpoints EXCEPT ![i].type = @ \ {flag}],
             UNCHANGED inserted
      PROVE  Inv'
  <2>1. \A j \in DOMAIN breakpoints : breakpoints[j] \in Entry
    BY ElementOfSeq
  <2>2. breakpoints' \in [DOMAIN breakpoints -> Entry]
        /\ \A j \in DOMAIN breakpoints : breakpoints'[j].id = breakpoints[j].id
    <3>1. breakpoints[i].type \in (SUBSET Flag) \ {{}}
      BY <2>1 DEF Entry
    <3>2. breakpoints[i].type \ {flag} \in (SUBSET Flag) \ {{}}
      BY <1>3, <3>1, DropFlag
    <3>3. QED
      BY <1>3, <2>1, <3>2 DEF Entry
  <2>3. breakpoints' \in Seq(Entry) /\ Ids(breakpoints') = Ids(breakpoints)
    BY <2>2, RewriteKeepsIds
  <2>4. QED
    BY <1>3, <2>3 DEF RemoveFlag, InsertedTracked, Ids
<1>4. QED
  BY <1>1, <1>2, <1>3 DEF RemoveFlag

\* clear_data_breakpoints keeps the invariant.
LEMMA ClearDataStep ==
  ASSUME Inv, ClearData
  PROVE  Inv'
<1> USE DEF Inv, SchedulerTypeOK
<1> DEFINE isData(i) == "data" \in breakpoints[i].type
           both(i) == isData(i) /\ "normal" \in breakpoints[i].type
           ids == {breakpoints[i].id : i \in {j \in DOMAIN breakpoints :
                                                 isData(j) /\ ~both(j)}}
           gone == {i \in DOMAIN breakpoints :
                       breakpoints[i].id \in ids /\ IsFirst(breakpoints, i)}
           kept == [i \in DOMAIN breakpoints |->
                       [breakpoints[i] EXCEPT !.type = IF both(i) THEN {"normal"} ELSE @]]
<1>1. \A j \in DOMAIN breakpoints : breakpoints[j] \in Entry
  BY ElementOfSeq
<1>2. kept \in [DOMAIN breakpoints -> Entry]
      /\ \A j \in DOMAIN breakpoints : kept[j].id = breakpoints[j].id
  BY <1>1 DEF Entry, Flag
<1>3. PICK f \in Survivors(breakpoints, gone) : breakpoints' = Pick(kept, f)
  BY DEF ClearData
<1>4. inserted' = inserted \ ids /\ UNCHANGED <<current, mode, single, batch, fault>>
  BY DEF ClearData
<1>5. \A i \in DOMAIN breakpoints : i \in gone => breakpoints[i].id \notin inserted \ ids
  OBVIOUS
<1> HIDE DEF kept, gone, ids
<1>6. kept \in Seq(Entry) /\ DOMAIN kept = DOMAIN breakpoints
  BY <1>2, RewriteKeepsIds
<1>7. Pick(kept, f) \in Seq(Entry) /\ inserted \ ids \subseteq Ids(Pick(kept, f))
  BY <1>2, <1>3, <1>5, <1>6, EraseKeepsIds DEF InsertedTracked
<1>8. QED
  BY <1>3, <1>4, <1>7 DEF InsertedTracked, Ids

\* reorder_breakpoints keeps the invariant: sorting permutes the entries.
LEMMA ReorderStep ==
  ASSUME Inv, Reorder
  PROVE  Inv'
<1> USE DEF Inv, SchedulerTypeOK
<1>1. PICK p \in [DOMAIN breakpoints -> DOMAIN breakpoints] :
         /\ \A i, j \in DOMAIN breakpoints : p[i] = p[j] => i = j
         /\ breakpoints' = Pick(breakpoints, p)
  BY DEF Reorder
<1> DEFINE n == Len(breakpoints)
<1>2. DOMAIN breakpoints = 1..n /\ n \in Nat
  BY LenProperties
<1> HIDE DEF n
<1>3. /\ breakpoints' \in Seq(Entry)
      /\ DOMAIN breakpoints' = 1..n
      /\ \A k \in 1..n : breakpoints'[k] = breakpoints[p[k]]
  BY <1>1, <1>2, PickType
<1>4. \A i \in 1..n : \E k \in 1..n : p[k] = i
  <2>1. IsFiniteSet(1..n)
    BY <1>2, FS_Interval
  <2>2. p \in Injection(1..n, 1..n)
    BY <1>1, <1>2, Fun_IsInj
  <2>3. p \in Surjection(1..n, 1..n)
    BY <2>1, <2>2, FS_Injection
  <2>4. QED
    BY <2>3 DEF Surjection
<1>5. ASSUME NEW id \in Ids(breakpoints) PROVE id \in Ids(breakpoints')
  <2>1. PICK i \in 1..n : breakpoints[i].id = id
    BY <1>2 DEF Ids
  <2>2. PICK k \in 1..n : p[k] = i
    BY <1>4
  <2>3. k \in DOMAIN breakpoints' /\ breakpoints'[k].id = id
    BY <1>3, <2>1, <2>2
  <2>4. QED
    BY <2>3 DEF Ids
<1>6. QED
  BY <1>3, <1>5 DEF Reorder, InsertedTracked, Ids

\* start_breakpoint_evaluation keeps the invariant: an assertion's id leaves
\* inserted_breakpoints_ with the entry.
LEMMA StartStep ==
  ASSUME Inv, Start
  PROVE  Inv'
<1> USE DEF Inv, SchedulerTypeOK
<1> DEFINE hit == {i \in DOMAIN breakpoints :
                      /\ breakpoints[i].id \in inserted
                      /\ IsFirst(breakpoints, i)
                      /\ "assert" \in breakpoints[i].type
                      /\ breakpoints[i].evaluated}
           gone == {i \in hit : breakpoints[i].type = {"assert"}}
           kept == [i \in DOMAIN breakpoints |->
                       [breakpoints[i] EXCEPT
                           !.type = IF i \in hit \ gone THEN @ \ {"assert"} ELSE @]]
           left == inserted \ {breakpoints[i].id : i \in gone}
<1>1. \A j \in DOMAIN breakpoints : breakpoints[j] \in Entry
  BY ElementOfSeq
<1>2. kept \in [DOMAIN breakpoints -> Entry]
      /\ \A j \in DOMAIN breakpoints : kept[j].id = breakpoints[j].id
  <2>1. ASSUME NEW i \in hit \ gone
        PROVE  breakpoints[i].type \ {"assert"} \in (SUBSET Flag) \ {{}}
    <3>1. /\ breakpoints[i].type \in (SUBSET Flag) \ {{}}
          /\ "assert" \in breakpoints[i].type
          /\ breakpoints[i].type # {"assert"}
      BY <1>1, <2>1 DEF Entry
    <3>2. QED
      BY <3>1, DropFlag
  <2>2. QED
    BY <1>1, <2>1 DEF Entry
<1>3. PICK f \in Survivors(breakpoints, gone) : breakpoints' = Cleared(Pick(kept, f))
  BY DEF Start
<1>4. inserted' = left /\ current' = NoBp /\ UNCHANGED <<mode, single, batch, fault>>
  BY DEF Start
<1>5. /\ \A i \in DOMAIN breakpoints : i \in gone => breakpoints[i].id \notin left
      /\ left \subseteq inserted
  OBVIOUS
<1> HIDE DEF kept, gone, hit, left
<1>6. kept \in Seq(Entry) /\ DOMAIN kept = DOMAIN breakpoints
  BY <1>2, RewriteKeepsIds
<1>7. Pick(kept, f) \in Seq(Entry) /\ left \subseteq Ids(Pick(kept, f))
  BY <1>2, <1>3, <1>5, <1>6, EraseKeepsIds DEF InsertedTracked
<1>8. breakpoints' \in Seq(Entry) /\ Ids(breakpoints') = Ids(Pick(kept, f))
  BY <1>3, <1>7, ClearedType
<1>9. QED
  BY <1>4, <1>5, <1>7, <1>8 DEF InsertedTracked, Ids

\* The methods that change no list keep the invariant, and so do clear() and
\* set_evaluation_mode().
LEMMA SettingStep ==
  ASSUME Inv,
         \/ ClearAll \/ UnsetFlags
         \/ \E m \in Mode : AssignMode(m)
         \/ \E b \in BOOLEAN : SetSingle(b)
  PROVE  Inv'
<1> USE DEF Inv, SchedulerTypeOK, InsertedTracked
<1>1. CASE ClearAll
  BY <1>1 DEF ClearAll
<1>2. CASE UnsetFlags
  <2>1. breakpoints' \in Seq(Entry) /\ Ids(breakpoints') = Ids(breakpoints)
    BY <1>2, ClearedType DEF UnsetFlags
  <2>2. QED
    BY <1>2, <2>1 DEF UnsetFlags, Ids
<1>3. ASSUME NEW m \in Mode, AssignMode(m) PROVE Inv'
  BY <1>3 DEF AssignMode
<1>4. ASSUME NEW b \in BOOLEAN, SetSingle(b) PROVE Inv'
  BY <1>4 DEF SetSingle
<1>5. QED
  BY <1>1, <1>2, <1>3, <1>4

\* Handing out entries of the list keeps the list, its ids and the batch typed.
LEMMA HandOutType ==
  ASSUME Inv, NEW I, I \subseteq DOMAIN breakpoints, HandOut(I)
  PROVE  /\ breakpoints' \in Seq(Entry)
         /\ Ids(breakpoints') = Ids(breakpoints)
         /\ batch' \subseteq Entry
<1>1. \A j \in DOMAIN breakpoints : breakpoints[j] \in Entry
  BY ElementOfSeq DEF Inv, SchedulerTypeOK
<1>2. \A j \in DOMAIN breakpoints :
         Evaluated(breakpoints[j]) \in Entry
         /\ Evaluated(breakpoints[j]).id = breakpoints[j].id
  BY <1>1 DEF Evaluated, Entry
<1>3. breakpoints' \in [DOMAIN breakpoints -> Entry]
      /\ \A j \in DOMAIN breakpoints : breakpoints'[j].id = breakpoints[j].id
  BY <1>1, <1>2 DEF HandOut
<1>4. batch' \subseteq Entry
  BY <1>2 DEF HandOut
<1>5. QED
  BY <1>3, <1>4, RewriteKeepsIds DEF Inv, SchedulerTypeOK

\* next_breakpoints keeps the invariant, in every evaluation mode.
LEMMA NextStep ==
  ASSUME Inv, NextBreakpoints
  PROVE  Inv'
<1> USE DEF Inv, SchedulerTypeOK
<1>1. ASSUME NothingNext PROVE Inv'
  BY <1>1 DEF NothingNext, InsertedTracked
<1>2. ASSUME NEW I, I \subseteq DOMAIN breakpoints, HandOut(I),
             NEW i \in DOMAIN breakpoints, current' = breakpoints[i].id,
             UNCHANGED <<inserted, mode, single, fault>>
      PROVE  Inv'
  <2>1. breakpoints[i].id \in BpId
    <3>1. breakpoints[i] \in Entry
      BY ElementOfSeq
    <3>2. QED
      BY <3>1 DEF Entry
  <2>2. /\ breakpoints' \in Seq(Entry)
        /\ Ids(breakpoints') = Ids(breakpoints)
        /\ batch' \subseteq Entry
    BY <1>2, HandOutType
  <2>3. QED
    BY <1>2, <2>1, <2>2 DEF InsertedTracked, Ids
<1>3. ASSUME NEW id \in BpId, StepTo(id) PROVE Inv'
  <2>1. NsOf[id] \in Seq(Ns) /\ DbCond[id] \in Cond
    BY SchedulerAssumption
  <2>2. Temporaries(id) \subseteq Entry
    <3> SUFFICES ASSUME NEW k \in DOMAIN NsOf[id]
                 PROVE  [id |-> id, ns |-> NsOf[id][k], type |-> {"normal"},
                         evaluated |-> TRUE, expr |-> NoCond,
                         enable |-> DbCond[id], var |-> NoVar] \in Entry
      BY DEF Temporaries
    <3>1. NsOf[id][k] \in Ns
      BY <2>1, ElementOfSeq
    <3>2. {"normal"} \in (SUBSET Flag) \ {{}}
      BY Zenon DEF Flag
    <3>3. QED
      BY <2>1, <3>1, <3>2 DEF Entry
  <2>3. QED
    BY <1>3, <2>2 DEF StepTo, InsertedTracked
<1>4. CASE NextNormal
  <2>1. ASSUME NEW i \in DOMAIN breakpoints, current' = breakpoints[i].id,
               HandOut({i} \cup IF ~single /\ breakpoints[i].type = {"normal"}
                                THEN Scan(i, TRUE) ELSE {}),
               UNCHANGED <<inserted, mode, single, fault>>
        PROVE  Inv'
    <3>1. Scan(i, TRUE) \subseteq DOMAIN breakpoints
      BY DEF Scan
    <3>2. QED
      BY <1>2, <2>1, <3>1
  <2>2. QED
    BY <1>1, <1>4, <2>1 DEF NextNormal
<1>5. CASE NextReverse
  <2>1. ASSUME NEW i \in DOMAIN breakpoints,
               HandOut({i} \cup IF single THEN {} ELSE Scan(i, FALSE)),
               NEW last \in {i} \cup IF single THEN {} ELSE Scan(i, FALSE),
               current' = breakpoints[last].id,
               UNCHANGED <<inserted, mode, single, fault>>
        PROVE  Inv'
    <3>1. Scan(i, FALSE) \subseteq DOMAIN breakpoints
      BY DEF Scan
    <3>2. last \in DOMAIN breakpoints
      BY <2>1, <3>1
    <3>3. QED
      BY <1>2, <2>1, <3>1, <3>2
  <2>2. CASE /\ fault' = "empty optional"
             /\ UNCHANGED <<breakpoints, inserted, current, mode, single, batch>>
    BY <2>2 DEF InsertedTracked, Fault
  <2>3. QED
    BY <1>1, <1>5, <2>1, <2>2 DEF NextReverse
<1>6. \A i \in DOMAIN Order : Order[i] \in BpId
  BY SchedulerAssumption, ElementOfSeq
<1>7. CASE NextStepOver
  BY <1>1, <1>3, <1>6, <1>7 DEF NextStepOver
<1>8. CASE NextStepBack
  <2>1. ASSUME NEW r \in Rewinds, current # NoBp,
               StepTo(Order[IF r THEN Len(Order) ELSE 1])
        PROVE  Inv'
    <3>1. current \in BpId
      BY <2>1
    <3>2. PICK i \in DOMAIN Order : Order[i] = current
      BY <3>1, SchedulerAssumption
    <3>3. DOMAIN Order = 1..Len(Order) /\ Len(Order) \in Nat
      BY SchedulerAssumption, LenProperties
    <3>4. 1 \in DOMAIN Order /\ Len(Order) \in DOMAIN Order
      BY <3>2, <3>3
    <3>5. QED
      BY <1>3, <1>6, <2>1, <3>4
  <2>2. QED
    BY <1>1, <1>3, <1>6, <1>8, <2>1 DEF NextStepBack
<1>9. QED
  BY <1>1, <1>4, <1>5, <1>7, <1>8 DEF NextBreakpoints

-----------------------------------------------------------------------------
\* The invariant is inductive.
LEMMA InvStep == Inv /\ [SchedulerNext]_svars => Inv'
<1> SUFFICES ASSUME Inv, [SchedulerNext]_svars PROVE Inv'
  OBVIOUS
<1>1. CASE UNCHANGED svars
  BY <1>1 DEF svars, Inv, SchedulerTypeOK, InsertedTracked
<1>2. CASE Edit
  <2>1. ASSUME NEW id \in BpId, NEW flag \in {"normal", "data"}, RemoveFlag(id, flag)
        PROVE  Inv'
    BY <2>1, RemoveStep DEF Flag
  <2>2. QED
    BY <1>2, <2>1, NormalStep, DataStep, ClearDataStep, ReorderStep, SettingStep
    DEF Edit, AddNormal
<1>3. CASE Simulate
  <2>1. ASSUME NEW a \in Asserts, AddAssert(a[1], a[2]) PROVE Inv'
    BY <2>1, AssertStep, SchedulerAssumption
  <2>2. QED
    BY <1>3, <2>1, StartStep, NextStep DEF Simulate
<1>4. QED
  BY <1>1, <1>2, <1>3 DEF SchedulerNext

\* The scheduler's state is well typed, for every symbol table and every order
\* of the calls.
THEOREM SchedulerTypeCorrect == SchedulerSpec => []SchedulerTypeOK
<1>1. Inv => SchedulerTypeOK
  BY DEF Inv
<1>2. QED
  BY InitInv, InvStep, <1>1, PTL DEF SchedulerSpec

\* Every id of inserted_breakpoints_ has an entry in breakpoints_, for every
\* symbol table and every order of the calls.
THEOREM SchedulerInsertedTracked == SchedulerSpec => []InsertedTracked
<1>1. Inv => InsertedTracked
  BY DEF Inv
<1>2. QED
  BY InitInv, InvStep, <1>1, PTL DEF SchedulerSpec

-----------------------------------------------------------------------------
\* Handing out entries at one source position leaves a batch at that position.
LEMMA HandOutLocation ==
  ASSUME Inv, NEW i \in DOMAIN breakpoints, NEW I, I \subseteq DOMAIN breakpoints,
         \A j \in I : Loc[breakpoints[j].id] = Loc[breakpoints[i].id],
         HandOut(I)
  PROVE  BatchOneLocation'
<1>1. \A j \in DOMAIN breakpoints : Evaluated(breakpoints[j]).id = breakpoints[j].id
  <2>1. \A j \in DOMAIN breakpoints : breakpoints[j] \in Entry
    BY ElementOfSeq DEF Inv, SchedulerTypeOK
  <2>2. QED
    BY <2>1 DEF Evaluated, Entry
<1>2. \A e \in batch' : Loc[e.id] = Loc[breakpoints[i].id]
  BY <1>1 DEF HandOut
<1>3. QED
  BY <1>2 DEF BatchOneLocation

\* scan_breakpoints, in either direction, only finds entries at ref's position.
LEMMA ScanLocation ==
  ASSUME Inv, NEW ref \in DOMAIN breakpoints, NEW forward \in BOOLEAN
  PROVE  /\ Scan(ref, forward) \subseteq DOMAIN breakpoints
         /\ \A j \in Scan(ref, forward) : Loc[breakpoints[j].id] = Loc[breakpoints[ref].id]
<1>1. DOMAIN breakpoints \subseteq Nat
  BY LenProperties DEF Inv, SchedulerTypeOK
<1>2. ASSUME NEW j \in Scan(ref, forward)
      PROVE  Loc[breakpoints[j].id] = Loc[breakpoints[ref].id]
  <2>1. /\ j \in DOMAIN breakpoints
        /\ \A k \in DOMAIN breakpoints :
              (ref <= k /\ k <= j) \/ (j <= k /\ k <= ref)
                => Loc[breakpoints[k].id] = Loc[breakpoints[ref].id]
    BY DEF Scan
  <2>2. (ref <= j /\ j <= j) \/ (j <= j /\ j <= ref)
    BY <1>1, <2>1
  <2>3. QED
    BY <2>1, <2>2
<1>3. QED
  BY <1>2 DEF Scan

\* next_breakpoints hands out breakpoints of one source position, in every mode.
LEMMA NextLocation ==
  ASSUME Inv, BatchOneLocation, NextBreakpoints
  PROVE  BatchOneLocation'
<1>1. ASSUME NothingNext PROVE BatchOneLocation'
  BY <1>1 DEF NothingNext, BatchOneLocation
<1>2. ASSUME NEW id, StepTo(id) PROVE BatchOneLocation'
  <2>1. \A e \in batch' : e.id = id
    BY <1>2 DEF StepTo, Temporaries
  <2>2. QED
    BY <2>1 DEF BatchOneLocation
<1>3. CASE NextNormal
  <2>1. ASSUME NEW i \in DOMAIN breakpoints,
               HandOut({i} \cup IF ~single /\ breakpoints[i].type = {"normal"}
                                THEN Scan(i, TRUE) ELSE {})
        PROVE  BatchOneLocation'
    <3> DEFINE I == {i} \cup IF ~single /\ breakpoints[i].type = {"normal"}
                           THEN Scan(i, TRUE) ELSE {}
    <3>1. /\ I \subseteq DOMAIN breakpoints
          /\ \A j \in I : Loc[breakpoints[j].id] = Loc[breakpoints[i].id]
      BY ScanLocation
    <3> HIDE DEF I
    <3>2. HandOut(I)
      BY <2>1 DEF I
    <3>3. QED
      BY <3>1, <3>2, HandOutLocation
  <2>2. QED
    BY <1>1, <1>3, <2>1 DEF NextNormal
<1>4. CASE NextReverse
  <2>1. ASSUME NEW i \in DOMAIN breakpoints,
               HandOut({i} \cup IF single THEN {} ELSE Scan(i, FALSE))
        PROVE  BatchOneLocation'
    <3> DEFINE I == {i} \cup IF single THEN {} ELSE Scan(i, FALSE)
    <3>1. /\ I \subseteq DOMAIN breakpoints
          /\ \A j \in I : Loc[breakpoints[j].id] = Loc[breakpoints[i].id]
      BY ScanLocation
    <3> HIDE DEF I
    <3>2. HandOut(I)
      BY <2>1 DEF I
    <3>3. QED
      BY <3>1, <3>2, HandOutLocation
  <2>2. CASE UNCHANGED batch
    BY <2>2 DEF BatchOneLocation
  <2>3. QED
    BY <1>1, <1>4, <2>1, <2>2 DEF NextReverse
<1>5. CASE NextStepOver
  BY <1>1, <1>2, <1>5 DEF NextStepOver
<1>6. CASE NextStepBack
  BY <1>1, <1>2, <1>6 DEF NextStepBack
<1>7. QED
  BY <1>1, <1>3, <1>4, <1>5, <1>6 DEF NextBreakpoints

\* Only next_breakpoints hands breakpoints out: the other calls of the two
\* threads leave the last batch alone.
LEMMA BatchKept ==
  ASSUME \/ Edit \/ Start
         \/ \E id \in BpId, ns \in Ns : AddAssert(id, ns)
         \/ \E id \in BpId, c \in Cond : AddNormal(id, c)
  PROVE  batch' = batch
<1>1. CASE Edit
  BY <1>1 DEF Edit, InsertNormal, UpdateNormal, AddData, RemoveFlag, ClearData, Reorder,
              ClearAll, UnsetFlags, AssignMode, SetSingle
<1>2. CASE Start
  BY <1>2 DEF Start
<1>3. QED
  BY <1>1, <1>2 DEF AddAssert, AddNormal, InsertNormal, UpdateNormal

\* The breakpoints handed out together are at one source position, for every
\* symbol table, every order of the calls and every evaluation mode.
THEOREM OneLocationPerBatch == SchedulerSpec => []BatchOneLocation
<1>1. SchedulerInit => BatchOneLocation
  BY DEF SchedulerInit, BatchOneLocation
<1>2. Inv /\ BatchOneLocation /\ [SchedulerNext]_svars => BatchOneLocation'
  <2> SUFFICES ASSUME Inv, BatchOneLocation, [SchedulerNext]_svars
               PROVE  BatchOneLocation'
    OBVIOUS
  <2>1. CASE batch' = batch
    BY <2>1 DEF BatchOneLocation
  <2>2. ASSUME NEW a \in Asserts, AddAssert(a[1], a[2]) PROVE batch' = batch
    BY <2>2 DEF AddAssert
  <2>3. CASE Simulate
    BY <2>1, <2>2, <2>3, NextLocation, BatchKept DEF Simulate
  <2>4. CASE UNCHANGED svars
    BY <2>1, <2>4 DEF svars
  <2>5. QED
    BY <2>1, <2>3, <2>4, BatchKept DEF SchedulerNext
<1>3. QED
  BY InitInv, InvStep, <1>1, <1>2, PTL DEF SchedulerSpec
=============================================================================
