-------------------------- MODULE RefImportProofs --------------------------
(***************************************************************************)
(* Theorems about RefImport, for any catalog of 1C, any lists of steps and  *)
(* any bounds.                                                              *)
(***************************************************************************)
EXTENDS RefImport, TLAPS

-----------------------------------------------------------------------------
(***************************************************************************)
(* The import procedures.                                                   *)
(***************************************************************************)

\* A flag belongs to a row of ADDITION_UNIT.
FlagHasRow(d) == \A i \in Items : d.default_unit[i] # "none" => d.stored[AddUnit(i)] # Absent

DefaultOnce(d) ==
    \A i, j \in Items :
        Owner[i] = Owner[j] /\ d.default_unit[i] = "Y" /\ d.default_unit[j] = "Y" => i = j

GoodTables(d) == d \in Tables /\ FlagHasRow(d) /\ DefaultOnce(d)

\* The kinds of objects do not overlap, and an object is its kind and its owner.
LEMMA KindOf ==
    ASSUME NEW o \in Objects
    PROVE  /\ o[1] \in Kinds
           /\ o[1] = "nomens" <=> o \in Nomens
           /\ o[1] = "add_units" <=> o \in AddUnits
           /\ o[1] = "add_units" => o[2] \in Items /\ o = AddUnit(o[2])
BY DEF Objects, Nomens, AddUnits, Barcodes, FClients, Kinds, AddUnit

LEMMA UnitObject ==
    /\ \A i \in Items : AddUnit(i) \in AddUnits /\ AddUnit(i) \in Objects
    /\ \A i, j \in Items : AddUnit(i) = AddUnit(j) => i = j
BY DEF AddUnits, AddUnit, Objects

\* PS_1C_IMPORT_ADD_UNITS keeps at most one default unit: the row that gets the flag
\* takes it from every other row of the good, none of which has the same unit.
LEMMA AddUnitKeeps ==
    ASSUME NEW d, GoodTables(d), NEW i \in Items, NEW v \in Contents,
           ~AddUnitRefused(d, AddUnit(i), v)
    PROVE  GoodTables(ImportAddUnit(d, AddUnit(i), v))
<1> DEFINE e == ImportAddUnit(d, AddUnit(i), v)
<1>1. CASE v = NoUnit
  BY <1>1 DEF ImportAddUnit
<1>2. CASE v # NoUnit
  <2> DEFINE base(j) == d.stored[Nomen(Owner[j])]
             flag(j) == IF j = i THEN IF base(j) = v THEN "Y" ELSE "N"
                        ELSE IF /\ Owner[j] = Owner[i] /\ base(j) = v
                                /\ d.stored[AddUnit(j)] \notin {Absent, v}
                             THEN "N" ELSE d.default_unit[j]
  <2>0. AddUnit(i)[2] = i
    BY DEF AddUnit
  <2>1. e = [stored |-> [d.stored EXCEPT ![AddUnit(i)] = v],
             default_unit |-> [j \in Items |-> flag(j)]]
    BY <1>2, <2>0 DEF ImportAddUnit
  <2>2. /\ d.stored \in [Objects -> Contents \cup {Absent}]
        /\ d.default_unit \in [Items -> {"Y", "N", "none"}]
    BY DEF GoodTables, Tables
  <2>3. e.stored = [d.stored EXCEPT ![AddUnit(i)] = v]
    BY <2>1
  <2>4. e.default_unit = [j \in Items |-> flag(j)]
    BY <2>1
  <2>5. v # Absent
    BY ImportAssumption
  <2> HIDE DEF e
  <2>6. e \in Tables
    <3>1. [d.stored EXCEPT ![AddUnit(i)] = v] \in [Objects -> Contents \cup {Absent}]
      BY <2>2
    <3>2. \A j \in Items : flag(j) \in {"Y", "N", "none"}
      BY <2>2
    <3>3. [j \in Items |-> flag(j)] \in [Items -> {"Y", "N", "none"}]
      BY <3>2
    <3> QED BY <2>1, <3>1, <3>3 DEF Tables
  <2>7. FlagHasRow(e)
    <3> SUFFICES ASSUME NEW j \in Items, e.default_unit[j] # "none"
                 PROVE  e.stored[AddUnit(j)] # Absent
      BY DEF FlagHasRow
    <3>1. CASE j = i
      BY <3>1, <2>2, <2>3, <2>5, UnitObject
    <3>2. CASE j # i
      <4>1. e.stored[AddUnit(j)] = d.stored[AddUnit(j)]
        BY <3>2, <2>2, <2>3, UnitObject
      <4>2. e.default_unit[j] = flag(j)
        BY <2>4
      <4>3. flag(j) = d.default_unit[j] \/ d.stored[AddUnit(j)] # Absent
        BY <3>2
      <4> QED BY <4>1, <4>2, <4>3 DEF GoodTables, FlagHasRow
    <3> QED BY <3>1, <3>2
  <2>8. DefaultOnce(e)
    <3>1. ASSUME NEW j \in Items, j # i, Owner[j] = Owner[i], flag(i) = "Y", flag(j) = "Y"
          PROVE  FALSE
      <4>1. base(i) = v /\ base(j) = v
        BY <3>1
      <4>2. d.default_unit[j] = "Y" /\ d.stored[AddUnit(j)] \in {Absent, v}
        BY <3>1, <4>1
      <4>3. d.stored[AddUnit(j)] # Absent
        BY <4>2 DEF GoodTables, FlagHasRow
      <4>4. d.stored[AddUnit(j)] = v
        BY <4>2, <4>3
      <4> QED BY <1>2, <2>0, <3>1, <4>4 DEF AddUnitRefused
    <3>2. \A j, k \in Items : Owner[j] = Owner[k] /\ flag(j) = "Y" /\ flag(k) = "Y" => j = k
      <4> SUFFICES ASSUME NEW j \in Items, NEW k \in Items,
                          Owner[j] = Owner[k], flag(j) = "Y", flag(k) = "Y", j # k
                   PROVE  FALSE
        OBVIOUS
      <4>1. CASE j = i
        BY <3>1, <4>1
      <4>2. CASE k = i
        BY <3>1, <4>2
      <4>3. CASE j # i /\ k # i
        <5>1. d.default_unit[j] = "Y" /\ d.default_unit[k] = "Y"
          BY <4>3
        <5> QED BY <5>1 DEF GoodTables, DefaultOnce
      <4> QED BY <4>1, <4>2, <4>3
    <3> QED BY <3>2, <2>4 DEF DefaultOnce
  <2> QED BY <2>6, <2>7, <2>8 DEF GoodTables, e
<1> QED BY <1>1, <1>2

\* The other procedures leave ADDITION_UNIT alone.
LEMMA StoreKeeps ==
    ASSUME NEW d, GoodTables(d), NEW o \in Objects, o \notin AddUnits, NEW v \in Contents
    PROVE  GoodTables(Stored(d, o, v))
<1> DEFINE e == Stored(d, o, v)
<1>1. /\ d.stored \in [Objects -> Contents \cup {Absent}]
      /\ d.default_unit \in [Items -> {"Y", "N", "none"}]
  BY DEF GoodTables, Tables
<1>2. e = [stored |-> [d.stored EXCEPT ![o] = v], default_unit |-> d.default_unit]
  BY DEF Stored
<1>3. e \in Tables
  BY <1>1, <1>2 DEF Tables
<1>4. \A i \in Items : e.stored[AddUnit(i)] = d.stored[AddUnit(i)]
  BY <1>1, <1>2, UnitObject
<1>5. e.default_unit = d.default_unit
  BY <1>2
<1> QED BY <1>3, <1>4, <1>5 DEF GoodTables, FlagHasRow, DefaultOnce

LEMMA ImportKeeps ==
    ASSUME NEW d, GoodTables(d), NEW o \in Objects, NEW v \in Contents, ~Refused(d, o, v)
    PROVE  GoodTables(Imported(d, o, v))
<1>1. CASE o[1] = "add_units"
  <2>1. o[2] \in Items /\ o = AddUnit(o[2])
    BY <1>1, KindOf
  <2>2. Imported(d, o, v) = ImportAddUnit(d, o, v)
    BY <1>1 DEF Imported
  <2>3. ~AddUnitRefused(d, o, v)
    BY <1>1 DEF Refused
  <2> QED BY <2>1, <2>2, <2>3, AddUnitKeeps
<1>2. CASE o[1] # "add_units"
  <2>1. o \notin AddUnits
    BY <1>2, KindOf
  <2>2. Imported(d, o, v) \in {d, Stored(d, o, v)}
    BY <1>2, KindOf DEF Imported, ImportNomen, ImportBarcode, ImportFClient, Kinds
  <2> QED BY <2>1, <2>2, StoreKeeps
<1> QED BY <1>1, <1>2

\* A procedure touches the row of its own object only, ...
LEMMA ImportElsewhere ==
    ASSUME NEW d \in Tables, NEW o \in Objects, NEW v \in Contents,
           NEW p \in Objects \ {o}
    PROVE  Imported(d, o, v).stored[p] = d.stored[p]
<1>1. d.stored \in [Objects -> Contents \cup {Absent}]
  BY DEF Tables
<1>2. \/ Imported(d, o, v) = d
      \/ Imported(d, o, v).stored = [d.stored EXCEPT ![o] = v]
  BY KindOf DEF Imported, ImportNomen, ImportAddUnit, ImportBarcode, ImportFClient, Stored, Kinds
<1> QED BY <1>1, <1>2

\* ... and the procedures of goods and of units store what they are given.
LEMMA ImportStores ==
    ASSUME NEW d \in Tables, NEW o \in Objects, NEW v \in Contents,
           o \in Nomens \/ (o \in AddUnits /\ v # NoUnit)
    PROVE  Imported(d, o, v).stored[o] = v
<1>1. d.stored \in [Objects -> Contents \cup {Absent}]
  BY DEF Tables
<1>2. Imported(d, o, v).stored = [d.stored EXCEPT ![o] = v]
  BY KindOf DEF Imported, ImportNomen, ImportAddUnit, Stored
<1> QED BY <1>1, <1>2

-----------------------------------------------------------------------------
(***************************************************************************)
(* Types, and at most one default unit.                                     *)
(***************************************************************************)

\* What is committed, and what the transaction sees, are good tables.
TableInv == TypeOK /\ GoodTables(db) /\ GoodTables(tr)

LEMMA TableInvInit == Init => TableInv
<1> SUFFICES ASSUME Init PROVE TableInv
  OBVIOUS
<1>1. GoodTables(db)
  <2>1. db \in Tables
    BY DEF Init, Tables
  <2>2. \A i \in Items : db.default_unit[i] = "none"
    BY DEF Init
  <2> QED BY <2>1, <2>2 DEF GoodTables, FlagHasRow, DefaultOnce
<1>2. tr = db
  BY DEF Init
<1>3. TypeOK
  <2>1. db \in Tables /\ tr \in Tables
    BY <1>1, <1>2 DEF GoodTables
  <2>2. changes \in 0 .. MaxChanges /\ faults \in 0 .. MaxFaults
    BY ImportAssumption DEF Init
  <2> QED BY <2>1, <2>2 DEF Init, TypeOK, InRow
<1> QED BY <1>1, <1>2, <1>3 DEF TableInv

\* A query returns objects.
LEMMA SelectedObjects ==
    ASSUME TypeOK, NEW step \in Step
    PROVE  Selected(step) \subseteq Objects
BY DEF TypeOK, Selected, Step

\* What an exception leaves of a registration is a registration and a doubt.
LEMMA DeregisteredType ==
    ASSUME TypeOK, Deregistered
    PROVE  registered' \subseteq Objects /\ doubt' \subseteq Objects
BY DEF TypeOK, Deregistered, InRow, Row

LEMMA TableInvNext == TableInv /\ [Next]_vars => TableInv'
<1> SUFFICES ASSUME TableInv, [Next]_vars PROVE TableInv'
  OBVIOUS
<1> USE DEF TableInv, InRow
<1> TypeOK
  OBVIOUS
<1>1. ASSUME NEW o \in Objects, NEW v \in Content(o), Change1C(o, v) PROVE TableInv'
  <2>1. v \in Contents
    BY KindOf DEF Content, Contents, Kinds
  <2>2. onec' \in [Objects -> Contents]
    BY <1>1, <2>1 DEF Change1C, TypeOK
  <2>3. changes' \in 0 .. MaxChanges
    BY <1>1, ImportAssumption DEF Change1C, TypeOK
  <2>4. TypeOK'
    BY <1>1, <2>2, <2>3 DEF Change1C, TypeOK, client
  <2> QED BY <1>1, <2>4 DEF Change1C
<1>2. ASSUME NEW list \in StepLists, BeginSync(list) PROVE TableInv'
  <2>1. list \in Seq(Step)
    BY ImportAssumption
  <2>2. TypeOK'
    BY <1>2, <2>1 DEF BeginSync, TypeOK, in1c, bounds
  <2> QED BY <1>2, <2>2 DEF BeginSync
<1>3. CASE OpenDataset
  <2>1. Head(steps) \in Step
    BY <1>3 DEF OpenDataset, TypeOK
  <2>2. dataset' \subseteq Row
    BY <1>3, <2>1, SelectedObjects DEF OpenDataset, TypeOK, Row
  <2>3. TypeOK'
    BY <1>3, <2>2 DEF OpenDataset, TypeOK, in1c, bounds, history
  <2> QED BY <1>3, <2>3 DEF OpenDataset
<1>4. CASE NextRow
  <2>1. TypeOK'
    BY <1>4 DEF NextRow, TypeOK, in1c, bounds, history
  <2> QED BY <1>4, <2>1 DEF NextRow
<1>5. CASE ExecQuery
  <2>1. row.obj \in Objects /\ row.value \in Contents
    BY <1>5 DEF ExecQuery, TypeOK, Row
  <2>2. GoodTables(tr')
    BY <1>5, <2>1, ImportKeeps DEF ExecQuery
  <2>3. TypeOK'
    BY <1>5, <2>2 DEF ExecQuery, TypeOK, GoodTables, in1c, bounds, history
  <2> QED BY <1>5, <2>2, <2>3 DEF ExecQuery
<1>6. CASE RowRefused
  <2>1. TypeOK'
    BY <1>6 DEF RowRefused, TypeOK, in1c, bounds
  <2> QED BY <1>6, <2>1 DEF RowRefused
<1>7. CASE DeleteFromKnot
  <2>1. registered' \subseteq Objects /\ doubt' \subseteq Objects
    BY <1>7 DEF DeleteFromKnot, TypeOK, Row
  <2>2. TypeOK'
    BY <1>7, <2>1 DEF DeleteFromKnot, TypeOK, bounds
  <2> QED BY <1>7, <2>2 DEF DeleteFromKnot
<1>8. CASE Commit
  <2>1. doubt' \subseteq Objects
    BY <1>8 DEF Commit, TypeOK
  <2>2. TypeOK'
    BY <1>8, <2>1 DEF Commit, TypeOK, in1c, bounds
  <2> QED BY <1>8, <2>2 DEF Commit
<1>9. CASE EndStep
  <2>1. Tail(steps) \in Seq(Step)
    BY <1>9 DEF EndStep, TypeOK
  <2>2. TypeOK'
    BY <1>9, <2>1 DEF EndStep, TypeOK, in1c, bounds, history
  <2> QED BY <1>9, <2>2 DEF EndStep
<1>10. CASE EndSync
  <2>1. TypeOK'
    BY <1>10 DEF EndSync, TypeOK, in1c, bounds, history
  <2> QED BY <1>10, <2>1 DEF EndSync
<1>11. CASE RowFails
  <2>1. registered' \subseteq Objects /\ doubt' \subseteq Objects
    BY <1>11, DeregisteredType DEF RowFails
  <2>2. changes' \in 0 .. MaxChanges /\ faults' \in 0 .. MaxFaults
    BY <1>11, ImportAssumption DEF RowFails, Fault, TypeOK
  <2>3. TypeOK'
    BY <1>11, <2>1, <2>2 DEF RowFails, TypeOK
  <2> QED BY <1>11, <2>3 DEF RowFails
<1>12. CASE Abort
  <2>1. registered' \subseteq Objects /\ doubt' \subseteq Objects
    BY <1>12, DeregisteredType DEF Abort
  <2>2. changes' \in 0 .. MaxChanges /\ faults' \in 0 .. MaxFaults
    BY <1>12, ImportAssumption DEF Abort, Fault, TypeOK
  <2>3. TypeOK'
    BY <1>12, <2>1, <2>2 DEF Abort, TypeOK
  <2> QED BY <1>12, <2>3 DEF Abort
<1>13. CASE UNCHANGED vars
  BY <1>13 DEF vars, in1c, client, bounds, history, TypeOK
<1> QED
  BY <1>1, <1>2, <1>3, <1>4, <1>5, <1>6, <1>7, <1>8, <1>9, <1>10, <1>11, <1>12, <1>13
  DEF Next, Progress

\* Every variable of the import has its type, in every behaviour.
THEOREM ImportTypeCorrect == Spec => []TypeOK
<1>1. TableInv => TypeOK
  BY DEF TableInv
<1> QED BY TableInvInit, TableInvNext, <1>1, PTL DEF Spec

\* A good never has two default units, whatever is imported in whatever order.
THEOREM OneDefaultCorrect == Spec => []OneDefaultUnit
<1>1. TableInv => OneDefaultUnit
  BY DEF TableInv, GoodTables, DefaultOnce, OneDefaultUnit
<1> QED BY TableInvInit, TableInvNext, <1>1, PTL DEF Spec

-----------------------------------------------------------------------------
(***************************************************************************)
(* No change is forgotten.                                                  *)
(***************************************************************************)

\* The value of a row is that of 1C, unless 1C has registered the object anew or
\* the registration is in doubt.
Fresh(r) == r.value = onec[r.obj] \/ r.obj \in registered \/ r.obj \in doubt

FreshRows == (\A r \in dataset : Fresh(r)) /\ (InRow => Fresh(row))

\* An object comes once in the rows of a query.
OncePerQuery ==
    /\ \A r, s \in dataset : r.obj = s.obj => r = s
    /\ InRow => \A r \in dataset : r.obj # row.obj

\* The transaction has imported the row in hand, and nothing else.
OneRowInTransaction ==
    tr = IF at \in {"delete", "commit"} THEN Imported(db, row.obj, row.value) ELSE db

ChangeInv == TableInv /\ FreshRows /\ OncePerQuery /\ OneRowInTransaction /\ NothingForgotten

LEMMA ChangeInvInit == Init => ChangeInv
BY TableInvInit DEF Init, ChangeInv, FreshRows, OncePerQuery, OneRowInTransaction,
   NothingForgotten, Overwritten, InRow, Nomens, AddUnits, Objects

\* An exception leaves rows fresh, and the row in hand in doubt if need be.
LEMMA DeregisteredKeeps ==
    ASSUME ChangeInv, Deregistered, UNCHANGED <<onec, db>>, at' \notin {"exec", "delete", "commit"},
           dataset' \subseteq dataset
    PROVE  /\ FreshRows' /\ OncePerQuery' /\ NothingForgotten'
<1> USE DEF InRow
<1>1. /\ registered \ {row.obj} \subseteq registered' /\ doubt \subseteq doubt'
      /\ row.obj \in registered => row.obj \in registered' \/ row.obj \in doubt'
  BY DEF Deregistered
<1>2. \A r \in dataset : Fresh(r)'
  BY <1>1 DEF ChangeInv, FreshRows, Fresh
<1>3. \A o \in Overwritten : InHand(o) => o \in registered' \/ o \in doubt'
  BY <1>1 DEF InHand, Deregistered, FromNode
<1>4. NothingForgotten'
  <2> SUFFICES ASSUME NEW o \in Overwritten
               PROVE  db.stored[o] = onec[o] \/ o \in registered' \/ o \in doubt'
    BY DEF NothingForgotten, Overwritten
  <2>1. db.stored[o] = onec[o] \/ o \in registered \/ o \in doubt \/ InHand(o)
    BY DEF ChangeInv, NothingForgotten
  <2> QED BY <2>1, <1>1, <1>3
<1>5. OncePerQuery'
  BY DEF ChangeInv, OncePerQuery
<1> QED BY <1>2, <1>4, <1>5 DEF FreshRows

LEMMA ChangeInvNext == ChangeInv /\ [Next]_vars => ChangeInv'
<1> SUFFICES ASSUME ChangeInv, [Next]_vars PROVE ChangeInv'
  OBVIOUS
<1> USE DEF InRow
<1>0. TableInv' /\ TypeOK /\ TypeOK'
  BY TableInvNext DEF ChangeInv, TableInv
<1>1. ASSUME NEW o \in Objects, NEW v \in Content(o), Change1C(o, v) PROVE ChangeInv'
  <2>1. \A p \in Objects \ {o} : onec'[p] = onec[p]
    BY <1>0, <1>1 DEF Change1C, TypeOK
  <2>2. o \in registered' /\ registered \subseteq registered'
    BY <1>1 DEF Change1C
  <2>3. UNCHANGED <<db, tr, at, steps, dataset, row, doubt>>
    BY <1>1 DEF Change1C, client
  <2>4. ASSUME NEW r \in Row, Fresh(r) PROVE Fresh(r)'
    BY <2>1, <2>2, <2>3, <2>4 DEF Fresh, Row
  <2>5. FreshRows'
    BY <1>0, <2>3, <2>4 DEF ChangeInv, FreshRows, TypeOK, Fresh
  <2>6. NothingForgotten'
    <3> SUFFICES ASSUME NEW p \in Overwritten'
                 PROVE  db.stored[p] = onec'[p] \/ p \in registered' \/ p \in doubt \/ InHand(p)
      BY <2>3 DEF NothingForgotten, InHand, FromNode
    <3>1. p \in Objects
      BY DEF Overwritten, Objects
    <3>2. CASE p = o
      BY <3>2, <2>2
    <3>3. CASE p # o
      <4>1. p \in Overwritten
        BY <3>1, <3>3, <2>1 DEF Overwritten
      <4> QED BY <4>1, <3>1, <3>3, <2>1, <2>2 DEF ChangeInv, NothingForgotten
    <3> QED BY <3>2, <3>3
  <2> QED BY <1>0, <2>3, <2>5, <2>6 DEF ChangeInv, OncePerQuery, OneRowInTransaction
<1>2. ASSUME NEW list \in StepLists, BeginSync(list) PROVE ChangeInv'
  <2>1. at = "idle" /\ at' = "step" /\ UNCHANGED <<onec, registered, db, tr, dataset, row, doubt>>
    BY <1>2 DEF BeginSync, in1c
  <2>2. NothingForgotten'
    BY <2>1 DEF ChangeInv, NothingForgotten, Overwritten, InHand
  <2> QED BY <1>0, <2>1, <2>2
    DEF ChangeInv, FreshRows, Fresh, OncePerQuery, OneRowInTransaction
<1>3. CASE OpenDataset
  <2>1. at = "step" /\ at' = "next" /\ UNCHANGED <<onec, registered, db, tr, row, doubt>>
    BY <1>3 DEF OpenDataset, in1c, history
  <2>2. \A r \in dataset' : r.value = onec[r.obj]
    BY <1>3 DEF OpenDataset
  <2>3. \A r, s \in dataset' : r.obj = s.obj => r = s
    BY <1>3 DEF OpenDataset
  <2>4. NothingForgotten'
    BY <2>1 DEF ChangeInv, NothingForgotten, Overwritten, InHand
  <2>5. FreshRows'
    BY <2>1, <2>2 DEF FreshRows, Fresh
  <2> QED BY <1>0, <2>1, <2>3, <2>4, <2>5 DEF ChangeInv, OncePerQuery, OneRowInTransaction
<1>4. CASE NextRow
  <2>1. at = "next" /\ at' = "exec" /\ UNCHANGED <<onec, registered, db, tr, doubt>>
    BY <1>4 DEF NextRow, in1c, history
  <2>2. row' \in dataset /\ dataset' = dataset \ {row'}
    BY <1>4 DEF NextRow
  <2>3. NothingForgotten'
    BY <2>1 DEF ChangeInv, NothingForgotten, Overwritten, InHand
  <2>4. FreshRows'
    BY <2>1, <2>2 DEF ChangeInv, FreshRows, Fresh
  <2>5. OncePerQuery'
    BY <2>2 DEF ChangeInv, OncePerQuery
  <2> QED BY <1>0, <2>1, <2>3, <2>4, <2>5 DEF ChangeInv, OneRowInTransaction
<1>5. CASE ExecQuery
  <2>1. /\ at = "exec" /\ at' = "delete" /\ tr' = Imported(tr, row.obj, row.value)
        /\ UNCHANGED <<onec, registered, db, dataset, row, doubt>>
    BY <1>5 DEF ExecQuery, in1c, history
  <2>2. NothingForgotten'
    BY <2>1 DEF ChangeInv, NothingForgotten, Overwritten, InHand
  <2>3. OneRowInTransaction'
    <3>1. tr = db
      BY <2>1 DEF ChangeInv, OneRowInTransaction
    <3>2. tr' = Imported(db', row'.obj, row'.value)
      BY <2>1, <3>1
    <3> QED BY <2>1, <3>2 DEF OneRowInTransaction
  <2> QED BY <1>0, <2>1, <2>2, <2>3 DEF ChangeInv, FreshRows, Fresh, OncePerQuery
<1>6. CASE RowRefused
  <2>1. at = "exec" /\ at' = "next" /\ UNCHANGED <<onec, registered, db, tr, dataset, doubt>>
    BY <1>6 DEF RowRefused, in1c
  <2>2. NothingForgotten'
    BY <2>1 DEF ChangeInv, NothingForgotten, Overwritten, InHand
  <2> QED BY <1>0, <2>1, <2>2
    DEF ChangeInv, FreshRows, Fresh, OncePerQuery, OneRowInTransaction
<1>7. CASE DeleteFromKnot
  <2>1. /\ at = "delete" /\ at' = "commit"
        /\ UNCHANGED <<onec, db, tr, steps, dataset, row>>
    BY <1>7 DEF DeleteFromKnot
  <2>2. /\ registered \ {row.obj} \subseteq registered' /\ doubt \subseteq doubt'
        /\ registered' # registered => FromNode
        /\ registered' = registered \/ row.value = onec[row.obj] \/ row.obj \in doubt'
    BY <1>7 DEF DeleteFromKnot
  <2>3. FreshRows'
    <3>1. \A r \in dataset : Fresh(r)'
      BY <2>1, <2>2 DEF ChangeInv, FreshRows, Fresh, OncePerQuery
    <3>2. Fresh(row)'
      BY <2>1, <2>2 DEF ChangeInv, FreshRows, Fresh
    <3> QED BY <2>1, <3>1, <3>2 DEF FreshRows, Fresh
  <2>4. NothingForgotten'
    <3> SUFFICES ASSUME NEW o \in Overwritten
                 PROVE  \/ db.stored[o] = onec[o] \/ o \in registered' \/ o \in doubt'
                        \/ row.obj = o /\ FromNode
      BY <2>1 DEF NothingForgotten, Overwritten, InHand, FromNode
    <3>1. db.stored[o] = onec[o] \/ o \in registered \/ o \in doubt
      BY <2>1 DEF ChangeInv, NothingForgotten, InHand
    <3> QED BY <2>2, <3>1
  <2>5. OneRowInTransaction'
    <3>1. tr = Imported(db, row.obj, row.value)
      BY <2>1 DEF ChangeInv, OneRowInTransaction
    <3> QED BY <2>1, <3>1 DEF OneRowInTransaction
  <2> QED BY <1>0, <2>1, <2>3, <2>4, <2>5 DEF ChangeInv, OncePerQuery
<1>8. CASE Commit
  <2>1. /\ at = "commit" /\ at' = "next" /\ db' = tr
        /\ UNCHANGED <<onec, registered, tr, dataset>>
    BY <1>8 DEF Commit, in1c
  <2>2. /\ doubt \ {row.obj} \subseteq doubt'
        /\ row.value # onec[row.obj] => doubt' = doubt
    BY <1>8 DEF Commit
  <2>3. row.obj \in Objects /\ row.value \in Contents /\ db \in Tables
    BY <1>0, <2>1 DEF TypeOK, Row
  <2>4. tr = Imported(db, row.obj, row.value)
    BY <2>1 DEF ChangeInv, OneRowInTransaction
  <2>5. FreshRows'
    <3>1. \A r \in dataset : Fresh(r)'
      BY <2>1, <2>2 DEF ChangeInv, FreshRows, Fresh, OncePerQuery
    <3> QED BY <2>1, <3>1 DEF FreshRows
  <2>6. NothingForgotten'
    <3> SUFFICES ASSUME NEW o \in Overwritten
                 PROVE  tr.stored[o] = onec[o] \/ o \in registered \/ o \in doubt'
      BY <2>1 DEF NothingForgotten, Overwritten
    <3>1. o \in Objects
      BY DEF Overwritten, Objects
    <3>2. CASE o # row.obj
      <4>1. tr.stored[o] = db.stored[o]
        BY <2>3, <2>4, <3>1, <3>2, ImportElsewhere
      <4>2. db.stored[o] = onec[o] \/ o \in registered \/ o \in doubt
        BY <3>2 DEF ChangeInv, NothingForgotten, InHand
      <4> QED BY <2>2, <3>2, <4>1, <4>2
    <3>3. CASE o = row.obj /\ row.value = onec[o]
      <4>1. o \in Nomens \/ (o \in AddUnits /\ row.value # NoUnit)
        BY <3>3 DEF Overwritten
      <4>2. tr.stored[o] = row.value
        BY <2>3, <2>4, <3>3, <4>1, ImportStores
      <4> QED BY <3>3, <4>2
    <3>4. CASE o = row.obj /\ row.value # onec[o]
      <4>1. Fresh(row)
        BY <2>1 DEF ChangeInv, FreshRows
      <4> QED BY <2>2, <3>4, <4>1 DEF Fresh
    <3> QED BY <3>2, <3>3, <3>4
  <2> QED BY <1>0, <2>1, <2>5, <2>6 DEF ChangeInv, OncePerQuery, OneRowInTransaction
<1>9. CASE EndStep
  <2>1. at = "next" /\ at' = "step" /\ UNCHANGED <<onec, registered, db, tr, dataset, row, doubt>>
    BY <1>9 DEF EndStep, in1c, history
  <2>2. NothingForgotten'
    BY <2>1 DEF ChangeInv, NothingForgotten, Overwritten, InHand
  <2> QED BY <1>0, <2>1, <2>2
    DEF ChangeInv, FreshRows, Fresh, OncePerQuery, OneRowInTransaction
<1>10. CASE EndSync
  <2>1. at = "step" /\ at' = "idle" /\ UNCHANGED <<onec, registered, db, tr, dataset, row, doubt>>
    BY <1>10 DEF EndSync, in1c, history
  <2>2. NothingForgotten'
    BY <2>1 DEF ChangeInv, NothingForgotten, Overwritten, InHand
  <2> QED BY <1>0, <2>1, <2>2
    DEF ChangeInv, FreshRows, Fresh, OncePerQuery, OneRowInTransaction
<1>11. CASE RowFails
  <2>1. FreshRows' /\ OncePerQuery' /\ NothingForgotten'
    BY <1>11, DeregisteredKeeps DEF RowFails
  <2>2. OneRowInTransaction'
    BY <1>11 DEF RowFails, OneRowInTransaction
  <2> QED BY <1>0, <2>1, <2>2 DEF ChangeInv
<1>12. CASE Abort
  <2>1. at' = "idle" /\ dataset' = {} /\ UNCHANGED <<onec, db>> /\ tr' = db /\ Deregistered
    BY <1>12 DEF Abort
  <2> QED BY <1>0, <2>1, DeregisteredKeeps DEF ChangeInv, OneRowInTransaction
<1>13. CASE UNCHANGED vars
  BY <1>0, <1>13 DEF vars, in1c, client, bounds, history, ChangeInv, FreshRows, Fresh,
     OncePerQuery, OneRowInTransaction, NothingForgotten, Overwritten, InHand, FromNode
<1> QED
  BY <1>1, <1>2, <1>3, <1>4, <1>5, <1>6, <1>7, <1>8, <1>9, <1>10, <1>11, <1>12, <1>13
  DEF Next, Progress

\* No change of 1C to a good or to one of its units is forgotten but for the two
\* causes that doubt records: a row that fails after its registration was
\* deleted, and a change between the query and the deletion.
THEOREM NothingForgottenCorrect == Spec => []NothingForgotten
<1>1. ChangeInv => NothingForgotten
  BY DEF ChangeInv
<1> QED BY ChangeInvInit, ChangeInvNext, <1>1, PTL DEF Spec

-----------------------------------------------------------------------------
(***************************************************************************)
(* A full import mirrors 1C.                                                *)
(***************************************************************************)

\* How far the steps of the last list have come, and what is still to be stored.
Position == Len(ran) - Len(steps)
Pending(o) == (\E r \in dataset : r.obj = o) \/ (InRow /\ row.obj = o)

AllGoods == [kind |-> "nomens", query |-> "all"]
AllUnits == [kind |-> "add_units", query |-> "all"]
AfterGoods == \E m \in 1 .. Position : ran[m] = AllGoods
AfterUnits == \E m, n \in 1 .. Position : m < n /\ ran[m] = AllGoods /\ ran[n] = AllUnits
Within(step) == at \in {"next", "exec", "delete", "commit"} /\ Head(steps) = step

GoodMirrored(o) == db.stored[o] = onec[o]
UnitMirrored(i) ==
    onec[AddUnit(i)] # NoUnit =>
       /\ db.stored[AddUnit(i)] = onec[AddUnit(i)]
       /\ db.default_unit[i] = "Y" <=> onec[AddUnit(i)] = onec[Nomen(Owner[i])]

\* The places at which rows are in hand agree with the rows there are, ...
Tidy ==
    /\ at \in {"idle", "step"} => dataset = {}
    /\ at \in {"delete", "commit"} => ~Refused(db, row.obj, row.value)

\* ... and while neither a change nor a failure comes between, the steps done have
\* mirrored their goods and units, and the current step all but its rows to come.
Mirroring ==
    ran # <<>> =>
       /\ Len(steps) <= Len(ran) /\ \A j \in DOMAIN steps : steps[j] = ran[Position + j]
       /\ \A r \in dataset : r.value = onec[r.obj]
       /\ InRow => row.value = onec[row.obj]
       /\ AfterGoods => \A o \in Nomens : GoodMirrored(o)
       /\ Within(AllGoods) => \A o \in Nomens : GoodMirrored(o) \/ Pending(o)
       /\ Within(AllUnits) /\ AfterGoods =>
             \A i \in Items : UnitMirrored(i) \/ Pending(AddUnit(i))
       /\ AfterUnits => \A i \in Items : UnitMirrored(i)

MirrorInv == ChangeInv /\ Tidy /\ Mirroring

\* PS_1C_IMPORT_ADD_UNITS and the flag of an item: its own row sets it by the base
\* unit, a row of another item may only take it away, from a unit that is not the base.
LEMMA ImportFlag ==
    ASSUME NEW d \in Tables, NEW o \in Objects, NEW v \in Contents, NEW i \in Items
    PROVE  /\ o = AddUnit(i) /\ v # NoUnit =>
                 (Imported(d, o, v).default_unit[i] = "Y" <=> d.stored[Nomen(Owner[i])] = v)
           /\ o # AddUnit(i) =>
                 \/ Imported(d, o, v).default_unit[i] = d.default_unit[i]
                 \/ /\ Imported(d, o, v).default_unit[i] = "N"
                    /\ d.stored[Nomen(Owner[i])] = v /\ d.stored[AddUnit(i)] # v
<1>1. CASE o[1] = "add_units" /\ v # NoUnit
  <2>1. o[2] \in Items /\ o = AddUnit(o[2])
    BY <1>1, KindOf
  <2>2. o = AddUnit(i) <=> i = o[2]
    BY <2>1, UnitObject
  <2>3. Imported(d, o, v).default_unit =
          [j \in Items |->
              IF j = o[2]
              THEN IF d.stored[Nomen(Owner[j])] = v THEN "Y" ELSE "N"
              ELSE IF /\ Owner[j] = Owner[o[2]] /\ d.stored[Nomen(Owner[j])] = v
                      /\ d.stored[AddUnit(j)] \notin {Absent, v}
                   THEN "N" ELSE d.default_unit[j]]
    BY <1>1 DEF Imported, ImportAddUnit
  <2> QED
    BY <2>1, <2>2, <2>3
<1>2. CASE ~(o[1] = "add_units" /\ v # NoUnit)
  <2>1. Imported(d, o, v).default_unit = d.default_unit
    BY <1>2, KindOf
    DEF Imported, ImportNomen, ImportAddUnit, ImportBarcode, ImportFClient, Stored, Kinds
  <2>2. o = AddUnit(i) => o[1] = "add_units"
    BY DEF AddUnit
  <2> QED
    BY <1>2, <2>1, <2>2
<1> QED
  BY <1>1, <1>2

LEMMA MirrorInvInit == Init => MirrorInv
BY ChangeInvInit DEF Init, MirrorInv, Tidy, Mirroring

LEMMA TidyStep == ChangeInv /\ Tidy /\ [Next]_vars => Tidy'
<1> SUFFICES ASSUME ChangeInv, Tidy, [Next]_vars PROVE Tidy'
  OBVIOUS
<1>1. CASE UNCHANGED <<at, dataset, db, row>>
  BY <1>1 DEF Tidy
<1>2. CASE ExecQuery
  <2>1. tr = db
    BY <1>2 DEF ExecQuery, ChangeInv, OneRowInTransaction
  <2>2. /\ at' = "delete" /\ UNCHANGED <<db, row>>
        /\ ~Refused(tr, row.obj, row.value)
    BY <1>2 DEF ExecQuery
  <2>3. ~Refused(db, row.obj, row.value)'
    BY <2>1, <2>2 DEF Refused, AddUnitRefused
  <2> QED
    BY <2>2, <2>3 DEF Tidy
<1>3. CASE DeleteFromKnot
  BY <1>3 DEF DeleteFromKnot, Tidy
<1>4. CASE OpenDataset \/ NextRow \/ RowRefused \/ Commit \/ EndStep \/ EndSync \/ RowFails \/ Abort
           \/ \E list \in StepLists : BeginSync(list)
  BY <1>4 DEF OpenDataset, NextRow, RowRefused, Commit, EndStep, EndSync, RowFails, Abort,
     BeginSync, Tidy
<1> QED
  BY <1>1, <1>2, <1>3, <1>4 DEF Next, Progress, Change1C, client, vars

LEMMA MirroringStep == MirrorInv /\ [Next]_vars => Mirroring'
<1> SUFFICES ASSUME MirrorInv, [Next]_vars, ran' # <<>> PROVE Mirroring'
  BY DEF Mirroring
<1>0. TypeOK /\ ran \in Seq(Step) /\ steps \in Seq(Step)
  BY DEF MirrorInv, ChangeInv, TableInv, TypeOK
<1> USE DEF MirrorInv
\* What Mirroring says of the lists alone.
<1>l. ASSUME UNCHANGED <<ran, steps>>
      PROVE  /\ Position' = Position /\ AfterGoods' = AfterGoods /\ AfterUnits' = AfterUnits
             /\ at \in {"next", "exec", "delete", "commit"} =>
                   \A step : Within(step)' => Within(step)
  BY <1>l DEF Position, AfterGoods, AfterUnits, Within
<1>1. CASE UNCHANGED <<ran, steps, at, dataset, row, db, onec>>
  BY <1>1 DEF Mirroring, Position, AfterGoods, AfterUnits, Within, GoodMirrored, UnitMirrored,
     Pending, InRow
<1>2. ASSUME NEW list \in StepLists, BeginSync(list) PROVE Mirroring'
  <2>1. ran' = list /\ steps' = list /\ at' = "step" /\ dataset' = {} /\ list \in Seq(Step)
    BY <1>2, ImportAssumption DEF BeginSync, Tidy
  <2>2. Position' = 0
    BY <2>1 DEF Position
  <2> QED
    BY <2>1, <2>2 DEF Mirroring, AfterGoods, AfterUnits, Within, InRow
<1>3. CASE OpenDataset
  <2>1. /\ at = "step" /\ at' = "next" /\ UNCHANGED <<ran, steps, row, db, onec>>
        /\ steps # <<>> /\ dataset' = {[obj |-> o, value |-> onec[o]] : o \in Selected(Head(steps))}
    BY <1>3 DEF OpenDataset, in1c, history
  <2>2. ASSUME Head(steps) = AllGoods, NEW o \in Nomens PROVE Pending(o)'
    <3>1. o \in Selected(Head(steps))
      BY <2>2, KindOf DEF Selected, AllGoods, Objects, Nomens
    <3>2. [obj |-> o, value |-> onec[o]] \in dataset'
      BY <2>1, <3>1
    <3> QED
      BY <3>2 DEF Pending
  <2>3. ASSUME Head(steps) = AllUnits, NEW i \in Items PROVE Pending(AddUnit(i))'
    <3>1. AddUnit(i) \in Selected(Head(steps))
      BY <2>3, UnitObject DEF Selected, AllUnits, AddUnit
    <3>2. [obj |-> AddUnit(i), value |-> onec[AddUnit(i)]] \in dataset'
      BY <2>1, <3>1
    <3> QED
      BY <3>2 DEF Pending
  <2>4. Position' = Position /\ AfterGoods' = AfterGoods /\ AfterUnits' = AfterUnits
    BY <1>l, <2>1
  <2>5. /\ \A o : GoodMirrored(o)' = GoodMirrored(o)
        /\ \A i : UnitMirrored(i)' = UnitMirrored(i)
    BY <2>1 DEF GoodMirrored, UnitMirrored
  <2> QED
    BY <2>1, <2>2, <2>3, <2>4, <2>5 DEF Mirroring, Within, InRow
<1>4. CASE NextRow
  <2>1. /\ at = "next" /\ at' = "exec" /\ UNCHANGED <<ran, steps, db, onec>>
        /\ row' \in dataset /\ dataset' = dataset \ {row'}
    BY <1>4 DEF NextRow, in1c, history
  <2>2. \A o : Pending(o) => Pending(o)'
    BY <2>1 DEF Pending, InRow
  <2>3. Position' = Position /\ AfterGoods' = AfterGoods /\ AfterUnits' = AfterUnits
        /\ \A step : Within(step)' => Within(step)
    BY <1>l, <2>1
  <2>4. /\ \A o : GoodMirrored(o)' = GoodMirrored(o)
        /\ \A i : UnitMirrored(i)' = UnitMirrored(i)
    BY <2>1 DEF GoodMirrored, UnitMirrored
  <2> QED
    BY <2>1, <2>2, <2>3, <2>4 DEF Mirroring, InRow
<1>5. CASE ExecQuery \/ DeleteFromKnot
  <2>1. /\ at \in {"exec", "delete"} /\ at' \in {"delete", "commit"}
        /\ UNCHANGED <<ran, steps, dataset, row, db, onec>>
    BY <1>5 DEF ExecQuery, DeleteFromKnot, in1c, history
  <2>2. \A o : Pending(o)' = Pending(o)
    BY <2>1 DEF Pending, InRow
  <2>3. Position' = Position /\ AfterGoods' = AfterGoods /\ AfterUnits' = AfterUnits
        /\ \A step : Within(step)' => Within(step)
    BY <1>l, <2>1
  <2>4. /\ \A o : GoodMirrored(o)' = GoodMirrored(o)
        /\ \A i : UnitMirrored(i)' = UnitMirrored(i)
    BY <2>1 DEF GoodMirrored, UnitMirrored
  <2> QED
    BY <2>1, <2>2, <2>3, <2>4 DEF Mirroring, InRow
<1>6. CASE Commit
  <2>1. /\ at = "commit" /\ at' = "next" /\ db' = tr
        /\ UNCHANGED <<ran, steps, dataset, onec>>
    BY <1>6 DEF Commit, in1c
  <2>2. row.obj \in Objects /\ row.value \in Contents /\ db \in Tables
    BY <1>0, <2>1 DEF TypeOK, Row, InRow
  <2>3. db' = Imported(db, row.obj, row.value) /\ row.value = onec[row.obj]
    BY <2>1 DEF ChangeInv, OneRowInTransaction, Mirroring, InRow
  <2>4. Position' = Position /\ AfterGoods' = AfterGoods /\ AfterUnits' = AfterUnits
        /\ \A step : Within(step)' => Within(step)
    BY <1>l, <2>1
  <2>5. \A o : Pending(o) => Pending(o)' \/ o = row.obj
    BY <2>1 DEF Pending, InRow
  <2>6. ASSUME NEW o \in Nomens, GoodMirrored(o) \/ o = row.obj PROVE GoodMirrored(o)'
    <3>1. CASE o = row.obj
      BY <2>1, <2>2, <2>3, <3>1, ImportStores DEF GoodMirrored
    <3>2. CASE o # row.obj
      <4>1. o \in Objects
        BY DEF Objects
      <4>2. db'.stored[o] = db.stored[o]
        BY <2>2, <2>3, <3>2, <4>1, ImportElsewhere
      <4> QED
        BY <2>1, <2>6, <3>2, <4>2 DEF GoodMirrored
    <3> QED
      BY <3>1, <3>2
  <2>7. ASSUME NEW i \in Items, AfterGoods, UnitMirrored(i) \/ AddUnit(i) = row.obj
        PROVE  UnitMirrored(i)'
    <3> SUFFICES ASSUME onec[AddUnit(i)] # NoUnit
                 PROVE  /\ db'.stored[AddUnit(i)] = onec[AddUnit(i)]
                        /\ db'.default_unit[i] = "Y" <=> onec[AddUnit(i)] = onec[Nomen(Owner[i])]
      BY <2>1 DEF UnitMirrored
    <3>1. db.stored[Nomen(Owner[i])] = onec[Nomen(Owner[i])]
      <4>1. Nomen(Owner[i]) \in Nomens
        BY ImportAssumption DEF Nomen, Nomens
      <4> QED
        BY <2>1, <2>7, <4>1 DEF Mirroring, GoodMirrored
    <3>2. AddUnit(i) \in AddUnits /\ AddUnit(i) \in Objects
      BY UnitObject
    <3>3. CASE AddUnit(i) = row.obj
      <4>1. row.value # NoUnit
        BY <2>3, <3>3
      <4>2. db'.stored[AddUnit(i)] = row.value
        BY <2>2, <2>3, <3>2, <3>3, <4>1, ImportStores
      <4>3. db'.default_unit[i] = "Y" <=> db.stored[Nomen(Owner[i])] = row.value
        BY <2>2, <2>3, <3>3, <4>1, ImportFlag
      <4> QED
        BY <2>3, <3>1, <3>3, <4>2, <4>3
    <3>4. CASE AddUnit(i) # row.obj
      <4>1. /\ db.stored[AddUnit(i)] = onec[AddUnit(i)]
            /\ db.default_unit[i] = "Y" <=> onec[AddUnit(i)] = onec[Nomen(Owner[i])]
        BY <2>7, <3>4 DEF UnitMirrored
      <4>2. db'.stored[AddUnit(i)] = db.stored[AddUnit(i)]
        BY <2>2, <2>3, <3>2, <3>4, ImportElsewhere
      <4>3. \/ db'.default_unit[i] = db.default_unit[i]
            \/ /\ db'.default_unit[i] = "N" /\ db.stored[Nomen(Owner[i])] = row.value
               /\ db.stored[AddUnit(i)] # row.value
        BY <2>2, <2>3, <3>4, ImportFlag
      <4> QED
        BY <3>1, <4>1, <4>2, <4>3
    <3> QED
      BY <3>3, <3>4
  <2>8. AfterUnits => AfterGoods
    BY DEF AfterUnits, AfterGoods
  <2> QED
    BY <2>1, <2>4, <2>5, <2>6, <2>7, <2>8 DEF Mirroring, InRow
<1>7. CASE EndStep
  <2>1. /\ at = "next" /\ at' = "step" /\ dataset = {} /\ steps' = Tail(steps)
        /\ UNCHANGED <<ran, dataset, row, db, onec>> /\ steps # <<>>
    BY <1>0, <1>7 DEF EndStep, in1c, history, TypeOK
  <2>2. Position' = Position + 1 /\ Position \in Nat /\ Len(steps') <= Len(ran)
    BY <1>0, <2>1 DEF Position, Mirroring
  <2>3. \A j \in DOMAIN steps' : steps'[j] = ran[Position' + j]
    BY <1>0, <2>1, <2>2 DEF Mirroring
  <2>4. Head(steps) = ran[Position + 1]
    BY <1>0, <2>1 DEF Mirroring
  <2>5. \A o : ~Pending(o)
    BY <2>1 DEF Pending, InRow
  <2>6. /\ \A o : GoodMirrored(o)' = GoodMirrored(o)
        /\ \A i : UnitMirrored(i)' = UnitMirrored(i)
    BY <2>1 DEF GoodMirrored, UnitMirrored
  <2>7. AfterGoods' => AfterGoods \/ Within(AllGoods)
    BY <2>1, <2>2, <2>4 DEF AfterGoods, Within
  <2>8. AfterUnits' => AfterUnits \/ (AfterGoods /\ Within(AllUnits))
    BY <2>1, <2>2, <2>4 DEF AfterUnits, AfterGoods, Within
  <2> QED
    BY <2>1, <2>2, <2>3, <2>5, <2>6, <2>7, <2>8 DEF Mirroring, Within, InRow
<1>8. CASE EndSync
  <2>1. at' = "idle" /\ at = "step" /\ UNCHANGED <<ran, steps, dataset, row, db, onec>>
    BY <1>8 DEF EndSync, in1c, history
  <2>2. Position' = Position /\ AfterGoods' = AfterGoods /\ AfterUnits' = AfterUnits
    BY <1>l, <2>1
  <2>3. /\ \A o : GoodMirrored(o)' = GoodMirrored(o)
        /\ \A i : UnitMirrored(i)' = UnitMirrored(i)
    BY <2>1 DEF GoodMirrored, UnitMirrored
  <2> QED
    BY <2>1, <2>2, <2>3 DEF Mirroring, Within, InRow
<1>9. CASE \/ RowRefused \/ RowFails \/ Abort
           \/ \E o \in Objects : \E v \in Content(o) : Change1C(o, v)
  BY <1>9 DEF RowRefused, RowFails, Abort, Change1C
<1> QED
  BY <1>1, <1>2, <1>3, <1>4, <1>5, <1>6, <1>7, <1>8, <1>9
  DEF Next, Progress, vars, client, in1c, history

\* A full import without a change or a failure in between leaves a mirror of 1C,
\* whatever an earlier one has left.
THEOREM FullImportCorrect == Spec => []FullImportMirrors
<1>1. MirrorInv => FullImportMirrors
  <2> SUFFICES ASSUME MirrorInv, at = "idle", Full(ran)
               PROVE  /\ \A o \in Overwritten : db.stored[o] = onec[o]
                      /\ \A i \in Items : onec[AddUnit(i)] # NoUnit =>
                            (db.default_unit[i] = "Y" <=> onec[AddUnit(i)] = onec[Nomen(Owner[i])])
    BY DEF FullImportMirrors
  <2>1. ran \in Seq(Step) /\ steps = <<>>
    BY DEF MirrorInv, ChangeInv, TableInv, TypeOK
  <2>2. Position = Len(ran)
    BY <2>1 DEF Position
  <2>3. AfterGoods /\ AfterUnits /\ ran # <<>>
    BY <2>1, <2>2 DEF Full, AfterGoods, AfterUnits, AllGoods, AllUnits
  <2>4. (\A o \in Nomens : GoodMirrored(o)) /\ \A i \in Items : UnitMirrored(i)
    BY <2>3 DEF MirrorInv, Mirroring
  <2>5. \A o \in AddUnits : \E i \in Items : o = AddUnit(i)
    BY DEF AddUnits, AddUnit
  <2> QED
    BY <2>4, <2>5 DEF Overwritten, GoodMirrored, UnitMirrored
<1>2. MirrorInv /\ [Next]_vars => MirrorInv'
  BY ChangeInvNext, TidyStep, MirroringStep DEF MirrorInv
<1> QED
  BY <1>1, <1>2, MirrorInvInit, PTL DEF Spec
=============================================================================
