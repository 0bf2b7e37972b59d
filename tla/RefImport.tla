----------------------------- MODULE RefImport -----------------------------
(***************************************************************************)
(* Reference data on its way from 1C into the trade point: the steps of     *)
(* direction 1C -> TP of tp21c (TSyncStep.DoStepT_1C2TP) and the import     *)
(* procedures PS_1C_IMPORT_* of the database, while 1C goes on changing.    *)
(*                                                                          *)
(* 1C registers a changed object for the exchange node of the trade point.  *)
(* A step asks 1C for objects once, and then takes the rows one by one: a   *)
(* transaction of the trade point is started, the procedure is called, the  *)
(* registration of the object is deleted in 1C, the transaction commits.    *)
(* Nothing ties the two systems together, and an exception in a row is      *)
(* logged and the next row taken.                                           *)
(*                                                                          *)
(* A step is a row of T_1C_SYNC_STEPS.  What its query selects is one of:   *)
(*   all   every object; the pointer in column 0 is empty                   *)
(*   node  the registered objects, the node being named in the query        *)
(*   knot  the registered objects of the parameter iknot                    *)
(***************************************************************************)
EXTENDS Naturals, Sequences, SequencesExt

CONSTANTS Goods,        \* Справочник.Номенклатура
          Items,        \* Справочник.ЕдиницыИзмерения: the units goods are sold in
          Owner,        \* the good of each of them
          Barcoded,     \* the items that have a barcode
          Firms,        \* Справочник.Контрагенти, the legal persons
          Units,        \* the units of the classifier (kg, piece, ...)
          Codes,        \* barcodes
          Names,        \* names of firms
          StepLists,    \* the lists of steps of the modes, by weight
          NoUnit,       \* NULL for a unit in 1C
          Absent,       \* no row in the trade point
          MaxChanges,   \* bound: changes in 1C
          MaxFaults     \* bound: failures

Nomen(g) == <<"nomens", g>>
AddUnit(i) == <<"add_units", i>>
Nomens == {"nomens"} \X Goods
AddUnits == {"add_units"} \X Items
Barcodes == {"barcodes"} \X Barcoded
FClients == {"f_clients"} \X Firms
Objects == Nomens \cup AddUnits \cup Barcodes \cup FClients

\* What of an object the trade point keeps: the base unit of a good, the unit of
\* an item, the code of a barcode, the name of a firm.
Content(o) ==
    CASE o[1] = "nomens"    -> Units \cup {NoUnit}
      [] o[1] = "add_units" -> Units \cup {NoUnit}
      [] o[1] = "barcodes"  -> Codes
      [] o[1] = "f_clients" -> Names

Contents == Units \cup {NoUnit} \cup Codes \cup Names
Kinds == {"nomens", "add_units", "barcodes", "f_clients"}
Step == [kind : Kinds, query : {"all", "node", "knot"}]

ASSUME ImportAssumption ==
    /\ Owner \in [Items -> Goods] /\ Barcoded \subseteq Items
    /\ Absent \notin Contents /\ NoUnit \notin Units
    /\ StepLists \subseteq Seq(Step)
    /\ MaxChanges \in Nat /\ MaxFaults \in Nat

VARIABLES
    onec,          \* 1C: the content of every object
    registered,    \* 1C: the objects registered for the node of the trade point
    db,            \* the trade point, as committed
    tr,            \* the trade point, as the transaction of the step sees it
    at,            \* where tp21c is
    steps,         \* the steps still to do, the current one first
    dataset,       \* the rows of dataset_ole still to come
    row,           \* the row in hand
    records_cnt,   \* rows the step counts
    changes,       \* changes in 1C so far
    faults,        \* failures so far
    doubt,         \* history: objects whose registration was deleted for a value
                   \* that was not stored or is no longer that of 1C
    ran            \* history: the list of the last synchronisation, <<>> once a
                   \* change or a failure has come between

in1c == <<onec, registered>>
client == <<at, steps, dataset, row, records_cnt>>
bounds == <<changes, faults>>
history == <<doubt, ran>>
vars == <<in1c, db, tr, client, bounds, history>>

Row == [obj : Objects, value : Contents]
NoRow == [obj |-> Absent, value |-> Absent]

\* WARES, ADDITION_UNIT, T_BAR_CODES and FIRMS by the object they are imported
\* from, and ADDITION_UNIT.DEFAULT_UNIT.
Tables == [stored : [Objects -> Contents \cup {Absent}],
           default_unit : [Items -> {"Y", "N", "none"}]]

InRow == at \in {"exec", "delete", "commit"}

TypeOK ==
    /\ onec \in [Objects -> Contents]
    /\ registered \subseteq Objects
    /\ db \in Tables /\ tr \in Tables
    /\ at \in {"idle", "step", "next", "exec", "delete", "commit"}
    /\ steps \in Seq(Step) /\ (at = "idle" => steps = <<>>)
    /\ at \in {"next", "exec", "delete", "commit"} => steps # <<>>
    /\ dataset \subseteq Row
    /\ IF InRow THEN row \in Row ELSE row = NoRow
    /\ records_cnt \in Nat
    /\ changes \in 0 .. MaxChanges /\ faults \in 0 .. MaxFaults
    /\ doubt \subseteq Objects
    /\ ran \in Seq(Step)

\* A new trade point: empty tables, and 1C has everything registered for it.
Init ==
    /\ onec \in {f \in [Objects -> Contents] : \A o \in Objects : f[o] \in Content(o)}
    /\ registered = Objects
    /\ db = [stored |-> [o \in Objects |-> Absent], default_unit |-> [i \in Items |-> "none"]]
    /\ tr = db
    /\ at = "idle" /\ steps = <<>> /\ dataset = {} /\ row = NoRow /\ records_cnt = 0
    /\ changes = 0 /\ faults = 0
    /\ doubt = {} /\ ran = <<>>

-----------------------------------------------------------------------------
(***************************************************************************)
(* The import procedures.  Each maps the tables a transaction sees to those *)
(* it sees afterwards; a row they refuse raises an exception.               *)
(***************************************************************************)

\* The row of o is inserted or updated; ADDITION_UNIT keeps its flags.
Stored(d, o, v) == [stored |-> [d.stored EXCEPT ![o] = v], default_unit |-> d.default_unit]

\* PS_1C_IMPORT_NOMENS: update or insert, matching ID_1C.
ImportNomen(d, o, v) == Stored(d, o, v)

\* (a plausible bug: the other units of the good keep their flag)
ImportAddUnit_KeepOthers(d, o, v) ==
    IF v = NoUnit THEN d
    ELSE [stored |-> [d.stored EXCEPT ![o] = v],
          default_unit |-> [d.default_unit EXCEPT
              ![o[2]] = IF d.stored[Nomen(Owner[o[2]])] = v THEN "Y" ELSE "N"]]

\* (a plausible bug: the flag of a unit that is there already is not raised)
ImportAddUnit_OnlyNew(d, o, v) ==
    IF v = NoUnit THEN d
    ELSE [stored |-> [d.stored EXCEPT ![o] = v],
          default_unit |-> [j \in Items |->
              IF j = o[2]
              THEN IF d.stored[Nomen(Owner[j])] = v /\ d.stored[o] = Absent THEN "Y" ELSE "N"
              ELSE IF /\ Owner[j] = Owner[o[2]] /\ d.stored[Nomen(Owner[j])] = v
                      /\ d.stored[AddUnit(j)] \notin {Absent, v}
                   THEN "N" ELSE d.default_unit[j]]]

\* PS_1C_IMPORT_ADD_UNITS: the default unit of a good is the one that is its base
\* unit; the flag is taken from its other units when that one comes.
ImportAddUnit(d, o, v) ==
    IF v = NoUnit THEN d
    ELSE [stored |-> [d.stored EXCEPT ![o] = v],
          default_unit |-> [j \in Items |->
              IF j = o[2]
              THEN IF d.stored[Nomen(Owner[j])] = v THEN "Y" ELSE "N"
              ELSE IF /\ Owner[j] = Owner[o[2]] /\ d.stored[Nomen(Owner[j])] = v
                      /\ d.stored[AddUnit(j)] \notin {Absent, v}
                   THEN "N" ELSE d.default_unit[j]]]

\* CODE_WARES is NOT NULL, and (CODE_WARES, CODE_UNIT) is the primary key.
AddUnitRefused(d, o, v) ==
    /\ v # NoUnit
    /\ \/ d.stored[Nomen(Owner[o[2]])] = Absent
       \/ \E j \in Items \ {o[2]} : Owner[j] = Owner[o[2]] /\ d.stored[AddUnit(j)] = v

\* PS_1C_IMPORT_BARCODES: inserted if there is none, never updated.
ImportBarcode(d, o, v) ==
    IF d.stored[o] = Absent THEN Stored(d, o, v) ELSE d

\* PS_1C_IMPORT_F_CLIENTS: FIRMS.NAME is unique; WHEN ANY undoes the block and
\* returns a row all the same.
ImportFClient(d, o, v) ==
    IF \E p \in FClients \ {o} : d.stored[p] = v THEN d
    ELSE Stored(d, o, v)

Imported(d, o, v) ==
    CASE o[1] = "nomens"    -> ImportNomen(d, o, v)
      [] o[1] = "add_units" -> ImportAddUnit(d, o, v)
      [] o[1] = "barcodes"  -> ImportBarcode(d, o, v)
      [] o[1] = "f_clients" -> ImportFClient(d, o, v)

Refused(d, o, v) == o[1] = "add_units" /\ AddUnitRefused(d, o, v)

-----------------------------------------------------------------------------
(***************************************************************************)
(* 1C and tp21c.                                                            *)
(***************************************************************************)
Fault == faults < MaxFaults /\ faults' = faults + 1 /\ UNCHANGED changes
FromNode == Head(steps).query = "node"

\* A user of 1C writes an object; 1C registers it, whether or not it differs.
Change1C(o, v) ==
    /\ changes < MaxChanges
    /\ changes' = changes + 1
    /\ onec' = [onec EXCEPT ![o] = v]
    /\ registered' = registered \cup {o}
    /\ ran' = <<>>
    /\ UNCHANGED <<db, tr, client, faults, doubt>>

\* The timer, in the mode that has this list of steps.
BeginSync(list) ==
    /\ at = "idle"
    /\ at' = "step" /\ steps' = list /\ ran' = list
    /\ UNCHANGED <<in1c, db, tr, dataset, row, records_cnt, bounds, doubt>>

\* The objects the query of a step selects.  Nothing assigns s1C82_knot, so the
\* parameter iknot is undefined and equals no node.
Selected(step) ==
    CASE step.query = "all"  -> {o \in Objects : o[1] = step.kind}
      [] step.query = "node" -> {o \in registered : o[1] = step.kind}
      [] step.query = "knot" -> {}

\* Execute().Choose(): the rows are those of this moment.
OpenDataset ==
    /\ at = "step" /\ steps # <<>>
    /\ dataset' = {[obj |-> o, value |-> onec[o]] : o \in Selected(Head(steps))}
    /\ records_cnt' = 0
    /\ at' = "next"
    /\ UNCHANGED <<in1c, db, tr, steps, row, bounds, history>>

\* dataset_ole.Next(), in no particular order, and StartTransaction.
NextRow ==
    /\ at = "next"
    /\ \E r \in dataset : row' = r /\ dataset' = dataset \ {r}
    /\ at' = "exec"
    /\ UNCHANGED <<in1c, db, tr, steps, records_cnt, bounds, history>>

ExecQuery ==
    /\ at = "exec"
    /\ ~Refused(tr, row.obj, row.value)
    /\ tr' = Imported(tr, row.obj, row.value)
    /\ at' = "delete"
    /\ UNCHANGED <<in1c, db, steps, dataset, row, records_cnt, bounds, history>>

\* (a plausible bug: the registration is deleted although the row was refused)
RowRefused_Deleted ==
    /\ at = "exec"
    /\ Refused(tr, row.obj, row.value)
    /\ registered' = IF FromNode THEN registered \ {row.obj} ELSE registered
    /\ at' = "next" /\ row' = NoRow /\ ran' = <<>>
    /\ UNCHANGED <<onec, db, tr, steps, dataset, records_cnt, bounds, doubt>>

\* The row breaks a constraint: the except branch, rollback and the next row.
RowRefused ==
    /\ at = "exec"
    /\ Refused(tr, row.obj, row.value)
    /\ at' = "next" /\ row' = NoRow /\ ran' = <<>>
    /\ UNCHANGED <<in1c, db, tr, steps, dataset, records_cnt, bounds, doubt>>

\* (a plausible bug: the test of the pointer is the wrong way round)
DeleteFromKnot_NoPointer ==
    /\ at = "delete"
    /\ at' = "commit"
    /\ IF ~FromNode
       THEN /\ registered' = registered \ {row.obj}
            /\ doubt' = IF row.value = onec[row.obj] THEN doubt ELSE doubt \cup {row.obj}
       ELSE UNCHANGED <<registered, doubt>>
    /\ UNCHANGED <<onec, db, tr, steps, dataset, row, records_cnt, bounds, ran>>

\* ExportToTP.DeleteFromKnot, only for a row that has a pointer.
DeleteFromKnot ==
    /\ at = "delete"
    /\ at' = "commit"
    /\ IF FromNode
       THEN /\ registered' = registered \ {row.obj}
            /\ doubt' = IF row.value = onec[row.obj] THEN doubt ELSE doubt \cup {row.obj}
       ELSE UNCHANGED <<registered, doubt>>
    /\ UNCHANGED <<onec, db, tr, steps, dataset, row, records_cnt, bounds, ran>>

\* The value is in the trade point; it settles a doubt if 1C still has it.
Commit ==
    /\ at = "commit"
    /\ db' = tr
    /\ doubt' = IF row.value = onec[row.obj] THEN doubt \ {row.obj} ELSE doubt
    /\ records_cnt' = records_cnt + 1
    /\ at' = "next" /\ row' = NoRow
    /\ UNCHANGED <<in1c, tr, steps, dataset, bounds, ran>>

\* What an exception, or the end of the program, leaves of the registration of the
\* row in hand: DeleteFromKnot may have done its work before it fails, and a
\* failing commit does not bring it back.
Deregistered ==
    \/ /\ at = "delete" /\ FromNode
       /\ registered' = registered \ {row.obj}
       /\ doubt' = doubt \cup {row.obj}
    \/ /\ at = "commit" /\ FromNode /\ row.obj \notin registered
       /\ doubt' = doubt \cup {row.obj}
       /\ UNCHANGED registered
    \/ /\ ~(at = "commit" /\ FromNode /\ row.obj \notin registered)
       /\ UNCHANGED <<registered, doubt>>

\* An exception between StartTransaction and the end of Commit (a lock of another
\* program, a call to 1C that fails): rollback, and on with the next row.
RowFails ==
    /\ InRow
    /\ Fault
    /\ Deregistered
    /\ tr' = db /\ ran' = <<>>
    /\ at' = "next" /\ row' = NoRow
    /\ UNCHANGED <<onec, db, steps, dataset, records_cnt>>

\* (a plausible bug: the row in hand outlives the synchronisation)
Abort_KeepsRow ==
    /\ at # "idle"
    /\ Fault
    /\ Deregistered
    /\ tr' = db /\ ran' = <<>>
    /\ at' = "idle" /\ steps' = <<>> /\ dataset' = {}
    /\ UNCHANGED <<onec, db, row, records_cnt>>

\* An exception in Execute or Next, which no step catches, or the program ends.
Abort ==
    /\ at # "idle"
    /\ Fault
    /\ Deregistered
    /\ tr' = db /\ ran' = <<>>
    /\ at' = "idle" /\ row' = NoRow /\ steps' = <<>> /\ dataset' = {}
    /\ UNCHANGED <<onec, db, records_cnt>>

\* The loop over the rows ends, then the loop over the steps.
EndStep ==
    /\ at = "next" /\ dataset = {}
    /\ at' = "step"
    /\ steps' = Tail(steps)
    /\ UNCHANGED <<in1c, db, tr, dataset, row, records_cnt, bounds, history>>

EndSync ==
    /\ at = "step" /\ steps = <<>>
    /\ at' = "idle"
    /\ UNCHANGED <<in1c, db, tr, steps, dataset, row, records_cnt, bounds, history>>

-----------------------------------------------------------------------------
Progress ==
    \/ \E list \in StepLists : BeginSync(list)
    \/ OpenDataset \/ NextRow \/ ExecQuery \/ RowRefused \/ DeleteFromKnot \/ Commit
    \/ EndStep \/ EndSync

Next ==
    \/ \E o \in Objects : \E v \in Content(o) : Change1C(o, v)
    \/ Progress
    \/ RowFails \/ Abort

Spec == Init /\ [][Next]_vars
FairSpec == Spec /\ WF_vars(Progress)

-----------------------------------------------------------------------------
(***************************************************************************)
(* Properties.                                                              *)
(***************************************************************************)

\* A good has at most one default unit, in what is committed: the lists of goods
\* join ADDITION_UNIT on DEFAULT_UNIT = 'Y' and would show a good twice.
OneDefaultUnit ==
    \A i, j \in Items :
        Owner[i] = Owner[j] /\ db.default_unit[i] = "Y" /\ db.default_unit[j] = "Y" => i = j

\* The objects whose content of this moment their procedure stores in any case.
Overwritten == Nomens \cup {o \in AddUnits : onec[o] # NoUnit}

\* The registration of an object that is being taken over has just been deleted.
InHand(o) == at = "commit" /\ row.obj = o /\ FromNode

\* No change of 1C is forgotten: the trade point has it, or it is registered, or its
\* registration was deleted in a row that then failed, or for a value 1C had
\* replaced after the query (DeleteFromKnot knows nothing of the value).
NothingForgotten ==
    \A o \in Overwritten :
        db.stored[o] = onec[o] \/ o \in registered \/ o \in doubt \/ InHand(o)

\* A list that imports all goods and then all their units.
Full(list) ==
    \E m, n \in DOMAIN list :
        m < n /\ list[m] = [kind |-> "nomens", query |-> "all"]
              /\ list[n] = [kind |-> "add_units", query |-> "all"]

\* After a full import without a change and without a failure the trade point
\* mirrors 1C: the goods, their units, and as default unit the base unit, even
\* where an earlier import had left another one.
FullImportMirrors ==
    at = "idle" /\ Full(ran) =>
        /\ \A o \in Overwritten : db.stored[o] = onec[o]
        /\ \A i \in Items : onec[AddUnit(i)] # NoUnit =>
              (db.default_unit[i] = "Y" <=> onec[AddUnit(i)] = onec[Nomen(Owner[i])])

\* What the log counts as transferred is in the trade point.
CountedIsStored ==
    [][records_cnt' = records_cnt + 1 => db'.stored[row.obj] = row.value]_vars

\* Every changed object leaves the register in the end, unless the primary key of
\* ADDITION_UNIT refuses its row again and again.
ChangesLeave == <>[](\A o \in registered : Refused(db, o, onec[o]))

=============================================================================
