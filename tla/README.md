# Models and proofs of the trade point exchange (tp_x)

This directory is a verification project for the programs under `src/`: the
administration program of a trade point (*kernel*), the exchange with the
accounting system 1C (*tp21c*), the exchange with the cash desks (*tp2kassa*)
and the Firebird database that all of them share. It contains TLA+ modules
translated from the code, TLC configurations that check them on small
instances, and TLAPS proofs of the properties that matter most for every value
of the parameters.

All paths below are relative to `src/` of the repository unless they begin with
`tla/`; `kernel/…` abbreviates `src/tp_x/kernel/src/…` and `tp21c/…` abbreviates
`src/tp_x/tp/src/…`.

## 1. Inventory

### The programs and the state they keep

| Part | State | Operations |
|---|---|---|
| Database of the trade point (`sql/tp_current_metadata.sql`) | tables, generators, triggers, stored procedures | one transaction per operation of a program |
| Documents (`kernel/documents`, `kernel/document`, the etalon forms) | rows of `T_DOCS` and `T_DOC_RECS`; the window a clerk has open | list: new, change, close (`mi_fix`), delete; dialog: OK, cancel; editor: add, change, delete a record, leave |
| tp21c, the step (`tp21c/ustep.pas`) | two cursors, the 1C document under construction, `ID_1C` of rows | export of documents and cheques; import of reference data |
| tp21c, the timer (`tp21c/umain.pas`) | `is_in_sync`, the mode it believes in, the list of steps, two connections | one synchronisation per tick |
| Mode of the trade point (`T_TP_STATES`) | Crash, Normal, Recovery or Init | switched by the operator of any kernel, read twice per tick by tp21c |
| Scales, the dialog (`kernel/scales`) | the memory of every scale, the grid of ticked scales | erase and load the goods that have a scale number |
| Scales, the library (`kernel/libra`) | one driver object per session: the list of goods, results of which nothing sets some; the COM port, the current directory, `tovar.dat` or `plu.txt` | connect, add a good, program all goods, disconnect; one record or message sequence per good, for five types of scales |
| tp2kassa (`src/tp_x/tp/src_kassa`) | `is_in_sync`; watermarks inside the front database | one call of `PS_FR_SYNC` per tick |
| Goods, groups, prices, users, reports, configuration | rows edited by a form | single statements |

### How they interact

* Every kernel works on the one database directly. There is no application
  server: two clerks meet only in the rows of a table, and every write
  transaction is *nowait*, so a conflict is an exception and not a delay.
* tp21c reads the same tables with read-committed cursors that stay open while
  it calls 1C through COM, once per document and once per record. A call waits
  for the other process and dispatches window messages meanwhile, the messages of
  tp21c's own timer among them.
* 1C gives a document its number when it is written; tp21c writes that number
  back in two further transactions. Nothing ties the three together.
* The mode of the trade point is a row that operators change and that tp21c
  reads in two places of a tick: into a variable, and again inside the query
  that lists the steps.
* A kernel loads scales through a C++ library that it gives a list of goods; the
  library runs the vendor's command line program against the scale. Two
  workplaces may do this at the same time.
* Of the five drivers three write a file and hand it to a tool of the vendor
  (DIGI SM, MASSA-K VPM, METLER Tiger D), two talk to the scale over a COM port
  (MASSA-K VP, CAS LP): a good is several messages, each answered by one byte that
  does not say what it answers. A read gives up after one or two seconds; a write
  and a flush have no limit, the wait for a tool has none, and the LP shows a failure
  in a message box and waits for an operator.

### What is hard about them

Concurrency of clerks with each other and with an export that lasts many
seconds; re-entry of a timer handler; confirmations that are lost between two
systems; the end of a program between two writes; a mode that is switched in
the middle of a tick; an erased scale whose upload fails; memory that is read
before it is initialised; answers of a scale that are lost, or come when their
reader has given up; numbers and names wider than their field in a record. `tla/PROJECT.json` lists each hazard at its line,
with the properties that watch it.

### What correctness means

* Documents: no record without a document; a closed document does not change.
* Export: what is marked as sent is in 1C, under that number; nothing reaches 1C
  twice unless its confirmation was lost; what was finished arrives whole; what
  waits is handed over in the end.
* Timer: one synchronisation at a time, with the steps of one mode; between two
  ticks the database is closed, and a session of 1C or a list of steps is left over
  only by an exception; a failure does not stop the following ticks.
* Scales: a scale sells the goods of the last list that was sent to it. A record
  reads back, by the layout and the lengths in it, as the good it was made from; a
  good reported as programmed is in the scale; none is skipped unless something
  failed; a load ends unless it waits for the operator, a vendor's tool or the port,
  and gives back the port and the directory it took.
* Import: what 1C changed is in the trade point or still registered as changed;
  what the log counts is stored; a full import leaves a mirror of 1C; a good has
  one default unit.

## 2. The modules

| Module | Models | Composition |
|---|---|---|
| `TPDocuments` | documents of the trade point and the clerks | – |
| `DocTransfer` | what a hand-over of documents promises, document by document | abstract |
| `DocExport` | the export step of tp21c beside the clerks | extends `TPDocuments`, implements `DocTransfer` |
| `Tp21c` | the timer of tp21c, the operators who switch the mode | – |
| `RefImport` | the import steps of tp21c, the import procedures, 1C meanwhile | – |
| `ScaleLoad` | loading dialogs, the DIGI driver, the scales | – |
| `LibraRecords` | what every driver writes for one good, byte by byte | pure operators |
| `LibraReaders` | how the scales and the tools read it: the reference | extends `LibraRecords` |
| `LibraLine` | the COM port and the scale at its far end | extends `LibraReaders` |
| `Libra` | the library: one program that loads one scale again and again | extends `LibraLine` |
| `TPDocumentsProofs`, `DocExportProofs`, `Tp21cProofs`, `RefImportProofs`, `ScaleLoadProofs`, `LibraProofs` | theorems | extend the module they are about |
| `LibraRecordsProofs` | theorems of records and readers | extends `LibraReaders`; `LibraProofs` extends it |
| `Recursions` | lemmas: least elements, induction up to a number, functions given by recursion | extended by the proofs about records and `ScaleLoad` |
| `MC…` | instances for TLC | – |

Definitions whose name ends in a bug after an underscore, such as
`OpenForUpdate_Unchecked`, are not part of any specification. Each is a faulty
form of the definition that follows it, kept to show that a property notices
that fault.

### TPDocuments

`t_docs`, `is_closed`, `t_doc_recs` and `rec_doc` are the two tables;
`gen_docs` and `gen_recs` their generators (the triggers `T_DOCS_BI` and
`T_DOC_RECS_BI` and the two `PTP_` procedures take ids from them). The contents
of a header and of its records are abstracted to `rev`, a revision that every
write of the document raises: the properties ask whether a document changed, not
what it says. `form` is the window of a clerk: the list, the header dialog or the
editor of records. Both dialogs are modal, so a clerk has one.

The order inside the program is kept: OK in the header dialog commits
(`Tfdocument.ApplyChanges`) and then opens the editor (`DocumentDialog`), and
`IsRecordFixed` is evaluated in the list only, from the database. Deleting is
allowed for a closed document (`Tfetalon_dic`, `bt_del`, asks for rights only).
An update of a row that is gone affects no row; an insert for a document that is
gone is refused by the foreign key.

A statement is one action because its transaction is that long. A statement that
fails is rolled back and its exception leaves the window as it was: a
stuttering step.

### DocExport

The control of `DoStepT_TP21C` and `DoStepDocRecords`: `pc` is the place, `rows`
and `seen` the cursor of documents, `draft` the document that 1C is building,
`number` its number once it is written. `docs1c` is what 1C has. A read-committed
cursor returns every row that was there when it was opened and still qualifies,
and may or may not return later ones; so `ImportDocHeader` and `ImportDocRecord`
take any qualifying row, and the end of a cursor requires only the old rows.

* `ConfirmRecords` and `ConfirmHeader` are the two calls of `Confirm1CImport`;
  the first sets `ID_1C` of every record the document has *now*.
* `LoseConfirmation` is its `except`: logged, the step goes on.
* `Abort` is the `except` of the step and also the end of the program.

`lost` is a history variable that remembers which confirmation of which 1C
document was lost; `settled` and `scan` inside a 1C document remember what was
true when it was read. They guard nothing.

The cheques (step `ORDERS`) use the same handler. Two simplifications: a fetch
of the cursor and the call that passes the row on are one action, since the row
is a copy by then and 1C sees only the copy; and the query of the step that names
a column its procedure does not return (`ocode_wares`, `sql/data_v0003.sql`
line 33, against `ocode_wares_1c` in the procedure) is read as if it named it,
because no record would ever be sent otherwise.

### DocTransfer

Four states of a document (waiting, sending, sent, done), the rule that one
document is on its way at a time, and a count of copies. It says what a team
would promise to the accountants; `KeepsPromise` is the refinement of it by
`DocExport` under the mapping at the end of that module.

### Tp21c

`frames` is the stack of activations of `tt_syncTimer`: because a COM call
dispatches messages, the timer may fire while an activation waits in
`connect_1c`, `step` or `disconnect_1c`. Every action is one statement of the
handler with what it calls. `Raise` is an exception inside its `try`, `Escape` an
exception that leaves it: `SaveToLog` opens the log file for every line and is
called before the `try`, inside the `except` and after it. `Raise` keeps what the
statement it leaves has done: an exception of `CreateOleObject` leaves no session and one
of `Connect` leaves one; one in the `except` of `StepsFill` leaves part of the list; one of
the log in `Disconnect1C` comes when the session has been given up. An `Escape` from
`RefreshTPMode` leaves the crash mode it begins with, the mode it has read, or the
error. The steps themselves
are opaque here: they succeed, fail inside and set the mode to Error, or raise.
`escaped` and `raised` are history: an exception left the handler; one was caught in
it and no session was opened since.

`AskMode` and `AnswerMode` are the operator of one kernel: the mode is read, a
message box waits, and an `update … where` is made whose condition still holds or
does not.

### RefImport

`onec` and `registered` belong to 1C: the content of every object and the objects
registered for the exchange node of the trade point. `db` is what the trade
point has committed and `tr` what the transaction of the step sees. The rows of a
query are those of the moment of `Execute` (`OpenDataset`); then each row goes
through `exec`, `delete` and `commit`, the order of the code: the registration is
deleted before the transaction commits.

The import procedures are operators from tables to tables. Goods, items (the
units a good is sold in), barcodes and firms stand for the four forms the
procedures have: update or insert; update or insert that also changes other rows;
insert only; update or insert with every error swallowed. Of an object only the
field that such a form depends on is kept. A row that breaks a constraint
(`RowRefused`) and any other exception (`RowFails`) roll back and go on with the
next row; an exception of `Execute` or `Next` ends the synchronisation (`Abort`),
and so does the end of the program.

What a query selects is part of the step, since the steps are rows of
`T_1C_SYNC_STEPS` that the trade point may edit: everything, the registered
objects of a node the query names itself, or those of the parameter `iknot`. The
last kind is what the scripts of the repository use, and it selects nothing,
because the variable behind the parameter is never assigned.

`doubt` remembers the objects whose registration was deleted in a row that then
failed or for a value that 1C no longer has; `ran` remembers the steps of the last
synchronisation until a change or a failure. Both guard nothing.

Four assumptions about what is not in the repository: a new node of 1C has
everything registered; 1C registers an object whenever it is written;
`ExportToTP.DeleteFromKnot` deletes the registration of the object of the row and
knows nothing of its value; the comparison of column 0 with an empty string works
for a reference. Two simplifications: several queries of `sql/data_v0003.sql` pass
fewer parameters than the procedures of the current metadata declare
(`IS_DELETED` is missing) and are read as if they passed them, because no row
would ever be stored otherwise; and an item does not move from one good to
another.

### ScaleLoad

One workplace goes through connect, read, build, erase, upload and close for each
ticked scale (`Tfsync_log.bt_goClick`). `plu` is the memory of a scale by goods
number, `tovar_dat` the file. The driver of the DIGI scale is the only one that
the factory of `libra__.cpp` can construct; for any other type the handle is
never set, and the access violation leaves the loop over the scales (`Raise`).
`critical` is the uninitialised field of the driver object and is chosen when the
object is made: 2 ends the loop over the goods, any other value does not, so 0 and
2 stand for all. `Erase` and `Upload` fail as an external program does, at any
record, and nobody looks. `doubt` remembers which scales a failure or an overlap
has touched since they were last erased; in the beginning all of them, since nobody
has erased them yet.

`Wares` is the table of goods in the order of their codes, the order in which
`PS_SCALE_NOMENS` returns them; `Among` takes the rows that qualify out of such a
list, as the grid does with the ticked scales.

What a scale does with `ERASEOBJECT 0x88` and with two records under one number is
not in the repository: erasing is taken to empty the memory of goods, and the
later record to win. Here a record is the pair of code and number; its bytes are
the subject of the next modules.

### LibraRecords and LibraReaders

`LibraRecords` has one operator per conversion of the drivers (`InKopecks` for `Around_0`, `table`
with `ConvertText`, the three `…ToSpaseStr`, `StrFormat`, `memcpy` of an integer, `sprintf`) and
one per record: `DigiRecord`, `VpmTovar` with `VpmRecord`, `TigerLine`, `VpRecord`,
`LpRecord`. What the code gets from C
is kept: a number wider than its `%0*d` loses its last digits when a fixed width is
copied, an unsigned short wraps, a negative integer is two's complement, the last
two bytes of `nDate1` of the VPM come from behind a variable of four bytes
(`stray`). The tables of letters are rules where they follow one and lists where
they do not.

`LibraReaders` is written from the other end. A reader knows the layout and takes
lengths and separators from the data, so it notices a size that is wrong by one, a
comma inside a name, or a field that has pushed its neighbours aside. `DigiSays`,
`VpmSays`, `TigerSays`, `VpSays` and `LpSays` compare what was read with the good. A
number is compared where its field has room for it, since a longer one loses digits
(a price of 10^8 kopecks in the eight of DIGI, a shelf life of more than four
digits), and the price of Tiger D within the limits of `DoubleToSpaseStr`. What a
field that is too narrow does to its *neighbours* is compared always. A line feed in
the name of a good breaks its line in `plu.txt`, as nothing in the driver filters
it: `TigerFileReads` is about the loads whose names are of one line (`OneLine`).
The tools and scales are not in the repository; their side is modelled from the
layout the writers use, and the readers are part of properties only.

Prices are whole thousandths. The code multiplies a `double` by 100 (`Around_0`,
`kernel/libra/libra__.cpp:151`) or prints it with `%.2f`, and the price in the database is a
`double` as well. A price of a half kopeck is then hardly ever exact: 2.675 times 100
is 267.5 and goes up, though 2.675 is printed as 2.67; 1.005 times 100 is below 100.5
and goes down. Which halves go up is therefore a parameter, `RoundedUp` of the
product and `PrintedUp` of the print; the run takes those two prices as they really
are, and the theorems hold for every choice. Any other price is at least a tenth of
a kopeck away from a half, which the error of a `double` below 10^9 does not bridge.
The readers ask what the code can promise, that the number is within half a
kopeck of the price (`Priced`), and not which way a half goes.
The tables of letters map several
rare letters to one byte (`kernel/libra/libra__.cpp:44`), so the readers compare
Latin, Russian and Ukrainian letters, with І and I being one.

### LibraLine and Libra

`LibraLine` is the port and the scale. `Write` purges what has come and sends;
`Read` takes the first byte or gives up. Of a message the scale may take all and
answer, take it and its answer be lost, refuse it, or never get it; `owed` holds the
answers on their way, `heard` the part of a good the scale has, `plu` its memory.
`Open` is `Connect`: `CreateFile` of a taken port returns a handle the test for `NULL`
does not notice, and the session goes on with it (`fd = "invalid"`).

`Libra` is `SyncCurrentScale` seen from the library, for any of the five drivers:
`LibraConnect`, `LibraTovarAdd`, `ProgrammingAllTovar` with its loop, `GetResult`,
`SendFile`, `LibraDisconnect`. The loop is the one of the base class; drivers differ in
`ProgrammingTovar` (`WriteRecord`, or `StartGood` with `WriteMessage` and `Listen`),
in the goods they refuse and in what `GetResult` is. `NewObject` chooses the
members that no constructor sets: `result.critical`, `ret.error` of the VP, and
`mod` of Tiger D, which is read from a list of connection strings that nobody
ends: of all that may follow the four lines only `mod=1` and an exception
(`Raise`) are kept. `SendLibraNum` of the LP shows a lost answer and goes on as if it
had come (`box_number`, `libraLP.cpp:172`); its `GetResult` shows a failed good
(`box_result`, `libraLP.cpp:98`, once in `DoCmd` and once in the loop, which is one wait).
Both boxes stay until `PressOk`, the operator's. `Waiting` names these two, the
tool of the vendor, and a port that is written to or flushed.
Over Eithernet the LP sends and reads nothing and reports success
(`libraLP.cpp:149`), so `trusted` counts reports over the port only. `Raise` leaves
the session without `LibraDisconnect`, as there is no `try/finally`; `Restart`
is the operator who ends the program, out of any wait as well.

`unlucky`, `abandoned`, `trusted` and `late` are history. `late` is set when a reader
gives up while an answer is on its way, and when a port is opened with one on its
way; without it in `Listen`, or without `unlucky` in `NothingSkipped`, TLC refutes
the properties: an answer that comes between `Write` and `Read` passes for the
answer to the next message, and an object whose memory says 2 stops after one good.

## 3. The runs

| Run | Instance | What it shows |
|---|---|---|
| `documents_frozen` | 2 clerks, 2 documents, 2 records, 2 revisions | a violation of `ClosedIsFrozen` |
| `export` | 2 clerks, 1 document, 2 records, 2 faults, fair | `NoOrphanRecord`, `SettledIsFinal`; number of copies, records sent twice, what is marked and what arrives; `EveryDocumentSent` |
| `export_two_documents` | 1 clerk, 2 documents, 1 record, 1 fault | numbers never go astray; the refinement |
| `export_closed` | 1 clerk, 1 document, no fault | a violation of `OnlyClosedDocsSent` |
| `tick` | 2 operators, 3 steps, 2 faults, fair | the guard, the list, what is left behind and by which exceptions; a tick ends, the mode is read again |
| `tick_guard` | the same, 1 fault | a violation of `GuardMeansSync` |
| `import` | 1 good in 2 units, 2 changes, 1 fault; all objects or the registered ones | `OneDefaultUnit`, `NothingForgotten`, `FullImportMirrors` |
| `import_liveness` | the same good, a barcode and a firm, 1 change, 1 fault, fair | `ChangesLeave` |
| `import_knot` | 1 good in 1 unit, the queries of the scripts | a violation of `ChangesLeave` |
| `import_counted` | 1 good, 1 barcode, 2 firms, no change | a violation of `CountedIsStored` |
| `scales` | 2 workplaces, 2 scales, 2 goods, 3 numbers, 1 change, 1 fault | `ScaleHoldsItsList` |
| `libra` | 5 drivers, 4 goods, 21 lists for files and 3 for the line, 2 stray values, 2 faults, fair | every file and record reads back; `ReportedIsStored`, `NothingSkipped`, `GivenBack`; a load ends or waits (`LoadEnds`) |

**Why the bounds are enough.** The clerks are symmetric and every property of
documents speaks of one document and at most two windows on it, so two clerks
show every pairwise race and a second document shows whether rows mix. Two
records are needed for "some records sent, others late"; two faults for losing
the confirmation of the records and of the header of one copy, or of a first and
a second copy. A third operator of the mode adds nothing, since the mode is one
row and the answer of an operator depends on that row alone. Three numbers with
a limit of two give a good above the limit, two goods under one number and a
good without any. The import needs one good, since goods touch each other
nowhere, in two units of a classifier of two: that gives both orders of the
default unit, a base unit no item has, a unit without classifier, and two items
that claim one unit or exchange theirs. Two changes allow one between the query
and the deletion and another one later; one fault is enough to lose a
registration. `MaxFaults`, `MaxRev`, `MaxDocs`, `MaxRecs` and `MaxChanges`
cut the state space and appear in guards under those names only. Only
`scales` uses symmetry (of workplaces); `export` and the others check liveness or
finish without it.

The four goods of `libra` are chosen by what breaks records: an ordinary one; one
whose code differs from it by 2^16, with a name of 41 characters that contains
both separators, and a price above the limit of Tiger D; one with a code of seven
digits and a name of just 20 characters; one with a code below the prefix, an
article of five digits and a name of 21. A file has at most two records, because
a record can at worst depend on its neighbour or disturb it; all pairs of goods
occur, in both orders. Two faults are enough for a lost answer beside a late one or
a port that does not open; two stray values show that the two bytes from behind
the variable matter to no reader. The bounds of the records themselves are those of
the types in the code: numbers of at most nine digits, names shorter than the 128
characters of the array in `XLibraTovar`, a prefix of two digits, codes of the LP
below 2^31 / 100 where a property reads their digits.

**Deadlock** is checked in `Tp21c`, `RefImport`, `ScaleLoad` and `Libra`: a timer
always ticks, a dialog or a load can always be started. It is not checked where documents are involved,
since their bounds end the work of clerks.

**Fairness.** `FairExportSpec` has weak fairness of `Progress`, the actions of
the step: the timer of tp21c starts the step again after every end
(`tt_sync.Interval`), and a call to 1C returns or raises. Clerks are never forced
to do anything, and neither are faults; they are bounded, so they end. The run
assumes that the trade point stays in the mode whose steps include the documents.
`FairSpec` of `Tp21c` has weak fairness of the timer and of the handler
separately, because a handler that never moved would be a hung COM call, which is
outside the code. The two liveness properties carry the disjunct `escaped` on
purpose: after an exception that leaves the handler the promise is broken, which
is what `tick_guard` shows. `FairSpec` of `RefImport` has weak fairness of the
timer and the step together, for the same reason as the export; its run assumes
the trade point in the mode whose steps import changes. `ChangesLeave` excepts the
rows that the primary key of `ADDITION_UNIT` refuses: if 1C exchanges the units of
two items of one good, each row waits for the other for ever.

`FairSpec` of `Libra` has weak fairness of `~Waiting /\ Progress`: only where something limits
the wait is the load sure to go on. A read of the port gives up after one or two
seconds (`libraLP.cpp:48`); calls of the library that touch nothing outside return;
and the query for the goods is assumed to return or to fail. Nothing is
assumed where the code has no limit: the operator need not press OK in the LP's
message boxes; the tool of a vendor need not end, as it is waited for with `INFINITE`
(`libra_massa_k.cpp:508`); `WriteFile`, whose timeout is 0, which is none
(`libraLP.cpp:49-50`, `libra_massa_k.cpp:45-46`), and `FlushFileBuffers`
(`libra__.cpp:337`, `:357`) may hang as long as the port is one this program holds. `LoadEnds` says
accordingly that the library does not go round or stop anywhere else: if a load does not
end, it stands in one of these waits for ever. Nothing forces a load to start, an
exception or a restart.

## 4. Divergences found

1. **A closed document still changes** (`documents_frozen`). A clerk opens a
   document, another closes it, the first goes on adding records. The flag is
   looked at when a document is opened and nowhere else
   (`kernel/documents/udocuments.pas:628`). What does hold, and is proved, is
   `SettledIsFinal`: once the last such clerk has left, nothing changes any more.
2. **Open documents are exported** (`export_closed`). `PS_1C_EXPORT_DOCS` asks
   for `ID_1C is null` only, while the description of `IS_CLOSED` makes closing
   the condition for passing a document to 1C. A document taken too early is
   never taken again.
3. **The guard of the timer can stay up** (`tick_guard`). It is released by the
   last line of the handler, not in a `finally`.
4. **No change is ever imported** (`import_knot`): `GetKnot` would find the
   exchange node and is never called, so the parameter of every query of changes
   is undefined.
5. **A firm is counted and not stored** (`import_counted`): the procedure swallows
   every error and returns a row.
Two more are visible in the models without a run of their own. A changed barcode
is counted and its registration deleted although `PS_1C_IMPORT_BARCODES` only
inserts (`ImportBarcode`), while the step is called "barcodes, updated"
(`sql/data_v0003.sql` line 60). And a scale may get one good out of the list
(`Reached`), since `result.critical` is read before anything was stored in it.

## 5. What is proved

The theorems hold for any finite or infinite set of clerks, operators and steps
and for any natural bounds; the only assumptions are the named ones about the
constants (`BoundsAssumption`, `FaultsAssumption`, `TickAssumption`,
`ImportAssumption`, `LineAssumption`, `LibraAssumption`, `ScaleAssumption`). Every
invariant of a passing run is the subject of a theorem.

* `DocTypeCorrect`, `NoOrphanCorrect`, `SettledCorrect`. The type invariant alone
  does not give the absence of orphans: the induction also needs that ids above
  the generator are unused, which is why `DocTypeOK` bounds the tables by the
  generators and not by the id sets. The action property follows from the type
  invariant and a case per action: of all of them only `OpenForUpdate` could
  bring a clerk back into a closed document, and its guard forbids it.
* `ExportTypeCorrect`, `DuplicateCorrect`, `ConfirmedCorrect`. The inductive
  invariant `ExportInv` of `DocExportProofs` has three named parts besides the
  type. *Known*: every number in `ID_1C` belongs to a 1C document of that very
  source. *Current*: while a number is being confirmed it is the last document
  of 1C and that document is the draft. *Accounted*: an earlier document of 1C
  whose header confirmation was not lost is confirmed, unless it is the one on
  its way. Without *Current* a confirmation could carry a stale number; without
  *Accounted* there would be no reason why a second copy implies a loss.
* `RecordTwiceCorrect`, `MarkedCorrect`, `SettledSentCorrect`. *Handed* lifts
  *Accounted* from documents to records: every record in a 1C document is marked or gone,
  or the confirmation of that document's records was lost or is still to come. *Scanned* ties the
  records there were when the cursor was opened to the draft; the action property follows because
  only `ConfirmRecords` marks anything. *Whole* says that a document which was settled when
  its header was read has given all its records; it leans on `SettledIsFinal` (nothing
  changes behind the cursor) and on `AllUnsent` (no record of it was marked before,
  else the header would be).
* `OneCopyCorrect` counts: the 1C documents whose header confirmation
  was lost are no more than the faults (*LossesCounted*); the others have different
  sources, so they are no more than the ids ever given out.
* `KeepsPromiseCorrect` is the refinement: initial states map to initial states
  (`TransferInit`), and every action of `DocExport` maps to an action of `DocTransfer`
  or to a stutter (`TransferStep`), from `ExportInv`.
* `TypeCorrect`, `OneSyncCorrect`, `IdleIsFreeCorrect`,
  `StepsOfOneModeCorrect`, of the timer. `OneSyncAtATime` is inductive together with the type
  invariant: `TimerFires` needs the guard to be down, then no activation runs; only
  `DisconnectTP` and `Restart` take it down, and both leave the stack empty.
  `IdleIsFree` leans on it, because "the running activation is the only one" is what
  makes the end of an activation the end of the tick. What survives a tick needs more:
  `Holds` of `Tp21cProofs` says for each place of the handler what an earlier tick may
  have left there, that the list is empty when `Disconnect1C` begins, and that a tick
  which ends with something left has the mode Error or Crash, so that it never got
  as far as a new session after the exception that left it.

* `ImportTypeCorrect`, `OneDefaultCorrect`, `NothingForgottenCorrect`. One default
  unit is not inductive on the committed tables: the procedure takes the flag
  from rows with *another* unit, so the proof needs that no other row has the same
  one (the primary key, in `AddUnitRefused`) and that a flag belongs to a row
  (`FlagHasRow`), for the tables of the open transaction as well. For the changes
  the inductive invariant `ChangeInv` adds that every row still to come carries the
  value of 1C unless 1C has registered the object anew (`FreshRows`), that an object
  comes once (`OncePerQuery`), and that the transaction holds the row in hand and
  nothing else (`OneRowInTransaction`). Without *fresh rows* an old value could
  overwrite a newer one after its registration was deleted. The lemmas
  `ImportElsewhere` and `ImportStores` say what all procedures leave alone and
  what those of goods and units store.

* `FullImportCorrect`. *Mirroring* says of an uninterrupted full import how far the
  mirror has come: the kinds whose steps have ended agree with 1C, those of the
  step in hand agree or are among the rows still to come, and those rows carry
  the values of 1C, because any change or failure empties `ran`. *Tidy* keeps cursor,
  transaction and list of steps consistent between the two.
* `ScaleHoldsItsListCorrect`. *FileFromList*: what is about to be sent is what the loop
  reached of the workplace's own list. *AloneAndEmpty*: a workplace that uploads to a scale nothing has
  touched since it was erased is the only one there. *HeldList* follows for what the
  upload leaves behind.
* `TypeCorrect`, `GivenBackCorrect`, `NothingSkippedCorrect`, `ReportedIsStoredCorrect`, of
  the library. *SessionHolds* says which session holds the port and where it goes back to;
  *FailureIsKnown* that a loop that ends early has a reason that is still visible.
  *LineAnswers* is the core of the last: unless an answer was late, the line never
  holds more than the answer to the message just sent, and that answer is good
  only if the scale has taken the message. Without it nothing connects a byte
  in the port with the good it is believed to be about.
* `TypeCorrect` of `ScaleLoad`. What `Among` takes out of a list is again a list of
  members of it, so the goods given to a driver, the file and the scales still to
  come keep their types (`WorkTyped`, `GoodsTyped`): by induction up to the length of the list.
* `DigiStatesItsLength`, `VpmStatesItsLength`, `VpRecordLength`, `LpRecordLength`:
  a record is as long as it says, or as the scale expects, for every
  good, not for the four of the run. They rest on
  one lemma of length per conversion and need no induction, since the digits
  of a number are a function of it and not a recursion.
* `VpReads`, `LpReads`, `VpmReads`, `DigiReads`, `TigerReads`: one record, read by the
  layout of its scale, gives back its good, for every good of the type `Tovar` and however the halves of a kopeck
  are rounded. For the binary records
  a lemma of layout (`VpmFields`, `DigiFields`) says which field lies where, and a
  lemma per conversion says that reading undoes writing: four or three bytes of
  an integer of either sign, two hexadecimal digits of a byte, decimal digits. The
  line of Tiger D has no fixed places: there the proof shows that no column contains
  a comma, because `StrToSpaseStr` replaces those of a name and a number has
  none, and then that splitting returns the columns (`Columns`).
* `LineRecordCorrect`: what `VpReads` and `LpReads` say holds of every record sent over
  the line, because the good in hand is one of the list.
* `DigiFileCorrect`, `VpmFileCorrect`. The readers of a file walk
  from record to record by the lengths they find, the writer appends; the inductive
  invariant `FileHolds` joins the two. It says that there are offsets, one for
  every good already done, such that the record of an accepted good lies between
  its offset and the next (`GoodsLie`), a refused good takes no room, and the last offset is
  the length of the file. `RecordsRead` is then an induction over the goods done:
  a reader that has come to an offset has returned the goods before it, and goes on
  there (`ReadUpTo`). It needs only that each record states the distance to the next, which is where
  `DigiStatesItsLength` and `VpmStatesItsLength` come in. One wrong length would
  shift all the records behind it, and that is why the run with two records does
  not settle lists of any length.
* `TigerFileCorrect`. Lines have no lengths, so `LinesHold` says what the splitter makes of
  the file as it is: the lines of the accepted goods among those done, each one
  that reads back, and nothing behind the last line feed. `Split` is followed one
  character after the other.
* `Recursions` is what all of these rest on. The library's induction theorems take a
  predicate as a parameter and cannot be used here; its theorem that `<` on the
  naturals is well-founded can, since it speaks of sets. `LeastElement` and `UpTo`
  follow from it and give induction for any property that is written as a set of
  numbers; `Recursion` says that there is a function that obeys a rule from value to value.
  For this reason recursion in these modules is always that of a function.

Checked by TLC only: liveness (`EveryDocumentSent`, `SyncEnds`, `ModeIsFollowed`,
`ChangesLeave`, `LoadEnds`), which is outside the prover. The type invariant of `Libra`
leaves `file` out; `FileHolds` and, for names of one line, `LinesHold` say of it that it is a sequence of
integers, and what it holds.

## 6. Plan

Done: documents, export with its refinement, timer, import, scales with the whole
library; theorems of all of them. Left, in this order:

1. `FrontSync`: tp2kassa and the watermark of `PS_FR_SYNC`. The side of the front
   office (its triggers, its own database) is only partly in the repository, so much
   of the module would be an assumption about external code.
2. `TradePoint`: documents, export and mode together, with the step list of each
   mode instead of the assumption that the mode stays. The product of the two
   state spaces needs a coarser timer than `Tp21c` first, and a refinement
   between the two.
3. `RecordDialogs`: two clerks in the dialog of one record, the values they read
   and write back, quantities rounded by the integer parameter. Nothing in the
   repository says what should happen when both press OK, so the module waits for
   an answer to that.
4. The cheques in the export (step `ORDERS`).
5. Proof: what is left of the model without a theorem is liveness, which stays with TLC. The
   safety part of it can be stated and proved: that the step of the export and the
   session of the library always have a next action (no rest in the middle), and
   that a measure of what remains falls with every action of `Progress`.

As the composition grows, a run of a part is dropped when a run of the whole asks
the same question, as the run of the documents alone was when `export` took over
its properties.

## 7. Not modelled

* The forms for goods, groups, prices, users and reports: each button is one
  statement whose effect is its text. Access rights are not modelled either;
  allowing every button to everybody is the weaker assumption.
* The drivers for VPM, VP, LP and Tiger D are modelled from their `.cpp` files:
  `libra.bdsproj` lists all of them, but their classes are not declared in `libra.h` of
  this commit, and the factory of `libra__.cpp` builds DIGI only. Of the library
  these are left out: `ClearTovar` and the adaptor of DIGI SW, the LP commands 0x8a,
  0x8d and 0x81 (nothing calls them). `ulibra_sync.pas` belongs to a former interface and
  schema.
* The test bench (`kernel/libra_test/ulibra_test1.cpp`): a program of its own with one
  window that writes the VPM's record from its own lines and passes it on to
  `wip.dll`. No other program runs it, and nothing says that its record and the
  driver's must agree; they differ in the status, the time to sell and the kind of text.
* Oddities of the library and of the dialogs that are in the models or beside them
  and that no property speaks about: the LP over Eithernet reports success and has
  sent nothing (`kernel/libra/libraLP.cpp:149`); `Disconnect` over Eithernet closes
  handles nobody has opened (`kernel/libra/libra__.cpp:332`); Tiger D writes
  `Transscale.ini` and `plu.txt` below the program while its DLL gets a relative name
  (`kernel/libra/libraTiger.cpp:171`); `IQUANTITY` is an integer
  (`sql/tp_current_metadata.sql:1168`); the last OK in a dialog of a record wins
  (`kernel/document/docrec_dr1.pas:192`); several letters share a byte
  (`kernel/libra/libra__.cpp:44`).
* The cash desk's own tables in the database (orders, returns, calculations, Z
  reports): the program that writes them is not in the repository. The export of
  cheques reads them and is part of the plan.
* Generated metadata dumps, the component library, the registration key
  generator, pictures and tuning files.
