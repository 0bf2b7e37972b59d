----------------------------- MODULE DocExport -----------------------------
(***************************************************************************)
(* The synchronisation step of tp21c that hands the documents of the trade  *)
(* point over to the accounting system 1C (TSyncStep.DoStepT_TP21C with the *)
(* step "Прихідні документи"), working beside the clerks of TPDocuments.    *)
(*                                                                          *)
(* A document goes over in four calls to 1C, each of which waits: its       *)
(* header, its records one by one, Write, which gives it a number; then two *)
(* transactions of tp21c set ID_1C to that number, on the records and on    *)
(* the document.  The cursors are read committed, so they may or may not    *)
(* meet a row that was inserted after they were opened.  Clerks work        *)
(* between any two of these calls.                                          *)
(*                                                                          *)
(* A confirmation that fails (a clerk's statement holds the row: nowait) is *)
(* logged and passed over; an exception of 1C ends the step; tp21c may be   *)
(* ended at any moment.  MaxFaults bounds how often, together.              *)
(***************************************************************************)
EXTENDS TPDocuments, Sequences, FiniteSets

CONSTANT MaxFaults    \* bound: lost confirmations, failed calls and crashes

ASSUME FaultsAssumption == MaxFaults \in Nat

VARIABLES
    id_1c,       \* T_DOCS.ID_1C, NoId for NULL
    rec_id_1c,   \* T_DOC_RECS.ID_1C
    docs1c,      \* the documents of 1C, in the order of their numbers
    pc,          \* where the step is
    rows,        \* documents to export when the cursor of documents was opened
    seen,        \* documents that cursor has returned
    draft,       \* the 1C document under construction
    number,      \* document_ole.Number
    faults,      \* failures so far
    lost         \* history: <<what, n>> when the confirmation of 1C document n was lost

tp1c == <<id_1c, rec_id_1c>>
step == <<pc, rows, seen, draft, number>>
expVars == <<docVars, tp1c, docs1c, step, faults, lost>>

Numbers == Nat \ {0}    \* of the documents of 1C

\* What 1C keeps of a document: where it came from, its flag IS_CLOSED, whether
\* it was settled and its revision when its header was read; scan, the records
\* there when the cursor of records was opened; recs, those that were sent.
Document1C == [src : DocIds, is_closed : BOOLEAN, settled : BOOLEAN,
               rev : 0 .. MaxRev, scan : SUBSET RecIds, recs : SUBSET RecIds]
NoDraft == [src |-> NoId]

ExportTypeOK ==
    /\ DocTypeOK
    /\ id_1c \in [DocIds -> Numbers \cup {NoId}]
    /\ rec_id_1c \in [RecIds -> Numbers \cup {NoId}]
    /\ docs1c \in Seq(Document1C)
    /\ pc \in {"idle", "row", "header", "records", "confirm_records", "confirm_header"}
    /\ rows \subseteq DocIds /\ seen \subseteq DocIds
    /\ draft \in Document1C \cup {NoDraft}
    /\ draft = NoDraft <=> pc \in {"idle", "row"}
    /\ number \in Numbers \cup {NoId}
    /\ number # NoId <=> pc \in {"confirm_records", "confirm_header"}
    /\ faults \in 0 .. MaxFaults
    /\ lost \subseteq {"records", "header"} \X Numbers

\* (a plausible bug: the condition on ID_1C is forgotten)
Unsent_All == t_docs

\* PS_1C_EXPORT_DOCS: whether a document is closed does not matter.
Unsent == {d \in t_docs : id_1c[d] = NoId}

\* (the same bug in the query of the records)
UnsentRecs_All(d) == RecsOf(d)

\* PS_1C_EXPORT_DOC_RECS
UnsentRecs(d) == {r \in RecsOf(d) : rec_id_1c[r] = NoId}

ExportInit ==
    /\ DocInit
    /\ id_1c = [d \in DocIds |-> NoId]
    /\ rec_id_1c = [r \in RecIds |-> NoId]
    /\ docs1c = <<>>
    /\ pc = "idle" /\ rows = {} /\ seen = {} /\ draft = NoDraft /\ number = NoId
    /\ faults = 0 /\ lost = {}

-----------------------------------------------------------------------------
\* A row of T_DOCS or T_DOC_RECS that a clerk inserts has ID_1C NULL.
Clerk == ClerkNext /\ UNCHANGED <<tp1c, docs1c, step, faults, lost>>

OpenCursor ==
    /\ pc = "idle"
    /\ pc' = "row" /\ rows' = Unsent
    /\ UNCHANGED <<docVars, tp1c, docs1c, seen, draft, number, faults, lost>>

\* (a plausible bug: the row is taken without looking at ID_1C)
ImportDocHeader_Sent(d) ==
    /\ pc = "row"
    /\ d \in t_docs \ seen
    /\ seen' = seen \cup {d}
    /\ draft' = [src |-> d, is_closed |-> d \in is_closed, settled |-> Settled(d),
                 rev |-> rev[d], scan |-> {}, recs |-> {}]
    /\ pc' = "header"
    /\ UNCHANGED <<docVars, tp1c, docs1c, rows, number, faults, lost>>

\* The next row, FillPrmArray and the call of ImportDocHeader.
ImportDocHeader(d) ==
    /\ pc = "row"
    /\ d \in Unsent \ seen
    /\ seen' = seen \cup {d}
    /\ draft' = [src |-> d, is_closed |-> d \in is_closed, settled |-> Settled(d),
                 rev |-> rev[d], scan |-> {}, recs |-> {}]
    /\ pc' = "header"
    /\ UNCHANGED <<docVars, tp1c, docs1c, rows, number, faults, lost>>

\* DoStepDocRecords opens its cursor in a transaction of its own.
OpenRecords ==
    /\ pc = "header"
    /\ draft' = [draft EXCEPT !.scan = UnsentRecs(draft.src)]
    /\ pc' = "records"
    /\ UNCHANGED <<docVars, tp1c, docs1c, rows, seen, number, faults, lost>>

ImportDocRecord(r) ==
    /\ pc = "records"
    /\ r \in UnsentRecs(draft.src) \ draft.recs
    /\ draft' = [draft EXCEPT !.recs = @ \cup {r}]
    /\ UNCHANGED <<docVars, tp1c, docs1c, pc, rows, seen, number, faults, lost>>

\* (a plausible bug: the document is written after every record)
Write_EveryRecord ==
    /\ pc = "records"
    /\ docs1c' = Append(docs1c, draft)
    /\ number' = Len(docs1c) + 1
    /\ UNCHANGED <<docVars, tp1c, pc, rows, seen, draft, faults, lost>>

\* (a plausible bug: the loop over the records is left too early)
Write_BeforeEof ==
    /\ pc = "records"
    /\ docs1c' = Append(docs1c, draft)
    /\ number' = Len(docs1c) + 1
    /\ pc' = "confirm_records"
    /\ UNCHANGED <<docVars, tp1c, rows, seen, draft, faults, lost>>

\* q.Eof of the records, then Write.
Write ==
    /\ pc = "records"
    /\ draft.scan \cap UnsentRecs(draft.src) \subseteq draft.recs
    /\ docs1c' = Append(docs1c, draft)
    /\ number' = Len(docs1c) + 1
    /\ pc' = "confirm_records"
    /\ UNCHANGED <<docVars, tp1c, rows, seen, draft, faults, lost>>

\* (a plausible bug: the confirmation has no "where")
ConfirmRecords_Everywhere ==
    /\ pc = "confirm_records"
    /\ rec_id_1c' = [r \in RecIds |-> IF r \in t_doc_recs THEN number ELSE rec_id_1c[r]]
    /\ pc' = "confirm_header"
    /\ UNCHANGED <<docVars, id_1c, docs1c, rows, seen, draft, number, faults, lost>>

\* update t_doc_recs set id_1c = :iid_1c where doc_id = :iid: every record the
\* document has now, whether it was sent or not.
ConfirmRecords ==
    /\ pc = "confirm_records"
    /\ rec_id_1c' = [r \in RecIds |-> IF r \in RecsOf(draft.src) THEN number ELSE rec_id_1c[r]]
    /\ pc' = "confirm_header"
    /\ UNCHANGED <<docVars, id_1c, docs1c, rows, seen, draft, number, faults, lost>>

\* update t_docs set id_1c = :iid_1c where doc_id = :iid; the next row.
ConfirmHeader ==
    /\ pc = "confirm_header"
    /\ id_1c' = IF draft.src \in t_docs THEN [id_1c EXCEPT ![draft.src] = number] ELSE id_1c
    /\ pc' = "row" /\ draft' = NoDraft /\ number' = NoId
    /\ UNCHANGED <<docVars, rec_id_1c, docs1c, rows, seen, faults, lost>>

\* (a plausible bug: the document under construction survives a failed step)
Leave_KeepDraft == pc' = "idle" /\ rows' = {} /\ seen' = {} /\ number' = NoId /\ UNCHANGED draft

\* (a plausible bug: what the cursor has returned survives the step)
Leave_KeepSeen == pc' = "idle" /\ rows' = {} /\ draft' = NoDraft /\ number' = NoId /\ UNCHANGED seen

\* The locals of the step are gone.
Leave == pc' = "idle" /\ rows' = {} /\ seen' = {} /\ draft' = NoDraft /\ number' = NoId

\* q.Eof of the documents: those of the beginning were all returned.
Eof ==
    /\ pc = "row"
    /\ rows \cap Unsent \subseteq seen
    /\ Leave
    /\ UNCHANGED <<docVars, tp1c, docs1c, faults, lost>>

-----------------------------------------------------------------------------
Fault == faults < MaxFaults /\ faults' = faults + 1

\* Confirm1CImport: the exception is logged, the step goes on.
LoseConfirmation ==
    /\ Fault
    /\ \/ /\ pc = "confirm_records"
          /\ pc' = "confirm_header"
          /\ lost' = lost \cup {<<"records", number>>}
          /\ UNCHANGED <<draft, number>>
       \/ /\ pc = "confirm_header"
          /\ pc' = "row" /\ draft' = NoDraft /\ number' = NoId
          /\ lost' = lost \cup {<<"header", number>>}
    /\ UNCHANGED <<docVars, tp1c, docs1c, rows, seen>>

\* An exception of 1C or of a cursor ends the step, and the end of tp21c ends
\* it anywhere: a document that is written stays unconfirmed.
Abort ==
    /\ Fault
    /\ pc # "idle"
    /\ lost' = lost \cup (CASE pc = "confirm_records" -> {"records", "header"} \X {number}
                            [] pc = "confirm_header"  -> {"header"} \X {number}
                            [] OTHER                  -> {})
    /\ Leave
    /\ UNCHANGED <<docVars, tp1c, docs1c>>

-----------------------------------------------------------------------------
Progress ==
    \/ OpenCursor \/ OpenRecords \/ Write \/ ConfirmRecords \/ ConfirmHeader \/ Eof
    \/ \E d \in DocIds : ImportDocHeader(d)
    \/ \E r \in RecIds : ImportDocRecord(r)

ExportNext == Clerk \/ Progress \/ LoseConfirmation \/ Abort

ExportSpec == ExportInit /\ [][ExportNext]_expVars

\* The timer of tp21c starts the step again and again, and a step goes on.
FairExportSpec == ExportSpec /\ WF_expVars(Progress)

-----------------------------------------------------------------------------
(***************************************************************************)
(* The step keeps the promise of DocTransfer.                               *)
(***************************************************************************)
OnItsWay(d) == draft.src = d
StatusOf(d) == CASE OnItsWay(d) /\ number = NoId -> "sending"
                 [] OnItsWay(d) /\ number # NoId -> "sent"
                 [] ~OnItsWay(d) /\ id_1c[d] # NoId -> "done"
                 [] OTHER -> "waiting"
CopiesOf(d) == Cardinality({n \in DOMAIN docs1c : docs1c[n].src = d})

Transfer == INSTANCE DocTransfer WITH
    Docs    <- DocIds,
    present <- t_docs,
    status  <- [d \in DocIds |-> StatusOf(d)],
    copies  <- [d \in DocIds |-> CopiesOf(d)]

\* The detailed step refines the promise: whatever clerks, failures and crashes
\* do, a document is sent again only when it was left unconfirmed.
KeepsPromise == Transfer!Spec

-----------------------------------------------------------------------------
(***************************************************************************)
(* Properties.                                                              *)
(***************************************************************************)
Lost(what, n) == <<what, n>> \in lost

\* A number in ID_1C is the number of a document of 1C that was made from this
\* very row; for a record, of one made from its document.
ConfirmedIsIn1C ==
    /\ \A d \in t_docs : id_1c[d] # NoId =>
          id_1c[d] <= Len(docs1c) /\ docs1c[id_1c[d]].src = d
    /\ \A r \in t_doc_recs : rec_id_1c[r] # NoId =>
          rec_id_1c[r] <= Len(docs1c) /\ docs1c[rec_id_1c[r]].src = rec_doc[r]

\* 1C gets a document a second time only after the confirmation of the first was
\* lost: no interleaving with the clerks alone makes a duplicate.
DuplicateOnlyIfLost ==
    \A m, n \in DOMAIN docs1c :
        m < n /\ docs1c[m].src = docs1c[n].src => Lost("header", m)

\* So 1C never has more documents than the trade point ever had plus one for each
\* failure: failures do not multiply.
OneCopyPerFault == Len(docs1c) <= gen_docs + faults

\* The same for the goods of a document: one record is in two documents of 1C
\* only when the records' confirmation of the first was lost, whatever became of
\* the confirmation of its header.
RecordTwiceOnlyIfLost ==
    \A m, n \in DOMAIN docs1c :
        m < n /\ docs1c[m].recs \cap docs1c[n].recs # {} => Lost("records", m)

\* A document that was settled when it was exported for the first time reached 1C
\* as it is now and ever will be: all its records and nothing else.
SettledSentWhole ==
    \A n \in DOMAIN docs1c :
        LET doc == docs1c[n] IN
        doc.settled /\ doc.src \in t_docs /\ (\A m \in 1 .. n - 1 : docs1c[m].src # doc.src)
            => doc.rev = rev[doc.src] /\ doc.recs = RecsOf(doc.src)

\* A record is marked as sent without having been sent only if a clerk added it
\* after the cursor of the records was opened.
MarkedWasSentOrLate ==
    [][\A r \in RecIds : rec_id_1c[r] = NoId /\ rec_id_1c'[r] # NoId =>
          LET doc == docs1c[rec_id_1c'[r]] IN r \in doc.scan => r \in doc.recs]_expVars

\* Every document gets its number or is deleted, whatever the clerks do.
EveryDocumentSent ==
    \A d \in DocIds : d \in t_docs ~> (d \notin t_docs \/ id_1c[d] # NoId)

\* What the database's description of IS_CLOSED says: a document may be handed
\* over to 1C once it is closed.
OnlyClosedDocsSent == \A n \in DOMAIN docs1c : docs1c[n].is_closed

=============================================================================
