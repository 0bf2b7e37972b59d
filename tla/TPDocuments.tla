---------------------------- MODULE TPDocuments ----------------------------
(***************************************************************************)
(* The documents of a trade point (tables T_DOCS and T_DOC_RECS of the TP   *)
(* database) and the clerks who keep them from the kernel application.      *)
(*                                                                          *)
(* Every clerk runs the kernel on a workplace of his own; all of them work  *)
(* on one database.  A document is opened from the list (documents.dll),    *)
(* its header is edited in a dialog and its records in an editor            *)
(* (document.dll).  Whether the document is closed is looked at once, when  *)
(* it is opened: nothing looks again when a change is written.              *)
(*                                                                          *)
(* A database transaction of a clerk is one statement long, so it is one    *)
(* action; a transaction that fails (all of them are "nowait") is rolled    *)
(* back, leaves the dialog open and so is a stuttering step.                *)
(***************************************************************************)
EXTENDS Naturals

CONSTANTS Clerks,    \* the workplaces that run the kernel
          MaxDocs,   \* bound: document ids the generator gives out
          MaxRecs,   \* bound: record ids the generator gives out
          MaxRev     \* bound: changes of the contents of one document

ASSUME BoundsAssumption == /\ MaxDocs \in Nat
                           /\ MaxRecs \in Nat
                           /\ MaxRev \in Nat

DocIds == 1 .. MaxDocs
RecIds == 1 .. MaxRecs
NoId   == 0            \* SQL NULL, and the id of a row not inserted yet

VARIABLES
    gen_docs,    \* the last id given by GEN_T_DOCS_ID
    gen_recs,    \* the last id given by GEN_T_DOC_RECS_ID
    t_docs,      \* the ids of the rows of T_DOCS
    is_closed,   \* the documents whose IS_CLOSED was set to 1
    rev,         \* the revision of the contents of a document: header and records
    t_doc_recs,  \* the ids of the rows of T_DOC_RECS
    rec_doc,     \* T_DOC_RECS.DOC_ID, NoId before the row is inserted
    form         \* the window each clerk has open and the document in it

docVars == <<gen_docs, gen_recs, t_docs, is_closed, rev, t_doc_recs, rec_doc, form>>

Form == [at : {"list", "header", "lines"}, doc : DocIds \cup {NoId}]
InList == [at |-> "list", doc |-> NoId]

DocTypeOK ==
    /\ gen_docs \in 0 .. MaxDocs
    /\ gen_recs \in 0 .. MaxRecs
    /\ t_docs \subseteq 1 .. gen_docs
    /\ is_closed \subseteq 1 .. gen_docs
    /\ rev \in [DocIds -> 0 .. MaxRev]
    /\ t_doc_recs \subseteq 1 .. gen_recs
    /\ rec_doc \in [RecIds -> DocIds \cup {NoId}]
    /\ form \in [Clerks -> Form]

RecsOf(d) == {r \in t_doc_recs : rec_doc[r] = d}

DocInit ==
    /\ gen_docs = 0 /\ gen_recs = 0
    /\ t_docs = {} /\ is_closed = {} /\ t_doc_recs = {}
    /\ rev = [d \in DocIds |-> 0]
    /\ rec_doc = [r \in RecIds |-> NoId]
    /\ form = [c \in Clerks |-> InList]

-----------------------------------------------------------------------------
(***************************************************************************)
(* The list of documents.                                                   *)
(***************************************************************************)

\* A revision more: the guard keeps the model finite.
Touch(d) == /\ rev[d] < MaxRev
            /\ rev' = [rev EXCEPT ![d] = @ + 1]

\* bt_ins: the dialog of a new document.
OpenNew(c) ==
    /\ form[c] = InList
    /\ form' = [form EXCEPT ![c] = [at |-> "header", doc |-> NoId]]
    /\ UNCHANGED <<gen_docs, gen_recs, t_docs, is_closed, rev, t_doc_recs, rec_doc>>

\* IsRecordFixed reads IS_CLOSED from the database, not from the grid.
IsRecordFixed(d) == d \in is_closed

\* (a plausible bug: the grid is trusted, the closed flag is not asked for)
OpenForUpdate_Unchecked(c, d) ==
    /\ form[c] = InList
    /\ d \in t_docs
    /\ form' = [form EXCEPT ![c] = [at |-> "header", doc |-> d]]
    /\ UNCHANGED <<gen_docs, gen_recs, t_docs, is_closed, rev, t_doc_recs, rec_doc>>

\* bt_upd: the dialog of a document that is not closed.
OpenForUpdate(c, d) ==
    /\ form[c] = InList
    /\ d \in t_docs
    /\ ~IsRecordFixed(d)
    /\ form' = [form EXCEPT ![c] = [at |-> "header", doc |-> d]]
    /\ UNCHANGED <<gen_docs, gen_recs, t_docs, is_closed, rev, t_doc_recs, rec_doc>>

\* mi_fix: IS_CLOSED becomes 1, whoever has the document open.
Fix(c, d) ==
    /\ form[c] = InList
    /\ d \in t_docs
    /\ is_closed' = is_closed \cup {d}
    /\ UNCHANGED <<gen_docs, gen_recs, t_docs, rev, t_doc_recs, rec_doc, form>>

\* (a plausible bug: the foreign key does not cascade)
DeleteDocument_NoCascade(c, d) ==
    /\ form[c] = InList
    /\ d \in t_docs
    /\ t_docs' = t_docs \ {d}
    /\ UNCHANGED <<gen_docs, gen_recs, is_closed, rev, t_doc_recs, rec_doc, form>>

\* bt_del: the row and, ON DELETE CASCADE, its records; IS_CLOSED is not looked at.
DeleteDocument(c, d) ==
    /\ form[c] = InList
    /\ d \in t_docs
    /\ t_docs' = t_docs \ {d}
    /\ t_doc_recs' = t_doc_recs \ RecsOf(d)
    /\ UNCHANGED <<gen_docs, gen_recs, is_closed, rev, rec_doc, form>>

-----------------------------------------------------------------------------
(***************************************************************************)
(* The header dialog.  Its OK button writes the row and goes on to the      *)
(* editor of the records.                                                   *)
(***************************************************************************)

\* (a plausible bug: the id is taken past the generator)
InsertHeader_NoGenerator(c) ==
    /\ form[c] = [at |-> "header", doc |-> NoId]
    /\ gen_docs < MaxDocs
    /\ t_docs' = t_docs \cup {gen_docs + 1}
    /\ form' = [form EXCEPT ![c] = [at |-> "lines", doc |-> gen_docs + 1]]
    /\ UNCHANGED <<gen_docs, gen_recs, is_closed, rev, t_doc_recs, rec_doc>>

\* PTP_DOC_INS: a new id, IS_CLOSED = 0.
InsertHeader(c) ==
    /\ form[c] = [at |-> "header", doc |-> NoId]
    /\ gen_docs < MaxDocs
    /\ gen_docs' = gen_docs + 1
    /\ t_docs' = t_docs \cup {gen_docs + 1}
    /\ form' = [form EXCEPT ![c] = [at |-> "lines", doc |-> gen_docs + 1]]
    /\ UNCHANGED <<gen_recs, is_closed, rev, t_doc_recs, rec_doc>>

\* update t_docs ... where doc_id: no row when the document is gone, and then
\* the editor opens on no document all the same.
UpdateHeader(c) ==
    LET d == form[c].doc IN
    /\ form[c].at = "header"
    /\ d # NoId
    /\ IF d \in t_docs THEN Touch(d) ELSE UNCHANGED rev
    /\ form' = [form EXCEPT ![c].at = "lines"]
    /\ UNCHANGED <<gen_docs, gen_recs, t_docs, is_closed, t_doc_recs, rec_doc>>

CancelHeader(c) ==
    /\ form[c].at = "header"
    /\ form' = [form EXCEPT ![c] = InList]
    /\ UNCHANGED <<gen_docs, gen_recs, t_docs, is_closed, rev, t_doc_recs, rec_doc>>

-----------------------------------------------------------------------------
(***************************************************************************)
(* The editor of the records of one document.                               *)
(***************************************************************************)

\* PTP_DOC_REC_INS; the foreign key refuses a record of a deleted document.
InsertRecord(c) ==
    LET d == form[c].doc IN
    /\ form[c].at = "lines"
    /\ d \in t_docs
    /\ gen_recs < MaxRecs
    /\ gen_recs' = gen_recs + 1
    /\ t_doc_recs' = t_doc_recs \cup {gen_recs + 1}
    /\ rec_doc' = [rec_doc EXCEPT ![gen_recs + 1] = d]
    /\ Touch(d)
    /\ UNCHANGED <<gen_docs, t_docs, is_closed, form>>

\* The grid of the editor may still show a record that another clerk deleted:
\* the statement then finds no row, which is a stuttering step.
UpdateRecord(c, r) ==
    /\ form[c].at = "lines"
    /\ r \in RecsOf(form[c].doc)
    /\ Touch(form[c].doc)
    /\ UNCHANGED <<gen_docs, gen_recs, t_docs, is_closed, t_doc_recs, rec_doc, form>>

DeleteRecord(c, r) ==
    /\ form[c].at = "lines"
    /\ r \in RecsOf(form[c].doc)
    /\ t_doc_recs' = t_doc_recs \ {r}
    /\ Touch(form[c].doc)
    /\ UNCHANGED <<gen_docs, gen_recs, t_docs, is_closed, rec_doc, form>>

CloseEditor(c) ==
    /\ form[c].at = "lines"
    /\ form' = [form EXCEPT ![c] = InList]
    /\ UNCHANGED <<gen_docs, gen_recs, t_docs, is_closed, rev, t_doc_recs, rec_doc>>

-----------------------------------------------------------------------------
ClerkNext ==
    \E c \in Clerks :
        \/ OpenNew(c)
        \/ InsertHeader(c)
        \/ UpdateHeader(c)
        \/ CancelHeader(c)
        \/ InsertRecord(c)
        \/ CloseEditor(c)
        \/ \E d \in DocIds : OpenForUpdate(c, d) \/ Fix(c, d) \/ DeleteDocument(c, d)
        \/ \E r \in RecIds : UpdateRecord(c, r) \/ DeleteRecord(c, r)

DocSpec == DocInit /\ [][ClerkNext]_docVars
-----------------------------------------------------------------------------
(***************************************************************************)
(* Properties.                                                              *)
(***************************************************************************)

\* The document is closed and no clerk has it open any more.
Settled(d) == /\ d \in is_closed \cap t_docs
              /\ \A c \in Clerks : form[c].doc # d

\* A record belongs to a document that exists: a document that is deleted while
\* other clerks have it open takes all its records with it and gets no new ones.
NoOrphanRecord == \A r \in t_doc_recs : rec_doc[r] \in t_docs

\* Once a document is closed and the last clerk who had it open has left it,
\* its contents never change again, unless the document is deleted whole: no way
\* leads from the list into a closed document, and no record moves into it.
SettledIsFinal ==
    [][\A d \in DocIds : Settled(d) =>
          \/ d \notin t_docs'
          \/ /\ Settled(d)'
             /\ rev'[d] = rev[d]
             /\ RecsOf(d)' = RecsOf(d)]_docVars

\* What the database's description of IS_CLOSED and the message of IsRecordFixed
\* say: nothing in a closed document changes.
ClosedIsFrozen ==
    [][\A d \in is_closed \cap t_docs : d \in t_docs' => rev'[d] = rev[d]]_docVars

=============================================================================
