------------------------- MODULE TPDocumentsProofs -------------------------
(***************************************************************************)
(* What holds of the documents for any number of clerks, documents and      *)
(* records.                                                                 *)
(***************************************************************************)
EXTENDS TPDocuments, TLAPS

\* The state of the documents is typed, and stays so under every step of a clerk.
LEMMA DocTypeStep == DocTypeOK /\ [ClerkNext]_docVars => DocTypeOK'
<1> SUFFICES ASSUME DocTypeOK, [ClerkNext]_docVars PROVE DocTypeOK'
  OBVIOUS
<1> USE BoundsAssumption DEF DocTypeOK, DocIds, RecIds, NoId, Form, InList
<1>0. ASSUME NEW d, Touch(d) PROVE rev' \in [DocIds -> 0 .. MaxRev]
  <2>1. CASE d \in DocIds
    BY <1>0, <2>1 DEF Touch
  <2>2. CASE d \notin DocIds
    BY <1>0, <2>2 DEF Touch
  <2> QED
    BY <2>1, <2>2
<1>1. CASE UNCHANGED docVars
  BY <1>1 DEF docVars
<1>2. ASSUME NEW c \in Clerks, OpenNew(c) PROVE DocTypeOK'
  BY <1>2 DEF OpenNew
<1>3. ASSUME NEW c \in Clerks, InsertHeader(c) PROVE DocTypeOK'
  BY <1>3 DEF InsertHeader
<1>4. ASSUME NEW c \in Clerks, UpdateHeader(c) PROVE DocTypeOK'
  <2>1. form[c].doc \in DocIds /\ form' \in [Clerks -> Form]
    BY <1>4 DEF UpdateHeader
  <2>2. rev' \in [DocIds -> 0 .. MaxRev]
    BY <1>4, <1>0, <2>1 DEF UpdateHeader
  <2> QED
    BY <1>4, <2>1, <2>2 DEF UpdateHeader
<1>5. ASSUME NEW c \in Clerks, CancelHeader(c) PROVE DocTypeOK'
  BY <1>5 DEF CancelHeader
<1>6. ASSUME NEW c \in Clerks, InsertRecord(c) PROVE DocTypeOK'
  BY <1>6 DEF InsertRecord, Touch
<1>7. ASSUME NEW c \in Clerks, CloseEditor(c) PROVE DocTypeOK'
  BY <1>7 DEF CloseEditor
<1>8. ASSUME NEW c \in Clerks, NEW d \in DocIds, OpenForUpdate(c, d) PROVE DocTypeOK'
  BY <1>8 DEF OpenForUpdate
<1>9. ASSUME NEW c \in Clerks, NEW d \in DocIds, Fix(c, d) PROVE DocTypeOK'
  BY <1>9 DEF Fix
<1>10. ASSUME NEW c \in Clerks, NEW d \in DocIds, DeleteDocument(c, d) PROVE DocTypeOK'
  BY <1>10 DEF DeleteDocument
<1>11. ASSUME NEW c \in Clerks, NEW r \in RecIds, UpdateRecord(c, r) PROVE DocTypeOK'
  <2>1. rev' \in [DocIds -> 0 .. MaxRev]
    BY <1>11, <1>0 DEF UpdateRecord
  <2> QED
    BY <1>11, <2>1 DEF UpdateRecord
<1>12. ASSUME NEW c \in Clerks, NEW r \in RecIds, DeleteRecord(c, r) PROVE DocTypeOK'
  <2>1. rev' \in [DocIds -> 0 .. MaxRev]
    BY <1>12, <1>0 DEF DeleteRecord
  <2> QED
    BY <1>12, <2>1 DEF DeleteRecord
<1> QED
  BY <1>1, <1>2, <1>3, <1>4, <1>5, <1>6, <1>7, <1>8, <1>9, <1>10, <1>11, <1>12 DEF ClerkNext

\* Types hold in every state the clerks can reach.
THEOREM DocTypeCorrect == DocSpec => []DocTypeOK
<1>1. DocInit => DocTypeOK
  BY BoundsAssumption DEF DocInit, DocTypeOK, DocIds, RecIds, NoId, Form, InList
<1> QED
  BY <1>1, DocTypeStep, PTL DEF DocSpec

\* No record outlives its document: the cascade of the foreign key takes all
\* of them, and its check lets none in afterwards.
LEMMA NoOrphanStep ==
  DocTypeOK /\ NoOrphanRecord /\ [ClerkNext]_docVars => NoOrphanRecord'
<1> SUFFICES ASSUME DocTypeOK, NoOrphanRecord, [ClerkNext]_docVars PROVE NoOrphanRecord'
  OBVIOUS
<1> USE DEF NoOrphanRecord
<1>1. CASE UNCHANGED <<t_docs, t_doc_recs, rec_doc>>
  BY <1>1
<1>2. ASSUME NEW c \in Clerks, InsertHeader(c) PROVE NoOrphanRecord'
  BY <1>2 DEF InsertHeader
<1>3. ASSUME NEW c \in Clerks, InsertRecord(c) PROVE NoOrphanRecord'
  <2>1. gen_recs + 1 \notin t_doc_recs
    BY BoundsAssumption DEF DocTypeOK
  <2>2. form[c].doc \in t_docs /\ gen_recs + 1 \in RecIds
    BY <1>3, BoundsAssumption DEF InsertRecord, DocTypeOK, RecIds
  <2> QED
    BY <1>3, <2>1, <2>2 DEF InsertRecord, DocTypeOK
<1>4. ASSUME NEW c \in Clerks, NEW d \in DocIds, DeleteDocument(c, d) PROVE NoOrphanRecord'
  BY <1>4 DEF DeleteDocument, RecsOf
<1>5. ASSUME NEW c \in Clerks, NEW r \in RecIds, DeleteRecord(c, r) PROVE NoOrphanRecord'
  BY <1>5 DEF DeleteRecord
<1> QED
  BY <1>1, <1>2, <1>3, <1>4, <1>5
  DEF ClerkNext, docVars, OpenNew, UpdateHeader, CancelHeader, CloseEditor,
      OpenForUpdate, Fix, UpdateRecord

\* No record belongs to a document that is gone.
THEOREM NoOrphanCorrect == DocSpec => []NoOrphanRecord
<1>1. DocInit => NoOrphanRecord
  BY DEF DocInit, NoOrphanRecord
<1> QED
  BY <1>1, DocTypeCorrect, NoOrphanStep, PTL DEF DocSpec

\* A settled document is out of every clerk's reach but for deleting it whole:
\* each step that could touch it needs a clerk who has it open.
LEMMA SettledStep ==
  ASSUME DocTypeOK, NoOrphanRecord, [ClerkNext]_docVars, NEW d \in DocIds, Settled(d)
  PROVE  \/ d \notin t_docs'
         \/ /\ Settled(d)'
            /\ rev'[d] = rev[d]
            /\ RecsOf(d)' = RecsOf(d)
<1> USE DEF Settled, RecsOf
<1>1. CASE UNCHANGED docVars
  BY <1>1 DEF docVars
<1>2. ASSUME NEW c \in Clerks, OpenNew(c) \/ CancelHeader(c) \/ CloseEditor(c)
      PROVE  Settled(d)' /\ rev'[d] = rev[d] /\ RecsOf(d)' = RecsOf(d)
  <2>1. d # NoId
    BY DEF DocIds, NoId
  <2>2. \A k \in Clerks : form'[k].doc \in {form[k].doc, NoId}
    BY <1>2 DEF OpenNew, CancelHeader, CloseEditor, InList, DocTypeOK
  <2> QED
    BY <1>2, <2>1, <2>2 DEF OpenNew, CancelHeader, CloseEditor
<1>3. ASSUME NEW c \in Clerks, InsertHeader(c)
      PROVE  Settled(d)' /\ rev'[d] = rev[d] /\ RecsOf(d)' = RecsOf(d)
  <2>1. d # gen_docs + 1
    BY BoundsAssumption DEF DocTypeOK
  <2> QED
    BY <1>3, <2>1 DEF InsertHeader, DocTypeOK
<1>4. ASSUME NEW c \in Clerks, UpdateHeader(c)
      PROVE  Settled(d)' /\ rev'[d] = rev[d] /\ RecsOf(d)' = RecsOf(d)
  BY <1>4 DEF UpdateHeader, Touch, DocTypeOK, Form
<1>5. ASSUME NEW c \in Clerks, InsertRecord(c)
      PROVE  Settled(d)' /\ rev'[d] = rev[d] /\ RecsOf(d)' = RecsOf(d)
  <2>1. gen_recs + 1 \in RecIds /\ gen_recs + 1 \notin t_doc_recs
    BY <1>5, BoundsAssumption DEF InsertRecord, DocTypeOK, RecIds
  <2>2. form[c].doc # d
    OBVIOUS
  <2>3. rec_doc'[gen_recs + 1] # d /\ \A r \in t_doc_recs : rec_doc'[r] = rec_doc[r]
    BY <1>5, <2>1, <2>2 DEF InsertRecord, DocTypeOK
  <2>4. rev'[d] = rev[d]
    BY <1>5, <2>2 DEF InsertRecord, Touch, DocTypeOK
  <2>5. RecsOf(d)' = RecsOf(d)
    BY <1>5, <2>3 DEF InsertRecord
  <2> QED
    BY <1>5, <2>4, <2>5 DEF InsertRecord
<1>6. ASSUME NEW c \in Clerks, NEW e \in DocIds, OpenForUpdate(c, e)
      PROVE  Settled(d)' /\ rev'[d] = rev[d] /\ RecsOf(d)' = RecsOf(d)
  BY <1>6 DEF OpenForUpdate, IsRecordFixed, DocTypeOK, Form
<1>7. ASSUME NEW c \in Clerks, NEW e \in DocIds, Fix(c, e)
      PROVE  Settled(d)' /\ rev'[d] = rev[d] /\ RecsOf(d)' = RecsOf(d)
  BY <1>7 DEF Fix
<1>8. ASSUME NEW c \in Clerks, NEW e \in DocIds, DeleteDocument(c, e), e # d
      PROVE  Settled(d)' /\ rev'[d] = rev[d] /\ RecsOf(d)' = RecsOf(d)
  BY <1>8 DEF DeleteDocument
<1>9. ASSUME NEW c \in Clerks, NEW r \in RecIds, UpdateRecord(c, r) \/ DeleteRecord(c, r)
      PROVE  Settled(d)' /\ rev'[d] = rev[d] /\ RecsOf(d)' = RecsOf(d)
  BY <1>9 DEF UpdateRecord, DeleteRecord, Touch, DocTypeOK
<1>10. ASSUME NEW c \in Clerks, DeleteDocument(c, d) PROVE d \notin t_docs'
  BY <1>10 DEF DeleteDocument
<1> QED
  BY <1>1, <1>2, <1>3, <1>4, <1>5, <1>6, <1>7, <1>8, <1>9, <1>10 DEF ClerkNext

\* A closed document that nobody has open any more keeps its contents for ever.
THEOREM SettledCorrect == DocSpec => SettledIsFinal
<1>1. ASSUME DocTypeOK, NoOrphanRecord, [ClerkNext]_docVars
      PROVE  [\A d \in DocIds : Settled(d) =>
                \/ d \notin t_docs'
                \/ /\ Settled(d)'
                   /\ rev'[d] = rev[d]
                   /\ RecsOf(d)' = RecsOf(d)]_docVars
  BY <1>1, SettledStep
<1> QED
  BY <1>1, DocTypeCorrect, NoOrphanCorrect, PTL DEF DocSpec, SettledIsFinal
=============================================================================
