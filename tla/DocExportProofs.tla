-------------------------- MODULE DocExportProofs --------------------------
(***************************************************************************)
(* What holds of the hand-over of documents for any number of clerks,       *)
(* documents, records and failures, how many documents 1C gets, and that    *)
(* the export keeps the promise of DocTransfer.                             *)
(***************************************************************************)
EXTENDS DocExport, TPDocumentsProofs, FiniteSetTheorems

(***************************************************************************)
(* All the export needs to know of the clerks: ids are given out in order   *)
(* and never twice, and a record stays with its document.                   *)
(***************************************************************************)
LEMMA ClerkEffect ==
  ASSUME DocTypeOK, ClerkNext
  PROVE  /\ gen_docs <= gen_docs' /\ gen_recs <= gen_recs'
         /\ \A d \in t_docs' : d \in t_docs \/ d > gen_docs
         /\ \A r \in t_doc_recs' : r \in t_doc_recs \/ r > gen_recs
         /\ \A r \in RecIds : r <= gen_recs => rec_doc'[r] = rec_doc[r]
<1> DEFINE Same == UNCHANGED <<gen_docs, gen_recs, rec_doc>> /\ t_docs' \subseteq t_docs
                   /\ t_doc_recs' \subseteq t_doc_recs
<1>1. CASE Same
  BY <1>1 DEF DocTypeOK
<1>2. ASSUME NEW c \in Clerks, InsertHeader(c) PROVE gen_docs' = gen_docs + 1
      /\ UNCHANGED <<gen_recs, t_doc_recs, rec_doc>> /\ t_docs' = t_docs \cup {gen_docs + 1}
  BY <1>2 DEF InsertHeader
<1>3. ASSUME NEW c \in Clerks, InsertRecord(c) PROVE gen_recs' = gen_recs + 1
      /\ UNCHANGED <<gen_docs, t_docs>> /\ t_doc_recs' = t_doc_recs \cup {gen_recs + 1}
      /\ \A r \in RecIds : r <= gen_recs => rec_doc'[r] = rec_doc[r]
  BY <1>3 DEF InsertRecord, DocTypeOK
<1>4. Same \/ \E c \in Clerks : InsertHeader(c) \/ InsertRecord(c)
  BY DEF ClerkNext, OpenNew, UpdateHeader, CancelHeader, CloseEditor,
         OpenForUpdate, Fix, DeleteDocument, UpdateRecord, DeleteRecord
<1> HIDE DEF Same
<1> QED
  BY <1>1, <1>2, <1>3, <1>4 DEF DocTypeOK

LEMMA IdsTyped == DocTypeOK => t_docs \subseteq DocIds /\ t_doc_recs \subseteq RecIds
  BY BoundsAssumption DEF DocTypeOK, DocIds, RecIds

-----------------------------------------------------------------------------
(***************************************************************************)
(* Types.                                                                   *)
(***************************************************************************)
LEMMA NoDraftIsNone == NoDraft \notin Document1C
  BY DEF NoDraft, Document1C, DocIds, NoId

LEMMA ExportTypeInit == ExportInit => ExportTypeOK
<1> SUFFICES ASSUME ExportInit PROVE ExportTypeOK
  OBVIOUS
<1>1. DocTypeOK
  BY BoundsAssumption
  DEF ExportInit, DocInit, DocTypeOK, DocIds, RecIds, NoId, Form, InList
<1> QED
  BY <1>1, FaultsAssumption DEF ExportInit, ExportTypeOK

LEMMA ExportTypeStep == ExportTypeOK /\ [ExportNext]_expVars => ExportTypeOK'
<1> SUFFICES ASSUME ExportTypeOK, [ExportNext]_expVars PROVE ExportTypeOK'
  OBVIOUS
<1> USE NoDraftIsNone DEF ExportTypeOK
<1>0. UNCHANGED docVars => DocTypeOK'
  BY DocTypeStep
<1>1. CASE UNCHANGED expVars
  BY <1>1, <1>0 DEF expVars, tp1c, step
<1>2. CASE Clerk
  BY <1>2, DocTypeStep DEF Clerk, tp1c, step
<1>3. CASE OpenCursor
  <2>1. rows' \subseteq DocIds
    BY <1>3, IdsTyped DEF OpenCursor, Unsent
  <2> QED
    BY <1>3, <1>0, <2>1 DEF OpenCursor, tp1c
<1>4. ASSUME NEW d \in DocIds, ImportDocHeader(d) PROVE ExportTypeOK'
  <2>1. rev[d] \in 0 .. MaxRev
    BY DEF DocTypeOK
  <2>2. draft' \in Document1C /\ number' = number
    <3>1. Settled(d) \in BOOLEAN /\ (d \in is_closed) \in BOOLEAN
      BY DEF Settled
    <3> QED
      BY <1>4, <2>1, <3>1 DEF ImportDocHeader, Document1C
  <2>3. seen' \subseteq DocIds
    BY <1>4 DEF ImportDocHeader
  <2> QED
    BY <1>4, <1>0, <2>2, <2>3 DEF ImportDocHeader, tp1c
<1>5. CASE OpenRecords
  <2>1. UnsentRecs(draft.src) \in SUBSET RecIds
    BY IdsTyped DEF UnsentRecs, RecsOf
  <2>2. draft \in Document1C
    BY <1>5 DEF OpenRecords
  <2>3. draft' \in Document1C
    BY <1>5, <2>1, <2>2 DEF OpenRecords, Document1C
  <2> QED
    BY <1>5, <1>0, <2>3 DEF OpenRecords, tp1c
<1>6. ASSUME NEW r \in RecIds, ImportDocRecord(r) PROVE ExportTypeOK'
  <2>1. draft \in Document1C
    BY <1>6 DEF ImportDocRecord
  <2>2. draft' \in Document1C
    BY <1>6, <2>1 DEF ImportDocRecord, Document1C
  <2> QED
    BY <1>6, <1>0, <2>2 DEF ImportDocRecord, tp1c
<1>7. CASE Write
  <2>1. draft \in Document1C
    BY <1>7 DEF Write
  <2>2. docs1c' \in Seq(Document1C) /\ number' \in Numbers
    BY <1>7, <2>1 DEF Write, Numbers
  <2>3. number' # NoId
    BY <2>2 DEF Numbers, NoId
  <2> QED
    BY <1>7, <1>0, <2>1, <2>2, <2>3 DEF Write, tp1c
<1>8. CASE ConfirmRecords
  <2>1. rec_id_1c' \in [RecIds -> Numbers \cup {NoId}]
    BY <1>8 DEF ConfirmRecords
  <2> QED
    BY <1>8, <1>0, <2>1 DEF ConfirmRecords
<1>9. CASE ConfirmHeader
  <2>1. id_1c' \in [DocIds -> Numbers \cup {NoId}]
    BY <1>9 DEF ConfirmHeader
  <2> QED
    BY <1>9, <1>0, <2>1 DEF ConfirmHeader
<1>10. CASE Eof
  BY <1>10, <1>0 DEF Eof, Leave, tp1c
<1>11. CASE LoseConfirmation
  BY <1>11, <1>0, FaultsAssumption DEF LoseConfirmation, Fault, tp1c
<1>12. CASE Abort
  <2>1. number # NoId => number \in Numbers
    OBVIOUS
  <2>2. lost' \subseteq {"records", "header"} \X Numbers
    BY <1>12, <2>1 DEF Abort
  <2>3. faults' \in 0 .. MaxFaults
    BY <1>12, FaultsAssumption DEF Abort, Fault
  <2> QED
    BY <1>12, <1>0, <2>2, <2>3 DEF Abort, Leave, tp1c
<1> QED
  BY <1>1, <1>2, <1>3, <1>4, <1>5, <1>6, <1>7, <1>8, <1>9, <1>10, <1>11, <1>12
  DEF ExportNext, Progress

\* The state of the hand-over is typed, and its locals match the place it is at.
THEOREM ExportTypeCorrect == ExportSpec => []ExportTypeOK
  BY ExportTypeInit, ExportTypeStep, PTL DEF ExportSpec

\* What the proofs below use of it.
LEMMA ExportTypes ==
  ASSUME ExportTypeOK
  PROVE  /\ gen_docs \in Nat /\ gen_recs \in Nat
         /\ docs1c \in Seq(Document1C) /\ DOMAIN docs1c = 1 .. Len(docs1c) /\ Len(docs1c) \in Nat
         /\ \A n \in DOMAIN docs1c : /\ docs1c[n].src \in DocIds
                                     /\ docs1c[n].recs \subseteq RecIds
         /\ draft # NoDraft => /\ draft \in Document1C /\ draft.src \in DocIds
                               /\ draft.scan \subseteq RecIds /\ draft.recs \subseteq RecIds
<1>1. gen_docs \in Nat /\ gen_recs \in Nat
  BY BoundsAssumption DEF ExportTypeOK, DocTypeOK
<1>2. docs1c \in Seq(Document1C)
  BY DEF ExportTypeOK
<1>3. draft # NoDraft => draft \in Document1C
  BY DEF ExportTypeOK
<1>4. \A x \in Document1C : x.src \in DocIds /\ x.scan \subseteq RecIds /\ x.recs \subseteq RecIds
  BY DEF Document1C
<1> QED
  BY <1>1, <1>2, <1>3, <1>4

-----------------------------------------------------------------------------
(***************************************************************************)
(* Numbers and duplicates.                                                  *)
(***************************************************************************)

\* What is known of the rows: a number stands for a document of 1C made from the
\* row, and neither numbers nor documents of 1C run ahead of the generators.
Known ==
    /\ \A d \in DocIds : id_1c[d] # NoId =>
          d <= gen_docs /\ id_1c[d] \in DOMAIN docs1c /\ docs1c[id_1c[d]].src = d
    /\ \A r \in RecIds : rec_id_1c[r] # NoId =>
          /\ r <= gen_recs /\ rec_id_1c[r] \in DOMAIN docs1c
          /\ docs1c[rec_id_1c[r]].src = rec_doc[r]
    /\ \A n \in DOMAIN docs1c : docs1c[n].src <= gen_docs

\* What is known of the document on its way.
Current ==
    /\ draft # NoDraft => draft.src <= gen_docs /\ id_1c[draft.src] = NoId
    /\ number # NoId => number \in DOMAIN docs1c /\ docs1c[number].src = draft.src

\* Every document of 1C is accounted for: its confirmation was lost, its row has
\* a number, or has been deleted, or it is the one being confirmed.
Accounted ==
    /\ \A m \in DOMAIN docs1c :
          Lost("header", m) \/ id_1c[docs1c[m].src] # NoId
                            \/ docs1c[m].src \notin t_docs \/ number = m
    /\ pc \in {"header", "records"} =>
          \A m \in DOMAIN docs1c : docs1c[m].src = draft.src => Lost("header", m)
    /\ DuplicateOnlyIfLost

ExportInv == ExportTypeOK /\ Known /\ Current /\ Accounted

LEMMA ExportInvInit == ExportInit => ExportInv
<1> SUFFICES ASSUME ExportInit PROVE ExportInv
  OBVIOUS
<1>1. ExportTypeOK
  BY ExportTypeInit
<1>2. DOMAIN docs1c = {}
  BY DEF ExportInit
<1> QED
  BY <1>1, <1>2
  DEF ExportInv, Known, Current, Accounted, DuplicateOnlyIfLost, ExportInit

LEMMA ExportInvStep == ExportInv /\ [ExportNext]_expVars => ExportInv'
<1> SUFFICES ASSUME ExportInv, [ExportNext]_expVars PROVE ExportInv'
  OBVIOUS
<1>0. ExportTypeOK /\ ExportTypeOK'
  BY ExportTypeStep DEF ExportInv
<1>t. /\ gen_docs \in Nat /\ gen_recs \in Nat /\ gen_docs' \in Nat /\ gen_recs' \in Nat
      /\ docs1c \in Seq(Document1C) /\ docs1c' \in Seq(Document1C)
      /\ \A n \in DOMAIN docs1c : docs1c[n].src \in DocIds
      /\ draft # NoDraft => draft.src \in DocIds
  <2>1. gen_docs \in Nat /\ gen_recs \in Nat /\ gen_docs' \in Nat /\ gen_recs' \in Nat
    BY <1>0, BoundsAssumption DEF ExportTypeOK, DocTypeOK
  <2>2. docs1c \in Seq(Document1C) /\ docs1c' \in Seq(Document1C)
    BY <1>0 DEF ExportTypeOK
  <2>3. draft # NoDraft => draft \in Document1C
    BY <1>0 DEF ExportTypeOK
  <2>4. \A x \in Document1C : x.src \in DocIds
    BY DEF Document1C
  <2> QED
    BY <2>1, <2>2, <2>3, <2>4
<1> USE DEF ExportInv
<1>1. CASE UNCHANGED expVars
  <2>1. UNCHANGED <<gen_docs, gen_recs, t_docs, rec_doc, id_1c, rec_id_1c, docs1c, pc,
                    draft, number, lost>>
    BY <1>1 DEF expVars, docVars, tp1c, step
  <2> QED
    BY <1>0, <2>1 DEF Known, Current, Accounted, DuplicateOnlyIfLost, Lost
<1>2. CASE Clerk
  <2>1. /\ gen_docs <= gen_docs' /\ gen_recs <= gen_recs'
        /\ \A d \in t_docs' : d \in t_docs \/ d > gen_docs
        /\ \A r \in RecIds : r <= gen_recs => rec_doc'[r] = rec_doc[r]
    BY <1>2, <1>0, ClerkEffect DEF Clerk, ExportTypeOK
  <2>2. UNCHANGED <<id_1c, rec_id_1c, docs1c, pc, draft, number, lost>>
    BY <1>2 DEF Clerk, tp1c, step
  <2>3. Known'
    BY <2>1, <2>2, <1>t DEF Known, DocIds, RecIds
  <2>4. Current'
    BY <2>1, <2>2, <1>t DEF Current, DocIds
  <2>5. \A m \in DOMAIN docs1c : docs1c[m].src \notin t_docs => docs1c[m].src \notin t_docs'
    BY <2>1, <1>t DEF Known, DocIds
  <2>6. Accounted'
    BY <2>2, <2>5 DEF Accounted, DuplicateOnlyIfLost, Lost
  <2> QED
    BY <1>0, <2>3, <2>4, <2>6
<1>k. UNCHANGED <<gen_docs, gen_recs, rec_doc, id_1c, rec_id_1c, docs1c>> => Known'
  BY DEF Known
<1>3. CASE OpenCursor \/ Eof
  <2>1. UNCHANGED <<gen_docs, gen_recs, t_docs, rec_doc, id_1c, rec_id_1c, docs1c, draft,
                    number, lost>> /\ pc' \notin {"header", "records"}
    BY <1>3, <1>0 DEF OpenCursor, Eof, Leave, docVars, tp1c, ExportTypeOK
  <2> QED
    BY <1>0, <1>k, <2>1 DEF Current, Accounted, DuplicateOnlyIfLost, Lost
<1>4. ASSUME NEW d \in DocIds, ImportDocHeader(d) PROVE ExportInv'
  <2>1. UNCHANGED <<gen_docs, gen_recs, t_docs, rec_doc, id_1c, rec_id_1c, docs1c,
                    number, lost>> /\ draft'.src = d /\ number = NoId
    BY <1>4, <1>0 DEF ImportDocHeader, docVars, tp1c, ExportTypeOK
  <2>2. d \in t_docs /\ id_1c[d] = NoId /\ d <= gen_docs
    BY <1>4, <1>0 DEF ImportDocHeader, Unsent, ExportTypeOK, DocTypeOK
  <2>3. \A m \in DOMAIN docs1c : docs1c[m].src = d => Lost("header", m)
    BY <1>t, <2>1, <2>2 DEF Accounted, NoId
  <2> QED
    BY <1>0, <1>k, <2>1, <2>2, <2>3 DEF Current, Accounted, DuplicateOnlyIfLost, Lost
<1>5. CASE OpenRecords \/ \E r \in RecIds : ImportDocRecord(r)
  <2>1. UNCHANGED <<gen_docs, gen_recs, t_docs, rec_doc, id_1c, rec_id_1c, docs1c,
                    number, lost>> /\ pc \in {"header", "records"}
    BY <1>5 DEF OpenRecords, ImportDocRecord, docVars, tp1c
  <2>2. draft # NoDraft /\ draft \in Document1C
    BY <1>0, <2>1 DEF ExportTypeOK
  <2>3. draft'.src = draft.src
    BY <1>5, <2>2 DEF OpenRecords, ImportDocRecord, Document1C
  <2> QED
    BY <1>0, <1>k, <2>1, <2>2, <2>3 DEF Current, Accounted, DuplicateOnlyIfLost, Lost
<1>6. CASE Write
  <2> DEFINE k == Len(docs1c) + 1
  <2>1. /\ UNCHANGED <<gen_docs, gen_recs, t_docs, rec_doc, id_1c, rec_id_1c, draft, lost>>
        /\ number' = k /\ number = NoId /\ pc = "records" /\ pc' = "confirm_records"
        /\ docs1c' = Append(docs1c, draft)
    BY <1>6, <1>0 DEF Write, docVars, tp1c, ExportTypeOK
  <2>2. draft # NoDraft /\ draft \in Document1C
    BY <1>0, <2>1 DEF ExportTypeOK
  <2>3. /\ DOMAIN docs1c' = DOMAIN docs1c \cup {k} /\ k \notin DOMAIN docs1c
        /\ \A m \in DOMAIN docs1c : m < k /\ docs1c'[m] = docs1c[m]
        /\ docs1c'[k] = draft
    BY <1>t, <2>1, <2>2
  <2>4. k # NoId
    BY <1>t DEF NoId
  <2> HIDE DEF k
  <2>5. Known'
    BY <2>1, <2>2, <2>3 DEF Known, Current
  <2>6. Current'
    BY <2>1, <2>2, <2>3 DEF Current
  <2>7. \A m \in DOMAIN docs1c : docs1c[m].src = draft.src => Lost("header", m)
    BY <2>1 DEF Accounted
  <2>8. DuplicateOnlyIfLost'
    <3> SUFFICES ASSUME NEW m \in DOMAIN docs1c', NEW n \in DOMAIN docs1c', m < n,
                        docs1c'[m].src = docs1c'[n].src
                 PROVE  Lost("header", m)'
      BY DEF DuplicateOnlyIfLost
    <3>1. m \in DOMAIN docs1c
      BY <1>t, <2>3 DEF k
    <3>2. CASE n = k
      BY <2>1, <2>3, <2>7, <3>1, <3>2 DEF Lost
    <3>3. CASE n \in DOMAIN docs1c
      BY <2>1, <2>3, <3>1, <3>3 DEF Lost, Accounted, DuplicateOnlyIfLost
    <3> QED
      BY <2>3, <3>2, <3>3
  <2>9. Accounted'
    <3>1. ASSUME NEW m \in DOMAIN docs1c
          PROVE  (Lost("header", m) \/ id_1c[docs1c[m].src] # NoId
                            \/ docs1c[m].src \notin t_docs \/ number = m)'
      <4>1. number # m
        BY <1>t, <2>1 DEF NoId
      <4> QED
        BY <2>1, <2>3, <4>1 DEF Accounted, Lost
    <3> QED
      BY <2>1, <2>3, <2>8, <3>1 DEF Accounted
  <2> QED
    BY <1>0, <2>5, <2>6, <2>9
<1>7. CASE ConfirmRecords
  <2>1. /\ UNCHANGED <<gen_docs, gen_recs, t_docs, rec_doc, id_1c, docs1c, draft, number, lost>>
        /\ pc = "confirm_records" /\ pc' = "confirm_header"
        /\ rec_id_1c' = [r \in RecIds |-> IF r \in RecsOf(draft.src) THEN number
                                                                  ELSE rec_id_1c[r]]
    BY <1>7 DEF ConfirmRecords, docVars
  <2>2. number # NoId /\ number \in DOMAIN docs1c /\ docs1c[number].src = draft.src
    BY <1>0, <2>1 DEF ExportTypeOK, Current
  <2>3. \A r \in RecsOf(draft.src) : r <= gen_recs /\ rec_doc[r] = draft.src
    BY <1>0 DEF RecsOf, ExportTypeOK, DocTypeOK
  <2>4. Known'
    BY <2>1, <2>2, <2>3 DEF Known
  <2> QED
    BY <1>0, <2>1, <2>4 DEF Current, Accounted, DuplicateOnlyIfLost, Lost
<1>8. CASE ConfirmHeader
  <2>1. /\ UNCHANGED <<gen_docs, gen_recs, t_docs, rec_doc, rec_id_1c, docs1c, lost>>
        /\ pc = "confirm_header" /\ pc' = "row" /\ draft' = NoDraft /\ number' = NoId
        /\ id_1c' = IF draft.src \in t_docs THEN [id_1c EXCEPT ![draft.src] = number]
                                            ELSE id_1c
    BY <1>8 DEF ConfirmHeader, docVars
  <2>2. /\ number # NoId /\ number \in DOMAIN docs1c /\ docs1c[number].src = draft.src
        /\ draft.src \in DocIds /\ draft.src <= gen_docs
    BY <1>0, <1>t, <2>1 DEF ExportTypeOK, Current
  <2>3. id_1c \in [DocIds -> Numbers \cup {NoId}]
    BY <1>0 DEF ExportTypeOK
  <2>4. Known'
    BY <2>1, <2>2, <2>3 DEF Known
  <2>5. \A d \in DocIds : id_1c[d] # NoId => id_1c'[d] # NoId
    BY <2>1, <2>2, <2>3
  <2>6. docs1c[number].src \in t_docs => id_1c'[docs1c[number].src] # NoId
    BY <2>1, <2>2, <2>3
  <2>7. Accounted'
    BY <1>t, <2>1, <2>5, <2>6 DEF Accounted, DuplicateOnlyIfLost, Lost
  <2> QED
    BY <1>0, <2>1, <2>4, <2>7 DEF Current
<1>9. CASE LoseConfirmation
  <2>1. UNCHANGED <<gen_docs, gen_recs, t_docs, rec_doc, id_1c, rec_id_1c, docs1c>>
        /\ lost \subseteq lost' /\ pc' \in {"confirm_header", "row"}
    BY <1>9 DEF LoseConfirmation, docVars, tp1c
  <2>2. \/ UNCHANGED <<draft, number>>
        \/ draft' = NoDraft /\ number' = NoId /\ <<"header", number>> \in lost'
    BY <1>9 DEF LoseConfirmation
  <2> QED
    BY <1>0, <1>k, <2>1, <2>2 DEF Current, Accounted, DuplicateOnlyIfLost, Lost
<1>10. CASE Abort
  <2>1. UNCHANGED <<gen_docs, gen_recs, t_docs, rec_doc, id_1c, rec_id_1c, docs1c>>
        /\ lost \subseteq lost' /\ pc' = "idle" /\ draft' = NoDraft /\ number' = NoId
    BY <1>10 DEF Abort, Leave, docVars, tp1c
  <2>2. number # NoId => <<"header", number>> \in lost'
    BY <1>10, <1>0 DEF Abort, ExportTypeOK
  <2>3. \A m \in DOMAIN docs1c : number = m => number # NoId
    BY <1>t DEF NoId
  <2> QED
    BY <1>0, <1>k, <2>1, <2>2, <2>3 DEF Current, Accounted, DuplicateOnlyIfLost, Lost
<1> QED
  BY <1>1, <1>2, <1>3, <1>4, <1>5, <1>6, <1>7, <1>8, <1>9, <1>10 DEF ExportNext, Progress

LEMMA ExportInvCorrect == ExportSpec => []ExportInv
  BY ExportInvInit, ExportInvStep, PTL DEF ExportSpec

\* Without a lost confirmation no document reaches 1C twice.
THEOREM DuplicateCorrect == ExportSpec => []DuplicateOnlyIfLost
<1>1. ExportInv => DuplicateOnlyIfLost
  BY DEF ExportInv, Accounted
<1> QED
  BY <1>1, ExportInvCorrect, PTL

\* A number in the database of the trade point is never an invention.
THEOREM ConfirmedCorrect == ExportSpec => []ConfirmedIsIn1C
<1>1. ExportInv => ConfirmedIsIn1C
  BY IdsTyped DEF ExportInv, ExportTypeOK, Known, ConfirmedIsIn1C
<1> QED
  BY <1>1, ExportInvCorrect, PTL

-----------------------------------------------------------------------------
(***************************************************************************)
(* Records.                                                                 *)
(***************************************************************************)

\* Every record of a document of 1C is accounted for as its document is: its
\* confirmation was lost, its row has a number, or has been deleted, or the
\* records are being confirmed; and no record moves to another document.
Handed ==
    /\ \A m \in DOMAIN docs1c : \A r \in docs1c[m].recs :
          /\ r <= gen_recs /\ rec_doc[r] = docs1c[m].src
          /\ \/ Lost("records", m) \/ rec_id_1c[r] # NoId
             \/ r \notin t_doc_recs \/ (number = m /\ pc = "confirm_records")
    /\ draft # NoDraft => \A r \in draft.recs : r <= gen_recs /\ rec_doc[r] = draft.src
    /\ pc \in {"header", "records"} => \A m \in DOMAIN docs1c :
          docs1c[m].recs \cap draft.recs # {} => Lost("records", m)
    /\ RecordTwiceOnlyIfLost

LEMMA HandedInit == ExportInit => Handed
<1> SUFFICES ASSUME ExportInit PROVE Handed
  OBVIOUS
<1>1. DOMAIN docs1c = {}
  BY DEF ExportInit
<1> QED
  BY <1>1 DEF Handed, RecordTwiceOnlyIfLost, ExportInit

LEMMA HandedStep == ExportInv /\ Handed /\ [ExportNext]_expVars => Handed'
<1> SUFFICES ASSUME ExportInv, Handed, [ExportNext]_expVars PROVE Handed'
  OBVIOUS
<1>0. ExportTypeOK
  BY DEF ExportInv
<1>t. /\ gen_docs \in Nat /\ gen_recs \in Nat
      /\ docs1c \in Seq(Document1C) /\ DOMAIN docs1c = 1 .. Len(docs1c) /\ Len(docs1c) \in Nat
      /\ \A n \in DOMAIN docs1c : docs1c[n].src \in DocIds /\ docs1c[n].recs \subseteq RecIds
      /\ draft # NoDraft => /\ draft \in Document1C /\ draft.src \in DocIds
                            /\ draft.scan \subseteq RecIds /\ draft.recs \subseteq RecIds
  BY <1>0, ExportTypes
<1>1. CASE UNCHANGED <<gen_recs, t_doc_recs, rec_doc, rec_id_1c, docs1c, pc, draft, number, lost>>
  BY <1>1 DEF Handed, RecordTwiceOnlyIfLost, Lost
<1>2. CASE Clerk
  <2>1. /\ gen_recs <= gen_recs' /\ gen_recs' \in Nat
        /\ \A r \in t_doc_recs' : r \in t_doc_recs \/ r > gen_recs
        /\ \A r \in RecIds : r <= gen_recs => rec_doc'[r] = rec_doc[r]
    <3>1. ExportTypeOK'
      BY <1>0, ExportTypeStep
    <3> QED
      BY <1>2, <1>0, <3>1, ClerkEffect, BoundsAssumption DEF Clerk, ExportTypeOK, DocTypeOK
  <2>2. UNCHANGED <<id_1c, rec_id_1c, docs1c, pc, draft, number, lost>>
    BY <1>2 DEF Clerk, tp1c, step
  <2>3. \A r \in RecIds : r <= gen_recs =>
           r <= gen_recs' /\ rec_doc'[r] = rec_doc[r] /\ (r \in t_doc_recs' => r \in t_doc_recs)
    BY <1>t, <2>1 DEF RecIds
  <2> QED
    BY <1>t, <2>2, <2>3 DEF Handed, RecordTwiceOnlyIfLost, Lost
<1>3. CASE OpenCursor \/ Eof
  <2>1. UNCHANGED <<gen_recs, t_doc_recs, rec_doc, rec_id_1c, docs1c, draft, number, lost>>
        /\ pc \notin {"confirm_records"} /\ pc' \notin {"header", "records"}
    BY <1>3, <1>0 DEF OpenCursor, Eof, Leave, docVars, tp1c, ExportTypeOK
  <2> QED
    BY <2>1 DEF Handed, RecordTwiceOnlyIfLost, Lost
<1>4. ASSUME NEW d \in DocIds, ImportDocHeader(d) PROVE Handed'
  <2>1. UNCHANGED <<gen_recs, t_doc_recs, rec_doc, rec_id_1c, docs1c, number, lost>>
        /\ draft'.recs = {} /\ pc # "confirm_records"
    BY <1>4 DEF ImportDocHeader, docVars, tp1c
  <2> QED
    BY <2>1 DEF Handed, RecordTwiceOnlyIfLost, Lost
<1>5. CASE OpenRecords
  <2>1. UNCHANGED <<gen_recs, t_doc_recs, rec_doc, rec_id_1c, docs1c, number, lost>>
        /\ pc = "header" /\ pc' = "records" /\ draft # NoDraft
    BY <1>5, <1>0 DEF OpenRecords, docVars, tp1c, ExportTypeOK
  <2>2. draft'.recs = draft.recs /\ draft'.src = draft.src
    BY <1>5, <1>t, <2>1 DEF OpenRecords, Document1C
  <2> QED
    BY <2>1, <2>2 DEF Handed, RecordTwiceOnlyIfLost, Lost
<1>6. ASSUME NEW r \in RecIds, ImportDocRecord(r) PROVE Handed'
  <2>1. UNCHANGED <<gen_recs, t_doc_recs, rec_doc, rec_id_1c, docs1c, pc, number, lost>>
        /\ pc = "records" /\ draft # NoDraft /\ number = NoId
    BY <1>6, <1>0 DEF ImportDocRecord, docVars, tp1c, ExportTypeOK
  <2>2. draft'.recs = draft.recs \cup {r} /\ draft'.src = draft.src
    BY <1>6, <1>t, <2>1 DEF ImportDocRecord, Document1C
  <2>3. r \in t_doc_recs /\ rec_doc[r] = draft.src /\ rec_id_1c[r] = NoId /\ r <= gen_recs
    BY <1>6, <1>0 DEF ImportDocRecord, UnsentRecs, RecsOf, ExportTypeOK, DocTypeOK
  <2>4. \A m \in DOMAIN docs1c : r \in docs1c[m].recs => Lost("records", m)
    BY <2>1, <2>3 DEF Handed
  <2> QED
    BY <2>1, <2>2, <2>3, <2>4 DEF Handed, RecordTwiceOnlyIfLost, Lost
<1>7. CASE Write
  <2> DEFINE k == Len(docs1c) + 1
  <2>1. /\ UNCHANGED <<gen_recs, t_doc_recs, rec_doc, rec_id_1c, draft, lost>>
        /\ number' = k /\ number = NoId /\ pc = "records" /\ pc' = "confirm_records"
        /\ docs1c' = Append(docs1c, draft) /\ draft # NoDraft
    BY <1>7, <1>0 DEF Write, docVars, tp1c, ExportTypeOK
  <2>2. /\ DOMAIN docs1c' = DOMAIN docs1c \cup {k} /\ k \notin DOMAIN docs1c
        /\ \A m \in DOMAIN docs1c : m < k /\ m # NoId /\ docs1c'[m] = docs1c[m]
        /\ docs1c'[k] = draft
    BY <1>t, <2>1 DEF NoId
  <2> HIDE DEF k
  <2>3. RecordTwiceOnlyIfLost'
    <3> SUFFICES ASSUME NEW m \in DOMAIN docs1c', NEW n \in DOMAIN docs1c', m < n,
                        docs1c'[m].recs \cap docs1c'[n].recs # {}
                 PROVE  Lost("records", m)'
      BY DEF RecordTwiceOnlyIfLost
    <3>1. m \in DOMAIN docs1c
      BY <1>t, <2>2 DEF k
    <3>2. CASE n = k
      BY <2>1, <2>2, <3>1, <3>2 DEF Lost, Handed
    <3>3. CASE n \in DOMAIN docs1c
      BY <2>1, <2>2, <3>1, <3>3 DEF Lost, Handed, RecordTwiceOnlyIfLost
    <3> QED
      BY <2>2, <3>2, <3>3
  <2> QED
    BY <2>1, <2>2, <2>3 DEF Handed, Lost
<1>8. CASE ConfirmRecords
  <2>1. /\ UNCHANGED <<gen_recs, t_doc_recs, rec_doc, docs1c, draft, number, lost>>
        /\ pc = "confirm_records" /\ pc' = "confirm_header"
        /\ rec_id_1c' = [r \in RecIds |-> IF r \in RecsOf(draft.src) THEN number
                                                                  ELSE rec_id_1c[r]]
    BY <1>8 DEF ConfirmRecords, docVars
  <2>2. number # NoId /\ number \in DOMAIN docs1c /\ docs1c[number].src = draft.src
    BY <1>0, <2>1 DEF ExportTypeOK, ExportInv, Current
  <2>3. \A r \in RecIds : rec_id_1c[r] # NoId => rec_id_1c'[r] # NoId
    BY <2>1, <2>2
  <2>4. \A r \in docs1c[number].recs : r \in t_doc_recs => rec_id_1c'[r] # NoId
    BY <1>t, <2>1, <2>2 DEF Handed, RecsOf
  <2> QED
    BY <1>t, <2>1, <2>3, <2>4 DEF Handed, RecordTwiceOnlyIfLost, Lost
<1>9. CASE ConfirmHeader
  BY <1>9 DEF ConfirmHeader, docVars, Handed, RecordTwiceOnlyIfLost, Lost
<1>10. CASE LoseConfirmation \/ Abort
  <2>1. UNCHANGED <<gen_recs, t_doc_recs, rec_doc, rec_id_1c, docs1c>> /\ lost \subseteq lost'
        /\ pc' \notin {"header", "records"} /\ (draft' = draft \/ draft' = NoDraft)
    BY <1>10 DEF LoseConfirmation, Abort, Leave, docVars, tp1c
  <2>2. pc = "confirm_records" => <<"records", number>> \in lost'
    BY <1>10 DEF LoseConfirmation, Abort
  <2> QED
    BY <2>1, <2>2 DEF Handed, RecordTwiceOnlyIfLost, Lost
<1> QED
  BY <1>1, <1>2, <1>3, <1>4, <1>5, <1>6, <1>7, <1>8, <1>9, <1>10
  DEF ExportNext, Progress, expVars, docVars, tp1c, step

LEMMA HandedCorrect == ExportSpec => []Handed
  BY HandedInit, HandedStep, ExportInvCorrect, PTL DEF ExportSpec

\* A record is in two documents of 1C only if the confirmation of the records of
\* the first was lost.
THEOREM RecordTwiceCorrect == ExportSpec => []RecordTwiceOnlyIfLost
<1>1. Handed => RecordTwiceOnlyIfLost
  BY DEF Handed
<1> QED
  BY <1>1, HandedCorrect, PTL

\* While records are being confirmed, every unsent record the cursor has found
\* was sent.
Scanned ==
    /\ draft # NoDraft => \A r \in draft.scan : r <= gen_recs
    /\ pc = "confirm_records" => /\ docs1c[number] = draft
                                 /\ draft.scan \cap UnsentRecs(draft.src) \subseteq draft.recs

LEMMA ScannedStep == ExportInv /\ Scanned /\ [ExportNext]_expVars => Scanned'
<1> SUFFICES ASSUME ExportInv, Scanned, [ExportNext]_expVars PROVE Scanned'
  OBVIOUS
<1>0. ExportTypeOK
  BY DEF ExportInv
<1>t. /\ gen_recs \in Nat
      /\ docs1c \in Seq(Document1C) /\ DOMAIN docs1c = 1 .. Len(docs1c) /\ Len(docs1c) \in Nat
      /\ draft # NoDraft => /\ draft \in Document1C /\ draft.src \in DocIds
                            /\ draft.scan \subseteq RecIds /\ draft.recs \subseteq RecIds
  BY <1>0, ExportTypes
<1>1. CASE UNCHANGED <<gen_recs, t_doc_recs, rec_doc, rec_id_1c, docs1c, pc, draft, number>>
  BY <1>1 DEF Scanned, UnsentRecs, RecsOf
<1>2. CASE Clerk
  <2>1. /\ gen_recs <= gen_recs' /\ gen_recs' \in Nat
        /\ \A r \in t_doc_recs' : r \in t_doc_recs \/ r > gen_recs
        /\ \A r \in RecIds : r <= gen_recs => rec_doc'[r] = rec_doc[r]
    <3>1. ExportTypeOK'
      BY <1>0, ExportTypeStep
    <3> QED
      BY <1>2, <1>0, <3>1, ClerkEffect, BoundsAssumption DEF Clerk, ExportTypeOK, DocTypeOK
  <2>2. UNCHANGED <<rec_id_1c, docs1c, pc, draft, number>>
    BY <1>2 DEF Clerk, tp1c, step
  <2>3. \A r \in RecIds : r <= gen_recs =>
           r <= gen_recs' /\ rec_doc'[r] = rec_doc[r] /\ (r \in t_doc_recs' => r \in t_doc_recs)
    BY <1>t, <2>1 DEF RecIds
  <2>4. pc = "confirm_records" => draft # NoDraft
    BY <1>0 DEF ExportTypeOK
  <2> QED
    BY <1>t, <2>2, <2>3, <2>4 DEF Scanned, UnsentRecs, RecsOf
<1>3. CASE OpenCursor \/ Eof
  <2>1. UNCHANGED <<gen_recs, draft>> /\ pc' # "confirm_records"
    BY <1>3, <1>0 DEF OpenCursor, Eof, Leave, docVars, ExportTypeOK
  <2> QED
    BY <2>1 DEF Scanned
<1>4. ASSUME NEW d \in DocIds, ImportDocHeader(d) PROVE Scanned'
  BY <1>4 DEF ImportDocHeader, docVars, Scanned
<1>5. CASE OpenRecords
  <2>1. UNCHANGED gen_recs /\ pc' = "records" /\ draft # NoDraft
    BY <1>5, <1>0 DEF OpenRecords, docVars, ExportTypeOK
  <2>2. draft'.scan = UnsentRecs(draft.src)
    BY <1>5, <1>t, <2>1 DEF OpenRecords, Document1C
  <2>3. \A r \in UnsentRecs(draft.src) : r <= gen_recs
    BY <1>0 DEF UnsentRecs, RecsOf, ExportTypeOK, DocTypeOK
  <2> QED
    BY <2>1, <2>2, <2>3 DEF Scanned
<1>6. ASSUME NEW r \in RecIds, ImportDocRecord(r) PROVE Scanned'
  <2>1. UNCHANGED gen_recs /\ pc' = "records" /\ draft # NoDraft
    BY <1>6, <1>0 DEF ImportDocRecord, docVars, ExportTypeOK
  <2>2. draft'.scan = draft.scan
    BY <1>6, <1>t, <2>1 DEF ImportDocRecord, Document1C
  <2> QED
    BY <2>1, <2>2 DEF Scanned
<1>7. CASE Write
  <2>1. /\ UNCHANGED <<gen_recs, t_doc_recs, rec_doc, rec_id_1c, draft>>
        /\ number' = Len(docs1c) + 1 /\ docs1c' = Append(docs1c, draft) /\ draft # NoDraft
        /\ draft.scan \cap UnsentRecs(draft.src) \subseteq draft.recs
    BY <1>7, <1>0 DEF Write, docVars, tp1c, ExportTypeOK
  <2>2. docs1c'[number'] = draft
    BY <1>t, <2>1
  <2> QED
    BY <2>1, <2>2 DEF Scanned, UnsentRecs, RecsOf
<1>8. CASE ConfirmRecords \/ ConfirmHeader \/ LoseConfirmation \/ Abort
  <2>1. UNCHANGED gen_recs /\ pc' # "confirm_records" /\ (draft' = draft \/ draft' = NoDraft)
    BY <1>8 DEF ConfirmRecords, ConfirmHeader, LoseConfirmation, Abort, Leave, docVars
  <2> QED
    BY <2>1 DEF Scanned
<1> QED
  BY <1>1, <1>2, <1>3, <1>4, <1>5, <1>6, <1>7, <1>8
  DEF ExportNext, Progress, expVars, docVars, tp1c, step

LEMMA ScannedCorrect == ExportSpec => []Scanned
<1>1. ExportInit => Scanned
  BY DEF ExportInit, Scanned
<1> QED
  BY <1>1, ScannedStep, ExportInvCorrect, PTL DEF ExportSpec

\* Only the confirmation of a document's own records gives records a number, and
\* what was there to be sent when the cursor was opened was sent by then.
THEOREM MarkedCorrect == ExportSpec => MarkedWasSentOrLate
<1> DEFINE Marked(r) == LET doc == docs1c[rec_id_1c'[r]] IN r \in doc.scan => r \in doc.recs
           A == \A r \in RecIds : rec_id_1c[r] = NoId /\ rec_id_1c'[r] # NoId => Marked(r)
<1>1. ASSUME ExportInv, Scanned, [ExportNext]_expVars PROVE [A]_expVars
  <2>1. CASE UNCHANGED rec_id_1c
    BY <2>1
  <2>2. CASE ConfirmRecords
    <3> SUFFICES ASSUME NEW r \in RecIds, rec_id_1c[r] = NoId, rec_id_1c'[r] # NoId
                 PROVE  Marked(r)
      OBVIOUS
    <3>1. r \in RecsOf(draft.src) /\ rec_id_1c'[r] = number
      BY <2>2 DEF ConfirmRecords
    <3>2. docs1c[number] = draft /\ draft.scan \cap UnsentRecs(draft.src) \subseteq draft.recs
      BY <1>1, <2>2 DEF ConfirmRecords, Scanned
    <3> QED
      BY <3>1, <3>2 DEF UnsentRecs
  <2> QED
    BY <1>1, <2>1, <2>2
    DEF ExportNext, Progress, Clerk, OpenCursor, ImportDocHeader, OpenRecords, ImportDocRecord,
        Write, ConfirmHeader, Eof, LoseConfirmation, Abort, expVars, tp1c
<1> QED
  BY <1>1, ExportInvCorrect, ScannedCorrect, PTL DEF ExportSpec, MarkedWasSentOrLate

-----------------------------------------------------------------------------
(***************************************************************************)
(* Documents nobody changes any more.                                       *)
(***************************************************************************)

\* A settled document that 1C has, or is getting, for the first time is there as
\* it is here; and while it is on its way its cursor has found all its records.
IsFirst(n) == \A m \in 1 .. n - 1 : docs1c[m].src # docs1c[n].src

Whole ==
    /\ \A n \in DOMAIN docs1c : docs1c[n].settled /\ docs1c[n].src \in t_docs =>
          /\ Settled(docs1c[n].src)
          /\ docs1c[n].rev = rev[docs1c[n].src]
          /\ IsFirst(n) => docs1c[n].recs = RecsOf(docs1c[n].src)
    /\ draft # NoDraft /\ draft.settled /\ draft.src \in t_docs =>
          /\ Settled(draft.src)
          /\ draft.rev = rev[draft.src]
          /\ pc = "header" => draft.recs = {}
          /\ pc = "records" => draft.recs \subseteq RecsOf(draft.src)
          /\ pc = "records" /\ (\A m \in DOMAIN docs1c : docs1c[m].src # draft.src) =>
                draft.scan = RecsOf(draft.src)

\* A document that was never in 1C has no record with a number.
LEMMA AllUnsent ==
  ASSUME ExportInv, NEW d \in DocIds, \A m \in DOMAIN docs1c : docs1c[m].src # d
  PROVE  UnsentRecs(d) = RecsOf(d)
<1>1. \A r \in RecsOf(d) : r \in RecIds /\ rec_doc[r] = d
  BY IdsTyped DEF RecsOf, ExportInv, ExportTypeOK
<1> QED
  BY <1>1 DEF ExportInv, Known, UnsentRecs

LEMMA WholeStep == ExportInv /\ NoOrphanRecord /\ Whole /\ [ExportNext]_expVars => Whole'
<1> SUFFICES ASSUME ExportInv, NoOrphanRecord, Whole, [ExportNext]_expVars PROVE Whole'
  OBVIOUS
<1>0. ExportTypeOK
  BY DEF ExportInv
<1>t. /\ gen_docs \in Nat
      /\ docs1c \in Seq(Document1C) /\ DOMAIN docs1c = 1 .. Len(docs1c) /\ Len(docs1c) \in Nat
      /\ \A n \in DOMAIN docs1c : docs1c[n].src \in DocIds
      /\ draft # NoDraft => draft \in Document1C /\ draft.src \in DocIds
  BY <1>0, ExportTypes
<1>s. ASSUME UNCHANGED <<is_closed, t_docs, form>> PROVE \A d : Settled(d)' = Settled(d)
  BY <1>s DEF Settled
<1>r. ASSUME UNCHANGED <<t_doc_recs, rec_doc>> PROVE \A d : RecsOf(d)' = RecsOf(d)
  BY <1>r DEF RecsOf
<1>1. CASE UNCHANGED <<docVars, docs1c, pc, draft>>
  <2>1. UNCHANGED <<is_closed, t_docs, form, rev, docs1c, pc, draft>>
        /\ (\A d : Settled(d)' = Settled(d)) /\ \A d : RecsOf(d)' = RecsOf(d)
    BY <1>1, <1>s, <1>r DEF docVars
  <2> QED
    BY <2>1 DEF Whole, IsFirst
<1>2. CASE Clerk
  <2>1. UNCHANGED <<docs1c, pc, draft>> /\ ClerkNext
    BY <1>2 DEF Clerk, step
  <2>2. ASSUME NEW d \in DocIds, d <= gen_docs, d \in t_docs' PROVE d \in t_docs
    BY <1>t, <1>0, <2>1, <2>2, ClerkEffect DEF ExportTypeOK, DocIds
  <2>3. ASSUME NEW d \in DocIds, Settled(d), d \in t_docs'
        PROVE  Settled(d)' /\ rev'[d] = rev[d] /\ RecsOf(d)' = RecsOf(d)
    BY <1>0, <2>1, <2>3, SettledStep DEF ExportTypeOK
  <2>4. \A n \in DOMAIN docs1c : docs1c[n].src <= gen_docs
    BY DEF ExportInv, Known
  <2>5. draft # NoDraft => draft.src <= gen_docs
    BY DEF ExportInv, Current
  <2>6. ASSUME NEW n \in DOMAIN docs1c, docs1c[n].settled, docs1c[n].src \in t_docs'
        PROVE  /\ Settled(docs1c[n].src)'
               /\ docs1c[n].rev = rev'[docs1c[n].src]
               /\ IsFirst(n) => docs1c[n].recs = RecsOf(docs1c[n].src)'
    <3>1. docs1c[n].src \in t_docs
      BY <1>t, <2>2, <2>4, <2>6
    <3> QED
      BY <1>t, <2>1, <2>3, <2>6, <3>1 DEF Whole
  <2>7. ASSUME draft # NoDraft, draft.settled, draft.src \in t_docs'
        PROVE  /\ Settled(draft.src)'
               /\ draft.rev = rev'[draft.src]
               /\ pc = "header" => draft.recs = {}
               /\ pc = "records" => draft.recs \subseteq RecsOf(draft.src)'
               /\ pc = "records" /\ (\A m \in DOMAIN docs1c : docs1c[m].src # draft.src) =>
                     draft.scan = RecsOf(draft.src)'
    <3>1. draft.src \in t_docs
      BY <1>t, <2>2, <2>5, <2>7
    <3> QED
      BY <1>t, <2>1, <2>3, <2>7, <3>1 DEF Whole
  <2> QED
    BY <2>1, <2>6, <2>7 DEF Whole, IsFirst
<1>3. CASE OpenCursor \/ Eof \/ ConfirmRecords \/ ConfirmHeader \/ LoseConfirmation \/ Abort
  <2>1. /\ UNCHANGED <<docVars, docs1c>> /\ pc' \notin {"header", "records"}
        /\ draft' = draft \/ draft' = NoDraft
    BY <1>3 DEF OpenCursor, Eof, ConfirmRecords, ConfirmHeader, LoseConfirmation, Abort, Leave
  <2>2. UNCHANGED <<is_closed, t_docs, form, rev>>
        /\ (\A d : Settled(d)' = Settled(d)) /\ \A d : RecsOf(d)' = RecsOf(d)
    BY <2>1, <1>s, <1>r DEF docVars
  <2> QED
    BY <2>1, <2>2 DEF Whole, IsFirst
<1>4. ASSUME NEW d \in DocIds, ImportDocHeader(d) PROVE Whole'
  <2>1. /\ UNCHANGED <<docVars, docs1c>> /\ pc' = "header"
        /\ draft'.src = d /\ draft'.settled = Settled(d) /\ draft'.rev = rev[d] /\ draft'.recs = {}
    BY <1>4 DEF ImportDocHeader
  <2>2. UNCHANGED <<is_closed, t_docs, form, rev>>
        /\ (\A e : Settled(e)' = Settled(e)) /\ \A e : RecsOf(e)' = RecsOf(e)
    BY <2>1, <1>s, <1>r DEF docVars
  <2> QED
    BY <2>1, <2>2 DEF Whole, IsFirst
<1>5. CASE OpenRecords
  <2>1. UNCHANGED <<docVars, docs1c>> /\ pc = "header" /\ pc' = "records" /\ draft # NoDraft
    BY <1>5, <1>0 DEF OpenRecords, ExportTypeOK
  <2>2. /\ draft'.src = draft.src /\ draft'.settled = draft.settled /\ draft'.rev = draft.rev
        /\ draft'.recs = draft.recs /\ draft'.scan = UnsentRecs(draft.src)
    BY <1>5, <1>t, <2>1 DEF OpenRecords, Document1C
  <2>3. UNCHANGED <<is_closed, t_docs, form, rev>>
        /\ (\A e : Settled(e)' = Settled(e)) /\ \A e : RecsOf(e)' = RecsOf(e)
    BY <2>1, <1>s, <1>r DEF docVars
  <2>4. (\A m \in DOMAIN docs1c : docs1c[m].src # draft.src) =>
           UnsentRecs(draft.src) = RecsOf(draft.src)
    BY <1>t, <2>1, AllUnsent
  <2> QED
    BY <2>1, <2>2, <2>3, <2>4 DEF Whole, IsFirst
<1>6. ASSUME NEW r \in RecIds, ImportDocRecord(r) PROVE Whole'
  <2>1. UNCHANGED <<docVars, docs1c, pc>> /\ pc = "records" /\ draft # NoDraft
        /\ r \in RecsOf(draft.src)
    BY <1>6, <1>0 DEF ImportDocRecord, ExportTypeOK, UnsentRecs
  <2>2. /\ draft'.src = draft.src /\ draft'.settled = draft.settled /\ draft'.rev = draft.rev
        /\ draft'.scan = draft.scan /\ draft'.recs = draft.recs \cup {r}
    BY <1>6, <1>t, <2>1 DEF ImportDocRecord, Document1C
  <2>3. UNCHANGED <<is_closed, t_docs, form, rev>>
        /\ (\A e : Settled(e)' = Settled(e)) /\ \A e : RecsOf(e)' = RecsOf(e)
    BY <2>1, <1>s, <1>r DEF docVars
  <2> QED
    BY <2>1, <2>2, <2>3 DEF Whole, IsFirst
<1>7. CASE Write
  <2>0. PICK k \in Nat : k = Len(docs1c) + 1
    BY <1>t
  <2>1. /\ UNCHANGED <<docVars, draft>> /\ pc = "records" /\ pc' = "confirm_records"
        /\ docs1c' = Append(docs1c, draft) /\ draft # NoDraft
        /\ draft.scan \cap UnsentRecs(draft.src) \subseteq draft.recs
    BY <1>7, <1>0 DEF Write, ExportTypeOK
  <2>2. /\ DOMAIN docs1c' = DOMAIN docs1c \cup {k} /\ DOMAIN docs1c = 1 .. k - 1
        /\ \A m \in DOMAIN docs1c : docs1c'[m] = docs1c[m]
        /\ docs1c'[k] = draft
    BY <1>t, <2>0, <2>1
  <2>3. UNCHANGED <<is_closed, t_docs, form, rev>>
        /\ (\A e : Settled(e)' = Settled(e)) /\ \A e : RecsOf(e)' = RecsOf(e)
    BY <2>1, <1>s, <1>r DEF docVars
  <2>4. \A n \in DOMAIN docs1c : IsFirst(n)' <=> IsFirst(n)
    BY <2>2 DEF IsFirst
  <2>5. ASSUME draft.settled, draft.src \in t_docs, IsFirst(k)'
        PROVE  draft.recs = RecsOf(draft.src)
    <3>1. \A m \in DOMAIN docs1c : docs1c[m].src # draft.src
      BY <2>2, <2>5 DEF IsFirst
    <3>2. draft.scan = RecsOf(draft.src) /\ draft.recs \subseteq RecsOf(draft.src)
      BY <2>1, <2>5, <3>1 DEF Whole
    <3>3. UnsentRecs(draft.src) = RecsOf(draft.src)
      BY <1>t, <2>1, <3>1, AllUnsent
    <3> QED
      BY <2>1, <3>2, <3>3
  <2> QED
    BY <2>1, <2>2, <2>3, <2>4, <2>5 DEF Whole
<1> QED
  BY <1>1, <1>2, <1>3, <1>4, <1>5, <1>6, <1>7 DEF ExportNext, Progress, expVars, step

LEMMA NoOrphanExport == ExportSpec => []NoOrphanRecord
<1>1. ExportInit => NoOrphanRecord
  BY DEF ExportInit, DocInit, NoOrphanRecord
<1>2. ExportTypeOK /\ NoOrphanRecord /\ [ExportNext]_expVars => NoOrphanRecord'
  <2> SUFFICES ASSUME ExportTypeOK, NoOrphanRecord, [ExportNext]_expVars PROVE NoOrphanRecord'
    OBVIOUS
  <2>1. [ClerkNext]_docVars
    BY DEF ExportNext, Progress, Clerk, OpenCursor, ImportDocHeader, OpenRecords, ImportDocRecord,
           Write, ConfirmRecords, ConfirmHeader, Eof, LoseConfirmation, Abort, expVars
  <2> QED
    BY <2>1, NoOrphanStep DEF ExportTypeOK
<1> QED
  BY <1>1, <1>2, ExportTypeCorrect, PTL DEF ExportSpec

\* A document that nobody could change any more when it was first exported is in
\* 1C as it is in the trade point.
THEOREM SettledSentCorrect == ExportSpec => []SettledSentWhole
<1>1. ExportInit => Whole
  <2> SUFFICES ASSUME ExportInit PROVE Whole
    OBVIOUS
  <2>1. DOMAIN docs1c = {}
    BY DEF ExportInit
  <2> QED
    BY <2>1 DEF ExportInit, Whole
<1>2. Whole => SettledSentWhole
  BY DEF Whole, IsFirst, SettledSentWhole
<1> QED
  BY <1>1, <1>2, WholeStep, NoOrphanExport, ExportInvCorrect, PTL DEF ExportSpec

-----------------------------------------------------------------------------
(***************************************************************************)
(* How many documents 1C gets.                                              *)
(***************************************************************************)

\* Every failure costs one confirmation of a header at most.
LostHeaders == {n \in Numbers : Lost("header", n)}
LossesCounted == IsFiniteSet(LostHeaders) /\ Cardinality(LostHeaders) <= faults

LEMMA LossesStep == ExportTypeOK /\ LossesCounted /\ [ExportNext]_expVars => LossesCounted'
<1> SUFFICES ASSUME ExportTypeOK, LossesCounted, [ExportNext]_expVars PROVE LossesCounted'
  OBVIOUS
<1>1. ASSUME UNCHANGED lost, UNCHANGED faults PROVE LossesCounted'
  BY <1>1 DEF LossesCounted, LostHeaders, Lost
<1>2. CASE LoseConfirmation \/ Abort
  <2>1. faults' = faults + 1 /\ faults \in Nat
    BY <1>2, FaultsAssumption DEF LoseConfirmation, Abort, Fault, ExportTypeOK
  <2>2. LostHeaders' \subseteq LostHeaders \cup {number}
    BY <1>2 DEF LoseConfirmation, Abort, LostHeaders, Lost
  <2>3. /\ IsFiniteSet(LostHeaders \cup {number})
        /\ Cardinality(LostHeaders \cup {number}) <= Cardinality(LostHeaders) + 1
    BY FS_AddElement, FS_CardinalityType DEF LossesCounted
  <2>4. /\ IsFiniteSet(LostHeaders')
        /\ Cardinality(LostHeaders') <= Cardinality(LostHeaders \cup {number})
    BY <2>2, <2>3, FS_Subset
  <2>5. Cardinality(LostHeaders) \in Nat /\ Cardinality(LostHeaders') \in Nat
        /\ Cardinality(LostHeaders \cup {number}) \in Nat
    BY <2>3, <2>4, FS_CardinalityType DEF LossesCounted
  <2> QED
    BY <2>1, <2>3, <2>4, <2>5 DEF LossesCounted
<1> QED
  BY <1>1, <1>2
  DEF ExportNext, Progress, Clerk, OpenCursor, ImportDocHeader, OpenRecords, ImportDocRecord,
      Write, ConfirmRecords, ConfirmHeader, Eof, expVars

LEMMA LossesCorrect == ExportSpec => []LossesCounted
<1>1. ExportInit => LossesCounted
  <2> SUFFICES ASSUME ExportInit PROVE LossesCounted
    OBVIOUS
  <2>1. LostHeaders = {} /\ faults = 0
    BY DEF ExportInit, LostHeaders, Lost
  <2> QED
    BY <2>1, FS_EmptySet DEF LossesCounted
<1> QED
  BY <1>1, LossesStep, ExportTypeCorrect, PTL DEF ExportSpec

\* The documents of 1C are those whose confirmation was lost and, at most once
\* for every row there ever was, those of which it was not.
THEOREM OneCopyCorrect == ExportSpec => []OneCopyPerFault
<1>1. ASSUME ExportInv, LossesCounted PROVE OneCopyPerFault
  <2> DEFINE Kept == {n \in DOMAIN docs1c : ~Lost("header", n)}
             src  == [n \in Kept |-> docs1c[n].src]
  <2>1. /\ gen_docs \in Nat /\ faults \in Nat
        /\ DOMAIN docs1c = 1 .. Len(docs1c) /\ Len(docs1c) \in Nat
        /\ \A n \in DOMAIN docs1c : docs1c[n].src \in 1 .. gen_docs
    <3>1. ExportTypeOK /\ \A n \in DOMAIN docs1c : docs1c[n].src <= gen_docs
      BY <1>1 DEF ExportInv, Known
    <3>2. faults \in Nat
      BY <3>1, FaultsAssumption DEF ExportTypeOK
    <3> QED
      BY <3>1, <3>2, ExportTypes DEF DocIds
  <2>2. IsFiniteSet(1 .. gen_docs) /\ Cardinality(1 .. gen_docs) = gen_docs
    BY <2>1, FS_Interval
  <2>3. src \in Injection(Kept, 1 .. gen_docs)
    <3>1. src \in [Kept -> 1 .. gen_docs]
      BY <2>1
    <3>2. ASSUME NEW m \in Kept, NEW n \in Kept, src[m] = src[n] PROVE m = n
      <4>1. docs1c[m].src = docs1c[n].src /\ m \in Nat /\ n \in Nat
        BY <2>1, <3>2
      <4>2. ~(m < n) /\ ~(n < m)
        BY <1>1, <4>1 DEF ExportInv, Accounted, DuplicateOnlyIfLost
      <4> QED
        BY <4>1, <4>2
    <3> QED
      BY <3>1, <3>2 DEF Injection, IsInjective
  <2>4. IsFiniteSet(Kept) /\ Cardinality(Kept) <= gen_docs
    BY <2>2, <2>3, FS_Injection
  <2> HIDE DEF Kept
  <2>5. /\ IsFiniteSet(Kept \cup LostHeaders)
        /\ Cardinality(Kept \cup LostHeaders) <= Cardinality(Kept) + Cardinality(LostHeaders)
    <3>1. IsFiniteSet(Kept \cap LostHeaders)
      BY <2>4, FS_Subset
    <3>2. Cardinality(Kept \cap LostHeaders) \in Nat /\ Cardinality(Kept) \in Nat
          /\ Cardinality(LostHeaders) \in Nat
      BY <1>1, <2>4, <3>1, FS_CardinalityType DEF LossesCounted
    <3>3. /\ IsFiniteSet(Kept \cup LostHeaders)
          /\ Cardinality(Kept \cup LostHeaders)
               = Cardinality(Kept) + Cardinality(LostHeaders) - Cardinality(Kept \cap LostHeaders)
      BY <1>1, <2>4, FS_Union DEF LossesCounted
    <3> QED
      BY <3>2, <3>3
  <2>6. DOMAIN docs1c \subseteq Kept \cup LostHeaders
    BY <2>1 DEF Kept, LostHeaders, Numbers
  <2>7. Cardinality(DOMAIN docs1c) = Len(docs1c)
    BY <2>1, FS_Interval
  <2>8. Cardinality(DOMAIN docs1c) <= Cardinality(Kept \cup LostHeaders)
    BY <2>5, <2>6, FS_Subset
  <2>9. Cardinality(Kept) \in Nat /\ Cardinality(LostHeaders) \in Nat
        /\ Cardinality(Kept \cup LostHeaders) \in Nat
    BY <1>1, <2>4, <2>5, FS_CardinalityType DEF LossesCounted
  <2> QED
    BY <1>1, <2>1, <2>4, <2>5, <2>7, <2>8, <2>9 DEF OneCopyPerFault, LossesCounted
<1> QED
  BY <1>1, ExportInvCorrect, LossesCorrect, PTL

-----------------------------------------------------------------------------
(***************************************************************************)
(* The refinement.                                                          *)
(***************************************************************************)

\* The state of DocTransfer, as the mapping of DocExport defines it.
Status == [d \in DocIds |-> StatusOf(d)]
Copies == [d \in DocIds |-> CopiesOf(d)]

\* What the clerks do is, for the hand-over, that a document appears or vanishes.
LEMMA ClerkMaps ==
  ASSUME DocTypeOK, ClerkNext
  PROVE  \/ UNCHANGED t_docs
         \/ \E d \in DocIds : \/ d \notin t_docs /\ t_docs' = t_docs \cup {d}
                              \/ t_docs' = t_docs \ {d}
<1>1. ASSUME NEW c \in Clerks, InsertHeader(c)
      PROVE  \E d \in DocIds : d \notin t_docs /\ t_docs' = t_docs \cup {d}
  <2>1. gen_docs + 1 \in DocIds /\ gen_docs + 1 \notin t_docs
    BY <1>1, BoundsAssumption DEF InsertHeader, DocTypeOK, DocIds
  <2> QED
    BY <1>1, <2>1 DEF InsertHeader
<1>2. ASSUME NEW c \in Clerks, NEW d \in DocIds, DeleteDocument(c, d)
      PROVE  t_docs' = t_docs \ {d}
  BY <1>2 DEF DeleteDocument
<1> QED
  BY <1>1, <1>2
  DEF ClerkNext, OpenNew, UpdateHeader, CancelHeader, InsertRecord, CloseEditor,
      OpenForUpdate, Fix, UpdateRecord, DeleteRecord

\* A document of 1C more is a copy more of the document it was made from.
LEMMA WriteCopies ==
  ASSUME ExportTypeOK, Write
  PROVE  Copies' = [Copies EXCEPT ![draft.src] = @ + 1]
<1> DEFINE Of(d) == {n \in DOMAIN docs1c : docs1c[n].src = d}
<1>1. PICK k \in Nat : k = Len(docs1c) + 1
  BY ExportTypes
<1>2. /\ draft.src \in DocIds
      /\ DOMAIN docs1c' = DOMAIN docs1c \cup {k} /\ k \notin DOMAIN docs1c
      /\ \A m \in DOMAIN docs1c : docs1c'[m] = docs1c[m]
      /\ docs1c'[k] = draft
  <2>1. pc = "records" /\ docs1c' = Append(docs1c, draft)
    BY DEF Write
  <2>2. draft # NoDraft
    BY <2>1 DEF ExportTypeOK
  <2> QED
    BY <1>1, <2>1, <2>2, ExportTypes
<1>3. ASSUME NEW d \in DocIds
      PROVE  Cardinality(Of(d)') = IF d = draft.src THEN Cardinality(Of(d)) + 1
                                                     ELSE Cardinality(Of(d))
  <2>1. IsFiniteSet(DOMAIN docs1c)
    <3>1. DOMAIN docs1c = 1 .. Len(docs1c) /\ Len(docs1c) \in Nat
      BY ExportTypes
    <3> QED
      BY <3>1, FS_Interval
  <2>2. IsFiniteSet(Of(d)) /\ k \notin Of(d)
    BY <1>2, <2>1, FS_Subset
  <2>3. Of(d)' = IF d = draft.src THEN Of(d) \cup {k} ELSE Of(d)
    BY <1>2
  <2> HIDE DEF Of
  <2> QED
    BY <2>2, <2>3, FS_AddElement
<1> QED
  BY <1>2, <1>3 DEF Copies, CopiesOf

LEMMA TransferInit == ExportInit => Transfer!Init
<1> SUFFICES ASSUME ExportInit PROVE Transfer!Init
  OBVIOUS
<1>1. \A d \in DocIds : StatusOf(d) = "waiting"
  BY DEF ExportInit, StatusOf, OnItsWay, NoDraft, DocIds, NoId
<1>2. ASSUME NEW d \in DocIds PROVE CopiesOf(d) = 0
  <2>1. {n \in DOMAIN docs1c : docs1c[n].src = d} = {}
    BY DEF ExportInit
  <2> QED
    BY <2>1, FS_EmptySet DEF CopiesOf
<1> QED
  BY <1>1, <1>2 DEF ExportInit, DocInit, Transfer!Init

LEMMA TransferStep == ExportInv /\ [ExportNext]_expVars => [Transfer!Next]_(Transfer!vars)
<1> SUFFICES ASSUME ExportInv, [ExportNext]_expVars PROVE [Transfer!Next]_(Transfer!vars)
  OBVIOUS
<1>0. ExportTypeOK
  BY DEF ExportInv
<1>t. /\ draft # NoDraft => draft.src \in DocIds
      /\ id_1c \in [DocIds -> Numbers \cup {NoId}]
      /\ NoDraft.src \notin DocIds
      /\ number # NoId => draft # NoDraft
  BY <1>0, ExportTypes DEF ExportTypeOK, NoDraft, DocIds, NoId
<1>s. ASSUME UNCHANGED <<t_docs, id_1c, docs1c, draft, number>> PROVE UNCHANGED Transfer!vars
  <2>1. \A d : StatusOf(d)' = StatusOf(d) /\ CopiesOf(d)' = CopiesOf(d)
    BY <1>s DEF StatusOf, OnItsWay, CopiesOf
  <2> QED
    BY <1>s, <2>1 DEF Transfer!vars
<1>c. ASSUME UNCHANGED docs1c PROVE Copies' = Copies
  BY <1>c DEF Copies, CopiesOf
<1>g. ASSUME UNCHANGED <<t_docs, id_1c, docs1c>>, draft' = NoDraft, number' = NoId, draft # NoDraft
      PROVE  Transfer!Next
  <2> DEFINE d == draft.src
  <2>1. d \in DocIds /\ id_1c[d] = NoId
    BY <1>t, <1>g DEF ExportInv, Current
  <2>2. Status[d] \in {"sending", "sent"} /\ Status' = [Status EXCEPT ![d] = "waiting"]
    BY <1>t, <1>g, <2>1 DEF Status, StatusOf, OnItsWay
  <2>3. Transfer!GiveUp(d)
    BY <1>c, <1>g, <2>2 DEF Transfer!GiveUp, Transfer!Move, Status, Copies
  <2> QED
    BY <2>1, <2>3 DEF Transfer!Next
<1>1. CASE UNCHANGED expVars
  BY <1>1, <1>s DEF expVars, docVars, tp1c, step
<1>2. CASE Clerk
  <2>1. UNCHANGED <<id_1c, docs1c, draft, number>>
    BY <1>2 DEF Clerk, tp1c, step
  <2>2. Status' = Status
    BY <2>1 DEF Status, StatusOf, OnItsWay
  <2>3. \/ UNCHANGED t_docs
        \/ \E d \in DocIds : \/ d \notin t_docs /\ t_docs' = t_docs \cup {d}
                             \/ t_docs' = t_docs \ {d}
    BY <1>0, <1>2, ClerkMaps DEF Clerk, ExportTypeOK
  <2>4. ASSUME NEW d \in DocIds, d \notin t_docs, t_docs' = t_docs \cup {d}
        PROVE  Transfer!Appear(d)
    BY <1>c, <2>1, <2>2, <2>4 DEF Transfer!Appear, Status, Copies
  <2>5. ASSUME NEW d \in DocIds, t_docs' = t_docs \ {d} PROVE Transfer!Vanish(d)
    BY <1>c, <2>1, <2>2, <2>5 DEF Transfer!Vanish, Status, Copies
  <2> QED
    BY <1>s, <2>1, <2>3, <2>4, <2>5 DEF Transfer!Next
<1>3. CASE OpenCursor \/ ConfirmRecords \/ Eof
  <2>1. UNCHANGED <<t_docs, id_1c, docs1c, draft, number>>
    BY <1>3, <1>0 DEF OpenCursor, ConfirmRecords, Eof, Leave, docVars, tp1c, ExportTypeOK
  <2> QED
    BY <1>s, <2>1
<1>4. ASSUME NEW d \in DocIds, ImportDocHeader(d) PROVE Transfer!Next
  <2>1. /\ UNCHANGED <<t_docs, id_1c, docs1c, number>> /\ draft'.src = d
        /\ d \in t_docs /\ id_1c[d] = NoId /\ draft = NoDraft /\ number = NoId
    BY <1>4, <1>0 DEF ImportDocHeader, Unsent, docVars, tp1c, ExportTypeOK
  <2>2. /\ \A e \in DocIds : Status[e] \in {"waiting", "done"}
        /\ Status[d] = "waiting" /\ Status' = [Status EXCEPT ![d] = "sending"]
    BY <1>t, <2>1 DEF Status, StatusOf, OnItsWay
  <2>3. Transfer!Begin(d)
    BY <1>c, <2>1, <2>2 DEF Transfer!Begin, Transfer!Move, Status, Copies
  <2> QED
    BY <2>3 DEF Transfer!Next
<1>5. CASE OpenRecords \/ \E r \in RecIds : ImportDocRecord(r)
  <2>1. /\ UNCHANGED <<t_docs, id_1c, docs1c, number>> /\ draft'.src = draft.src
    <3>1. draft \in Document1C
      BY <1>5, <1>0 DEF OpenRecords, ImportDocRecord, ExportTypeOK
    <3> QED
      BY <1>5, <3>1 DEF OpenRecords, ImportDocRecord, docVars, tp1c, Document1C
  <2>2. Status' = Status
    BY <2>1 DEF Status, StatusOf, OnItsWay
  <2> QED
    BY <1>c, <2>1, <2>2 DEF Transfer!vars, Status, Copies
<1>6. CASE Write
  <2> DEFINE d == draft.src
  <2>1. /\ UNCHANGED <<t_docs, id_1c, draft>> /\ draft # NoDraft
        /\ number = NoId /\ number' # NoId
    <3>1. number' = Len(docs1c) + 1 /\ Len(docs1c) \in Nat
      BY <1>6, <1>0, ExportTypes DEF Write
    <3> QED
      BY <1>6, <1>0, <3>1 DEF Write, docVars, tp1c, ExportTypeOK, NoId
  <2>2. d \in DocIds /\ Status[d] = "sending" /\ Status' = [Status EXCEPT ![d] = "sent"]
    BY <1>t, <2>1 DEF Status, StatusOf, OnItsWay
  <2>3. Copies' = [Copies EXCEPT ![d] = @ + 1]
    BY <1>0, <1>6, WriteCopies
  <2>4. Transfer!Send(d)
    BY <2>1, <2>2, <2>3 DEF Transfer!Send, Transfer!Move, Status, Copies
  <2> QED
    BY <2>2, <2>4 DEF Transfer!Next
<1>7. CASE ConfirmHeader /\ draft.src \in t_docs
  <2> DEFINE d == draft.src
  <2>1. /\ UNCHANGED <<t_docs, docs1c>> /\ draft' = NoDraft /\ number' = NoId
        /\ number # NoId /\ id_1c' = [id_1c EXCEPT ![d] = number] /\ d \in t_docs
    BY <1>7, <1>0 DEF ConfirmHeader, docVars, ExportTypeOK
  <2>2. d \in DocIds /\ Status[d] = "sent" /\ Status' = [Status EXCEPT ![d] = "done"]
    BY <1>t, <2>1 DEF Status, StatusOf, OnItsWay
  <2>3. Transfer!Confirm(d)
    BY <1>c, <2>1, <2>2 DEF Transfer!Confirm, Transfer!Move, Status, Copies
  <2> QED
    BY <2>2, <2>3 DEF Transfer!Next
<1>8. CASE ConfirmHeader /\ draft.src \notin t_docs
  <2>1. /\ UNCHANGED <<t_docs, id_1c, docs1c>> /\ draft' = NoDraft /\ number' = NoId
        /\ draft # NoDraft
    BY <1>8, <1>0 DEF ConfirmHeader, docVars, ExportTypeOK
  <2> QED
    BY <1>g, <2>1
<1>9. CASE LoseConfirmation \/ Abort
  <2>1. UNCHANGED <<t_docs, id_1c, docs1c>>
        /\ (UNCHANGED <<draft, number>> \/ (draft' = NoDraft /\ number' = NoId))
    BY <1>9 DEF LoseConfirmation, Abort, Leave, docVars, tp1c
  <2>2. draft = NoDraft => number = NoId
    BY <1>t
  <2> QED
    BY <1>g, <1>s, <2>1, <2>2
<1> QED
  BY <1>1, <1>2, <1>3, <1>4, <1>5, <1>6, <1>7, <1>8, <1>9 DEF ExportNext, Progress

\* Whatever the clerks, the failures and the crashes do, the step keeps the
\* promise: every step of it is a step of DocTransfer or none.
THEOREM KeepsPromiseCorrect == ExportSpec => KeepsPromise
  BY TransferInit, TransferStep, ExportInvCorrect, PTL DEF ExportSpec, KeepsPromise, Transfer!Spec
=============================================================================
