--------------------------- MODULE DocumentsProofs ---------------------------
(***************************************************************************)
(* That no document loses its file, and no object is left behind, but in   *)
(* the ways Documents.tla names.                                           *)
(*                                                                         *)
(* Neither invariant is inductive.  What they rest on is, for each place a *)
(* request can be at, what it knows of the objects it holds: one about to  *)
(* be registered is nobody else's, one about to be deleted has no row or   *)
(* the one row that is deleted next, and a document added while its record *)
(* is being deleted has been put in doubt.                                 *)
(*                                                                         *)
(* The proof goes through the actions once, to say what a step can do to   *)
(* the bucket, the tables and the requests (the lemmas ...Step below);     *)
(* from these facts it shows each part of the invariant kept.        *)
(***************************************************************************)
EXTENDS Documents, TLAPS

\* Nothing says that the file of k may be gone (or there is no file) ...
Sure(k) == k \notin {NoKey} \cup mayMiss
\* ... and that it may stay.
Clean(k) == k \notin {NoKey} \cup mayStray

RowsOf(k) == {d \in rows : file[d] = k}

-----------------------------------------------------------------------------
\* The object is in the bucket, and no row or other request has its name.
InsertingOK(w) ==
    (At(w, "inserting") /\ Sure(handling[w].key)) =>
        /\ handling[w].key \in objects
        /\ RowsOf(handling[w].key) = {}
        /\ \A v \in Handlers :
            /\ handling[w].key \notin handling[v].keys
            /\ v # w => handling[v].key # handling[w].key

\* The document is the request's, the only one with its file, and not linked.
LinkingOK(w) ==
    At(w, "linking") =>
        /\ handling[w].record \in Records
        /\ handling[w].doc \in given
        /\ file[handling[w].doc] = handling[w].key
        /\ link[handling[w].doc] = NoRecord
        /\ \A v \in Handlers \ {w} : At(v, "linking") => handling[v].doc # handling[w].doc
        /\ Sure(handling[w].key) =>
            /\ handling[w].record \in records
            /\ RowsOf(handling[w].key) \subseteq {handling[w].doc}

\* No row has the object.
UndoingOK(w) ==
    At(w, "undoing") =>
        /\ handling[w].key \in ObjectKeys
        /\ Sure(handling[w].key) => RowsOf(handling[w].key) = {}

\* No other row has the object.
UnstoringOK(w) ==
    At(w, "unstoring") =>
        /\ handling[w].doc \in given
        /\ handling[w].key \in ObjectKeys
        /\ file[handling[w].doc] = handling[w].key
        /\ Sure(handling[w].key) => RowsOf(handling[w].key) \subseteq {handling[w].doc}

\* The row's object is gone.
RemovingOK(w) ==
    At(w, "removing") =>
        /\ handling[w].doc \in given
        /\ handling[w].key \in {NoKey, file[handling[w].doc]}
        /\ handling[w].doc \in rows /\ Clean(file[handling[w].doc])
                => file[handling[w].doc] \notin objects

\* The keys read are those of the record's documents, all of them ...
UnlistingOK(w) ==
    At(w, "unlisting") =>
        /\ handling[w].record \in Records
        /\ \A d \in rows :
            /\ file[d] \in handling[w].keys /\ Sure(file[d]) => link[d] = handling[w].record
            /\ link[d] = handling[w].record /\ Clean(file[d]) => file[d] \in handling[w].keys

\* ... of which none is left after the delete of the documents ...
DroppingOK(w) ==
    At(w, "dropping") =>
        /\ handling[w].record \in Records
        /\ \A d \in rows :
            link[d] = handling[w].record => ~Sure(file[d]) /\ ~Clean(file[d])

\* ... and no row has the objects that go.
SweepingOK(w) ==
    handling[w].pc \in {"dropping", "sweeping"} =>
        \A d \in rows : file[d] \in handling[w].keys => ~Sure(file[d])

\* A document added while its record is being deleted is in doubt.
CrossedOK ==
    \A v, w \in Handlers :
        (/\ handling[v].pc \in {"inserting", "linking"}
         /\ handling[w].pc \in {"unlisting", "dropping"}
         /\ handling[v].record = handling[w].record)
            => ~Sure(handling[v].key) /\ ~Clean(handling[v].key)

\* An object is named by one row, and ids not given have never been linked.
RowsOK ==
    /\ \A d, e \in rows : file[d] = file[e] /\ Sure(file[d]) => d = e
    /\ \A d \in DocumentIds \ given : link[d] = NoRecord

\* A file that is gone from under its row is known to the request.
FilesOK ==
    \A d \in rows : Sure(file[d]) =>
        \/ file[d] \in objects
        \/ \E w \in Handlers :
            At(w, "removing") /\ handling[w].doc = d /\ handling[w].key = file[d]

\* NothingLeftBehind, an object at a time.
HeldBy(w, k) ==
    \/ handling[w].pc \in {"inserting", "undoing"} /\ handling[w].key = k
    \/ handling[w].pc \in {"dropping", "sweeping"} /\ k \in handling[w].keys

ObjectsOK ==
    \A k \in objects : Clean(k) => RowsOf(k) # {} \/ \E w \in Handlers : HeldBy(w, k)

Inv ==
    /\ DocumentsTypeOK
    /\ \A w \in Handlers :
        /\ InsertingOK(w) /\ LinkingOK(w) /\ UndoingOK(w)
        /\ UnstoringOK(w) /\ RemovingOK(w)
        /\ UnlistingOK(w) /\ DroppingOK(w) /\ SweepingOK(w)
    /\ CrossedOK /\ RowsOK /\ FilesOK /\ ObjectsOK

-----------------------------------------------------------------------------
\* A step of one request leaves the others alone.
LEMMA Local ==
  ASSUME DocumentsTypeOK, NEW w \in Handlers, NEW request, Step(w, request)
  PROVE  /\ handling'[w] = request
         /\ \A v \in Handlers : v # w => handling'[v] = handling[v]
         /\ request \in Handling => handling' \in [Handlers -> Handling]
  BY DEF Step, DocumentsTypeOK

\* The nulls are none of the values they stand for.
LEMMA NullsApart == NoKey \notin ObjectKeys /\ NoId \notin DocumentIds /\ NoRecord \notin Records
  BY DocumentsAssumption

\* An idle request is well-formed.
LEMMA NoRequestIsHandling == NoRequest \in Handling
  BY DEF NoRequest, Handling

\* What the helpers collect are names of objects.
LEMMA KeysAreKeys ==
  ASSUME DocumentsTypeOK
  PROVE  /\ \A w \in Handlers : KeyOf(w) \subseteq ObjectKeys
         /\ \A r \in Records : BeingAddedTo(r) \subseteq ObjectKeys /\ FilesOf(DocsOf(r)) \subseteq ObjectKeys
<1> USE DEF DocumentsTypeOK, Handling
<1>1. ASSUME NEW w \in Handlers PROVE KeyOf(w) \subseteq ObjectKeys
  BY <1>1 DEF KeyOf
<1>2. ASSUME NEW r \in Records PROVE BeingAddedTo(r) \subseteq ObjectKeys
  BY <1>2 DEF BeingAddedTo
<1>3. ASSUME NEW r \in Records PROVE FilesOf(DocsOf(r)) \subseteq ObjectKeys
  BY <1>3 DEF FilesOf, DocsOf
<1> QED
  BY <1>1, <1>2, <1>3

-----------------------------------------------------------------------------
\* A step of a request, in the lemmas on types.  An upload that is undone has
\* an object, and so has a delete at its object (UndoingOK, UnstoringOK).
Acts(w) == Add(w) \/ DeleteDocument(w) \/ DeleteWhole(w)

\* The tables of records.
LEMMA RecordsTyped ==
  ASSUME DocumentsTypeOK, NEW w \in Handlers, Acts(w)
  PROVE  made' \in SUBSET Records /\ records' \in SUBSET made'
<1> USE DEF DocumentsTypeOK, documents, doubts, WithoutRecord
<1>1. CASE Add(w)
  BY <1>1 DEF Add, AddWithoutFile, Upload, UploadFails, InsertLibraryRow, InsertRow,
         RefuseRow, InsertRowUnanswered, InsertLink, RefuseLink, InsertLinkFails,
         UndoUpload, UndoFails
<1>2. CASE DeleteDocument(w)
  BY <1>2 DEF DeleteDocument, ReadKey, ReadKeyFails, DeleteObject, DeleteObjectFails,
         DeleteRow, DeleteRowFails
<1>3. CASE DeleteWhole(w)
  BY <1>3 DEF DeleteWhole, ReadKeys, DeleteDocs, DeleteDocsFails,
         DeleteDocsUnanswered, DeleteRecord, DeleteRecordFails, Sweep, EndSweep
<1> QED
  BY <1>1, <1>2, <1>3 DEF Acts

\* The ids and the rows.
LEMMA RowsTyped ==
  ASSUME DocumentsTypeOK, NEW w \in Handlers, Acts(w)
  PROVE  given' \in SUBSET DocumentIds /\ rows' \in SUBSET given'
<1> USE DEF DocumentsTypeOK, documents, doubts, InsertedAs, WithoutDocsOf
<1>1. CASE Add(w)
  BY <1>1 DEF Add, AddWithoutFile, Upload, UploadFails, InsertLibraryRow, InsertRow,
         RefuseRow, InsertRowUnanswered, InsertLink, RefuseLink, InsertLinkFails,
         UndoUpload, UndoFails
<1>2. CASE DeleteDocument(w)
  BY <1>2 DEF DeleteDocument, ReadKey, ReadKeyFails, DeleteObject, DeleteObjectFails,
         DeleteRow, DeleteRowFails
<1>3. CASE DeleteWhole(w)
  BY <1>3 DEF DeleteWhole, ReadKeys, DeleteDocs, DeleteDocsFails,
         DeleteDocsUnanswered, DeleteRecord, DeleteRecordFails, Sweep, EndSweep
<1> QED
  BY <1>1, <1>2, <1>3 DEF Acts

\* The bucket.
LEMMA ObjectsTyped ==
  ASSUME DocumentsTypeOK, NEW w \in Handlers, Acts(w)
  PROVE  clock' \in ObjectKeys /\ objects' \in SUBSET ObjectKeys
<1> USE DEF DocumentsTypeOK, documents, doubts
<1>1. CASE Add(w)
  BY <1>1 DEF Add, AddWithoutFile, Upload, UploadFails, InsertLibraryRow, InsertRow,
         RefuseRow, InsertRowUnanswered, InsertLink, RefuseLink, InsertLinkFails,
         UndoUpload, UndoFails
<1>2. CASE DeleteDocument(w)
  BY <1>2 DEF DeleteDocument, ReadKey, ReadKeyFails, DeleteObject, DeleteObjectFails,
         DeleteRow, DeleteRowFails
<1>3. CASE DeleteWhole(w)
  BY <1>3 DEF DeleteWhole, ReadKeys, DeleteDocs, DeleteDocsFails,
         DeleteDocsUnanswered, DeleteRecord, DeleteRecordFails, Sweep, EndSweep
<1> QED
  BY <1>1, <1>2, <1>3 DEF Acts

\* The files of the rows.
LEMMA FilesTyped ==
  ASSUME DocumentsTypeOK, NEW w \in Handlers, Acts(w)
  PROVE  file' \in [DocumentIds -> ObjectKeys \cup {NoKey}]
<1> USE DEF DocumentsTypeOK, documents, doubts, InsertedAs, Handling
<1>1. CASE Add(w)
  BY <1>1 DEF Add, AddWithoutFile, Upload, UploadFails, InsertLibraryRow, InsertRow,
         RefuseRow, InsertRowUnanswered, InsertLink, RefuseLink, InsertLinkFails,
         UndoUpload, UndoFails
<1>2. CASE DeleteDocument(w)
  BY <1>2 DEF DeleteDocument, ReadKey, ReadKeyFails, DeleteObject, DeleteObjectFails,
         DeleteRow, DeleteRowFails
<1>3. CASE DeleteWhole(w)
  BY <1>3 DEF DeleteWhole, ReadKeys, DeleteDocs, DeleteDocsFails,
         DeleteDocsUnanswered, DeleteRecord, DeleteRecordFails, Sweep, EndSweep
<1> QED
  BY <1>1, <1>2, <1>3 DEF Acts

\* The connections.
LEMMA LinksTyped ==
  ASSUME DocumentsTypeOK, NEW w \in Handlers, Acts(w)
  PROVE  link' \in [DocumentIds -> Records \cup {NoRecord}]
<1> USE DEF DocumentsTypeOK, documents, doubts, InsertedAs,
           WithoutDocsOf, WithoutRecord, CanLink, Handling
<1>1. CASE Add(w)
  BY <1>1 DEF Add, AddWithoutFile, Upload, UploadFails, InsertLibraryRow, InsertRow,
         RefuseRow, InsertRowUnanswered, InsertLink, RefuseLink, InsertLinkFails,
         UndoUpload, UndoFails
<1>2. CASE DeleteDocument(w)
  BY <1>2 DEF DeleteDocument, ReadKey, ReadKeyFails, DeleteObject, DeleteObjectFails,
         DeleteRow, DeleteRowFails
<1>3. CASE DeleteWhole(w)
  BY <1>3 DEF DeleteWhole, ReadKeys, DeleteDocs, DeleteDocsFails,
         DeleteDocsUnanswered, DeleteRecord, DeleteRecordFails, Sweep, EndSweep
<1> QED
  BY <1>1, <1>2, <1>3 DEF Acts

\* The doubts.
LEMMA HistoryTyped ==
  ASSUME DocumentsTypeOK, NEW w \in Handlers, Acts(w),
         handling[w].pc \in {"undoing", "unstoring"} => handling[w].key \in ObjectKeys
  PROVE  mayMiss' \in SUBSET ObjectKeys /\ mayStray' \in SUBSET ObjectKeys
<1> USE NullsApart, KeysAreKeys DEF DocumentsTypeOK, documents, doubts, MayMiss, MayStray,
           Handling, At
<1>1. CASE Add(w)
  BY <1>1 DEF Add, AddWithoutFile, Upload, UploadFails, InsertLibraryRow, InsertRow,
         RefuseRow, InsertRowUnanswered, InsertLink, RefuseLink, InsertLinkFails,
         UndoUpload, UndoFails
<1>2. CASE DeleteDocument(w)
  <2>1. CASE ReadKeyFails(w)
    <3>1. PICK d \in rows : mayMiss' = mayMiss /\ mayStray' = mayStray \cup ({file[d]} \ {NoKey})
      BY <2>1 DEF ReadKeyFails
    <3>2. file[d] \in ObjectKeys \cup {NoKey}
      OBVIOUS
    <3> QED
      BY <3>1, <3>2
  <2>2. CASE ReadKey(w) \/ DeleteObject(w) \/ DeleteRow(w)
    BY <2>2 DEF ReadKey, DeleteObject, DeleteRow
  <2>3. CASE DeleteObjectFails(w)
    BY <2>3 DEF DeleteObjectFails
  <2>4. CASE DeleteRowFails(w)
    BY <2>4 DEF DeleteRowFails
  <2> QED
    BY <1>2, <2>1, <2>2, <2>3, <2>4 DEF DeleteDocument
<1>3. CASE DeleteWhole(w)
  BY <1>3 DEF DeleteWhole, ReadKeys, DeleteDocs, DeleteDocsFails,
         DeleteDocsUnanswered, DeleteRecord, DeleteRecordFails, Sweep, EndSweep
<1> QED
  BY <1>1, <1>2, <1>3 DEF Acts

\* The requests.
LEMMA HandlingTyped ==
  ASSUME DocumentsTypeOK, NEW w \in Handlers, Acts(w)
  PROVE  handling' \in [Handlers -> Handling]
<1> USE NullsApart, NoRequestIsHandling, Local, KeysAreKeys
        DEF DocumentsTypeOK, documents, doubts, Handling, Goto, Undo, NoRequest,
            Addition, Connection, Deletion, Clearance, At
<1>1. CASE Add(w)
  <2>1. CASE AddWithoutFile(w)
    <3>1. PICK r \in made \cup {NoRecord} : Step(w, Addition(r, NoKey))
      BY <2>1 DEF AddWithoutFile
    <3> QED
      BY <3>1
  <2>2. CASE Upload(w)
    <3>1. PICK r \in made \cup {NoRecord} : Step(w, Addition(r, clock))
      BY <2>2 DEF Upload
    <3> QED
      BY <3>1
  <2>3. CASE InsertRow(w)
    <3>1. PICK d \in DocumentIds :
            Step(w, Connection(handling[w].record, d, handling[w].key))
      BY <2>3 DEF InsertRow
    <3> QED
      BY <3>1
  <2> QED
    BY <1>1, <2>1, <2>2, <2>3 DEF Add, UploadFails, InsertLibraryRow, RefuseRow,
           InsertRowUnanswered, InsertLink, RefuseLink, InsertLinkFails, UndoUpload,
           UndoFails
<1>2. CASE DeleteDocument(w)
  <2>1. CASE ReadKey(w) \/ ReadKeyFails(w)
    <3>1. PICK d \in rows, pc \in {"removing", "unstoring"}, k \in ObjectKeys \cup {NoKey} :
            Step(w, Deletion(pc, d, k))
      BY <2>1 DEF ReadKey, ReadKeyFails
    <3>2. d \in DocumentIds
      OBVIOUS
    <3> QED
      BY <3>1, <3>2
  <2> QED
    BY <1>2, <2>1 DEF DeleteDocument, DeleteObject, DeleteObjectFails, DeleteRow,
           DeleteRowFails
<1>3. CASE DeleteWhole(w)
  <2>1. CASE ReadKeys(w)
    <3>1. PICK r \in made : Step(w, Clearance(r, FilesOf(DocsOf(r))))
      BY <2>1 DEF ReadKeys
    <3>2. r \in Records /\ FilesOf(DocsOf(r)) \subseteq ObjectKeys
      OBVIOUS
    <3> QED
      BY <3>1, <3>2
  <2>2. CASE Sweep(w)
    BY <2>2 DEF Sweep
  <2>3. CASE DeleteDocs(w) \/ DeleteDocsFails(w) \/ DeleteDocsUnanswered(w)
    BY <2>3 DEF DeleteDocs, DeleteDocsFails, DeleteDocsUnanswered
  <2>4. CASE DeleteRecord(w) \/ DeleteRecordFails(w) \/ EndSweep(w)
    BY <2>4 DEF DeleteRecord, DeleteRecordFails, EndSweep
  <2> QED
    BY <1>3, <2>1, <2>2, <2>3, <2>4 DEF DeleteWhole
<1> QED
  BY <1>1, <1>2, <1>3 DEF Acts

\* Every step keeps the types.
LEMMA TypeOKStep ==
  ASSUME Inv, [DocumentsNext]_documentsVars
  PROVE  DocumentsTypeOK'
<1>1. DocumentsTypeOK /\ (\A w \in Handlers : UndoingOK(w) /\ UnstoringOK(w))
  BY DEF Inv
<1>2. CASE Tick
  BY <1>1, <1>2, DocumentsAssumption DEF Tick, DocumentsTypeOK, ObjectKeys, documents, doubts
<1>3. ASSUME NEW r \in Records, CreateRecord(r) PROVE DocumentsTypeOK'
  BY <1>1, <1>3 DEF CreateRecord, DocumentsTypeOK, documents, doubts
<1>4. ASSUME NEW w \in Handlers, Acts(w) PROVE DocumentsTypeOK'
  <2>1. handling[w].pc \in {"undoing", "unstoring"} => handling[w].key \in ObjectKeys
    BY <1>1 DEF UndoingOK, UnstoringOK, At
  <2> QED
    BY <1>1, <1>4, <2>1, RecordsTyped, RowsTyped, ObjectsTyped, FilesTyped, LinksTyped,
       HistoryTyped, HandlingTyped DEF DocumentsTypeOK
<1>5. CASE DocumentsRestart
  <2>1. handling' \in [Handlers -> Handling]
    BY <1>5, NoRequestIsHandling DEF DocumentsRestart
  <2>2. \A pcs : HoldingAny(pcs) \subseteq Handlers
    BY DEF HoldingAny
  <2>3. \A w \in Handlers : KeyOf(w) \subseteq ObjectKeys /\ handling[w].keys \subseteq ObjectKeys
    BY <1>1, KeysAreKeys DEF DocumentsTypeOK, Handling
  <2>4. /\ UNION {KeyOf(w) : w \in HoldingAny({"removing"})} \subseteq ObjectKeys
        /\ UNION {KeyOf(w) \cup handling[w].keys :
                    w \in HoldingAny({"inserting", "undoing", "dropping", "sweeping"})}
            \subseteq ObjectKeys
    BY <2>2, <2>3
  <2>5. mayMiss' \in SUBSET ObjectKeys /\ mayStray' \in SUBSET ObjectKeys
    BY <1>1, <1>5, <2>4 DEF DocumentsRestart, MayMiss, MayStray, DocumentsTypeOK
  <2> QED
    BY <1>1, <1>5, <2>1, <2>5 DEF DocumentsRestart, DocumentsTypeOK, documents
<1>6. CASE UNCHANGED documentsVars
  BY <1>1, <1>6 DEF documentsVars, documents, doubts, DocumentsTypeOK
<1> QED
  BY <1>2, <1>3, <1>4, <1>5, <1>6 DEF DocumentsNext, Acts

\* A step of one request leaves the others where they are.
LEMMA OneAtATime ==
  ASSUME DocumentsTypeOK, NEW w \in Handlers, Add(w) \/ DeleteDocument(w) \/ DeleteWhole(w)
  PROVE  \A v \in Handlers : v # w => handling'[v] = handling[v]
<1> USE DEF DocumentsTypeOK, Step, Goto, Undo
<1>1. CASE Add(w)
  BY <1>1 DEF Add, AddWithoutFile, Upload, UploadFails, InsertLibraryRow, InsertRow,
         RefuseRow, InsertRowUnanswered, InsertLink, RefuseLink, InsertLinkFails,
         UndoUpload, UndoFails
<1>2. CASE DeleteDocument(w)
  BY <1>2 DEF DeleteDocument, ReadKey, ReadKeyFails, DeleteObject, DeleteObjectFails,
         DeleteRow, DeleteRowFails
<1>3. CASE DeleteWhole(w)
  BY <1>3 DEF DeleteWhole, ReadKeys, DeleteDocs, DeleteDocsFails,
         DeleteDocsUnanswered, DeleteRecord, DeleteRecordFails, Sweep, EndSweep
<1> QED
  BY <1>1, <1>2, <1>3

\* DocumentIds and doubts stay.
LEMMA Growing ==
  ASSUME DocumentsTypeOK, [DocumentsNext]_documentsVars
  PROVE  mayMiss \subseteq mayMiss' /\ mayStray \subseteq mayStray' /\ given \subseteq given'
<1> USE DEF MayMiss, MayStray, InsertedAs, documents, doubts
<1>1. CASE Tick \/ (\E r \in Records : CreateRecord(r)) \/ UNCHANGED documentsVars
  BY <1>1 DEF Tick, CreateRecord, documentsVars
<1>2. CASE DocumentsRestart
  BY <1>2 DEF DocumentsRestart
<1>3. ASSUME NEW w \in Handlers, Add(w)
      PROVE  mayMiss \subseteq mayMiss' /\ mayStray \subseteq mayStray' /\ given \subseteq given'
  BY <1>3 DEF Add, AddWithoutFile, Upload, UploadFails, InsertLibraryRow, InsertRow,
         RefuseRow, InsertRowUnanswered, InsertLink, RefuseLink, InsertLinkFails,
         UndoUpload, UndoFails
<1>4. ASSUME NEW w \in Handlers, DeleteDocument(w)
      PROVE  mayMiss \subseteq mayMiss' /\ mayStray \subseteq mayStray' /\ given \subseteq given'
  BY <1>4 DEF DeleteDocument, ReadKey, ReadKeyFails, DeleteObject, DeleteObjectFails,
         DeleteRow, DeleteRowFails
<1>5. ASSUME NEW w \in Handlers, DeleteWhole(w)
      PROVE  mayMiss \subseteq mayMiss' /\ mayStray \subseteq mayStray' /\ given \subseteq given'
  BY <1>5 DEF DeleteWhole, ReadKeys, DeleteDocs, DeleteDocsFails,
         DeleteDocsUnanswered, DeleteRecord, DeleteRecordFails, Sweep, EndSweep
<1> QED
  BY <1>1, <1>2, <1>3, <1>4, <1>5 DEF DocumentsNext

\* A row keeps its file.
LEMMA FilesStay ==
  ASSUME DocumentsTypeOK, [DocumentsNext]_documentsVars
  PROVE  \A d \in given : file'[d] = file[d]
<1> USE DEF DocumentsTypeOK, InsertedAs, documents, doubts
<1>1. CASE Tick \/ (\E r \in Records : CreateRecord(r)) \/ UNCHANGED documentsVars
  BY <1>1 DEF Tick, CreateRecord, documentsVars
<1>2. CASE DocumentsRestart
  BY <1>2 DEF DocumentsRestart
<1>3. ASSUME NEW w \in Handlers, Add(w) PROVE \A d \in given : file'[d] = file[d]
  BY <1>3 DEF Add, AddWithoutFile, Upload, UploadFails, InsertLibraryRow, InsertRow,
         RefuseRow, InsertRowUnanswered, InsertLink, RefuseLink, InsertLinkFails,
         UndoUpload, UndoFails
<1>4. ASSUME NEW w \in Handlers, DeleteDocument(w) PROVE \A d \in given : file'[d] = file[d]
  BY <1>4 DEF DeleteDocument, ReadKey, ReadKeyFails, DeleteObject, DeleteObjectFails,
         DeleteRow, DeleteRowFails
<1>5. ASSUME NEW w \in Handlers, DeleteWhole(w)
      PROVE  \A d \in given : file'[d] = file[d]
  BY <1>5 DEF DeleteWhole, ReadKeys, DeleteDocs, DeleteDocsFails,
         DeleteDocsUnanswered, DeleteRecord, DeleteRecordFails, Sweep, EndSweep
<1> QED
  BY <1>1, <1>2, <1>3, <1>4, <1>5 DEF DocumentsNext

\* A new row, at most one, is that of an upload.
LEMMA RowsNew ==
  ASSUME DocumentsTypeOK, [DocumentsNext]_documentsVars, NEW d \in rows' \ rows
  PROVE  /\ d \in DocumentIds \ given /\ d \in given' /\ link'[d] = link[d]
         /\ \A e \in rows' \ rows : e = d
         /\ \E w \in Handlers :
             /\ At(w, "inserting") /\ handling'[w].pc # "inserting"
             /\ file'[d] = handling[w].key
<1> USE DEF DocumentsTypeOK, Handling, InsertedAs, documents, doubts, WithoutDocsOf, At,
           Step, Undo, Goto, NoRequest, Connection
<1>1. CASE Tick \/ (\E r \in Records : CreateRecord(r)) \/ UNCHANGED documentsVars
  BY <1>1 DEF Tick, CreateRecord, documentsVars
<1>2. CASE DocumentsRestart
  BY <1>2 DEF DocumentsRestart
<1>3. ASSUME NEW u \in Handlers, Add(u)
      PROVE  /\ d \in DocumentIds \ given /\ d \in given' /\ link'[d] = link[d]
             /\ \A e \in rows' \ rows : e = d
             /\ \E w \in Handlers :
                 /\ At(w, "inserting") /\ handling'[w].pc # "inserting"
                 /\ file'[d] = handling[w].key
  BY <1>3 DEF Add, AddWithoutFile, Upload, UploadFails, InsertLibraryRow, InsertRow,
         RefuseRow, InsertRowUnanswered, InsertLink, RefuseLink, InsertLinkFails,
         UndoUpload, UndoFails
<1>4. ASSUME NEW u \in Handlers, DeleteDocument(u)
      PROVE  /\ d \in DocumentIds \ given /\ d \in given' /\ link'[d] = link[d]
             /\ \A e \in rows' \ rows : e = d
             /\ \E w \in Handlers :
                 /\ At(w, "inserting") /\ handling'[w].pc # "inserting"
                 /\ file'[d] = handling[w].key
  BY <1>4 DEF DeleteDocument, ReadKey, ReadKeyFails, DeleteObject, DeleteObjectFails,
         DeleteRow, DeleteRowFails
<1>5. ASSUME NEW u \in Handlers, DeleteWhole(u)
      PROVE  /\ d \in DocumentIds \ given /\ d \in given' /\ link'[d] = link[d]
             /\ \A e \in rows' \ rows : e = d
             /\ \E w \in Handlers :
                 /\ At(w, "inserting") /\ handling'[w].pc # "inserting"
                 /\ file'[d] = handling[w].key
  BY <1>5 DEF DeleteWhole, ReadKeys, DeleteDocs, DeleteDocsFails,
         DeleteDocsUnanswered, DeleteRecord, DeleteRecordFails, Sweep, EndSweep
<1> QED
  BY <1>1, <1>2, <1>3, <1>4, <1>5 DEF DocumentsNext

\* A row goes alone, or with those of its record.
LEMMA RowsGone ==
  ASSUME DocumentsTypeOK, [DocumentsNext]_documentsVars, NEW d \in rows \ rows'
  PROVE  \E w \in Handlers :
             \/ At(w, "removing") /\ handling[w].doc = d
             \/ /\ At(w, "unlisting") /\ link[d] = handling[w].record
                /\ \/ handling[w].keys \subseteq mayStray'
                   \/ handling'[w].pc = "dropping" /\ handling'[w].keys = handling[w].keys
<1> USE DEF DocumentsTypeOK, Handling, InsertedAs, documents, doubts, WithoutDocsOf, DocsOf,
           At, Step, Goto, MayStray
<1>1. CASE Tick \/ (\E r \in Records : CreateRecord(r)) \/ UNCHANGED documentsVars
  BY <1>1 DEF Tick, CreateRecord, documentsVars
<1>2. CASE DocumentsRestart
  BY <1>2 DEF DocumentsRestart
<1>3. ASSUME NEW u \in Handlers, Add(u)
      PROVE  \E w \in Handlers :
                 \/ At(w, "removing") /\ handling[w].doc = d
                 \/ /\ At(w, "unlisting") /\ link[d] = handling[w].record
                    /\ \/ handling[w].keys \subseteq mayStray'
                       \/ handling'[w].pc = "dropping" /\ handling'[w].keys = handling[w].keys
  BY <1>3 DEF Add, AddWithoutFile, Upload, UploadFails, InsertLibraryRow, InsertRow,
         RefuseRow, InsertRowUnanswered, InsertLink, RefuseLink, InsertLinkFails,
         UndoUpload, UndoFails
<1>4. ASSUME NEW u \in Handlers, DeleteDocument(u)
      PROVE  \E w \in Handlers :
                 \/ At(w, "removing") /\ handling[w].doc = d
                 \/ /\ At(w, "unlisting") /\ link[d] = handling[w].record
                    /\ \/ handling[w].keys \subseteq mayStray'
                       \/ handling'[w].pc = "dropping" /\ handling'[w].keys = handling[w].keys
  BY <1>4 DEF DeleteDocument, ReadKey, ReadKeyFails, DeleteObject, DeleteObjectFails,
         DeleteRow, DeleteRowFails
<1>5. ASSUME NEW u \in Handlers, DeleteWhole(u)
      PROVE  \E w \in Handlers :
                 \/ At(w, "removing") /\ handling[w].doc = d
                 \/ /\ At(w, "unlisting") /\ link[d] = handling[w].record
                    /\ \/ handling[w].keys \subseteq mayStray'
                       \/ handling'[w].pc = "dropping" /\ handling'[w].keys = handling[w].keys
  BY <1>5 DEF DeleteWhole, ReadKeys, DeleteDocs, DeleteDocsFails,
         DeleteDocsUnanswered, DeleteRecord, DeleteRecordFails, Sweep, EndSweep
<1> QED
  BY <1>1, <1>2, <1>3, <1>4, <1>5 DEF DocumentsNext

\* A connection is made by the request that adds the document, and goes with
\* the row or with the record.
LEMMA LinksStep ==
  ASSUME DocumentsTypeOK, [DocumentsNext]_documentsVars, NEW d \in DocumentIds
  PROVE  \/ link'[d] = link[d]
         \/ /\ link'[d] = NoRecord
            /\ \/ d \notin rows'
               \/ \E w \in Handlers : At(w, "dropping") /\ handling[w].record = link[d]
         \/ \E w \in Handlers :
             /\ At(w, "linking") /\ handling'[w].pc # "linking"
             /\ handling[w].doc = d /\ link'[d] = handling[w].record
<1> USE DEF DocumentsTypeOK, Handling, InsertedAs, documents, doubts, WithoutDocsOf,
           WithoutRecord, At, Step, Undo, Goto, NoRequest, CanLink
<1>1. CASE Tick \/ (\E r \in Records : CreateRecord(r)) \/ UNCHANGED documentsVars
  BY <1>1 DEF Tick, CreateRecord, documentsVars
<1>2. CASE DocumentsRestart
  BY <1>2 DEF DocumentsRestart
<1>3. ASSUME NEW u \in Handlers, Add(u)
      PROVE  \/ link'[d] = link[d]
             \/ /\ link'[d] = NoRecord
                /\ \/ d \notin rows'
                   \/ \E w \in Handlers : At(w, "dropping") /\ handling[w].record = link[d]
             \/ \E w \in Handlers :
                 /\ At(w, "linking") /\ handling'[w].pc # "linking"
                 /\ handling[w].doc = d /\ link'[d] = handling[w].record
  BY <1>3 DEF Add, AddWithoutFile, Upload, UploadFails, InsertLibraryRow, InsertRow,
         RefuseRow, InsertRowUnanswered, InsertLink, RefuseLink, InsertLinkFails,
         UndoUpload, UndoFails
<1>4. ASSUME NEW u \in Handlers, DeleteDocument(u)
      PROVE  \/ link'[d] = link[d]
             \/ /\ link'[d] = NoRecord
                /\ \/ d \notin rows'
                   \/ \E w \in Handlers : At(w, "dropping") /\ handling[w].record = link[d]
             \/ \E w \in Handlers :
                 /\ At(w, "linking") /\ handling'[w].pc # "linking"
                 /\ handling[w].doc = d /\ link'[d] = handling[w].record
  BY <1>4 DEF DeleteDocument, ReadKey, ReadKeyFails, DeleteObject, DeleteObjectFails,
         DeleteRow, DeleteRowFails
<1>5. ASSUME NEW u \in Handlers, DeleteWhole(u)
      PROVE  \/ link'[d] = link[d]
             \/ /\ link'[d] = NoRecord
                /\ \/ d \notin rows'
                   \/ \E w \in Handlers : At(w, "dropping") /\ handling[w].record = link[d]
             \/ \E w \in Handlers :
                 /\ At(w, "linking") /\ handling'[w].pc # "linking"
                 /\ handling[w].doc = d /\ link'[d] = handling[w].record
  BY <1>5 DEF DeleteWhole, ReadKeys, DeleteDocs, DeleteDocsFails,
         DeleteDocsUnanswered, DeleteRecord, DeleteRecordFails, Sweep, EndSweep
<1> QED
  BY <1>1, <1>2, <1>3, <1>4, <1>5 DEF DocumentsNext

\* A record goes after its documents.
LEMMA RecordsGone ==
  ASSUME DocumentsTypeOK, [DocumentsNext]_documentsVars, NEW r \in records \ records'
  PROVE  \E w \in Handlers : At(w, "dropping") /\ handling[w].record = r
<1> USE DEF DocumentsTypeOK, documents, doubts, At, WithoutRecord
<1>1. CASE Tick \/ (\E q \in Records : CreateRecord(q)) \/ UNCHANGED documentsVars
  BY <1>1 DEF Tick, CreateRecord, documentsVars
<1>2. CASE DocumentsRestart
  BY <1>2 DEF DocumentsRestart
<1>3. ASSUME NEW u \in Handlers, Add(u)
      PROVE  \E w \in Handlers : At(w, "dropping") /\ handling[w].record = r
  BY <1>3 DEF Add, AddWithoutFile, Upload, UploadFails, InsertLibraryRow, InsertRow,
         RefuseRow, InsertRowUnanswered, InsertLink, RefuseLink, InsertLinkFails,
         UndoUpload, UndoFails
<1>4. ASSUME NEW u \in Handlers, DeleteDocument(u)
      PROVE  \E w \in Handlers : At(w, "dropping") /\ handling[w].record = r
  BY <1>4 DEF DeleteDocument, ReadKey, ReadKeyFails, DeleteObject, DeleteObjectFails,
         DeleteRow, DeleteRowFails
<1>5. ASSUME NEW u \in Handlers, DeleteWhole(u)
      PROVE  \E w \in Handlers : At(w, "dropping") /\ handling[w].record = r
  BY <1>5 DEF DeleteWhole, ReadKeys, DeleteDocs, DeleteDocsFails,
         DeleteDocsUnanswered, DeleteRecord, DeleteRecordFails, Sweep, EndSweep
<1> QED
  BY <1>1, <1>2, <1>3, <1>4, <1>5 DEF DocumentsNext

\* A delete that has deleted the object deletes the row, or puts the file in
\* doubt.
LEMMA LeavingRemoving ==
  ASSUME DocumentsTypeOK, [DocumentsNext]_documentsVars, NEW v \in Handlers, At(v, "removing")
  PROVE  \/ handling'[v] = handling[v]
         \/ handling[v].doc \notin rows'
         \/ handling[v].key \in {NoKey} \cup mayMiss'
<1> USE DEF DocumentsTypeOK, Handling, documents, doubts, At, Step, Undo, Goto, NoRequest,
           MayMiss, KeyOf, InsertedAs
<1>1. CASE Tick \/ (\E r \in Records : CreateRecord(r)) \/ UNCHANGED documentsVars
  BY <1>1 DEF Tick, CreateRecord, documentsVars
<1>2. CASE DocumentsRestart
  BY <1>2 DEF DocumentsRestart, HoldingAny
<1>3. ASSUME NEW w \in Handlers, Add(w)
      PROVE  \/ handling'[v] = handling[v]
             \/ handling[v].doc \notin rows'
             \/ handling[v].key \in {NoKey} \cup mayMiss'
  BY <1>3 DEF Add, AddWithoutFile, Upload, UploadFails, InsertLibraryRow, InsertRow,
         RefuseRow, InsertRowUnanswered, InsertLink, RefuseLink, InsertLinkFails,
         UndoUpload, UndoFails
<1>4. ASSUME NEW w \in Handlers, DeleteDocument(w)
      PROVE  \/ handling'[v] = handling[v]
             \/ handling[v].doc \notin rows'
             \/ handling[v].key \in {NoKey} \cup mayMiss'
  BY <1>4 DEF DeleteDocument, ReadKey, ReadKeyFails, DeleteObject, DeleteObjectFails,
         DeleteRow, DeleteRowFails
<1>5. ASSUME NEW w \in Handlers, DeleteWhole(w)
      PROVE  \/ handling'[v] = handling[v]
             \/ handling[v].doc \notin rows'
             \/ handling[v].key \in {NoKey} \cup mayMiss'
  BY <1>5 DEF DeleteWhole, ReadKeys, DeleteDocs, DeleteDocsFails,
         DeleteDocsUnanswered, DeleteRecord, DeleteRecordFails, Sweep, EndSweep
<1> QED
  BY <1>1, <1>2, <1>3, <1>4, <1>5 DEF DocumentsNext

\* A request lets go of an object when it has deleted it, when a row names it,
\* or when it may stay.
LEMMA LettingGo ==
  ASSUME DocumentsTypeOK, [DocumentsNext]_documentsVars, NEW v \in Handlers, NEW k \in objects, k # NoKey, HeldBy(v, k)
  PROVE  \/ HeldBy(v, k)'
         \/ k \in mayStray' \/ k \notin objects'
         \/ \E d \in rows' : file'[d] = k
<1> USE DEF DocumentsTypeOK, Handling, documents, doubts, HeldBy, At, Step, Undo, Goto, NoRequest,
           MayStray, KeyOf, InsertedAs, Connection
<1>1. CASE Tick \/ (\E r \in Records : CreateRecord(r)) \/ UNCHANGED documentsVars
  BY <1>1 DEF Tick, CreateRecord, documentsVars
<1>2. CASE DocumentsRestart
  BY <1>2 DEF DocumentsRestart, HoldingAny
<1>3. ASSUME NEW w \in Handlers, Add(w)
      PROVE  \/ HeldBy(v, k)'
             \/ k \in mayStray' \/ k \notin objects'
             \/ \E d \in rows' : file'[d] = k
  BY <1>3 DEF Add, AddWithoutFile, Upload, UploadFails, InsertLibraryRow, InsertRow,
         RefuseRow, InsertRowUnanswered, InsertLink, RefuseLink, InsertLinkFails,
         UndoUpload, UndoFails
<1>4. ASSUME NEW w \in Handlers, DeleteDocument(w)
      PROVE  \/ HeldBy(v, k)'
             \/ k \in mayStray' \/ k \notin objects'
             \/ \E d \in rows' : file'[d] = k
  BY <1>4 DEF DeleteDocument, ReadKey, ReadKeyFails, DeleteObject, DeleteObjectFails,
         DeleteRow, DeleteRowFails
<1>5. ASSUME NEW w \in Handlers, DeleteWhole(w)
      PROVE  \/ HeldBy(v, k)'
             \/ k \in mayStray' \/ k \notin objects'
             \/ \E d \in rows' : file'[d] = k
  BY <1>5 DEF DeleteWhole, ReadKeys, DeleteDocs, DeleteDocsFails,
         DeleteDocsUnanswered, DeleteRecord, DeleteRecordFails, Sweep, EndSweep
<1> QED
  BY <1>1, <1>2, <1>3, <1>4, <1>5 DEF DocumentsNext

\* How requests begin, or go on with another statement.
LEMMA Beginning ==
  ASSUME DocumentsTypeOK, NEW v \in Handlers
  PROVE  /\ AddWithoutFile(v) =>
              \E r \in made \cup {NoRecord} : handling'[v] = Addition(r, NoKey)
         /\ Upload(v) => \E r \in made \cup {NoRecord} : handling'[v] = Addition(r, clock)
         /\ InsertRow(v) =>
              \E d \in DocumentIds : InsertedAs(v, d)
                /\ handling'[v] = Connection(handling[v].record, d, handling[v].key)
         /\ ReadKey(v) =>
              \E d \in rows : handling'[v] =
                Deletion(IF file[d] = NoKey THEN "removing" ELSE "unstoring", d, file[d])
         /\ ReadKeyFails(v) =>
              \E d \in rows : handling'[v] = Deletion("removing", d, NoKey)
         /\ ReadKeys(v) =>
              \E r \in made : handling'[v] = Clearance(r, FilesOf(DocsOf(r)))
<1>1. \A request : Step(v, request) => handling'[v] = request
  BY Local
<1>2. AddWithoutFile(v) =>
        \E r \in made \cup {NoRecord} : handling'[v] = Addition(r, NoKey)
  BY <1>1 DEF AddWithoutFile
<1>3. Upload(v) => \E r \in made \cup {NoRecord} : handling'[v] = Addition(r, clock)
  BY <1>1 DEF Upload
<1>4. InsertRow(v) =>
        \E d \in DocumentIds : InsertedAs(v, d)
          /\ handling'[v] = Connection(handling[v].record, d, handling[v].key)
  BY <1>1 DEF InsertRow
<1>5. ReadKey(v) =>
        \E d \in rows : handling'[v] =
          Deletion(IF file[d] = NoKey THEN "removing" ELSE "unstoring", d, file[d])
  BY <1>1 DEF ReadKey
<1>6. ReadKeyFails(v) => \E d \in rows : handling'[v] = Deletion("removing", d, NoKey)
  BY <1>1 DEF ReadKeyFails
<1>7. ReadKeys(v) => \E r \in made : handling'[v] = Clearance(r, FilesOf(DocsOf(r)))
  BY <1>1 DEF ReadKeys
<1> QED
  BY <1>2, <1>3, <1>4, <1>5, <1>6, <1>7

\* Where they are then, and what names they hold.
LEMMA BeginningAt ==
  ASSUME DocumentsTypeOK, NEW v \in Handlers
  PROVE  /\ AddWithoutFile(v) =>
              /\ handling'[v].pc = "inserting"
              /\ handling'[v].key = NoKey /\ handling'[v].keys = {}
         /\ Upload(v) =>
              /\ handling'[v].pc = "inserting"
              /\ handling'[v].key = clock /\ handling'[v].keys = {}
         /\ InsertRow(v) =>
              /\ handling'[v].pc = "linking"
              /\ handling'[v].key = handling[v].key /\ handling'[v].keys = {}
         /\ ReadKey(v) =>
              /\ handling'[v].pc \in {"removing", "unstoring"}
              /\ handling'[v].key \in {NoKey} \cup FilesOf(rows) /\ handling'[v].keys = {}
         /\ ReadKeyFails(v) =>
              /\ handling'[v].pc = "removing"
              /\ handling'[v].key = NoKey /\ handling'[v].keys = {}
         /\ ReadKeys(v) =>
              /\ handling'[v].pc = "unlisting"
              /\ handling'[v].key = NoKey /\ handling'[v].keys \subseteq FilesOf(rows)
<1>1. ASSUME AddWithoutFile(v)
      PROVE  /\ handling'[v].pc = "inserting"
             /\ handling'[v].key = NoKey /\ handling'[v].keys = {}
  <2>1. PICK r \in made \cup {NoRecord} : handling'[v] = Addition(r, NoKey)
    BY <1>1, Beginning
  <2> QED
    BY <2>1 DEF Addition
<1>2. ASSUME Upload(v)
      PROVE  /\ handling'[v].pc = "inserting"
             /\ handling'[v].key = clock /\ handling'[v].keys = {}
  <2>1. PICK r \in made \cup {NoRecord} : handling'[v] = Addition(r, clock)
    BY <1>2, Beginning
  <2> QED
    BY <2>1 DEF Addition
<1>3. ASSUME InsertRow(v)
      PROVE  /\ handling'[v].pc = "linking"
             /\ handling'[v].key = handling[v].key /\ handling'[v].keys = {}
  <2>1. PICK d \in DocumentIds :
          handling'[v] = Connection(handling[v].record, d, handling[v].key)
    BY <1>3, Beginning
  <2> QED
    BY <2>1 DEF Connection
<1>4. ASSUME ReadKey(v)
      PROVE  /\ handling'[v].pc \in {"removing", "unstoring"}
             /\ handling'[v].key \in {NoKey} \cup FilesOf(rows) /\ handling'[v].keys = {}
  <2>1. PICK d \in rows : handling'[v] =
          Deletion(IF file[d] = NoKey THEN "removing" ELSE "unstoring", d, file[d])
    BY <1>4, Beginning
  <2> QED
    BY <2>1 DEF Deletion, FilesOf
<1>5. ASSUME ReadKeyFails(v)
      PROVE  /\ handling'[v].pc = "removing"
             /\ handling'[v].key = NoKey /\ handling'[v].keys = {}
  <2>1. PICK d \in rows : handling'[v] = Deletion("removing", d, NoKey)
    BY <1>5, Beginning
  <2> QED
    BY <2>1 DEF Deletion
<1>6. ASSUME ReadKeys(v)
      PROVE  /\ handling'[v].pc = "unlisting"
             /\ handling'[v].key = NoKey /\ handling'[v].keys \subseteq FilesOf(rows)
  <2>1. PICK r \in made : handling'[v] = Clearance(r, FilesOf(DocsOf(r)))
    BY <1>6, Beginning
  <2> QED
    BY <2>1 DEF Clearance, FilesOf, DocsOf
<1> QED
  BY <1>1, <1>2, <1>3, <1>4, <1>5, <1>6

\* An object goes when an upload is undone, a document or a record is deleted.
LEMMA ObjectsGone ==
  ASSUME DocumentsTypeOK, [DocumentsNext]_documentsVars, NEW k \in objects \ objects'
  PROVE  \E w \in Handlers :
            \/ At(w, "undoing") /\ handling[w].key = k
            \/ /\ At(w, "unstoring") /\ handling[w].key = k
               /\ handling'[w].pc = "removing" /\ handling'[w].key = k
               /\ handling'[w].doc = handling[w].doc
            \/ At(w, "sweeping") /\ k \in handling[w].keys
<1> USE DEF DocumentsTypeOK, Handling, documents, doubts, At, Step, Goto
<1>1. CASE Tick \/ (\E r \in Records : CreateRecord(r)) \/ DocumentsRestart \/ UNCHANGED documentsVars
  BY <1>1 DEF Tick, CreateRecord, DocumentsRestart, documentsVars
<1>2. ASSUME NEW w \in Handlers, Add(w) PROVE At(w, "undoing") /\ handling[w].key = k
  BY <1>2 DEF Add, AddWithoutFile, Upload, UploadFails, InsertLibraryRow, InsertRow,
         RefuseRow, InsertRowUnanswered, InsertLink, RefuseLink, InsertLinkFails,
         UndoUpload, UndoFails
<1>3. ASSUME NEW w \in Handlers, DeleteDocument(w)
      PROVE  /\ At(w, "unstoring") /\ handling[w].key = k
             /\ handling'[w].pc = "removing" /\ handling'[w].key = k
             /\ handling'[w].doc = handling[w].doc
  BY <1>3 DEF DeleteDocument, ReadKey, ReadKeyFails, DeleteObject, DeleteObjectFails,
         DeleteRow, DeleteRowFails
<1>4. ASSUME NEW w \in Handlers, DeleteWhole(w) PROVE At(w, "sweeping") /\ k \in handling[w].keys
  BY <1>4 DEF DeleteWhole, ReadKeys, DeleteDocs, DeleteDocsFails,
         DeleteDocsUnanswered, DeleteRecord, DeleteRecordFails, Sweep, EndSweep
<1> QED
  BY <1>1, <1>2, <1>3, <1>4 DEF DocumentsNext

\* A new object is that of an upload, in doubt if the upload failed.
LEMMA ObjectsNew ==
  ASSUME DocumentsTypeOK, [DocumentsNext]_documentsVars, NEW k \in objects' \ objects
  PROVE  \/ k \in mayStray'
         \/ \E w \in Handlers : Upload(w) /\ k = clock
<1> USE DEF documents, doubts, MayStray
<1>1. CASE Tick \/ (\E r \in Records : CreateRecord(r)) \/ DocumentsRestart \/ UNCHANGED documentsVars
  BY <1>1 DEF Tick, CreateRecord, DocumentsRestart, documentsVars
<1>2. ASSUME NEW w \in Handlers, Add(w) PROVE k \in mayStray' \/ (Upload(w) /\ k = clock)
  <2>1. CASE Upload(w)
    BY <2>1 DEF Upload
  <2>2. CASE UploadFails(w)
    BY <2>2 DEF UploadFails
  <2> QED
    BY <1>2, <2>1, <2>2 DEF Add, AddWithoutFile, InsertLibraryRow, InsertRow,
           RefuseRow, InsertRowUnanswered, InsertLink, RefuseLink, InsertLinkFails,
           UndoUpload, UndoFails
<1>3. ASSUME NEW w \in Handlers, DeleteDocument(w) PROVE FALSE
  BY <1>3 DEF DeleteDocument, ReadKey, ReadKeyFails, DeleteObject, DeleteObjectFails,
         DeleteRow, DeleteRowFails
<1>4. ASSUME NEW w \in Handlers, DeleteWhole(w) PROVE FALSE
  BY <1>4 DEF DeleteWhole, ReadKeys, DeleteDocs, DeleteDocsFails,
         DeleteDocsUnanswered, DeleteRecord, DeleteRecordFails, Sweep, EndSweep
<1> QED
  BY <1>1, <1>2, <1>3, <1>4 DEF DocumentsNext

\* What brings a request to each place.
LEMMA Entering ==
  ASSUME DocumentsTypeOK, [DocumentsNext]_documentsVars, NEW v \in Handlers, handling'[v] # handling[v]
  PROVE  /\ handling'[v].pc = "inserting" => AddWithoutFile(v) \/ Upload(v)
         /\ handling'[v].pc = "linking" => InsertRow(v)
         /\ handling'[v].pc = "undoing" =>
              RefuseRow(v) \/ InsertRowUnanswered(v) \/ RefuseLink(v) \/ InsertLinkFails(v)
         /\ handling'[v].pc = "unstoring" => ReadKey(v)
         /\ handling'[v].pc = "removing" =>
              ReadKey(v) \/ ReadKeyFails(v) \/ DeleteObject(v) \/ DeleteObjectFails(v)
         /\ handling'[v].pc = "unlisting" => ReadKeys(v)
         /\ handling'[v].pc = "dropping" => DeleteDocs(v)
         /\ handling'[v].pc = "sweeping" => DeleteRecord(v) \/ Sweep(v)
<1> USE DEF DocumentsTypeOK, Handling, Step, Goto, Undo, At, NoRequest
<1>1. CASE Tick \/ (\E r \in Records : CreateRecord(r)) \/ DocumentsRestart \/ UNCHANGED documentsVars
  BY <1>1 DEF Tick, CreateRecord, DocumentsRestart, documentsVars
<1>2. CASE \E w \in Handlers \ {v} : Add(w) \/ DeleteDocument(w) \/ DeleteWhole(w)
  BY <1>2, OneAtATime
<1>3. CASE Add(v)
  <2>1. CASE AddWithoutFile(v)
    BY <2>1, BeginningAt
  <2>2. CASE Upload(v)
    BY <2>2, BeginningAt
  <2>3. CASE InsertRow(v)
    BY <2>3, BeginningAt
  <2>4. CASE RefuseRow(v)
    BY <2>4 DEF RefuseRow
  <2>5. CASE InsertRowUnanswered(v)
    BY <2>5 DEF InsertRowUnanswered
  <2>6. CASE RefuseLink(v)
    BY <2>6 DEF RefuseLink
  <2>7. CASE InsertLinkFails(v)
    BY <2>7 DEF InsertLinkFails
  <2> QED
    BY <1>3, <2>1, <2>2, <2>3, <2>4, <2>5, <2>6, <2>7 DEF Add, UploadFails,
           InsertLibraryRow, InsertLink, UndoUpload, UndoFails
<1>4. CASE DeleteDocument(v)
  <2>1. CASE ReadKey(v)
    BY <2>1, BeginningAt
  <2>2. CASE ReadKeyFails(v)
    BY <2>2, BeginningAt
  <2>3. CASE DeleteObject(v)
    BY <2>3 DEF DeleteObject
  <2>4. CASE DeleteObjectFails(v)
    BY <2>4 DEF DeleteObjectFails
  <2> QED
    BY <1>4, <2>1, <2>2, <2>3, <2>4 DEF DeleteDocument, DeleteRow, DeleteRowFails
<1>5. CASE DeleteWhole(v)
  <2>1. CASE ReadKeys(v)
    BY <2>1, BeginningAt
  <2>2. CASE DeleteDocs(v)
    BY <2>2 DEF DeleteDocs
  <2>3. CASE DeleteRecord(v)
    BY <2>3 DEF DeleteRecord
  <2>4. CASE Sweep(v)
    BY <2>4 DEF Sweep
  <2> QED
    BY <1>5, <2>1, <2>2, <2>3, <2>4 DEF DeleteWhole, DeleteDocsFails,
           DeleteDocsUnanswered, DeleteRecordFails, EndSweep
<1> QED
  BY <1>1, <1>2, <1>3, <1>4, <1>5 DEF DocumentsNext

\* A request takes the name of an object from the clock or from a row.
LEMMA NewNames ==
  ASSUME DocumentsTypeOK, [DocumentsNext]_documentsVars, NEW v \in Handlers
  PROVE  /\ \/ handling'[v].key \in {handling[v].key, NoKey} \cup FilesOf(rows)
            \/ Upload(v) /\ handling'[v].key = clock
         /\ handling'[v].keys \subseteq handling[v].keys \cup FilesOf(rows)
<1> USE DEF DocumentsTypeOK, Handling, Step, Goto, Undo, At, NoRequest, Addition, Connection
<1>1. CASE Tick \/ (\E r \in Records : CreateRecord(r)) \/ DocumentsRestart \/ UNCHANGED documentsVars
  BY <1>1 DEF Tick, CreateRecord, DocumentsRestart, documentsVars
<1>2. CASE \E w \in Handlers \ {v} : Add(w) \/ DeleteDocument(w) \/ DeleteWhole(w)
  BY <1>2, OneAtATime
<1>3. CASE Add(v)
  <2>1. CASE Upload(v)
    BY <2>1, BeginningAt
  <2> QED
    BY <1>3, <2>1 DEF Add, AddWithoutFile, UploadFails, InsertLibraryRow, InsertRow,
           RefuseRow, InsertRowUnanswered, InsertLink, RefuseLink, InsertLinkFails,
           UndoUpload, UndoFails
<1>4. CASE DeleteDocument(v)
  <2>1. CASE ReadKey(v)
    BY <2>1, BeginningAt
  <2>2. CASE ReadKeyFails(v)
    BY <2>2, BeginningAt
  <2> QED
    BY <1>4, <2>1, <2>2 DEF DeleteDocument, DeleteObject, DeleteObjectFails, DeleteRow,
           DeleteRowFails
<1>5. CASE DeleteWhole(v)
  <2>1. CASE ReadKeys(v)
    BY <2>1, BeginningAt
  <2>2. CASE Sweep(v)
    BY <2>2 DEF Sweep
  <2> QED
    BY <1>5, <2>1, <2>2 DEF DeleteWhole, DeleteDocs, DeleteDocsFails,
           DeleteDocsUnanswered, DeleteRecord, DeleteRecordFails, EndSweep
<1> QED
  BY <1>1, <1>2, <1>3, <1>4, <1>5 DEF DocumentsNext

-----------------------------------------------------------------------------
\* An object about to be registered stays the request's own.
LEMMA InsertingStep ==
  ASSUME Inv, [DocumentsNext]_documentsVars, NEW w \in Handlers
  PROVE  InsertingOK(w)'
<1>1. DocumentsTypeOK /\ InsertingOK(w)
  BY DEF Inv
<1> DEFINE k == handling'[w].key
<1> SUFFICES ASSUME handling'[w].pc = "inserting", k \notin {NoKey} \cup mayMiss'
             PROVE  /\ k \in objects'
                    /\ \A d \in rows' : file'[d] # k
                    /\ \A v \in Handlers :
                        /\ k \notin handling'[v].keys
                        /\ v # w => handling'[v].key # k
  BY DEF InsertingOK, At, Sure, RowsOf
<1>2. k \notin {NoKey} \cup mayMiss
  BY <1>1, Growing
<1>3. CASE handling'[w] = handling[w]
  <2>1. /\ k \in objects
        /\ \A d \in rows : file[d] # k
        /\ \A v \in Handlers :
            /\ k \notin handling[v].keys
            /\ v # w => handling[v].key # k
    BY <1>1, <1>2, <1>3 DEF InsertingOK, At, Sure, RowsOf
  <2>2. k \in objects'
    BY <1>1, <1>3, <2>1, ObjectsGone DEF At
  <2>3. ASSUME NEW d \in rows' PROVE file'[d] # k
    <3>1. CASE d \in rows
      BY <1>1, <2>1, <3>1, FilesStay DEF DocumentsTypeOK
    <3>2. CASE d \notin rows
      BY <1>1, <2>1, <3>2, RowsNew
    <3> QED
      BY <3>1, <3>2
  <2>4. ASSUME NEW v \in Handlers
        PROVE  k \notin handling'[v].keys /\ (v # w => handling'[v].key # k)
    <3>1. k \notin FilesOf(rows)
      BY <2>1 DEF FilesOf
    <3>2. Upload(v) => k # clock
      BY <2>1 DEF Upload, InUse, MayMiss
    <3> QED
      BY <1>1, <1>2, <2>1, <3>1, <3>2, NewNames
  <2> QED
    BY <2>2, <2>3, <2>4
<1>4. CASE handling'[w] # handling[w]
  <2>1. Upload(w) /\ k = clock /\ handling'[w].keys = {}
    BY <1>1, <1>4, Entering, BeginningAt
  <2>2. ~InUse(clock)
    BY <2>1 DEF Upload, MayMiss
  <2>3. objects' = objects \cup {clock} /\ rows' = rows /\ file' = file
    BY <2>1 DEF Upload, documents
  <2>4. \A v \in Handlers : v # w => handling'[v] = handling[v]
    BY <1>1, <2>1, OneAtATime DEF Add
  <2> QED
    BY <2>1, <2>2, <2>3, <2>4 DEF InUse, FilesOf
<1> QED
  BY <1>3, <1>4

\* A document about to be linked stays the request's own.
LEMMA LinkingStep ==
  ASSUME Inv, [DocumentsNext]_documentsVars, NEW w \in Handlers
  PROVE  LinkingOK(w)'
<1>1. DocumentsTypeOK /\ LinkingOK(w) /\ RowsOK /\ CrossedOK
  BY DEF Inv
<1>2. \A v \in Handlers : InsertingOK(v) /\ LinkingOK(v)
  BY DEF Inv
<1> DEFINE q == handling'[w]
<1> SUFFICES ASSUME q.pc = "linking"
             PROVE  /\ q.record \in Records
                    /\ q.doc \in given'
                    /\ file'[q.doc] = q.key
                    /\ link'[q.doc] = NoRecord
                    /\ \A v \in Handlers \ {w} :
                        handling'[v].pc = "linking" => handling'[v].doc # q.doc
                    /\ q.key \notin {NoKey} \cup mayMiss' =>
                        /\ q.record \in records'
                        /\ \A d \in rows' : file'[d] = q.key => d = q.doc
  BY DEF LinkingOK, At, Sure, RowsOf
<1>3. q.key \notin mayMiss' => q.key \notin mayMiss
  BY <1>1, Growing
<1>4. CASE q = handling[w]
  <2>1. /\ q.record \in Records
        /\ q.doc \in given
        /\ file[q.doc] = q.key
        /\ link[q.doc] = NoRecord
        /\ \A v \in Handlers \ {w} :
            handling[v].pc = "linking" => handling[v].doc # q.doc
        /\ q.key \notin {NoKey} \cup mayMiss =>
            /\ q.record \in records
            /\ \A d \in rows : file[d] = q.key => d = q.doc
    BY <1>1, <1>4 DEF LinkingOK, At, Sure, RowsOf
  <2>2. q.doc \in given' /\ file'[q.doc] = q.key
    BY <1>1, <2>1, Growing, FilesStay
  <2>3. link'[q.doc] = NoRecord
    <3>1. q.doc \in DocumentIds
      BY <1>1, <2>1 DEF DocumentsTypeOK
    <3> QED
      BY <1>1, <1>4, <2>1, <3>1, LinksStep DEF At
  <2>4. ASSUME NEW v \in Handlers \ {w}, handling'[v].pc = "linking"
        PROVE  handling'[v].doc # q.doc
    <3>1. CASE handling'[v] = handling[v]
      BY <2>1, <2>4, <3>1
    <3>2. CASE handling'[v] # handling[v]
      <4>1. InsertRow(v)
        BY <1>1, <2>4, <3>2, Entering
      <4>2. PICK d \in DocumentIds : InsertedAs(v, d)
                /\ handling'[v] = Connection(handling[v].record, d, handling[v].key)
        BY <1>1, <4>1, Beginning
      <4> QED
        BY <2>1, <4>2 DEF InsertedAs, Connection
    <3> QED
      BY <3>1, <3>2
  <2>5. ASSUME q.key \notin {NoKey} \cup mayMiss'
        PROVE  q.record \in records'
    <3>1. q.record \in records
      BY <1>3, <2>1, <2>5
    <3>2. ASSUME NEW u \in Handlers, At(u, "dropping"), handling[u].record = q.record
          PROVE  FALSE
      BY <1>1, <1>3, <1>4, <2>5, <3>2 DEF CrossedOK, At, Sure
    <3> QED
      BY <1>1, <3>1, <3>2, RecordsGone
  <2>6. ASSUME q.key \notin {NoKey} \cup mayMiss', NEW d \in rows', file'[d] = q.key
        PROVE  d = q.doc
    <3>1. CASE d \in rows
      BY <1>1, <1>3, <2>1, <2>6, <3>1, FilesStay DEF DocumentsTypeOK
    <3>2. CASE d \notin rows
      <4>1. PICK u \in Handlers : /\ At(u, "inserting") /\ handling'[u].pc # "inserting"
                                 /\ file'[d] = handling[u].key
        BY <1>1, <3>2, RowsNew
      <4>2. handling[w].key = handling[u].key /\ w # u
        BY <1>4, <2>6, <4>1 DEF At
      <4> QED
        BY <1>2, <1>3, <1>4, <2>6, <4>1, <4>2 DEF InsertingOK, Sure
    <3> QED
      BY <3>1, <3>2
  <2> QED
    BY <2>1, <2>2, <2>3, <2>4, <2>5, <2>6
<1>5. CASE q # handling[w]
  <2>1. InsertRow(w)
    BY <1>1, <1>5, Entering
  <2>2. PICK d \in DocumentIds : InsertedAs(w, d)
            /\ q = Connection(handling[w].record, d, handling[w].key)
    BY <1>1, <2>1, Beginning
  <2>3. /\ q.record = handling[w].record /\ q.doc = d /\ q.key = handling[w].key
    BY <2>2 DEF Connection
  <2>4. /\ handling[w].record \in records /\ records' = records /\ mayMiss' = mayMiss
        /\ At(w, "inserting")
    BY <2>1 DEF InsertRow, doubts
  <2>5. /\ d \notin given /\ d \in given' /\ rows' = rows \cup {d}
        /\ file' = [file EXCEPT ![d] = handling[w].key] /\ link' = link
    BY <2>2 DEF InsertedAs
  <2>6. q.record \in Records /\ file'[d] = q.key /\ link'[d] = NoRecord
    BY <1>1, <2>2, <2>3, <2>4, <2>5 DEF DocumentsTypeOK, RowsOK
  <2>7. ASSUME NEW v \in Handlers \ {w}, handling'[v].pc = "linking"
        PROVE  handling'[v].doc # d
    <3>1. handling'[v] = handling[v]
      BY <1>1, <2>1, OneAtATime DEF Add
    <3> QED
      BY <1>2, <2>5, <2>7, <3>1 DEF LinkingOK, At
  <2>8. ASSUME q.key \notin {NoKey} \cup mayMiss', NEW e \in rows', file'[e] = q.key
        PROVE  e = d
    <3>1. \A c \in rows : file[c] # q.key
      BY <1>2, <2>3, <2>4, <2>8 DEF InsertingOK, Sure, RowsOf
    <3> QED
      BY <1>1, <2>5, <2>8, <3>1 DEF DocumentsTypeOK
  <2> QED
    BY <2>3, <2>4, <2>5, <2>6, <2>7, <2>8
<1> QED
  BY <1>4, <1>5

\* An upload is undone of which no row was inserted.
LEMMA UndoingStep ==
  ASSUME Inv, [DocumentsNext]_documentsVars, NEW w \in Handlers
  PROVE  UndoingOK(w)'
<1>1. /\ DocumentsTypeOK /\ UndoingOK(w) /\ InsertingOK(w) /\ LinkingOK(w)
      /\ \A v \in Handlers : InsertingOK(v)
  BY DEF Inv
<1> DEFINE k == handling'[w].key
<1> SUFFICES ASSUME handling'[w].pc = "undoing"
             PROVE  /\ k \in ObjectKeys
                    /\ k \notin {NoKey} \cup mayMiss' => \A d \in rows' : file'[d] # k
  BY DEF UndoingOK, At, Sure, RowsOf
<1>2. k \notin mayMiss' => k \notin mayMiss
  BY <1>1, Growing
<1>3. CASE handling'[w] = handling[w]
  <2>1. k \in ObjectKeys /\ (k \notin {NoKey} \cup mayMiss => \A d \in rows : file[d] # k)
    BY <1>1, <1>3 DEF UndoingOK, At, Sure, RowsOf
  <2>2. ASSUME k \notin {NoKey} \cup mayMiss', NEW d \in rows'
        PROVE  file'[d] # k
    <3>1. CASE d \in rows
      BY <1>1, <1>2, <2>1, <2>2, <3>1, FilesStay DEF DocumentsTypeOK
    <3>2. CASE d \notin rows
      <4>1. PICK u \in Handlers : /\ At(u, "inserting") /\ handling'[u].pc # "inserting"
                                 /\ file'[d] = handling[u].key
        BY <1>1, <3>2, RowsNew
      <4>2. u # w
        BY <1>3, <4>1 DEF At
      <4> QED
        BY <1>1, <1>2, <1>3, <2>2, <4>1, <4>2 DEF InsertingOK, Sure
    <3> QED
      BY <3>1, <3>2
  <2> QED
    BY <2>1, <2>2
<1>4. CASE handling'[w] # handling[w]
  <2>1. \/ RefuseRow(w) \/ InsertRowUnanswered(w)
        \/ RefuseLink(w) \/ InsertLinkFails(w)
    BY <1>1, <1>4, Entering
  <2>2. Undo(w)
    BY <2>1 DEF RefuseRow, InsertRowUnanswered, RefuseLink, InsertLinkFails
  <2>3. k = handling[w].key /\ k # NoKey
    BY <1>1, <2>2 DEF Undo, Goto, Step, DocumentsTypeOK, Handling, NoRequest
  <2>4. k \in ObjectKeys
    BY <1>1, <2>3 DEF DocumentsTypeOK, Handling
  <2>5. CASE RefuseRow(w)
    BY <1>1, <2>3, <2>4, <2>5
        DEF RefuseRow, InsertingOK, Sure, RowsOf, documents, doubts
  <2>6. CASE InsertRowUnanswered(w) \/ InsertLinkFails(w)
    BY <2>3, <2>4, <2>6 DEF InsertRowUnanswered, InsertLinkFails, MayMiss, KeyOf
  <2>7. CASE RefuseLink(w)
    <3>1. /\ At(w, "linking") /\ ~CanLink(w)
          /\ rows' = rows /\ file' = file /\ mayMiss' = mayMiss
      BY <2>7 DEF RefuseLink, documents, doubts
    <3> QED
      BY <1>1, <2>3, <2>4, <3>1 DEF CanLink, LinkingOK, Sure, RowsOf
  <2> QED
    BY <2>1, <2>5, <2>6, <2>7
<1> QED
  BY <1>3, <1>4

\* An object is deleted for the one row that names it.
LEMMA UnstoringStep ==
  ASSUME Inv, [DocumentsNext]_documentsVars, NEW w \in Handlers
  PROVE  UnstoringOK(w)'
<1>1. /\ DocumentsTypeOK /\ UnstoringOK(w) /\ RowsOK
      /\ \A v \in Handlers : InsertingOK(v)
  BY DEF Inv
<1> DEFINE q == handling'[w]
<1> SUFFICES ASSUME q.pc = "unstoring"
             PROVE  /\ q.doc \in given'
                    /\ q.key \in ObjectKeys
                    /\ file'[q.doc] = q.key
                    /\ q.key \notin {NoKey} \cup mayMiss' =>
                        \A d \in rows' : file'[d] = q.key => d = q.doc
  BY DEF UnstoringOK, At, Sure, RowsOf
<1>2. q.key \notin mayMiss' => q.key \notin mayMiss
  BY <1>1, Growing
<1>3. CASE q = handling[w]
  <2>1. /\ q.doc \in given
        /\ q.key \in ObjectKeys
        /\ file[q.doc] = q.key
        /\ q.key \notin {NoKey} \cup mayMiss =>
            \A d \in rows : file[d] = q.key => d = q.doc
    BY <1>1, <1>3 DEF UnstoringOK, At, Sure, RowsOf
  <2>2. q.doc \in given' /\ file'[q.doc] = q.key
    BY <1>1, <2>1, Growing, FilesStay
  <2>3. ASSUME q.key \notin {NoKey} \cup mayMiss', NEW d \in rows', file'[d] = q.key
        PROVE  d = q.doc
    <3>1. CASE d \in rows
      BY <1>1, <1>2, <2>1, <2>3, <3>1, FilesStay DEF DocumentsTypeOK
    <3>2. CASE d \notin rows
      <4>1. PICK u \in Handlers : /\ At(u, "inserting") /\ handling'[u].pc # "inserting"
                                 /\ file'[d] = handling[u].key
        BY <1>1, <3>2, RowsNew
      <4>2. u # w
        BY <1>3, <4>1 DEF At
      <4> QED
        BY <1>1, <1>2, <1>3, <2>3, <4>1, <4>2 DEF InsertingOK, Sure
    <3> QED
      BY <3>1, <3>2
  <2> QED
    BY <2>1, <2>2, <2>3
<1>4. CASE q # handling[w]
  <2>1. ReadKey(w)
    BY <1>1, <1>4, Entering
  <2>2. PICK d \in rows :
            q = Deletion(IF file[d] = NoKey THEN "removing" ELSE "unstoring", d, file[d])
    BY <1>1, <2>1, Beginning
  <2>3. q.doc = d /\ q.key = file[d] /\ file[d] # NoKey
    BY <2>2 DEF Deletion
  <2>4. rows' = rows /\ file' = file /\ given' = given /\ mayMiss' = mayMiss
    BY <2>1 DEF ReadKey, documents, doubts
  <2>5. d \in given /\ file[d] \in ObjectKeys
    BY <1>1, <2>3 DEF DocumentsTypeOK
  <2> QED
    BY <1>1, <2>3, <2>4, <2>5 DEF RowsOK, Sure
<1> QED
  BY <1>3, <1>4

\* A row is removed after its object.
LEMMA RemovingStep ==
  ASSUME Inv, [DocumentsNext]_documentsVars, NEW w \in Handlers
  PROVE  RemovingOK(w)'
<1>1. DocumentsTypeOK /\ RemovingOK(w) /\ UnstoringOK(w)
  BY DEF Inv
<1> DEFINE q == handling'[w]
<1> SUFFICES ASSUME q.pc = "removing"
             PROVE  /\ q.doc \in given'
                    /\ q.key \in {NoKey, file'[q.doc]}
                    /\ q.doc \in rows' /\ file'[q.doc] \notin {NoKey} \cup mayStray'
                            => file'[q.doc] \notin objects'
  BY DEF RemovingOK, At, Clean
<1>2. CASE q = handling[w]
  <2>1. /\ q.doc \in given
        /\ q.key \in {NoKey, file[q.doc]}
        /\ q.doc \in rows /\ file[q.doc] \notin {NoKey} \cup mayStray
                => file[q.doc] \notin objects
    BY <1>1, <1>2 DEF RemovingOK, At, Clean
  <2>2. q.doc \in given' /\ file'[q.doc] = file[q.doc]
    BY <1>1, <2>1, Growing, FilesStay
  <2>3. ASSUME q.doc \in rows', file[q.doc] \notin {NoKey} \cup mayStray',
               file[q.doc] \in objects'
        PROVE  FALSE
    <3>1. q.doc \in rows
      BY <1>1, <2>1, <2>3, RowsNew
    <3>2. file[q.doc] \notin objects
      BY <1>1, <2>1, <2>3, <3>1, Growing
    <3>3. PICK u \in Handlers : Upload(u) /\ file[q.doc] = clock
      BY <1>1, <2>3, <3>2, ObjectsNew
    <3>4. InUse(clock)
      BY <2>3, <3>1, <3>3 DEF InUse, FilesOf
    <3> QED
      BY <2>3, <3>3, <3>4 DEF Upload, MayStray
  <2> QED
    BY <2>1, <2>2, <2>3
<1>3. CASE q # handling[w]
  <2>1. ReadKey(w) \/ ReadKeyFails(w) \/ DeleteObject(w) \/ DeleteObjectFails(w)
    BY <1>1, <1>3, Entering
  <2>2. CASE ReadKey(w)
    <3>1. PICK d \in rows :
            q = Deletion(IF file[d] = NoKey THEN "removing" ELSE "unstoring", d, file[d])
      BY <1>1, <2>2, Beginning
    <3>2. q.doc = d /\ q.key = file[d] /\ file[d] = NoKey
      BY <3>1 DEF Deletion
    <3> QED
      BY <1>1, <2>2, <3>2 DEF ReadKey, documents, DocumentsTypeOK
  <2>3. CASE ReadKeyFails(w)
    <3>1. PICK d \in rows : Step(w, Deletion("removing", d, NoKey))
                            /\ MayStray({file[d]} \ {NoKey})
      BY <2>3 DEF ReadKeyFails
    <3>2. q = Deletion("removing", d, NoKey)
      BY <1>1, <3>1, Local
    <3>3. q.doc = d /\ q.key = NoKey
      BY <3>2 DEF Deletion
    <3>4. file' = file /\ given' = given
      BY <2>3 DEF ReadKeyFails, documents
    <3> QED
      BY <1>1, <3>1, <3>3, <3>4 DEF MayStray, DocumentsTypeOK
  <2>4. CASE DeleteObject(w) \/ DeleteObjectFails(w)
    <3>1. /\ At(w, "unstoring")
          /\ q.doc = handling[w].doc /\ q.key = handling[w].key
      BY <1>1, <2>4 DEF DeleteObject, DeleteObjectFails, Goto, Step, DocumentsTypeOK, Handling
    <3>2. q.doc \in given /\ file[q.doc] = q.key
      BY <1>1, <3>1 DEF UnstoringOK
    <3>3. file' = file /\ given' = given
      BY <2>4 DEF DeleteObject, DeleteObjectFails, documents
    <3>4. objects' = objects \ {q.key} \/ q.key \in mayStray'
      BY <2>4, <3>1 DEF DeleteObject, DeleteObjectFails, MayStray
    <3> QED
      BY <3>2, <3>3, <3>4
  <2> QED
    BY <2>1, <2>2, <2>3, <2>4
<1> QED
  BY <1>2, <1>3

\* The keys a record's delete has read are those of the record's documents.
LEMMA UnlistingStep ==
  ASSUME Inv, [DocumentsNext]_documentsVars, NEW w \in Handlers
  PROVE  UnlistingOK(w)'
<1>1. DocumentsTypeOK /\ UnlistingOK(w) /\ RowsOK /\ CrossedOK
  BY DEF Inv
<1>2. \A v \in Handlers : InsertingOK(v) /\ LinkingOK(v) /\ DroppingOK(v)
  BY DEF Inv
<1> DEFINE q == handling'[w]
<1> SUFFICES ASSUME q.pc = "unlisting"
             PROVE  /\ q.record \in Records
                    /\ \A d \in rows' :
                        /\ file'[d] \in q.keys /\ file'[d] \notin {NoKey} \cup mayMiss'
                                => link'[d] = q.record
                        /\ link'[d] = q.record /\ file'[d] \notin {NoKey} \cup mayStray'
                                => file'[d] \in q.keys
  BY DEF UnlistingOK, At, Sure, Clean
<1>3. /\ \A k : k \notin mayMiss' => k \notin mayMiss
      /\ \A k : k \notin mayStray' => k \notin mayStray
  BY <1>1, Growing
<1>4. CASE q = handling[w]
  <2>1. /\ q.record \in Records
        /\ \A d \in rows :
            /\ file[d] \in q.keys /\ file[d] \notin {NoKey} \cup mayMiss
                    => link[d] = q.record
            /\ link[d] = q.record /\ file[d] \notin {NoKey} \cup mayStray
                    => file[d] \in q.keys
    BY <1>1, <1>4 DEF UnlistingOK, At, Sure, Clean
  <2>2. q.record # NoRecord
    BY <2>1, NullsApart
  <2>3. ASSUME NEW d \in rows' \cap rows,
               file'[d] \in q.keys, file'[d] \notin {NoKey} \cup mayMiss'
        PROVE  link'[d] = q.record
    <3>1. d \in DocumentIds /\ file'[d] = file[d] /\ link[d] = q.record
      BY <1>1, <1>3, <2>1, <2>3, FilesStay DEF DocumentsTypeOK
    <3>2. ASSUME NEW u \in Handlers, At(u, "dropping"), handling[u].record = link[d]
          PROVE  FALSE
      BY <1>2, <1>3, <2>3, <3>1, <3>2 DEF DroppingOK, Sure
    <3>3. ASSUME NEW u \in Handlers, At(u, "linking"), handling[u].doc = d
          PROVE  FALSE
      BY <1>2, <2>2, <3>1, <3>3 DEF LinkingOK
    <3> QED
      BY <1>1, <2>3, <3>1, <3>2, <3>3, LinksStep
  <2>4. ASSUME NEW d \in rows' \cap rows,
               link'[d] = q.record, file'[d] \notin {NoKey} \cup mayStray'
        PROVE  file'[d] \in q.keys
    <3>1. d \in DocumentIds /\ file'[d] = file[d]
      BY <1>1, FilesStay DEF DocumentsTypeOK
    <3>2. ASSUME NEW u \in Handlers, At(u, "linking"), handling[u].doc = d,
                 link'[d] = handling[u].record
          PROVE  FALSE
      <4>1. handling[u].key = file[d]
        BY <1>2, <3>2 DEF LinkingOK
      <4> QED
        BY <1>1, <1>3, <1>4, <2>4, <3>1, <3>2, <4>1 DEF CrossedOK, At, Clean
    <3>3. link[d] = q.record
      BY <1>1, <2>2, <2>4, <3>1, <3>2, LinksStep
    <3> QED
      BY <1>3, <2>1, <2>4, <3>1, <3>3
  <2>5. ASSUME NEW d \in rows' \ rows
        PROVE  /\ file'[d] \in q.keys => file'[d] \in {NoKey} \cup mayMiss'
               /\ link'[d] # q.record
    <3>1. PICK u \in Handlers : At(u, "inserting") /\ file'[d] = handling[u].key
      BY <1>1, RowsNew
    <3>2. file'[d] \in q.keys => file'[d] \in {NoKey} \cup mayMiss'
      BY <1>2, <1>3, <1>4, <3>1 DEF InsertingOK, Sure
    <3>3. link'[d] = NoRecord
      BY <1>1, RowsNew DEF RowsOK
    <3> QED
      BY <2>2, <3>2, <3>3
  <2> QED
    BY <2>1, <2>3, <2>4, <2>5
<1>5. CASE q # handling[w]
  <2>1. ReadKeys(w)
    BY <1>1, <1>5, Entering
  <2>2. PICK r \in made : q = Clearance(r, FilesOf(DocsOf(r)))
    BY <1>1, <2>1, Beginning
  <2>3. q.record = r /\ q.keys = FilesOf(DocsOf(r)) /\ r \in Records
    BY <1>1, <2>2 DEF Clearance, DocumentsTypeOK
  <2>4. rows' = rows /\ file' = file /\ link' = link
    BY <2>1 DEF ReadKeys, documents
  <2>5. ASSUME NEW d \in rows, file[d] \in q.keys, file[d] \notin {NoKey} \cup mayMiss'
        PROVE  link[d] = r
    BY <1>1, <1>3, <2>3, <2>5 DEF FilesOf, DocsOf, RowsOK, Sure
  <2>6. ASSUME NEW d \in rows, link[d] = r, file[d] # NoKey
        PROVE  file[d] \in q.keys
    BY <2>3, <2>6 DEF FilesOf, DocsOf
  <2> QED
    BY <2>3, <2>4, <2>5, <2>6
<1> QED
  BY <1>4, <1>5

\* After the documents are deleted, those linked to the record are in doubt.
LEMMA DroppingStep ==
  ASSUME Inv, [DocumentsNext]_documentsVars, NEW w \in Handlers
  PROVE  DroppingOK(w)'
<1>1. DocumentsTypeOK /\ DroppingOK(w) /\ UnlistingOK(w) /\ RowsOK /\ CrossedOK
  BY DEF Inv
<1>2. \A v \in Handlers : LinkingOK(v)
  BY DEF Inv
<1> DEFINE q == handling'[w]
<1> SUFFICES ASSUME q.pc = "dropping"
             PROVE  /\ q.record \in Records
                    /\ \A d \in rows' :
                        link'[d] = q.record =>
                            /\ file'[d] \in {NoKey} \cup mayMiss'
                            /\ file'[d] \in {NoKey} \cup mayStray'
  BY DEF DroppingOK, At, Sure, Clean
<1>3. mayMiss \subseteq mayMiss' /\ mayStray \subseteq mayStray'
  BY <1>1, Growing
<1>4. CASE q = handling[w]
  <2>1. /\ q.record \in Records
        /\ \A d \in rows : link[d] = q.record =>
            file[d] \in {NoKey} \cup mayMiss /\ file[d] \in {NoKey} \cup mayStray
    BY <1>1, <1>4 DEF DroppingOK, At, Sure, Clean
  <2>2. q.record # NoRecord
    BY <2>1, NullsApart
  <2>3. ASSUME NEW d \in rows' \cap rows, link'[d] = q.record
        PROVE  /\ file'[d] \in {NoKey} \cup mayMiss'
               /\ file'[d] \in {NoKey} \cup mayStray'
    <3>1. d \in DocumentIds /\ file'[d] = file[d]
      BY <1>1, FilesStay DEF DocumentsTypeOK
    <3>2. CASE link[d] = q.record
      BY <1>3, <2>1, <3>1, <3>2
    <3>3. CASE link[d] # q.record
      <4>1. PICK u \in Handlers : /\ At(u, "linking") /\ handling[u].doc = d
                                 /\ link'[d] = handling[u].record
        BY <1>1, <2>2, <2>3, <3>1, <3>3, LinksStep
      <4>2. handling[u].key = file[d]
        BY <1>2, <4>1 DEF LinkingOK
      <4> QED
        BY <1>1, <1>3, <1>4, <2>3, <3>1, <4>1, <4>2 DEF CrossedOK, At, Sure, Clean
    <3> QED
      BY <3>2, <3>3
  <2>4. ASSUME NEW d \in rows' \ rows PROVE link'[d] # q.record
    BY <1>1, <2>2, RowsNew DEF RowsOK
  <2> QED
    BY <2>1, <2>3, <2>4
<1>5. CASE q # handling[w]
  <2>1. DeleteDocs(w)
    BY <1>1, <1>5, Entering
  <2>2. q.record = handling[w].record
    BY <1>1, <2>1 DEF DeleteDocs, Goto, Step, DocumentsTypeOK, Handling
  <2>3. q.record \in Records
    BY <1>1, <2>1, <2>2 DEF DeleteDocs, UnlistingOK
  <2>4. \A d \in rows' : d \in rows \ DocsOf(q.record) /\ link'[d] = link[d]
    BY <1>1, <2>1, <2>2 DEF DeleteDocs, WithoutDocsOf, DocumentsTypeOK
  <2> QED
    BY <2>3, <2>4 DEF DocsOf
<1> QED
  BY <1>4, <1>5

\* The objects a record's delete still has to delete are in doubt or rowless.
LEMMA SweepingStep ==
  ASSUME Inv, [DocumentsNext]_documentsVars, NEW w \in Handlers
  PROVE  SweepingOK(w)'
<1>1. DocumentsTypeOK /\ SweepingOK(w) /\ UnlistingOK(w)
  BY DEF Inv
<1>2. \A v \in Handlers : InsertingOK(v)
  BY DEF Inv
<1> DEFINE q == handling'[w]
<1> SUFFICES ASSUME q.pc \in {"dropping", "sweeping"}, NEW d \in rows',
                    file'[d] \in q.keys, file'[d] \notin {NoKey} \cup mayMiss'
             PROVE  FALSE
  BY DEF SweepingOK, Sure
<1>3. file'[d] \notin {NoKey} \cup mayMiss
  BY <1>1, Growing
<1>4. CASE q = handling[w]
  <2>1. CASE d \in rows
    <3>1. file'[d] = file[d]
      BY <1>1, <2>1, FilesStay DEF DocumentsTypeOK
    <3> QED
      BY <1>1, <1>3, <1>4, <2>1, <3>1 DEF SweepingOK, Sure
  <2>2. CASE d \notin rows
    <3>1. PICK u \in Handlers : At(u, "inserting") /\ file'[d] = handling[u].key
      BY <1>1, <2>2, RowsNew
    <3> QED
      BY <1>2, <1>3, <1>4, <3>1 DEF InsertingOK, Sure
  <2> QED
    BY <2>1, <2>2
<1>5. CASE q # handling[w]
  <2>1. DeleteDocs(w) \/ DeleteRecord(w) \/ Sweep(w)
    BY <1>1, <1>5, Entering
  <2>2. CASE DeleteDocs(w)
    <3>1. At(w, "unlisting") /\ q.keys = handling[w].keys
      BY <1>1, <2>2 DEF DeleteDocs, Goto, Step, DocumentsTypeOK, Handling
    <3>2. d \in rows \ DocsOf(handling[w].record) /\ file' = file
      BY <2>2 DEF DeleteDocs, WithoutDocsOf
    <3> QED
      BY <1>1, <1>3, <3>1, <3>2 DEF UnlistingOK, Sure, DocsOf
  <2>3. CASE DeleteRecord(w) \/ Sweep(w)
    <3>1. handling[w].pc \in {"dropping", "sweeping"} /\ q.keys \subseteq handling[w].keys
      <4>1. CASE DeleteRecord(w)
        BY <1>1, <4>1 DEF DeleteRecord, Goto, Step, At, DocumentsTypeOK, Handling
      <4>2. CASE Sweep(w)
        <5>1. PICK k \in handling[w].keys :
                Step(w, [handling[w] EXCEPT !.keys = @ \ {k}])
          BY <4>2 DEF Sweep
        <5>2. q = [handling[w] EXCEPT !.keys = @ \ {k}] /\ handling[w] \in Handling
          BY <1>1, <5>1, Local DEF DocumentsTypeOK
        <5> QED
          BY <4>2, <5>2 DEF Sweep, At, Handling
      <4> QED
        BY <2>3, <4>1, <4>2
    <3>2. rows' = rows /\ file' = file
      BY <2>3 DEF DeleteRecord, Sweep, documents
    <3> QED
      BY <1>1, <1>3, <3>1, <3>2 DEF SweepingOK, Sure
  <2> QED
    BY <2>1, <2>2, <2>3
<1> QED
  BY <1>4, <1>5

\* Adds and deletes of one record that cross put the document in doubt.
LEMMA CrossedStep ==
  ASSUME Inv, [DocumentsNext]_documentsVars
  PROVE  CrossedOK'
<1>1. DocumentsTypeOK /\ CrossedOK
  BY DEF Inv
<1> SUFFICES ASSUME NEW v \in Handlers, NEW w \in Handlers,
                    handling'[v].pc \in {"inserting", "linking"},
                    handling'[w].pc \in {"unlisting", "dropping"},
                    handling'[v].record = handling'[w].record
             PROVE  handling'[v].key \in {NoKey} \cup (mayMiss' \cap mayStray')
  BY DEF CrossedOK, Sure, Clean
<1>2. v # w
  OBVIOUS
<1>3. mayMiss \subseteq mayMiss' /\ mayStray \subseteq mayStray'
  BY <1>1, Growing
<1>4. ASSUME handling[v].pc \in {"inserting", "linking"},
             handling[w].pc \in {"unlisting", "dropping"},
             handling[v].record = handling[w].record,
             handling'[v].key = handling[v].key
      PROVE  handling'[v].key \in {NoKey} \cup (mayMiss' \cap mayStray')
  BY <1>1, <1>3, <1>4 DEF CrossedOK, Sure, Clean
<1>5. CASE handling'[v] # handling[v]
  <2>1. AddWithoutFile(v) \/ Upload(v) \/ InsertRow(v)
    BY <1>1, <1>5, Entering
  <2>2. handling'[w] = handling[w]
    BY <1>1, <1>2, <2>1, OneAtATime DEF Add
  <2>3. CASE AddWithoutFile(v)
    BY <1>1, <2>3, BeginningAt
  <2>4. CASE Upload(v)
    <3>1. PICK r \in made \cup {NoRecord} :
            /\ Step(v, Addition(r, clock))
            /\ BeingDeleted(r) => clock \in mayMiss' /\ clock \in mayStray'
      BY <2>4 DEF Upload, MayMiss, MayStray
    <3>2. handling'[v] = Addition(r, clock)
      BY <1>1, <3>1, Local
    <3>3. handling'[v].record = r /\ handling'[v].key = clock
      BY <3>2 DEF Addition
    <3>4. BeingDeleted(r)
      BY <2>2, <3>3 DEF BeingDeleted
    <3> QED
      BY <3>1, <3>3, <3>4
  <2>5. CASE InsertRow(v)
    <3>1. PICK d \in DocumentIds :
            handling'[v] = Connection(handling[v].record, d, handling[v].key)
      BY <1>1, <2>5, Beginning
    <3>2. handling'[v].record = handling[v].record /\ handling'[v].key = handling[v].key
      BY <3>1 DEF Connection
    <3> QED
      BY <1>4, <2>2, <2>5, <3>2 DEF InsertRow, At
  <2> QED
    BY <2>1, <2>3, <2>4, <2>5
<1>6. CASE handling'[v] = handling[v] /\ handling'[w] # handling[w]
  <2>1. ReadKeys(w) \/ DeleteDocs(w)
    BY <1>1, <1>6, Entering
  <2>2. CASE ReadKeys(w)
    <3>1. PICK r \in made : /\ Step(w, Clearance(r, FilesOf(DocsOf(r))))
                            /\ MayMiss(BeingAddedTo(r)) /\ MayStray(BeingAddedTo(r))
      BY <2>2 DEF ReadKeys
    <3>2. handling'[w] = Clearance(r, FilesOf(DocsOf(r)))
      BY <1>1, <3>1, Local
    <3>3. handling'[w].record = r
      BY <3>2 DEF Clearance
    <3>4. handling[v].key \in {NoKey} \cup BeingAddedTo(r)
      BY <1>6, <3>3 DEF BeingAddedTo
    <3> QED
      BY <1>6, <3>1, <3>4 DEF MayMiss, MayStray
  <2>3. CASE DeleteDocs(w)
    <3>1. At(w, "unlisting") /\ handling'[w].record = handling[w].record
      BY <1>1, <2>3 DEF DeleteDocs, Goto, Step, DocumentsTypeOK, Handling
    <3> QED
      BY <1>4, <1>6, <3>1 DEF At
  <2> QED
    BY <2>1, <2>2, <2>3
<1>7. CASE handling'[v] = handling[v] /\ handling'[w] = handling[w]
  BY <1>4, <1>7
<1> QED
  BY <1>5, <1>6, <1>7

\* A new row has a name of its own.
LEMMA RowsStep ==
  ASSUME Inv, [DocumentsNext]_documentsVars
  PROVE  RowsOK'
<1>1. DocumentsTypeOK /\ RowsOK /\ (\A w \in Handlers : InsertingOK(w) /\ LinkingOK(w))
  BY DEF Inv
<1>2. \A k : k \notin mayMiss' => k \notin mayMiss
  BY <1>1, Growing
<1>3. ASSUME NEW d \in rows' \ rows, NEW e \in rows,
             file'[d] = file'[e], file'[d] \notin {NoKey} \cup mayMiss'
      PROVE  FALSE
  <2>1. PICK w \in Handlers : At(w, "inserting") /\ file'[d] = handling[w].key
    BY <1>1, RowsNew
  <2>2. file[e] = handling[w].key
    BY <1>1, <1>3, <2>1, FilesStay DEF DocumentsTypeOK
  <2> QED
    BY <1>1, <1>2, <1>3, <2>1, <2>2 DEF InsertingOK, Sure, RowsOf
<1>4. ASSUME NEW d \in rows', NEW e \in rows',
             file'[d] = file'[e], file'[d] \notin {NoKey} \cup mayMiss'
      PROVE  d = e
  <2>1. CASE d \in rows /\ e \in rows
    <3>1. file'[d] = file[d] /\ file'[e] = file[e]
      BY <1>1, <2>1, FilesStay DEF DocumentsTypeOK
    <3> QED
      BY <1>1, <1>2, <1>4, <2>1, <3>1 DEF RowsOK, Sure
  <2>2. CASE d \notin rows /\ e \notin rows
    BY <1>1, <2>2, RowsNew
  <2>3. CASE d \in rows /\ e \notin rows
    BY <1>3, <1>4, <2>3
  <2>4. CASE d \notin rows /\ e \in rows
    BY <1>3, <1>4, <2>4
  <2> QED
    BY <2>1, <2>2, <2>3, <2>4
<1>5. ASSUME NEW d \in DocumentIds \ given' PROVE link'[d] = NoRecord
  <2>1. d \in DocumentIds \ given
    BY <1>1, Growing
  <2>2. link[d] = NoRecord
    BY <1>1, <2>1 DEF RowsOK
  <2>3. ASSUME NEW w \in Handlers, At(w, "linking"), handling[w].doc = d PROVE FALSE
    BY <1>1, <2>1, <2>3 DEF LinkingOK
  <2> QED
    BY <1>1, <2>2, <2>3, LinksStep
<1> QED
  BY <1>4, <1>5 DEF RowsOK, Sure

\* The files of rows are there, or on their way out with the row.
LEMMA FilesStep ==
  ASSUME Inv, [DocumentsNext]_documentsVars
  PROVE  FilesOK'
<1>1. /\ DocumentsTypeOK /\ FilesOK
      /\ \A w \in Handlers : /\ InsertingOK(w) /\ UndoingOK(w)
                            /\ UnstoringOK(w) /\ SweepingOK(w)
  BY DEF Inv
<1> SUFFICES ASSUME NEW d \in rows', file'[d] \notin {NoKey} \cup mayMiss'
             PROVE  \/ file'[d] \in objects'
                    \/ \E w \in Handlers :
                        /\ handling'[w].pc = "removing" /\ handling'[w].doc = d
                        /\ handling'[w].key = file'[d]
  BY DEF FilesOK, Sure, At
<1> DEFINE k == file'[d]
<1>2. k \notin {NoKey} \cup mayMiss
  BY <1>1, Growing
<1>3. CASE d \in rows
  <2>1. k = file[d]
    BY <1>1, <1>3, FilesStay DEF DocumentsTypeOK
  <2>2. CASE k \in objects
    <3>1. SUFFICES ASSUME k \notin objects'
                   PROVE  \E w \in Handlers :
                            /\ handling'[w].pc = "removing" /\ handling'[w].doc = d
                            /\ handling'[w].key = k
      OBVIOUS
    <3>2. PICK w \in Handlers :
            \/ At(w, "undoing") /\ handling[w].key = k
            \/ /\ At(w, "unstoring") /\ handling[w].key = k
               /\ handling'[w].pc = "removing" /\ handling'[w].key = k
               /\ handling'[w].doc = handling[w].doc
            \/ At(w, "sweeping") /\ k \in handling[w].keys
      BY <1>1, <2>2, <3>1, ObjectsGone
    <3>3. ~(At(w, "undoing") /\ handling[w].key = k)
      BY <1>1, <1>2, <1>3, <2>1 DEF UndoingOK, Sure, RowsOf
    <3>4. ~(At(w, "sweeping") /\ k \in handling[w].keys)
      BY <1>1, <1>2, <1>3, <2>1 DEF SweepingOK, At, Sure
    <3>5. At(w, "unstoring") /\ handling[w].key = k => handling[w].doc = d
      BY <1>1, <1>2, <1>3, <2>1 DEF UnstoringOK, Sure, RowsOf
    <3> QED
      BY <3>2, <3>3, <3>4, <3>5
  <2>3. CASE k \notin objects
    <3>1. PICK w \in Handlers : /\ At(w, "removing") /\ handling[w].doc = d
                               /\ handling[w].key = k
      BY <1>1, <1>2, <1>3, <2>1, <2>3 DEF FilesOK, Sure
    <3>2. handling'[w] = handling[w]
      BY <1>1, <3>1, LeavingRemoving
    <3> QED
      BY <3>1, <3>2 DEF At
  <2> QED
    BY <2>2, <2>3
<1>4. CASE d \notin rows
  <2>1. PICK u \in Handlers : /\ At(u, "inserting") /\ handling'[u].pc # "inserting"
                             /\ k = handling[u].key
    BY <1>1, <1>4, RowsNew
  <2>2. /\ k \in objects
        /\ \A v \in Handlers :
            /\ k \notin handling[v].keys
            /\ v # u => handling[v].key # k
    BY <1>1, <1>2, <2>1 DEF InsertingOK, Sure
  <2> QED
    BY <1>1, <2>1, <2>2, ObjectsGone DEF At
<1> QED
  BY <1>3, <1>4

\* No object is let go of while it is nobody else's.
LEMMA ObjectsStep ==
  ASSUME Inv, [DocumentsNext]_documentsVars
  PROVE  ObjectsOK'
<1>1. /\ DocumentsTypeOK /\ ObjectsOK
      /\ \A w \in Handlers : RemovingOK(w) /\ UnlistingOK(w)
  BY DEF Inv
<1> SUFFICES ASSUME NEW k \in objects', k \notin {NoKey} \cup mayStray',
                    \A d \in rows' : file'[d] # k
             PROVE  \E w \in Handlers : HeldBy(w, k)'
  BY DEF ObjectsOK, Clean, RowsOf
<1>2. k \notin {NoKey} \cup mayStray
  BY <1>1, Growing
<1>3. CASE k \notin objects
  <2>1. PICK w \in Handlers : Upload(w) /\ k = clock
    BY <1>1, <1>3, ObjectsNew
  <2>2. handling'[w].pc = "inserting" /\ handling'[w].key = k
    BY <1>1, <2>1, BeginningAt
  <2> QED
    BY <2>2 DEF HeldBy
<1>4. CASE k \in objects /\ RowsOf(k) # {}
  <2>1. PICK d \in rows : file[d] = k
    BY <1>4 DEF RowsOf
  <2>2. d \in rows \ rows'
    BY <1>1, <2>1, FilesStay DEF DocumentsTypeOK
  <2>3. PICK w \in Handlers :
          \/ At(w, "removing") /\ handling[w].doc = d
          \/ /\ At(w, "unlisting") /\ link[d] = handling[w].record
             /\ \/ handling[w].keys \subseteq mayStray'
                \/ handling'[w].pc = "dropping" /\ handling'[w].keys = handling[w].keys
    BY <1>1, <2>2, RowsGone
  <2>4. ~(At(w, "removing") /\ handling[w].doc = d)
    BY <1>1, <1>2, <1>4, <2>1 DEF RemovingOK, Clean
  <2>5. At(w, "unlisting") /\ link[d] = handling[w].record => k \in handling[w].keys
    BY <1>1, <1>2, <2>1 DEF UnlistingOK, Clean
  <2> QED
    BY <2>3, <2>4, <2>5 DEF HeldBy
<1>5. CASE k \in objects /\ RowsOf(k) = {}
  <2>1. PICK w \in Handlers : HeldBy(w, k)
    BY <1>1, <1>2, <1>5 DEF ObjectsOK, Clean
  <2> QED
    BY <1>1, <1>2, <1>5, <2>1, LettingGo
<1> QED
  BY <1>3, <1>4, <1>5

-----------------------------------------------------------------------------
\* Nothing is there at first.
LEMMA InvInit == DocumentsInit => Inv
<1> SUFFICES ASSUME DocumentsInit PROVE Inv
  OBVIOUS
<1>1. \A w \in Handlers : handling[w] = NoRequest
  BY DEF DocumentsInit
<1>2. DocumentsTypeOK
  BY DocumentsAssumption, NoRequestIsHandling DEF DocumentsInit, DocumentsTypeOK, ObjectKeys
<1>3. ASSUME NEW w \in Handlers
      PROVE  /\ InsertingOK(w) /\ LinkingOK(w) /\ UndoingOK(w)
             /\ UnstoringOK(w) /\ RemovingOK(w)
             /\ UnlistingOK(w) /\ DroppingOK(w) /\ SweepingOK(w)
  <2>1. handling[w].pc = "idle"
    BY <1>1 DEF NoRequest
  <2> QED
    BY <2>1 DEF InsertingOK, LinkingOK, UndoingOK, UnstoringOK, RemovingOK,
                UnlistingOK, DroppingOK, SweepingOK, At
<1>4. CrossedOK
  BY <1>1 DEF CrossedOK, NoRequest
<1>5. RowsOK /\ FilesOK /\ ObjectsOK
  BY DEF DocumentsInit, RowsOK, FilesOK, ObjectsOK
<1> QED
  BY <1>2, <1>3, <1>4, <1>5 DEF Inv

\* The parts of the invariant, together.
LEMMA InvStep == Inv /\ [DocumentsNext]_documentsVars => Inv'
<1> SUFFICES ASSUME Inv, [DocumentsNext]_documentsVars PROVE Inv'
  OBVIOUS
<1>1. DocumentsTypeOK'
  BY TypeOKStep
<1>2. ASSUME NEW w \in Handlers
      PROVE  /\ InsertingOK(w)' /\ LinkingOK(w)' /\ UndoingOK(w)'
             /\ UnstoringOK(w)' /\ RemovingOK(w)'
             /\ UnlistingOK(w)' /\ DroppingOK(w)' /\ SweepingOK(w)'
  BY InsertingStep, LinkingStep, UndoingStep, UnstoringStep, RemovingStep,
     UnlistingStep, DroppingStep, SweepingStep
<1>3. CrossedOK' /\ RowsOK' /\ FilesOK' /\ ObjectsOK'
  BY CrossedStep, RowsStep, FilesStep, ObjectsStep
<1> QED
  BY <1>1, <1>2, <1>3 DEF Inv

\* The invariant always holds.
LEMMA InvAlways == DocumentsSpec => []Inv
<1> QED
  BY InvInit, InvStep, PTL DEF DocumentsSpec

\* What the requests hold, the bucket holds and the rows name always has its
\* type.  It takes that an undo and a delete of an object have its name
\* (handler.go:4607, 4626): a document may have no file.
THEOREM TypeOKAlways == DocumentsSpec => []DocumentsTypeOK
<1>1. Inv => DocumentsTypeOK
  BY DEF Inv
<1> QED
  BY <1>1, InvAlways, PTL

\* However requests interleave, fail and are cut short, the file of a document
\* is lost in no other way than those FilesOfRowsExist names
\* (handler.go:4596, 4631).
THEOREM FilesOfRowsAlwaysExist == DocumentsSpec => []FilesOfRowsExist
<1>1. Inv => FilesOfRowsExist
  <2> SUFFICES ASSUME Inv, NEW d \in rows, file[d] \notin {NoKey} \cup mayMiss \cup objects
               PROVE  \E w \in Handlers : At(w, "removing") /\ handling[w].doc = d
    BY DEF FilesOfRowsExist
  <2> QED
    BY DEF Inv, FilesOK, Sure
<1> QED
  BY <1>1, InvAlways, PTL

\* However requests interleave, fail and are cut short, an object is left
\* behind in no other way than those NothingLeftBehind names
\* (store.go:4274, handler.go:4608).
THEOREM NothingEverLeftBehind == DocumentsSpec => []NothingLeftBehind
<1>1. Inv => NothingLeftBehind
  <2> SUFFICES ASSUME Inv, NEW k \in objects, k \notin mayStray
               PROVE  \/ k \in FilesOf(rows)
                      \/ \E w \in HoldingAny({"inserting", "undoing"}) : handling[w].key = k
                      \/ \E w \in HoldingAny({"dropping", "sweeping"}) : k \in handling[w].keys
    BY DEF NothingLeftBehind
  <2>1. k # NoKey
    BY NullsApart DEF Inv, DocumentsTypeOK
  <2>2. RowsOf(k) # {} \/ \E w \in Handlers : HeldBy(w, k)
    BY <2>1 DEF Inv, ObjectsOK, Clean
  <2> QED
    BY <2>1, <2>2 DEF RowsOf, HeldBy, FilesOf, HoldingAny
<1> QED
  BY <1>1, InvAlways, PTL
=============================================================================
