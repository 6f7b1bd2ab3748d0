------------------------------ MODULE Documents ------------------------------
(***************************************************************************)
(* A teacher's evidence documents: rows in PostgreSQL, files in the bucket *)
(* of an object store, and requests that change one and then the other.    *)
(*                                                                         *)
(* No transaction holds the two together, nor the statements of one        *)
(* request.  A document belongs to an evidence record (a qualification, a  *)
(* credential, evidence of practice or of industry currency) or, when it   *)
(* was uploaded to the library, to none; a published profile is a library  *)
(* document here.  The name of an object is made of the teacher, the kind, *)
(* the second of the upload and the file's name: uploads of one file in    *)
(* one second share it.  A call fails with or without its effect: the      *)
(* answer can be lost, and a request's context ends when the client leaves.*)
(***************************************************************************)
EXTENDS Integers

CONSTANTS
    Handlers,     \* bound: requests under way at once
    Records,      \* bound: the evidence records ever made
    DocumentIds,  \* bound: the document rows ever inserted (a bigserial)
    MaxSecond,    \* bound: the seconds in which uploads arrive
    NoKey, NoId, NoRecord

ObjectKeys == 1 .. MaxSecond  \* the second stands for the object's name

ASSUME DocumentsAssumption ==
    /\ MaxSecond \in Nat \ {0}
    /\ NoKey \notin ObjectKeys
    /\ NoId \notin DocumentIds
    /\ NoRecord \notin Records

VARIABLES
    clock,      \* time.Now, in seconds
    objects,    \* the bucket
    made,       \* the records ever inserted
    records,    \* the records that exist
    given,      \* the ids the sequence has given
    rows,       \* the rows of teacher_documents
    file,       \* document_url of each row
    link,       \* its teacher_document_connections row, if any
    handling,   \* what each of Handlers is at
    mayMiss,    \* history: files that may be gone while their row is there
    mayStray    \* history: files that may stay when their row is gone

documents == <<given, rows, file, link>>
doubts == <<mayMiss, mayStray>>
documentsVars == <<clock, objects, made, records, documents, handling, doubts>>

NoRequest == [pc |-> "idle", record |-> NoRecord, doc |-> NoId, key |-> NoKey, keys |-> {}]

Handling ==
    [pc: {"idle",
          "inserting", "linking", "undoing",      \* adding a document
          "unstoring", "removing",                \* deleting a document
          "unlisting", "dropping", "sweeping"},   \* deleting a record
     record: Records \cup {NoRecord},
     doc: DocumentIds \cup {NoId},
     key: ObjectKeys \cup {NoKey},
     keys: SUBSET ObjectKeys]

DocumentsTypeOK ==
    /\ clock \in ObjectKeys
    /\ objects \in SUBSET ObjectKeys
    /\ made \in SUBSET Records /\ records \in SUBSET made
    /\ given \in SUBSET DocumentIds /\ rows \in SUBSET given
    /\ file \in [DocumentIds -> ObjectKeys \cup {NoKey}]
    /\ link \in [DocumentIds -> Records \cup {NoRecord}]
    /\ handling \in [Handlers -> Handling]
    /\ mayMiss \in SUBSET ObjectKeys /\ mayStray \in SUBSET ObjectKeys

DocumentsInit ==
    /\ clock = 1
    /\ objects = {}
    /\ made = {} /\ records = {}
    /\ given = {} /\ rows = {}
    /\ file = [d \in DocumentIds |-> NoKey]
    /\ link = [d \in DocumentIds |-> NoRecord]
    /\ handling = [w \in Handlers |-> NoRequest]
    /\ mayMiss = {} /\ mayStray = {}

-----------------------------------------------------------------------------
At(w, pc) == handling[w].pc = pc

Step(w, request) == handling' = [handling EXCEPT ![w] = request]

\* The requests, as they begin or, for a Connection, go on.
Addition(r, k) == [pc |-> "inserting", record |-> r, doc |-> NoId, key |-> k, keys |-> {}]
Connection(r, d, k) == [pc |-> "linking", record |-> r, doc |-> d, key |-> k, keys |-> {}]
Deletion(pc, d, k) == [pc |-> pc, record |-> NoRecord, doc |-> d, key |-> k, keys |-> {}]
Clearance(r, keys) ==
    [pc |-> "unlisting", record |-> r, doc |-> NoId, key |-> NoKey, keys |-> keys]

Goto(w, pc) == Step(w, [handling[w] EXCEPT !.pc = pc])

FilesOf(docs) == {file[d] : d \in docs} \ {NoKey}

DocsOf(r) == {d \in rows : link[d] = r}

InUse(k) ==
    \/ k \in objects
    \/ k \in FilesOf(rows)
    \/ \E w \in Handlers : k = handling[w].key \/ k \in handling[w].keys

BeingDeleted(r) ==
    \E w \in Handlers :
        handling[w].record = r /\ handling[w].pc \in {"unlisting", "dropping"}

\* The objects of the documents being added to r.
BeingAddedTo(r) ==
    {handling[w].key : w \in {x \in Handlers :
        handling[x].record = r /\ handling[x].pc \in {"inserting", "linking"}}}
    \ {NoKey}

MayMiss(keys) == mayMiss' = mayMiss \cup keys
MayStray(keys) == mayStray' = mayStray \cup keys

\* Mutant: without the `if`.
UndoAlways(w) == Goto(w, "undoing")

\* The handlers' `if objectKey != ""` after an error: there may be no file.
Undo(w) == IF handling[w].key = NoKey THEN Step(w, NoRequest) ELSE Goto(w, "undoing")

KeyOf(w) == {handling[w].key} \ {NoKey}

-----------------------------------------------------------------------------
Tick ==
    /\ clock < MaxSecond
    /\ clock' = clock + 1
    /\ UNCHANGED <<objects, made, records, documents, handling, doubts>>

CreateRecord(r) ==
    /\ r \notin made
    /\ made' = made \cup {r}
    /\ records' = records \cup {r}
    /\ UNCHANGED <<clock, objects, documents, handling, doubts>>

(***************************************************************************)
(* Adding a document: the upload, the row, the connection, and on an error *)
(* of the last two the object is deleted.                                  *)
(***************************************************************************)

\* A link to another site instead of a file.
AddWithoutFile(w) ==
    /\ At(w, "idle")
    /\ \E r \in made \cup {NoRecord} : Step(w, Addition(r, NoKey))
    /\ UNCHANGED <<clock, objects, made, records, documents, doubts>>

\* An upload over an object in use, or next to a delete of the record, is
\* what puts a file in doubt without any failure.
Upload(w) ==
    /\ At(w, "idle")
    /\ \E r \in made \cup {NoRecord} :
        LET doubt == IF InUse(clock) \/ BeingDeleted(r) THEN {clock} ELSE {}
        IN  /\ Step(w, Addition(r, clock))
            /\ MayMiss(doubt)
            /\ MayStray(doubt)
    /\ objects' = objects \cup {clock}
    /\ UNCHANGED <<clock, made, records, documents>>

\* The upload reports an error; the object may be there all the same.
UploadFails(w) ==
    /\ At(w, "idle")
    /\ objects' = objects \cup {clock}
    /\ MayStray({clock})
    /\ UNCHANGED <<clock, made, records, documents, handling, mayMiss>>

InsertedAs(w, d) ==
    /\ d \notin given
    /\ given' = given \cup {d}
    /\ rows' = rows \cup {d}
    /\ file' = [file EXCEPT ![d] = handling[w].key]
    /\ UNCHANGED link

\* A library document is whole with its row.
InsertLibraryRow(w) ==
    /\ At(w, "inserting")
    /\ handling[w].record = NoRecord
    /\ \E d \in DocumentIds : InsertedAs(w, d)
    /\ Step(w, NoRequest)
    /\ UNCHANGED <<clock, objects, made, records, doubts>>

\* INSERT ... WHERE EXISTS the record.
InsertRow(w) ==
    /\ At(w, "inserting")
    /\ handling[w].record \in records
    /\ \E d \in DocumentIds :
        /\ InsertedAs(w, d)
        /\ Step(w, Connection(handling[w].record, d, handling[w].key))
    /\ UNCHANGED <<clock, objects, made, records, doubts>>

\* Mutant: the object stays when the record is not there.
RefuseAndKeep(w) ==
    /\ At(w, "inserting")
    /\ handling[w].record \notin records \cup {NoRecord}
    /\ Step(w, NoRequest)
    /\ UNCHANGED <<clock, objects, made, records, documents, doubts>>

\* No row is inserted (pgx.ErrNoRows), or the statement fails before it runs.
RefuseRow(w) ==
    /\ At(w, "inserting")
    /\ Undo(w)
    /\ UNCHANGED <<clock, objects, made, records, documents, doubts>>

\* The row is committed but the answer is lost.
InsertRowUnanswered(w) ==
    /\ At(w, "inserting")
    /\ handling[w].record \in records \cup {NoRecord}
    /\ \E d \in DocumentIds : InsertedAs(w, d)
    /\ Undo(w)
    /\ MayMiss(KeyOf(w))
    /\ UNCHANGED <<clock, objects, made, records, mayStray>>

\* The foreign keys of teacher_document_connections.
CanLink(w) == handling[w].record \in records /\ handling[w].doc \in rows

InsertLink(w) ==
    /\ At(w, "linking")
    /\ CanLink(w)
    /\ link' = [link EXCEPT ![handling[w].doc] = handling[w].record]
    /\ Step(w, NoRequest)
    /\ UNCHANGED <<clock, objects, made, records, given, rows, file, doubts>>

\* A foreign key refuses the connection: the object goes, the row stays.
RefuseLink(w) ==
    /\ At(w, "linking")
    /\ ~CanLink(w)
    /\ Undo(w)
    /\ UNCHANGED <<clock, objects, made, records, documents, doubts>>

\* The statement fails, before or after its commit.
InsertLinkFails(w) ==
    /\ At(w, "linking")
    /\ link' \in {link} \cup
            (IF CanLink(w) THEN {[link EXCEPT ![handling[w].doc] = handling[w].record]} ELSE {})
    /\ Undo(w)
    /\ MayMiss(KeyOf(w))
    /\ UNCHANGED <<clock, objects, made, records, given, rows, file, mayStray>>

UndoUpload(w) ==
    /\ At(w, "undoing")
    /\ objects' = objects \ {handling[w].key}
    /\ Step(w, NoRequest)
    /\ UNCHANGED <<clock, made, records, documents, doubts>>

\* `_ = h.storage.Delete`: its error is dropped.
UndoFails(w) ==
    /\ At(w, "undoing")
    /\ Step(w, NoRequest)
    /\ MayStray({handling[w].key})
    /\ UNCHANGED <<clock, objects, made, records, documents, mayMiss>>

(***************************************************************************)
(* Deleting a document: its key is read, the object is deleted, whatever   *)
(* the store answers, and then the row, with its connection.               *)
(***************************************************************************)
ReadKey(w) ==
    /\ At(w, "idle")
    /\ \E d \in rows :
        Step(w, Deletion(IF file[d] = NoKey THEN "removing" ELSE "unstoring", d, file[d]))
    /\ UNCHANGED <<clock, objects, made, records, documents, doubts>>

\* On the evidence pages an error of the read only skips the object.
ReadKeyFails(w) ==
    /\ At(w, "idle")
    /\ \E d \in rows :
        /\ Step(w, Deletion("removing", d, NoKey))
        /\ MayStray({file[d]} \ {NoKey})
    /\ UNCHANGED <<clock, objects, made, records, documents, mayMiss>>

DeleteObject(w) ==
    /\ At(w, "unstoring")
    /\ objects' = objects \ {handling[w].key}
    /\ Goto(w, "removing")
    /\ UNCHANGED <<clock, made, records, documents, doubts>>

DeleteObjectFails(w) ==
    /\ At(w, "unstoring")
    /\ Goto(w, "removing")
    /\ MayStray({handling[w].key})
    /\ UNCHANGED <<clock, objects, made, records, documents, mayMiss>>

DeleteRow(w) ==
    /\ At(w, "removing")
    /\ rows' = rows \ {handling[w].doc}
    /\ link' = [link EXCEPT ![handling[w].doc] = NoRecord]
    /\ Step(w, NoRequest)
    /\ UNCHANGED <<clock, objects, made, records, given, file, doubts>>

\* The row stays, and its file is gone.
DeleteRowFails(w) ==
    /\ At(w, "removing")
    /\ Step(w, NoRequest)
    /\ MayMiss(KeyOf(w))
    /\ UNCHANGED <<clock, objects, made, records, documents, mayStray>>

(***************************************************************************)
(* Deleting a record: the keys of its documents are read, the documents    *)
(* are deleted, chosen again, then the record, which leaves documents      *)
(* linked since without a connection, and last the objects.                *)
(***************************************************************************)

\* Mutant: the WHERE on the record is missing.
ReadAllKeys(w) ==
    /\ At(w, "idle")
    /\ \E r \in made :
        /\ Step(w, Clearance(r, FilesOf(rows)))
        /\ MayMiss(BeingAddedTo(r))
        /\ MayStray(BeingAddedTo(r))
    /\ UNCHANGED <<clock, objects, made, records, documents>>

\* A document being added to the record is in doubt from here.
ReadKeys(w) ==
    /\ At(w, "idle")
    /\ \E r \in made :
        /\ Step(w, Clearance(r, FilesOf(DocsOf(r))))
        /\ MayMiss(BeingAddedTo(r))
        /\ MayStray(BeingAddedTo(r))
    /\ UNCHANGED <<clock, objects, made, records, documents>>

WithoutDocsOf(r) ==
    /\ rows' = rows \ DocsOf(r)
    /\ link' = [d \in DocumentIds |-> IF d \in DocsOf(r) THEN NoRecord ELSE link[d]]

DeleteDocs(w) ==
    /\ At(w, "unlisting")
    /\ WithoutDocsOf(handling[w].record)
    /\ Goto(w, "dropping")
    /\ UNCHANGED <<clock, objects, made, records, given, file, doubts>>

\* The handler answers with an error and leaves the objects ...
DeleteDocsFails(w) ==
    /\ At(w, "unlisting")
    /\ Step(w, NoRequest)
    /\ UNCHANGED <<clock, objects, made, records, documents, doubts>>

\* ... also when the rows are gone.
DeleteDocsUnanswered(w) ==
    /\ At(w, "unlisting")
    /\ WithoutDocsOf(handling[w].record)
    /\ Step(w, NoRequest)
    /\ MayStray(handling[w].keys)
    /\ UNCHANGED <<clock, objects, made, records, given, file, mayMiss>>

WithoutRecord(r) ==
    /\ records' = records \ {r}
    /\ link' = [d \in DocumentIds |-> IF link[d] = r THEN NoRecord ELSE link[d]]

DeleteRecord(w) ==
    /\ At(w, "dropping")
    /\ WithoutRecord(handling[w].record)
    /\ Goto(w, "sweeping")
    /\ UNCHANGED <<clock, objects, made, given, rows, file, doubts>>

DeleteRecordFails(w) ==
    /\ At(w, "dropping")
    /\ \/ UNCHANGED <<records, link>>
       \/ WithoutRecord(handling[w].record)
    /\ Step(w, NoRequest)
    /\ MayStray(handling[w].keys)
    /\ UNCHANGED <<clock, objects, made, given, rows, file, mayMiss>>

\* The objects one by one; an error is logged and the next one follows.
Sweep(w) ==
    /\ At(w, "sweeping")
    /\ \E k \in handling[w].keys :
        /\ Step(w, [handling[w] EXCEPT !.keys = @ \ {k}])
        /\ \/ objects' = objects \ {k} /\ UNCHANGED mayStray
           \/ MayStray({k}) /\ UNCHANGED objects
    /\ UNCHANGED <<clock, made, records, documents, mayMiss>>

EndSweep(w) ==
    /\ At(w, "sweeping") /\ handling[w].keys = {}
    /\ Step(w, NoRequest)
    /\ UNCHANGED <<clock, objects, made, records, documents, doubts>>

-----------------------------------------------------------------------------
HoldingAny(pcs) == {w \in Handlers : handling[w].pc \in pcs}

\* The server stops; what a request had still to do is never done.
DocumentsRestart ==
    /\ handling' = [w \in Handlers |-> NoRequest]
    /\ MayMiss(UNION {KeyOf(w) : w \in HoldingAny({"removing"})})
    /\ MayStray(UNION {KeyOf(w) \cup handling[w].keys :
                        w \in HoldingAny({"inserting", "undoing", "dropping", "sweeping"})})
    /\ UNCHANGED <<clock, objects, made, records, documents>>

Add(w) ==
    \/ AddWithoutFile(w) \/ Upload(w) \/ UploadFails(w)
    \/ InsertLibraryRow(w) \/ InsertRow(w)
    \/ RefuseRow(w) \/ InsertRowUnanswered(w)
    \/ InsertLink(w) \/ RefuseLink(w) \/ InsertLinkFails(w)
    \/ UndoUpload(w) \/ UndoFails(w)

DeleteDocument(w) ==
    \/ ReadKey(w) \/ ReadKeyFails(w)
    \/ DeleteObject(w) \/ DeleteObjectFails(w)
    \/ DeleteRow(w) \/ DeleteRowFails(w)

DeleteWhole(w) ==
    \/ ReadKeys(w)
    \/ DeleteDocs(w) \/ DeleteDocsFails(w) \/ DeleteDocsUnanswered(w)
    \/ DeleteRecord(w) \/ DeleteRecordFails(w)
    \/ Sweep(w) \/ EndSweep(w)

DocumentsNext ==
    \/ Tick
    \/ \E r \in Records : CreateRecord(r)
    \/ \E w \in Handlers : Add(w) \/ DeleteDocument(w) \/ DeleteWhole(w)
    \/ DocumentsRestart

DocumentsSpec == DocumentsInit /\ [][DocumentsNext]_documentsVars

-----------------------------------------------------------------------------
\* A document that has a file can be downloaded, or is about to be deleted.
\* Only an upload in a second twice, an add crossed by the delete of its
\* record, an unanswered insert, or a delete whose row stayed lose the file
\* (handler.go:4596, 4631).
FilesOfRowsExist ==
    \A d \in rows :
        file[d] \in {NoKey} \cup mayMiss \cup objects
            \/ \E w \in Handlers : At(w, "removing") /\ handling[w].doc = d

\* An object no row names is one that a request under way will register or
\* delete.  Only a crossed add, an upload in a second twice, an error of the
\* object store, or a record's delete cut short leave one behind
\* (store.go:4274, handler.go:4608).
NothingLeftBehind ==
    objects \subseteq
        mayStray \cup FilesOf(rows)
        \cup {handling[w].key : w \in HoldingAny({"inserting", "undoing"})}
        \cup UNION {handling[w].keys : w \in HoldingAny({"dropping", "sweeping"})}
=============================================================================
