------------------------------ MODULE Documents -----------------------------
(***************************************************************************)
(* Documents and their revisions: rows in the database, files under        *)
(* MEDIA_ROOT (apps/documents/views.py, storage.py, models.py).            *)
(*                                                                         *)
(* The database rolls back, the file system does not.  A revision is saved *)
(* in a transaction that holds the row lock of its document from its first *)
(* statement on, while its file goes through a staging directory to a path *)
(* that no other upload uses; the file it replaces is deleted after the    *)
(* commit.  A request may stop at any of these steps.  Archiving and       *)
(* downloading read the rows without a lock.                               *)
(***************************************************************************)
CONSTANTS
  Requests,   \* concurrent HTTP requests
  DocIds,     \* primary keys of documents
  Labels,     \* revision labels
  Uploads,    \* uploaded files, each with its own uuid in its path
  None        \* no row, no file, the holder of a free lock

VARIABLES
  documents,  \* the committed Document rows
  revisions,  \* the committed DocumentRevision rows, by document and label
  events,     \* the DocumentEvent rows
  files,      \* where the file of each upload is
  docLock,    \* holder of the row lock of each document
  pc,         \* where each request stands
  req,        \* the local variables of each request
  lost        \* files whose request stopped before it could clean up

db == <<documents, revisions, events>>
vars == <<db, files, docLock, pc, req, lost>>

-----------------------------------------------------------------------------
(* Rows.                                                                   *)

Document == [state : {"draft", "released", "obsolete"}, current : Labels \cup {None}]

\* storage_path contains the uuid of the upload; size, hash and text follow it.
Revision == [state : {"draft", "released"}, storage_path : Uploads]

ASSUME NamesAssumption ==
  None \notin Requests \cup DocIds \cup Labels \cup Uploads \cup Document \cup Revision

Keys == DocIds \X Labels

\* The actions of a DocumentEvent; replacing and creating a revision write
\* revision_replaced and revision_created, both called saved here.
Event == [action : {"document_created", "saved", "released", "archived", "storage_missing"},
          document : DocIds, revision : Labels \cup {None}, file : Uploads \cup {None}]

NewEvent(action, d, l, u) == [action |-> action, document |-> d, revision |-> l, file |-> u]

\* The local variables of a request: new says that it creates its document,
\* upload is the file it writes or reads, previous the file it replaces.
Local == [new : BOOLEAN, document : DocIds \cup {None}, label : Labels \cup {None},
          upload : Uploads \cup {None}, previous : Uploads \cup {None}]

Idle == [new |-> FALSE, document |-> None, label |-> None, upload |-> None,
         previous |-> None]

Key(r) == <<req[r].document, req[r].label>>

PathOf(key) == IF revisions[key] = None THEN None ELSE revisions[key].storage_path

Init ==
  /\ documents = [d \in DocIds |-> None]
  /\ revisions = [key \in Keys |-> None]
  /\ events = {}
  /\ files = [u \in Uploads |-> "none"]
  /\ docLock = [d \in DocIds |-> None]
  /\ pc = [r \in Requests |-> "idle"]
  /\ req = [r \in Requests |-> Idle]
  /\ lost = {}

Goto(r, label) == pc' = [pc EXCEPT ![r] = label]

Done(r) == Goto(r, "idle") /\ req' = [req EXCEPT ![r] = Idle]

\* The end of a transaction releases its locks.
Unlock(r) == docLock' = [d \in DocIds |-> IF docLock[d] = r THEN None ELSE docLock[d]]

-----------------------------------------------------------------------------
(* Saving a revision.                                                      *)

\* POST documents/ without a file: one transaction inserts the document.
CreateDocument(d) ==
  /\ documents[d] = None
  /\ docLock[d] = None
  /\ documents' = [documents EXCEPT ![d] = [state |-> "draft", current |-> None]]
  /\ events' = events \cup {NewEvent("document_created", d, None, None)}
  /\ UNCHANGED <<revisions, files, docLock, pc, req, lost>>

\* ... with a file: until the transaction commits, nobody else sees or uses
\* the inserted row, as if it were locked.
CreateWithFile(r, d, l) ==
  /\ pc[r] = "idle"
  /\ documents[d] = None
  /\ docLock[d] = None
  /\ docLock' = [docLock EXCEPT ![d] = r]
  /\ req' = [req EXCEPT ![r] = [Idle EXCEPT !.new = TRUE, !.document = d, !.label = l]]
  /\ Goto(r, "locked")
  /\ UNCHANGED <<db, files, lost>>

\* Mutation of ReviseLock: the document is read without select_for_update.
ReviseRead(r, d, l) ==
  /\ pc[r] = "idle"
  /\ documents[d] # None
  /\ docLock[d] = None
  /\ revisions[<<d, l>>] # None => revisions[<<d, l>>].state # "released"
  /\ req' = [req EXCEPT ![r] = [Idle EXCEPT !.document = d, !.label = l,
                                            !.previous = PathOf(<<d, l>>)]]
  /\ Goto(r, "locked")
  /\ UNCHANGED <<db, files, docLock, lost>>

\* POST documents/<d>/revisions/: the document is locked, then the revision of
\* that label; a released one is refused, a missing one inserted.
ReviseLock(r, d, l) ==
  /\ pc[r] = "idle"
  /\ documents[d] # None
  /\ docLock[d] = None
  /\ revisions[<<d, l>>] # None => revisions[<<d, l>>].state # "released"
  /\ docLock' = [docLock EXCEPT ![d] = r]
  /\ req' = [req EXCEPT ![r] = [Idle EXCEPT !.document = d, !.label = l,
                                            !.previous = PathOf(<<d, l>>)]]
  /\ Goto(r, "locked")
  /\ UNCHANGED <<db, files, lost>>

\* save_uploaded_revision_file writes the upload into the staging directory.
StageFile(r, u) ==
  /\ pc[r] = "locked"
  /\ files[u] = "none"
  /\ files' = [files EXCEPT ![u] = "staged"]
  /\ req' = [req EXCEPT ![r].upload = u]
  /\ Goto(r, "staged")
  /\ UNCHANGED <<db, docLock, lost>>

\* Mutation of FinalizeFile: the old file is deleted at once, not on_commit.
FinalizeAndDelete(r) ==
  /\ pc[r] = "staged"
  /\ files' = [u \in Uploads |->
       CASE u = req[r].upload -> "stored"
         [] u = req[r].previous -> "deleted"
         [] OTHER -> files[u]]
  /\ Goto(r, "stored")
  /\ UNCHANGED <<db, docLock, req, lost>>

\* The state is read again before and after the text is extracted; then
\* os.replace moves the file to its final path.
FinalizeFile(r) ==
  /\ pc[r] = "staged"
  /\ revisions[Key(r)] # None => revisions[Key(r)].state # "released"
  /\ files' = [files EXCEPT ![req[r].upload] = "stored"]
  /\ Goto(r, "stored")
  /\ UNCHANGED <<db, docLock, req, lost>>

\* Mutation of DiscardFile: only a staged file is discarded.
DiscardStagedFile(r) ==
  /\ pc[r] \in {"staged", "stored"}
  /\ files' = [files EXCEPT ![req[r].upload] = IF pc[r] = "staged" THEN "deleted" ELSE "stored"]
  /\ Unlock(r)
  /\ Done(r)
  /\ UNCHANGED <<db, lost>>

\* An exception while the file is staged or the row is saved (text extraction,
\* the second check, the event) discards the file and rolls back.
DiscardFile(r) ==
  /\ pc[r] \in {"staged", "stored"}
  /\ files' = [files EXCEPT ![req[r].upload] = "deleted"]
  /\ Unlock(r)
  /\ Done(r)
  /\ UNCHANGED <<db, lost>>

\* The document of a request as its transaction sees it.
OwnDocument(r) ==
  IF req[r].new THEN [state |-> "draft", current |-> None] ELSE documents[req[r].document]

\* A draft document takes the saved revision as its current one.
SavedDocument(r) ==
  IF OwnDocument(r).state = "draft"
  THEN [OwnDocument(r) EXCEPT !.current = req[r].label]
  ELSE OwnDocument(r)

\* The file columns and the events are written, and the transaction commits.
CommitRevision(r) ==
  LET d == req[r].document IN
  /\ pc[r] = "stored"
  /\ revisions' = [revisions EXCEPT ![Key(r)] =
                     [state |-> "draft", storage_path |-> req[r].upload]]
  /\ documents' = [documents EXCEPT ![d] = SavedDocument(r)]
  /\ events' = events
       \cup {NewEvent("saved", d, req[r].label, req[r].upload)}
       \cup {NewEvent("document_created", d, None, None) : n \in {req[r].new} \cap {TRUE}}
  /\ Unlock(r)
  /\ IF req[r].previous = None
     THEN Done(r)
     ELSE /\ Goto(r, "committed")
          /\ req' = [req EXCEPT ![r] = [Idle EXCEPT !.previous = req[r].previous]]
  /\ UNCHANGED <<files, lost>>

\* transaction.on_commit: the file that was replaced is deleted.
DeletePrevious(r) ==
  /\ pc[r] = "committed"
  /\ files' = [files EXCEPT ![req[r].previous] = "deleted"]
  /\ Done(r)
  /\ UNCHANGED <<db, docLock, lost>>

-----------------------------------------------------------------------------
(* Releasing, archiving and downloading.                                   *)

\* POST documents/<d>/revisions/<l>/release/: one transaction under the locks
\* of document and revision.
Release(d, l) ==
  /\ documents[d] # None
  /\ docLock[d] = None
  /\ revisions[<<d, l>>] # None
  /\ revisions' = [revisions EXCEPT ![<<d, l>>].state = "released"]
  /\ events' = IF revisions[<<d, l>>].state = "released" THEN events
               ELSE events \cup {NewEvent("released", d, l, PathOf(<<d, l>>))}
  /\ documents' = [documents EXCEPT ![d] = [state |-> "released", current |-> l]]
  /\ UNCHANGED <<files, docLock, pc, req, lost>>

\* POST documents/<d>/archive/: the row is read without a lock ...
ArchiveRead(r, d) ==
  /\ pc[r] = "idle"
  /\ documents[d] # None
  /\ documents[d].state # "obsolete"
  /\ req' = [req EXCEPT ![r] = [Idle EXCEPT !.document = d, !.label = documents[d].current]]
  /\ Goto(r, "archiving")
  /\ UNCHANGED <<db, files, docLock, lost>>

\* Mutation of ArchiveSave: save() writes every column of the instance.
ArchiveSaveRow(r) ==
  LET d == req[r].document IN
  /\ pc[r] = "archiving"
  /\ docLock[d] = None
  /\ documents' = [documents EXCEPT ![d] = [state |-> "obsolete", current |-> req[r].label]]
  /\ Goto(r, "archived")
  /\ UNCHANGED <<revisions, events, files, docLock, req, lost>>

\* ... and save(update_fields=["state", ...]) waits for whoever holds it.
ArchiveSave(r) ==
  LET d == req[r].document IN
  /\ pc[r] = "archiving"
  /\ docLock[d] = None
  /\ documents' = [documents EXCEPT ![d].state = "obsolete"]
  /\ Goto(r, "archived")
  /\ UNCHANGED <<revisions, events, files, docLock, req, lost>>

\* The event is a statement of its own, in no transaction.
ArchiveEvent(r) ==
  /\ pc[r] = "archived"
  /\ events' = events \cup {NewEvent("archived", req[r].document, req[r].label, None)}
  /\ Done(r)
  /\ UNCHANGED <<documents, revisions, files, docLock, lost>>

\* GET documents/<d>/download/: the rows are read ...
DownloadRead(r, d) ==
  /\ pc[r] = "idle"
  /\ documents[d] # None
  /\ documents[d].current # None
  /\ LET l == documents[d].current IN
       req' = [req EXCEPT ![r] = [Idle EXCEPT !.document = d, !.label = l,
                                              !.upload = PathOf(<<d, l>>)]]
  /\ Goto(r, "downloading")
  /\ UNCHANGED <<db, files, docLock, lost>>

\* ... and then the file is opened; if it is not there, an event says so.
DownloadOpen(r) ==
  /\ pc[r] = "downloading"
  /\ events' = IF files[req[r].upload] = "stored" THEN events
               ELSE events \cup {NewEvent("storage_missing", req[r].document, req[r].label,
                                          req[r].upload)}
  /\ Done(r)
  /\ UNCHANGED <<documents, revisions, files, docLock, lost>>

-----------------------------------------------------------------------------
\* The files that only this request would still remove.
Pending(r) ==
  IF pc[r] \in {"staged", "stored"} THEN {req[r].upload}
  ELSE IF pc[r] = "committed" THEN {req[r].previous}
  ELSE {}

\* The process dies, the connection is lost, or a statement outside the try
\* blocks fails (writing the staged file, the audit event, the commit): the
\* transaction is rolled back and the files stay as they are.
Abort(r) ==
  /\ pc[r] # "idle"
  /\ lost' = lost \cup Pending(r)
  /\ Unlock(r)
  /\ Done(r)
  /\ UNCHANGED <<db, files>>

SaveRevision(r) ==
  \/ \E u \in Uploads : StageFile(r, u)
  \/ FinalizeFile(r)
  \/ DiscardFile(r)
  \/ CommitRevision(r)
  \/ DeletePrevious(r)

Next ==
  \/ \E d \in DocIds : CreateDocument(d) \/ \E l \in Labels : Release(d, l)
  \/ \E r \in Requests :
       \/ \E d \in DocIds :
            \/ \E l \in Labels : CreateWithFile(r, d, l) \/ ReviseLock(r, d, l)
            \/ ArchiveRead(r, d)
            \/ DownloadRead(r, d)
       \/ SaveRevision(r)
       \/ ArchiveSave(r)
       \/ ArchiveEvent(r)
       \/ DownloadOpen(r)
       \/ Abort(r)

Spec == Init /\ [][Next]_vars
-----------------------------------------------------------------------------
(* Properties.                                                             *)

TypeOK ==
  /\ documents \in [DocIds -> Document \cup {None}]
  /\ revisions \in [Keys -> Revision \cup {None}]
  /\ events \in SUBSET Event
  /\ files \in [Uploads -> {"none", "staged", "stored", "deleted"}]
  /\ docLock \in [DocIds -> Requests \cup {None}]
  /\ pc \in [Requests -> {"idle", "locked", "staged", "stored", "committed",
                          "archiving", "archived", "downloading"}]
  /\ req \in [Requests -> Local]
  /\ lost \in SUBSET Uploads

Saved == {key \in Keys : revisions[key] # None}

\* Whatever fails between the database and the file system, a committed
\* revision has its file (_create_or_replace_revision, views.py 335-416).
RevisionsHaveTheirFile == \A key \in Saved : files[revisions[key].storage_path] = "stored"

\* A released revision is never replaced, by no request that read it before
\* its release either (views.py 340-341, 363-378).
ReleasedIsFrozen ==
  \A e \in events :
    e.action = "released" =>
      revisions[<<e.document, e.revision>>] = [state |-> "released", storage_path |-> e.file]

\* The current revision of a document exists, and that of a released document
\* is released, although archiving and saving overlap a release (views.py
\* 188-190, 209-211, 243-245).
ReleasedDocumentIsReleased ==
  \A d \in DocIds :
    documents[d] # None =>
      /\ documents[d].current # None => <<d, documents[d].current>> \in Saved
      /\ documents[d].state = "released" =>
           /\ documents[d].current # None
           /\ revisions[<<d, documents[d].current>>].state = "released"

\* A download reports a missing file only for a draft that was replaced after
\* the download had read its path, never for a file that a revision still has
\* (download, views.py 255-273).
MissingOnlyIfReplaced ==
  \A e \in events :
    e.action = "storage_missing" => PathOf(<<e.document, e.revision>>) # e.file

\* Every file that is on disk belongs to a revision or to a request at work,
\* except those whose request stopped without cleaning up
\* (views.py 360-383, 395-416).
NoOrphanFiles ==
  \A u \in Uploads :
    files[u] \in {"staged", "stored"} =>
      \/ files[u] = "stored" /\ \E key \in Saved : revisions[key].storage_path = u
      \/ \E r \in Requests : u \in Pending(r)
      \/ u \in lost

\* What was released stays as it is, for the revision and for its document.
ReleasesAreFinal == ReleasedIsFrozen /\ ReleasedDocumentIsReleased

\* No file is left over and none is missing, but for those of requests that
\* stopped and of drafts that were replaced.
FilesAreAccountedFor == TypeOK /\ MissingOnlyIfReplaced /\ NoOrphanFiles

\* The store as a reader sees it.
Store == INSTANCE DocumentStore WITH
  content <- [key \in Keys |->
                IF PathOf(key) # None /\ files[PathOf(key)] = "stored" THEN PathOf(key) ELSE None],
  released <- {key \in Saved : revisions[key].state = "released"},
  current <- [d \in DocIds |-> IF documents[d] = None THEN None ELSE documents[d].current]

\* Readers see a save or a release as one step, however many steps, failures
\* and rivals it has (views.py 166-253).
SavesAreAtomic == Store!Spec
=============================================================================
