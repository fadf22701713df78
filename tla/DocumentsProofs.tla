--------------------------- MODULE DocumentsProofs --------------------------
(***************************************************************************)
(* For any number of requests, documents, labels and uploads: every        *)
(* committed revision has its file, a released revision is frozen, and the *)
(* files and rows implement the atomic store of DocumentStore.             *)
(***************************************************************************)
EXTENDS Documents, TLAPS

InTransaction(r) == pc[r] \in {"locked", "staged", "stored"}

\* What a transaction that saves a revision knows: it holds the document, and
\* the rows are as it read them.
TransactionOK(r) ==
  InTransaction(r) =>
    /\ Key(r) \in Keys
    /\ docLock[req[r].document] = r
    /\ req[r].new <=> documents[req[r].document] = None
    /\ req[r].previous = PathOf(Key(r))
    /\ revisions[Key(r)] # None => revisions[Key(r)].state = "draft"

\* What the requests without a transaction know.
ReaderOK(r) ==
  pc[r] \in {"archiving", "archived", "downloading"} =>
    /\ req[r].document \in DocIds
    /\ documents[req[r].document] # None
    /\ pc[r] = "downloading" =>
         /\ req[r].label \in Labels
         /\ req[r].upload \in Uploads
         /\ files[req[r].upload] \in {"stored", "deleted"}

\* The path of a file that a request may still remove is in no row.
PendingOK(r) ==
  /\ Pending(r) \subseteq Uploads
  /\ \A u \in Pending(r) :
       /\ files[u] = IF pc[r] = "staged" THEN "staged" ELSE "stored"
       /\ \A key \in Keys : PathOf(key) # u

\* No two rows and no two requests share a file; rows belong to documents.
RowsOK ==
  /\ \A key \in Saved : documents[key[1]] # None
  /\ \A j, k \in Saved :
       revisions[j].storage_path = revisions[k].storage_path => j = k

RequestsApart == \A r, s \in Requests : r # s => Pending(r) \cap Pending(s) = {}

\* These events are about a revision.
EventKeys ==
  \A e \in events :
    e.action \in {"released", "storage_missing"} =>
      <<e.document, e.revision>> \in Keys /\ e.file \in Uploads

\* Every missing file that was reported is gone for good.
MissingIsDeleted ==
  \A e \in events : e.action = "storage_missing" => files[e.file] = "deleted"

IInv ==
  /\ TypeOK
  /\ \A r \in Requests : TransactionOK(r) /\ ReaderOK(r) /\ PendingOK(r)
  /\ RowsOK
  /\ RequestsApart
  /\ RevisionsHaveTheirFile
  /\ ReleasedIsFrozen
  /\ ReleasedDocumentIsReleased
  /\ EventKeys
  /\ MissingIsDeleted
  /\ NoOrphanFiles

-----------------------------------------------------------------------------
(* Types.                                                                  *)

\* The locals of a request that rests are locals.
LEMMA IdleTyped == Idle \in Local
BY DEF Idle, Local

\* A row gives its path.
LEMMA PathTyped ==
  ASSUME TypeOK, NEW key \in Keys
  PROVE  PathOf(key) \in Uploads \cup {None}
BY DEF TypeOK, PathOf, Revision

\* The fields of an event.
LEMMA EventTyped ==
  ASSUME NEW a \in {"document_created", "saved", "released", "archived", "storage_missing"},
         NEW d \in DocIds, NEW l \in Labels \cup {None}, NEW u \in Uploads \cup {None}
  PROVE  NewEvent(a, d, l, u) \in Event
BY DEF NewEvent, Event

\* Every step keeps the types.
LEMMA TypeStep == IInv /\ [Next]_vars => TypeOK'
<1> SUFFICES ASSUME IInv, [Next]_vars PROVE TypeOK'
  OBVIOUS
<1> USE IdleTyped
<1> TypeOK
  BY DEF IInv
<1> USE DEF TypeOK
<1>1. ASSUME NEW d \in DocIds, CreateDocument(d) PROVE TypeOK'
  <2>1. NewEvent("document_created", d, None, None) \in Event
    BY EventTyped
  <2>2. [state |-> "draft", current |-> None] \in Document
    BY DEF Document
  <2> QED
    BY <1>1, <2>1, <2>2 DEF CreateDocument
<1>2. ASSUME NEW d \in DocIds, NEW l \in Labels, Release(d, l) PROVE TypeOK'
  <2>1. <<d, l>> \in Keys
    BY DEF Keys
  <2>2. NewEvent("released", d, l, PathOf(<<d, l>>)) \in Event
    BY <2>1, EventTyped, PathTyped
  <2>3. events' \subseteq Event
    BY <1>2, <2>2 DEF Release
  <2>4. revisions' \in [Keys -> Revision \cup {None}]
    BY <1>2, <2>1 DEF Release, Revision
  <2>5. documents' \in [DocIds -> Document \cup {None}]
    BY <1>2 DEF Release, Document
  <2> QED
    BY <1>2, <2>3, <2>4, <2>5 DEF Release
<1> SUFFICES ASSUME NEW r \in Requests PROVE
      /\ \A d \in DocIds :
           /\ \A l \in Labels : CreateWithFile(r, d, l) \/ ReviseLock(r, d, l) => TypeOK'
           /\ ArchiveRead(r, d) \/ DownloadRead(r, d) => TypeOK'
      /\ SaveRevision(r) \/ ArchiveSave(r) \/ ArchiveEvent(r) \/ DownloadOpen(r) \/ Abort(r)
           => TypeOK'
  BY <1>1, <1>2 DEF Next, vars, db
<1>3. ASSUME NEW d \in DocIds, NEW l \in Labels, CreateWithFile(r, d, l) PROVE TypeOK'
  <2>1. [Idle EXCEPT !.new = TRUE, !.document = d, !.label = l] \in Local
    BY DEF Local, Idle
  <2> QED
    BY <1>3, <2>1 DEF CreateWithFile, Goto, db
<1>4. ASSUME NEW d \in DocIds, NEW l \in Labels, ReviseLock(r, d, l) PROVE TypeOK'
  <2>1. PathOf(<<d, l>>) \in Uploads \cup {None}
    BY PathTyped DEF Keys
  <2>2. [Idle EXCEPT !.document = d, !.label = l, !.previous = PathOf(<<d, l>>)] \in Local
    BY <2>1 DEF Local, Idle
  <2> QED
    BY <1>4, <2>2 DEF ReviseLock, Goto, db
<1>5. ASSUME NEW d \in DocIds, ArchiveRead(r, d) PROVE TypeOK'
  <2>1. documents[d].current \in Labels \cup {None}
    BY <1>5 DEF ArchiveRead, Document
  <2>2. [Idle EXCEPT !.document = d, !.label = documents[d].current] \in Local
    BY <2>1 DEF Local, Idle
  <2> QED
    BY <1>5, <2>2 DEF ArchiveRead, Goto, db
<1>6. ASSUME NEW d \in DocIds, DownloadRead(r, d) PROVE TypeOK'
  <2> DEFINE l == documents[d].current
  <2>1. l \in Labels
    BY <1>6 DEF DownloadRead, Document
  <2>2. PathOf(<<d, l>>) \in Uploads \cup {None}
    BY <2>1, PathTyped DEF Keys
  <2>3. [Idle EXCEPT !.document = d, !.label = l, !.upload = PathOf(<<d, l>>)] \in Local
    BY <2>1, <2>2 DEF Local, Idle
  <2> QED
    BY <1>6, <2>3 DEF DownloadRead, Goto, db
<1>7. ASSUME NEW u \in Uploads, StageFile(r, u) PROVE TypeOK'
  BY <1>7 DEF StageFile, Goto, db, Local
<1>8. CASE FinalizeFile(r)
  BY <1>8 DEF FinalizeFile, Goto, db
<1>9. CASE DiscardFile(r)
  BY <1>9 DEF DiscardFile, Goto, Done, Unlock, db
<1>10. CASE CommitRevision(r)
  <2>1. /\ Key(r) \in Keys
        /\ req[r].document \in DocIds
        /\ req[r].label \in Labels
        /\ req[r].upload \in Uploads
        /\ req[r].new <=> documents[req[r].document] = None
    BY <1>10 DEF CommitRevision, IInv, TransactionOK, InTransaction, PendingOK, Pending, Key, Keys
  <2>2. SavedDocument(r) \in Document
    BY <2>1 DEF SavedDocument, OwnDocument, Document
  <2>3. /\ NewEvent("saved", req[r].document, req[r].label, req[r].upload) \in Event
        /\ NewEvent("document_created", req[r].document, None, None) \in Event
    BY <2>1, EventTyped
  <2>4. events' \subseteq Event
    BY <1>10, <2>3 DEF CommitRevision
  <2>5. revisions' \in [Keys -> Revision \cup {None}]
    BY <1>10, <2>1 DEF CommitRevision, Revision
  <2>6. documents' \in [DocIds -> Document \cup {None}]
    BY <1>10, <2>2 DEF CommitRevision
  <2>7. docLock' \in [DocIds -> Requests \cup {None}]
    BY <1>10 DEF CommitRevision, Unlock
  <2>8. pc' \in [Requests -> {"idle", "locked", "staged", "stored", "committed",
                             "archiving", "archived", "downloading"}]
    BY <1>10 DEF CommitRevision, Goto, Done
  <2>9. req' \in [Requests -> Local]
    <3>1. [Idle EXCEPT !.previous = req[r].previous] \in Local
      BY DEF Idle, Local
    <3> QED
      BY <1>10, <3>1 DEF CommitRevision, Done
  <2> QED
    BY <1>10, <2>4, <2>5, <2>6, <2>7, <2>8, <2>9 DEF CommitRevision
<1>11. CASE DeletePrevious(r)
  BY <1>11 DEF DeletePrevious, Goto, Done, db
<1>12. CASE ArchiveSave(r)
  BY <1>12 DEF ArchiveSave, Goto, Document, IInv, ReaderOK
<1>13. CASE ArchiveEvent(r)
  <2>1. NewEvent("archived", req[r].document, req[r].label, None) \in Event
    BY <1>13, EventTyped DEF ArchiveEvent, IInv, ReaderOK, Local
  <2> QED
    BY <1>13, <2>1 DEF ArchiveEvent, Goto, Done
<1>14. CASE DownloadOpen(r)
  <2>1. NewEvent("storage_missing", req[r].document, req[r].label, req[r].upload) \in Event
    BY <1>14, EventTyped DEF DownloadOpen, IInv, ReaderOK, Local
  <2> QED
    BY <1>14, <2>1 DEF DownloadOpen, Goto, Done
<1>15. CASE Abort(r)
  <2>1. Pending(r) \subseteq Uploads
    BY DEF IInv, PendingOK
  <2> QED
    BY <1>15, <2>1 DEF Abort, Goto, Done, Unlock, db
<1> QED
  BY <1>3, <1>4, <1>5, <1>6, <1>7, <1>8, <1>9, <1>10, <1>11, <1>12, <1>13, <1>14, <1>15
     DEF SaveRevision

-----------------------------------------------------------------------------
(* What one step leaves to the requests that do not take it.               *)

\* Files change only if they are new or in P, and never come back.
FilesMove(P) ==
  \A u \in Uploads :
    /\ files[u] # "none" /\ u \notin P => files'[u] = files[u]
    /\ files[u] \in {"stored", "deleted"} => files'[u] \in {"stored", "deleted"}

\* Documents stay, and a row takes a path only from P.
RowsMove(P) ==
  /\ \A d \in DocIds : documents[d] # None => documents'[d] # None
  /\ \A key \in Keys : PathOf(key)' \in {PathOf(key)} \cup P

\* The rows of the documents that a request holds stay as they are.
Holds(s) ==
  \A d \in DocIds :
    docLock[d] = s =>
      /\ docLock'[d] = s
      /\ documents'[d] = documents[d]
      /\ \A l \in Labels : revisions'[<<d, l>>] = revisions[<<d, l>>]

\* Requests that do not move keep what they know.
LEMMA OthersKeep ==
  ASSUME IInv, TypeOK', NEW s \in Requests, NEW P, Pending(s) \cap P = {},
         pc'[s] = pc[s], req'[s] = req[s], Holds(s), FilesMove(P), RowsMove(P)
  PROVE  /\ Pending(s)' = Pending(s)
         /\ TransactionOK(s)' /\ ReaderOK(s)' /\ PendingOK(s)'
<1>1. TransactionOK(s) /\ ReaderOK(s) /\ PendingOK(s) /\ TypeOK
  BY DEF IInv
<1>2. Pending(s)' = Pending(s)
  BY DEF Pending
<1>3. TransactionOK(s)'
  <2> SUFFICES ASSUME InTransaction(s) PROVE
        /\ Key(s) \in Keys
        /\ docLock'[req[s].document] = s
        /\ req[s].new <=> documents'[req[s].document] = None
        /\ req[s].previous = PathOf(Key(s))'
        /\ revisions'[Key(s)] # None => revisions'[Key(s)].state = "draft"
    BY DEF TransactionOK, InTransaction, Key
  <2>1. req[s].document \in DocIds /\ req[s].label \in Labels /\ Key(s) \in Keys
    BY <1>1 DEF TransactionOK, Key, Keys
  <2>2. /\ docLock'[req[s].document] = s
        /\ documents'[req[s].document] = documents[req[s].document]
        /\ revisions'[Key(s)] = revisions[Key(s)]
    BY <1>1, <2>1 DEF TransactionOK, Holds, Key
  <2>3. PathOf(Key(s))' = PathOf(Key(s))
    BY <2>2 DEF PathOf, Key
  <2> QED
    BY <1>1, <2>1, <2>2, <2>3 DEF TransactionOK
<1>4. ReaderOK(s)'
  BY <1>1 DEF ReaderOK, FilesMove, RowsMove
<1>5. PendingOK(s)'
  <2> SUFFICES ASSUME NEW u \in Pending(s) PROVE
        /\ files'[u] = IF pc[s] = "staged" THEN "staged" ELSE "stored"
        /\ \A key \in Keys : PathOf(key)' # u
    BY <1>1, <1>2 DEF PendingOK
  <2>1. u \in Uploads /\ u \notin P
    BY <1>1 DEF PendingOK
  <2>2. files[u] = IF pc[s] = "staged" THEN "staged" ELSE "stored"
    BY <1>1 DEF PendingOK
  <2>3. files'[u] = files[u]
    BY <2>1, <2>2 DEF FilesMove
  <2> QED
    BY <1>1, <2>1, <2>2, <2>3 DEF PendingOK, RowsMove
<1> QED
  BY <1>2, <1>3, <1>4, <1>5

\* A step that changes neither rows nor files, of a request with nothing to
\* clean up.
LEMMA QuietStep ==
  ASSUME IInv, TypeOK', NEW r \in Requests,
         UNCHANGED <<db, files, lost>>,
         \A s \in Requests \ {r} : pc'[s] = pc[s] /\ req'[s] = req[s],
         \A d \in DocIds : docLock[d] \notin {None, r} => docLock'[d] = docLock[d],
         Pending(r) = {}, Pending(r)' = {}, TransactionOK(r)', ReaderOK(r)'
  PROVE  IInv'
<1> USE DEF db
<1>1. /\ RowsOK' /\ RevisionsHaveTheirFile' /\ ReleasedIsFrozen'
      /\ ReleasedDocumentIsReleased' /\ MissingIsDeleted' /\ EventKeys'
  BY DEF IInv, RowsOK, RevisionsHaveTheirFile, ReleasedIsFrozen, ReleasedDocumentIsReleased,
         MissingIsDeleted, EventKeys, Saved
<1>2. ASSUME NEW s \in Requests \ {r}
      PROVE  Pending(s)' = Pending(s) /\ TransactionOK(s)' /\ ReaderOK(s)' /\ PendingOK(s)'
  <2>1. Holds(s)
    BY NamesAssumption DEF Holds
  <2>2. FilesMove({}) /\ RowsMove({})
    BY DEF FilesMove, RowsMove, PathOf
  <2> QED
    BY <2>1, <2>2, OthersKeep
<1>3. PendingOK(r)'
  BY DEF PendingOK
<1>4. \A s \in Requests : Pending(s)' = Pending(s)
  BY <1>2
<1>5. RequestsApart' /\ NoOrphanFiles'
  BY <1>4 DEF IInv, RequestsApart, NoOrphanFiles, Saved
<1> QED
  BY <1>1, <1>2, <1>3, <1>5 DEF IInv

-----------------------------------------------------------------------------
(* The steps.                                                              *)

\* The three kinds of request that begin.
LEMMA CreateWithFileStep ==
  ASSUME IInv, TypeOK', NEW r \in Requests, NEW d \in DocIds, NEW l \in Labels,
         CreateWithFile(r, d, l)
  PROVE  IInv'
<1> USE DEF CreateWithFile, Goto
<1>1. TypeOK /\ RowsOK
  BY DEF IInv
<1>2. req'[r].document = d /\ req'[r].label = l /\ req'[r].new /\ req'[r].previous = None
  BY <1>1 DEF TypeOK, Idle
<1>3. pc'[r] = "locked" /\ docLock'[d] = r /\ <<d, l>> \in Keys
  BY <1>1 DEF TypeOK, Keys
<1>4. revisions[<<d, l>>] = None
  BY <1>1, <1>3 DEF RowsOK, Saved
<1>5. TransactionOK(r)'
  BY <1>2, <1>3, <1>4 DEF TransactionOK, Key, PathOf, db
<1>6. ReaderOK(r)' /\ Pending(r) = {} /\ Pending(r)' = {}
  BY <1>3 DEF ReaderOK, Pending
<1>7. \A s \in Requests \ {r} : pc'[s] = pc[s] /\ req'[s] = req[s]
  BY <1>1 DEF TypeOK
<1>8. \A e \in DocIds : docLock[e] \notin {None, r} => docLock'[e] = docLock[e]
  BY <1>1 DEF TypeOK
<1> QED
  BY <1>5, <1>6, <1>7, <1>8, QuietStep

\* A save takes the lock of its document and learns the file it will replace.
LEMMA ReviseLockStep ==
  ASSUME IInv, TypeOK', NEW r \in Requests, NEW d \in DocIds, NEW l \in Labels,
         ReviseLock(r, d, l)
  PROVE  IInv'
<1> USE DEF ReviseLock, Goto
<1>1. TypeOK
  BY DEF IInv
<1>2. /\ req'[r].document = d /\ req'[r].label = l /\ req'[r].new = FALSE
      /\ req'[r].previous = PathOf(<<d, l>>)
  BY <1>1 DEF TypeOK, Idle
<1>3. pc'[r] = "locked" /\ docLock'[d] = r /\ <<d, l>> \in Keys
  BY <1>1 DEF TypeOK, Keys
<1>4. revisions[<<d, l>>] # None => revisions[<<d, l>>].state = "draft"
  BY <1>1, <1>3 DEF TypeOK, Revision
<1>5. TransactionOK(r)'
  BY <1>2, <1>3, <1>4 DEF TransactionOK, Key, PathOf, db
<1>6. ReaderOK(r)' /\ Pending(r) = {} /\ Pending(r)' = {}
  BY <1>3 DEF ReaderOK, Pending
<1>7. \A s \in Requests \ {r} : pc'[s] = pc[s] /\ req'[s] = req[s]
  BY <1>1 DEF TypeOK
<1>8. \A e \in DocIds : docLock[e] \notin {None, r} => docLock'[e] = docLock[e]
  BY <1>1 DEF TypeOK
<1> QED
  BY <1>5, <1>6, <1>7, <1>8, QuietStep

\* Archiving and downloading read the rows without a lock.
LEMMA ReadStep ==
  ASSUME IInv, TypeOK', NEW r \in Requests, NEW d \in DocIds,
         ArchiveRead(r, d) \/ DownloadRead(r, d)
  PROVE  IInv'
<1> USE DEF ArchiveRead, DownloadRead, Goto
<1>1. TypeOK
  BY DEF IInv
<1>2. pc'[r] \in {"archiving", "downloading"} /\ req'[r].document = d /\ documents[d] # None
  <2>1. CASE ArchiveRead(r, d)
    BY <1>1, <2>1 DEF TypeOK, Idle
  <2>2. CASE DownloadRead(r, d)
    BY <1>1, <2>2 DEF TypeOK, Idle
  <2> QED
    BY <2>1, <2>2
<1>3. ASSUME pc'[r] = "downloading"
      PROVE  /\ req'[r].label \in Labels
             /\ req'[r].upload \in Uploads /\ files[req'[r].upload] = "stored"
  <2> DEFINE key == <<d, documents[d].current>>
  <2>1. DownloadRead(r, d)
    BY <1>1, <1>3 DEF TypeOK
  <2>2. key \in Saved
    BY <2>1 DEF IInv, ReleasedDocumentIsReleased
  <2>3. PathOf(key) \in Uploads /\ files[PathOf(key)] = "stored"
    BY <1>1, <2>2 DEF TypeOK, Saved, PathOf, Revision, IInv, RevisionsHaveTheirFile
  <2>4. req'[r].upload = PathOf(key) /\ req'[r].label \in Labels
    BY <1>1, <2>1 DEF TypeOK, Idle, Document
  <2> QED
    BY <2>3, <2>4
<1>4. ReaderOK(r)' /\ TransactionOK(r)' /\ Pending(r) = {} /\ Pending(r)' = {}
  BY <1>2, <1>3 DEF ReaderOK, TransactionOK, InTransaction, Pending, db
<1>5. \A s \in Requests \ {r} : pc'[s] = pc[s] /\ req'[s] = req[s]
  BY <1>1 DEF TypeOK
<1> QED
  BY <1>4, <1>5, QuietStep

\* The file steps of a save, before the commit.
LEMMA StageFileStep ==
  ASSUME IInv, TypeOK', NEW r \in Requests, NEW u \in Uploads, StageFile(r, u)
  PROVE  IInv'
<1> USE DEF StageFile, Goto, db
<1>1. TypeOK /\ TransactionOK(r)
  BY DEF IInv
<1>2. pc'[r] = "staged" /\ req'[r] = [req[r] EXCEPT !.upload = u]
  BY <1>1 DEF TypeOK
<1>3. /\ req'[r].document = req[r].document /\ req'[r].label = req[r].label
      /\ req'[r].new = req[r].new /\ req'[r].previous = req[r].previous /\ req'[r].upload = u
  BY <1>1, <1>2 DEF TypeOK, Local
<1>4. TransactionOK(r)' /\ ReaderOK(r)'
  BY <1>1, <1>2, <1>3 DEF TransactionOK, ReaderOK, InTransaction, Key, PathOf
<1>5. files'[u] = "staged" /\ \A v \in Uploads \ {u} : files'[v] = files[v]
  BY <1>1 DEF TypeOK
<1>6. Pending(r) = {} /\ Pending(r)' = {u}
  BY <1>2, <1>3 DEF Pending
<1>7. \A key \in Keys : PathOf(key) # u
  BY <1>1, NamesAssumption DEF IInv, RevisionsHaveTheirFile, PathOf, Saved
<1>8. PendingOK(r)'
  BY <1>2, <1>5, <1>6, <1>7 DEF PendingOK, PathOf
<1>9. ASSUME NEW s \in Requests \ {r}
      PROVE  /\ Pending(s)' = Pending(s) /\ u \notin Pending(s)
             /\ TransactionOK(s)' /\ ReaderOK(s)' /\ PendingOK(s)'
  <2>1. pc'[s] = pc[s] /\ req'[s] = req[s]
    BY <1>1 DEF TypeOK
  <2>2. Holds(s) /\ FilesMove({}) /\ RowsMove({})
    BY <1>5 DEF Holds, FilesMove, RowsMove, PathOf
  <2>3. u \notin Pending(s)
    BY DEF IInv, PendingOK
  <2> QED
    BY <2>1, <2>2, <2>3, OthersKeep
<1>10. /\ RowsOK' /\ RevisionsHaveTheirFile' /\ ReleasedIsFrozen'
       /\ ReleasedDocumentIsReleased' /\ MissingIsDeleted' /\ EventKeys'
  <2>1. RowsOK' /\ ReleasedIsFrozen' /\ ReleasedDocumentIsReleased' /\ EventKeys'
    BY DEF IInv, RowsOK, ReleasedIsFrozen, ReleasedDocumentIsReleased, EventKeys, Saved
  <2>2. RevisionsHaveTheirFile'
    BY <1>1, <1>5 DEF IInv, RevisionsHaveTheirFile, Saved, TypeOK, Revision
  <2>3. MissingIsDeleted'
    BY <1>5 DEF IInv, EventKeys, MissingIsDeleted
  <2> QED
    BY <2>1, <2>2, <2>3
<1>11. RequestsApart'
  BY <1>6, <1>9 DEF IInv, RequestsApart
<1>12. NoOrphanFiles'
  <2> SUFFICES ASSUME NEW v \in Uploads, files'[v] \in {"staged", "stored"}
               PROVE  \/ files'[v] = "stored" /\ \E key \in Saved' : revisions'[key].storage_path = v
                      \/ \E s \in Requests : v \in Pending(s)'
                      \/ v \in lost'
    BY DEF NoOrphanFiles
  <2>1. CASE v = u
    BY <1>6, <2>1
  <2>2. CASE v # u
    BY <1>5, <1>6, <1>9, <2>2 DEF IInv, NoOrphanFiles, Saved
  <2> QED
    BY <2>1, <2>2
<1> QED
  BY <1>4, <1>8, <1>9, <1>10, <1>11, <1>12 DEF IInv

\* os.replace: the file of the request is at its final path.
LEMMA FinalizeFileStep ==
  ASSUME IInv, TypeOK', NEW r \in Requests, FinalizeFile(r)
  PROVE  IInv'
<1> DEFINE u == req[r].upload
<1> USE DEF FinalizeFile, Goto, db
<1>1. TypeOK /\ TransactionOK(r) /\ PendingOK(r)
  BY DEF IInv
<1>2. pc'[r] = "stored" /\ req' = req /\ Pending(r) = {u} /\ Pending(r)' = {u}
  BY <1>1 DEF TypeOK, Pending
<1>3. u \in Uploads /\ files[u] = "staged" /\ \A key \in Keys : PathOf(key) # u
  BY <1>1, <1>2 DEF PendingOK
<1>4. files'[u] = "stored" /\ \A v \in Uploads \ {u} : files'[v] = files[v]
  BY <1>1, <1>3 DEF TypeOK
<1>5. TransactionOK(r)' /\ ReaderOK(r)' /\ PendingOK(r)'
  BY <1>1, <1>2, <1>3, <1>4 DEF TransactionOK, ReaderOK, PendingOK, InTransaction, Key, PathOf
<1>6. ASSUME NEW s \in Requests \ {r}
      PROVE  /\ Pending(s)' = Pending(s)
             /\ TransactionOK(s)' /\ ReaderOK(s)' /\ PendingOK(s)'
  <2>1. pc'[s] = pc[s] /\ req'[s] = req[s]
    BY <1>1 DEF TypeOK
  <2>2. Holds(s) /\ FilesMove({u}) /\ RowsMove({u})
    BY <1>3, <1>4 DEF Holds, FilesMove, RowsMove, PathOf
  <2>3. Pending(s) \cap {u} = {}
    BY <1>2 DEF IInv, RequestsApart
  <2> QED
    BY <2>1, <2>2, <2>3, OthersKeep
<1>7. RowsOK' /\ ReleasedIsFrozen' /\ ReleasedDocumentIsReleased' /\ EventKeys'
  BY DEF IInv, RowsOK, ReleasedIsFrozen, ReleasedDocumentIsReleased, EventKeys, Saved
<1>8. RevisionsHaveTheirFile'
  BY <1>1, <1>4 DEF IInv, RevisionsHaveTheirFile, Saved, TypeOK, Revision
<1>9. MissingIsDeleted'
  BY <1>3, <1>4 DEF IInv, EventKeys, MissingIsDeleted
<1>10. \A s \in Requests : Pending(s)' = Pending(s)
  BY <1>2, <1>6
<1>11. RequestsApart'
  BY <1>10 DEF IInv, RequestsApart
<1>12. NoOrphanFiles'
  BY <1>2, <1>4, <1>10 DEF IInv, NoOrphanFiles, Saved
<1> QED
  BY <1>5, <1>6, <1>7, <1>8, <1>9, <1>11, <1>12 DEF IInv

\* A request that ends deletes its file or leaves it to the lost ones.
CleansUp(r) ==
  /\ pc'[r] = "idle"
  /\ \A s \in Requests \ {r} : pc'[s] = pc[s] /\ req'[s] = req[s]
  /\ UNCHANGED db
  /\ \A d \in DocIds : docLock[d] \notin {None, r} => docLock'[d] = docLock[d]
  /\ lost \subseteq lost'
  /\ \A u \in Uploads \ Pending(r) : files'[u] = files[u]
  /\ \A u \in Pending(r) : \/ files'[u] = "deleted"
                           \/ files'[u] = files[u] /\ u \in lost'

\* Whoever cleans up leaves no file behind that is not accounted for.
LEMMA CleanupStep ==
  ASSUME IInv, TypeOK', NEW r \in Requests, CleansUp(r)
  PROVE  IInv'
<1> USE DEF db, CleansUp
<1>1. TypeOK /\ PendingOK(r)
  BY DEF IInv
<1>2. Pending(r)' = {} /\ TransactionOK(r)' /\ ReaderOK(r)' /\ PendingOK(r)'
  BY DEF Pending, TransactionOK, ReaderOK, PendingOK, InTransaction
<1>3. \A u \in Pending(r) : u \in Uploads /\ files[u] \in {"staged", "stored"}
  BY <1>1 DEF PendingOK
<1>4. ASSUME NEW s \in Requests \ {r}
      PROVE  /\ Pending(s)' = Pending(s)
             /\ TransactionOK(s)' /\ ReaderOK(s)' /\ PendingOK(s)'
  <2>1. Holds(s)
    BY NamesAssumption DEF Holds
  <2>2. FilesMove(Pending(r))
    BY DEF FilesMove
  <2>3. RowsMove(Pending(r))
    BY DEF RowsMove, PathOf
  <2>4. Pending(s) \cap Pending(r) = {}
    BY DEF IInv, RequestsApart
  <2> QED
    BY <2>1, <2>2, <2>3, <2>4, OthersKeep
<1>5. RowsOK' /\ ReleasedIsFrozen' /\ ReleasedDocumentIsReleased' /\ EventKeys'
  BY DEF IInv, RowsOK, ReleasedIsFrozen, ReleasedDocumentIsReleased, EventKeys, Saved
<1>6. RevisionsHaveTheirFile'
  <2> SUFFICES ASSUME NEW key \in Saved PROVE files'[revisions[key].storage_path] = "stored"
    BY DEF RevisionsHaveTheirFile, Saved
  <2>1. PathOf(key) = revisions[key].storage_path /\ PathOf(key) \in Uploads
    BY <1>1 DEF TypeOK, Revision, PathOf, Saved
  <2>2. PathOf(key) \notin Pending(r)
    BY <1>1 DEF PendingOK, Saved
  <2> QED
    BY <2>1, <2>2 DEF IInv, RevisionsHaveTheirFile
<1>7. MissingIsDeleted'
  BY <1>3 DEF IInv, EventKeys, MissingIsDeleted
<1>8. RequestsApart'
  BY <1>2, <1>4 DEF IInv, RequestsApart
<1>9. NoOrphanFiles'
  <2> SUFFICES ASSUME NEW u \in Uploads, files'[u] \in {"staged", "stored"}
               PROVE  \/ files'[u] = "stored" /\ \E key \in Saved : revisions[key].storage_path = u
                      \/ \E s \in Requests : u \in Pending(s)'
                      \/ u \in lost'
    BY DEF NoOrphanFiles, Saved
  <2>1. CASE u \in Pending(r)
    BY <2>1
  <2>2. CASE u \notin Pending(r)
    BY <1>4, <2>2 DEF IInv, NoOrphanFiles
  <2> QED
    BY <2>1, <2>2
<1> QED
  BY <1>2, <1>4, <1>5, <1>6, <1>7, <1>8, <1>9 DEF IInv

\* A save that fails, one that is over, and a request that stops clean up.
LEMMA EndStep ==
  ASSUME IInv, TypeOK', NEW r \in Requests,
         DiscardFile(r) \/ DeletePrevious(r) \/ Abort(r)
  PROVE  IInv'
<1>1. TypeOK /\ PendingOK(r)
  BY DEF IInv
<1>2. /\ pc'[r] = "idle"
      /\ \A s \in Requests \ {r} : pc'[s] = pc[s] /\ req'[s] = req[s]
      /\ UNCHANGED db
  BY <1>1 DEF DiscardFile, DeletePrevious, Abort, Done, Goto, TypeOK
<1>3. \A d \in DocIds : docLock[d] \notin {None, r} => docLock'[d] = docLock[d]
  BY <1>1 DEF DiscardFile, DeletePrevious, Abort, Unlock, TypeOK
<1>4. /\ lost \subseteq lost'
      /\ \A u \in Uploads \ Pending(r) : files'[u] = files[u]
      /\ \A u \in Pending(r) : \/ files'[u] = "deleted"
                               \/ files'[u] = files[u] /\ u \in lost'
  <2>1. CASE DiscardFile(r)
    BY <1>1, <2>1 DEF DiscardFile, Pending, PendingOK, TypeOK
  <2>2. CASE DeletePrevious(r)
    BY <1>1, <2>2 DEF DeletePrevious, Pending, PendingOK, TypeOK
  <2>3. CASE Abort(r)
    BY <1>1, <2>3 DEF Abort
  <2> QED
    BY <2>1, <2>2, <2>3
<1> QED
  <2>1. CleansUp(r)
    BY <1>2, <1>3, <1>4 DEF CleansUp
  <2> QED
    BY <2>1, CleanupStep

\* What the commit of a save does to the rows of document d and label l, when
\* it puts file u in the place of p.
CommitEffect(r, d, l, u, p) ==
  LET key == <<d, l>> IN
  /\ key \in Keys /\ Key(r) = key /\ docLock[d] = r
  /\ req[r].new <=> documents[d] = None
  /\ p = PathOf(key)
  /\ revisions[key] # None => revisions[key].state = "draft"
  /\ Pending(r) = {u} /\ files[u] = "stored"
  /\ \A k \in Keys : PathOf(k) # u
  /\ files' = files /\ lost' = lost
  /\ revisions'[key] = [state |-> "draft", storage_path |-> u]
  /\ revisions'[key] # None
  /\ \A k \in Keys \ {key} : revisions'[k] = revisions[k]
  /\ PathOf(key)' = u /\ \A k \in Keys \ {key} : PathOf(k)' = PathOf(k)
  /\ documents'[d] = SavedDocument(r) /\ SavedDocument(r) \in Document
  /\ \A e \in DocIds \ {d} : documents'[e] = documents[e]

\* The commit of a save has the effect named above.
LEMMA CommitFacts ==
  ASSUME IInv, TypeOK', NEW r \in Requests, CommitRevision(r),
         NEW d \in DocIds, NEW l \in Labels, NEW u \in Uploads, NEW p \in Uploads \cup {None},
         req[r].document = d, req[r].label = l, req[r].upload = u, req[r].previous = p
  PROVE  CommitEffect(r, d, l, u, p)
<1> DEFINE key == <<d, l>>
<1>1. TypeOK /\ TransactionOK(r) /\ PendingOK(r) /\ pc[r] = "stored"
  BY DEF IInv, CommitRevision
<1>2. /\ key \in Keys /\ Key(r) = key
      /\ docLock[d] = r
      /\ req[r].new <=> documents[d] = None
      /\ p = PathOf(key)
      /\ revisions[key] # None => revisions[key].state = "draft"
  BY <1>1 DEF TransactionOK, InTransaction, Key, Keys
<1>3. Pending(r) = {u} /\ files[u] = "stored"
  BY <1>1 DEF Pending, PendingOK
<1>4. \A k \in Keys : PathOf(k) # u
  BY <1>1, <1>3 DEF PendingOK
<1>5. files' = files /\ lost' = lost
  BY DEF CommitRevision
<1>6. /\ revisions'[key] = [state |-> "draft", storage_path |-> u]
      /\ revisions'[key] # None
      /\ \A k \in Keys \ {key} : revisions'[k] = revisions[k]
  <2>1. [state |-> "draft", storage_path |-> u] \in Revision
    BY DEF Revision
  <2> QED
    BY <1>1, <1>2, <2>1, NamesAssumption DEF CommitRevision, TypeOK
<1>7. PathOf(key)' = u /\ \A k \in Keys \ {key} : PathOf(k)' = PathOf(k)
  BY <1>6 DEF PathOf
<1>8. /\ documents'[d] = SavedDocument(r) /\ SavedDocument(r) \in Document
      /\ \A e \in DocIds \ {d} : documents'[e] = documents[e]
  <2>1. SavedDocument(r) \in Document
    BY <1>1, <1>2 DEF SavedDocument, OwnDocument, Document, TypeOK
  <2> QED
    BY <1>1, <2>1 DEF CommitRevision, TypeOK
<1> QED
  BY <1>2, <1>3, <1>4, <1>5, <1>6, <1>7, <1>8 DEF CommitEffect

\* The commit of a save: its file changes hands from the request to the row,
\* the replaced file from the row to the request.
LEMMA CommitRevisionStep ==
  ASSUME IInv, TypeOK', NEW r \in Requests, CommitRevision(r),
         NEW d \in DocIds, NEW l \in Labels, NEW u \in Uploads, NEW p \in Uploads \cup {None},
         req[r].document = d, req[r].label = l, req[r].upload = u, req[r].previous = p
  PROVE  IInv'
<1> DEFINE key == <<d, l>>
<1>0. CommitEffect(r, d, l, u, p)
  BY CommitFacts
<1>1. TypeOK /\ pc[r] = "stored"
  BY DEF IInv, CommitRevision
<1>2. /\ key \in Keys /\ Key(r) = key
      /\ docLock[d] = r
      /\ req[r].new <=> documents[d] = None
      /\ p = PathOf(key)
      /\ revisions[key] # None => revisions[key].state = "draft"
  BY <1>0 DEF CommitEffect
<1>3. Pending(r) = {u} /\ files[u] = "stored"
  BY <1>0 DEF CommitEffect
<1>4. \A k \in Keys : PathOf(k) # u
  BY <1>0 DEF CommitEffect
<1>5. files' = files /\ lost' = lost
  BY <1>0 DEF CommitEffect
<1>6. /\ revisions'[key] = [state |-> "draft", storage_path |-> u]
      /\ revisions'[key] # None
      /\ \A k \in Keys \ {key} : revisions'[k] = revisions[k]
  BY <1>0 DEF CommitEffect
<1>7. PathOf(key)' = u /\ \A k \in Keys \ {key} : PathOf(k)' = PathOf(k)
  BY <1>0 DEF CommitEffect
<1>8. /\ documents'[d] = SavedDocument(r) /\ SavedDocument(r) \in Document
      /\ \A e \in DocIds \ {d} : documents'[e] = documents[e]
  BY <1>0 DEF CommitEffect
<1>9. /\ IF p = None THEN pc'[r] = "idle" ELSE pc'[r] = "committed" /\ req'[r].previous = p
      /\ \A s \in Requests \ {r} : pc'[s] = pc[s] /\ req'[s] = req[s]
  BY <1>1 DEF CommitRevision, Goto, Done, TypeOK, Idle
<1>10. Pending(r)' = IF p = None THEN {} ELSE {p}
  BY <1>9 DEF Pending
<1>11. p # None => /\ key \in Saved /\ revisions[key].storage_path = p
                   /\ files[p] = "stored" /\ p # u
                   /\ \A k \in Keys \ {key} : PathOf(k) # p
  <2> SUFFICES ASSUME p # None
               PROVE  /\ key \in Saved /\ revisions[key].storage_path = p
                      /\ files[p] = "stored" /\ p # u
                      /\ \A k \in Keys \ {key} : PathOf(k) # p
    OBVIOUS
  <2>1. key \in Saved /\ revisions[key].storage_path = p
    BY <1>2 DEF PathOf, Saved
  <2>2. files[p] = "stored" /\ p # u
    BY <2>1, <1>2, <1>4 DEF IInv, RevisionsHaveTheirFile
  <2>3. ASSUME NEW k \in Keys \ {key} PROVE PathOf(k) # p
    BY <2>1 DEF IInv, RowsOK, PathOf, Saved
  <2> QED
    BY <2>1, <2>2, <2>3
<1>12. TransactionOK(r)' /\ ReaderOK(r)'
  BY <1>9 DEF TransactionOK, ReaderOK, InTransaction
<1>13. PendingOK(r)'
  <2>1. CASE p = None
    BY <1>10, <2>1 DEF PendingOK
  <2>2. CASE p # None
    <3>1. \A k \in Keys : PathOf(k)' # p
      BY <1>7, <1>11, <2>2
    <3> QED
      BY <1>5, <1>9, <1>10, <1>11, <2>2, <3>1 DEF PendingOK
  <2> QED
    BY <2>1, <2>2
<1>14. ASSUME NEW s \in Requests \ {r}
       PROVE  /\ Pending(s)' = Pending(s)
              /\ TransactionOK(s)' /\ ReaderOK(s)' /\ PendingOK(s)'
  <2>1. Pending(s) \cap {u} = {}
    BY <1>3 DEF IInv, RequestsApart
  <2>2. FilesMove({u}) /\ RowsMove({u})
    <3>1. FilesMove({u})
      BY <1>5 DEF FilesMove
    <3>2. \A e \in DocIds : documents[e] # None => documents'[e] # None
      BY <1>8, NamesAssumption
    <3>3. \A k \in Keys : PathOf(k)' \in {PathOf(k)} \cup {u}
      BY <1>7
    <3> QED
      BY <3>1, <3>2, <3>3 DEF RowsMove
  <2>3. Holds(s)
    <3> SUFFICES ASSUME NEW e \in DocIds, docLock[e] = s
                 PROVE  /\ docLock'[e] = s /\ documents'[e] = documents[e]
                        /\ \A m \in Labels : revisions'[<<e, m>>] = revisions[<<e, m>>]
      BY DEF Holds
    <3>1. e # d
      BY <1>2
    <3>2. docLock'[e] = s
      BY <1>1 DEF CommitRevision, Unlock, TypeOK
    <3>3. \A m \in Labels : <<e, m>> \in Keys \ {key}
      BY <3>1 DEF Keys
    <3> QED
      BY <1>6, <1>8, <3>1, <3>2, <3>3
  <2> QED
    BY <1>9, <2>1, <2>2, <2>3, OthersKeep
<1>15. \A k \in Keys : k \in Saved' <=> k = key \/ k \in Saved
  BY <1>2, <1>6 DEF Saved
<1>16. RowsOK'
  <2>1. ASSUME NEW k \in Saved' PROVE documents'[k[1]] # None
    <3>1. CASE k = key
      BY <1>8, <3>1, NamesAssumption
    <3>2. CASE k # key
      <4>1. k \in Saved /\ documents[k[1]] # None /\ k[1] \in DocIds
        BY <1>15, <3>2 DEF IInv, RowsOK, Saved, Keys
      <4> QED
        BY <1>8, <4>1, NamesAssumption
    <3> QED
      BY <3>1, <3>2
  <2>2. ASSUME NEW j \in Saved', NEW k \in Saved',
               revisions'[j].storage_path = revisions'[k].storage_path
        PROVE  j = k
    <3>1. \A i \in Saved : revisions[i].storage_path # u
      BY <1>4 DEF Saved, PathOf
    <3> QED
      BY <1>6, <1>15, <2>2, <3>1 DEF IInv, RowsOK, Saved
  <2> QED
    BY <2>1, <2>2 DEF RowsOK
<1>17. RequestsApart'
  <2>1. ASSUME NEW s \in Requests \ {r}, p # None PROVE p \notin Pending(s)
    BY <1>2, <2>1 DEF IInv, PendingOK
  <2> QED
    BY <1>10, <1>14, <2>1 DEF IInv, RequestsApart
<1>18. RevisionsHaveTheirFile'
  BY <1>3, <1>5, <1>6, <1>15 DEF IInv, RevisionsHaveTheirFile, Saved
<1>19. /\ \A e \in events' : e \in events \/ e.action \notin {"released", "storage_missing"}
       /\ events \subseteq events'
  BY DEF CommitRevision, NewEvent
<1>20. ReleasedIsFrozen' /\ EventKeys' /\ MissingIsDeleted'
  <2>1. EventKeys' /\ MissingIsDeleted'
    BY <1>5, <1>19 DEF IInv, EventKeys, MissingIsDeleted
  <2>2. ASSUME NEW e \in events', e.action = "released"
        PROVE  revisions'[<<e.document, e.revision>>] = [state |-> "released", storage_path |-> e.file]
    <3>1. e \in events
      BY <1>19, <2>2
    <3>2. /\ revisions[<<e.document, e.revision>>] = [state |-> "released", storage_path |-> e.file]
          /\ <<e.document, e.revision>> \in Keys
      BY <2>2, <3>1 DEF IInv, ReleasedIsFrozen, EventKeys
    <3>3. <<e.document, e.revision>> # key
      <4>1. e.file \in Uploads
        BY <2>2, <3>1 DEF IInv, EventKeys
      <4>2. revisions[<<e.document, e.revision>>] \in Revision
        BY <3>2, <4>1 DEF Revision
      <4> QED
        BY <1>2, <3>2, <4>2, NamesAssumption
    <3> QED
      BY <1>6, <3>2, <3>3
  <2> QED
    BY <2>1, <2>2 DEF ReleasedIsFrozen
<1>21. ReleasedDocumentIsReleased'
  <2> SUFFICES ASSUME NEW e \in DocIds, documents'[e] # None
               PROVE  /\ documents'[e].current # None => <<e, documents'[e].current>> \in Saved'
                      /\ documents'[e].state = "released" =>
                           /\ documents'[e].current # None
                           /\ revisions'[<<e, documents'[e].current>>].state = "released"
    BY DEF ReleasedDocumentIsReleased
  <2>1. CASE e = d /\ OwnDocument(r).state = "draft"
    <3>1. documents'[e].current = l /\ documents'[e].state = "draft"
      BY <1>1, <1>2, <1>8, <2>1 DEF SavedDocument, OwnDocument, TypeOK, Document
    <3> QED
      BY <1>2, <1>15, <2>1, <3>1
  <2>2. CASE ~(e = d /\ OwnDocument(r).state = "draft")
    <3>1. documents'[e] = documents[e] /\ documents[e] # None
      BY <1>2, <1>8, <2>2 DEF SavedDocument, OwnDocument
    <3>2. /\ documents[e].current # None => <<e, documents[e].current>> \in Saved
          /\ documents[e].state = "released" =>
               /\ documents[e].current # None
               /\ revisions[<<e, documents[e].current>>].state = "released"
      BY <3>1 DEF IInv, ReleasedDocumentIsReleased
    <3>3. documents[e].state = "released" => <<e, documents[e].current>> # key
      BY <1>2, <3>2 DEF Saved
    <3> QED
      BY <1>6, <1>15, <3>1, <3>2, <3>3 DEF Saved
  <2> QED
    BY <2>1, <2>2
<1>22. NoOrphanFiles'
  <2> SUFFICES ASSUME NEW v \in Uploads, files[v] \in {"staged", "stored"}
               PROVE  \/ files[v] = "stored" /\ \E k \in Saved' : revisions'[k].storage_path = v
                      \/ \E s \in Requests : v \in Pending(s)'
                      \/ v \in lost
    BY <1>5 DEF NoOrphanFiles
  <2>1. CASE v = u
    BY <1>2, <1>3, <1>6, <1>15, <2>1
  <2>2. CASE v = p
    BY <1>10, <2>2, NamesAssumption
  <2>3. CASE v # u /\ v # p
    <3>1. CASE v \in lost
      BY <3>1
    <3>2. CASE \E s \in Requests : v \in Pending(s)
      BY <1>3, <1>14, <2>3, <3>2
    <3>3. CASE files[v] = "stored" /\ \E k \in Saved : revisions[k].storage_path = v
      <4>1. PICK k \in Saved : revisions[k].storage_path = v
        BY <3>3
      <4>2. k # key
        BY <1>11, <2>3, <4>1, <1>2 DEF PathOf, Saved
      <4> QED
        BY <1>6, <1>15, <3>3, <4>1, <4>2 DEF Saved
    <3> QED
      BY <3>1, <3>2, <3>3 DEF IInv, NoOrphanFiles
  <2> QED
    BY <2>1, <2>2, <2>3
<1> QED
  BY <1>12, <1>13, <1>14, <1>16, <1>17, <1>18, <1>20, <1>21, <1>22 DEF IInv

\* Archiving writes the state of an unlocked document only.
LEMMA ArchiveSaveStep ==
  ASSUME IInv, TypeOK', NEW r \in Requests, NEW d \in DocIds,
         ArchiveSave(r), req[r].document = d
  PROVE  IInv'
<1>1. TypeOK /\ ReaderOK(r) /\ pc[r] = "archiving" /\ docLock[d] = None
  BY DEF IInv, ArchiveSave
<1>2. documents[d] # None /\ documents[d] \in Document
  BY <1>1 DEF ReaderOK, TypeOK
<1>3. /\ documents'[d] = [documents[d] EXCEPT !.state = "obsolete"]
      /\ \A e \in DocIds \ {d} : documents'[e] = documents[e]
  BY <1>1 DEF ArchiveSave, TypeOK
<1>4. /\ documents'[d] # None /\ documents'[d].state = "obsolete"
      /\ documents'[d].current = documents[d].current
  <2>1. documents'[d] \in Document
    BY <1>2, <1>3 DEF Document
  <2> QED
    BY <1>2, <1>3, <2>1, NamesAssumption DEF Document
<1>5. UNCHANGED <<revisions, events, files, docLock, req, lost>>
  BY DEF ArchiveSave
<1>6. pc'[r] = "archived" /\ \A s \in Requests \ {r} : pc'[s] = pc[s]
  BY <1>1 DEF ArchiveSave, Goto, TypeOK
<1>7. Pending(r) = {} /\ Pending(r)' = {}
  BY <1>1, <1>6 DEF Pending
<1>8. TransactionOK(r)' /\ ReaderOK(r)' /\ PendingOK(r)'
  BY <1>1, <1>4, <1>5, <1>6, <1>7 DEF TransactionOK, ReaderOK, PendingOK, InTransaction
<1>9. ASSUME NEW s \in Requests \ {r}
      PROVE  Pending(s)' = Pending(s) /\ TransactionOK(s)' /\ ReaderOK(s)' /\ PendingOK(s)'
  <2>1. Holds(s)
    BY <1>1, <1>3, <1>5, NamesAssumption DEF Holds
  <2>2. FilesMove({}) /\ RowsMove({})
    BY <1>3, <1>4, <1>5 DEF FilesMove, RowsMove, PathOf
  <2> QED
    BY <1>5, <1>6, <2>1, <2>2, OthersKeep
<1>10. \A s \in Requests : Pending(s)' = Pending(s)
  BY <1>7, <1>9
<1>11. RequestsApart' /\ NoOrphanFiles'
  BY <1>5, <1>10 DEF IInv, RequestsApart, NoOrphanFiles, Saved
<1>12. RevisionsHaveTheirFile' /\ ReleasedIsFrozen' /\ EventKeys' /\ MissingIsDeleted'
  BY <1>5 DEF IInv, RevisionsHaveTheirFile, ReleasedIsFrozen, EventKeys, MissingIsDeleted, Saved
<1>13. RowsOK'
  BY <1>3, <1>4, <1>5 DEF IInv, RowsOK, Saved, Keys
<1>14. ReleasedDocumentIsReleased'
  <2> SUFFICES ASSUME NEW e \in DocIds, documents'[e] # None
               PROVE  /\ documents'[e].current # None => <<e, documents'[e].current>> \in Saved
                      /\ documents'[e].state = "released" =>
                           /\ documents'[e].current # None
                           /\ revisions[<<e, documents'[e].current>>].state = "released"
    BY <1>5 DEF ReleasedDocumentIsReleased, Saved
  <2>1. CASE e = d
    BY <1>2, <1>4, <2>1 DEF IInv, ReleasedDocumentIsReleased
  <2>2. CASE e # d
    BY <1>3, <2>2 DEF IInv, ReleasedDocumentIsReleased
  <2> QED
    BY <2>1, <2>2
<1> QED
  BY <1>8, <1>9, <1>11, <1>12, <1>13, <1>14 DEF IInv

\* The steps that write an event only: a download reports a file that is gone
\* for good.
LEMMA EventStep ==
  ASSUME IInv, TypeOK', NEW r \in Requests, ArchiveEvent(r) \/ DownloadOpen(r)
  PROVE  IInv'
<1>1. TypeOK /\ ReaderOK(r) /\ pc[r] \in {"archived", "downloading"}
  BY DEF IInv, ArchiveEvent, DownloadOpen
<1>2. UNCHANGED <<documents, revisions, files, docLock, lost>>
  BY DEF ArchiveEvent, DownloadOpen
<1>3. pc'[r] = "idle" /\ \A s \in Requests \ {r} : pc'[s] = pc[s] /\ req'[s] = req[s]
  BY <1>1 DEF ArchiveEvent, DownloadOpen, Goto, Done, TypeOK
<1>4. Pending(r) = {} /\ Pending(r)' = {}
  BY <1>1, <1>3 DEF Pending
<1>5. TransactionOK(r)' /\ ReaderOK(r)' /\ PendingOK(r)'
  BY <1>3, <1>4 DEF TransactionOK, ReaderOK, PendingOK, InTransaction
<1>6. ASSUME NEW s \in Requests \ {r}
      PROVE  Pending(s)' = Pending(s) /\ TransactionOK(s)' /\ ReaderOK(s)' /\ PendingOK(s)'
  <2>1. Holds(s) /\ FilesMove({}) /\ RowsMove({})
    BY <1>2 DEF Holds, FilesMove, RowsMove, PathOf
  <2> QED
    BY <1>3, <2>1, OthersKeep
<1>7. \A s \in Requests : Pending(s)' = Pending(s)
  BY <1>4, <1>6
<1>8. RequestsApart' /\ NoOrphanFiles'
  BY <1>2, <1>7 DEF IInv, RequestsApart, NoOrphanFiles, Saved
<1>9. RevisionsHaveTheirFile' /\ RowsOK' /\ ReleasedDocumentIsReleased'
  BY <1>2 DEF IInv, RevisionsHaveTheirFile, RowsOK, ReleasedDocumentIsReleased, Saved
<1>10. \A e \in events' :
         \/ e \in events
         \/ e.action = "archived"
         \/ /\ e.action = "storage_missing" /\ <<e.document, e.revision>> \in Keys
            /\ e.file \in Uploads /\ files[e.file] = "deleted"
  <2>1. CASE ArchiveEvent(r)
    BY <2>1 DEF ArchiveEvent, NewEvent
  <2>2. CASE DownloadOpen(r)
    BY <1>1, <2>2 DEF DownloadOpen, NewEvent, ReaderOK, Keys
  <2> QED
    BY <2>1, <2>2
<1>11. ReleasedIsFrozen' /\ EventKeys' /\ MissingIsDeleted'
  <2>1. ReleasedIsFrozen /\ EventKeys /\ MissingIsDeleted
    BY DEF IInv
  <2>2. ReleasedIsFrozen'
    BY <1>2, <1>10, <2>1 DEF ReleasedIsFrozen
  <2>3. EventKeys'
    BY <1>10, <2>1 DEF EventKeys
  <2>4. MissingIsDeleted'
    BY <1>2, <1>10, <2>1 DEF MissingIsDeleted
  <2> QED
    BY <2>2, <2>3, <2>4
<1> QED
  BY <1>5, <1>6, <1>8, <1>9, <1>11 DEF IInv

\* The steps of one statement or transaction.
LEMMA CreateDocumentStep ==
  ASSUME IInv, TypeOK', NEW d \in DocIds, CreateDocument(d)
  PROVE  IInv'
<1>1. TypeOK /\ documents[d] = None /\ docLock[d] = None
  BY DEF IInv, CreateDocument
<1>2. UNCHANGED <<revisions, files, docLock, pc, req, lost>>
  BY DEF CreateDocument
<1>3. /\ documents'[d] = [state |-> "draft", current |-> None]
      /\ documents'[d] # None
      /\ \A e \in DocIds \ {d} : documents'[e] = documents[e]
  <2>1. [state |-> "draft", current |-> None] \in Document
    BY DEF Document
  <2> QED
    BY <1>1, <2>1, NamesAssumption DEF CreateDocument, TypeOK
<1>4. ASSUME NEW s \in Requests
      PROVE  Pending(s)' = Pending(s) /\ TransactionOK(s)' /\ ReaderOK(s)' /\ PendingOK(s)'
  <2>1. Holds(s)
    BY <1>1, <1>2, <1>3, NamesAssumption DEF Holds
  <2>2. FilesMove({}) /\ RowsMove({})
    BY <1>2, <1>3 DEF FilesMove, RowsMove, PathOf
  <2> QED
    BY <1>2, <2>1, <2>2, OthersKeep
<1>5. RequestsApart' /\ NoOrphanFiles'
  BY <1>2, <1>4 DEF IInv, RequestsApart, NoOrphanFiles, Saved
<1>6. RevisionsHaveTheirFile' /\ RowsOK'
  BY <1>2, <1>3 DEF IInv, RevisionsHaveTheirFile, RowsOK, Saved, Keys
<1>7. \A e \in events' : e \in events \/ e.action = "document_created"
  BY DEF CreateDocument, NewEvent
<1>8. ReleasedIsFrozen' /\ EventKeys' /\ MissingIsDeleted'
  <2>1. ReleasedIsFrozen /\ EventKeys /\ MissingIsDeleted
    BY DEF IInv
  <2> QED
    BY <1>2, <1>7, <2>1 DEF ReleasedIsFrozen, EventKeys, MissingIsDeleted
<1>9. ReleasedDocumentIsReleased'
  BY <1>2, <1>3 DEF IInv, ReleasedDocumentIsReleased, Saved
<1> QED
  BY <1>4, <1>5, <1>6, <1>8, <1>9 DEF IInv

\* What a release does to the rows.
LEMMA ReleaseFacts ==
  ASSUME IInv, NEW d \in DocIds, NEW l \in Labels, Release(d, l)
  PROVE  LET key == <<d, l>> IN
         /\ key \in Saved /\ key \in Keys
         /\ revisions'[key] = [state |-> "released", storage_path |-> PathOf(key)]
         /\ revisions'[key] # None
         /\ \A k \in Keys \ {key} : revisions'[k] = revisions[k]
         /\ \A k \in Keys : PathOf(k)' = PathOf(k)
         /\ \A k \in Keys : k \in Saved' <=> k \in Saved
         /\ documents[d] # None
         /\ documents'[d] = [state |-> "released", current |-> l]
         /\ documents'[d] # None
         /\ \A e \in DocIds \ {d} : documents'[e] = documents[e]
<1> DEFINE key == <<d, l>>
<1>1. TypeOK /\ key \in Keys /\ key \in Saved /\ documents[d] # None
  BY DEF IInv, Release, Keys, Saved
<1>2. PathOf(key) = revisions[key].storage_path /\ revisions[key] \in Revision
  BY <1>1 DEF TypeOK, PathOf, Saved
<1>3. /\ revisions'[key] = [state |-> "released", storage_path |-> PathOf(key)]
      /\ \A k \in Keys \ {key} : revisions'[k] = revisions[k]
  BY <1>1, <1>2 DEF Release, TypeOK, Revision
<1>4. revisions'[key] # None
  <2>1. [state |-> "released", storage_path |-> PathOf(key)] \in Revision
    BY <1>2 DEF Revision
  <2> QED
    BY <1>3, <2>1, NamesAssumption
<1>5. \A k \in Keys : PathOf(k)' = PathOf(k)
  <2>1. PathOf(key)' = PathOf(key)
    BY <1>3, <1>4 DEF PathOf
  <2> QED
    BY <1>3, <2>1 DEF PathOf
<1>6. \A k \in Keys : k \in Saved' <=> k \in Saved
  BY <1>1, <1>3, <1>4 DEF Saved
<1>7. /\ documents'[d] = [state |-> "released", current |-> l]
      /\ \A e \in DocIds \ {d} : documents'[e] = documents[e]
  BY <1>1 DEF Release, TypeOK
<1>8. documents'[d] # None
  <2>1. [state |-> "released", current |-> l] \in Document
    BY DEF Document
  <2> QED
    BY <1>7, <2>1, NamesAssumption
<1> QED
  BY <1>1, <1>3, <1>4, <1>5, <1>6, <1>7, <1>8

\* A release: the row that it freezes is under no other request's lock.
LEMMA ReleaseStep ==
  ASSUME IInv, TypeOK', NEW d \in DocIds, NEW l \in Labels, Release(d, l)
  PROVE  IInv'
<1> DEFINE key == <<d, l>>
<1>1. TypeOK /\ docLock[d] = None /\ UNCHANGED <<files, docLock, pc, req, lost>>
  BY DEF IInv, Release
<1>2. key \in Saved /\ key \in Keys
  BY ReleaseFacts
<1>3. /\ revisions'[key] = [state |-> "released", storage_path |-> PathOf(key)]
      /\ \A k \in Keys \ {key} : revisions'[k] = revisions[k]
  BY ReleaseFacts
<1>4. /\ \A k \in Keys : PathOf(k)' = PathOf(k)
      /\ \A k \in Keys : k \in Saved' <=> k \in Saved
  BY ReleaseFacts
<1>5. /\ documents[d] # None /\ documents'[d] # None
      /\ documents'[d] = [state |-> "released", current |-> l]
      /\ \A e \in DocIds \ {d} : documents'[e] = documents[e]
  BY ReleaseFacts
<1>6. \A k \in Saved : revisions'[k].storage_path = revisions[k].storage_path
  BY <1>2, <1>3 DEF PathOf, Saved
<1>7. ASSUME NEW s \in Requests
      PROVE  Pending(s)' = Pending(s) /\ TransactionOK(s)' /\ ReaderOK(s)' /\ PendingOK(s)'
  <2>1. Holds(s)
    <3> SUFFICES ASSUME NEW e \in DocIds, docLock[e] = s
                 PROVE  /\ docLock'[e] = s /\ documents'[e] = documents[e]
                        /\ \A m \in Labels : revisions'[<<e, m>>] = revisions[<<e, m>>]
      BY DEF Holds
    <3>1. e # d
      BY <1>1, NamesAssumption
    <3>2. \A m \in Labels : <<e, m>> \in Keys \ {key}
      BY <3>1 DEF Keys
    <3> QED
      BY <1>1, <1>3, <1>5, <3>1, <3>2
  <2>2. FilesMove({}) /\ RowsMove({})
    BY <1>1, <1>4, <1>5 DEF FilesMove, RowsMove
  <2> QED
    BY <1>1, <2>1, <2>2, OthersKeep
<1>8. RequestsApart'
  BY <1>1, <1>7 DEF IInv, RequestsApart
<1>9. NoOrphanFiles'
  <2> SUFFICES ASSUME NEW u \in Uploads, files[u] \in {"staged", "stored"}
               PROVE  \/ files[u] = "stored" /\ \E k \in Saved' : revisions'[k].storage_path = u
                      \/ \E s \in Requests : u \in Pending(s)'
                      \/ u \in lost
    BY <1>1 DEF NoOrphanFiles
  <2>1. CASE files[u] = "stored" /\ \E k \in Saved : revisions[k].storage_path = u
    BY <1>4, <1>6, <2>1 DEF Saved
  <2>2. CASE (\E s \in Requests : u \in Pending(s)) \/ u \in lost
    BY <1>7, <2>2
  <2> QED
    BY <2>1, <2>2 DEF IInv, NoOrphanFiles
<1>10. RevisionsHaveTheirFile'
  <2>1. ASSUME NEW k \in Saved' PROVE files'[revisions'[k].storage_path] = "stored"
    <3>1. k \in Saved
      BY <1>4 DEF Saved
    <3> QED
      BY <1>1, <1>6, <3>1 DEF IInv, RevisionsHaveTheirFile
  <2> QED
    BY <2>1 DEF RevisionsHaveTheirFile
<1>11. RowsOK'
  <2>1. \A k \in Saved' : k \in Saved
    BY <1>4 DEF Saved
  <2>2. ASSUME NEW k \in Saved' PROVE documents'[k[1]] # None
    BY <1>5, <2>1 DEF IInv, RowsOK, Saved, Keys
  <2>3. ASSUME NEW j \in Saved', NEW k \in Saved',
               revisions'[j].storage_path = revisions'[k].storage_path
        PROVE  j = k
    BY <1>6, <2>1, <2>3 DEF IInv, RowsOK
  <2> QED
    BY <2>2, <2>3 DEF RowsOK
<1>12. \A e \in events' :
         \/ e \in events
         \/ /\ e.action = "released" /\ e.document = d /\ e.revision = l
            /\ e.file = PathOf(key)
  BY DEF Release, NewEvent
<1>13. EventKeys' /\ MissingIsDeleted'
  <2>1. PathOf(key) \in Uploads
    BY <1>1, <1>2 DEF TypeOK, PathOf, Saved, Revision
  <2> QED
    BY <1>1, <1>2, <1>12, <2>1 DEF IInv, EventKeys, MissingIsDeleted
<1>14. ReleasedIsFrozen'
  <2> SUFFICES ASSUME NEW e \in events', e.action = "released"
               PROVE  revisions'[<<e.document, e.revision>>] =
                        [state |-> "released", storage_path |-> e.file]
    BY DEF ReleasedIsFrozen
  <2>1. CASE e \in events
    <3>1. /\ revisions[<<e.document, e.revision>>] = [state |-> "released", storage_path |-> e.file]
          /\ <<e.document, e.revision>> \in Keys
      BY <2>1 DEF IInv, ReleasedIsFrozen, EventKeys
    <3>2. CASE <<e.document, e.revision>> = key
      <4>1. PathOf(key) = e.file
        BY <1>2, <3>1, <3>2 DEF PathOf, Saved
      <4> QED
        BY <1>3, <3>2, <4>1
    <3>3. CASE <<e.document, e.revision>> # key
      BY <1>3, <3>1, <3>3
    <3> QED
      BY <3>2, <3>3
  <2>2. CASE e \notin events
    BY <1>3, <1>12, <2>2
  <2> QED
    BY <2>1, <2>2
<1>15. ReleasedDocumentIsReleased'
  <2> SUFFICES ASSUME NEW e \in DocIds, documents'[e] # None
               PROVE  /\ documents'[e].current # None => <<e, documents'[e].current>> \in Saved'
                      /\ documents'[e].state = "released" =>
                           /\ documents'[e].current # None
                           /\ revisions'[<<e, documents'[e].current>>].state = "released"
    BY DEF ReleasedDocumentIsReleased
  <2>1. CASE e = d
    BY <1>2, <1>3, <1>4, <1>5, <2>1, NamesAssumption
  <2>2. CASE e # d
    <3>1. documents'[e] = documents[e] /\ \A m \in Labels : <<e, m>> \in Keys \ {key}
      BY <1>5, <2>2 DEF Keys
    <3>2. documents[e].current \in Labels \cup {None}
      BY <1>1, <2>2, <3>1 DEF TypeOK, Document
    <3> QED
      BY <1>3, <1>4, <3>1, <3>2 DEF IInv, ReleasedDocumentIsReleased, Saved
  <2> QED
    BY <2>1, <2>2
<1> QED
  BY <1>7, <1>8, <1>9, <1>10, <1>11, <1>13, <1>14, <1>15 DEF IInv

-----------------------------------------------------------------------------
(* The invariant.                                                          *)

\* The invariant holds at the start.
LEMMA InitInv == Init => IInv
<1> SUFFICES ASSUME Init PROVE IInv
  OBVIOUS
<1>1. TypeOK
  BY IdleTyped DEF Init, TypeOK
<1>2. \A r \in Requests : TransactionOK(r) /\ ReaderOK(r) /\ PendingOK(r) /\ Pending(r) = {}
  BY DEF Init, TransactionOK, InTransaction, ReaderOK, PendingOK, Pending
<1>3. RowsOK /\ RequestsApart /\ RevisionsHaveTheirFile
  BY <1>2 DEF Init, RowsOK, RequestsApart, RevisionsHaveTheirFile, Saved
<1>4. ReleasedIsFrozen /\ ReleasedDocumentIsReleased /\ EventKeys /\ MissingIsDeleted
  BY DEF Init, ReleasedIsFrozen, ReleasedDocumentIsReleased, EventKeys, MissingIsDeleted
<1>5. NoOrphanFiles
  BY DEF Init, NoOrphanFiles
<1> QED
  BY <1>1, <1>2, <1>3, <1>4, <1>5 DEF IInv

\* ... when nothing happens ...
LEMMA StutterInv == IInv /\ UNCHANGED vars => IInv'
<1> SUFFICES ASSUME IInv, UNCHANGED vars PROVE IInv'
  OBVIOUS
<1> USE DEF vars, db, IInv
<1>1. TypeOK'
  BY DEF TypeOK
<1>2. ASSUME NEW r \in Requests
      PROVE  Pending(r)' = Pending(r) /\ TransactionOK(r)' /\ ReaderOK(r)' /\ PendingOK(r)'
  <2>1. Holds(r) /\ FilesMove({}) /\ RowsMove({})
    BY DEF Holds, FilesMove, RowsMove, PathOf
  <2> QED
    BY <1>1, <2>1, OthersKeep
<1>3. RequestsApart' /\ NoOrphanFiles'
  BY <1>2 DEF RequestsApart, NoOrphanFiles, Saved
<1>4. RowsOK' /\ RevisionsHaveTheirFile' /\ ReleasedIsFrozen' /\ ReleasedDocumentIsReleased'
  BY DEF RowsOK, RevisionsHaveTheirFile, ReleasedIsFrozen, ReleasedDocumentIsReleased, Saved
<1>5. EventKeys' /\ MissingIsDeleted'
  BY DEF EventKeys, MissingIsDeleted
<1> QED
  BY <1>1, <1>2, <1>3, <1>4, <1>5

\* The locals of a request that commits.
LEMMA CommitTyped ==
  ASSUME IInv, NEW r \in Requests, CommitRevision(r)
  PROVE  /\ req[r].document \in DocIds /\ req[r].label \in Labels
         /\ req[r].upload \in Uploads /\ req[r].previous \in Uploads \cup {None}
BY DEF CommitRevision, IInv, TypeOK, Local, TransactionOK, PendingOK, InTransaction, Pending, Key,
       Keys

\* ... and after every step.
LEMMA NextInv == IInv /\ [Next]_vars => IInv'
<1> SUFFICES ASSUME IInv, [Next]_vars PROVE IInv'
  OBVIOUS
<1>1. TypeOK'
  BY TypeStep
<1>2. CASE UNCHANGED vars
  BY <1>2, StutterInv
<1>3. ASSUME NEW d \in DocIds, CreateDocument(d) PROVE IInv'
  BY <1>1, <1>3, CreateDocumentStep
<1>4. ASSUME NEW d \in DocIds, NEW l \in Labels, Release(d, l) PROVE IInv'
  BY <1>1, <1>4, ReleaseStep
<1>5. ASSUME NEW r \in Requests, NEW d \in DocIds, NEW l \in Labels,
             CreateWithFile(r, d, l) \/ ReviseLock(r, d, l)
      PROVE  IInv'
  BY <1>1, <1>5, CreateWithFileStep, ReviseLockStep
<1>6. ASSUME NEW r \in Requests, NEW d \in DocIds, ArchiveRead(r, d) \/ DownloadRead(r, d)
      PROVE  IInv'
  BY <1>1, <1>6, ReadStep
<1>7. ASSUME NEW r \in Requests, SaveRevision(r) PROVE IInv'
  <2>1. CASE \E u \in Uploads : StageFile(r, u)
    BY <1>1, <2>1, StageFileStep
  <2>2. CASE FinalizeFile(r)
    BY <1>1, <2>2, FinalizeFileStep
  <2>3. CASE DiscardFile(r) \/ DeletePrevious(r)
    BY <1>1, <2>3, EndStep
  <2>4. CASE CommitRevision(r)
    <3>1. /\ req[r].document \in DocIds /\ req[r].label \in Labels
          /\ req[r].upload \in Uploads /\ req[r].previous \in Uploads \cup {None}
      BY <2>4, CommitTyped
    <3> QED
      BY <1>1, <2>4, <3>1, CommitRevisionStep
  <2> QED
    BY <1>7, <2>1, <2>2, <2>3, <2>4 DEF SaveRevision
<1>8. ASSUME NEW r \in Requests, ArchiveSave(r) PROVE IInv'
  <2>1. req[r].document \in DocIds
    BY <1>8 DEF ArchiveSave, IInv, ReaderOK
  <2> QED
    BY <1>1, <1>8, <2>1, ArchiveSaveStep
<1>9. ASSUME NEW r \in Requests, ArchiveEvent(r) \/ DownloadOpen(r) PROVE IInv'
  BY <1>1, <1>9, EventStep
<1>10. ASSUME NEW r \in Requests, Abort(r) PROVE IInv'
  BY <1>1, <1>10, EndStep
<1> QED
  BY <1>2, <1>3, <1>4, <1>5, <1>6, <1>7, <1>8, <1>9, <1>10 DEF Next

\* The inductive invariant holds in every reachable state.
THEOREM Invariance == Spec => []IInv
BY InitInv, NextInv, PTL DEF Spec

\* Type correctness for any number of requests, documents, labels and uploads.
THEOREM TypeCorrect == Spec => []TypeOK
<1>1. IInv => TypeOK
  BY DEF IInv
<1> QED
  BY <1>1, Invariance, PTL

\* A committed revision always has its file, whatever fails
\* (_create_or_replace_revision).
THEOREM CommittedRevisionsHaveTheirFile == Spec => []RevisionsHaveTheirFile
<1>1. IInv => RevisionsHaveTheirFile
  BY DEF IInv
<1> QED
  BY <1>1, Invariance, PTL

\* What was released is never replaced (release_revision).
THEOREM ReleasedStaysFrozen == Spec => []ReleasedIsFrozen
<1>1. IInv => ReleasedIsFrozen
  BY DEF IInv
<1> QED
  BY <1>1, Invariance, PTL

\* The current revision of a released document is released (revisions, archive).
THEOREM ReleasedDocumentsAreReleased == Spec => []ReleasedDocumentIsReleased
<1>1. IInv => ReleasedDocumentIsReleased
  BY DEF IInv
<1> QED
  BY <1>1, Invariance, PTL

\* A download misses only files that were replaced (download).
THEOREM DownloadsMissReplacedFiles == Spec => []MissingOnlyIfReplaced
<1>1. IInv => MissingOnlyIfReplaced
  <2> SUFFICES ASSUME IInv, NEW e \in events, e.action = "storage_missing",
                      PathOf(<<e.document, e.revision>>) = e.file
               PROVE  FALSE
    BY DEF MissingOnlyIfReplaced
  <2>1. <<e.document, e.revision>> \in Keys /\ e.file \in Uploads /\ files[e.file] = "deleted"
    BY DEF IInv, EventKeys, MissingIsDeleted
  <2>2. files[PathOf(<<e.document, e.revision>>)] = "stored"
    BY <2>1, NamesAssumption DEF IInv, RevisionsHaveTheirFile, PathOf, Saved
  <2> QED
    BY <2>1, <2>2
<1> QED
  BY <1>1, Invariance, PTL

\* Files without an owner are those of requests that stopped (storage.py).
THEOREM FilesHaveOwners == Spec => []NoOrphanFiles
<1>1. IInv => NoOrphanFiles
  BY DEF IInv
<1> QED
  BY <1>1, Invariance, PTL

\* Releases are final, for the revision and for its document (release_revision,
\* revisions, archive).
THEOREM ReleasesStayFinal == Spec => []ReleasesAreFinal
BY ReleasedStaysFrozen, ReleasedDocumentsAreReleased, PTL DEF ReleasesAreFinal

\* No file is missing or left over, but for those of requests that stopped and
\* of drafts that were replaced (download, _create_or_replace_revision).
THEOREM FilesStayAccountedFor == Spec => []FilesAreAccountedFor
BY TypeCorrect, DownloadsMissReplacedFiles, FilesHaveOwners, PTL DEF FilesAreAccountedFor

-----------------------------------------------------------------------------
(* Refinement.                                                             *)

\* The three variables of the store.
Content == [key \in Keys |->
  IF PathOf(key) # None /\ files[PathOf(key)] = "stored" THEN PathOf(key) ELSE None]

Released == {key \in Saved : revisions[key].state = "released"}

Current == [d \in DocIds |-> IF documents[d] = None THEN None ELSE documents[d].current]

\* As every revision has its file, a reader gets the file that its row names.
LEMMA ContentIsPath ==
  ASSUME IInv, IInv'
  PROVE  /\ Content = [key \in Keys |-> PathOf(key)]
         /\ Content' = [key \in Keys |-> PathOf(key)']
<1>1. RevisionsHaveTheirFile /\ RevisionsHaveTheirFile'
  BY DEF IInv
<1>2. Content = [key \in Keys |-> PathOf(key)]
  BY <1>1 DEF RevisionsHaveTheirFile, Content, PathOf, Saved
<1>3. Content' = [key \in Keys |-> PathOf(key)']
  BY <1>1 DEF RevisionsHaveTheirFile, Content, PathOf, Saved
<1> QED
  BY <1>2, <1>3

\* Most steps are invisible in the store.
LEMMA InvisibleStep ==
  ASSUME IInv, IInv', UNCHANGED revisions,
         \A d \in DocIds :
           (IF documents'[d] = None THEN None ELSE documents'[d].current)
             = (IF documents[d] = None THEN None ELSE documents[d].current)
  PROVE  UNCHANGED <<Content, Released, Current>>
<1>1. Content' = Content
  BY ContentIsPath DEF PathOf
<1>2. Released' = Released
  BY DEF Released, Saved
<1>3. Current' = Current
  BY DEF Current
<1> QED
  BY <1>1, <1>2, <1>3

\* The commit is the step in which readers see the save.
LEMMA CommitIsSave ==
  ASSUME IInv, IInv', NEW r \in Requests, CommitRevision(r),
         NEW d \in DocIds, NEW l \in Labels, NEW u \in Uploads, NEW p \in Uploads \cup {None},
         req[r].document = d, req[r].label = l, req[r].upload = u, req[r].previous = p
  PROVE  Store!Save(d, l, u)
<1> DEFINE key == <<d, l>>
<1>0. CommitEffect(r, d, l, u, p)
  BY CommitFacts DEF IInv
<1>1. /\ key \in Keys
      /\ req[r].new <=> documents[d] = None
      /\ revisions[key] # None => revisions[key].state = "draft"
      /\ revisions'[key] # None /\ revisions'[key].state = "draft"
      /\ \A k \in Keys \ {key} : revisions'[k] = revisions[k]
      /\ PathOf(key)' = u /\ \A k \in Keys \ {key} : PathOf(k)' = PathOf(k)
      /\ documents'[d] = SavedDocument(r) /\ SavedDocument(r) \in Document
      /\ \A e \in DocIds \ {d} : documents'[e] = documents[e]
  BY <1>0 DEF CommitEffect
<1>2. key \notin Released
  BY <1>1 DEF Released, Saved
<1>3. Content' = [Content EXCEPT ![key] = u]
  <2>1. Content = [k \in Keys |-> PathOf(k)]
    BY ContentIsPath
  <2>2. Content' = [k \in Keys |-> PathOf(k)']
    BY ContentIsPath
  <2> QED
    BY <1>1, <2>1, <2>2
<1>4. Released' = Released
  <2>1. ASSUME NEW k \in Keys PROVE k \in Released' <=> k \in Released
    BY <1>1 DEF Released, Saved
  <2> QED
    BY <2>1 DEF Released, Saved
<1>5. Current' \in {Current, [Current EXCEPT ![d] = l]}
  <2>1. \A e \in DocIds \ {d} : Current'[e] = Current[e]
    BY <1>1 DEF Current
  <2>2. /\ Current = [e \in DocIds |-> Current[e]]
        /\ Current' = [e \in DocIds |-> Current'[e]]
    BY DEF Current
  <2>3. Current'[d] \in {Current[d], l}
    <3>1. documents[d] # None => documents[d] \in Document
      BY DEF IInv, TypeOK
    <3>2. Current'[d] = SavedDocument(r).current
      BY <1>1, NamesAssumption DEF Current
    <3>3. OwnDocument(r).current = Current[d]
      BY <1>1 DEF OwnDocument, Current
    <3>4. SavedDocument(r).current \in {OwnDocument(r).current, l}
      BY <1>1, <3>1 DEF SavedDocument, OwnDocument, Document
    <3> QED
      BY <3>2, <3>3, <3>4
  <2> QED
    BY <2>1, <2>2, <2>3
<1> QED
  BY <1>2, <1>3, <1>4, <1>5 DEF Store!Save, Content, Released, Current, Keys

\* A release is one step for readers too.
LEMMA ReleaseIsRelease ==
  ASSUME IInv, IInv', NEW d \in DocIds, NEW l \in Labels, Release(d, l)
  PROVE  Store!Release(d, l)
<1> DEFINE key == <<d, l>>
<1>1. /\ key \in Saved /\ key \in Keys
      /\ revisions'[key] = [state |-> "released", storage_path |-> PathOf(key)]
      /\ \A k \in Keys \ {key} : revisions'[k] = revisions[k]
  BY ReleaseFacts
<1>2. /\ \A k \in Keys : PathOf(k)' = PathOf(k)
      /\ \A k \in Keys : k \in Saved' <=> k \in Saved
  BY ReleaseFacts
<1>3. /\ documents'[d] = [state |-> "released", current |-> l]
      /\ documents'[d] # None
      /\ \A e \in DocIds \ {d} : documents'[e] = documents[e]
  BY ReleaseFacts
<1>4. Content = [k \in Keys |-> PathOf(k)] /\ Content' = [k \in Keys |-> PathOf(k)']
  BY ContentIsPath
<1>5. Content[key] # None
  BY <1>1, <1>4, NamesAssumption DEF IInv, TypeOK, PathOf, Revision, Saved
<1>6. Content' = Content
  BY <1>2, <1>4
<1>7. Released' = Released \cup {key}
  <2>1. ASSUME NEW k \in Keys PROVE k \in Released' <=> k \in Released \cup {key}
    BY <1>1, <1>2 DEF Released, Saved
  <2> QED
    BY <1>1, <2>1 DEF Released, Saved
<1>8. Current' = [Current EXCEPT ![d] = l]
  <2>1. Current'[d] = l /\ \A e \in DocIds \ {d} : Current'[e] = Current[e]
    BY <1>3 DEF Current
  <2>2. /\ Current = [e \in DocIds |-> Current[e]]
        /\ Current' = [e \in DocIds |-> Current'[e]]
    BY DEF Current
  <2> QED
    BY <2>1, <2>2
<1> QED
  BY <1>5, <1>6, <1>7, <1>8 DEF Store!Release, Content, Released, Current, Keys

\* The documents implement the store in which a save and a release are one
\* step each.
THEOREM DocumentsImplementStore == Spec => SavesAreAtomic
<1>1. Init => Store!Init
  BY DEF Init, Store!Init, PathOf, Saved, Keys
<1>2. ASSUME IInv, IInv', [Next]_vars
      PROVE  Store!Next \/ UNCHANGED <<Content, Released, Current>>
  <2>1. CASE \E d \in DocIds, l \in Labels : Release(d, l)
    BY <1>2, <2>1, ReleaseIsRelease DEF Store!Next
  <2>2. CASE \E r \in Requests : CommitRevision(r)
    <3>1. PICK r \in Requests : CommitRevision(r)
      BY <2>2
    <3>2. PICK d \in DocIds, l \in Labels, u \in Uploads, p \in Uploads \cup {None} :
            req[r].document = d /\ req[r].label = l /\ req[r].upload = u /\ req[r].previous = p
      BY <1>2, <3>1, CommitTyped
    <3>3. Store!Save(d, l, u)
      BY <1>2, <3>1, <3>2, CommitIsSave
    <3> QED
      BY <3>3 DEF Store!Next
  <2>3. CASE \E d \in DocIds : CreateDocument(d)
    <3>1. PICK d \in DocIds : CreateDocument(d)
      BY <2>3
    <3> QED
      BY <1>2, <3>1, InvisibleStep DEF CreateDocument, IInv, TypeOK
  <2>4. CASE \E r \in Requests : ArchiveSave(r)
    <3>1. PICK r \in Requests : ArchiveSave(r)
      BY <2>4
    <3>2. TypeOK /\ req[r].document \in DocIds /\ documents[req[r].document] # None
      BY <1>2, <3>1 DEF ArchiveSave, IInv, ReaderOK
    <3>3. PICK d \in DocIds : d = req[r].document
      BY <3>2
    <3>4. /\ documents'[d] = [documents[d] EXCEPT !.state = "obsolete"]
          /\ \A e \in DocIds \ {d} : documents'[e] = documents[e]
          /\ documents[d] \in Document /\ revisions' = revisions
      BY <3>1, <3>2, <3>3 DEF ArchiveSave, TypeOK
    <3>5. documents'[d].current = documents[d].current /\ documents'[d] \in Document
      BY <3>4 DEF Document
    <3> QED
      BY <1>2, <3>4, <3>5, NamesAssumption, InvisibleStep
  <2>5. CASE UNCHANGED <<documents, revisions>>
    BY <1>2, <2>5, InvisibleStep
  <2>6. CASE Next
    <3>1. ASSUME NEW r \in Requests,
                 \/ \E d \in DocIds :
                      \/ \E l \in Labels : CreateWithFile(r, d, l) \/ ReviseLock(r, d, l)
                      \/ ArchiveRead(r, d)
                      \/ DownloadRead(r, d)
                 \/ \E u \in Uploads : StageFile(r, u)
                 \/ FinalizeFile(r) \/ DiscardFile(r) \/ DeletePrevious(r)
                 \/ ArchiveEvent(r) \/ DownloadOpen(r) \/ Abort(r)
          PROVE  UNCHANGED <<documents, revisions>>
      BY <3>1 DEF db, CreateWithFile, ReviseLock, ArchiveRead, DownloadRead, StageFile,
                  FinalizeFile, DiscardFile, DeletePrevious, ArchiveEvent, DownloadOpen, Abort
    <3> QED
      BY <2>1, <2>2, <2>3, <2>4, <2>5, <2>6, <3>1 DEF Next, SaveRevision
  <2>7. CASE UNCHANGED vars
    BY <2>5, <2>7 DEF vars, db
  <2> QED
    BY <1>2, <2>6, <2>7
<1>3. IInv /\ IInv' /\ [Next]_vars => [Store!Next]_<<Content, Released, Current>>
  BY <1>2
<1> QED
  BY <1>1, <1>3, Invariance, PTL DEF Spec, SavesAreAtomic, Store!Spec, Content, Released, Current
=============================================================================
