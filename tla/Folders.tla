------------------------------ MODULE Folders ------------------------------
(***************************************************************************)
(* Managed folders (apps/folders): directories made for records, scans     *)
(* that compare the files with the snapshots of the last scan and report   *)
(* differences as events, reviews of events, and the legacy folders that   *)
(* an import links to records (apps/imports).                              *)
(*                                                                         *)
(* A directory stands with its template's children for one value.  Events  *)
(* are a set; of equal rows, two are told from one.  Who an event is       *)
(* assigned to, and the index tasks of events (Search), are left out, and  *)
(* so are symbolic links.  No code disables a folder.  Grants are those of *)
(* Permissions and stay as they are.                                       *)
(***************************************************************************)
EXTENDS Permissions, Sequences

CONSTANTS
  Paths,          \* directories below MANAGED_FILE_ROOT
  Below,          \* the pairs of a directory and one in it or deeper
  Root,           \* the directory that the template gives a record
  Suffixed,       \* the same with the beginning of the record's id
  Names, Hashes,  \* of files
  PlaceRank, RecordRank,  \* the order of paths and that of records
  InitialDirs,    \* directories that people have made already
  InitialFiles,   \* and the files in them
  Touched,        \* bound on the files that people change
  LinkLists,      \* lists of links that users accept
  Scanners,       \* workers that run the task of scans
  Reviewed,       \* the types of events that are reviewed
  ObjectGrants, RecordGrants,
  MaxChanges      \* bound on what people do in the file system, together with
                  \* the directories that users ask for, the links that they
                  \* accept, signals, generations and scans that fail and backups

Place(path, name) == [path |-> path, name |-> name]

\* Files, and with the name None directories.
Places == [path : Paths, name : Names \cup {None}]

\* What a request that makes a directory has decided.
Generation == [record : RecordIds, signal : BOOLEAN, made : BOOLEAN,
               path : Paths, collision : Paths \cup {None}]

Link == [record : RecordIds, place : Places]

ASSUME FolderAssumption ==
  /\ {Root, Suffixed} \subseteq [RecordIds -> Paths]
  /\ InitialDirs \subseteq Paths /\ Below \subseteq Paths \X Paths
  /\ PlaceRank \in [Places -> Nat] /\ RecordRank \in [RecordIds -> Nat]
  /\ LinkLists \subseteq Seq(Link)
  /\ Touched \subseteq Paths \X Names
  /\ InitialFiles \in [Paths \X Names -> Hashes \cup {None}]
  /\ ObjectGrants \in [GrantRoles \X Types -> {None} \cup SUBSET Actions]
  /\ RecordGrants \in [GrantRoles \X RecordIds -> RecordGrant \cup {None}]
  /\ None \notin Paths \cup Names \cup Places \cup Hashes \cup Generation
  /\ MaxChanges \in Nat

VARIABLES
  dirs,        \* the directories that exist
  files,       \* the hash of each file, or None
  unreadable,  \* files that cannot be opened
  created,     \* the records that exist
  awaiting,    \* those whose signal is still to run after the commit
  folders,     \* the place of the ManagedFolder of a record and role, or None
  snapshots,   \* its FolderFileSnapshot rows: a hash for each place
  events,      \* the FolderChangeEvent rows
  copies,      \* those that there are two of
  documents,   \* documents that were made of events
  generating,  \* the Generation of each request that makes a directory, or None
  scans,       \* the task of each scanner and what it has read, or None
  removed,     \* places that people have removed at some time
  changes,     \* how much of MaxChanges is used
  stopped      \* the records whose signal or generation failed without a word

disk == <<dirs, files, unreadable, removed>>
rows == <<created, folders, snapshots, events, copies, documents>>
folder_vars == <<disk, rows, awaiting, generating, scans, changes, stopped>>
vars == <<access, folder_vars>>

-----------------------------------------------------------------------------
(* Rows.                                                                   *)

FolderKeys == RecordIds \X {"primary", "legacy"}

\* from is the old place of a file that was moved; a place without a name is
\* that of a directory.
Event == [type : {"added", "modified", "deleted", "moved", "collision", "link_requested", "generation_failed"},
          place : Places, from : Places \cup {None}, hash : Hashes \cup {None},
          record : RecordIds, folder : FolderKeys \cup {None},
          status : {"pending", "accepted", "ignored", "linked"}]

FileEvent(type, place, from, hash, key) ==
  [type |-> type, place |-> place, from |-> from, hash |-> hash,
   record |-> key[1], folder |-> key, status |-> "pending"]

RecordEvent(type, path, record, folder) ==
  [type |-> type, place |-> Place(path, None), from |-> None, hash |-> None,
   record |-> record, folder |-> folder, status |-> "pending"]

LinkEvent(link) ==
  [type |-> "link_requested", place |-> link.place, from |-> None, hash |-> None,
   record |-> link.record, folder |-> <<link.record, "legacy">>, status |-> "linked"]

SameFileEvent(e, f) == <<e.type, e.place, e.from, e.hash, e.status>> = <<f.type, f.place, f.from, f.hash, f.status>>

SameRecordEvent(e, f) == <<e.type, e.place, e.record, e.status>> = <<f.type, f.place, f.record, f.status>>

\* get_or_create: an event that is pending already is not created again.
WithFileEvents(new) == events \cup {e \in new : \A f \in events : ~SameFileEvent(e, f)}

WithRecordEvents(new) == events \cup {e \in new : \A f \in events : ~SameRecordEvent(e, f)}

\* It raises when there are two of them.
Ambiguous(new) ==
  \E e \in new, f \in events :
    SameFileEvent(e, f) /\ (f \in copies \/ \E g \in events \ {f} : SameFileEvent(f, g))

Init ==
  /\ users = InitialUsers
  /\ object_grants = ObjectGrants
  /\ record_grants = RecordGrants
  /\ patches = [r \in Requests |-> None]
  /\ dirs = InitialDirs
  /\ files = InitialFiles /\ unreadable = {}
  /\ created = {} /\ awaiting = {}
  /\ folders = [k \in FolderKeys |-> None]
  /\ snapshots = [k \in FolderKeys |-> <<>>]
  /\ events = {} /\ copies = {} /\ documents = {}
  /\ generating = [r \in Requests |-> None]
  /\ scans = [s \in Scanners |-> None]
  /\ removed = {}
  /\ changes = 0 /\ stopped = {}

-----------------------------------------------------------------------------
(* The directory of a record.                                              *)

Within(path) == {path} \cup {p \in Paths : <<path, p>> \in Below}

Exists(place) == IF place.name = None THEN place.path \in dirs ELSE files[<<place.path, place.name>>] # None

GenerationFailed(local) ==
  IF local.signal THEN {RecordEvent("generation_failed", Root[local.record], local.record, None)} ELSE {}

\* A bug this module can show: the failure of a signal is only logged.
FailuresLogged(local, path) == {RecordEvent("collision", path, local.record, None)}

\* What is reported when a directory cannot be made: the collision and, when
\* nobody asked for the directory but the signal of a new record, the failure.
Failures(local, path) == {RecordEvent("collision", path, local.record, None)} \cup GenerationFailed(local)

\* Nothing is done for a record whose directory is where its row says.
Finished(record) == folders[<<record, "primary">>] # None /\ Exists(folders[<<record, "primary">>])

\* The directory of the template, or the one with the suffix if that exists.
Chosen(record, signal) ==
  [record |-> record, signal |-> signal, made |-> FALSE,
   path |-> IF Root[record] \in dirs THEN Suffixed[record] ELSE Root[record],
   collision |-> IF Root[record] \in dirs THEN Root[record] ELSE None]

StartGenerate(r, record, signal) ==
  LET local == Chosen(record, signal) IN
  /\ generating[r] = None
  /\ IF Finished(record) THEN UNCHANGED <<events, generating>>
     ELSE IF local.path \in dirs
     THEN /\ events' = WithRecordEvents(Failures(local, local.collision))
          /\ UNCHANGED generating
     ELSE /\ generating' = [generating EXCEPT ![r] = local]
          /\ UNCHANGED events
  /\ UNCHANGED <<access, disk, created, folders, snapshots, copies, documents, scans, stopped>>

CreateRecord(record) ==
  /\ record \notin created
  /\ created' = created \cup {record}
  /\ awaiting' = awaiting \cup {record}
  /\ UNCHANGED <<access, disk, folders, snapshots, events, copies, documents, generating, scans, changes, stopped>>

\* The signal of a new record is a callback after the commit ...
RunSignal(r, record) ==
  /\ record \in awaiting
  /\ awaiting' = awaiting \ {record}
  /\ StartGenerate(r, record, TRUE)
  /\ UNCHANGED changes

\* ... that never runs when an earlier callback raises or the process ends, and
\* may itself raise when it cannot write its event.
LoseSignal(record) ==
  /\ record \in awaiting
  /\ changes < MaxChanges
  /\ changes' = changes + 1
  /\ awaiting' = awaiting \ {record}
  /\ stopped' = stopped \cup {record}
  /\ UNCHANGED <<access, disk, rows, generating, scans>>

RequestFolder(r, u, record) ==
  /\ record \in created
  /\ changes < MaxChanges
  /\ changes' = changes + 1
  /\ CanView(u, record) /\ UserCan(u, "admin", TypeOf[record], record)
  /\ StartGenerate(r, record, FALSE)
  /\ UNCHANGED awaiting

\* An import that creates folders asks for one as well, in a callback after that
\* of the signal.
ImportFolder(r, record) ==
  /\ record \in created \ awaiting
  /\ changes < MaxChanges
  /\ changes' = changes + 1
  /\ StartGenerate(r, record, FALSE)
  /\ UNCHANGED awaiting

MakeDirectory(r) ==
  /\ generating[r] # None /\ ~generating[r].made
  /\ LET local == generating[r] IN
     IF local.path \in dirs
     THEN /\ events' = WithRecordEvents(Failures(local, IF local.collision = None THEN local.path ELSE local.collision))
          /\ generating' = [generating EXCEPT ![r] = None]
          /\ UNCHANGED dirs
     ELSE /\ dirs' = dirs \cup {local.path} \cup {p \in Paths : <<p, local.path>> \in Below}
          /\ generating' = [generating EXCEPT ![r].made = TRUE]
          /\ UNCHANGED events
  /\ UNCHANGED <<access, files, unreadable, removed, created, awaiting, folders, snapshots, copies, documents, scans, changes, stopped>>

\* A bug this module can show: the row is written before its directory.
ReadyToCommitEarly(r) == generating[r] # None

ReadyToCommit(r) == generating[r] # None /\ generating[r].made

PlaceTaken(key, place) == \E k \in FolderKeys \ {key} : folders[k] = place

\* The row and the collision that was avoided are committed together.  A path
\* that another row has fails on its constraint; the directory stays.
CommitFolder(r) ==
  /\ ReadyToCommit(r)
  /\ LET local == generating[r]
         key == <<local.record, "primary">>
         collision == RecordEvent("collision", local.collision, local.record, key)
     IN IF PlaceTaken(key, Place(local.path, None))
        THEN /\ events' = WithRecordEvents(GenerationFailed(local))
             /\ UNCHANGED folders
        ELSE /\ folders' = [folders EXCEPT ![key] = Place(local.path, None)]
             /\ events' = IF local.collision = None THEN events
                          ELSE {IF SameRecordEvent(e, collision) /\ e.folder = None THEN [e EXCEPT !.folder = key] ELSE e
                                : e \in WithRecordEvents({collision})}
  /\ generating' = [generating EXCEPT ![r] = None]
  /\ UNCHANGED <<access, disk, created, awaiting, snapshots, copies, documents, scans, changes, stopped>>

\* The process ends: the transaction is rolled back, a directory stays.
StopGenerate(r) ==
  /\ generating[r] # None
  /\ changes < MaxChanges
  /\ changes' = changes + 1
  /\ stopped' = IF generating[r].signal THEN stopped \cup {generating[r].record} ELSE stopped
  /\ generating' = [generating EXCEPT ![r] = None]
  /\ UNCHANGED <<access, disk, rows, awaiting, scans>>

-----------------------------------------------------------------------------
(* Scans.                                                                  *)

\* The readable and unreadable files below a directory: none if it is missing,
\* and none below what is a file.
Current(place) ==
  LET found == {f \in Paths \X Names : /\ place.name = None /\ place.path \in dirs
                                       /\ f[1] \in Within(place.path) /\ files[f] # None}
  IN [p \in {Place(f[1], f[2]) : f \in found} |-> files[<<p.path, p.name>>]]

CannotRead(place) == DOMAIN Current(place) \cap unreadable # {}

\* The order of the rows, by record and role.
Earlier(k, l) ==
  \/ RecordRank[k[1]] < RecordRank[l[1]]
  \/ RecordRank[k[1]] = RecordRank[l[1]] /\ k[2] = "legacy" /\ l[2] = "primary"

\* A task reads all rows first and then goes from one folder to the next.
StartTask(s) ==
  /\ scans[s] = None
  /\ \E k \in FolderKeys : folders[k] # None
  /\ scans' = [scans EXCEPT ![s] =
       [todo |-> [k \in {l \in FolderKeys : folders[l] # None} |-> folders[k]], reading |-> None]]
  /\ UNCHANGED <<access, disk, rows, awaiting, generating, changes, stopped>>

\* The files, then the snapshots; both are one step here.  A file that cannot be
\* read ends the task.
ReadFolder(s) ==
  /\ scans[s] # None /\ scans[s].reading = None
  /\ \E k \in DOMAIN scans[s].todo :
       /\ \A l \in DOMAIN scans[s].todo : ~Earlier(l, k)
       /\ LET place == scans[s].todo[k] IN
          scans' = [scans EXCEPT ![s] =
            IF CannotRead(place) THEN None
            ELSE [@ EXCEPT !.reading = [folder |-> k, current |-> Current(place), previous |-> snapshots[k], since |-> {}]]]
  /\ UNCHANGED <<access, disk, rows, awaiting, generating, changes, stopped>>

Added(previous, current) == DOMAIN current \ DOMAIN previous

Deleted(previous, current) == DOMAIN previous \ DOMAIN current

\* The first added file with a hash is the first deleted file with it, and so on
\* in the order of their paths.
Moves(previous, current) ==
  LET old == Deleted(previous, current)
      new == Added(previous, current)
      Position(p, noted, among) == Cardinality({q \in among : noted[q] = noted[p] /\ PlaceRank[q] < PlaceRank[p]})
  IN {m \in old \X new : /\ previous[m[1]] = current[m[2]]
                         /\ Position(m[1], previous, old) = Position(m[2], current, new)}

\* A bug this module can show: files of the same size are taken for the same.
DifferencesInSize(key, previous, current) ==
  LET moves == Moves(previous, current) IN
  {FileEvent("moved", m[2], m[1], current[m[2]], key) : m \in moves}
  \cup {FileEvent("added", p, None, current[p], key) :
          p \in {q \in Added(previous, current) : \A m \in moves : m[2] # q}}
  \cup {FileEvent("deleted", p, None, previous[p], key) :
          p \in {q \in Deleted(previous, current) : \A m \in moves : m[1] # q}}

Differences(key, previous, current) ==
  LET moves == Moves(previous, current) IN
  {FileEvent("moved", m[2], m[1], current[m[2]], key) : m \in moves}
  \cup {FileEvent("added", p, None, current[p], key) :
          p \in {q \in Added(previous, current) : \A m \in moves : m[2] # q}}
  \cup {FileEvent("modified", p, None, current[p], key) :
          p \in {q \in DOMAIN current \cap DOMAIN previous : current[q] # previous[q]}}
  \cup {FileEvent("deleted", p, None, previous[p], key) :
          p \in {q \in Deleted(previous, current) : \A m \in moves : m[1] # q}}

\* A bug this module can show: rows of deleted files stay.
KeptSnapshots(key, current) ==
  [p \in DOMAIN current \cup DOMAIN snapshots[key] |-> IF p \in DOMAIN current THEN current[p] ELSE snapshots[key][p]]

ReplacedSnapshots(key, current) == current

\* Events and snapshots are written in one transaction, over whatever another
\* scan has written since this one read; of the events that the other one created
\* meanwhile, this one may have looked for some too early.
CommitScan(s) ==
  /\ scans[s] # None /\ scans[s].reading # None
  /\ LET scan == scans[s].reading
         new == Differences(scan.folder, scan.previous, scan.current)
         rest == [k \in DOMAIN scans[s].todo \ {scan.folder} |-> scans[s].todo[k]]
         next == IF DOMAIN rest = {} THEN None ELSE [todo |-> rest, reading |-> None]
     IN IF Ambiguous(new)
        THEN /\ scans' = [scans EXCEPT ![s] = None]
             /\ UNCHANGED <<events, copies, snapshots>>
        ELSE \E missed \in SUBSET {e \in new : \E f \in scan.since : SameFileEvent(e, f)} :
               /\ events' = WithFileEvents(new) \cup missed
               /\ copies' = copies \cup (missed \cap events)
               /\ snapshots' = [snapshots EXCEPT ![scan.folder] = ReplacedSnapshots(scan.folder, scan.current)]
               /\ scans' = [t \in Scanners |->
                    IF t = s THEN next
                    ELSE IF scans[t] # None /\ scans[t].reading # None
                    THEN [scans[t] EXCEPT !.reading.since = @ \cup (events' \ events) \cup missed] ELSE scans[t]]
  /\ UNCHANGED <<access, disk, created, awaiting, folders, documents, generating, changes, stopped>>

\* A file that goes away while it is read, two scans that insert the same
\* snapshot, the end of the process: the transaction is rolled back, and the
\* task ends with all folders that are left.
FailScan(s) ==
  /\ scans[s] # None
  /\ changes < MaxChanges
  /\ changes' = changes + 1
  /\ scans' = [scans EXCEPT ![s] = None]
  /\ UNCHANGED <<access, disk, rows, awaiting, generating, stopped>>

-----------------------------------------------------------------------------
(* Reviews.                                                                *)

\* The list and the single event, whichever of its records is visible.
Shown(u, e) ==
  \/ IsSystemAdmin(u)
  \/ CanView(u, e.record)
  \/ e.folder # None /\ CanView(u, e.folder[1])

CanReview(u, e) == IsSystemAdmin(u) \/ UserCan(u, "edit", TypeOf[e.record], e.record)

\* Of two equal rows one is written.
Rewritten(e, status) ==
  /\ events' = (IF e \in copies THEN events ELSE events \ {e}) \cup {[e EXCEPT !.status = status]}
  /\ copies' = copies \ {e}

\* Nobody looks at the status that the event has.
Review(u, e, status) ==
  /\ Shown(u, e) /\ CanReview(u, e)
  /\ Rewritten(e, status)
  /\ UNCHANGED <<access, disk, created, awaiting, folders, snapshots, documents, generating, scans, changes, stopped>>

IsInside(place, folder) == place = folder \/ (folder.name = None /\ place.path \in Within(folder.path))

\* The document belongs to the record and to the folder; the place that the
\* event names is only looked at.
LinkDocument(u, e) ==
  /\ Shown(u, e) /\ CanReview(u, e)
  /\ e.folder # None
  /\ IsInside(e.place, folders[e.folder])
  /\ documents' = documents \cup {[record |-> e.record, folder |-> e.folder]}
  /\ Rewritten(e, "linked")
  /\ UNCHANGED <<access, disk, created, awaiting, folders, snapshots, generating, scans, changes, stopped>>

\* The row of a record has this place when n links of the list are written.
HasPlace(links, n, k, place) ==
  LET mine == {m \in 1..n : k = <<links[m].record, "legacy">>} IN
  IF mine = {} THEN folders[k] = place
  ELSE \E m \in mine : links[m].place = place /\ \A o \in mine : o <= m

\* Users accept links, all of them or none: to any file or directory that is
\* there, whatever was suggested before and whatever the record had, if no other
\* row has it when the link is written.
AcceptFolderLinks(u, type, links) ==
  /\ links # <<>> /\ changes < MaxChanges
  /\ \A n \in DOMAIN links :
       /\ links[n].record \in created /\ TypeOf[links[n].record] = type
       /\ UserCan(u, "admin", type, links[n].record)
       /\ Exists(links[n].place)
       /\ \A k \in FolderKeys \ {<<links[n].record, "legacy">>} : ~HasPlace(links, n - 1, k, links[n].place)
  /\ \E last \in [{links[n].record : n \in DOMAIN links} -> DOMAIN links] :
       /\ \A n \in DOMAIN links : links[last[links[n].record]].record = links[n].record /\ n <= last[links[n].record]
       /\ folders' = [k \in FolderKeys |->
            IF k[1] \in DOMAIN last /\ k[2] = "legacy" THEN links[last[k[1]]].place ELSE folders[k]]
  /\ events' = events \cup {LinkEvent(links[n]) : n \in DOMAIN links}
  /\ changes' = changes + 1
  /\ UNCHANGED <<access, disk, created, awaiting, snapshots, copies, documents, generating, scans, stopped>>

-----------------------------------------------------------------------------
(* People in the file system.                                              *)

ChangeFile(f, hash) ==
  /\ f[1] \in dirs
  /\ files[f] # hash
  /\ files' = [files EXCEPT ![f] = hash]
  /\ removed' = IF hash = None THEN removed \cup {Place(f[1], f[2])} ELSE removed
  /\ unreadable' = unreadable \ {Place(f[1], f[2])}
  /\ UNCHANGED dirs

MoveFile(f, to) ==
  /\ files[f] # None /\ files[to] = None /\ to[1] \in dirs
  /\ files' = [files EXCEPT ![to] = files[f], ![f] = None]
  /\ removed' = removed \cup {Place(f[1], f[2])}
  /\ unreadable' = unreadable \ {Place(f[1], f[2])}
  /\ UNCHANGED dirs

LockFile(f) ==
  /\ files[f] # None
  /\ unreadable' = unreadable \cup {Place(f[1], f[2])}
  /\ UNCHANGED <<dirs, files, removed>>

RemoveDirectory(path) ==
  /\ path \in dirs
  /\ \A n \in Names : files[<<path, n>>] = None
  /\ \A p \in Within(path) \ {path} : p \notin dirs
  /\ dirs' = dirs \ {path}
  /\ removed' = removed \cup {Place(path, None)}
  /\ UNCHANGED <<files, unreadable>>

People ==
  /\ changes < MaxChanges
  /\ changes' = changes + 1
  /\ \/ \E f \in Touched :
          LockFile(f) \/ (\E hash \in Hashes \cup {None} : ChangeFile(f, hash)) \/ \E to \in Touched : MoveFile(f, to)
     \/ \E path \in Paths : RemoveDirectory(path)
  /\ UNCHANGED <<access, rows, awaiting, generating, scans, stopped>>

FolderNext ==
  \/ \E record \in RecordIds : CreateRecord(record) \/ LoseSignal(record)
  \/ \E r \in Requests, record \in RecordIds : RunSignal(r, record) \/ ImportFolder(r, record) \/ \E u \in Users : RequestFolder(r, u, record)
  \/ \E r \in Requests : MakeDirectory(r) \/ CommitFolder(r) \/ StopGenerate(r)
  \/ \E s \in Scanners : StartTask(s) \/ ReadFolder(s) \/ CommitScan(s) \/ FailScan(s)
  \/ \E u \in Users, e \in {f \in events : f.type \in Reviewed} :
       LinkDocument(u, e) \/ \E status \in {"accepted", "ignored"} : Review(u, e, status)
  \/ \E u \in Users, type \in Types, links \in LinkLists : AcceptFolderLinks(u, type, links)
  \/ People

\* Celery's beat posts the task every 15 minutes, so that a free worker does not
\* stay without one, and workers go on with what they have begun.  Nothing is
\* promised to a single folder.
ScanFairness ==
  /\ WF_vars(\E s \in Scanners : StartTask(s))
  /\ \A s \in Scanners : WF_vars(ReadFolder(s)) /\ WF_vars(CommitScan(s))

-----------------------------------------------------------------------------
(* Properties.                                                             *)

FoldersTypeOK ==
  /\ AccessTypeOK
  /\ dirs \subseteq Paths /\ removed \cup unreadable \subseteq Places
  /\ files \in [Paths \X Names -> Hashes \cup {None}]
  /\ awaiting \subseteq created /\ created \subseteq RecordIds
  /\ folders \in [FolderKeys -> Places \cup {None}]
  /\ \A k \in FolderKeys : DOMAIN snapshots[k] \subseteq Places
  /\ events \subseteq Event /\ copies \subseteq events
  /\ generating \in [Requests -> Generation \cup {None}]
  /\ \A k \in FolderKeys, l \in FolderKeys : folders[k] # None /\ folders[k] = folders[l] => k = l

\* A row of a folder has its file or directory on the disk, unless people removed
\* it: also when the process ends between the directory and the commit.
FoldersAreOnDisk == \A k \in FolderKeys : folders[k] # None => Exists(folders[k]) \/ folders[k] \in removed

\* No two folders have the same place, and each place is there.
FoldersAreConsistent == FoldersTypeOK /\ FoldersAreOnDisk

HashAt(noted, p) == IF p \in DOMAIN noted THEN noted[p] ELSE None

\* A pending event of a file that was other before.
Reports(e, p, before, after) ==
  /\ e.status = "pending"
  /\ CASE after = None -> /\ e.hash = before
                          /\ (e.type = "deleted" /\ e.place = p) \/ (e.type = "moved" /\ e.from = p)
       [] before = None -> e.hash = after /\ e.type \in {"added", "moved"} /\ e.place = p
       [] OTHER -> e.hash = after /\ e.type = "modified" /\ e.place = p

\* What becomes the snapshots of a folder was so in those that its scan had
\* read, or is reported by an event that waits for its reviewers; that the same
\* was reported before, or that another scan wrote in between, is no excuse.
NotesAreReported ==
  \A k \in FolderKeys : snapshots'[k] # snapshots[k] =>
    \E s \in Scanners :
      /\ scans[s] # None /\ scans[s].reading # None /\ scans[s].reading.folder = k
      /\ \A p \in Places :
           LET before == HashAt(scans[s].reading.previous, p)
               after == HashAt(snapshots'[k], p)
           IN before = after \/ \E e \in events' : Reports(e, p, before, after)

\* No difference that a scan met is kept from the reviewers.
DifferencesAreReported == [][NotesAreReported]_vars

\* A new record gets its directory, or the reviewers learn that it did not,
\* unless its signal was lost or the process ended first.
MissingFoldersAreReported ==
    \A record \in created \ (awaiting \cup stopped) :
      \/ folders[<<record, "primary">>] # None
      \/ \E r \in Requests : generating[r] # None /\ generating[r].record = record
      \/ \E e \in events : e.type = "generation_failed" /\ e.record = record

\* The scan of a folder fails again and again: a file cannot be read, or an event
\* that it looks for is there twice.
KeepsFailing(k) ==
  /\ folders[k] # None
  /\ CannotRead(folders[k]) \/ Ambiguous(Differences(k, snapshots[k], Current(folders[k])))

\* Once people leave files and folders alone, the snapshots become what is on the
\* disk and stay so, although tasks overlap and may fail: of all folders before
\* the first one whose scan keeps failing, at which every task ends
\* (scan_all_managed_folders, scanner.py 30-34).
ScansCatchUp ==
  <>[](\A k \in FolderKeys :
         \/ folders[k] = None \/ snapshots[k] = Current(folders[k])
         \/ \E l \in FolderKeys : ~Earlier(k, l) /\ KeepsFailing(l))
=============================================================================
