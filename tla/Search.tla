------------------------------- MODULE Search -------------------------------
(***************************************************************************)
(* The search index as a copy of the database (apps/search): tasks posted  *)
(* after a commit, workers that read a row and then send it, a rebuild of  *)
(* everything, and searches in the index or, without one, in the database. *)
(*                                                                         *)
(* A row has a word (its title, name, path or file name), a status and a   *)
(* tag (the data of a record).  Accounts and grants are those of           *)
(* Permissions and stay as they are, since the index holds nothing of      *)
(* them; links are those of Relationships.                                 *)
(***************************************************************************)
EXTENDS Relationships, Sequences

CONSTANTS
  Revisions, Projects, Events,  \* the rows beside the records
  RecordOf,        \* the record of each revision and project
  MatchedRecord,   \* of each folder event, or None
  FolderRecord,    \* the record of the event's managed folder, or None
  IndexOrder,      \* the indexes in the order of a rebuild
  Words, Statuses, Tags,
  InitialRows,     \* the rows of the installation, which are indexed
  Writable,        \* the rows that requests write
  RowInputs,       \* what requests write into a row
  ObjectGrants, RecordGrants,  \* the grants of this installation
  Workers,         \* the processes of Celery
  MaxWrites,       \* bound on the number of commits
  MaxLosses,       \* bound on the number of rows that lost something
  MaxRebuilds      \* bound on the number of rebuilds

Objects == RecordIds \cup Revisions \cup Projects \cup Events

IndexOf(o) ==
  CASE o \in RecordIds -> "records"
    [] o \in Revisions -> "documents"
    [] o \in Projects -> "projects"
    [] OTHER -> "folder_events"

IndexNames == {"records", "documents", "projects", "folder_events"}

Row == [word : Words, status : Statuses, tag : Tags]

\* at is not part of an entry; it dates what was read.
Entry == [own : Row, about : SUBSET [record : RecordIds, word : Words \cup Tags], at : 0..MaxWrites]

Task == [object : Objects, entry : Entry]

\* The records that the foreign keys of a row name.
References(o) ==
  CASE o \in Revisions \cup Projects -> {RecordOf[o]}
    [] o \in Events -> {MatchedRecord[o], FolderRecord[o]} \ {None}
    [] OTHER -> {}

ASSUME SearchAssumption ==
  /\ \A r \in RecordIds : r \notin Revisions \cup Projects \cup Events
  /\ \A d \in Revisions : d \notin Projects \cup Events
  /\ \A p \in Projects : p \notin Events
  /\ RecordOf \in [Revisions \cup Projects -> RecordIds]
  /\ MatchedRecord \in [Events -> RecordIds \cup {None}]
  /\ FolderRecord \in [Events -> RecordIds \cup {None}]
  /\ InitialRows \in [Objects -> Row \cup {None}]
  /\ None \notin Row /\ None \notin Entry /\ None \notin Task
  /\ \A o \in Objects : InitialRows[o] # None => \A r \in References(o) : InitialRows[r] # None
  /\ \A l \in OldLinks : InitialRows[l.source] # None /\ InitialRows[l.target] # None
  /\ Writable \subseteq Objects /\ RowInputs \subseteq Row
  /\ IndexOrder \in Seq(IndexNames)
  /\ ObjectGrants \in [GrantRoles \X Types -> {None} \cup SUBSET Actions]
  /\ RecordGrants \in [GrantRoles \X RecordIds -> RecordGrant \cup {None}]
  /\ \A g \in GrantRoles \X RecordIds : RecordGrants[g] # None => RecordGrants[g].type = TypeOf[g[2]]
  /\ {MaxWrites, MaxLosses, MaxRebuilds} \subseteq Nat

VARIABLES
  rows,       \* the database
  index,      \* the entry of each row in Meilisearch, or None
  queue,      \* the number of index tasks of each row
  workers,    \* the entry that each worker is about to send, or None
  rebuild,    \* what the rebuild has still to do
  clock,      \* the number of commits so far
  lost,       \* rows of which a post or an entry was lost since they were last read
  overtaken   \* rows of which since then an older entry replaced a newer one

search == <<rows, index, queue, workers, rebuild, clock, lost, overtaken>>
vars == <<access, link_vars, search>>

-----------------------------------------------------------------------------
(* Entries.                                                                *)

\* The records that a link joins to a record, with the words by which the text
\* of the entry names them.
Neighbours(r) == {n \in RecordIds : \E l \in links : {<<r, n>>, <<n, r>>} \cap {<<l.source, l.target>>} # {}}

NameOf(r) == [record |-> r, word |-> rows[r].word]

\* What an entry says of other rows than its own.
About(o) ==
  CASE o \in RecordIds -> {NameOf(n) : n \in Neighbours(o)}
    [] o \in Projects -> {[record |-> RecordOf[o], word |-> w] : w \in {rows[RecordOf[o]].word, rows[RecordOf[o]].tag}}
    [] o \in Events -> IF MatchedRecord[o] = None THEN {} ELSE {NameOf(MatchedRecord[o])}
    [] OTHER -> {}

Payload(o) == [own |-> rows[o], about |-> About(o), at |-> clock]

Rebuilding == rebuild.deleting # <<>> \/ rebuild.adding # <<>> \/ rebuild.batch # <<>>

Init ==
  /\ users = InitialUsers
  /\ object_grants = ObjectGrants
  /\ record_grants = RecordGrants
  /\ patches = [r \in Requests |-> None]
  /\ LinkInit
  /\ rows = InitialRows
  /\ clock = 0
  /\ index = [o \in Objects |-> IF rows[o] = None THEN None ELSE Payload(o)]
  /\ queue = [o \in Objects |-> 0]
  /\ workers = [w \in Workers |-> None]
  /\ rebuild = [number |-> 0, deleting |-> <<>>, adding |-> <<>>, batch |-> <<>>]
  /\ lost = {} /\ overtaken = {}

-----------------------------------------------------------------------------
(* Commits and the tasks that they post.                                   *)

\* transaction.on_commit: the tasks are posted after the commit, one by one; a
\* request that stops or a broker that is down loses the rest.
Enqueue(objects) ==
  /\ \E posted \in SUBSET objects :
       /\ Cardinality(objects \ posted) + Cardinality(lost) <= MaxLosses
       /\ queue' = [o \in Objects |-> IF o \in posted THEN queue[o] + 1 ELSE queue[o]]
       /\ lost' = lost \cup (objects \ posted)
  /\ clock < MaxWrites
  /\ clock' = clock + 1
  /\ UNCHANGED <<index, workers, rebuild, overtaken>>

\* The requests of records, revisions and folder events post the task of the
\* row that they write.
WriteRow(o) ==
  /\ \A r \in References(o) : rows[r] # None
  /\ \E row \in RowInputs \ {rows[o]} : rows' = [rows EXCEPT ![o] = row]
  /\ Enqueue({o})
  /\ UNCHANGED <<access, link_vars>>

ProjectTasks(o) == {o, RecordOf[o]}

ProjectRecord(record, row) == IF record = None THEN row ELSE [record EXCEPT !.tag = row.tag]

\* create_project and update_project write the project and its record.
WriteProject(o) ==
  /\ \E row \in RowInputs \ {rows[o]} :
       rows' = [rows EXCEPT ![o] = row, ![RecordOf[o]] = ProjectRecord(rows[RecordOf[o]], row)]
  /\ Enqueue(ProjectTasks(o))
  /\ UNCHANGED <<access, link_vars>>

\* A bug this module can show: the task of the target is forgotten.
SourceOf(link) == {link.source}

\* The entries that name a record of the link.
EndsOf(link) == {link.source, link.target}

ChangeLinks(r) ==
  /\ UNCHANGED rows
  /\ \/ SaveLink(r) /\ Enqueue(EndsOf(creating[r].link))
     \/ \E u \in Users, link \in links : DeleteLink(u, link) /\ Enqueue(EndsOf(link))

RequestLink(r) ==
  /\ UNCHANGED search
  /\ \/ \E u \in Users, link \in LinkInputs \ links :
          rows[link.source] # None /\ rows[link.target] # None /\ StartLink(r, u, link)
     \/ RefuseLink(r)

-----------------------------------------------------------------------------
(* Workers and the rebuild.                                                *)

\* Meilisearch replaces the entries of these rows.
AddDocuments(entries) ==
  /\ index' = [o \in Objects |-> IF o \in DOMAIN entries THEN entries[o] ELSE index[o]]
  /\ overtaken' = overtaken \cup
       {o \in DOMAIN entries : index[o] # None /\ entries[o].at < index[o].at}

\* What a new entry brings is no longer missing in the index.
Read(objects) ==
  /\ lost' = lost \ objects
  /\ overtaken' = overtaken \ objects

\* An index task reads its row; a row that is not there ends it.
StartTask(w, o) ==
  /\ workers[w] = None
  /\ queue[o] > 0
  /\ queue' = [queue EXCEPT ![o] = @ - 1]
  /\ workers' = [workers EXCEPT ![w] = IF rows[o] = None THEN None ELSE [object |-> o, entry |-> Payload(o)]]
  /\ Read({o})
  /\ UNCHANGED <<access, link_vars, rows, index, rebuild, clock>>

SendEntry(w) ==
  /\ workers[w] # None
  /\ AddDocuments([o \in {workers[w].object} |-> workers[w].entry])
  /\ workers' = [workers EXCEPT ![w] = None]
  /\ UNCHANGED <<access, link_vars, rows, queue, rebuild, clock, lost>>

\* A request to Meilisearch that fails is logged and not repeated.
FailToSend(w) ==
  /\ workers[w] # None
  /\ Cardinality(lost) < MaxLosses
  /\ lost' = lost \cup {workers[w].object}
  /\ workers' = [workers EXCEPT ![w] = None]
  /\ UNCHANGED <<access, link_vars, rows, index, queue, rebuild, clock, overtaken>>

StartRebuild ==
  /\ ~Rebuilding
  /\ rebuild.number < MaxRebuilds
  /\ rebuild' = [rebuild EXCEPT !.number = @ + 1, !.deleting = IndexOrder, !.adding = IndexOrder]
  /\ UNCHANGED <<access, link_vars, rows, index, queue, workers, clock, lost, overtaken>>

DeleteAllDocuments ==
  /\ rebuild.deleting # <<>>
  /\ index' = [o \in Objects |-> IF IndexOf(o) = Head(rebuild.deleting) THEN None ELSE index[o]]
  /\ rebuild' = [rebuild EXCEPT !.deleting = Tail(@)]
  /\ UNCHANGED <<access, link_vars, rows, queue, workers, clock, lost, overtaken>>

RowsOf(name) == {o \in Objects : IndexOf(o) = name /\ rows[o] # None}

\* The rows of one index; here they are one batch.
ReadBatch ==
  /\ rebuild.deleting = <<>> /\ rebuild.batch = <<>> /\ rebuild.adding # <<>>
  /\ rebuild' = [rebuild EXCEPT
       !.batch = [o \in RowsOf(Head(rebuild.adding)) |-> Payload(o)],
       !.adding = Tail(@)]
  /\ Read(RowsOf(Head(rebuild.adding)))
  /\ UNCHANGED <<access, link_vars, rows, index, queue, workers, clock>>

SendBatch ==
  /\ rebuild.deleting = <<>> /\ rebuild.batch # <<>>
  /\ AddDocuments(rebuild.batch)
  /\ rebuild' = [rebuild EXCEPT !.batch = <<>>]
  /\ UNCHANGED <<access, link_vars, rows, queue, workers, clock, lost>>

FailToSendBatch ==
  /\ rebuild.deleting = <<>> /\ rebuild.batch # <<>>
  /\ Cardinality(lost \cup DOMAIN rebuild.batch) <= MaxLosses
  /\ lost' = lost \cup DOMAIN rebuild.batch
  /\ rebuild' = [rebuild EXCEPT !.batch = <<>>]
  /\ UNCHANGED <<access, link_vars, rows, index, queue, workers, clock, overtaken>>

Next ==
  \/ \E o \in Writable \ Projects : WriteRow(o)
  \/ \E o \in Writable \cap Projects : WriteProject(o)
  \/ \E r \in Requests : ChangeLinks(r) \/ RequestLink(r)
  \/ \E w \in Workers : (\E o \in Objects : StartTask(w, o)) \/ SendEntry(w) \/ FailToSend(w)
  \/ StartRebuild \/ DeleteAllDocuments \/ ReadBatch \/ SendBatch \/ FailToSendBatch

Spec == Init /\ [][Next]_vars
-----------------------------------------------------------------------------
(* Properties.                                                             *)

SearchTypeOK ==
  /\ AccessTypeOK /\ LinkTypeOK
  /\ rows \in [Objects -> Row \cup {None}]
  /\ index \in [Objects -> Entry \cup {None}]
  /\ queue \in [Objects -> 0..MaxWrites]
  /\ workers \in [Workers -> Task \cup {None}]
  /\ DOMAIN rebuild.batch \subseteq Objects
  /\ clock \in 0..MaxWrites
  /\ lost \cup overtaken \subseteq Objects

\* Nothing will bring another entry of this row.
Settled(o) ==
  /\ queue[o] = 0
  /\ \A w \in Workers : workers[w] = None \/ workers[w].object # o
  /\ IndexOf(o) \notin {rebuild.adding[n] : n \in DOMAIN rebuild.adding}
  /\ o \notin DOMAIN rebuild.batch

Spared == {o \in Objects : rows[o] # None} \ (lost \cup overtaken)

Fresh(o) == index[o] # None /\ index[o].own = rows[o]

\* As soon as its own tasks are done, a row is in the index as it is in the
\* database, whatever a rebuild or the tasks of other rows do meanwhile, unless
\* a post was lost or an older entry replaced a newer one; the next task of the
\* row, or a rebuild, repairs that too (tasks.py 39-92, 125-168).
SettledRowsAreFresh == \A o \in Spared : Settled(o) => Fresh(o)

\* The entry of a record then names exactly the records that it is linked to,
\* since the tasks of both ends are posted; what it calls them may be old.
EntriesNameTheirLinks ==
  \A o \in Spared \cap RecordIds : Settled(o) => {n.record : n \in index[o].about} = Neighbours(o)

\* The index is what the database is, row by row.
IndexFollowsRows == SearchTypeOK /\ SettledRowsAreFresh /\ EntriesNameTheirLinks
=============================================================================
