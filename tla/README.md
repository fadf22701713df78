# Engineering data hub: a TLA+ model of the backend

This directory specifies, model-checks and proves properties of the Django
backend in `src/backend/apps`: what its requests and background jobs do to the
database and to the managed files when they run at the same time, fail half-way
or are repeated.  Every module is translated from the source; the map in
`PROJECT.json` names the lines of each definition.

## The system

Requests are served by several workers against one PostgreSQL database in READ
COMMITTED mode.  `ATOMIC_REQUESTS` is off: a view is a sequence of autocommitted
statements except where it opens `transaction.atomic()`, and a row is protected
only where the code says `select_for_update()`.  Celery runs the folder scan
(every 15 minutes), the backup (nightly) and the search indexing tasks.  Files
live under a managed root, outside the database.

| component | state | operations | what is hard | what makes it correct |
|---|---|---|---|---|
| Configuration registry (`config_registry`) | drafts, numbered immutable versions, a sequence row, definition rows, the runtime workflow and dashboard rows | create, update, validate, publish | two publishes at once; an update that overlaps a publish; the role check before the transaction; rollback between the statements of a publish; guards that are only words | versions contiguous and never changed; a draft published once; runtime rows those of the active version; the keys and types that validation accepts can be stored, workflows in order can be finished; destructive changes reported, confirmed and made by a system admin |
| Record validation (`records/validation.py`) | none | validate data against the active configuration | unique values, options in two notations, references to records of a type | a draft without reported changes keeps stored data valid wherever the comparison can judge it |
| Records (`records`) | records, the code sequence of each object type, a lock row per object type | create, update, release | stale instance data merged into a PATCH; full-row saves; release without lock; a publish between two reads of the configuration | unique fields unique; codes unique; only overlapping requests undo each other; data valid under a version of the time |
| Workflows (`workflows`) | definitions, states, transitions, one instance per record and definition, tasks, history | get or create an instance, transition, complete a task | two transitions of one instance; a publish that replaces transitions in flight; a task completed twice | one transition at a time; guards hold when the transition commits; required tasks done |
| Documents (`documents`) | documents, revisions, events; staged and final files | create, add a revision, release, archive, download | the database commits and the file system does not; crash between them; two revisions at once | a committed revision has its file; a released revision never changes; one released revision |
| Managed folders (`folders`) | folder rows, file snapshots, reconciliation events; directories | generate, scan, accept, ignore, link | overlapping scans; directories made inside a transaction; signals that are lost after the commit; people who change files meanwhile; one task for all folders | every row has its place; every difference is reported; the folders before a failing one catch up |
| Imports (`imports`) | jobs with a file, a result, a state and counters; legacy folders | upload, dry run, apply, accept links | dry run and apply of one job at once; an apply that stops at a row; other writers of the same records; callbacks after the commit that raise | an import comes whole or not at all, within the grants of its user; the job tells what was done; what precedes a failed callback is posted |
| Projects (`projects`) | projects, columns, tasks, dependencies, events; the project's record | create, update, move a task, add a dependency | concurrent edges that close a circle; two copies of the same data; rows locked in different orders | dependencies acyclic; project and record keep what each was sent; moves form a path |
| Search (`search`) | the Meilisearch indexes, the Celery queue | index, delete, rebuild, search | lost posts; workers that overtake each other; a rebuild during updates; an index older than the grants | the index follows the rows; no search shows a row that its reader may not see (snippets aside) |
| Audit (`audit`) | audit events | record an event, list events | grants of today over payloads of then | a user sees the events of what he may see |
| Backups (`backups`) | backup manifests, a dump, archives and exports | create a backup | dump and archives taken at different times while rows and files change | a finished backup has all its parts and its folder rows have their places |
| Accounts and permissions (`accounts`) | users, groups, object and record grants | create, PATCH, deactivate, grant; `user_can`, visibility querysets, lookups | one rule in two forms: a test of an object and a filter of a queryset; a PATCH that overlaps a deactivation | both forms agree; an account comes back only by an overlap |
| Relationships (`relationships`) | links between records | create, delete, graph | grants checked twice; links made under older types | the graph is what its reader reaches through visible records |
| Reports (`reports`) | saved views, dashboards | run views, counts, overdue items, missing documents, bottlenecks, home | limits before or after the grants | a report shows the first visible rows and counts nothing else |
| API schema, seeds, management commands | none | start-up | none | none |
| Frontend (`src/frontend`) | React state | screens over the API | none of the shared state | none of its own |
| Operations (`src/ops`, docker, scripts) | none | deploy, restore | none | none |

Interactions: records, imports, projects and workflows read the active
configuration at the moment they validate; a publish rewrites the rows of
workflows and dashboards; projects and imports write records; documents and
folders share the managed root; every change calls the audit service and posts
an indexing task to the search queue; every read goes through the grants.

## The modules

| module | models | code |
|---|---|---|
| `RecordValidation` | schemas, data and `validate_record_data` | `records/validation.py` |
| `ConfigDiff` | `breaking_changes_for_draft`, and what a schema change really does to stored records | `config_registry/services.py` 423-614 |
| `ConfigPayload` | `validate_draft`, the definition rows, the runtime workflows with their guards and tasks, symbolic or written out, what stops a publish | `config_registry/services.py` |
| `ConfigDrafts` | edits of a draft, seen as object types and as data | `config_registry/services.py`, `views.py` |
| `ConfigHistory` | abstract: a growing list of configurations and the workflows that run | |
| `ConfigRegistry` | drafts, versions, runtime rows, row locks, the steps of every request | `config_registry/views.py`, `services.py` |
| `Records` | records, code sequences, lock rows, the steps of create, update and release | `records/serializers.py`, `views.py`, `codes.py` |
| `DocumentStore` | abstract: the file that a reader of each revision gets, what is released and current | |
| `Documents` | rows, events and files of documents, the steps of every request, requests that stop | `documents/views.py`, `storage.py` |
| `WorkflowRules` | the contents of a workflow definition and the guards of its transitions | `workflows/engine.py`, `models.py` |
| `WorkflowProcess` | abstract: instances that move by one transition at a time | |
| `Workflows` | definitions, instances, tasks, row locks, the steps of every request | `workflows/engine.py`, `views.py`, `tasks.py`, `models.py` |
| `Projects` | projects with their records, boards, moves and dependencies, row locks, what the pages show | `projects/services.py`, `views.py`, `models.py` |
| `Permissions` | accounts, grants, `user_can` and the filters of lists | `accounts/permissions.py`, `serializers.py`, `views.py` |
| `UserLookups` | the accounts that pickers offer, by scope and text, up to a limit | `accounts/views.py` |
| `Relationships` | links, the types that allow them, the graph around a record | `relationships/` |
| `Reports` | saved views, counts, lists with limits, the home page, audit events | `reports/query.py`, `audit/views.py` |
| `Search` | posts, workers, the index and its rebuild | `search/tasks.py`, `indexers.py`, `client.py` |
| `SearchQueries` | a search in the index and in the database | `search/views.py` |
| `ImportLedger` | abstract: files imported in one step, each row into a record of its own, with a log | |
| `Imports` | jobs, dry runs, applies, callbacks after the commit | `imports/services.py`, `views.py`, `mapping.py` |
| `Folders` | files and directories, rows, signals, tasks of scans with their snapshots, events, reviews, legacy folders | `folders/`, `imports/` |
| `Backups` | the parts of a backup in their order | `backups/` |
| `*Proofs` | the theorems about the component they are named after; `ConfigRegistryProofs` also those about drafts, `AccessProofs` those about everything that users read: rules, graph, reports, events, searches | |
| `MC*` | the instances that TLC checks | |

How they depend on each other: `ConfigDiff` and `ConfigPayload` extend
`RecordValidation`, and `ConfigDrafts` extends both; `ConfigRegistry` extends
`ConfigDiff` and implements `ConfigHistory`; `Records` extends `RecordValidation` and
takes a publish as one step, which is what `ConfigRegistry` implementing
`ConfigHistory` allows; `Workflows` does the same and implements `WorkflowProcess`,
both of them over `WorkflowRules`; `Documents` implements `DocumentStore`, and
`Imports` implements `ImportLedger`.  `Permissions` is under everything that users
read: `UserLookups`, `Relationships`, `Imports` and `Folders` extend it, `Reports`
and `Search` extend `Relationships`, `Reports` also `UserLookups`, `SearchQueries`
extends `Search`, and `Backups` extends `Folders`.

### How the code becomes actions

A request is a process: `pc[r]` says where it stands, `req[r]` holds its local
variables.  Each action is a stretch of statements between two points at which
another request can make a difference: a read without a lock, the wait for a
lock, a commit, an operation on a file.  What a transaction writes appears in the
shared variables at its commit; the locks it took appear when it takes them.
Several statements under a lock on which every rival waits are one action, and a
transaction that takes all its locks before it reads and does nothing outside the
database (a document's release) is one action as well.  An exception that the
code turns into a response ends the request without a write; a crash, a lost
connection or an integrity error is an action of its own (`PublishRollback`,
`Rollback`, `DiscardFile`, `Abort`).

Some definitions appear twice, one of them marked "Mutation of" or called a bug that
the module can show: it is the same handler with a plausible mistake (a dropped lock,
a read too early, a file deleted too soon).  Replacing the handler by it makes the
property it is paired with fail, which shows that the property depends on that part
of the code. `PROJECT.json` pairs them.

`ConfigRegistry`.  `PublishCheckRole` is the view before its transaction;
`PublishLockDraft` the lock, the second look at status, validity and changes;
`PublishAllocateVersion` the sequence row; `PublishSyncRuntime` the runtime rows,
computed from committed rows; `PublishCommit` the end.  A payload is a schema, a
flag for `validate_draft`, and the assignments of workflow and dashboard
definitions to runtime keys; what a schema and the flag stand for is in
`ConfigDrafts`.  `HandMade` rows are the ones that no publish made
and that `_sync_runtime_*` skips.

`Records`.  `CreateStart`, `ReadRow`, `ReadDefinition` and `Validate` are the
serializer before its transaction, in the order of its reads;
`LockAndValidate` the lock row of the type with the second validation;
`CreateCommit` and `UpdateCommit` the save.  `ReleaseSave` has no lock before it,
as in the code.  `ProjectSync` is what `update_project` writes into a record; how
a project gets there is in `Projects`.  Codes are a
pattern and a number; the `generated` flag of a record is not a column.

`Documents`.  `files` says where the file of each upload is.  `StageFile`,
`FinalizeFile`, `CommitRevision` and `DeletePrevious` are the four steps of
`_create_or_replace_revision` that matter to others; `DiscardFile` is its two
exception handlers; `Abort` is everything that the handlers do not see.  `lost`
collects the files of requests that stopped, so that a file without an owner can
be told from a file leaked by the code.  A document that is being created is
locked by its creator, because nobody else sees the row.

`Workflows`.  `FindInstance`, `FindDefinition` and `CreateInstance` are the three
queries of `get_or_create_instance_for_record`, which no transaction holds
together; `updates` keeps the order of `updated_at`.  `CheckPermission` is the
view's look at the transition; `Lock` takes the rows of `select_for_update` one
by one, in the order in which the query joins them; `ValidateGuards` reads the
transition again and validates it, `PerformTransition` writes the state, the
tasks and the event.  `CompleteTask`, `CheckTask` and `MarkDone` do the same for
a task.  A publish, a save of the record and a new document are one step each and
wait for the rows that a transition has locked.  The definitions are those of the
type of the records.  An event keeps the whole transition that was performed,
because a publish may replace the row; a task is found again by its event and its
key, which stand for its primary key.

`ConfigPayload`.  Pure functions of a payload: a section is a list, something
else, or absent; a definition is an object with or without its keys, and `fits`
says that its columns take its values (a null label, a key of more than 120
characters and the like do not).  `Failures` is what stops a publish, `Outcome`
what becomes of a draft.  The guards of a workflow are words such as
`owner_assigned`; `SymbolicGuards` is the table that turns them into fields, tasks
and documents, `SymbolicRuntimeGuard` the search for the fields in an object type.
A guard or a list of task templates that is written out is taken as it is
(`RuntimeGuard`, `RuntimeTasks`).

`Projects`.  A request holds the list of rows it has yet to lock in `wait` and
takes them one by one, in the order in which the query joins them; a lock that
another request holds leaves it waiting.  After the last lock one step reads and
checks (`ReadProject`, `ReadTask`, `CheckCycle`), the next one writes.  A PATCH of
the project's record merges before its lock, as the serializer does.
`Prerequisites` is the set that `_would_create_cycle` walks through.  `Board`,
`Timeline`, `Detail`, `Events` and `Workload` are the pages; `EstimatedHours` is the
sum that the database makes.

`Permissions`.  A PATCH of an account reads the row in `StartPatch` and saves all of
its columns in `SavePatch`; everything else is one statement.  `UserCan` is the test
of one object, `RecordsUserCanView` the filter of a query, `UserHasViewScope` the
check before a list.  In `UserLookups`, `LookupUsers` has every list that a picker
may show: which accounts the cut at 50 leaves out depends on an order that the code
does not always give.  The roles of a user are names of groups, some with the power
of "manager" or "project" in them.

`Relationships`, `Reports`.  A creation checks types and grants in `StartLink` and
the grants again in `SaveLink`.  `BuildRecordGraph` is the breadth-first walk of the
graph, one round per depth.  In `Reports` every page is a function of grants and
links; records, documents and tasks are given in the order of their queries, links
have ids to be cut by, and limits cut where the code cuts.  Audit events are those
that the links write and a given set of older ones, one of every form of payload.

`Search`.  `queue` counts the tasks of each row, because equal tasks are the same; a
post can be lost between commit and broker, a write to Meilisearch can fail.  A
worker reads the row in `StartTask` and sends it in `SendEntry`, so that two workers
overtake each other; `lost` and `overtaken` collect the rows whose entry nobody has
to correct, until the next task or a rebuild reads them.  A rebuild deletes the
index and adds batches read before.  `SearchQueries` answers a query twice, from the
index with authorised hits and from the database.  The two match words in ways of
their own (what a text begins with, or the letters of columns and of JSON with its
keys), compare statuses in lower case or as they are, and cut at 50 entries and 20
results; what a word matches is a table of the instance.

`Imports`.  A dry run reads in `StartDryRun` and stores in `SaveDryRun`, without a
look at the state in between.  An apply locks its job and sorts the rows again
(`StartApply`), checks grants and data once more for all of them (`Preflight`) and
saves them one by one (`SaveRow`), from the first save on under the lock row of
the type; others see them at `CommitApply`.  Signals, index posts and folders are
callbacks afterwards: any of them may raise, and `FailCallback` takes all that are
left with it.  `owed` holds the records whose post nothing excuses.

`Folders`, `Backups`.  Rows, directories and files are separate, as database and
disk are; a place is a file or a directory, and `Below` says which directory is in
which.  `CreateRecord` is the commit, `RunSignal` the callback after it, which
`LoseSignal` drops when something before it raises.  `MakeDirectory` happens inside
the transaction that `CommitFolder` ends or `StopGenerate` undoes without its
directory.  `StartTask` reads the rows of all folders, `ReadFolder` takes the
previous snapshots and the files of the next one, `CommitScan` replaces the
snapshots and adds the differences as events; a file that cannot be read, an event
that is there twice (`Ambiguous`) and `FailScan` end the whole task.
`AcceptFolderLinks` writes a list of links, all or none, to any places that exist.
`People` change and lock files and remove directories.  A backup writes its parts
in `BackupOrder`, one step each.

## What is checked

Properties that belong together are conjunctions of named parts, so that a run
shows all of them with one name; TLC prints the state, from which the part can be
told.

| run | question | states |
|---|---|---|
| `config_diff` | Where does the comparison of two configurations miss a change that makes stored records invalid? Over every pair of small schemas, only at keys that it declares over values that are already there, and where flags, choices or targets are read in two ways. Can the keys and types of every draft that validation accepts be stored, and can its workflows be finished as long as their transitions lead through their states? Over every two edits of the starter configuration. | 68 927 |
| `config_registry` | Two requests, two drafts, a narrow, a wider and an invalid payload, rollbacks: are versions contiguous, drafts published once, runtime rows those of the active version, does what a publish has checked still hold when it commits, do locks end with their transactions, is a publish one step for its readers and a published draft final, and does every request end? | 78 953 |
| `breaking_changes_approved` | Was every version that breaks the one before it confirmed, by a system admin? No. | fails |
| `records` | Two requests, two records, two payloads, a stricter configuration published in between, a manual code equal to the first generated one: are unique values unique, codes fresh, data accepted by a configuration of the time, and is a release or a value undone by an overlapping update only? | 1.1 million |
| `records_project` | The same for project records, into which project updates write unvalidated data: do the other unique fields stay unique? | 350 793 |
| `workflows` | Two requests start, move and review one record, while its workflow is published twice and its data and documents change: is the history a path with its reviews behind it, are tasks completed once, do requests never wait in a circle, and is every transition one step at which its guards hold? | 237 138 |
| `documents` | Three requests, one document, two labels, three uploads, a stop at every step: does every revision have its file, is a release final, which files may be missing or left over, and do readers see single steps? | 113 240 |
| `projects` | Two requests update a project and its record, move its tasks and add dependencies: do dependencies stay acyclic, do updates keep what others wrote, do moves form a path and the pages agree, and who can deadlock? | 661 898 |
| `access` | Administrators change an account and grants while links come and go: do all forms of the rules agree, and do graph, reports and audit pages show what they allow, and all of it up to their limit? | 31 356 |
| `search` | Two workers, a rebuild, lost posts: is each row in the index as in the database when its own tasks are done, and lost posts made good by the next one or a rebuild, is a hit shown only to who may see it and, but for projects, with its present status, and do an up-to-date index and the database agree about a row whose word both match and whose statuses are in lower case? | 132 827 |
| `imports` | Dry runs and applies of two jobs overlap each other and another writer: do jobs stay consistent, is an import one step for its readers (`ImportLedger`), within the grants of its user, and are its records posted when no callback before them failed? | 153 102 |
| `folders` | The signal and a request make the directory of a record, two tasks scan it and its legacy folder, people change and lock files, reviews, links and a backup: is every row at its place and that for itself, is every difference and every missing directory reported, can the folders be restored from a backup, and do the folders before a failing one catch up? | 175 252 |

### The bounds

Requests differ only in what they do, so two are enough for every race in which
one request overtakes another; documents have three, since the file that one
request replaces can be read by a second while a third releases.  Requests return
to rest and start again, so histories are as long as the data allows.  Two drafts
allow the publish that happens between the comparison and the commit of another;
the payloads are a narrow schema, a wider one (harmless in one direction,
destructive in the other) and an invalid one; the counterexample needs the valid
ones only, and its configuration has no other.  `MaxVersions` bounds the
configurations published while records change: with two of them every request can
be overtaken by a publish once, between any two of its reads.  Uploads are used
once, as their path contains a uuid: three of them allow a revision to be
replaced while another one is being staged.  Workflows have one
record, two contents of its definition and two publishes, so that a transition
can be replaced between the view's look and the engine's; three events are two
rounds of review and a release.  Each content asks for something the other does
not: a field and a named task, or a document, a role and all tasks.  A circle of
waits needs only two requests.

`MaxEdits` of `config_diff` is the number of changes made to the starter
configuration by hand: two, because the mistakes it looks for (a key used twice, a
field that a guard needs and the type lacks) are one or two edits away. `MaxWrites`
of `projects` is two moves or dependencies, the number that closes a circle of two
tasks or makes a path; one user may edit, another may only view. `access` has an
administrator, one account and one ordinary role with its grants, three records of
two types, one request and `MaxGrants` = 2: a grant for a type and one for a record
are all forms of grants. Lookups are cut at one account; `MaxScan` = 10 is more than
there is to scan, the cut itself is in the theorems.  `search` has one row of each
kind, `MaxWrites` = 2 (the second write is the one that overtakes), one loss, one
rebuild and queries for a word, a status, a tag and a type, with one status that is
not in lower case and a word that index and database match differently.  The code
would let two rebuilds run at once and sends several batches of an index; that there
is one rebuild at a time (`~Rebuilding`), and one batch, are bounds of the model.
`imports` has two jobs of up to two rows and one write by hand (`MaxEdits` = 1),
which changes a record between the sort of the rows and their save, or takes the code
that comes next.  `folders` has one record, a directory above that of the record and
a legacy one, one name and two contents of files in two places (`Touched`); links are
accepted to the directory above, to the record's own, or to the former and then a
file in one list (`LinkLists`).  `MaxChanges` = 2 bounds, together, what people do,
the directories that are asked for, the links, the signals, generations and scans
that fail, and the backup: any two of them meet.  Events are a set, and of two equal
ones `copies` knows; a third one would change nothing.

Symmetry is used for requests, drafts, records, uploads, workers and jobs, which
the modules treat alike, and not where liveness is checked.  Deadlock is checked
except in `config_diff`, `search` and `folders`, where everything the bounds allow
may have happened and the system rightly stops; in `projects` a deadlock of row
locks ends by the rollback with which PostgreSQL resolves it, and
`OnlyMovesAndDependenciesDeadlock` says when it can come to that.

### Fairness

`RequestsEnd` and `ScansCatchUp` need it.  A request that has started keeps
running (weak fairness of its steps): a worker executes it without waiting for
anything but row locks.  PostgreSQL queues the waiters of a row, so a request that
waits for a row which is free again and again does get it (strong fairness of
`PublishLockDraft` together with `UpdateDraftSave`, and of
`PublishAllocateVersion`).  Celery's beat posts the task that scans all folders
every 15 minutes, so some worker that is free starts one (weak fairness of
`StartTask` for all workers together), and a worker goes on with what it has begun
(weak fairness of `ReadFolder` and `CommitScan`).  Nothing is promised to a single
folder: a task ends at the first folder whose scan raises, and all later ones wait
for the next task.  `ScansCatchUp` therefore excuses a folder while it, or one before
it in the order of the rows, keeps failing (`KeepsFailing`), and no other; failures
that do not last are no excuse, as their number is bounded.
Nothing is assumed about the arrival of requests, about people, about posts to
the search queue or about rollbacks.

## What the code does not keep

One run ends with a counterexample to a sentence of the repository.
`BreakingChangesApproved`: the comparison happens before the wait for the
sequence row, the role check before the transaction.  Two harmless publishes
can follow each other so that the second breaks what the first brought, without
confirmation and without a system admin (admin guide, line 141).

Other things that the models allow, because the code does, and that no property
forbids:

- `update_config_draft` (`config_registry/views.py` 115) saves a payload after an
  unlocked look at the status: update reads, publish commits, update writes, and
  the published draft is not what was published.  `PublicationIsFinal` says that
  nothing else changes it, and nothing once those updates are saved.
- The comparison looks at definitions only.  Records keep values under keys that
  their type does not declare or no longer declares; a draft that declares such a key
  (adds an optional field, or one that was removed before) is not destructive, and
  the values that are there may be of the wrong type or not unique.
- Comparison and validation read definitions differently: a flag counts if it is
  `true` in the one and if it is truthy in the other; `_field_options` (`services.py`
  614) sees options written as strings only; `_field_reference_target` (617) falls
  back to `reference_target_type`, which the validation ignores.  Relationship types
  are not compared at all.
- The workflows of a draft are not validated, nor are values other than keys and
  types.  Two transitions with one key, null workflows, transitions or widgets, a null
  label, or a key of more than 120 characters make a draft that is valid and whose
  publish fails.  `AcceptedKeysAreStored` says that lists, keys and types that were
  validated are not the reason.  The model keeps the parts of a runtime key apart,
  which the code joins with underscores, so that two of them may coincide as well.
- A guard or a task template that is written out in a draft is used as it is: it may
  ask for a field that the type does not have or a task that nobody makes.
  `WorkflowsCanBeFinished` is about the workflows whose written guards do not.
- `RecordSerializer.update` saves all columns of an instance read before the lock.
  A release in between is undone; `UndoneByOverlapOnly` says that nothing else
  undoes it.  A crash in a release leaves it without event and index post.
- `get_or_create_instance_for_record` finds no instance, then the definition of
  that moment: two requests on both sides of a publish that assigns another
  workflow create two instances of one record.
- A dry run does not look at the state of its job: one that overlaps an apply makes
  the job ready once more, and it can be applied twice.
- The signal of a new record is a callback after its commit.  If one before it
  raises, or the process ends, the record has neither a directory nor an event; the
  index posts of an import are lost in the same way.
- Of two overlapping scans the slower one replaces the newer snapshots: changes are
  reported again, and a file that came and went between the two may go unreported.
  `DifferencesAreReported` says that whatever is written was so in the snapshots that
  the scan had read, or is reported.
- Two overlapping scans may each create the same event.  From then on
  `get_or_create` finds two and raises: the scan of the folder fails until one of them
  is reviewed.  A file that cannot be read does the same.  Either ends every task of
  the periodic scan (`scanner.py` 30-34), and the folders behind are never scanned.
- A legacy folder may be any file or directory, one that holds other folders or lies
  in one included; a linked event may be ignored later or linked again.
- A move of a task locks the task before the project, a new dependency the other
  way round: the two deadlock, and PostgreSQL ends one of them.
- A PATCH of an account saves the `is_active` it has read: it reactivates an
  account that was deactivated meanwhile (`ReactivatedByOverlapOnly`).
- A backup whose process dies stays "running".
- `_serialize_recent_records` (`reports/query.py`) returns nothing, so the home
  page never lists its recent records; the model leaves the list out.

## What is proved

The proofs are for any number of requests, workers, drafts, records, documents,
labels, uploads, configurations, projects, tasks, jobs, rows of files, users and
roles.  They rest on the assumptions that the modules name: `None` is no request, row
or key; inputs are well-typed; the classes of values are disjoint; the kinds of
objects differ; the fixed tables (`ProjectOf`, `TypeOf`) are total; older audit
events name records of the system; what is left out of a draft is neither a key, a
field type nor a list.  They assume nothing about scheduling.

Every safety property that a run checks has its theorem.

### Configurations

`ConfigRegistryProofs` proves `UnreportedIsCompatible`: a draft without reported
changes makes a record that was valid invalid at no field but those that the
comparison cannot judge (`UnseenFields`: a value that is already there under a new
key, a definition that is read in two ways).  It goes field by field: if none of the
codes applies and both definitions are plain (`PlainField`), what the old field
accepts the new one accepts, and a new field accepts that there is nothing.
`NoUnreportedChangeBreaksRecords` says it of every draft that is edited and
published.  `AcceptedDraftsHaveKeys` holds of any data: what
`_sync_definition_models` needs of the lists, keys and types of a section follows
from what `validate_draft` asks of it (`Keyed`), although the two are written apart.

`OrderedWorkflowsCanBeFinished` holds of any data and any type as well: if the
transitions of a workflow lead through its states in the order in which they are
listed, no guard asks for a task that none of them made before, and guards that are
written out ask for fields of the type (`InOrder`), a record can take the runtime
transitions that a publish makes of them, one after the other.  `RuntimeGuardAsks` is
the reason: whatever word stands for a guard, the fields that it asks for are fields
of the type, and the tasks are those of the word.
The condition is on the payload alone, so it can be read off a draft;
`StarterAssumption` says that the workflows of the starter satisfy it, and TLC
evaluates it.  The run also removes
transitions and writes guards and tasks out, so that the condition is false of some
drafts.

`RegistryStaysConsistent` (types, contiguous versions, one publish per draft,
runtime rows of the active version, the invariant of transactions, and locks that
end with them), and that the registry implements `ConfigHistory`, are proved with
one invariant.  Contiguity
alone is not inductive: the commit of a publish adds the number that was drawn two
steps before.  `TransactionInv` fills the gap; it says that the holder of the
sequence lock still holds the next number, and that the runtime rows it has computed
are still based on the committed ones.  In the refinement only `PublishCommit` is
visible, as the abstract publish; every other step stutters.

`NoCircularWait` follows from `LocksAreHeld`: who holds a lock that somebody waits
for is in its transaction and waits at most for the sequence, and the holder of the
sequence waits for nobody (`HoldersWaitForTheSequence`).  The run has two requests,
enough for a circle; the theorem has any number.  `PublicationStaysFinal` adds to
the refinement that a published draft is final once the updates that read it before
are saved.

### Records, documents, workflows

`RecordsProofs` proves `RecordsStayConsistent` (types, unique values, fresh
codes), `UniqueValuesHold`, `StoredDataAccepted` and `UndoingIsAnOverlap`.  The
invariant adds what a request knows at each place: that its row has kept its type and
code; that data validated under the lock clashes with no record in any field that has
always been unique, and continues not to, since a rival of the type must wait; that
data which was validated was accepted by a version from the stamped one on; and that
the numbers of generated codes are below the sequence.  The lock makes unique
values hold although rows are written from stale instances: the one column that
stale instances could spoil is validated again under the lock.  For the last theorem
`UpdatesMerge` adds that an update stores the row it has read and what it was sent.

`DocumentsProofs` proves `CommittedRevisionsHaveTheirFile`, `ReleasesStayFinal`,
`FilesStayAccountedFor`, and that documents implement `DocumentStore`.  The
invariant adds: a request in its transaction holds the lock of its document, and
the revision it writes is still the draft it found; the file that a request will
put in place or remove is in no committed row; no two rows and no two requests
share a file; a reported missing file is gone for good.  From the second of these
follow the hardest cases: a commit makes the new path the row's and the old one
the request's in one step, and a request that stops leaves files that no row names.

`WorkflowsProofs` proves `HistoryStaysComplete`, `ReviewsComeFirst`,
`NeverCircular`, and that workflows implement `WorkflowProcess`.  The invariant
adds: no two requests hold a row; a request holds or waits for the rows that its
place needs, each of a higher rank than those before (task, instance, definition,
record); a request about to write still finds its transition in force and its
guards met, since whoever could change that waits for one of its rows.  Four ranks
leave no room for a circle.  In the refinement three steps are visible: the insert
of an instance, the write of a transition and the write of a completion; all
others are steps of the surroundings.

### Projects

`ProjectsProofs` proves `NoCircles`, `UpdatesAreNotLost`, `DeadlocksNeedBoth`,
`MovesAreNeverLost` and `ProjectsStayConsistent`.  The invariant says which rows a
request holds and still waits for at each place (`LocksOK`), that no two requests
hold one row (`Exclusive`), and that what a request has read still is so when it
writes (`ReadsOK`): the project and its record for an update, the place of the task
for a move, and for a dependency that its end does not lead back to its beginning.
The last one survives the edges of other requests because edges stay within a project
(`OtherProjectsKeepPrerequisites`) and the lock of the project admits one request
at a time; `NewEdgeClosesNoCircle` then adds the edge.  Two lemmas make the
deadlock theorem: in a circle without new dependencies nobody can wait for a
record, hence nobody for a project, hence nobody for a task; in a circle without
moves nobody for a task, since who holds one holds its project as well, hence
nobody for a record, hence nobody for a project.  The pages agree because tasks stay
in columns of their own project and dependencies between tasks of one
(`BoardsAreWhole`, `PagesShowTheSame`): a column of another project would take a
task off every board, a dependency that leaves its project off every timeline.

### What users see

`AccessProofs` has the theorems about reading.  `RulesStayInAgreement` needs that the
type in a record's grant is the type of the record, and of lookups says that only a
full list leaves out an administrator who was asked for; `ReactivationIsAnOverlap`
goes step by step over all operations of accounts, grants and links.

`EventsStayHidden`, `GraphsStayVisible`, `ReportsStayWithinGrants` and
`LinkFiltersFollowGraphs` are about pages, which are functions of the state; the
invariant `ReportsInv` adds that links join records and that events name records of
the system.  For the graph, `RoundOf` relates what the walk has after n rounds to
what a reader reaches in n steps through records he may view: nodes are what he
reaches, edges are the links between them that end in what he reached one step
before.  For the reports, a list in the order of its query is a bijection between
places and records (`RecordsOfPlaces`), so that a slice of the visible places
(`LengthOfSlice`) is as long as its limit or as the number of visible records, and
what a widget counts is what the list shows without limit.

`IndexCatchesUpWithRows` is the result about the index, row by row: it does not wait
until all is quiet, since a busy system never is.  That a row is fresh when its
tasks are done says nothing of the way there.  `SearchInv` says that of each row
there is a time such that every entry of it read since, be it in the index, with a
worker or in the batch of a rebuild, is as the row is now; and, if no post of the
row was lost and no entry overtaken since it was last read, that an entry read since
is on its way or there: a task is queued, the rebuild has the index still to add, or
such an entry exists.  Besides, a rebuild adds what it deletes, foreign keys hold
(what an entry says of neighbours changes only with a post for the row), and nothing
is from the future.  A write of the row sets that time to now, and its post
satisfies the second half.  `SearchesFollowGrants` and `BothSearchesAgree` follow
from types and foreign keys: what a hit says is looked up again in the database.  The
second is about rows whose word both ways match and whose statuses are in lower
case, as long as no limit is reached: beyond that the two answers do differ.

### Imports

`ImportsProofs` proves `ImportsStayConsistent`, `ImportsStayWithinGrants`,
`NoImportIsForgotten` and, as the refinement of `ImportLedger`,
`ImportsComeWhole`.  The invariant says of an apply: its
job stays ready and is applied by nobody else (`HoldsItsJob`, which the row lock of
the job gives); of two applies at most one has saved records that others do not see
yet (`HoldsTheType`, the lock row of the type), so that the records with its own
are unique; each row of the file is exactly one operation to do or one event done,
each in a record of its own (`RowsInOrder`), which makes the commit whole and the
counters of the job right; what was done is saved with the code of its row, and was
called created if and only if the record was new (`IsSaved`, `CodesStay`); each
of them was within the grants, which do not change here (`WithinGrants`); and codes
stay, so that a row that was found to update still finds its record (`CodesStay`).
For `NoImportIsForgotten` it follows a
record from the commit to its index post: as long as the record is in `owed`, the
post is still among the callbacks of its request; the step that fails a callback
takes from `owed` only the records that it excuses (`Excuses`): those whose
post it was or comes after it, and updated records only if it was the post of one.

In the refinement four steps are visible: the upload (`CreateJob`), the commit of an
apply, a write by hand, and the end of a dry run that overlaps an apply, which makes
the job ready again.  `ImportLedger` has to allow for the last one (`Reopen`), and
nothing is lost by it but that a job is applied once.  The fields that a row does not
send are those of the record at the time of the apply's reading, so that `Import`
promises the sent ones only.

### Folders and backups

`FoldersProofs` proves `FoldersStayConsistent`, `NoMissingFolderIsForgotten`,
`NothingIsKeptFromReviewers` and `CompletedBackupsFit`, for any number of records, requests, scanners, links and
backups, and places nested in any way.  The invariant adds what is under way: a
directory that a request has made is still there when its row is written, unless
people removed it (`DiskOK`); of the requests that make the directory of a new
record, the one of the signal, once it has run, is the one that reports
(`GenerationsOK`); and how far a backup is says which of its parts fit together
already (`Stage`).  That no two rows share a place is hardest for a list of links,
which may move a record's legacy folder twice: `HasPlace` is what the rows would be
after a part of the list, and the last link of each record counts.

That differences are reported is an action property, proved for `CommitScan`, the
only step that replaces snapshots: `DifferencesReport` says that the events of a
comparison report every place at which the two sides differ, whichever moves are
found among them, and `CommitFacts` that each of these events is there afterwards
and pending, created now or before.  `EventsKept` is what all steps do to the
events, so that each action is proved only for what it adds.

### Induction, and what is only model-checked

The prover cannot instantiate the library's induction theorems.  Where a recursive
function must be reasoned about (the rounds of a graph, slices of a list),
`SetInduction` takes a set in the place of a predicate: a set of numbers that has 0
and the successor of each of its members has them all.  `RepeatedStepsExist` derives
from it that such a function exists on 0..n, which unfolding its definition needs.

Only model-checked are `RequestsEnd` and `ScansCatchUp` (liveness, which the prover
does not do), and the counterexample, which needs no proof.  Sums and cardinalities
are compared as they are (the workload of a user is that of the same set of tasks);
what a fold computes is left to TLC.

## What is not modelled, and the plan

Done: the configuration registry, records, documents and workflows, in this order
because a publish is what every other part can be overtaken by, and because
records and documents are what the system is for; then projects, accounts with
relationships, reports and audit, search, imports, and folders with backups.

Not planned: the frontend (its state is local to a browser), spreadsheet parsing
and text extraction (pure functions of file formats), schema, seeds and the
demonstration commands (one process at start-up), deployment and restore scripts
(run by hand while the system stands still).  Within the modelled components the
following is left out: due dates, tasks of one user and tasks related to other
records, and the cancelled state of a task, which no request sets; titles and
descriptive columns, snippets and the ranking of hits; the saving of views and
dashboards by their owners; the guess of the mapping of a spreadsheet and of the
records that a legacy directory may belong to; the assignment of folder events and
their index tasks; symbolic links; media files and the files of documents in backups;
the roles and permissions that a written guard asks for;
the row of the owning record, which a document's transaction locks as well; files
of documents that vanish by other hands; and the deletion of records and
documents, which no request does, only the command that prepares a demonstration
(`prepare_client_demo.py`).
