------------------------------ MODULE Imports ------------------------------
(***************************************************************************)
(* Imports of spreadsheets (apps/imports): a job holds a file; a dry run   *)
(* sorts its rows into creations, updates and errors and stores that with  *)
(* the job; an apply runs the dry run once more and saves the rows in one  *)
(* transaction.  Requests run side by side and other requests write the    *)
(* same records.  Grants are those of Permissions and stay as they are.    *)
(*                                                                         *)
(* All jobs are for one object type.  The reads of a dry run, and those of *)
(* the preflight, are one step each; every row is saved in a step of its   *)
(* own.  What the database shows others changes at the commit.             *)
(***************************************************************************)
EXTENDS Permissions, Sequences

CONSTANTS
  Jobs,
  Files,          \* sequences of rows; <<>> stands for a file that cannot be parsed
  TargetType,     \* the object type of the jobs
  Codes,          \* codes of records that are given by hand
  Fields, UniqueFields,
  Values, Blank, Absent,
  ValidData,      \* the data that the configuration accepts, unique values aside
  InitialRecords, \* the records at the start
  RecordInputs,   \* what other requests write into records
  ObjectGrants, RecordGrants,
  MaxEdits        \* bound on the writes of other requests

Data == [Fields -> Values \cup {Blank}]

\* The columns of a file that are mapped: a field that is not is Absent.
FileRow == [code : Codes \cup {None}, data : [Fields -> Values \cup {Blank, Absent}]]

\* A code None was drawn from the sequence and is not one of Codes.
RecordRow == [code : Codes \cup {None}, data : Data]

\* The lists of a dry run hold numbers of rows.
Lists == [creates : SUBSET Nat, updates : SUBSET Nat, errors : SUBSET Nat]

ImportJob == [file : Files, state : {"pending", "dry_run_ready", "dry_run_failed", "applied"},
              results : Lists \cup {None}, error_rows : SUBSET Nat, created : Nat, updated : Nat]

\* What an apply is going to save, what it has written, and its events.
Operation == [row : Nat, code : Codes \cup {None}, data : Data, record : RecordIds \cup {None}]
Writes == [RecordIds -> RecordRow \cup {None}]
Event == [job : Jobs, row : Nat, record : RecordIds, user : Users, action : {"created", "updated"}]

DryRun == [step : {"dry_run"}, job : Jobs, results : Lists \cup {None}]
Apply == [step : {"apply"}, job : Jobs, user : Users, with_folders : BOOLEAN, results : Lists,
          checked : BOOLEAN, todo : SUBSET Operation, written : Writes, done : SUBSET Event]

\* The signal of a new record makes its folder, an index task is posted and, if
\* asked for, the import makes the folder.
Callback == [event : Event, kind : {"signal", "post", "folder"}]
AfterCommit == [step : {"callbacks"}, todo : SUBSET Callback]
ImportRequest == DryRun \cup Apply \cup AfterCommit

Conflict(data, other) == \E f \in UniqueFields : data[f] # Blank /\ data[f] = other[f]

\* No two records have the same code, and no two of the type the same value of
\* a unique field.
Unique(rows) ==
  \A i \in RecordIds : \A j \in RecordIds \ {i} :
    rows[i] # None /\ rows[j] # None =>
      /\ rows[i].code = None \/ rows[i].code # rows[j].code
      /\ TypeOf[i] = TypeOf[j] /\ TypeOf[i] = TargetType => ~Conflict(rows[i].data, rows[j].data)

ASSUME ImportAssumption ==
  /\ Files \subseteq Seq(FileRow)
  /\ TargetType \in Types /\ UniqueFields \subseteq Fields
  /\ Blank \notin Values /\ Absent \notin Values \cup {Blank}
  /\ ValidData \subseteq Data /\ RecordInputs \subseteq ValidData
  /\ InitialRecords \in [RecordIds -> RecordRow \cup {None}] /\ Unique(InitialRecords)
  /\ ObjectGrants \in [GrantRoles \X Types -> {None} \cup SUBSET Actions]
  /\ RecordGrants \in [GrantRoles \X RecordIds -> RecordGrant \cup {None}]
  /\ None \notin Codes \cup RecordRow \cup Lists \cup ImportJob \cup ImportRequest
  /\ MaxEdits \in Nat

VARIABLES
  records,   \* the committed Record rows, or None
  jobs,      \* the ImportJob rows, or None
  events,    \* the ImportAuditEvent rows
  requests,  \* what each request has read and written so far, or None
  owed,      \* events whose index task was neither posted nor taken by a failure
  edits      \* the number of writes of other requests

imports == <<records, jobs, events, requests, owed, edits>>
vars == <<access, imports>>

-----------------------------------------------------------------------------
(* The dry run.                                                            *)

\* Rows that are visible to a request: the committed ones and its own.
Overlay(written) == [i \in RecordIds |-> IF written[i] # None THEN written[i] ELSE records[i]]

Nothing == [i \in RecordIds |-> None]

\* The records of the type with this code: at most one.
Existing(code) == {i \in RecordIds : /\ code # None /\ TypeOf[i] = TargetType
                                     /\ records[i] # None /\ records[i].code = code}

RecordOf(code) == IF Existing(code) = {} THEN None ELSE CHOOSE i \in Existing(code) : TRUE

Merged(old, data) == [f \in Fields |-> IF data[f] = Absent THEN old[f] ELSE data[f]]

NoData == [f \in Fields |-> Blank]

FinalData(row) ==
  Merged(IF Existing(row.code) = {} THEN NoData ELSE records[RecordOf(row.code)].data, row.data)

\* validate_record_data among these rows
ValidRecord(i, data, rows) ==
  /\ data \in ValidData
  /\ \A j \in RecordIds \ {i} : rows[j] # None /\ TypeOf[j] = TargetType => ~Conflict(data, rows[j].data)

CodeOfOtherType(code) ==
  \E i \in RecordIds : TypeOf[i] # TargetType /\ records[i] # None /\ code # None /\ records[i].code = code

\* A bug this module can show: codes given by hand are not looked at.
MayImportAnyCode(u, row) ==
  IF Existing(row.code) # {} THEN UserCan(u, "edit", TargetType, RecordOf(row.code))
  ELSE UserCan(u, "create", TargetType, None)

MayImport(u, row) ==
  IF Existing(row.code) # {} THEN UserCan(u, "edit", TargetType, RecordOf(row.code))
  ELSE /\ UserCan(u, "create", TargetType, None)
       /\ row.code # None => UserCan(u, "admin", TargetType, None)

Faulty(u, file, n) ==
  \/ \E k \in DOMAIN file \ {n} :
       \/ file[k].code # None /\ file[k].code = file[n].code
       \/ Conflict(FinalData(file[n]), FinalData(file[k]))
  \/ CodeOfOtherType(file[n].code)
  \/ ~MayImport(u, file[n])
  \/ ~ValidRecord(RecordOf(file[n].code), FinalData(file[n]), records)

SortRows(u, file) ==
  LET errors == {n \in DOMAIN file : Faulty(u, file, n)}
      updates == {n \in DOMAIN file : Existing(file[n].code) # {}}
  IN [creates |-> DOMAIN file \ (updates \cup errors), updates |-> updates \ errors, errors |-> errors]

-----------------------------------------------------------------------------
Init ==
  /\ users = InitialUsers
  /\ object_grants = ObjectGrants
  /\ record_grants = RecordGrants
  /\ patches = [r \in Requests |-> None]
  /\ records = InitialRecords
  /\ jobs = [j \in Jobs |-> None]
  /\ events = {}
  /\ requests = [r \in Requests |-> None]
  /\ owed = {}
  /\ edits = 0

\* A transaction that is going to apply a job holds its row, one that has
\* saved a record holds the lock of the type.
JobLocked(j) == \E r \in Requests : requests[r] # None /\ requests[r].step = "apply" /\ requests[r].job = j

TypeLocked(other) ==
  \E r \in Requests \ other : requests[r] # None /\ requests[r].step = "apply" /\ requests[r].written # Nothing

CreateJob(u, j, file) ==
  /\ jobs[j] = None
  /\ UserCan(u, "create", TargetType, None)
  /\ jobs' = [jobs EXCEPT ![j] =
       [file |-> file, state |-> "pending", results |-> None, error_rows |-> {}, created |-> 0, updated |-> 0]]
  /\ UNCHANGED <<access, records, events, requests, owed, edits>>

Stored(job, results) ==
  [job EXCEPT !.results = results,
              !.error_rows = IF results = None THEN {} ELSE results.errors,
              !.state = IF results = None \/ results.errors # {} THEN "dry_run_failed" ELSE "dry_run_ready"]

Run(u, file) == IF file = <<>> THEN None ELSE SortRows(u, file)

\* A dry run looks at neither the state nor the lock of its job ...
StartDryRun(r, u, j) ==
  /\ requests[r] = None /\ jobs[j] # None
  /\ \E action \in {"create", "edit", "admin"} : UserCan(u, action, TargetType, None)
  /\ requests' = [requests EXCEPT ![r] = [step |-> "dry_run", job |-> j, results |-> Run(u, jobs[j].file)]]
  /\ UNCHANGED <<access, records, jobs, events, owed, edits>>

\* ... but waits for the lock before it writes three columns over the row.
SaveDryRun(r) ==
  /\ requests[r] # None /\ requests[r].step = "dry_run"
  /\ LET j == requests[r].job IN
     /\ ~JobLocked(j)
     /\ jobs' = [jobs EXCEPT ![j] = Stored(@, requests[r].results)]
  /\ requests' = [requests EXCEPT ![r] = None]
  /\ UNCHANGED <<access, records, events, owed, edits>>

-----------------------------------------------------------------------------
(* The apply.                                                              *)

StartApply(r, u, j, with_folders) ==
  /\ requests[r] = None /\ jobs[j] # None
  /\ ~JobLocked(j)
  /\ jobs[j].state = "dry_run_ready"
  /\ LET results == Run(u, jobs[j].file) IN
     /\ results # None /\ results.errors = {}
     /\ requests' = [requests EXCEPT ![r] =
          [step |-> "apply", job |-> j, user |-> u, with_folders |-> with_folders, results |-> results,
           checked |-> FALSE, todo |-> {}, written |-> Nothing, done |-> {}]]
  /\ UNCHANGED <<access, records, jobs, events, owed, edits>>

\* What the preflight prepares for a row: the record and its whole new data.
Prepared(file, n, results) ==
  [row |-> n, code |-> file[n].code, data |-> FinalData(file[n]),
   record |-> IF n \in results.updates THEN RecordOf(file[n].code) ELSE None]

\* Grants and data are checked again, for all rows before the first is saved.
Preflight(r) ==
  /\ requests[r] # None /\ requests[r].step = "apply" /\ ~requests[r].checked
  /\ LET file == jobs[requests[r].job].file
         results == requests[r].results
         todo == {Prepared(file, n, results) : n \in DOMAIN file}
     IN /\ \A op \in todo : /\ MayImport(requests[r].user, file[op.row])
                            /\ op.record = None => Existing(op.code) = {} /\ ~CodeOfOtherType(op.code)
                            /\ ValidRecord(op.record, op.data, records)
        /\ requests' = [requests EXCEPT ![r].checked = TRUE, ![r].todo = todo]
  /\ UNCHANGED <<access, records, jobs, events, owed, edits>>

CodeIsFree(op, rows) ==
  op.code # None => \A i \in RecordIds \ {op.record} : rows[i] # None => rows[i].code # op.code

\* A bug this module can show: the data is not validated under the lock.
SavesUnseen(r, op) == CodeIsFree(op, records)

Saves(r, op) ==
  LET rows == Overlay(requests[r].written) IN
  ValidRecord(op.record, op.data, rows) /\ CodeIsFree(op, rows)

FreeIds == {i \in RecordIds : /\ TypeOf[i] = TargetType /\ records[i] = None
                              /\ \A r \in Requests : requests[r] # None /\ requests[r].step = "apply"
                                                       => requests[r].written[i] = None}

\* Updates come before creations, and each of them in the order of the file.
Earlier(op, other) ==
  \/ op.record # None /\ other.record = None
  \/ (op.record = None <=> other.record = None) /\ op.row < other.row

\* The first save takes the lock of the type, and every save validates the data
\* under it.
SaveRow(r, op) ==
  /\ requests[r] # None /\ requests[r].step = "apply" /\ requests[r].checked
  /\ op \in requests[r].todo
  /\ \A other \in requests[r].todo : ~Earlier(other, op)
  /\ ~TypeLocked({r})
  /\ Saves(r, op)
  /\ op.record = None => FreeIds # {}
  /\ LET i == IF op.record # None THEN op.record ELSE CHOOSE free \in FreeIds : TRUE
         event == [job |-> requests[r].job, row |-> op.row, record |-> i, user |-> requests[r].user,
                   action |-> IF op.record = None THEN "created" ELSE "updated"]
     IN requests' = [requests EXCEPT ![r] =
          [requests[r] EXCEPT !.todo = @ \ {op}, !.done = @ \cup {event},
                              !.written[i] = [code |-> op.code, data |-> op.data]]]
  /\ UNCHANGED <<access, records, jobs, events, owed, edits>>

\* A bug this module can show: updates are not indexed.
CallbacksOfCreated(done, with_folders) == {[event |-> e, kind |-> "post"] : e \in {d \in done : d.action = "created"}}

\* The callbacks that saving the rows leaves for after the commit.
Callbacks(done, with_folders) ==
  {[event |-> e, kind |-> "post"] : e \in done}
  \cup {[event |-> e, kind |-> kind] : e \in {d \in done : d.action = "created"},
                                    kind \in {"signal"} \cup (IF with_folders THEN {"folder"} ELSE {})}

Count(done, action) == Cardinality({e \in done : e.action = action})

CommitApply(r) ==
  /\ requests[r] # None /\ requests[r].step = "apply" /\ requests[r].checked /\ requests[r].todo = {}
  /\ LET done == requests[r].done IN
     /\ records' = Overlay(requests[r].written)
     /\ events' = events \cup done
     /\ owed' = owed \cup done
     /\ jobs' = [jobs EXCEPT ![requests[r].job] =
          [Stored(@, requests[r].results) EXCEPT !.state = "applied", !.error_rows = {},
             !.created = Count(done, "created"), !.updated = Count(done, "updated")]]
     /\ requests' = [requests EXCEPT ![r] =
          [step |-> "callbacks", todo |-> Callbacks(done, requests[r].with_folders)]]
  /\ UNCHANGED <<access, edits>>

\* A bug this module can show: what was saved stays.
SavedRows(r) == Overlay(requests[r].written)

RolledBack(r) == records

\* An error of any row, or the end of the process.
AbortApply(r) ==
  /\ requests[r] # None /\ requests[r].step = "apply"
  /\ records' = RolledBack(r)
  /\ requests' = [requests EXCEPT ![r] = None]
  /\ UNCHANGED <<access, jobs, events, owed, edits>>

\* A bug this module can show: the folder of a row comes before its index task.
FoldersFirst(kind, other) == kind = "folder" /\ other = "post"

Precedes(kind, other) == (kind = "signal" /\ other # "signal") \/ (kind = "post" /\ other = "folder")

\* Callbacks run in the order in which the rows were saved.
Before(c, d) ==
  \/ c.event.action = "updated" /\ d.event.action = "created"
  \/ c.event.action = d.event.action /\ c.event.row < d.event.row
  \/ c.event.action = d.event.action /\ c.event.row = d.event.row /\ Precedes(c.kind, d.kind)

IsNext(r, callback) ==
  /\ requests[r] # None /\ requests[r].step = "callbacks"
  /\ callback \in requests[r].todo
  /\ \A other \in requests[r].todo : ~Before(other, callback)

\* The folders themselves are those of Folders.
RunCallback(r, callback) ==
  /\ IsNext(r, callback)
  /\ owed' = IF callback.kind = "post" THEN owed \ {callback.event} ELSE owed
  /\ LET rest == requests[r].todo \ {callback} IN
     requests' = [requests EXCEPT ![r] = IF rest = {} THEN None ELSE [@ EXCEPT !.todo = rest]]
  /\ UNCHANGED <<access, records, jobs, events, edits>>

\* The index task of this event is the callback or should come after it: no
\* folder is made before an updated record, or the record of the folder itself,
\* is posted.
Excuses(callback, e) ==
  IF e.action = "updated"
  THEN callback.kind = "post" /\ callback.event.action = "updated" /\ callback.event.row <= e.row
  ELSE \/ callback.event.action = "updated" \/ callback.event.row < e.row
       \/ callback.event.row = e.row /\ callback.kind # "folder"

\* Posting raises when the broker is away, the signal when it cannot note that
\* it could not make a folder, the import when it cannot make one.  What raises
\* takes all later callbacks with it, and so does the end of the process.
FailCallback(r, callback) ==
  /\ IsNext(r, callback)
  /\ requests' = [requests EXCEPT ![r] = None]
  /\ owed' = owed \ {e \in {c.event : c \in requests[r].todo} : Excuses(callback, e)}
  /\ UNCHANGED <<access, records, jobs, events, edits>>

-----------------------------------------------------------------------------
(* Other requests: RecordSerializer validates and saves under the lock of  *)
(* the type.                                                               *)

WriteRecord(i, data) ==
  /\ edits < MaxEdits
  /\ ~TypeLocked({})
  /\ i \in FreeIds \/ (records[i] # None /\ TypeOf[i] = TargetType)
  /\ ValidRecord(i, data, records)
  /\ records' = [records EXCEPT ![i] = [code |-> IF @ = None THEN None ELSE @.code, data |-> data]]
  /\ edits' = edits + 1
  /\ UNCHANGED <<access, jobs, events, requests, owed>>

Next ==
  \/ \E u \in Users, j \in Jobs, file \in Files : CreateJob(u, j, file)
  \/ \E r \in Requests, u \in Users, j \in Jobs : StartDryRun(r, u, j) \/ \E b \in BOOLEAN : StartApply(r, u, j, b)
  \/ \E r \in Requests : SaveDryRun(r) \/ Preflight(r) \/ CommitApply(r) \/ AbortApply(r)
  \/ \E r \in Requests : requests[r] # None /\ requests[r].step = "apply" /\ \E op \in requests[r].todo : SaveRow(r, op)
  \/ \E r \in Requests : requests[r] # None /\ requests[r].step = "callbacks"
                         /\ \E callback \in requests[r].todo : RunCallback(r, callback) \/ FailCallback(r, callback)
  \/ \E i \in RecordIds, data \in RecordInputs : WriteRecord(i, data)

Spec == Init /\ [][Next]_vars

-----------------------------------------------------------------------------
(* Properties.                                                             *)

Present == {j \in Jobs : jobs[j] # None}

\* Every row of a file is in exactly one of the lists of its dry run.
Sorts(results, file) ==
  /\ results.creates \cup results.updates \cup results.errors = DOMAIN file
  /\ results.creates \cap (results.updates \cup results.errors) = {}
  /\ results.updates \cap results.errors = {}

\* Rows and jobs are well-typed, and a stored dry run is of the file of its job.
ImportsTypeOK ==
  /\ AccessTypeOK
  /\ records \in [RecordIds -> RecordRow \cup {None}]
  /\ jobs \in [Jobs -> ImportJob \cup {None}]
  /\ events \subseteq Event
  /\ requests \in [Requests -> ImportRequest \cup {None}]
  /\ owed \subseteq Event
  /\ edits \in 0..MaxEdits
  /\ \A j \in Present :
       /\ jobs[j].error_rows \subseteq DOMAIN jobs[j].file
       /\ jobs[j].results # None => Sorts(jobs[j].results, jobs[j].file)

\* The state of a job, its result and its errors belong together, however dry
\* runs and applies of the job overlap, and its counters while it is applied: a
\* dry run that makes it ready again leaves those of the apply behind.
IsConsistent(job) ==
  /\ job.state = "dry_run_ready" => job.results # None /\ job.results.errors = {} /\ job.error_rows = {}
  /\ job.state = "dry_run_failed" => IF job.results = None THEN job.error_rows = {}
                                     ELSE job.results.errors # {} /\ job.error_rows = job.results.errors
  /\ job.state = "applied" => /\ job.error_rows = {}
                              /\ job.created = Cardinality(job.results.creates)
                              /\ job.updated = Cardinality(job.results.updates)

JobsAreConsistent == \A j \in Present : IsConsistent(jobs[j])

\* No two records of the type have the same value of a unique field, and no
\* two records the same code, whatever imports and other requests do together.
RecordsStayUnique == Unique(records)

\* Jobs and records are in order, however imports and other requests overlap.
ImportsAreConsistent == ImportsTypeOK /\ JobsAreConsistent /\ RecordsStayUnique

\* Whatever an import wrote, its user might have written by hand: the grants
\* of the user who applies count, not those of the user who made the dry run.
ImportsWithinGrants ==
  \A e \in events :
    IF e.action = "updated" THEN UserCan(e.user, "edit", TargetType, e.record)
    ELSE /\ UserCan(e.user, "create", TargetType, None)
         /\ records[e.record].code # None => UserCan(e.user, "admin", TargetType, None)

\* Where an import has no callbacks left, each of its records was posted to the
\* index after the commit, unless a callback failed that comes earlier or posts
\* it: all of them if none did, and the updated ones whatever becomes of folders
\* (apply_import, services.py 139-162).
ImportedRecordsArePosted ==
  \A e \in owed : \E r \in Requests :
    /\ requests[r] # None /\ requests[r].step = "callbacks"
    /\ [event |-> e, kind |-> "post"] \in requests[r].todo

FilesShown == [j \in Present |-> jobs[j].file]

AppliedShown == {j \in Present : jobs[j].state = "applied"}

\* The imports as users see them.
Ledger == INSTANCE ImportLedger WITH
  Rows <- RecordRow, files <- FilesShown, applied <- AppliedShown, log <- events, by_hand <- edits

\* Although its rows are read, checked and saved one after the other while
\* other requests write, an import takes effect in one step or not at all: each
\* row in a record of its own, with its event and the job as applied
\* (apply_import, services.py 124-178).
ImportsAreWhole == Ledger!Spec
=============================================================================
