---------------------------- MODULE ImportsProofs ----------------------------
(***************************************************************************)
(* For any number of jobs, requests, rows and records: jobs and records    *)
(* stay consistent, imports come whole or not at all, stay within the      *)
(* grants of those who apply them, and are posted to the index.            *)
(***************************************************************************)
EXTENDS Imports, FiniteSetTheorems, TLAPS

-----------------------------------------------------------------------------
(* The invariant.                                                          *)

\* The sent values of a row are in the record.
Holds(row, data) == \A f \in Fields : row.data[f] \in {Absent, data[f]}

Applying == {r \in Requests : requests[r] # None /\ requests[r].step = "apply"}

File(r) == jobs[requests[r].job].file

\* What a request has read of its job still holds: files are never replaced.
SortsItsJob(r) ==
  /\ jobs[requests[r].job] # None
  /\ requests[r].results # None => Sorts(requests[r].results, File(r))

\* A job that is being applied stays as it was found, and is applied once.
HoldsItsJob(r) ==
  /\ jobs[requests[r].job].state = "dry_run_ready"
  /\ \A other \in Applying \ {r} : requests[other].job # requests[r].job

\* Only one request at a time has saved records that others do not see yet.
HoldsTheType(r) ==
  \A other \in Applying \ {r} : requests[r].written = Nothing \/ requests[other].written = Nothing

\* Rows without errors have different codes.
CodesDiffer(file) ==
  \A n \in DOMAIN file : \A k \in DOMAIN file \ {n} : file[n].code = None \/ file[n].code # file[k].code

\* An operation is about one row, and updates if the dry run found its code.
IsPlanned(op, apply, file) ==
  /\ op.row \in DOMAIN file /\ op.code = file[op.row].code
  /\ Holds(file[op.row], op.data)
  /\ op.record = None <=> op.row \notin apply.results.updates
  /\ op.record # None => apply.written[op.record] = None

\* A saved row is in the record that its event names.
IsSaved(e, apply, file) ==
  /\ e.job = apply.job /\ e.user = apply.user /\ e.row \in DOMAIN file
  /\ apply.written[e.record] # None
  /\ apply.written[e.record].code = file[e.row].code
  /\ Holds(file[e.row], apply.written[e.record].data)
  /\ e.action = "created" <=> e.row \notin apply.results.updates

\* Every row is either to be saved or saved, once, in a record of its own.
RowsInOrder(apply, file) ==
  /\ apply.results.errors = {} /\ CodesDiffer(file)
  /\ \A op \in apply.todo : IsPlanned(op, apply, file)
  /\ \A e \in apply.done : IsSaved(e, apply, file)
  /\ \A op, other \in apply.todo :
       op.row = other.row \/ (op.record # None /\ op.record = other.record) => op = other
  /\ \A e, other \in apply.done : e.row = other.row \/ e.record = other.record => e = other
  /\ \A op \in apply.todo, e \in apply.done : op.row # e.row
  /\ \A i \in RecordIds : apply.written[i] # None => \E e \in apply.done : e.record = i
  /\ IF apply.checked
     THEN \A n \in DOMAIN file : (\E op \in apply.todo : op.row = n) \/ (\E e \in apply.done : e.row = n)
     ELSE apply.todo = {} /\ apply.written = Nothing /\ apply.done = {}

\* The grants were looked at for each row, and do not change.
WithinGrants(apply) ==
  /\ \A op \in apply.todo :
       IF op.record # None THEN UserCan(apply.user, "edit", TargetType, op.record)
       ELSE /\ UserCan(apply.user, "create", TargetType, None)
            /\ op.code # None => UserCan(apply.user, "admin", TargetType, None)
  /\ \A e \in apply.done :
       IF e.action = "updated" THEN UserCan(apply.user, "edit", TargetType, e.record)
       ELSE /\ UserCan(apply.user, "create", TargetType, None)
            /\ apply.written[e.record].code # None => UserCan(apply.user, "admin", TargetType, None)

\* Records keep their codes, so that what had a code before has it still.
CodesStay(apply, file) ==
  /\ \A n \in apply.results.updates : Existing(file[n].code) # {}
  /\ \A op \in apply.todo :
       op.record # None => records[op.record] # None /\ records[op.record].code = op.code
  /\ \A i \in RecordIds :
       apply.written[i] # None /\ records[i] # None => apply.written[i].code = records[i].code
  /\ \A e \in apply.done : e.action = "created" <=> records[e.record] = None

ApplyOK(r) ==
  /\ HoldsItsJob(r) /\ HoldsTheType(r)
  /\ RowsInOrder(requests[r], File(r))
  /\ WithinGrants(requests[r])
  /\ CodesStay(requests[r], File(r))
  /\ Unique(Overlay(requests[r].written))

RequestsOK ==
  /\ \A r \in Requests : requests[r] # None /\ requests[r].step \in {"dry_run", "apply"} => SortsItsJob(r)
  /\ \A r \in Applying : ApplyOK(r)

AfterItsCommit(r) == requests[r] # None /\ requests[r].step = "callbacks"

\* Only what was created has callbacks for folders.
UpdatesOnlyPost(r) == \A callback \in requests[r].todo : callback.event.action = "updated" => callback.kind = "post"

\* The user might have written the row of an event by hand.
Allowed(e) ==
  IF e.action = "updated" THEN UserCan(e.user, "edit", TargetType, e.record)
  ELSE /\ UserCan(e.user, "create", TargetType, None)
       /\ records[e.record].code # None => UserCan(e.user, "admin", TargetType, None)

EventsOK ==
  /\ \A e \in events : Allowed(e) /\ records[e.record] # None
  /\ \A r \in Requests : AfterItsCommit(r) => UpdatesOnlyPost(r)
  /\ ImportedRecordsArePosted

IInv == ImportsAreConsistent /\ RequestsOK /\ EventsOK

-----------------------------------------------------------------------------
(* Types.                                                                  *)

LEMMA RequestTypes ==
  ASSUME ImportsTypeOK, NEW r \in Requests, requests[r] # None
  PROVE  /\ requests[r].step = "dry_run" => requests[r] \in DryRun
         /\ requests[r].step = "apply" => requests[r] \in Apply
         /\ requests[r].step = "callbacks" => requests[r] \in AfterCommit
<1>1. requests[r] \in DryRun \cup Apply \cup AfterCommit
  BY DEF ImportsTypeOK, ImportRequest
<1> QED
  BY <1>1 DEF DryRun, Apply, AfterCommit

LEMMA RequestsAreSomething ==
  /\ \A x \in DryRun \cup Apply \cup AfterCommit : x \in ImportRequest /\ x # None
  /\ \A x \in ImportJob : x # None
  /\ \A x \in RecordRow : x # None
  /\ \A x \in Codes : x # None
  BY ImportAssumption DEF ImportRequest

LEMMA FilesAreRows ==
  ASSUME NEW file \in Files
  PROVE  /\ file \in Seq(FileRow) /\ DOMAIN file = 1..Len(file) /\ Len(file) \in Nat
         /\ DOMAIN file \subseteq Nat
         /\ \A n \in DOMAIN file : file[n].code \in Codes \cup {None}
<1>1. file \in Seq(FileRow)
  BY ImportAssumption
<1>2. \A n \in DOMAIN file : file[n] \in FileRow
  BY <1>1
<1> QED
  BY <1>1, <1>2 DEF FileRow

LEMMA ConflictsAreMutual ==
  ASSUME NEW data, NEW other, Conflict(data, other)
  PROVE  Conflict(other, data)
  BY DEF Conflict

LEMMA AccessStays ==
  ASSUME AccessTypeOK, UNCHANGED access
  PROVE  AccessTypeOK'
  BY DEF AccessTypeOK, access

\* Grants do not change here.
LEMMA GrantsStay ==
  ASSUME UNCHANGED access
  PROVE  \A u, action, type, record : UserCan(u, action, type, record)' <=> UserCan(u, action, type, record)
  BY DEF access, UserCan, Scoping, IsActive, IsSystemAdmin, ObjectActions, GrantRolesOf

-----------------------------------------------------------------------------
(* What the other requests do not disturb.                                 *)

KeepsCodes ==
  \A i \in RecordIds : records[i] # None => records'[i] # None /\ records'[i].code = records[i].code

LEMMA ApplyStays ==
  ASSUME IInv, NEW r \in Applying, UNCHANGED access, KeepsCodes, Unique(records)',
         requests'[r] = requests[r], jobs'[requests[r].job] = jobs[requests[r].job],
         requests[r].written = Nothing \/ UNCHANGED records,
         \A other \in Applying' \ {r} :
           /\ requests'[other].job # requests[r].job
           /\ requests[r].written = Nothing \/ requests'[other].written = Nothing
  PROVE  ApplyOK(r)'
<1>1. ApplyOK(r) /\ r \in Requests
  BY DEF IInv, RequestsOK, Applying
<1>2. HoldsItsJob(r)' /\ HoldsTheType(r)'
  BY <1>1 DEF ApplyOK, HoldsItsJob, HoldsTheType, Nothing
<1>3. RowsInOrder(requests[r], File(r))'
  BY <1>1 DEF ApplyOK, File
<1>4. WithinGrants(requests[r])'
  BY <1>1, GrantsStay DEF ApplyOK, WithinGrants
<1>5. CodesStay(requests[r], File(r))'
  <2> DEFINE apply == requests[r]
             file == File(r)
  <2>1. CodesStay(apply, file) /\ requests'[r] = apply /\ File(r)' = file
    BY <1>1 DEF ApplyOK, File
  <2>2. ASSUME NEW n \in apply.results.updates
        PROVE  Existing(file[n].code)' # {}
    <3>1. PICK i \in RecordIds : i \in Existing(file[n].code)
      BY <2>1 DEF CodesStay, Existing
    <3>2. records'[i] # None /\ records'[i].code = records[i].code
      BY <3>1 DEF KeepsCodes, Existing
    <3> QED
      BY <2>1, <3>1, <3>2 DEF Existing
  <2>3. ASSUME NEW op \in apply.todo, op.record # None
        PROVE  records'[op.record] # None /\ records'[op.record].code = op.code
    <3>1. op.record \in RecordIds
      BY <1>1, <2>3, RequestTypes DEF Applying, IInv, ImportsAreConsistent, Apply, Operation
    <3> QED
      BY <2>1, <2>3, <3>1 DEF CodesStay, KeepsCodes
  <2>4. ASSUME NEW i \in RecordIds, apply.written[i] # None, records'[i] # None
        PROVE  apply.written[i].code = records'[i].code
    BY <2>1, <2>4 DEF CodesStay, Nothing
  <2>5. ASSUME NEW e \in apply.done
        PROVE  e.action = "created" <=> records'[e.record] = None
    <3>1. e.record \in RecordIds
      BY <1>1, <2>5, RequestTypes DEF Applying, IInv, ImportsAreConsistent, Apply, Event
    <3>2. apply.written # Nothing
      BY <1>1, <3>1 DEF ApplyOK, RowsInOrder, IsSaved, Nothing
    <3> QED
      BY <2>1, <3>2 DEF CodesStay
  <2> QED
    BY <2>1, <2>2, <2>3, <2>4, <2>5 DEF CodesStay
<1>6. Unique(Overlay(requests[r].written))'
  <2>1. CASE UNCHANGED records
    <3>1. Overlay(requests[r].written)' = Overlay(requests[r].written)
      BY <2>1 DEF Overlay
    <3> QED
      BY <1>1, <3>1 DEF ApplyOK, Unique
  <2>2. CASE requests[r].written = Nothing
    <3>1. \A i \in RecordIds : Overlay(requests[r].written)'[i] = records'[i]
      BY <2>2 DEF Overlay, Nothing
    <3> QED
      BY <3>1 DEF Unique
  <2> QED
    BY <2>1, <2>2
<1> QED
  BY <1>2, <1>3, <1>4, <1>5, <1>6 DEF ApplyOK

\* A step that starts no apply leaves alone those that it is not a step of.
LEMMA AppliesStay ==
  ASSUME IInv, UNCHANGED access, KeepsCodes, Unique(records)', Applying' \subseteq Applying,
         \A r \in Applying' :
           /\ requests'[r] = requests[r]
           /\ jobs'[requests[r].job] = jobs[requests[r].job]
           /\ requests[r].written = Nothing \/ UNCHANGED records
  PROVE  \A r \in Applying' : ApplyOK(r)'
<1> SUFFICES ASSUME NEW r \in Applying'
             PROVE  ApplyOK(r)'
  OBVIOUS
<1>1. r \in Applying /\ ApplyOK(r)
  BY DEF IInv, RequestsOK
<1>2. \A other \in Applying' \ {r} :
        /\ requests'[other].job # requests[r].job
        /\ requests[r].written = Nothing \/ requests'[other].written = Nothing
  BY <1>1 DEF ApplyOK, HoldsItsJob, HoldsTheType
<1> QED
  BY <1>1, <1>2, ApplyStays

\* Files stay, and so does what was read of them.
LEMMA SortingsStay ==
  ASSUME IInv, NEW r \in Requests, requests[r] # None, requests[r].step \in {"dry_run", "apply"},
         \A j \in Jobs : jobs[j] # None => jobs'[j] # None /\ jobs'[j].file = jobs[j].file,
         requests'[r].job = requests[r].job, requests'[r].results = requests[r].results
  PROVE  SortsItsJob(r)'
<1>1. SortsItsJob(r) /\ requests[r].job \in Jobs
  BY RequestTypes DEF IInv, ImportsAreConsistent, RequestsOK, DryRun, Apply
<1> QED
  BY <1>1 DEF SortsItsJob, File

LEMMA EventsStay ==
  ASSUME IInv, UNCHANGED access, KeepsCodes
  PROVE  \A e \in events : Allowed(e)' /\ records'[e.record] # None
<1> SUFFICES ASSUME NEW e \in events
             PROVE  Allowed(e)' /\ records'[e.record] # None
  OBVIOUS
<1>1. Allowed(e) /\ records[e.record] # None
  BY DEF IInv, EventsOK
<1>2. e.record \in RecordIds
  BY DEF IInv, ImportsAreConsistent, ImportsTypeOK, Event
<1>3. Allowed(e)'
  BY <1>1, <1>2, GrantsStay DEF Allowed, KeepsCodes
<1> QED
  BY <1>1, <1>2, <1>3 DEF KeepsCodes

\* A step that no callback is run by.
LEMMA CallbacksStay ==
  ASSUME IInv, UNCHANGED <<access, events, owed>>, KeepsCodes,
         \A r \in Requests : AfterItsCommit(r) \/ AfterItsCommit(r)' => requests'[r] = requests[r]
  PROVE  EventsOK'
<1>1. \A e \in events : Allowed(e)' /\ records'[e.record] # None
  BY EventsStay
<1>2. \A r \in Requests : AfterItsCommit(r)' => UpdatesOnlyPost(r)'
  BY DEF IInv, EventsOK, AfterItsCommit, UpdatesOnlyPost
<1>3. ImportedRecordsArePosted'
  BY DEF IInv, EventsOK, ImportedRecordsArePosted, AfterItsCommit
<1> QED
  BY <1>1, <1>2, <1>3 DEF EventsOK

-----------------------------------------------------------------------------
(* Jobs and dry runs.                                                      *)

LEMMA InitOK ==
  ASSUME Init
  PROVE  IInv
<1>1. ImportsTypeOK
  BY PermissionAssumption, ImportAssumption DEF Init, ImportsTypeOK, AccessTypeOK, User, Present
<1>2. RecordsStayUnique /\ JobsAreConsistent
  BY ImportAssumption DEF Init, RecordsStayUnique, JobsAreConsistent, Present
<1>3. RequestsOK /\ EventsOK
  BY DEF Init, RequestsOK, EventsOK, ImportedRecordsArePosted, AfterItsCommit, Applying
<1> QED
  BY <1>1, <1>2, <1>3 DEF IInv, ImportsAreConsistent

\* A step that leaves the records alone.
LEMMA RecordsUntouched ==
  ASSUME IInv, UNCHANGED <<access, records>>
  PROVE  /\ AccessTypeOK' /\ records' \in [RecordIds -> RecordRow \cup {None}]
         /\ KeepsCodes /\ RecordsStayUnique' /\ Unique(records)'
  BY AccessStays DEF IInv, ImportsAreConsistent, ImportsTypeOK, KeepsCodes, RecordsStayUnique, Unique

LEMMA CreateJobStep ==
  ASSUME IInv, NEW u \in Users, NEW j \in Jobs, NEW file \in Files, CreateJob(u, j, file)
  PROVE  IInv'
<1> DEFINE job == [file |-> file, state |-> "pending", results |-> None, error_rows |-> {},
                   created |-> 0, updated |-> 0]
<1>1. /\ UNCHANGED <<access, records, events, requests, owed, edits>>
      /\ jobs[j] = None /\ jobs' = [jobs EXCEPT ![j] = job]
  BY DEF CreateJob
<1>2. job \in ImportJob /\ ImportsTypeOK
  BY DEF ImportJob, IInv, ImportsAreConsistent
<1>3. /\ \A k \in Jobs \ {j} : jobs'[k] = jobs[k]
      /\ jobs'[j] = job /\ jobs' \in [Jobs -> ImportJob \cup {None}]
  BY <1>1, <1>2 DEF ImportsTypeOK
<1> HIDE DEF job
<1>4. /\ AccessTypeOK' /\ KeepsCodes /\ RecordsStayUnique' /\ Unique(records)'
      /\ records' \in [RecordIds -> RecordRow \cup {None}]
  BY <1>1, RecordsUntouched
<1>5. ImportsTypeOK'
  BY <1>1, <1>2, <1>3, <1>4 DEF ImportsTypeOK, Present, job
<1>6. JobsAreConsistent'
  BY <1>3 DEF IInv, ImportsAreConsistent, JobsAreConsistent, IsConsistent, Present, job
<1>7. ASSUME NEW r \in Requests, requests[r] # None, requests[r].step \in {"dry_run", "apply"}
      PROVE  SortsItsJob(r)' /\ jobs'[requests[r].job] = jobs[requests[r].job]
  <2>1. requests[r].job \in Jobs /\ jobs[requests[r].job] # None
    BY <1>2, <1>7, RequestTypes DEF IInv, RequestsOK, SortsItsJob, DryRun, Apply
  <2> QED
    BY <1>1, <1>2, <1>3, <1>7, <2>1, SortingsStay, RequestsAreSomething
<1>8. \A r \in Applying' : ApplyOK(r)'
  <2>1. Applying' = Applying
    BY <1>1 DEF Applying
  <2> QED
    BY <1>1, <1>4, <1>7, <2>1, AppliesStay DEF Applying
<1>9. EventsOK'
  BY <1>1, <1>4, CallbacksStay DEF AfterItsCommit
<1> QED
  BY <1>1, <1>4, <1>5, <1>6, <1>7, <1>8, <1>9 DEF IInv, ImportsAreConsistent, RequestsOK

\* The row that a request leaves behind for the next one.
LEMMA RequestWritten ==
  ASSUME ImportsTypeOK, NEW r \in Requests, NEW new \in ImportRequest \cup {None},
         requests' = [requests EXCEPT ![r] = new]
  PROVE  /\ requests' \in [Requests -> ImportRequest \cup {None}]
         /\ requests'[r] = new /\ \A other \in Requests \ {r} : requests'[other] = requests[other]
  BY DEF ImportsTypeOK

\* Sorting puts every row into one list.
LEMMA SortedRows ==
  ASSUME NEW u \in Users, NEW file \in Files
  PROVE  /\ SortRows(u, file) \in Lists
         /\ Sorts(SortRows(u, file), file)
         /\ Run(u, file) \in Lists \cup {None}
         /\ Run(u, file) # None => Run(u, file) = SortRows(u, file)
         /\ \A n \in SortRows(u, file).updates : Existing(file[n].code) # {}
         /\ SortRows(u, file).errors = {} => CodesDiffer(file)
<1>1. DOMAIN file \subseteq Nat
  BY FilesAreRows
<1>2. SortRows(u, file) \in Lists /\ Sorts(SortRows(u, file), file)
  BY <1>1 DEF SortRows, Lists, Sorts
<1>3. \A n \in SortRows(u, file).updates : Existing(file[n].code) # {}
  BY DEF SortRows
<1>4. ASSUME SortRows(u, file).errors = {}
      PROVE  CodesDiffer(file)
  <2>1. \A n \in DOMAIN file : ~Faulty(u, file, n)
    BY <1>4 DEF SortRows
  <2> QED
    BY <2>1 DEF Faulty, CodesDiffer
<1> QED
  BY <1>2, <1>3, <1>4 DEF Run

LEMMA StartDryRunStep ==
  ASSUME IInv, NEW r \in Requests, NEW u \in Users, NEW j \in Jobs, StartDryRun(r, u, j)
  PROVE  IInv'
<1> DEFINE new == [step |-> "dry_run", job |-> j, results |-> Run(u, jobs[j].file)]
<1>1. /\ UNCHANGED <<access, records, jobs, events, owed, edits>>
      /\ requests[r] = None /\ jobs[j] # None
      /\ requests' = [requests EXCEPT ![r] = new]
  BY DEF StartDryRun
<1>2. ImportsTypeOK /\ jobs[j].file \in Files
  BY <1>1 DEF IInv, ImportsAreConsistent, ImportsTypeOK, ImportJob
<1>3. new \in DryRun
  BY <1>2, SortedRows DEF DryRun
<1>4. /\ requests' \in [Requests -> ImportRequest \cup {None}]
      /\ requests'[r] = new /\ \A other \in Requests \ {r} : requests'[other] = requests[other]
  BY <1>1, <1>2, <1>3, RequestWritten, RequestsAreSomething
<1>5. /\ AccessTypeOK' /\ KeepsCodes /\ RecordsStayUnique' /\ Unique(records)'
      /\ records' \in [RecordIds -> RecordRow \cup {None}]
  BY <1>1, RecordsUntouched
<1>6. ImportsTypeOK' /\ JobsAreConsistent'
  BY <1>1, <1>2, <1>4, <1>5 DEF IInv, ImportsAreConsistent, ImportsTypeOK, JobsAreConsistent, Present
<1>7. ASSUME NEW other \in Requests, requests'[other] # None, requests'[other].step \in {"dry_run", "apply"}
      PROVE  SortsItsJob(other)'
  <2>1. CASE other = r
    BY <1>1, <1>2, <1>4, <2>1, SortedRows DEF SortsItsJob, File
  <2>2. CASE other # r
    BY <1>1, <1>4, <1>7, <2>2, SortingsStay
  <2> QED
    BY <2>1, <2>2
<1>8. \A other \in Applying' : ApplyOK(other)'
  <2>1. Applying' = Applying /\ r \notin Applying
    BY <1>1, <1>4 DEF Applying
  <2> QED
    BY <1>1, <1>4, <1>5, <2>1, AppliesStay DEF Applying
<1>9. EventsOK'
  BY <1>1, <1>4, <1>5, CallbacksStay DEF AfterItsCommit
<1> QED
  BY <1>5, <1>6, <1>7, <1>8, <1>9 DEF IInv, ImportsAreConsistent, RequestsOK

\* What is stored with a job agrees with its state.
LEMMA StoredJob ==
  ASSUME NEW job \in ImportJob, NEW results \in Lists \cup {None},
         results # None => Sorts(results, job.file)
  PROVE  /\ Stored(job, results) \in ImportJob
         /\ Stored(job, results).file = job.file
         /\ Stored(job, results).results = results
         /\ Stored(job, results).error_rows = IF results = None THEN {} ELSE results.errors
         /\ Stored(job, results).state =
              IF results = None \/ results.errors # {} THEN "dry_run_failed" ELSE "dry_run_ready"
         /\ Stored(job, results).error_rows \subseteq DOMAIN job.file
         /\ IsConsistent(Stored(job, results))
<1>1. DOMAIN job.file \subseteq Nat
  BY FilesAreRows DEF ImportJob
<1> QED
  BY <1>1 DEF Stored, ImportJob, Lists, Sorts, IsConsistent

LEMMA SaveDryRunStep ==
  ASSUME IInv, NEW r \in Requests, SaveDryRun(r)
  PROVE  IInv'
<1> DEFINE j == requests[r].job
           results == requests[r].results
<1>1. /\ UNCHANGED <<access, records, events, owed, edits>>
      /\ requests[r] # None /\ requests[r].step = "dry_run" /\ ~JobLocked(j)
      /\ jobs' = [jobs EXCEPT ![j] = Stored(jobs[j], results)]
      /\ requests' = [requests EXCEPT ![r] = None]
  BY DEF SaveDryRun
<1>2. ImportsTypeOK /\ j \in Jobs /\ results \in Lists \cup {None} /\ SortsItsJob(r)
  BY <1>1, RequestTypes DEF IInv, ImportsAreConsistent, RequestsOK, DryRun
<1>3. jobs[j] \in ImportJob /\ (results # None => Sorts(results, jobs[j].file))
  BY <1>2 DEF ImportsTypeOK, SortsItsJob, File
<1> HIDE DEF results
<1>4. /\ requests' \in [Requests -> ImportRequest \cup {None}]
      /\ requests'[r] = None /\ \A other \in Requests \ {r} : requests'[other] = requests[other]
  BY <1>1, <1>2, RequestWritten
<1>5. /\ jobs' \in [Jobs -> ImportJob \cup {None}]
      /\ jobs'[j] = Stored(jobs[j], results)
      /\ \A k \in Jobs \ {j} : jobs'[k] = jobs[k]
      /\ jobs'[j].file = jobs[j].file /\ jobs'[j] # None
  BY <1>1, <1>2, <1>3, StoredJob, RequestsAreSomething DEF ImportsTypeOK
<1>6. /\ AccessTypeOK' /\ KeepsCodes /\ RecordsStayUnique' /\ Unique(records)'
      /\ records' \in [RecordIds -> RecordRow \cup {None}]
  BY <1>1, RecordsUntouched
<1>7. ImportsTypeOK'
  BY <1>1, <1>2, <1>3, <1>4, <1>5, <1>6, StoredJob DEF ImportsTypeOK, Present
<1>8. JobsAreConsistent'
  <2> SUFFICES ASSUME NEW k \in Jobs, jobs'[k] # None
               PROVE  IsConsistent(jobs'[k])
    BY DEF JobsAreConsistent, Present, IsConsistent
  <2>1. CASE k = j
    BY <1>2, <1>3, <1>5, <2>1, StoredJob
  <2>2. CASE k # j
    BY <1>5, <2>2 DEF IInv, ImportsAreConsistent, JobsAreConsistent, Present
  <2> QED
    BY <2>1, <2>2
<1>9. ASSUME NEW other \in Requests, requests'[other] # None, requests'[other].step \in {"dry_run", "apply"}
      PROVE  SortsItsJob(other)'
  <2>1. other # r /\ requests'[other] = requests[other]
    BY <1>4, <1>9
  <2>2. \A k \in Jobs : jobs[k] # None => jobs'[k] # None /\ jobs'[k].file = jobs[k].file
    BY <1>5
  <2> QED
    BY <1>9, <2>1, <2>2, SortingsStay
<1>10. \A other \in Applying' : ApplyOK(other)'
  <2>1. Applying' \subseteq Applying /\ r \notin Applying'
    BY <1>4 DEF Applying
  <2>2. \A other \in Applying' : requests[other].job \in Jobs \ {j}
    BY <1>1, <1>2, <2>1, RequestTypes DEF Applying, JobLocked, Apply
  <2>3. \A other \in Applying' : requests'[other] = requests[other] /\ jobs'[requests[other].job] = jobs[requests[other].job]
    BY <1>4, <1>5, <2>1, <2>2 DEF Applying
  <2> QED
    BY <1>1, <1>6, <2>1, <2>3, AppliesStay
<1>11. EventsOK'
  BY <1>1, <1>4, <1>6, CallbacksStay DEF AfterItsCommit
<1> QED
  BY <1>6, <1>7, <1>8, <1>9, <1>10, <1>11 DEF IInv, ImportsAreConsistent, RequestsOK

-----------------------------------------------------------------------------
(* An apply.                                                               *)

LEMMA StartApplyStep ==
  ASSUME IInv, NEW r \in Requests, NEW u \in Users, NEW j \in Jobs, NEW with_folders \in BOOLEAN,
         StartApply(r, u, j, with_folders)
  PROVE  IInv'
<1> DEFINE results == Run(u, jobs[j].file)
           new == [step |-> "apply", job |-> j, user |-> u, with_folders |-> with_folders, results |-> results,
                   checked |-> FALSE, todo |-> {}, written |-> Nothing, done |-> {}]
<1>1. /\ UNCHANGED <<access, records, jobs, events, owed, edits>>
      /\ requests[r] = None /\ jobs[j] # None /\ ~JobLocked(j)
      /\ jobs[j].state = "dry_run_ready" /\ results # None /\ results.errors = {}
      /\ requests' = [requests EXCEPT ![r] = new]
  BY DEF StartApply
<1>2. ImportsTypeOK /\ jobs[j].file \in Files
  BY <1>1 DEF IInv, ImportsAreConsistent, ImportsTypeOK, ImportJob
<1>3. /\ results \in Lists /\ Sorts(results, jobs[j].file) /\ CodesDiffer(jobs[j].file)
      /\ \A n \in results.updates : Existing(jobs[j].file[n].code) # {}
  BY <1>1, <1>2, SortedRows
<1> HIDE DEF results
<1>4. new \in Apply /\ new.step = "apply" /\ new.job = j /\ new.written = Nothing
      /\ new.results = results /\ new.todo = {} /\ new.done = {} /\ new.checked = FALSE
  BY <1>3 DEF Apply, Writes, Nothing
<1> HIDE DEF new
<1>5. /\ requests' \in [Requests -> ImportRequest \cup {None}]
      /\ requests'[r] = new /\ \A other \in Requests \ {r} : requests'[other] = requests[other]
  BY <1>1, <1>2, <1>4, RequestWritten, RequestsAreSomething
<1>6. /\ AccessTypeOK' /\ KeepsCodes /\ RecordsStayUnique' /\ Unique(records)'
      /\ records' \in [RecordIds -> RecordRow \cup {None}]
  BY <1>1, RecordsUntouched
<1>7. ImportsTypeOK' /\ JobsAreConsistent'
  BY <1>1, <1>2, <1>5, <1>6 DEF IInv, ImportsAreConsistent, ImportsTypeOK, JobsAreConsistent, Present
<1>8. ASSUME NEW other \in Requests, requests'[other] # None, requests'[other].step \in {"dry_run", "apply"}
      PROVE  SortsItsJob(other)'
  <2>1. CASE other = r
    BY <1>1, <1>2, <1>3, <1>4, <1>5, <2>1 DEF SortsItsJob, File
  <2>2. CASE other # r
    BY <1>1, <1>5, <1>8, <2>2, SortingsStay
  <2> QED
    BY <2>1, <2>2
<1>9. ASSUME NEW other \in Applying'
      PROVE  ApplyOK(other)'
  <2>1. CASE other = r
    <3>1. File(other)' = jobs[j].file /\ requests'[other] = new
      BY <1>1, <1>4, <1>5, <2>1 DEF File
    <3>2. HoldsItsJob(other)' /\ HoldsTheType(other)'
      BY <1>1, <1>4, <1>5, <2>1 DEF HoldsItsJob, HoldsTheType, Applying, JobLocked, Nothing
    <3>3. RowsInOrder(requests[other], File(other))'
      BY <1>1, <1>3, <1>4, <3>1 DEF RowsInOrder, Nothing
    <3>4. WithinGrants(requests[other])'
      BY <1>4, <3>1 DEF WithinGrants
    <3>5. CodesStay(requests[other], File(other))'
      BY <1>1, <1>3, <1>4, <3>1 DEF CodesStay, Nothing, Existing
    <3>6. Unique(Overlay(requests[other].written))'
      <4>1. \A i \in RecordIds : Overlay(requests[other].written)'[i] = records'[i]
        BY <1>4, <3>1 DEF Overlay, Nothing
      <4> QED
        BY <1>6, <4>1 DEF Unique
    <3> QED
      BY <3>2, <3>3, <3>4, <3>5, <3>6 DEF ApplyOK
  <2>2. CASE other # r
    <3>1. other \in Applying /\ requests'[other] = requests[other] /\ ApplyOK(other)
      BY <1>5, <2>2 DEF Applying, IInv, RequestsOK
    <3>2. ASSUME NEW third \in Applying' \ {other}
          PROVE  /\ requests'[third].job # requests[other].job
                 /\ requests[other].written = Nothing \/ requests'[third].written = Nothing
      <4>1. CASE third = r
        BY <1>1, <1>4, <1>5, <3>1, <4>1 DEF JobLocked, Applying
      <4>2. CASE third # r
        BY <1>5, <3>1, <3>2, <4>2 DEF ApplyOK, HoldsItsJob, HoldsTheType, Applying
      <4> QED
        BY <4>1, <4>2
    <3> QED
      BY <1>1, <1>6, <3>1, <3>2, ApplyStays
  <2> QED
    BY <2>1, <2>2
<1>10. EventsOK'
  <2>1. \A other \in Requests : AfterItsCommit(other) \/ AfterItsCommit(other)' => requests'[other] = requests[other]
    BY <1>1, <1>4, <1>5 DEF AfterItsCommit
  <2> QED
    BY <1>1, <1>6, <2>1, CallbacksStay
<1> QED
  BY <1>6, <1>7, <1>8, <1>9, <1>10 DEF IInv, ImportsAreConsistent, RequestsOK

\* A code that was found names its record.
LEMMA FoundRecord ==
  ASSUME NEW code, Existing(code) # {}
  PROVE  /\ RecordOf(code) \in RecordIds /\ RecordOf(code) # None
         /\ records[RecordOf(code)] # None /\ records[RecordOf(code)].code = code /\ code # None
<1>1. RecordOf(code) \in Existing(code)
  BY DEF RecordOf
<1> QED
  BY <1>1, PermissionAssumption DEF Existing

\* What the preflight prepares for a row that it lets through.
Fits(op, file, n, results) ==
  /\ op \in Operation
  /\ op.row = n /\ op.code = file[n].code
  /\ Holds(file[n], op.data)
  /\ op.record = None <=> n \notin results.updates
  /\ op.record # None => /\ op.record = RecordOf(file[n].code)
                         /\ records[op.record] # None /\ records[op.record].code = op.code
                         /\ op.code # None

LEMMA PreparedRow ==
  ASSUME NEW file \in Files, NEW n \in DOMAIN file, NEW results, NEW op, op = Prepared(file, n, results),
         n \in results.updates => Existing(file[n].code) # {},
         ValidRecord(op.record, op.data, records)
  PROVE  Fits(op, file, n, results)
<1>1. op = [row |-> n, code |-> file[n].code, data |-> FinalData(file[n]),
            record |-> IF n \in results.updates THEN RecordOf(file[n].code) ELSE None]
  BY DEF Prepared
<1>2. op.data \in Data
  BY ImportAssumption DEF ValidRecord
<1>3. Holds(file[n], FinalData(file[n]))
  BY DEF Holds, FinalData, Merged
<1>4. op.row \in Nat /\ op.code \in Codes \cup {None}
  BY <1>1, FilesAreRows
<1>5. CASE n \in results.updates
  <2>1. /\ RecordOf(file[n].code) \in RecordIds /\ RecordOf(file[n].code) # None
        /\ records[RecordOf(file[n].code)] # None
        /\ records[RecordOf(file[n].code)].code = file[n].code /\ file[n].code # None
    BY <1>5, FoundRecord
  <2> QED
    BY <1>1, <1>2, <1>3, <1>4, <1>5, <2>1 DEF Operation, Fits
<1>6. CASE n \notin results.updates
  BY <1>1, <1>2, <1>3, <1>4, <1>6 DEF Operation, Fits
<1> QED
  BY <1>5, <1>6

LEMMA PreflightStep ==
  ASSUME IInv, NEW r \in Requests, Preflight(r)
  PROVE  IInv'
<1> DEFINE a == requests[r]
           file == jobs[a.job].file
           todo == {Prepared(file, n, a.results) : n \in DOMAIN file}
           new == [a EXCEPT !.checked = TRUE, !.todo = todo]
<1>1. /\ UNCHANGED <<access, records, jobs, events, owed, edits>>
      /\ requests[r] # None /\ a.step = "apply" /\ ~a.checked
      /\ \A op \in todo : /\ MayImport(a.user, file[op.row])
                          /\ op.record = None => Existing(op.code) = {} /\ ~CodeOfOtherType(op.code)
                          /\ ValidRecord(op.record, op.data, records)
      /\ requests' = [requests EXCEPT ![r].checked = TRUE, ![r].todo = todo]
  BY DEF Preflight
<1>2. ImportsTypeOK /\ a \in Apply /\ r \in Applying /\ ApplyOK(r) /\ SortsItsJob(r) /\ File(r) = file
  BY <1>1, RequestTypes DEF IInv, ImportsAreConsistent, RequestsOK, Applying, File
<1>3. file \in Files /\ a.job \in Jobs
  BY <1>2 DEF ImportsTypeOK, SortsItsJob, Apply, ImportJob
<1>4. /\ CodesDiffer(file) /\ a.results.errors = {} /\ a.written = Nothing /\ a.done = {}
      /\ \A n \in a.results.updates : Existing(file[n].code) # {}
  BY <1>1, <1>2 DEF ApplyOK, RowsInOrder, CodesStay
<1>5. ASSUME NEW op \in todo
      PROVE  op.row \in DOMAIN file /\ op = Prepared(file, op.row, a.results) /\ Fits(op, file, op.row, a.results)
  <2>1. PICK n \in DOMAIN file : op = Prepared(file, n, a.results)
    BY <1>5
  <2>2. ValidRecord(op.record, op.data, records)
    BY <1>1, <1>5
  <2> HIDE DEF todo, file
  <2>3. op.row = n
    BY <2>1 DEF Prepared
  <2>4. n \in a.results.updates => Existing(file[n].code) # {}
    BY <1>4
  <2> QED
    BY <1>3, <2>1, <2>2, <2>3, <2>4, PreparedRow
<1>6. ASSUME NEW n \in DOMAIN file
      PROVE  \E op \in todo : op.row = n
  <2>1. Prepared(file, n, a.results) \in todo /\ Prepared(file, n, a.results).row = n
    BY DEF Prepared
  <2> QED
    BY <2>1
<1> HIDE DEF todo
<1>7. /\ new \in Apply /\ new.step = "apply" /\ new.job = a.job /\ new.user = a.user
      /\ new.results = a.results /\ new.todo = todo /\ new.checked = TRUE
      /\ new.written = Nothing /\ new.done = {} /\ new # None
  BY <1>2, <1>4, <1>5, RequestsAreSomething DEF Apply, Fits
<1>8. requests' = [requests EXCEPT ![r] = new]
  BY <1>1
<1> HIDE DEF new
<1>9. /\ requests' \in [Requests -> ImportRequest \cup {None}]
      /\ requests'[r] = new /\ \A other \in Requests \ {r} : requests'[other] = requests[other]
  BY <1>2, <1>7, <1>8, RequestWritten, RequestsAreSomething
<1>10. /\ AccessTypeOK' /\ KeepsCodes /\ RecordsStayUnique' /\ Unique(records)'
       /\ records' \in [RecordIds -> RecordRow \cup {None}]
  BY <1>1, RecordsUntouched
<1>11. ImportsTypeOK' /\ JobsAreConsistent'
  BY <1>1, <1>2, <1>9, <1>10 DEF IInv, ImportsAreConsistent, ImportsTypeOK, JobsAreConsistent, Present
<1>12. ASSUME NEW other \in Requests, requests'[other] # None, requests'[other].step \in {"dry_run", "apply"}
       PROVE  SortsItsJob(other)'
  BY <1>1, <1>7, <1>9, <1>12, SortingsStay
<1>13. RowsInOrder(new, file)
  <2>1. \A op \in todo : IsPlanned(op, new, file)
    BY <1>5, <1>7 DEF IsPlanned, Nothing, Operation, Fits
  <2>2. ASSUME NEW op \in todo, NEW other \in todo,
               op.row = other.row \/ (op.record # None /\ op.record = other.record)
        PROVE  op = other
    <3>1. /\ op.row \in DOMAIN file /\ op.code = file[op.row].code
          /\ op.record # None => records[op.record].code = op.code /\ op.code # None
      BY <1>5 DEF Fits
    <3>2. /\ other.row \in DOMAIN file /\ other.code = file[other.row].code
          /\ other.record # None => records[other.record].code = other.code /\ other.code # None
      BY <1>5 DEF Fits
    <3>3. CASE op.record # None /\ op.record = other.record
      <4>1. file[op.row].code = file[other.row].code /\ file[op.row].code # None
        BY <3>1, <3>2, <3>3
      <4> HIDE DEF file
      <4>2. op.row = other.row
        BY <1>4, <3>1, <3>2, <4>1 DEF CodesDiffer
      <4> QED
        BY <1>5, <4>2
    <3>4. CASE op.row = other.row
      BY <1>5, <3>4
    <3> QED
      BY <2>2, <3>3, <3>4
  <2> QED
    BY <1>4, <1>6, <1>7, <2>1, <2>2 DEF RowsInOrder, Nothing
<1>14. WithinGrants(new)
  <2> SUFFICES ASSUME NEW op \in todo
               PROVE  IF op.record # None THEN UserCan(new.user, "edit", TargetType, op.record)
                      ELSE /\ UserCan(new.user, "create", TargetType, None)
                           /\ op.code # None => UserCan(new.user, "admin", TargetType, None)
    BY <1>7 DEF WithinGrants
  <2> QED
    BY <1>1, <1>4, <1>5, <1>7 DEF MayImport, Fits
<1>15. CodesStay(new, file)
  <2>1. ASSUME NEW op \in todo, op.record # None
        PROVE  records[op.record] # None /\ records[op.record].code = op.code
    BY <1>5, <2>1 DEF Fits
  <2>2. \A i \in RecordIds : new.written[i] = None
    BY <1>7 DEF Nothing
  <2> HIDE DEF file
  <2> QED
    BY <1>4, <1>7, <2>1, <2>2 DEF CodesStay
<1>16. ASSUME NEW other \in Applying'
       PROVE  ApplyOK(other)'
  <2>1. Applying' = Applying
    <3>1. \A k \in Requests : k \in Applying' <=> k \in Applying
      BY <1>1, <1>7, <1>9 DEF Applying
    <3> QED
      BY <3>1 DEF Applying
  <2>2. CASE other = r
    <3>1. requests'[other] = new /\ File(other)' = file
      BY <1>1, <1>7, <1>9, <2>2 DEF File
    <3>2. HoldsItsJob(other)' /\ HoldsTheType(other)'
      BY <1>1, <1>2, <1>7, <1>9, <2>1, <2>2 DEF ApplyOK, HoldsItsJob, HoldsTheType, Applying, Nothing
    <3>3. RowsInOrder(requests[other], File(other))'
      BY <1>13, <3>1
    <3>4. WithinGrants(requests[other])'
      BY <1>1, <1>14, <3>1, GrantsStay DEF WithinGrants
    <3>5. CodesStay(requests[other], File(other))'
      <4>1. \A code : Existing(code)' = Existing(code)
        BY <1>1 DEF Existing
      <4> QED
        BY <1>1, <1>15, <3>1, <4>1 DEF CodesStay
    <3>6. Unique(Overlay(requests[other].written))'
      <4>1. \A i \in RecordIds : Overlay(requests[other].written)'[i] = records'[i]
        BY <1>7, <3>1 DEF Overlay, Nothing
      <4> QED
        BY <1>10, <4>1 DEF Unique
    <3> QED
      BY <3>2, <3>3, <3>4, <3>5, <3>6 DEF ApplyOK
  <2>3. CASE other # r
    <3>1. other \in Applying /\ requests'[other] = requests[other] /\ ApplyOK(other)
      BY <1>9, <2>1, <2>3 DEF Applying, IInv, RequestsOK
    <3>2. ASSUME NEW third \in Applying' \ {other}
          PROVE  /\ requests'[third].job # requests[other].job
                 /\ requests[other].written = Nothing \/ requests'[third].written = Nothing
      BY <1>2, <1>7, <1>9, <2>1, <3>1 DEF ApplyOK, HoldsItsJob, HoldsTheType, Applying
    <3> QED
      BY <1>1, <1>10, <3>1, <3>2, ApplyStays
  <2> QED
    BY <2>2, <2>3
<1>17. EventsOK'
  BY <1>1, <1>9, <1>10, CallbacksStay DEF AfterItsCommit
<1> QED
  BY <1>10, <1>11, <1>12, <1>16, <1>17 DEF IInv, ImportsAreConsistent, RequestsOK

\* Records stay unique when one of them gets a row that clashes with no other.
LEMMA UniqueWithRow ==
  ASSUME NEW rows, Unique(rows), NEW new, NEW i \in RecordIds, NEW row, new[i] = row,
         \A k \in RecordIds \ {i} :
           /\ new[k] = rows[k]
           /\ rows[k] # None => /\ row.code = None \/ rows[k].code # row.code
                                /\ TypeOf[k] = TargetType => ~Conflict(row.data, rows[k].data)
  PROVE  Unique(new)
<1> SUFFICES ASSUME NEW x \in RecordIds, NEW y \in RecordIds \ {x}, new[x] # None, new[y] # None
             PROVE  /\ new[x].code = None \/ new[x].code # new[y].code
                    /\ TypeOf[x] = TypeOf[y] /\ TypeOf[x] = TargetType => ~Conflict(new[x].data, new[y].data)
  BY DEF Unique
<1>1. CASE x = i
  BY <1>1
<1>2. CASE y = i
  BY <1>2, ConflictsAreMutual
<1>3. CASE x # i /\ y # i
  BY <1>3 DEF Unique
<1> QED
  BY <1>1, <1>2, <1>3

LEMMA SaveRowStep ==
  ASSUME IInv, NEW r \in Requests, NEW op, SaveRow(r, op)
  PROVE  IInv'
<1> DEFINE a == requests[r]
           file == jobs[a.job].file
           i == IF op.record # None THEN op.record ELSE CHOOSE free \in FreeIds : TRUE
           row == [code |-> op.code, data |-> op.data]
           event == [job |-> a.job, row |-> op.row, record |-> i, user |-> a.user,
                     action |-> IF op.record = None THEN "created" ELSE "updated"]
           new == [a EXCEPT !.todo = @ \ {op}, !.done = @ \cup {event}, !.written[i] = row]
<1>1. /\ UNCHANGED <<access, records, jobs, events, owed, edits>>
      /\ requests[r] # None /\ a.step = "apply" /\ a.checked /\ op \in a.todo
      /\ ~TypeLocked({r}) /\ Saves(r, op) /\ (op.record = None => FreeIds # {})
      /\ requests' = [requests EXCEPT ![r] = new]
  BY DEF SaveRow
<1>2. ImportsTypeOK /\ a \in Apply /\ r \in Applying /\ ApplyOK(r) /\ SortsItsJob(r) /\ File(r) = file
  BY <1>1, RequestTypes DEF IInv, ImportsAreConsistent, RequestsOK, Applying, File
<1>3. file \in Files /\ a.job \in Jobs
  BY <1>2 DEF ImportsTypeOK, SortsItsJob, Apply, ImportJob
<1>4. op \in Operation /\ a.written \in [RecordIds -> RecordRow \cup {None}]
  BY <1>1, <1>2 DEF Apply, Writes
<1>5. IsPlanned(op, a, file) /\ RowsInOrder(a, file) /\ WithinGrants(a) /\ CodesStay(a, file)
  BY <1>1, <1>2 DEF ApplyOK, RowsInOrder
<1>6. /\ i \in RecordIds /\ a.written[i] = None
      /\ op.record # None => i = op.record /\ records[i] # None /\ records[i].code = op.code
      /\ op.record = None => records[i] = None
  <2>1. CASE op.record # None
    BY <1>1, <1>4, <1>5, <2>1 DEF Operation, IsPlanned, CodesStay
  <2>2. CASE op.record = None
    <3>1. i \in FreeIds
      BY <1>1, <2>2
    <3> QED
      BY <1>1, <2>2, <3>1 DEF FreeIds
  <2> QED
    BY <2>1, <2>2
<1>7. row \in RecordRow /\ row # None /\ row.code = op.code /\ row.data = op.data
  BY <1>4, RequestsAreSomething DEF Operation, RecordRow
<1>8. /\ event \in Event /\ event.job = a.job /\ event.row = op.row /\ event.record = i /\ event.user = a.user
      /\ event.action = IF op.record = None THEN "created" ELSE "updated"
  BY <1>2, <1>3, <1>4, <1>6 DEF Event, Apply, Operation
<1> HIDE DEF i, row, event, file
<1>9. /\ new \in Apply /\ new.step = "apply" /\ new.job = a.job /\ new.user = a.user
      /\ new.results = a.results /\ new.todo = a.todo \ {op} /\ new.done = a.done \cup {event}
      /\ new.checked = a.checked /\ new.written[i] = row /\ new # None
      /\ \A k \in RecordIds \ {i} : new.written[k] = a.written[k]
      /\ new.written \in [RecordIds -> RecordRow \cup {None}]
  <2>1. [a.written EXCEPT ![i] = row] \in Writes
    BY <1>4, <1>6, <1>7 DEF Writes
  <2>2. new \in Apply
    BY <1>2, <1>8, <2>1 DEF Apply
  <2> QED
    BY <1>2, <1>4, <1>6, <2>1, <2>2, RequestsAreSomething DEF Apply, Writes
<1>10. /\ requests' \in [Requests -> ImportRequest \cup {None}]
       /\ requests'[r] = new /\ \A other \in Requests \ {r} : requests'[other] = requests[other]
  <2> HIDE DEF new
  <2> QED
    BY <1>1, <1>2, <1>9, RequestWritten, RequestsAreSomething
<1> HIDE DEF new
<1>11. /\ AccessTypeOK' /\ KeepsCodes /\ RecordsStayUnique' /\ Unique(records)'
       /\ records' \in [RecordIds -> RecordRow \cup {None}]
  BY <1>1, RecordsUntouched
<1>12. ImportsTypeOK' /\ JobsAreConsistent'
  BY <1>1, <1>2, <1>10, <1>11 DEF IInv, ImportsAreConsistent, ImportsTypeOK, JobsAreConsistent, Present
<1>13. ASSUME NEW other \in Requests, requests'[other] # None, requests'[other].step \in {"dry_run", "apply"}
       PROVE  SortsItsJob(other)'
  BY <1>1, <1>9, <1>10, <1>13, SortingsStay
<1>14. \A e \in a.done : e.record \in RecordIds \ {i} /\ a.written[e.record] # None
  BY <1>2, <1>5, <1>6 DEF RowsInOrder, IsSaved, Apply, Event
<1>15. \A other \in a.todo \ {op} : other.record # i
  <2>1. CASE op.record # None
    BY <1>1, <1>5, <1>6, <2>1 DEF RowsInOrder
  <2>2. CASE op.record = None
    BY <1>5, <1>6, <2>2, PermissionAssumption DEF CodesStay
  <2> QED
    BY <2>1, <2>2
<1>16. RowsInOrder(new, file)
  <2>1. ASSUME NEW other \in new.todo
        PROVE  IsPlanned(other, new, file)
    <3>1. IsPlanned(other, a, file) /\ other.record # i /\ other.record \in RecordIds \cup {None}
      BY <1>2, <1>5, <1>9, <1>15, <2>1 DEF RowsInOrder, Apply, Operation
    <3> QED
      BY <1>9, <3>1 DEF IsPlanned
  <2>2. ASSUME NEW e \in a.done
        PROVE  IsSaved(e, new, file)
    <3>1. IsSaved(e, a, file)
      BY <1>5 DEF RowsInOrder
    <3> QED
      BY <1>9, <1>14, <3>1 DEF IsSaved
  <2>3. IsSaved(event, new, file)
    BY <1>5, <1>7, <1>8, <1>9 DEF IsPlanned, IsSaved
  <2>4. \A k \in RecordIds : new.written[k] # None => \E e \in new.done : e.record = k
    BY <1>5, <1>8, <1>9 DEF RowsInOrder
  <2>5. \A n \in DOMAIN file : (\E other \in new.todo : other.row = n) \/ (\E e \in new.done : e.row = n)
    BY <1>1, <1>5, <1>8, <1>9 DEF RowsInOrder
  <2>6. \A e, other \in new.done : e.row = other.row \/ e.record = other.record => e = other
    <3>1. \A e \in a.done : e.row # event.row /\ e.record # event.record
      BY <1>1, <1>5, <1>8, <1>14 DEF RowsInOrder
    <3> QED
      BY <1>5, <1>9, <3>1 DEF RowsInOrder
  <2>7. \A other \in new.todo, e \in new.done : other.row # e.row
    BY <1>1, <1>5, <1>8, <1>9 DEF RowsInOrder
  <2> QED
    BY <1>1, <1>5, <1>9, <2>1, <2>2, <2>3, <2>4, <2>5, <2>6, <2>7 DEF RowsInOrder
<1>17. WithinGrants(new)
  <2>1. ASSUME NEW e \in a.done
        PROVE  new.written[e.record] = a.written[e.record]
    BY <1>9, <1>14
  <2> QED
    BY <1>1, <1>5, <1>6, <1>7, <1>8, <1>9, <2>1 DEF WithinGrants
<1>18. CodesStay(new, file)
  <2>1. \A e \in new.done : e.action = "created" <=> records[e.record] = None
    BY <1>5, <1>6, <1>8, <1>9 DEF CodesStay
  <2> QED
    BY <1>5, <1>6, <1>7, <1>9, <2>1 DEF CodesStay
<1>19. Unique(Overlay(new.written))
  <2> DEFINE rows == Overlay(a.written)
  <2>1. Unique(rows)
    BY <1>2 DEF ApplyOK
  <2>2. Overlay(new.written)[i] = row /\ \A k \in RecordIds \ {i} : Overlay(new.written)[k] = rows[k]
    BY <1>6, <1>7, <1>9 DEF Overlay
  <2>3. ValidRecord(op.record, op.data, rows) /\ CodeIsFree(op, rows)
    BY <1>1 DEF Saves
  <2> HIDE DEF rows
  <2>4. \A k \in RecordIds \ {i} : k # op.record
    BY <1>6, PermissionAssumption
  <2>5. \A k \in RecordIds \ {i} :
          rows[k] # None => /\ row.code = None \/ rows[k].code # row.code
                            /\ TypeOf[k] = TargetType => ~Conflict(row.data, rows[k].data)
    BY <1>7, <2>3, <2>4 DEF ValidRecord, CodeIsFree
  <2> QED
    BY <1>6, <2>1, <2>2, <2>5, UniqueWithRow
<1>20. ASSUME NEW other \in Applying'
       PROVE  ApplyOK(other)'
  <2>1. \A k \in Requests : k \in Applying' <=> k \in Applying
    BY <1>1, <1>9, <1>10 DEF Applying
  <2>2. \A k \in Applying \ {r} : requests[k].written = Nothing
    BY <1>1 DEF TypeLocked, Applying
  <2>3. CASE other = r
    <3>1. requests'[other] = new /\ File(other)' = file
      BY <1>1, <1>9, <1>10, <2>3 DEF File, file
    <3>2. HoldsItsJob(other)' /\ HoldsTheType(other)'
      BY <1>1, <1>2, <1>9, <1>10, <2>1, <2>2, <2>3 DEF ApplyOK, HoldsItsJob, HoldsTheType, Applying, Nothing
    <3>3. RowsInOrder(requests[other], File(other))'
      BY <1>16, <3>1
    <3>4. WithinGrants(requests[other])'
      BY <1>1, <1>17, <3>1, GrantsStay DEF WithinGrants
    <3>5. CodesStay(requests[other], File(other))'
      <4>1. \A code : Existing(code)' = Existing(code)
        BY <1>1 DEF Existing
      <4> QED
        BY <1>1, <1>18, <3>1, <4>1 DEF CodesStay
    <3>6. Unique(Overlay(requests[other].written))'
      <4>1. \A k \in RecordIds : Overlay(requests[other].written)'[k] = Overlay(new.written)[k]
        BY <1>1, <3>1 DEF Overlay
      <4> QED
        BY <1>19, <4>1 DEF Unique
    <3> QED
      BY <3>2, <3>3, <3>4, <3>5, <3>6 DEF ApplyOK
  <2>4. CASE other # r
    <3>1. other \in Applying /\ requests'[other] = requests[other] /\ ApplyOK(other)
      BY <1>10, <2>1, <2>4 DEF Applying, IInv, RequestsOK
    <3>2. ASSUME NEW third \in Applying' \ {other}
          PROVE  /\ requests'[third].job # requests[other].job
                 /\ requests[other].written = Nothing \/ requests'[third].written = Nothing
      BY <1>2, <1>9, <1>10, <2>1, <2>2, <2>4, <3>1 DEF ApplyOK, HoldsItsJob, HoldsTheType, Applying
    <3> QED
      BY <1>1, <1>11, <3>1, <3>2, ApplyStays
  <2> QED
    BY <2>3, <2>4
<1>21. EventsOK'
  <2>1. \A other \in Requests : AfterItsCommit(other) \/ AfterItsCommit(other)' => requests'[other] = requests[other]
    BY <1>1, <1>9, <1>10 DEF AfterItsCommit
  <2> QED
    BY <1>1, <1>11, <2>1, CallbacksStay
<1> QED
  BY <1>11, <1>12, <1>13, <1>20, <1>21 DEF IInv, ImportsAreConsistent, RequestsOK

-----------------------------------------------------------------------------
(* The end of an apply.                                                    *)

\* There are as many events as rows they are about.
LEMMA OneEventPerRow ==
  ASSUME NEW S, IsFiniteSet(S), NEW T,
         \A e \in T : e.row \in S, \A n \in S : \E e \in T : e.row = n,
         \A e, other \in T : e.row = other.row => e = other
  PROVE  Cardinality(T) = Cardinality(S) /\ Cardinality(S) \in Nat
<1> DEFINE About == [n \in S |-> CHOOSE e \in T : e.row = n]
<1>1. \A n \in S : About[n] \in T /\ About[n].row = n
  OBVIOUS
<1>2. About \in [S -> T] /\ DOMAIN About = S
  BY <1>1
<1> HIDE DEF About
<1>3. About \in Injection(S, T)
  BY <1>1, <1>2 DEF Injection, IsInjective
<1>4. About \in Surjection(S, T)
  BY <1>1, <1>2 DEF Surjection
<1>5. ExistsBijection(S, T)
  BY <1>3, <1>4 DEF ExistsBijection, Bijection
<1> QED
  BY <1>5, FS_Bijection, FS_CardinalityType

LEMMA CountedRows ==
  ASSUME NEW a, NEW file \in Files, RowsInOrder(a, file), Sorts(a.results, file), a.checked, a.todo = {},
         a.done \subseteq Event
  PROVE  /\ Count(a.done, "created") = Cardinality(a.results.creates)
         /\ Count(a.done, "updated") = Cardinality(a.results.updates)
         /\ Cardinality(a.results.creates) \in Nat /\ Cardinality(a.results.updates) \in Nat
<1>1. IsFiniteSet(DOMAIN file)
  <2>1. DOMAIN file = 1..Len(file) /\ Len(file) \in Int
    BY FilesAreRows
  <2>2. IsFiniteSet(1..Len(file))
    BY ONLY <2>1, 1 \in Int, FS_Interval
  <2> QED
    BY <2>1, <2>2
<1>2. /\ a.results.creates \subseteq DOMAIN file /\ IsFiniteSet(a.results.creates)
      /\ a.results.updates \subseteq DOMAIN file /\ IsFiniteSet(a.results.updates)
  BY <1>1, FS_Subset DEF Sorts
<1>3. \A n \in DOMAIN file : n \in a.results.creates <=> n \notin a.results.updates
  BY DEF RowsInOrder, Sorts
<1>4. \A e \in a.done : /\ e.row \in DOMAIN file
                        /\ e.action = "created" <=> e.row \notin a.results.updates
                        /\ e.action = "updated" <=> e.row \in a.results.updates
  BY DEF RowsInOrder, IsSaved, Event
<1>5. /\ \A n \in DOMAIN file : \E e \in a.done : e.row = n
      /\ \A e, other \in a.done : e.row = other.row => e = other
  BY DEF RowsInOrder
<1> DEFINE Made == {e \in a.done : e.action = "created"}
           Changed == {e \in a.done : e.action = "updated"}
<1>6. Cardinality(Made) = Cardinality(a.results.creates) /\ Cardinality(a.results.creates) \in Nat
  <2>1. /\ \A e \in Made : e.row \in a.results.creates
        /\ \A n \in a.results.creates : \E e \in Made : e.row = n
        /\ \A e, other \in Made : e.row = other.row => e = other
    BY <1>2, <1>3, <1>4, <1>5
  <2> HIDE DEF Made
  <2> QED
    BY <1>2, <2>1, OneEventPerRow
<1>7. Cardinality(Changed) = Cardinality(a.results.updates) /\ Cardinality(a.results.updates) \in Nat
  <2>1. /\ \A e \in Changed : e.row \in a.results.updates
        /\ \A n \in a.results.updates : \E e \in Changed : e.row = n
        /\ \A e, other \in Changed : e.row = other.row => e = other
    BY <1>2, <1>3, <1>4, <1>5
  <2> HIDE DEF Changed
  <2> QED
    BY <1>2, <2>1, OneEventPerRow
<1> QED
  BY <1>6, <1>7 DEF Count

LEMMA CommitApplyStep ==
  ASSUME IInv, NEW r \in Requests, CommitApply(r)
  PROVE  IInv'
<1> DEFINE a == requests[r]
           j == a.job
           file == jobs[j].file
           job == [Stored(jobs[j], a.results) EXCEPT !.state = "applied", !.error_rows = {},
                     !.created = Count(a.done, "created"), !.updated = Count(a.done, "updated")]
           new == [step |-> "callbacks", todo |-> Callbacks(a.done, a.with_folders)]
<1>1. /\ UNCHANGED <<access, edits>> /\ owed' = owed \cup a.done
      /\ requests[r] # None /\ a.step = "apply" /\ a.checked /\ a.todo = {}
      /\ records' = Overlay(a.written) /\ events' = events \cup a.done
  BY DEF CommitApply
<1>2. jobs' = [jobs EXCEPT ![j] = job] /\ requests' = [requests EXCEPT ![r] = new]
  BY DEF CommitApply
<1>3. ImportsTypeOK /\ a \in Apply /\ r \in Applying /\ ApplyOK(r) /\ SortsItsJob(r) /\ File(r) = file
  BY <1>1, RequestTypes DEF IInv, ImportsAreConsistent, RequestsOK, Applying, File
<1>4. /\ file \in Files /\ j \in Jobs /\ jobs[j] \in ImportJob /\ a.results \in Lists /\ a.results # None
      /\ a.done \subseteq Event /\ a.written \in [RecordIds -> RecordRow \cup {None}]
      /\ Sorts(a.results, file)
  <2>1. a.results # None
    BY <1>3, ImportAssumption DEF Apply
  <2> QED
    BY <1>3, <2>1 DEF ImportsTypeOK, SortsItsJob, Apply, ImportJob, Writes
<1>5. RowsInOrder(a, file) /\ WithinGrants(a) /\ CodesStay(a, file) /\ Unique(Overlay(a.written))
  BY <1>3 DEF ApplyOK
<1>6. /\ job \in ImportJob /\ job.file = file /\ IsConsistent(job) /\ job # None
      /\ job.results = a.results /\ job.error_rows = {}
  <2>1. Stored(jobs[j], a.results) \in ImportJob /\ Stored(jobs[j], a.results).file = file
        /\ Stored(jobs[j], a.results).results = a.results
    BY <1>4, StoredJob
  <2>2. /\ Count(a.done, "created") = Cardinality(a.results.creates)
        /\ Count(a.done, "updated") = Cardinality(a.results.updates)
        /\ Cardinality(a.results.creates) \in Nat /\ Cardinality(a.results.updates) \in Nat
    BY <1>1, <1>4, <1>5, CountedRows
  <2>3. /\ job.state = "applied" /\ job.error_rows = {} /\ job.file = file /\ job.results = a.results
        /\ job.created = Cardinality(a.results.creates) /\ job.updated = Cardinality(a.results.updates)
        /\ job \in ImportJob
    BY <2>1, <2>2 DEF ImportJob
  <2> QED
    BY <2>3, RequestsAreSomething DEF IsConsistent
<1>7. /\ new \in AfterCommit /\ new # None /\ new.step = "callbacks"
      /\ \A e \in a.done : [event |-> e, kind |-> "post"] \in new.todo
      /\ \A c \in new.todo : c.event.action = "updated" => c.kind = "post"
  <2>1. Callbacks(a.done, a.with_folders) \subseteq Callback
    BY <1>4 DEF Callbacks, Callback
  <2>2. new \in AfterCommit
    BY <2>1 DEF AfterCommit
  <2>3. \A c \in new.todo : c.event.action = "updated" => c.kind = "post"
    BY DEF Callbacks
  <2>4. \A e \in a.done : [event |-> e, kind |-> "post"] \in Callbacks(a.done, a.with_folders)
    BY DEF Callbacks
  <2>5. new.todo = Callbacks(a.done, a.with_folders) /\ new.step = "callbacks"
    OBVIOUS
  <2> HIDE DEF new
  <2> QED
    BY <2>2, <2>3, <2>4, <2>5, RequestsAreSomething
<1> HIDE DEF job, new
<1>8. /\ requests' \in [Requests -> ImportRequest \cup {None}]
      /\ requests'[r] = new /\ \A other \in Requests \ {r} : requests'[other] = requests[other]
  BY <1>2, <1>3, <1>7, RequestWritten, RequestsAreSomething
<1>9. /\ jobs' \in [Jobs -> ImportJob \cup {None}]
      /\ jobs'[j] = job /\ \A k \in Jobs \ {j} : jobs'[k] = jobs[k]
  BY <1>2, <1>3, <1>4, <1>6 DEF ImportsTypeOK
<1>10. /\ records' \in [RecordIds -> RecordRow \cup {None}]
       /\ \A i \in RecordIds : records'[i] = IF a.written[i] # None THEN a.written[i] ELSE records[i]
  BY <1>1, <1>3, <1>4 DEF Overlay, ImportsTypeOK
<1>11. KeepsCodes
  BY <1>5, <1>10 DEF KeepsCodes, CodesStay
<1>12. Unique(records)' /\ RecordsStayUnique'
  <2>1. Unique(records')
    BY <1>1, <1>5
  <2> QED
    BY <2>1 DEF RecordsStayUnique, Unique
<1>13. AccessTypeOK' /\ ImportsTypeOK'
  <2>1. AccessTypeOK'
    BY <1>1, <1>3, AccessStays DEF ImportsTypeOK
  <2>2. \A k \in Jobs : jobs'[k] # None => /\ jobs'[k].error_rows \subseteq DOMAIN jobs'[k].file
                                           /\ jobs'[k].results # None => Sorts(jobs'[k].results, jobs'[k].file)
    BY <1>3, <1>4, <1>6, <1>9 DEF ImportsTypeOK, Present
  <2> QED
    BY <1>1, <1>3, <1>4, <1>8, <1>9, <1>10, <2>1, <2>2 DEF ImportsTypeOK, Present
<1>14. JobsAreConsistent'
  <2> SUFFICES ASSUME NEW k \in Jobs, jobs'[k] # None
               PROVE  IsConsistent(jobs'[k])
    BY DEF JobsAreConsistent, Present, IsConsistent
  <2> QED
    BY <1>6, <1>9 DEF IInv, ImportsAreConsistent, JobsAreConsistent, Present
<1>15. ASSUME NEW other \in Requests, requests'[other] # None, requests'[other].step \in {"dry_run", "apply"}
       PROVE  SortsItsJob(other)'
  <2>1. other # r /\ requests'[other] = requests[other]
    BY <1>7, <1>8, <1>15
  <2>2. \A k \in Jobs : jobs[k] # None => jobs'[k] # None /\ jobs'[k].file = jobs[k].file
    BY <1>6, <1>9
  <2> QED
    BY <1>15, <2>1, <2>2, SortingsStay
<1>16. \A other \in Applying' : ApplyOK(other)'
  <2>1. ASSUME NEW other \in Applying'
        PROVE  /\ other \in Applying \ {r} /\ requests'[other] = requests[other]
               /\ jobs'[requests[other].job] = jobs[requests[other].job]
               /\ requests[other].written = Nothing \/ UNCHANGED records
    <3>1. other \in Applying \ {r} /\ requests'[other] = requests[other]
      BY <1>7, <1>8 DEF Applying
    <3>2. requests[other].job \in Jobs \ {j}
      BY <1>3, <3>1, RequestTypes DEF ApplyOK, HoldsItsJob, Applying, Apply
    <3>3. a.written = Nothing => records' = records
      BY <1>3, <1>10 DEF ImportsTypeOK, Nothing
    <3>4. requests[other].written = Nothing \/ a.written = Nothing
      BY <1>3, <3>1 DEF ApplyOK, HoldsTheType
    <3> QED
      BY <1>9, <3>1, <3>2, <3>3, <3>4
  <2> QED
    BY <1>1, <1>11, <1>12, <2>1, AppliesStay
<1>17. EventsOK'
  <2>1. \A e \in events : Allowed(e)' /\ records'[e.record] # None
    BY <1>1, <1>11, EventsStay
  <2>2. ASSUME NEW e \in a.done
        PROVE  Allowed(e)' /\ records'[e.record] # None
    <3>1. e.record \in RecordIds /\ a.written[e.record] # None /\ e.user = a.user
      BY <1>4, <1>5 DEF RowsInOrder, IsSaved, Event
    <3>2. records'[e.record] = a.written[e.record]
      BY <1>10, <3>1
    <3>3. Allowed(e)'
      BY <1>1, <1>5, <3>1, <3>2, GrantsStay DEF Allowed, WithinGrants
    <3> QED
      BY <3>1, <3>2, <3>3
  <2>3. \A other \in Requests : AfterItsCommit(other)' => UpdatesOnlyPost(other)'
    BY <1>7, <1>8 DEF IInv, EventsOK, AfterItsCommit, UpdatesOnlyPost
  <2>4. ImportedRecordsArePosted'
    <3>1. ASSUME NEW e \in owed
          PROVE  \E other \in Requests : /\ requests'[other] # None /\ requests'[other].step = "callbacks"
                                         /\ [event |-> e, kind |-> "post"] \in requests'[other].todo
      BY <1>1, <1>8 DEF IInv, EventsOK, ImportedRecordsArePosted
    <3> QED
      BY <1>1, <1>7, <1>8, <3>1 DEF ImportedRecordsArePosted
  <2> QED
    BY <1>1, <2>1, <2>2, <2>3, <2>4 DEF EventsOK
<1> QED
  BY <1>12, <1>13, <1>14, <1>15, <1>16, <1>17 DEF IInv, ImportsAreConsistent, RequestsOK

LEMMA AbortApplyStep ==
  ASSUME IInv, NEW r \in Requests, AbortApply(r)
  PROVE  IInv'
<1>1. /\ UNCHANGED <<access, records, jobs, events, owed, edits>>
      /\ requests[r] # None /\ requests[r].step = "apply"
      /\ requests' = [requests EXCEPT ![r] = None]
  BY DEF AbortApply, RolledBack
<1>2. ImportsTypeOK
  BY DEF IInv, ImportsAreConsistent
<1>3. /\ requests' \in [Requests -> ImportRequest \cup {None}]
      /\ requests'[r] = None /\ \A other \in Requests \ {r} : requests'[other] = requests[other]
  BY <1>1, <1>2, RequestWritten
<1>4. /\ AccessTypeOK' /\ KeepsCodes /\ RecordsStayUnique' /\ Unique(records)'
      /\ records' \in [RecordIds -> RecordRow \cup {None}]
  BY <1>1, RecordsUntouched
<1>5. ImportsTypeOK' /\ JobsAreConsistent'
  BY <1>1, <1>2, <1>3, <1>4 DEF IInv, ImportsAreConsistent, ImportsTypeOK, JobsAreConsistent, Present
<1>6. ASSUME NEW other \in Requests, requests'[other] # None, requests'[other].step \in {"dry_run", "apply"}
      PROVE  SortsItsJob(other)'
  BY <1>1, <1>3, <1>6, SortingsStay
<1>7. \A other \in Applying' : ApplyOK(other)'
  <2>1. \A other \in Applying' : other \in Applying /\ requests'[other] = requests[other]
    BY <1>3 DEF Applying
  <2> QED
    BY <1>1, <1>4, <2>1, AppliesStay
<1>8. EventsOK'
  BY <1>1, <1>3, <1>4, CallbacksStay DEF AfterItsCommit
<1> QED
  BY <1>4, <1>5, <1>6, <1>7, <1>8 DEF IInv, ImportsAreConsistent, RequestsOK

\* A request runs a callback or ends, and nothing stays owed that it leaves.
LEMMA CallbacksGoOn ==
  ASSUME IInv, NEW r \in Requests, AfterItsCommit(r), UNCHANGED <<access, records, jobs, events, edits>>,
         NEW new \in AfterCommit \cup {None}, requests' = [requests EXCEPT ![r] = new],
         new # None => new.todo \subseteq requests[r].todo,
         owed' \subseteq owed,
         \A e \in owed' : [event |-> e, kind |-> "post"] \in requests[r].todo
                            => new # None /\ [event |-> e, kind |-> "post"] \in new.todo
  PROVE  IInv'
<1>1. ImportsTypeOK /\ (new # None => new.step = "callbacks")
  BY DEF IInv, ImportsAreConsistent, AfterCommit
<1>2. /\ requests' \in [Requests -> ImportRequest \cup {None}]
      /\ requests'[r] = new /\ \A other \in Requests \ {r} : requests'[other] = requests[other]
  BY <1>1, RequestWritten DEF ImportRequest
<1>3. /\ AccessTypeOK' /\ KeepsCodes /\ RecordsStayUnique' /\ Unique(records)'
      /\ records' \in [RecordIds -> RecordRow \cup {None}]
  BY RecordsUntouched
<1>4. ImportsTypeOK' /\ JobsAreConsistent'
  BY <1>1, <1>2, <1>3 DEF IInv, ImportsAreConsistent, ImportsTypeOK, JobsAreConsistent, Present
<1>5. ASSUME NEW other \in Requests, requests'[other] # None, requests'[other].step \in {"dry_run", "apply"}
      PROVE  SortsItsJob(other)'
  BY <1>1, <1>2, <1>5, SortingsStay DEF AfterItsCommit
<1>6. \A other \in Applying' : ApplyOK(other)'
  <2>1. \A other \in Applying' : other \in Applying /\ requests'[other] = requests[other]
    BY <1>1, <1>2 DEF Applying
  <2> QED
    BY <1>3, <2>1, AppliesStay
<1>7. EventsOK'
  <2>1. \A e \in events : Allowed(e)' /\ records'[e.record] # None
    BY <1>3, EventsStay
  <2>2. \A other \in Requests : AfterItsCommit(other)' => UpdatesOnlyPost(other)'
    BY <1>2 DEF IInv, EventsOK, AfterItsCommit, UpdatesOnlyPost
  <2>3. ImportedRecordsArePosted'
    BY <1>1, <1>2 DEF IInv, EventsOK, ImportedRecordsArePosted
  <2> QED
    BY <2>1, <2>2, <2>3 DEF EventsOK
<1> QED
  BY <1>3, <1>4, <1>5, <1>6, <1>7 DEF IInv, ImportsAreConsistent, RequestsOK

LEMMA RunCallbackStep ==
  ASSUME IInv, NEW r \in Requests, NEW callback, RunCallback(r, callback)
  PROVE  IInv'
<1> DEFINE rest == requests[r].todo \ {callback}
           new == IF rest = {} THEN None ELSE [requests[r] EXCEPT !.todo = rest]
<1>1. /\ UNCHANGED <<access, records, jobs, events, edits>>
      /\ AfterItsCommit(r) /\ callback \in requests[r].todo
      /\ owed' = IF callback.kind = "post" THEN owed \ {callback.event} ELSE owed
  BY DEF RunCallback, IsNext, AfterItsCommit
<1>2. ImportsTypeOK /\ requests[r] \in AfterCommit
  BY <1>1, RequestTypes DEF IInv, ImportsAreConsistent, AfterItsCommit
<1>3. requests' = [requests EXCEPT ![r] = new]
  BY <1>2 DEF RunCallback, ImportsTypeOK
<1>4. new \in AfterCommit \cup {None} /\ (new # None => new.todo = rest) /\ (rest # {} => new # None)
  BY <1>2, RequestsAreSomething DEF AfterCommit
<1>5. \A e \in owed' : [event |-> e, kind |-> "post"] # callback
  BY <1>1
<1>6. \A e \in owed' : [event |-> e, kind |-> "post"] \in requests[r].todo
                        => new # None /\ [event |-> e, kind |-> "post"] \in new.todo
  BY <1>4, <1>5
<1> HIDE DEF new
<1> QED
  BY <1>1, <1>3, <1>4, <1>6, CallbacksGoOn

\* What is not excused by a callback comes before it, and has been run.
LEMMA FailCallbackStep ==
  ASSUME IInv, NEW r \in Requests, NEW callback, FailCallback(r, callback)
  PROVE  IInv'
<1>1. /\ UNCHANGED <<access, records, jobs, events, edits>>
      /\ AfterItsCommit(r) /\ callback \in requests[r].todo /\ UpdatesOnlyPost(r)
      /\ \A other \in requests[r].todo : ~Before(other, callback)
      /\ owed' = owed \ {e \in {c.event : c \in requests[r].todo} : Excuses(callback, e)}
      /\ requests' = [requests EXCEPT ![r] = None]
  BY DEF FailCallback, IsNext, AfterItsCommit, IInv, EventsOK
<1>2. requests[r].todo \subseteq Callback
  BY <1>1, RequestTypes DEF IInv, ImportsAreConsistent, AfterItsCommit, AfterCommit
<1>3. ASSUME NEW e, [event |-> e, kind |-> "post"] \in requests[r].todo
      PROVE  e \in {c.event : c \in requests[r].todo} /\ Excuses(callback, e)
  <2> DEFINE post == [event |-> e, kind |-> "post"]
  <2>1. /\ post \in Callback /\ post.event = e /\ post.kind = "post" /\ post \in requests[r].todo
        /\ ~Before(post, callback)
    BY <1>1, <1>2, <1>3
  <2> HIDE DEF post
  <2>2. /\ e.action \in {"created", "updated"} /\ e.row \in Nat
        /\ callback.event.action \in {"created", "updated"} /\ callback.event.row \in Nat
        /\ callback.kind \in {"signal", "post", "folder"}
    BY <1>1, <1>2, <2>1 DEF Callback, Event
  <2>3. callback.event.action = "updated" => callback.kind = "post"
    BY <1>1 DEF UpdatesOnlyPost
  <2>4. Excuses(callback, e)
    BY <2>1, <2>2, <2>3 DEF Before, Precedes, Excuses
  <2> QED
    BY <2>1, <2>4
<1> QED
  BY <1>1, <1>3, CallbacksGoOn

-----------------------------------------------------------------------------
(* Other requests.                                                         *)

LEMMA WriteRecordStep ==
  ASSUME IInv, NEW i \in RecordIds, NEW data \in RecordInputs, WriteRecord(i, data)
  PROVE  IInv' /\ events' = events /\ edits' = edits + 1 /\ \A k \in RecordIds \ {i} : records'[k] = records[k]
<1> DEFINE row == [code |-> IF records[i] = None THEN None ELSE records[i].code, data |-> data]
<1>1. /\ UNCHANGED <<access, jobs, events, requests, owed>>
      /\ edits < MaxEdits /\ edits' = edits + 1
      /\ ~TypeLocked({}) /\ ValidRecord(i, data, records)
      /\ records' = [records EXCEPT ![i] = row]
  BY DEF WriteRecord
<1>2. ImportsTypeOK
  BY DEF IInv, ImportsAreConsistent
<1>3. row \in RecordRow /\ row # None /\ row.data = data
      /\ row.code = IF records[i] = None THEN None ELSE records[i].code
  <2>1. data \in Data
    BY ImportAssumption
  <2> QED
    BY <1>2, <2>1, RequestsAreSomething DEF ImportsTypeOK, RecordRow
<1> HIDE DEF row
<1>4. /\ records' \in [RecordIds -> RecordRow \cup {None}] /\ records'[i] = row
      /\ \A k \in RecordIds \ {i} : records'[k] = records[k]
  BY <1>1, <1>2, <1>3 DEF ImportsTypeOK
<1>5. KeepsCodes
  BY <1>3, <1>4 DEF KeepsCodes
<1>6. Unique(records)' /\ RecordsStayUnique'
  <2>1. Unique(records)
    BY DEF IInv, ImportsAreConsistent, RecordsStayUnique
  <2>2. \A k \in RecordIds \ {i} :
          records[k] # None => /\ row.code = None \/ records[k].code # row.code
                               /\ TypeOf[k] = TargetType => ~Conflict(row.data, records[k].data)
    BY <1>1, <1>3, <2>1 DEF Unique, ValidRecord
  <2>3. Unique(records')
    BY <1>4, <2>1, <2>2, UniqueWithRow
  <2> QED
    BY <2>3 DEF RecordsStayUnique, Unique
<1>7. AccessTypeOK' /\ ImportsTypeOK'
  <2>1. AccessTypeOK' /\ edits' \in 0..MaxEdits
    BY <1>1, <1>2, ImportAssumption, AccessStays DEF ImportsTypeOK
  <2> QED
    BY <1>1, <1>2, <1>4, <2>1 DEF ImportsTypeOK, Present
<1>8. JobsAreConsistent'
  BY <1>1 DEF IInv, ImportsAreConsistent, JobsAreConsistent, Present, IsConsistent
<1>9. ASSUME NEW other \in Requests, requests'[other] # None, requests'[other].step \in {"dry_run", "apply"}
      PROVE  SortsItsJob(other)'
  BY <1>1, <1>9, SortingsStay
<1>10. \A other \in Applying' : ApplyOK(other)'
  <2>1. \A other \in Applying' : other \in Applying /\ requests[other].written = Nothing
    BY <1>1 DEF Applying, TypeLocked
  <2> QED
    BY <1>1, <1>5, <1>6, <2>1, AppliesStay
<1>11. EventsOK'
  BY <1>1, <1>5, CallbacksStay DEF AfterItsCommit
<1> QED
  BY <1>1, <1>4, <1>6, <1>7, <1>8, <1>9, <1>10, <1>11 DEF IInv, ImportsAreConsistent, RequestsOK

LEMMA StutterStep ==
  ASSUME IInv, UNCHANGED vars
  PROVE  IInv'
<1>1. UNCHANGED <<access, records, jobs, events, requests, owed, edits>>
  BY DEF vars, imports
<1>2. /\ AccessTypeOK' /\ KeepsCodes /\ RecordsStayUnique' /\ Unique(records)'
      /\ records' \in [RecordIds -> RecordRow \cup {None}]
  BY <1>1, RecordsUntouched
<1>3. ImportsTypeOK' /\ JobsAreConsistent'
  BY <1>1, <1>2 DEF IInv, ImportsAreConsistent, ImportsTypeOK, JobsAreConsistent, IsConsistent, Present
<1>4. ASSUME NEW other \in Requests, requests'[other] # None, requests'[other].step \in {"dry_run", "apply"}
      PROVE  SortsItsJob(other)'
  BY <1>1, <1>4, SortingsStay
<1>5. \A other \in Applying' : ApplyOK(other)'
  <2>1. Applying' = Applying
    BY <1>1 DEF Applying
  <2> QED
    BY <1>1, <1>2, <2>1, AppliesStay
<1>6. EventsOK'
  BY <1>1, <1>2, CallbacksStay DEF AfterItsCommit
<1> QED
  BY <1>2, <1>3, <1>4, <1>5, <1>6 DEF IInv, ImportsAreConsistent, RequestsOK

LEMMA NextKeepsIInv ==
  ASSUME IInv, [Next]_vars
  PROVE  IInv'
<1>1. ASSUME NEW u \in Users, NEW j \in Jobs, NEW file \in Files, CreateJob(u, j, file)
      PROVE  IInv'
  BY <1>1, CreateJobStep
<1>2. ASSUME NEW r \in Requests, NEW u \in Users, NEW j \in Jobs, StartDryRun(r, u, j)
      PROVE  IInv'
  BY <1>2, StartDryRunStep
<1>3. ASSUME NEW r \in Requests, NEW u \in Users, NEW j \in Jobs, NEW b \in BOOLEAN, StartApply(r, u, j, b)
      PROVE  IInv'
  BY <1>3, StartApplyStep
<1>4. ASSUME NEW r \in Requests, SaveDryRun(r) \/ Preflight(r) \/ CommitApply(r) \/ AbortApply(r)
      PROVE  IInv'
  BY <1>4, SaveDryRunStep, PreflightStep, CommitApplyStep, AbortApplyStep
<1>5. ASSUME NEW r \in Requests, NEW op, SaveRow(r, op)
      PROVE  IInv'
  BY <1>5, SaveRowStep
<1>6. ASSUME NEW r \in Requests, NEW callback, RunCallback(r, callback) \/ FailCallback(r, callback)
      PROVE  IInv'
  BY <1>6, RunCallbackStep, FailCallbackStep
<1>7. ASSUME NEW i \in RecordIds, NEW data \in RecordInputs, WriteRecord(i, data)
      PROVE  IInv'
  BY <1>7, WriteRecordStep
<1>8. CASE UNCHANGED vars
  BY <1>8, StutterStep
<1> QED
  BY <1>1, <1>2, <1>3, <1>4, <1>5, <1>6, <1>7, <1>8 DEF Next

LEMMA ImportsInvariance == Spec => []IInv
<1>1. Init => IInv
  BY InitOK
<1>2. IInv /\ [Next]_vars => IInv'
  BY NextKeepsIInv
<1> QED
  BY <1>1, <1>2, PTL DEF Spec

-----------------------------------------------------------------------------
(* What follows.                                                           *)

\* The state of a job, its results, errors and counters belong together, and
\* codes and unique values stay unique, however dry runs and applies overlap
\* each other and the writes of other requests (apply_import).
THEOREM ImportsStayConsistent == Spec => []ImportsAreConsistent
<1>1. IInv => ImportsAreConsistent
  BY DEF IInv
<1> QED
  BY <1>1, ImportsInvariance, PTL

\* Whatever an import wrote, the user who applied it might have written by
\* hand (_preflight_apply_operations).
THEOREM ImportsStayWithinGrants == Spec => []ImportsWithinGrants
<1>1. IInv => ImportsWithinGrants
  BY DEF IInv, EventsOK, ImportsWithinGrants, Allowed
<1> QED
  BY <1>1, ImportsInvariance, PTL

\* Where an import has no callbacks left, each of its records was posted to the
\* index, unless a callback failed that comes before its index task or posts it
\* (apply_import, services.py 139-162).
THEOREM NoImportIsForgotten == Spec => []ImportedRecordsArePosted
<1>1. IInv => ImportedRecordsArePosted
  BY DEF IInv, EventsOK
<1> QED
  BY <1>1, ImportsInvariance, PTL

-----------------------------------------------------------------------------
(* Every import is one step of ImportLedger.                               *)

LEMMA InitShows ==
  ASSUME Init
  PROVE  Ledger!Init
<1>1. Present = {}
  BY DEF Init, Present
<1>2. FilesShown = [j \in {} |-> <<>>] /\ AppliedShown = {}
  BY <1>1 DEF FilesShown, AppliedShown
<1> QED
  BY <1>2 DEF Init, Ledger!Init

\* The commit of an apply is an import: each row is in the record of its event.
LEMMA CommitIsAnImport ==
  ASSUME IInv, NEW r \in Requests, CommitApply(r)
  PROVE  Ledger!Next
<1> DEFINE a == requests[r]
           j == a.job
           file == jobs[j].file
           done == [Stored(jobs[j], a.results) EXCEPT !.state = "applied", !.error_rows = {},
                      !.created = Count(a.done, "created"), !.updated = Count(a.done, "updated")]
           place == [n \in DOMAIN file |-> (CHOOSE e \in a.done : e.row = n).record]
<1>1. /\ requests[r] # None /\ a.step = "apply" /\ a.checked /\ a.todo = {}
      /\ records' = Overlay(a.written) /\ events' = events \cup a.done
      /\ edits' = edits /\ jobs' = [jobs EXCEPT ![j] = done]
  BY DEF CommitApply
<1>2. IInv'
  BY CommitApplyStep
<1>3. ImportsTypeOK /\ ImportsTypeOK' /\ a \in Apply /\ r \in Applying /\ ApplyOK(r) /\ SortsItsJob(r) /\ File(r) = file
  BY <1>1, <1>2, RequestTypes DEF IInv, ImportsAreConsistent, RequestsOK, Applying, File
<1>4. /\ file \in Files /\ j \in Jobs /\ jobs[j] \in ImportJob /\ jobs[j] # None /\ a.user \in Users
      /\ a.results \in Lists \cup {None} /\ (a.results # None => Sorts(a.results, file))
      /\ a.done \subseteq Event /\ jobs[j].state = "dry_run_ready"
      /\ RowsInOrder(a, file) /\ CodesStay(a, file) /\ a.written \in [RecordIds -> RecordRow \cup {None}]
  BY <1>3 DEF ImportsTypeOK, SortsItsJob, Apply, ImportJob, ApplyOK, HoldsItsJob, Writes
<1>5. done.state = "applied" /\ done.file = file /\ done # None
  <2>1. Stored(jobs[j], a.results) \in ImportJob /\ Stored(jobs[j], a.results).file = file
    BY <1>4, StoredJob
  <2>2. done.state = "applied" /\ done.file = file
    BY <2>1 DEF ImportJob
  <2>3. jobs'[j] = done /\ jobs'[j] \in ImportJob \cup {None}
    BY <1>1, <1>3, <1>4 DEF ImportsTypeOK
  <2>4. jobs'[j] # None
    <3>1. CASE a.results = None
      BY <1>1, <1>4, <3>1, ImportAssumption, <1>3 DEF Apply
    <3>2. CASE a.results # None
      <4>1. /\ Count(a.done, "created") = Cardinality(a.results.creates)
            /\ Count(a.done, "updated") = Cardinality(a.results.updates)
            /\ Cardinality(a.results.creates) \in Nat /\ Cardinality(a.results.updates) \in Nat
        BY <1>1, <1>4, <3>2, CountedRows
      <4>2. done \in ImportJob
        BY <2>1, <4>1 DEF ImportJob
      <4> QED
        BY <2>3, <4>2, RequestsAreSomething
    <3> QED
      BY <3>1, <3>2
  <2> QED
    BY <2>2, <2>3, <2>4
<1> HIDE DEF done
<1>6. Present' = Present /\ j \in Present /\ FilesShown' = FilesShown /\ AppliedShown' = AppliedShown \cup {j}
  <2>1. \A k \in Jobs \ {j} : jobs'[k] = jobs[k]
    BY <1>1, <1>3 DEF ImportsTypeOK
  <2>2. jobs'[j] = done
    BY <1>1, <1>3, <1>4 DEF ImportsTypeOK
  <2>3. Present' = Present /\ j \in Present
    BY <1>4, <1>5, <2>1, <2>2 DEF Present
  <2>4. \A k \in Present : jobs'[k].file = jobs[k].file
    BY <1>5, <2>1, <2>2 DEF Present
  <2>5. AppliedShown' = AppliedShown \cup {j}
    BY <1>5, <2>1, <2>2, <2>3 DEF AppliedShown, Present
  <2> QED
    BY <2>3, <2>4, <2>5 DEF FilesShown
<1>7. j \notin AppliedShown /\ FilesShown[j] = file /\ DOMAIN FilesShown = Present
  BY <1>4, <1>6 DEF AppliedShown, FilesShown
<1>8. \A i \in RecordIds : records'[i] = IF a.written[i] # None THEN a.written[i] ELSE records[i]
  BY <1>1 DEF Overlay
<1>9. ASSUME NEW n \in DOMAIN file
      PROVE  /\ place[n] \in RecordIds /\ a.written[place[n]] # None
             /\ \E e \in a.done : /\ e.row = n /\ e.record = place[n] /\ IsSaved(e, a, file)
                                  /\ e.action = "created" <=> records[place[n]] = None
  <2>1. \E e \in a.done : e.row = n
    BY <1>1, <1>4 DEF RowsInOrder
  <2>2. PICK e \in a.done : e = CHOOSE f \in a.done : f.row = n
    BY <2>1
  <2>3. e.row = n /\ e.record = place[n] /\ IsSaved(e, a, file) /\ e \in Event
    BY <1>4, <2>1, <2>2 DEF RowsInOrder
  <2> HIDE DEF place
  <2> QED
    BY <1>4, <2>3 DEF IsSaved, Event, CodesStay
<1>10. \A e \in a.done : e.row \in DOMAIN file /\ e.record = place[e.row]
  <2>1. \A e \in a.done : e.row \in DOMAIN file
    BY <1>4 DEF RowsInOrder, IsSaved
  <2> HIDE DEF place
  <2>2. \A e, f \in a.done : e.row = f.row => e = f
    BY <1>4 DEF RowsInOrder
  <2> QED
    BY <1>9, <2>1, <2>2
<1>11. place \in [DOMAIN file -> RecordIds]
  BY <1>9
<1> HIDE DEF place
<1>12. \A n, m \in DOMAIN file : place[n] = place[m] => n = m
  <2>1. \A e, f \in a.done : e.record = f.record => e = f
    BY <1>4 DEF RowsInOrder
  <2> QED
    BY <1>9, <2>1
<1>13. ASSUME NEW n \in DOMAIN file
       PROVE  /\ records[place[n]] # None => records[place[n]].code = file[n].code
              /\ records'[place[n]] \in RecordRow
              /\ records'[place[n]].code = file[n].code
              /\ Ledger!Holds(file[n], records'[place[n]].data)
  <2>1. place[n] \in RecordIds /\ a.written[place[n]] # None /\ records'[place[n]] = a.written[place[n]]
    BY <1>8, <1>9
  <2>2. a.written[place[n]].code = file[n].code /\ Holds(file[n], a.written[place[n]].data)
    BY <1>9 DEF IsSaved
  <2>3. records[place[n]] # None => a.written[place[n]].code = records[place[n]].code
    BY <1>4, <2>1 DEF CodesStay
  <2>4. a.written[place[n]] \in RecordRow
    BY <1>4, <2>1
  <2>5. Ledger!Holds(file[n], a.written[place[n]].data)
    BY <2>2 DEF Holds, Ledger!Holds
  <2> QED
    BY <2>1, <2>2, <2>3, <2>4, <2>5
<1>14. \A i \in RecordIds : (\A n \in DOMAIN file : place[n] # i) => records'[i] = records[i]
  <2> SUFFICES ASSUME NEW i \in RecordIds, \A n \in DOMAIN file : place[n] # i
               PROVE  a.written[i] = None
    BY <1>8
  <2>1. a.written[i] # None => \E e \in a.done : e.record = i
    BY <1>4 DEF RowsInOrder
  <2> QED
    BY <1>10, <2>1
<1>15. a.done = {[job |-> j, row |-> n, record |-> place[n], user |-> a.user,
                  action |-> IF records[place[n]] = None THEN "created" ELSE "updated"] : n \in DOMAIN file}
  <2> DEFINE entry(n) == [job |-> j, row |-> n, record |-> place[n], user |-> a.user,
                          action |-> IF records[place[n]] = None THEN "created" ELSE "updated"]
  <2>1. ASSUME NEW e \in a.done
        PROVE  e = entry(e.row)
    <3>1. e \in Event /\ e.job = j /\ e.user = a.user /\ e.record = place[e.row]
      BY <1>4, <1>10 DEF RowsInOrder, IsSaved
    <3>2. e.action = IF records[e.record] = None THEN "created" ELSE "updated"
      BY <1>4, <3>1 DEF CodesStay, Event
    <3> QED
      BY <3>1, <3>2 DEF Event
  <2>2. \A n \in DOMAIN file : \E e \in a.done : e.row = n
    BY <1>9
  <2> HIDE DEF entry
  <2>3. a.done = {entry(n) : n \in DOMAIN file}
    BY <1>10, <2>1, <2>2
  <2> QED
    BY <2>3 DEF entry
<1>16. Ledger!Import(j, a.user, place)
  <2>1. records' \in [RecordIds -> RecordRow \cup {None}]
    BY <1>3 DEF ImportsTypeOK
  <2>2. events' = events \cup {[job |-> j, row |-> n, record |-> place[n], user |-> a.user,
            action |-> IF records[place[n]] = None THEN "created" ELSE "updated"] : n \in DOMAIN FilesShown[j]}
    BY <1>1, <1>7, <1>15
  <2> QED
    BY <1>1, <1>6, <1>7, <1>12, <1>13, <1>14, <2>1, <2>2 DEF Ledger!Import
<1> QED
  BY <1>4, <1>6, <1>7, <1>11, <1>16 DEF Ledger!Next

\* A job that is created, or gets a new dry run, shows that and nothing else.
LEMMA CreateJobShows ==
  ASSUME IInv, NEW u \in Users, NEW j \in Jobs, NEW file \in Files, CreateJob(u, j, file)
  PROVE  Ledger!Create(j)
<1> DEFINE job == [file |-> file, state |-> "pending", results |-> None, error_rows |-> {},
                   created |-> 0, updated |-> 0]
<1>1. ImportsTypeOK /\ UNCHANGED <<records, events, edits>> /\ jobs[j] = None /\ jobs' = [jobs EXCEPT ![j] = job]
  BY DEF CreateJob, IInv, ImportsAreConsistent
<1>2. job # None /\ job.file = file /\ job.state = "pending"
  <2>1. job \in ImportJob
    BY DEF ImportJob
  <2> QED
    BY <2>1, RequestsAreSomething
<1> HIDE DEF job
<1>3. jobs'[j] = job /\ \A k \in Jobs \ {j} : jobs'[k] = jobs[k]
  BY <1>1 DEF ImportsTypeOK
<1>4. Present' = Present \cup {j} /\ j \notin Present
  BY <1>1, <1>2, <1>3 DEF Present
<1>5. AppliedShown' = AppliedShown
  BY <1>2, <1>3, <1>4 DEF AppliedShown, Present
<1>6. /\ DOMAIN FilesShown' = DOMAIN FilesShown \cup {j} /\ j \notin DOMAIN FilesShown
      /\ FilesShown'[j] = file /\ \A k \in DOMAIN FilesShown : FilesShown'[k] = FilesShown[k]
  BY <1>2, <1>3, <1>4 DEF FilesShown, Present
<1> QED
  BY <1>1, <1>5, <1>6 DEF Ledger!Create

LEMMA SaveDryRunShows ==
  ASSUME IInv, NEW r \in Requests, SaveDryRun(r)
  PROVE  UNCHANGED <<FilesShown, records, events, edits>> /\ (AppliedShown' = AppliedShown \/ Ledger!Next)
<1> DEFINE j == requests[r].job
           results == requests[r].results
<1>1. /\ UNCHANGED <<records, events, edits>> /\ ImportsTypeOK
      /\ requests[r] # None /\ requests[r].step = "dry_run"
      /\ jobs' = [jobs EXCEPT ![j] = Stored(jobs[j], results)]
  BY DEF SaveDryRun, IInv, ImportsAreConsistent
<1>2. requests[r] \in DryRun /\ SortsItsJob(r)
  BY <1>1, RequestTypes DEF IInv, RequestsOK
<1>3. /\ j \in Jobs /\ results \in Lists \cup {None} /\ jobs[j] \in ImportJob /\ jobs[j] # None
      /\ results # None => Sorts(results, jobs[j].file)
  BY <1>1, <1>2 DEF ImportsTypeOK, SortsItsJob, File, DryRun
<1> HIDE DEF j, results
<1>4. Stored(jobs[j], results).state # "applied" /\ Stored(jobs[j], results).file = jobs[j].file
      /\ Stored(jobs[j], results) # None
  BY <1>3, StoredJob, RequestsAreSomething
<1>5. jobs'[j] = Stored(jobs[j], results) /\ \A k \in Jobs \ {j} : jobs'[k] = jobs[k]
  BY <1>1, <1>3 DEF ImportsTypeOK
<1>6. Present' = Present
  BY <1>3, <1>4, <1>5 DEF Present
<1>7. \A k \in Present : jobs'[k].file = jobs[k].file
  BY <1>4, <1>5 DEF Present
<1>8. FilesShown' = FilesShown
  BY <1>6, <1>7 DEF FilesShown
<1>9. AppliedShown' = AppliedShown \ {j}
  BY <1>4, <1>5, <1>6 DEF AppliedShown, Present
<1>10. j \in AppliedShown => Ledger!Next
  BY <1>1, <1>8, <1>9 DEF Ledger!Next, Ledger!Reopen
<1> QED
  BY <1>1, <1>8, <1>9, <1>10

\* A write by hand changes one record.
LEMMA WriteShows ==
  ASSUME IInv, NEW i \in RecordIds, NEW data \in RecordInputs, WriteRecord(i, data)
  PROVE  Ledger!Write(i)
<1> DEFINE row == [code |-> IF records[i] = None THEN None ELSE records[i].code, data |-> data]
<1>1. /\ UNCHANGED <<jobs, events>> /\ edits' = edits + 1 /\ ImportsTypeOK
      /\ records' = [records EXCEPT ![i] = row]
  BY DEF WriteRecord, IInv, ImportsAreConsistent
<1>2. row \in RecordRow /\ row.code = IF records[i] = None THEN None ELSE records[i].code
  <2>1. data \in Data
    BY ImportAssumption
  <2> QED
    BY <1>1, <2>1 DEF ImportsTypeOK, RecordRow
<1> HIDE DEF row
<1>3. records'[i] = row
  BY <1>1 DEF ImportsTypeOK
<1>4. FilesShown' = FilesShown /\ AppliedShown' = AppliedShown
  BY <1>1 DEF FilesShown, AppliedShown, Present
<1> QED
  BY <1>1, <1>2, <1>3, <1>4 DEF Ledger!Write

LEMMA StepsShow ==
  ASSUME IInv, [Next]_vars
  PROVE  [Ledger!Next]_<<FilesShown, AppliedShown, records, events, edits>>
<1>1. ASSUME UNCHANGED <<jobs, records, events, edits>>
      PROVE  UNCHANGED <<FilesShown, AppliedShown, records, events, edits>>
  BY <1>1 DEF FilesShown, AppliedShown, Present
<1>2. ASSUME NEW u \in Users, NEW j \in Jobs, NEW file \in Files, CreateJob(u, j, file)
      PROVE  Ledger!Next
  BY <1>2, CreateJobShows DEF Ledger!Next
<1>3. ASSUME NEW r \in Requests, NEW u \in Users, NEW j \in Jobs, NEW b \in BOOLEAN,
             StartDryRun(r, u, j) \/ StartApply(r, u, j, b)
      PROVE  UNCHANGED <<jobs, records, events, edits>>
  BY <1>3 DEF StartDryRun, StartApply
<1>4. ASSUME NEW r \in Requests, SaveDryRun(r)
      PROVE  UNCHANGED <<FilesShown, AppliedShown, records, events, edits>> \/ Ledger!Next
  BY <1>4, SaveDryRunShows
<1>5. ASSUME NEW r \in Requests, Preflight(r) \/ AbortApply(r)
      PROVE  UNCHANGED <<jobs, records, events, edits>>
  BY <1>5 DEF Preflight, AbortApply, RolledBack
<1>6. ASSUME NEW r \in Requests, NEW op, SaveRow(r, op)
      PROVE  UNCHANGED <<jobs, records, events, edits>>
  BY <1>6 DEF SaveRow
<1>7. ASSUME NEW r \in Requests, NEW callback, RunCallback(r, callback) \/ FailCallback(r, callback)
      PROVE  UNCHANGED <<jobs, records, events, edits>>
  BY <1>7 DEF RunCallback, FailCallback
<1>8. ASSUME NEW i \in RecordIds, NEW data \in RecordInputs, WriteRecord(i, data)
      PROVE  Ledger!Next
  BY <1>8, WriteShows DEF Ledger!Next
<1>9. CASE UNCHANGED vars
  BY <1>1, <1>9 DEF vars, imports
<1> QED
  BY <1>1, <1>2, <1>3, <1>4, <1>5, <1>6, <1>7, <1>8, <1>9, CommitIsAnImport DEF Next

\* Imports implement ImportLedger: a file is imported in one step, each row in a
\* record of its own with its event and its values, or not at all, whatever
\* other requests write meanwhile (apply_import, services.py 124-178).
THEOREM ImportsComeWhole == Spec => ImportsAreWhole
<1>1. Init => Ledger!Init
  BY InitShows
<1>2. IInv /\ [Next]_vars => [Ledger!Next]_<<FilesShown, AppliedShown, records, events, edits>>
  BY StepsShow
<1> QED
  BY <1>1, <1>2, ImportsInvariance, PTL DEF Spec, ImportsAreWhole, Ledger!Spec
=============================================================================
