------------------------------ MODULE Projects ------------------------------
(***************************************************************************)
(* Projects with their records, boards, task dependencies and task moves   *)
(* (apps/projects/services.py, views.py, models.py).                       *)
(*                                                                         *)
(* Every operation is one transaction that first locks rows, one after the *)
(* other, and then reads, checks and writes; it commits in the step that   *)
(* writes.  A project and its record have the same key.  Columns, and      *)
(* tasks but for their place, are made by the demonstration commands and   *)
(* never change; what a user may do is fixed.                              *)
(***************************************************************************)
EXTENDS Sequences, Naturals, FiniteSetsExt

CONSTANTS
  Requests, Users,
  Actors,        \* the users who send requests
  ProjectIds, TaskIds, ColumnIds,
  ProjectOf,     \* the project of each task and column
  TasksInOrder,  \* the tasks of each project by id
  Assignee,      \* of each task, or None
  Finished,      \* the tasks whose state is done
  Hours,         \* the estimate of each task
  MayCreate,     \* the users who may create projects
  MayView,       \* the projects each user may view
  MayEdit,       \* the projects each user may edit
  Positions,     \* values of sort_order
  Values,        \* values of the fields of a project
  Creations,     \* the owner and target that creations send
  Changes,       \* what an update sends: a value, None or Unset for each field
  Patches,       \* the field and the value that a PATCH of a record sends
  MaxWrites,     \* bound on the number of moves and dependencies
  Unset, None

\* status is the project's alone, note the record's; update_project writes
\* owner and target into both.
ProjectFields == {"status", "owner", "target"}
SyncedFields == {"owner", "target"}
DataFields == SyncedFields \cup {"note"}

ASSUME InputAssumption ==
  /\ ProjectOf \in [TaskIds \cup ColumnIds -> ProjectIds]
  /\ TaskIds \cap ColumnIds = {}
  /\ TasksInOrder \in [ProjectIds -> Seq(TaskIds)]
  /\ \A p \in ProjectIds :
       {TasksInOrder[p][n] : n \in DOMAIN TasksInOrder[p]} = {t \in TaskIds : ProjectOf[t] = p}
  /\ Assignee \in [TaskIds -> Users \cup {None}]
  /\ Finished \subseteq TaskIds
  /\ Hours \in [TaskIds -> Nat]
  /\ Actors \subseteq Users
  /\ MayCreate \subseteq Users
  /\ MayView \in [Users -> SUBSET ProjectIds]
  /\ MayEdit \in [Users -> SUBSET ProjectIds]
  /\ Positions \subseteq Nat
  /\ 0 \in Positions
  /\ Users \subseteq Values
  /\ Changes \subseteq [ProjectFields -> Values \cup {None, Unset}]
  /\ Creations \subseteq [SyncedFields -> Values \cup {None}]
  /\ Patches \subseteq [field : DataFields, value : Values]
  /\ Unset \notin Values \cup {None}
  /\ None \notin ProjectIds \cup ColumnIds \cup TaskIds \cup Values
  /\ None \notin [ProjectFields -> Values \cup {None}]
  /\ MaxWrites \in Nat

VARIABLES
  projects,      \* the Project rows
  records,       \* the data of their records
  tasks,         \* where each task is on its board
  moves,         \* the task_moved events of each task
  dependencies,  \* the ProjectTaskDependency rows: task, what it depends on
  held,          \* the rows each request has locked
  pc,            \* what each request does
  req            \* the local variables of each request

rows == <<projects, records, tasks, moves, dependencies>>
vars == <<rows, held, pc, req>>

-----------------------------------------------------------------------------
(* Rows.                                                                   *)

Project == [ProjectFields -> Values \cup {None}]

Data == [DataFields -> Values \cup {None}]

Place == [column : ColumnIds \cup {None}, sort_order : Positions]

Move == [from : Place, to : Place]

Lockable == ({"project", "record"} \X ProjectIds) \cup ({"task"} \X TaskIds)

Local == [user : Actors \cup {None}, project : ProjectIds \cup {None},
          task : TaskIds \cup {None}, depends_on : TaskIds \cup {None}, place : Place \cup {None},
          changes : Changes \cup {None},
          from : Place \cup {None}, project_row : Project \cup {None}, data : Data \cup {None},
          wait : Seq(Lockable)]

Idle == [user |-> None, project |-> None, task |-> None, depends_on |-> None, place |-> None,
         changes |-> None, from |-> None, project_row |-> None, data |-> None, wait |-> <<>>]

Existing == {p \in ProjectIds : projects[p] # None}

Writes == Cardinality(dependencies) + MapThenSumSet(LAMBDA t : Len(moves[t]), TaskIds)

Init ==
  /\ projects = [p \in ProjectIds |-> None]
  /\ records = [p \in ProjectIds |-> None]
  /\ tasks = [t \in TaskIds |-> [column |-> None, sort_order |-> 0]]
  /\ moves = [t \in TaskIds |-> <<>>]
  /\ dependencies = {}
  /\ held = [r \in Requests |-> {}]
  /\ pc = [r \in Requests |-> "idle"]
  /\ req = [r \in Requests |-> Idle]

\* No other transaction has locked the row.
Free(r, row) == \A q \in Requests \ {r} : row \notin held[q]

Begin(r, label, local) ==
  /\ pc[r] = "idle"
  /\ pc' = [pc EXCEPT ![r] = label]
  /\ req' = [req EXCEPT ![r] = local]
  /\ UNCHANGED <<rows, held>>

Proceed(r, label, local) ==
  /\ pc' = [pc EXCEPT ![r] = label]
  /\ req' = [req EXCEPT ![r] = local]
  /\ UNCHANGED <<rows, held>>

Done(r) ==
  /\ pc' = [pc EXCEPT ![r] = "idle"]
  /\ req' = [req EXCEPT ![r] = Idle]
  /\ held' = [held EXCEPT ![r] = {}]

\* All rows that the operation works on are locked.
Locked(r, label) == pc[r] = label /\ req[r].wait = <<>>

Refuse(r) == Done(r) /\ UNCHANGED rows

\* Mutation of Lock: the rows are read without FOR UPDATE.
ReadRow(r) ==
  /\ req[r].wait # <<>>
  /\ req' = [req EXCEPT ![r].wait = Tail(@)]
  /\ UNCHANGED <<rows, held, pc>>

\* select_for_update: the rows of the query are locked one after the other.
Lock(r) ==
  /\ req[r].wait # <<>>
  /\ Free(r, Head(req[r].wait))
  /\ held' = [held EXCEPT ![r] = @ \cup {Head(req[r].wait)}]
  /\ req' = [req EXCEPT ![r].wait = Tail(@)]
  /\ UNCHANGED <<rows, pc>>

\* A lost connection, a crash, or a transaction that the database chose to end
\* a deadlock.
Rollback(r) == pc[r] # "idle" /\ Refuse(r)

-----------------------------------------------------------------------------
(* The project and its record.                                             *)

\* create_project: the owner of the project is the actor if none is given; the
\* record has none then.
CreateProject(user, p, sent) ==
  /\ user \in MayCreate
  /\ projects[p] = None
  /\ projects' = [projects EXCEPT ![p] =
       [status |-> None, owner |-> IF sent.owner = None THEN user ELSE sent.owner,
        target |-> sent.target]]
  /\ records' = [records EXCEPT ![p] =
       [owner |-> sent.owner, target |-> sent.target, note |-> None]]
  /\ UNCHANGED <<tasks, moves, dependencies, held, pc, req>>

\* Mutation of ProjectRows: select_related is left out.
ProjectRow(p) == <<<<"project", p>>>>

ProjectRows(p) == <<<<"project", p>>, <<"record", p>>>>

\* Mutation of StartUpdate: the record is locked before its project.
StartUpdateRecordFirst(r, user, p, changes) ==
  /\ p \in MayEdit[user] \cap Existing
  /\ Begin(r, "updating", [Idle EXCEPT !.user = user, !.project = p, !.changes = changes,
                                       !.wait = <<<<"record", p>>, <<"project", p>>>>])

StartUpdate(r, user, p, changes) ==
  /\ p \in MayEdit[user] \cap Existing
  /\ Begin(r, "updating", [Idle EXCEPT !.user = user, !.project = p, !.changes = changes,
                                       !.wait = ProjectRows(p)])

ReadProject(r) ==
  /\ Locked(r, "updating")
  /\ Proceed(r, "saving", [req[r] EXCEPT !.project_row = projects[req[r].project],
                                         !.data = records[req[r].project]])

\* update_project, and _sync_project_record_data in the data that was read.
UpdateProject(r) ==
  LET p == req[r].project
      updated == [f \in ProjectFields |->
        IF req[r].changes[f] = Unset THEN req[r].project_row[f] ELSE req[r].changes[f]]
  IN
  /\ pc[r] = "saving"
  /\ projects' = [projects EXCEPT ![p] = updated]
  /\ records' = [records EXCEPT ![p] =
       [f \in DataFields |-> IF f \in SyncedFields THEN updated[f] ELSE req[r].data[f]]]
  /\ Done(r)
  /\ UNCHANGED <<tasks, moves, dependencies>>

\* PATCH /api/records/<id>/: the new data is merged before any lock is taken.
StartPatch(r, user, p, patch) ==
  /\ p \in MayEdit[user] \cap Existing
  /\ Begin(r, "patching", [Idle EXCEPT !.user = user, !.project = p,
                                       !.data = [records[p] EXCEPT ![patch.field] = patch.value],
                                       !.wait = <<<<"record", p>>>>])

PatchRecord(r) ==
  /\ Locked(r, "patching")
  /\ records' = [records EXCEPT ![req[r].project] = req[r].data]
  /\ Done(r)
  /\ UNCHANGED <<projects, tasks, moves, dependencies>>

-----------------------------------------------------------------------------
(* The board.                                                              *)

\* move_task: select_related("project__record") locks all three rows.
StartMove(r, user, t, place) ==
  /\ ProjectOf[t] \in Existing
  /\ Begin(r, "moving", [Idle EXCEPT !.user = user, !.project = ProjectOf[t], !.task = t,
                           !.place = place,
                           !.wait = <<<<"task", t>>>> \o ProjectRows(ProjectOf[t])])

MayMove(r) ==
  /\ req[r].project \in MayEdit[req[r].user]
  /\ req[r].place.column # None => ProjectOf[req[r].place.column] = req[r].project

ReadTask(r) ==
  /\ Locked(r, "moving")
  /\ \/ MayMove(r) /\ Proceed(r, "placing", [req[r] EXCEPT !.from = tasks[req[r].task]])
     \/ ~MayMove(r) /\ Refuse(r)

MoveTask(r) ==
  LET t == req[r].task IN
  /\ pc[r] = "placing"
  /\ Writes < MaxWrites
  /\ tasks' = [tasks EXCEPT ![t] = req[r].place]
  /\ moves' = [moves EXCEPT ![t] = Append(@, [from |-> req[r].from, to |-> req[r].place])]
  /\ Done(r)
  /\ UNCHANGED <<projects, records, dependencies>>

-----------------------------------------------------------------------------
(* Dependencies.                                                           *)

\* Mutation of GraphRows: only the task itself is locked.
TaskRow(t) == <<<<"task", t>>>>

\* _lock_project_dependency_graph: the project, its record and its tasks.  The
\* edges, which it locks as well, are locked by nobody who lacks the project.
GraphRows(t) ==
  LET order == TasksInOrder[ProjectOf[t]] IN
  ProjectRows(ProjectOf[t]) \o [n \in DOMAIN order |-> <<"task", order[n]>>]

StartDependency(r, user, t, d) ==
  /\ ProjectOf[t] \in Existing
  /\ Begin(r, "depending", [Idle EXCEPT !.user = user, !.project = ProjectOf[t], !.task = t,
                              !.depends_on = d, !.wait = GraphRows(t)])

\* What t depends on, directly or not: the tasks in every set that has t and
\* all dependencies of its members.
Prerequisites(t, edges) ==
  {u \in TaskIds : \A S \in SUBSET TaskIds :
     t \in S /\ (\A e \in edges : e[1] \in S => e[2] \in S) => u \in S}

\* _would_create_cycle walks from the new dependency back to the task.
MayDepend(r) ==
  /\ req[r].project \in MayEdit[req[r].user]
  /\ req[r].task # req[r].depends_on
  /\ ProjectOf[req[r].depends_on] = req[r].project
  /\ req[r].task \notin Prerequisites(req[r].depends_on, dependencies)

CheckCycle(r) ==
  /\ Locked(r, "depending")
  /\ \/ MayDepend(r) /\ Proceed(r, "linking", req[r])
     \/ ~MayDepend(r) /\ Refuse(r)

\* get_or_create.
AddDependency(r) ==
  /\ pc[r] = "linking"
  /\ Writes < MaxWrites
  /\ dependencies' = dependencies \cup {<<req[r].task, req[r].depends_on>>}
  /\ Done(r)
  /\ UNCHANGED <<projects, records, tasks, moves>>

-----------------------------------------------------------------------------
Next ==
  \/ \E user \in Actors, p \in ProjectIds, sent \in Creations : CreateProject(user, p, sent)
  \/ \E r \in Requests :
    \/ Lock(r)
    \/ Rollback(r)
    \/ \E user \in Actors, p \in ProjectIds, changes \in Changes : StartUpdate(r, user, p, changes)
    \/ ReadProject(r)
    \/ UpdateProject(r)
    \/ \E user \in Actors, p \in ProjectIds, patch \in Patches : StartPatch(r, user, p, patch)
    \/ PatchRecord(r)
    \/ \E user \in Actors, t \in TaskIds, place \in Place : StartMove(r, user, t, place)
    \/ ReadTask(r)
    \/ MoveTask(r)
    \/ \E user \in Actors, t, d \in TaskIds : StartDependency(r, user, t, d)
    \/ CheckCycle(r)
    \/ AddDependency(r)

Spec == Init /\ [][Next]_vars

-----------------------------------------------------------------------------
(* What the pages of a project show.                                       *)

TasksOf(p) == {t \in TaskIds : ProjectOf[t] = p}

\* ProjectEventsView: the moves of the tasks of the project.
Events(p) == [t \in TasksOf(p) |-> moves[t]]

Columns(p) == {c \in ColumnIds : ProjectOf[c] = p}

\* ProjectDetailView: the project, its record and its tasks.
Detail(p) == [project |-> projects[p], record |-> records[p], tasks |-> TasksOf(p)]

\* ProjectBoardView: the columns of the project with their tasks, and the tasks
\* without a column.
Board(p) ==
  [c \in Columns(p) \cup {None} |-> {t \in TasksOf(p) : tasks[t].column = c}]

\* ProjectTimelineView: the tasks, and the dependencies between them.
Timeline(p) ==
  [tasks |-> TasksOf(p), dependencies |-> dependencies \cap (TasksOf(p) \X TasksOf(p))]

Visible(user) == MayView[user] \cap Existing

\* ProjectWorkloadView: the open tasks of each user in the visible projects,
\* and the sum of their estimates.
EstimatedHours(open) == MapThenSumSet(LAMBDA t : Hours[t], open)

Workload(viewer) ==
  LET open(user) == {t \in TaskIds \ Finished :
                       ProjectOf[t] \in Visible(viewer) /\ Assignee[t] = user}
  IN [user \in {u \in Users : open(u) # {}} |->
        [open_tasks |-> Cardinality(open(user)), estimated_hours |-> EstimatedHours(open(user))]]

-----------------------------------------------------------------------------
(* Properties.                                                             *)

TypeOK ==
  /\ projects \in [ProjectIds -> Project \cup {None}]
  /\ records \in [ProjectIds -> Data \cup {None}]
  /\ tasks \in [TaskIds -> Place]
  /\ moves \in [TaskIds -> Seq(Move)]
  /\ dependencies \in SUBSET (TaskIds \X TaskIds)
  /\ held \in [Requests -> SUBSET Lockable]
  /\ pc \in [Requests -> {"idle", "updating", "saving", "patching", "moving", "placing",
                          "depending", "linking"}]
  /\ req \in [Requests -> Local]

\* However many requests add dependencies at the same time, no tasks wait for
\* each other in a circle (add_task_dependency, services.py 206-247).
DependenciesAcyclic ==
  \A S \in (SUBSET TaskIds) \ {{}} : \E t \in S : \A u \in S : <<t, u>> \notin dependencies

\* The events of a project tell where its tasks have been: the moves of a task
\* lead from one place to the next and to where the board shows it, although
\* several users move it (move_task, services.py 161-187).
MovesFormPath ==
  \A p \in Existing : \A t \in DOMAIN Events(p) :
    LET path == Events(p)[t] IN
    /\ \A n \in 1..(Len(path) - 1) : path[n].to = path[n + 1].from
    /\ path # <<>> => t \in Board(p)[path[Len(path)].to.column]

TasksOnBoard(p) == UNION {Board(p)[c] : c \in DOMAIN Board(p)}

\* The board, the timeline and the workload agree: each task of a project is in
\* one place of its board, the dependencies of all tasks are on the timeline of
\* their project, and the workload of a user is that of his open tasks on the
\* boards (views.py 88-118, 236-282, 302-336).
PagesAgree ==
  /\ \A p \in Existing :
       /\ TasksOnBoard(p) = Timeline(p).tasks
       /\ \A c, d \in DOMAIN Board(p) : c # d => Board(p)[c] \cap Board(p)[d] = {}
       /\ Detail(p).tasks = Timeline(p).tasks
       /\ \A e \in dependencies : e[1] \in TasksOf(p) => e \in Timeline(p).dependencies
  /\ \A viewer \in Users :
       LET shown == UNION {TasksOnBoard(p) : p \in Visible(viewer)}
           workload == Workload(viewer)
           Open(user) == {t \in shown : t \notin Finished /\ Assignee[t] = user}
       IN \A user \in Users :
            IF Open(user) = {} THEN user \notin DOMAIN workload
            ELSE workload[user] = [open_tasks |-> Cardinality(Open(user)),
                                   estimated_hours |-> EstimatedHours(Open(user))]

\* Whatever page a user opens, it shows the tasks where the moves left them.
ProjectsAreConsistent == TypeOK /\ MovesFormPath /\ PagesAgree

\* An update of a project changes what it was sent and nothing else, although
\* others update the project and its record while it waits: what they wrote
\* into the other fields, and into the note of the record, stays
\* (update_project, services.py 110-146, and _sync_project_record_data, 303-318).
UpdatesKeepTheRest ==
  [][\A p \in Existing, r \in Requests :
       pc[r] = "saving" /\ pc'[r] = "idle" /\ req[r].project = p /\ rows' # rows =>
         /\ \A f \in ProjectFields : req[r].changes[f] = Unset => projects'[p][f] = projects[p][f]
         /\ \A f \in SyncedFields : records'[p][f] = projects'[p][f]
         /\ records'[p].note = records[p].note]_vars

WaitsFor(r, q) == q # r /\ req[r].wait # <<>> /\ Head(req[r].wait) \in held[q]

\* Requests can wait for each other in a circle, but only if one of them moves a
\* task, which locks the task before the project, and another one adds a
\* dependency, which locks the project before the task (services.py 161, 250-256).
OnlyMovesAndDependenciesDeadlock ==
  \A waiting \in (SUBSET Requests) \ {{}} :
    (\A r \in waiting : \E q \in waiting : WaitsFor(r, q))
      => {"moving", "depending"} \subseteq {pc[r] : r \in waiting}
=============================================================================
