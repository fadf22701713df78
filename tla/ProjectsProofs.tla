--------------------------- MODULE ProjectsProofs ---------------------------
(***************************************************************************)
(* For any number of requests, projects and tasks: dependencies close no   *)
(* circle, the moves of a task form a path, an update keeps the rest of    *)
(* the project and its record, every deadlock has a move and a new         *)
(* dependency in it, and the pages of a project show the same tasks.       *)
(***************************************************************************)
EXTENDS Projects, SequenceTheorems, TLAPS

PRow(p) == <<"project", p>>

RRow(p) == <<"record", p>>

TRow(t) == <<"task", t>>

TaskRows(p) == {TRow(t) : t \in TasksOf(p)}

-----------------------------------------------------------------------------
(* The invariant.                                                          *)

\* Rows: existing projects have records, columns and dependencies stay within
\* a project, the last move of a task led to where it is.
PathOK(t) ==
  /\ \A n \in 1..(Len(moves[t]) - 1) : moves[t][n].to = moves[t][n + 1].from
  /\ moves[t] # <<>> => moves[t][Len(moves[t])].to = tasks[t]

RowsOK ==
  /\ \A p \in ProjectIds : projects[p] # None => records[p] \in Data
  /\ \A t \in TaskIds : tasks[t].column # None => ProjectOf[tasks[t].column] = ProjectOf[t]
  /\ \A t \in TaskIds : PathOK(t)
  /\ \A e \in dependencies : ProjectOf[e[1]] = ProjectOf[e[2]]

\* The rows that a request holds and those that it waits for, by its place.
UpdateLocks(r, p) ==
  \/ held[r] = {} /\ req[r].wait = <<PRow(p), RRow(p)>>
  \/ held[r] = {PRow(p)} /\ req[r].wait = <<RRow(p)>>
  \/ held[r] = {PRow(p), RRow(p)} /\ req[r].wait = <<>>

PatchLocks(r, p) ==
  \/ held[r] = {} /\ req[r].wait = <<RRow(p)>>
  \/ held[r] = {RRow(p)} /\ req[r].wait = <<>>

MoveLocks(r, p, t) ==
  \/ held[r] = {} /\ req[r].wait = <<TRow(t), PRow(p), RRow(p)>>
  \/ held[r] = {TRow(t)} /\ req[r].wait = <<PRow(p), RRow(p)>>
  \/ held[r] = {TRow(t), PRow(p)} /\ req[r].wait = <<RRow(p)>>
  \/ held[r] = {TRow(t), PRow(p), RRow(p)} /\ req[r].wait = <<>>

OnlyTasks(wait, from, p) == \A n \in from..Len(wait) : wait[n] \in TaskRows(p)

GraphLocks(r, p) ==
  LET wait == req[r].wait IN
  \/ held[r] = {} /\ Len(wait) >= 2 /\ wait[1] = PRow(p) /\ wait[2] = RRow(p) /\ OnlyTasks(wait, 3, p)
  \/ held[r] = {PRow(p)} /\ Len(wait) >= 1 /\ wait[1] = RRow(p) /\ OnlyTasks(wait, 2, p)
  \/ /\ {PRow(p), RRow(p)} \subseteq held[r]
     /\ held[r] \subseteq {PRow(p), RRow(p)} \cup TaskRows(p)
     /\ OnlyTasks(wait, 1, p)

LocksOK(r) ==
  LET p == req[r].project IN
  /\ pc[r] = "idle" => held[r] = {} /\ req[r].wait = <<>>
  /\ pc[r] = "updating" => UpdateLocks(r, p)
  /\ pc[r] = "saving" => held[r] = {PRow(p), RRow(p)} /\ req[r].wait = <<>>
  /\ pc[r] = "patching" => PatchLocks(r, p)
  /\ pc[r] = "moving" => MoveLocks(r, p, req[r].task)
  /\ pc[r] = "placing" => held[r] = {TRow(req[r].task), PRow(p), RRow(p)} /\ req[r].wait = <<>>
  /\ pc[r] = "depending" => GraphLocks(r, p)
  /\ pc[r] = "linking" => GraphLocks(r, p) /\ req[r].wait = <<>>

\* What a request has read and checked still holds when it writes.
ReadsOK(r) ==
  LET p == req[r].project
      t == req[r].task
      d == req[r].depends_on
  IN
  /\ pc[r] # "idle" => p \in ProjectIds /\ projects[p] # None /\ projects[p] \in Project
  /\ pc[r] \in {"updating", "saving"} => req[r].changes \in Changes
  /\ pc[r] = "saving" => req[r].project_row = projects[p] /\ req[r].data = records[p]
  /\ pc[r] = "patching" => req[r].data \in Data
  /\ pc[r] \in {"moving", "placing"} => t \in TaskIds /\ ProjectOf[t] = p /\ req[r].place \in Place
  /\ pc[r] = "placing" =>
       /\ req[r].from = tasks[t]
       /\ req[r].place.column # None => ProjectOf[req[r].place.column] = p
  /\ pc[r] \in {"depending", "linking"} => t \in TaskIds /\ ProjectOf[t] = p /\ d \in TaskIds
  /\ pc[r] = "linking" => ProjectOf[d] = p /\ t \notin Prerequisites(d, dependencies)

Exclusive == \A r, q \in Requests : r # q => held[r] \cap held[q] = {}

IInv ==
  /\ TypeOK
  /\ RowsOK
  /\ DependenciesAcyclic
  /\ Exclusive
  /\ \A r \in Requests : LocksOK(r) /\ ReadsOK(r)

-----------------------------------------------------------------------------
(* The graph of dependencies.                                              *)

\* What a task depends on is closed under dependencies and contains the task.
LEMMA PrerequisitesClosed ==
  ASSUME NEW edges \in SUBSET (TaskIds \X TaskIds), NEW d \in TaskIds
  PROVE  /\ d \in Prerequisites(d, edges)
         /\ \A e \in edges : e[1] \in Prerequisites(d, edges) => e[2] \in Prerequisites(d, edges)
<1>1. d \in Prerequisites(d, edges)
  BY DEF Prerequisites
<1>2. ASSUME NEW e \in edges, e[1] \in Prerequisites(d, edges)
      PROVE  e[2] \in Prerequisites(d, edges)
  <2>1. e[2] \in TaskIds
    OBVIOUS
  <2>2. ASSUME NEW S \in SUBSET TaskIds, d \in S, \A f \in edges : f[1] \in S => f[2] \in S
        PROVE  e[2] \in S
    <3>1. e[1] \in S
      BY <1>2, <2>2 DEF Prerequisites
    <3> QED
      BY <2>2, <3>1
  <2> QED
    BY <2>1, <2>2 DEF Prerequisites
<1> QED
  BY <1>1, <1>2

Acyclic(edges) ==
  \A S \in (SUBSET TaskIds) \ {{}} : \E v \in S : \A u \in S : <<v, u>> \notin edges

\* An edge whose end does not lead back to its beginning closes no circle.
LEMMA NewEdgeClosesNoCircle ==
  ASSUME NEW edges \in SUBSET (TaskIds \X TaskIds), NEW t \in TaskIds, NEW d \in TaskIds,
         Acyclic(edges), t \notin Prerequisites(d, edges)
  PROVE  Acyclic(edges \cup {<<t, d>>})
<1> SUFFICES ASSUME NEW S \in (SUBSET TaskIds) \ {{}}
             PROVE  \E v \in S : \A u \in S : <<v, u>> \notin edges \cup {<<t, d>>}
  BY DEF Acyclic
<1> DEFINE P == Prerequisites(d, edges)
<1>1. /\ d \in P
      /\ \A e \in edges : e[1] \in P => e[2] \in P
  BY PrerequisitesClosed
<1> HIDE DEF P
<1>2. t \notin P
  BY DEF P
<1>3. CASE S \cap P # {}
  <2>1. PICK v \in S \cap P : \A u \in S \cap P : <<v, u>> \notin edges
    BY <1>3 DEF Acyclic
  <2>2. ASSUME NEW u \in S, <<v, u>> \in edges \cup {<<t, d>>} PROVE FALSE
    <3>1. v # t
      BY <1>2, <2>1
    <3>2. <<v, u>> \in edges
      BY <2>2, <3>1
    <3>3. u \in P
      BY <1>1, <2>1, <3>2
    <3> QED
      BY <2>1, <2>2, <3>2, <3>3
  <2> QED
    BY <2>1, <2>2
<1>4. CASE S \cap P = {}
  <2>1. d \notin S
    BY <1>1, <1>4
  <2>2. PICK v \in S : \A u \in S : <<v, u>> \notin edges
    BY DEF Acyclic
  <2> QED
    BY <2>1, <2>2
<1> QED
  BY <1>3, <1>4

\* An edge of one project does not change what leads back within another.
LEMMA OtherProjectsKeepPrerequisites ==
  ASSUME NEW edges \in SUBSET (TaskIds \X TaskIds),
         \A e \in edges : ProjectOf[e[1]] = ProjectOf[e[2]],
         NEW t \in TaskIds, NEW d \in TaskIds, t \notin Prerequisites(d, edges),
         NEW v \in TaskIds, NEW u \in TaskIds, ProjectOf[v] # ProjectOf[d]
  PROVE  t \notin Prerequisites(d, edges \cup {<<v, u>>})
<1> DEFINE S == {w \in Prerequisites(d, edges) : ProjectOf[w] = ProjectOf[d]}
<1>1. d \in S
  BY PrerequisitesClosed
<1>2. S \in SUBSET TaskIds
  BY DEF Prerequisites
<1>3. ASSUME NEW e \in edges \cup {<<v, u>>}, e[1] \in S PROVE e[2] \in S
  <2>1. e \in edges
    BY <1>3
  <2> QED
    BY <1>3, <2>1, PrerequisitesClosed
<1>4. t \notin S
  OBVIOUS
<1> QED
  BY <1>1, <1>2, <1>3, <1>4 DEF Prerequisites

-----------------------------------------------------------------------------
(* Steps of one request.                                                   *)

Labels == {"idle", "updating", "saving", "patching", "moving", "placing", "depending", "linking"}

\* Only the place, the variables and the locks of r change.
Frame(r) ==
  /\ pc' = [pc EXCEPT ![r] = pc'[r]] /\ pc'[r] \in Labels
  /\ req' = [req EXCEPT ![r] = req'[r]] /\ req'[r] \in Local
  /\ held' = [held EXCEPT ![r] = held'[r]] /\ held'[r] \in SUBSET Lockable
  /\ \A q \in Requests \ {r} : held'[r] \cap held[q] = {}

LEMMA FrameTypes ==
  ASSUME IInv, NEW r \in Requests, Frame(r)
  PROVE  /\ pc' \in [Requests -> Labels]
         /\ req' \in [Requests -> Local]
         /\ held' \in [Requests -> SUBSET Lockable]
         /\ Exclusive'
         /\ \A q \in Requests \ {r} :
              pc'[q] = pc[q] /\ req'[q] = req[q] /\ held'[q] = held[q] /\ LocksOK(q)'
<1>1. pc \in [Requests -> Labels] /\ req \in [Requests -> Local] /\ held \in [Requests -> SUBSET Lockable]
  BY DEF IInv, TypeOK, Labels
<1>2. pc' \in [Requests -> Labels] /\ req' \in [Requests -> Local] /\ held' \in [Requests -> SUBSET Lockable]
  BY <1>1 DEF Frame
<1>3. ASSUME NEW q \in Requests \ {r}
      PROVE  pc'[q] = pc[q] /\ req'[q] = req[q] /\ held'[q] = held[q]
  BY <1>1 DEF Frame
<1>4. Exclusive'
  <2> SUFFICES ASSUME NEW p \in Requests, NEW q \in Requests, p # q
               PROVE  held'[p] \cap held'[q] = {}
    BY DEF Exclusive
  <2>1. CASE p # r /\ q # r
    BY <1>3, <2>1 DEF IInv, Exclusive
  <2>2. CASE p = r
    BY <1>3, <2>2 DEF Frame
  <2>3. CASE q = r
    BY <1>3, <2>3 DEF Frame
  <2> QED
    BY <2>1, <2>2, <2>3
<1>5. ASSUME NEW q \in Requests \ {r} PROVE LocksOK(q)'
  <2>1. LocksOK(q)
    BY DEF IInv
  <2> QED
    BY <1>3, <2>1 DEF LocksOK, UpdateLocks, PatchLocks, MoveLocks, GraphLocks
<1> QED
  BY <1>2, <1>3, <1>4, <1>5

\* A step that writes no row keeps the invariant if r keeps its part.
LEMMA LocalStep ==
  ASSUME IInv, NEW r \in Requests, Frame(r), UNCHANGED rows, LocksOK(r)', ReadsOK(r)'
  PROVE  IInv'
<1>1. /\ UNCHANGED projects /\ UNCHANGED records /\ UNCHANGED tasks
      /\ UNCHANGED moves /\ UNCHANGED dependencies
  BY DEF rows
<1>2. TypeOK'
  BY <1>1, FrameTypes DEF IInv, TypeOK, Labels
<1>3. RowsOK' /\ DependenciesAcyclic'
  BY <1>1 DEF IInv, RowsOK, PathOK, DependenciesAcyclic
<1>4. ASSUME NEW q \in Requests \ {r} PROVE ReadsOK(q)'
  <2>1. ReadsOK(q)
    BY DEF IInv
  <2> QED
    BY <1>1, <2>1, FrameTypes DEF ReadsOK
<1> QED
  BY <1>2, <1>3, <1>4, FrameTypes DEF IInv

LEMMA IdleIsLocal == Idle \in Local
  BY DEF Idle, Local

LEMMA RefuseInv ==
  ASSUME IInv, NEW r \in Requests, Refuse(r)
  PROVE  IInv'
<1>1. pc' = [pc EXCEPT ![r] = "idle"] /\ req' = [req EXCEPT ![r] = Idle] /\ held' = [held EXCEPT ![r] = {}]
  BY DEF Refuse, Done
<1>2. pc'[r] = "idle" /\ req'[r] = Idle /\ held'[r] = {}
  BY <1>1 DEF IInv, TypeOK
<1>3. Frame(r)
  BY <1>1, <1>2, IdleIsLocal DEF Frame, Labels
<1>4. LocksOK(r)' /\ ReadsOK(r)'
  BY <1>2 DEF LocksOK, ReadsOK, Idle
<1> QED
  BY <1>3, <1>4, LocalStep DEF Refuse

LEMMA BeginFrame ==
  ASSUME IInv, NEW r \in Requests, NEW label \in Labels, NEW local \in Local, Begin(r, label, local)
  PROVE  /\ Frame(r) /\ UNCHANGED rows
         /\ pc'[r] = label /\ req'[r] = local /\ held'[r] = {}
<1>1. pc' = [pc EXCEPT ![r] = label] /\ req' = [req EXCEPT ![r] = local] /\ UNCHANGED <<rows, held>>
  BY DEF Begin
<1>2. held[r] = {}
  BY DEF Begin, IInv, LocksOK
<1>3. pc'[r] = label /\ req'[r] = local /\ held'[r] = {} /\ held' = [held EXCEPT ![r] = held'[r]]
  BY <1>1, <1>2 DEF IInv, TypeOK
<1> QED
  BY <1>1, <1>3 DEF Frame

LEMMA ProceedFrame ==
  ASSUME IInv, NEW r \in Requests, NEW label \in Labels, NEW local \in Local, Proceed(r, label, local)
  PROVE  /\ Frame(r) /\ UNCHANGED rows
         /\ pc'[r] = label /\ req'[r] = local /\ held'[r] = held[r]
<1>1. pc' = [pc EXCEPT ![r] = label] /\ req' = [req EXCEPT ![r] = local] /\ UNCHANGED <<rows, held>>
  BY DEF Proceed
<1>2. pc'[r] = label /\ req'[r] = local /\ held'[r] = held[r] /\ held' = [held EXCEPT ![r] = held'[r]]
  BY <1>1 DEF IInv, TypeOK
<1>3. held[r] \in SUBSET Lockable /\ \A q \in Requests \ {r} : held[r] \cap held[q] = {}
  BY DEF IInv, TypeOK, Exclusive
<1> QED
  BY <1>1, <1>2, <1>3 DEF Frame

\* The rows that may be locked.
LEMMA RowsAreLockable ==
  /\ \A p \in ProjectIds : PRow(p) \in Lockable /\ RRow(p) \in Lockable
  /\ \A t \in TaskIds : TRow(t) \in Lockable
  BY DEF Lockable, PRow, RRow, TRow

LEMMA StartUpdateInv ==
  ASSUME IInv, NEW r \in Requests, NEW user \in Actors, NEW p \in ProjectIds, NEW changes \in Changes,
         StartUpdate(r, user, p, changes)
  PROVE  IInv'
<1> DEFINE local == [Idle EXCEPT !.user = user, !.project = p, !.changes = changes, !.wait = ProjectRows(p)]
<1>1. projects[p] # None /\ projects[p] \in Project
  BY DEF StartUpdate, Existing, IInv, TypeOK
<1>2. ProjectRows(p) = <<PRow(p), RRow(p)>> /\ ProjectRows(p) \in Seq(Lockable)
  BY RowsAreLockable DEF ProjectRows, PRow, RRow
<1>3. local \in Local
  BY <1>2, InputAssumption DEF Idle, Local
<1>4. /\ local.project = p /\ local.changes = changes /\ local.wait = <<PRow(p), RRow(p)>>
  BY <1>2 DEF Idle
<1> HIDE DEF local
<1>5. Begin(r, "updating", local)
  BY DEF StartUpdate, local
<1>6. /\ Frame(r) /\ UNCHANGED rows
      /\ pc'[r] = "updating" /\ req'[r] = local /\ held'[r] = {}
  BY <1>3, <1>5, BeginFrame DEF Labels
<1>7. LocksOK(r)'
  BY <1>4, <1>6 DEF LocksOK, UpdateLocks
<1>8. ReadsOK(r)'
  BY <1>1, <1>4, <1>6 DEF ReadsOK, rows
<1> QED
  BY <1>6, <1>7, <1>8, LocalStep

LEMMA ReadProjectInv ==
  ASSUME IInv, NEW r \in Requests, ReadProject(r)
  PROVE  IInv'
<1> DEFINE p == req[r].project
           local == [req[r] EXCEPT !.project_row = projects[p], !.data = records[p]]
<1>1. /\ pc[r] = "updating" /\ req[r].wait = <<>> /\ Proceed(r, "saving", local)
  BY DEF ReadProject, Locked
<1>2. /\ req[r] \in Local /\ p \in ProjectIds /\ projects[p] # None /\ projects[p] \in Project
      /\ req[r].changes \in Changes
  BY <1>1 DEF IInv, ReadsOK, TypeOK
<1>3. records[p] \in Data
  BY <1>2 DEF IInv, RowsOK
<1>4. local \in Local
  BY <1>2, <1>3 DEF Local
<1>5. /\ local.project = p /\ local.changes = req[r].changes /\ local.wait = <<>>
      /\ local.project_row = projects[p] /\ local.data = records[p]
  BY <1>1, <1>2 DEF Local
<1>6. held[r] = {PRow(p), RRow(p)}
  BY <1>1 DEF IInv, LocksOK, UpdateLocks
<1> HIDE DEF local
<1>7. /\ Frame(r) /\ UNCHANGED rows
      /\ pc'[r] = "saving" /\ req'[r] = local /\ held'[r] = held[r]
  BY <1>1, <1>4, ProceedFrame DEF Labels
<1>8. LocksOK(r)'
  BY <1>5, <1>6, <1>7 DEF LocksOK
<1>9. ReadsOK(r)'
  BY <1>2, <1>5, <1>7 DEF ReadsOK, rows
<1> QED
  BY <1>7, <1>8, <1>9, LocalStep

LEMMA StartPatchInv ==
  ASSUME IInv, NEW r \in Requests, NEW user \in Actors, NEW p \in ProjectIds, NEW patch \in Patches,
         StartPatch(r, user, p, patch)
  PROVE  IInv'
<1> DEFINE data == [records[p] EXCEPT ![patch.field] = patch.value]
           local == [Idle EXCEPT !.user = user, !.project = p, !.data = data, !.wait = <<RRow(p)>>]
<1>1. projects[p] # None /\ projects[p] \in Project
  BY DEF StartPatch, Existing, IInv, TypeOK
<1>2. records[p] \in Data
  BY <1>1 DEF IInv, RowsOK
<1>3. patch.field \in DataFields /\ patch.value \in Values
  BY InputAssumption
<1>4. data \in Data
  BY <1>2, <1>3 DEF Data
<1> HIDE DEF data
<1>5. local \in Local
  <2>1. <<RRow(p)>> \in Seq(Lockable)
    BY RowsAreLockable
  <2> QED
    BY <1>4, <2>1 DEF Idle, Local
<1>6. local.project = p /\ local.data = data /\ local.wait = <<RRow(p)>>
  BY DEF Idle
<1>7. Begin(r, "patching", local)
  BY DEF StartPatch, data, RRow
<1> HIDE DEF local
<1>8. /\ Frame(r) /\ UNCHANGED rows
      /\ pc'[r] = "patching" /\ req'[r] = local /\ held'[r] = {}
  BY <1>5, <1>7, BeginFrame DEF Labels
<1>9. LocksOK(r)'
  BY <1>6, <1>8 DEF LocksOK, PatchLocks
<1>10. ReadsOK(r)'
  BY <1>1, <1>4, <1>6, <1>8 DEF ReadsOK, rows
<1> QED
  BY <1>8, <1>9, <1>10, LocalStep

LEMMA JoinedRows ==
  ASSUME NEW a, NEW b, NEW c
  PROVE  <<a>> \o <<b, c>> = <<a, b, c>>
<1> DEFINE S == {a, b, c}
           s == <<a>> \o <<b, c>>
           u == <<a, b, c>>
<1>1. <<a>> \in Seq(S) /\ <<b, c>> \in Seq(S) /\ u \in Seq(S)
  OBVIOUS
<1>2. s \in Seq(S) /\ Len(s) = 3
  BY <1>1
<1>3. s[1] = a /\ s[2] = b /\ s[3] = c
  BY <1>1
<1>4. Len(u) = 3 /\ u[1] = a /\ u[2] = b /\ u[3] = c
  OBVIOUS
<1> HIDE DEF s, u
<1>5. \A n \in 1..3 : s[n] = u[n]
  BY <1>3, <1>4
<1> QED
  <2>1. s = u
    BY <1>1, <1>2, <1>4, <1>5, SeqEqual
  <2> QED
    BY <2>1 DEF s, u

LEMMA StartMoveInv ==
  ASSUME IInv, NEW r \in Requests, NEW user \in Actors, NEW t \in TaskIds, NEW place \in Place,
         StartMove(r, user, t, place)
  PROVE  IInv'
<1> DEFINE p == ProjectOf[t]
           local == [Idle EXCEPT !.user = user, !.project = p, !.task = t, !.place = place,
                                 !.wait = <<<<"task", t>>>> \o ProjectRows(p)]
<1>1. p \in ProjectIds
  BY InputAssumption
<1>2. projects[p] # None /\ projects[p] \in Project
  BY <1>1 DEF StartMove, Existing, IInv, TypeOK
<1>3. <<<<"task", t>>>> \o ProjectRows(p) = <<TRow(t), PRow(p), RRow(p)>>
  BY JoinedRows DEF ProjectRows, PRow, RRow, TRow
<1>4. <<TRow(t), PRow(p), RRow(p)>> \in Seq(Lockable)
  BY <1>1, RowsAreLockable
<1>5. local \in Local
  BY <1>1, <1>3, <1>4, InputAssumption DEF Idle, Local
<1>6. /\ local.project = p /\ local.task = t /\ local.place = place
      /\ local.wait = <<TRow(t), PRow(p), RRow(p)>>
  BY <1>3 DEF Idle
<1>7. Begin(r, "moving", local)
  BY DEF StartMove
<1> HIDE DEF local
<1>8. /\ Frame(r) /\ UNCHANGED rows
      /\ pc'[r] = "moving" /\ req'[r] = local /\ held'[r] = {}
  BY <1>5, <1>7, BeginFrame DEF Labels
<1>9. LocksOK(r)'
  BY <1>6, <1>8 DEF LocksOK, MoveLocks
<1>10. ReadsOK(r)'
  BY <1>1, <1>2, <1>6, <1>8 DEF ReadsOK, rows
<1> QED
  BY <1>8, <1>9, <1>10, LocalStep

LEMMA ReadTaskInv ==
  ASSUME IInv, NEW r \in Requests, ReadTask(r)
  PROVE  IInv'
<1> DEFINE p == req[r].project
           t == req[r].task
           local == [req[r] EXCEPT !.from = tasks[t]]
<1>1. /\ pc[r] = "moving" /\ req[r].wait = <<>>
      /\ (MayMove(r) /\ Proceed(r, "placing", local)) \/ Refuse(r)
  BY DEF ReadTask, Locked
<1>2. CASE MayMove(r) /\ Proceed(r, "placing", local)
  <2>1. /\ req[r] \in Local /\ p \in ProjectIds /\ projects[p] # None /\ projects[p] \in Project
        /\ t \in TaskIds /\ ProjectOf[t] = p /\ req[r].place \in Place
    BY <1>1 DEF IInv, ReadsOK, TypeOK
  <2>2. tasks[t] \in Place
    BY <2>1 DEF IInv, TypeOK
  <2>3. local \in Local
    BY <2>1, <2>2 DEF Local
  <2>4. /\ local.project = p /\ local.task = t /\ local.place = req[r].place /\ local.wait = <<>>
        /\ local.from = tasks[t]
    BY <1>1, <2>1 DEF Local
  <2>5. held[r] = {TRow(t), PRow(p), RRow(p)}
    BY <1>1 DEF IInv, LocksOK, MoveLocks
  <2>6. req[r].place.column # None => ProjectOf[req[r].place.column] = p
    BY <1>2 DEF MayMove
  <2> HIDE DEF local
  <2>7. /\ Frame(r) /\ UNCHANGED rows
        /\ pc'[r] = "placing" /\ req'[r] = local /\ held'[r] = held[r]
    BY <1>2, <2>3, ProceedFrame DEF Labels
  <2>8. LocksOK(r)'
    BY <2>4, <2>5, <2>7 DEF LocksOK
  <2>9. ReadsOK(r)'
    BY <2>1, <2>4, <2>6, <2>7 DEF ReadsOK, rows
  <2> QED
    BY <2>7, <2>8, <2>9, LocalStep
<1> QED
  BY <1>1, <1>2, RefuseInv

\* The rows of the graph are those of the project and then its tasks.
LEMMA GraphRowsInOrder ==
  ASSUME NEW t \in TaskIds
  PROVE  LET p == ProjectOf[t] IN
         /\ GraphRows(t) \in Seq(Lockable) /\ Len(GraphRows(t)) >= 2
         /\ GraphRows(t)[1] = PRow(p) /\ GraphRows(t)[2] = RRow(p)
         /\ OnlyTasks(GraphRows(t), 3, p)
<1> DEFINE p == ProjectOf[t]
           order == TasksInOrder[p]
           last == [n \in DOMAIN order |-> <<"task", order[n]>>]
           both == <<PRow(p), RRow(p)>>
<1>1. p \in ProjectIds
  BY InputAssumption
<1>2. order \in Seq(TaskIds) /\ \A n \in DOMAIN order : order[n] \in TasksOf(p)
  BY <1>1, InputAssumption DEF TasksOf
<1>3. /\ last \in Seq(Lockable) /\ Len(last) = Len(order)
      /\ \A n \in 1..Len(last) : last[n] \in TaskRows(p)
  <2>1. DOMAIN order = 1..Len(order) /\ Len(order) \in Nat
    BY <1>2
  <2>2. \A n \in 1..Len(order) : <<"task", order[n]>> \in TaskRows(p) \cap Lockable
    BY <1>2, <2>1, RowsAreLockable DEF TaskRows, TRow, TasksOf
  <2> QED
    BY <2>1, <2>2, IsASeq
<1>4. both \in Seq(Lockable) /\ Len(both) = 2 /\ both[1] = PRow(p) /\ both[2] = RRow(p)
  BY <1>1, RowsAreLockable
<1>5. GraphRows(t) = both \o last
  BY DEF GraphRows, ProjectRows, PRow, RRow
<1> HIDE DEF last, both
<1>6. /\ both \o last \in Seq(Lockable) /\ Len(both \o last) = 2 + Len(last)
      /\ \A n \in 1..(2 + Len(last)) : (both \o last)[n] = IF n <= 2 THEN both[n] ELSE last[n - 2]
  <2>1. /\ both \o last \in Seq(Lockable) /\ Len(both \o last) = Len(both) + Len(last)
        /\ \A n \in 1..(Len(both) + Len(last)) :
             (both \o last)[n] = IF n <= Len(both) THEN both[n] ELSE last[n - Len(both)]
    <3>1. both \in Seq(Lockable) /\ last \in Seq(Lockable)
      BY <1>3, <1>4
    <3> QED
      BY <3>1, ConcatProperties, Zenon
  <2> QED
    BY <1>4, <2>1
<1>7. Len(last) \in Nat
  BY <1>3
<1>8. (both \o last)[1] = PRow(p) /\ (both \o last)[2] = RRow(p)
  BY <1>4, <1>6, <1>7
<1>9. \A n \in 3..(2 + Len(last)) : (both \o last)[n] \in TaskRows(p)
  <2> SUFFICES ASSUME NEW n \in 3..(2 + Len(last)) PROVE (both \o last)[n] \in TaskRows(p)
    OBVIOUS
  <2>1. n - 2 \in 1..Len(last) /\ n \in 1..(2 + Len(last)) /\ ~(n <= 2)
    BY <1>7
  <2> QED
    BY <1>3, <1>6, <2>1
<1> QED
  BY <1>5, <1>6, <1>7, <1>8, <1>9 DEF OnlyTasks

LEMMA StartDependencyInv ==
  ASSUME IInv, NEW r \in Requests, NEW user \in Actors, NEW t \in TaskIds, NEW d \in TaskIds,
         StartDependency(r, user, t, d)
  PROVE  IInv'
<1> DEFINE p == ProjectOf[t]
           local == [Idle EXCEPT !.user = user, !.project = p, !.task = t, !.depends_on = d,
                                 !.wait = GraphRows(t)]
<1>1. p \in ProjectIds
  BY InputAssumption
<1>2. projects[p] # None /\ projects[p] \in Project
  BY <1>1 DEF StartDependency, Existing, IInv, TypeOK
<1>3. /\ GraphRows(t) \in Seq(Lockable) /\ Len(GraphRows(t)) >= 2
      /\ GraphRows(t)[1] = PRow(p) /\ GraphRows(t)[2] = RRow(p)
      /\ OnlyTasks(GraphRows(t), 3, p)
  BY GraphRowsInOrder
<1>4. local \in Local
  BY <1>1, <1>3 DEF Idle, Local
<1>5. local.project = p /\ local.task = t /\ local.depends_on = d /\ local.wait = GraphRows(t)
  BY DEF Idle
<1>6. Begin(r, "depending", local)
  BY DEF StartDependency
<1> HIDE DEF local
<1>7. /\ Frame(r) /\ UNCHANGED rows
      /\ pc'[r] = "depending" /\ req'[r] = local /\ held'[r] = {}
  BY <1>4, <1>6, BeginFrame DEF Labels
<1>8. LocksOK(r)'
  <2>1. GraphLocks(r, p)'
    BY <1>3, <1>5, <1>7 DEF GraphLocks, OnlyTasks, TaskRows
  <2> QED
    BY <1>5, <1>7, <2>1 DEF LocksOK
<1>9. ReadsOK(r)'
  BY <1>1, <1>2, <1>5, <1>7 DEF ReadsOK, rows
<1> QED
  BY <1>7, <1>8, <1>9, LocalStep

LEMMA CheckCycleInv ==
  ASSUME IInv, NEW r \in Requests, CheckCycle(r)
  PROVE  IInv'
<1> DEFINE p == req[r].project
           t == req[r].task
           d == req[r].depends_on
<1>1. /\ pc[r] = "depending" /\ req[r].wait = <<>>
      /\ (MayDepend(r) /\ Proceed(r, "linking", req[r])) \/ Refuse(r)
  BY DEF CheckCycle, Locked
<1>2. CASE MayDepend(r) /\ Proceed(r, "linking", req[r])
  <2>1. /\ req[r] \in Local /\ p \in ProjectIds /\ projects[p] # None /\ projects[p] \in Project
        /\ t \in TaskIds /\ ProjectOf[t] = p /\ d \in TaskIds
    BY <1>1 DEF IInv, ReadsOK, TypeOK
  <2>2. GraphLocks(r, p)
    BY <1>1 DEF IInv, LocksOK
  <2>3. ProjectOf[d] = p /\ t \notin Prerequisites(d, dependencies)
    BY <1>2 DEF MayDepend
  <2>4. /\ Frame(r) /\ UNCHANGED rows
        /\ pc'[r] = "linking" /\ req'[r] = req[r] /\ held'[r] = held[r]
    BY <1>2, <2>1, ProceedFrame DEF Labels
  <2>5. LocksOK(r)'
    <3>1. GraphLocks(r, p)'
      BY <2>2, <2>4 DEF GraphLocks, OnlyTasks, TaskRows
    <3> QED
      BY <1>1, <2>4, <3>1 DEF LocksOK
  <2>6. ReadsOK(r)'
    <3>1. UNCHANGED dependencies /\ UNCHANGED projects
      BY <2>4 DEF rows
    <3> QED
      BY <2>1, <2>3, <2>4, <3>1 DEF ReadsOK, Prerequisites
  <2> QED
    BY <2>4, <2>5, <2>6, LocalStep
<1> QED
  BY <1>1, <1>2, RefuseInv

LEMMA TailsOfRows ==
  ASSUME NEW a, NEW b, NEW c
  PROVE  /\ Head(<<a>>) = a /\ Tail(<<a>>) = <<>>
         /\ Head(<<a, b>>) = a /\ Tail(<<a, b>>) = <<b>>
         /\ Head(<<a, b, c>>) = a /\ Tail(<<a, b, c>>) = <<b, c>>
<1> DEFINE S == {a, b, c}
<1>1. \A s \in Seq(S) : s # <<>> =>
        /\ Tail(s) \in Seq(S) /\ Len(Tail(s)) = Len(s) - 1 /\ Head(s) = s[1]
        /\ \A n \in 1..(Len(s) - 1) : Tail(s)[n] = s[n + 1]
  BY HeadTailProperties
<1>2. \A s, u \in Seq(S) : Len(s) = Len(u) /\ (\A n \in 1..Len(s) : s[n] = u[n]) => s = u
  BY SeqEqual
<1>3. /\ <<a>> \in Seq(S) /\ <<b>> \in Seq(S) /\ <<a, b>> \in Seq(S) /\ <<b, c>> \in Seq(S)
      /\ <<a, b, c>> \in Seq(S) /\ <<>> \in Seq(S)
  OBVIOUS
<1> HIDE DEF S
<1>4. Head(<<a>>) = a /\ Tail(<<a>>) = <<>>
  BY <1>1, <1>2, <1>3
<1>5. Head(<<a, b>>) = a /\ Tail(<<a, b>>) = <<b>>
  <2>1. /\ Tail(<<a, b>>) \in Seq(S) /\ Len(Tail(<<a, b>>)) = 1 /\ Tail(<<a, b>>)[1] = b
        /\ Head(<<a, b>>) = a
    BY <1>1, <1>3
  <2> QED
    BY <1>2, <1>3, <2>1
<1>6. Head(<<a, b, c>>) = a /\ Tail(<<a, b, c>>) = <<b, c>>
  <2>1. /\ Tail(<<a, b, c>>) \in Seq(S) /\ Len(Tail(<<a, b, c>>)) = 2
        /\ Tail(<<a, b, c>>)[1] = b /\ Tail(<<a, b, c>>)[2] = c
        /\ Head(<<a, b, c>>) = a
    BY <1>1, <1>3
  <2> QED
    BY <1>2, <1>3, <2>1
<1> QED
  BY <1>4, <1>5, <1>6

\* Locking the next row keeps the rows in their order.
LEMMA LockInv ==
  ASSUME IInv, NEW r \in Requests, Lock(r)
  PROVE  IInv'
<1> DEFINE p == req[r].project
           t == req[r].task
           wait == req[r].wait
           local == [req[r] EXCEPT !.wait = Tail(wait)]
<1>1. /\ wait # <<>> /\ Free(r, Head(wait))
      /\ held' = [held EXCEPT ![r] = @ \cup {Head(wait)}]
      /\ req' = [req EXCEPT ![r].wait = Tail(@)]
      /\ pc' = pc /\ UNCHANGED rows
  BY DEF Lock
<1>2. req[r] \in Local /\ held[r] \in SUBSET Lockable /\ pc[r] \in Labels
  BY DEF IInv, TypeOK, Labels
<1>3. /\ wait \in Seq(Lockable) /\ Head(wait) \in Lockable /\ Tail(wait) \in Seq(Lockable)
      /\ Len(wait) \in Nat /\ Len(Tail(wait)) = Len(wait) - 1
      /\ \A n \in 1..Len(Tail(wait)) : Tail(wait)[n] = wait[n + 1]
      /\ Head(wait) = wait[1]
  <2>1. wait \in Seq(Lockable)
    BY <1>2 DEF Local
  <2> QED
    BY <1>1, <2>1, HeadTailProperties
<1>4. /\ local \in Local /\ local.project = p /\ local.task = t
      /\ local.depends_on = req[r].depends_on /\ local.place = req[r].place
      /\ local.changes = req[r].changes /\ local.data = req[r].data
      /\ local.wait = Tail(wait)
  BY <1>2, <1>3 DEF Local
<1>5. /\ pc'[r] = pc[r] /\ req'[r] = local /\ held'[r] = held[r] \cup {Head(wait)}
  BY <1>1, <1>2 DEF IInv, TypeOK
<1>6. Frame(r)
  <2>1. \A q \in Requests \ {r} : held'[r] \cap held[q] = {}
    BY <1>1, <1>5 DEF Free, IInv, Exclusive
  <2>2. req' = [req EXCEPT ![r] = req'[r]] /\ held' = [held EXCEPT ![r] = held'[r]]
    BY <1>1, <1>5 DEF IInv, TypeOK
  <2>3. pc' = [pc EXCEPT ![r] = pc'[r]]
    BY <1>1 DEF IInv, TypeOK
  <2> QED
    BY <1>2, <1>3, <1>4, <1>5, <2>1, <2>2, <2>3 DEF Frame
<1> HIDE DEF local
<1>7. LocksOK(r) /\ ReadsOK(r)
  BY DEF IInv
<1>8. pc[r] \in {"updating", "patching", "moving", "depending"}
  BY <1>1, <1>2, <1>7 DEF LocksOK, Labels
<1>9. ReadsOK(r)'
  BY <1>1, <1>4, <1>5, <1>7, <1>8 DEF ReadsOK, rows
<1>10. LocksOK(r)'
  <2>1. CASE pc[r] = "updating"
    <3>1. UpdateLocks(r, p)
      BY <1>7, <2>1 DEF LocksOK
    <3>2. UpdateLocks(r, p)'
      <4>1. CASE held[r] = {} /\ wait = <<PRow(p), RRow(p)>>
        <5>1. held'[r] = {PRow(p)} /\ Tail(wait) = <<RRow(p)>>
          BY <1>5, <4>1, TailsOfRows
        <5> QED
          BY <1>4, <1>5, <5>1 DEF UpdateLocks
      <4>2. CASE held[r] = {PRow(p)} /\ wait = <<RRow(p)>>
        <5>1. held'[r] = {PRow(p), RRow(p)} /\ Tail(wait) = <<>>
          BY <1>5, <4>2, TailsOfRows
        <5> QED
          BY <1>4, <1>5, <5>1 DEF UpdateLocks
      <4> QED
        BY <1>1, <3>1, <4>1, <4>2 DEF UpdateLocks
    <3> QED
      BY <1>4, <1>5, <2>1, <3>2 DEF LocksOK
  <2>2. CASE pc[r] = "patching"
    <3>1. PatchLocks(r, p)
      BY <1>7, <2>2 DEF LocksOK
    <3>2. PatchLocks(r, p)'
      <4>1. CASE held[r] = {} /\ wait = <<RRow(p)>>
        <5>1. held'[r] = {RRow(p)} /\ Tail(wait) = <<>>
          BY <1>5, <4>1, TailsOfRows
        <5> QED
          BY <1>4, <1>5, <5>1 DEF PatchLocks
      <4> QED
        BY <1>1, <3>1, <4>1 DEF PatchLocks
    <3> QED
      BY <1>4, <1>5, <2>2, <3>2 DEF LocksOK
  <2>3. CASE pc[r] = "moving"
    <3>1. MoveLocks(r, p, t)
      BY <1>7, <2>3 DEF LocksOK
    <3>2. MoveLocks(r, p, t)'
      <4>1. CASE held[r] = {} /\ wait = <<TRow(t), PRow(p), RRow(p)>>
        <5>1. held'[r] = {TRow(t)} /\ Tail(wait) = <<PRow(p), RRow(p)>>
          BY <1>5, <4>1, TailsOfRows
        <5> QED
          BY <1>4, <1>5, <5>1 DEF MoveLocks
      <4>2. CASE held[r] = {TRow(t)} /\ wait = <<PRow(p), RRow(p)>>
        <5>1. held'[r] = {TRow(t), PRow(p)} /\ Tail(wait) = <<RRow(p)>>
          BY <1>5, <4>2, TailsOfRows
        <5> QED
          BY <1>4, <1>5, <5>1 DEF MoveLocks
      <4>3. CASE held[r] = {TRow(t), PRow(p)} /\ wait = <<RRow(p)>>
        <5>1. held'[r] = {TRow(t), PRow(p), RRow(p)} /\ Tail(wait) = <<>>
          BY <1>5, <4>3, TailsOfRows
        <5> QED
          BY <1>4, <1>5, <5>1 DEF MoveLocks
      <4> QED
        BY <1>1, <3>1, <4>1, <4>2, <4>3 DEF MoveLocks
    <3> QED
      BY <1>4, <1>5, <2>3, <3>2 DEF LocksOK
  <2>4. CASE pc[r] = "depending"
    <3>1. GraphLocks(r, p)
      BY <1>7, <2>4 DEF LocksOK
    <3>2. GraphLocks(r, p)'
      <4>1. CASE /\ held[r] = {} /\ Len(wait) >= 2
                 /\ wait[1] = PRow(p) /\ wait[2] = RRow(p) /\ OnlyTasks(wait, 3, p)
        <5>1. held'[r] = {PRow(p)} /\ Tail(wait)[1] = RRow(p) /\ Len(Tail(wait)) >= 1
          BY <1>3, <1>5, <4>1
        <5>2. \A n \in 2..Len(Tail(wait)) : Tail(wait)[n] \in TaskRows(p)
          BY <1>3, <4>1 DEF OnlyTasks
        <5> QED
          BY <1>4, <1>5, <5>1, <5>2 DEF GraphLocks, OnlyTasks, TaskRows
      <4>2. CASE held[r] = {PRow(p)} /\ Len(wait) >= 1 /\ wait[1] = RRow(p) /\ OnlyTasks(wait, 2, p)
        <5>1. held'[r] = {PRow(p), RRow(p)}
          BY <1>3, <1>5, <4>2
        <5>2. \A n \in 1..Len(Tail(wait)) : Tail(wait)[n] \in TaskRows(p)
          BY <1>3, <4>2 DEF OnlyTasks
        <5> QED
          BY <1>4, <1>5, <5>1, <5>2 DEF GraphLocks, OnlyTasks, TaskRows
      <4>3. CASE /\ {PRow(p), RRow(p)} \subseteq held[r]
                 /\ held[r] \subseteq {PRow(p), RRow(p)} \cup TaskRows(p)
                 /\ OnlyTasks(wait, 1, p)
        <5>1. wait[1] \in TaskRows(p)
          BY <1>1, <1>3, <4>3 DEF OnlyTasks
        <5>2. \A n \in 1..Len(Tail(wait)) : Tail(wait)[n] \in TaskRows(p)
          BY <1>3, <4>3 DEF OnlyTasks
        <5>3. /\ {PRow(p), RRow(p)} \subseteq held'[r]
              /\ held'[r] \subseteq {PRow(p), RRow(p)} \cup TaskRows(p)
          BY <1>3, <1>5, <4>3, <5>1
        <5> QED
          BY <1>4, <1>5, <5>2, <5>3 DEF GraphLocks, OnlyTasks, TaskRows
      <4> QED
        BY <3>1, <4>1, <4>2, <4>3 DEF GraphLocks
    <3> QED
      BY <1>4, <1>5, <2>4, <3>2 DEF LocksOK
  <2> QED
    BY <1>8, <2>1, <2>2, <2>3, <2>4
<1> QED
  BY <1>1, <1>6, <1>9, <1>10, LocalStep

-----------------------------------------------------------------------------
(* Steps that write rows.                                                  *)

LEMMA DoneFrame ==
  ASSUME IInv, NEW r \in Requests, Done(r)
  PROVE  Frame(r) /\ pc'[r] = "idle" /\ LocksOK(r)' /\ ReadsOK(r)'
<1>1. pc' = [pc EXCEPT ![r] = "idle"] /\ req' = [req EXCEPT ![r] = Idle] /\ held' = [held EXCEPT ![r] = {}]
  BY DEF Done
<1>2. pc'[r] = "idle" /\ req'[r] = Idle /\ held'[r] = {}
  BY <1>1 DEF IInv, TypeOK
<1>3. Frame(r)
  BY <1>1, <1>2, IdleIsLocal DEF Frame, Labels
<1> QED
  BY <1>2, <1>3 DEF LocksOK, ReadsOK, Idle

\* A step that writes rows keeps the invariant if the rows and what the other
\* requests have read stay in order.
LEMMA WriteStep ==
  ASSUME IInv, NEW r \in Requests, Done(r),
         projects' \in [ProjectIds -> Project \cup {None}], records' \in [ProjectIds -> Data \cup {None}],
         tasks' \in [TaskIds -> Place], moves' \in [TaskIds -> Seq(Move)],
         dependencies' \in SUBSET (TaskIds \X TaskIds),
         RowsOK', DependenciesAcyclic', \A q \in Requests \ {r} : ReadsOK(q)'
  PROVE  IInv'
<1>1. Frame(r) /\ LocksOK(r)' /\ ReadsOK(r)'
  BY DoneFrame
<1>2. TypeOK'
  BY <1>1, FrameTypes DEF TypeOK, Labels
<1> QED
  BY <1>1, <1>2, FrameTypes DEF IInv

LEMMA TaskRowsStay ==
  ASSUME IInv, UNCHANGED tasks, UNCHANGED moves, UNCHANGED dependencies,
         \A p \in ProjectIds : projects'[p] # None => records'[p] \in Data
  PROVE  RowsOK' /\ DependenciesAcyclic'
  BY DEF IInv, RowsOK, PathOK, DependenciesAcyclic

LEMMA CreateProjectInv ==
  ASSUME IInv, NEW user \in Actors, NEW p \in ProjectIds, NEW sent \in Creations,
         CreateProject(user, p, sent)
  PROVE  IInv'
<1> DEFINE row == [status |-> None, owner |-> IF sent.owner = None THEN user ELSE sent.owner,
                   target |-> sent.target]
           data == [owner |-> sent.owner, target |-> sent.target, note |-> None]
<1>1. /\ projects[p] = None /\ projects' = [projects EXCEPT ![p] = row]
      /\ records' = [records EXCEPT ![p] = data]
      /\ UNCHANGED tasks /\ UNCHANGED moves /\ UNCHANGED dependencies
      /\ UNCHANGED held /\ UNCHANGED pc /\ UNCHANGED req
  BY DEF CreateProject
<1>2. sent.owner \in Values \cup {None} /\ sent.target \in Values \cup {None} /\ user \in Values
  BY InputAssumption DEF SyncedFields
<1>3. row \in Project
  BY <1>2 DEF Project, ProjectFields
<1>4. data \in Data
  BY <1>2 DEF Data, DataFields, SyncedFields
<1> HIDE DEF row, data
<1>5. TypeOK'
  BY <1>1, <1>3, <1>4 DEF IInv, TypeOK
<1>6. RowsOK' /\ DependenciesAcyclic' /\ Exclusive'
  <2>1. ASSUME NEW q \in ProjectIds, projects'[q] # None PROVE records'[q] \in Data
    BY <1>1, <1>4, <2>1 DEF IInv, TypeOK, RowsOK
  <2>2. Exclusive'
    BY <1>1 DEF IInv, Exclusive
  <2> QED
    BY <1>1, <2>1, <2>2, TaskRowsStay
<1>7. ASSUME NEW q \in Requests PROVE LocksOK(q)' /\ ReadsOK(q)'
  <2>1. LocksOK(q) /\ ReadsOK(q)
    BY DEF IInv
  <2>2. LocksOK(q)'
    BY <1>1, <2>1 DEF LocksOK, UpdateLocks, PatchLocks, MoveLocks, GraphLocks
  <2>3. CASE pc[q] = "idle"
    <3>1. pc'[q] = "idle"
      BY <1>1, <2>3
    <3> QED
      BY <2>2, <3>1 DEF ReadsOK
  <2>4. CASE pc[q] # "idle"
    <3>1. req[q].project \in ProjectIds /\ projects[req[q].project] # None
      BY <2>1, <2>4 DEF ReadsOK
    <3>2. /\ projects'[req[q].project] = projects[req[q].project]
          /\ records'[req[q].project] = records[req[q].project]
      BY <1>1, <3>1 DEF IInv, TypeOK
    <3> QED
      BY <1>1, <2>1, <3>2, <2>2 DEF ReadsOK
  <2> QED
    BY <2>2, <2>3, <2>4
<1> QED
  BY <1>5, <1>6, <1>7 DEF IInv

\* What an update writes.
LEMMA UpdateWrites ==
  ASSUME IInv, NEW r \in Requests, UpdateProject(r)
  PROVE  LET p == req[r].project IN
         /\ pc[r] = "saving" /\ Done(r) /\ held[r] = {PRow(p), RRow(p)}
         /\ p \in ProjectIds /\ projects[p] # None /\ projects[p] \in Project /\ records[p] \in Data
         /\ projects' = [projects EXCEPT ![p] = projects'[p]] /\ projects'[p] \in Project
         /\ records' = [records EXCEPT ![p] = records'[p]] /\ records'[p] \in Data
         /\ \A f \in ProjectFields : req[r].changes[f] = Unset => projects'[p][f] = projects[p][f]
         /\ \A f \in SyncedFields : records'[p][f] = projects'[p][f]
         /\ records'[p].note = records[p].note
         /\ UNCHANGED tasks /\ UNCHANGED moves /\ UNCHANGED dependencies
<1> DEFINE p == req[r].project
           updated == [f \in ProjectFields |->
             IF req[r].changes[f] = Unset THEN req[r].project_row[f] ELSE req[r].changes[f]]
           data == [f \in DataFields |-> IF f \in SyncedFields THEN updated[f] ELSE req[r].data[f]]
<1>1. /\ pc[r] = "saving" /\ Done(r)
      /\ projects' = [projects EXCEPT ![p] = updated]
      /\ records' = [records EXCEPT ![p] = data]
      /\ UNCHANGED tasks /\ UNCHANGED moves /\ UNCHANGED dependencies
  BY DEF UpdateProject
<1>2. /\ p \in ProjectIds /\ projects[p] # None /\ projects[p] \in Project
      /\ req[r].changes \in Changes /\ req[r].project_row = projects[p] /\ req[r].data = records[p]
      /\ held[r] = {PRow(p), RRow(p)}
  BY <1>1 DEF IInv, ReadsOK, LocksOK
<1>3. records[p] \in Data
  BY <1>2 DEF IInv, RowsOK
<1>4. req[r].changes \in [ProjectFields -> Values \cup {None, Unset}]
  BY <1>2, InputAssumption
<1>5. updated \in Project
  BY <1>2, <1>4 DEF Project
<1>6. data \in Data
  <2>1. \A f \in SyncedFields : updated[f] \in Values \cup {None}
    BY <1>5 DEF Project, SyncedFields, ProjectFields
  <2>2. \A f \in DataFields : req[r].data[f] \in Values \cup {None}
    BY <1>2, <1>3 DEF Data
  <2> HIDE DEF updated
  <2> QED
    BY <2>1, <2>2 DEF Data
<1>7. projects'[p] = updated /\ records'[p] = data
  BY <1>1, <1>2 DEF IInv, TypeOK
<1>8. \A f \in ProjectFields : req[r].changes[f] = Unset => updated[f] = projects[p][f]
  BY <1>2
<1>9. (\A f \in SyncedFields : data[f] = updated[f]) /\ data["note"] = records[p]["note"]
  BY <1>2 DEF DataFields, SyncedFields
<1>10. data.note = records[p].note
  BY <1>9
<1> HIDE DEF updated, data
<1> QED
  BY <1>1, <1>2, <1>3, <1>5, <1>6, <1>7, <1>8, <1>9, <1>10

LEMMA UpdateProjectInv ==
  ASSUME IInv, NEW r \in Requests, UpdateProject(r)
  PROVE  IInv'
<1> DEFINE p == req[r].project
<1>1. /\ Done(r) /\ held[r] = {PRow(p), RRow(p)}
      /\ p \in ProjectIds
      /\ projects' = [projects EXCEPT ![p] = projects'[p]] /\ projects'[p] \in Project
      /\ records' = [records EXCEPT ![p] = records'[p]] /\ records'[p] \in Data
      /\ UNCHANGED tasks /\ UNCHANGED moves /\ UNCHANGED dependencies
  BY UpdateWrites
<1>2. /\ projects' \in [ProjectIds -> Project \cup {None}] /\ records' \in [ProjectIds -> Data \cup {None}]
      /\ tasks' \in [TaskIds -> Place] /\ moves' \in [TaskIds -> Seq(Move)]
      /\ dependencies' \in SUBSET (TaskIds \X TaskIds)
  BY <1>1 DEF IInv, TypeOK
<1>3. projects'[p] # None
  BY <1>1, InputAssumption DEF Project
<1>4. RowsOK' /\ DependenciesAcyclic'
  <2>1. ASSUME NEW q \in ProjectIds, projects'[q] # None PROVE records'[q] \in Data
    BY <1>1, <2>1 DEF IInv, TypeOK, RowsOK
  <2> QED
    BY <1>1, <2>1, TaskRowsStay
<1>5. ASSUME NEW q \in Requests \ {r} PROVE ReadsOK(q)'
  <2>1. /\ ReadsOK(q) /\ LocksOK(q) /\ pc'[q] = pc[q] /\ req'[q] = req[q] /\ held[r] \cap held[q] = {}
    BY <1>1, DoneFrame, FrameTypes DEF IInv, Exclusive
  <2>2. CASE pc[q] = "idle"
    BY <2>1, <2>2 DEF ReadsOK
  <2>3. CASE pc[q] # "idle" /\ req[q].project # p
    <3>1. req[q].project \in ProjectIds
      BY <2>1, <2>3 DEF ReadsOK
    <3>2. /\ projects'[req[q].project] = projects[req[q].project]
          /\ records'[req[q].project] = records[req[q].project]
      BY <1>1, <2>3, <3>1 DEF IInv, TypeOK
    <3> QED
      BY <1>1, <2>1, <3>2 DEF ReadsOK
  <2>4. CASE pc[q] # "idle" /\ req[q].project = p
    <3>1. pc[q] # "saving"
      BY <1>1, <2>1, <2>4 DEF LocksOK
    <3> QED
      BY <1>1, <1>3, <2>1, <2>4, <3>1 DEF ReadsOK
  <2> QED
    BY <2>2, <2>3, <2>4
<1> QED
  BY <1>1, <1>2, <1>4, <1>5, WriteStep

LEMMA PatchRecordInv ==
  ASSUME IInv, NEW r \in Requests, PatchRecord(r)
  PROVE  IInv'
<1> DEFINE p == req[r].project
<1>1. /\ pc[r] = "patching" /\ req[r].wait = <<>> /\ Done(r)
      /\ records' = [records EXCEPT ![p] = req[r].data]
      /\ UNCHANGED projects /\ UNCHANGED tasks /\ UNCHANGED moves /\ UNCHANGED dependencies
  BY DEF PatchRecord, Locked
<1>2. p \in ProjectIds /\ req[r].data \in Data /\ held[r] = {RRow(p)}
  BY <1>1 DEF IInv, ReadsOK, LocksOK, PatchLocks
<1>3. /\ projects' \in [ProjectIds -> Project \cup {None}] /\ records' \in [ProjectIds -> Data \cup {None}]
      /\ tasks' \in [TaskIds -> Place] /\ moves' \in [TaskIds -> Seq(Move)]
      /\ dependencies' \in SUBSET (TaskIds \X TaskIds)
  BY <1>1, <1>2 DEF IInv, TypeOK
<1>4. RowsOK' /\ DependenciesAcyclic'
  BY <1>1, <1>2 DEF IInv, TypeOK, RowsOK, PathOK, DependenciesAcyclic
<1>5. ASSUME NEW q \in Requests \ {r} PROVE ReadsOK(q)'
  <2>1. /\ ReadsOK(q) /\ LocksOK(q) /\ pc'[q] = pc[q] /\ req'[q] = req[q] /\ held[r] \cap held[q] = {}
    BY <1>1, DoneFrame, FrameTypes DEF IInv, Exclusive
  <2>2. pc[q] = "saving" => req[q].project # p
    BY <1>2, <2>1 DEF LocksOK
  <2>3. pc[q] = "saving" => records'[req[q].project] = records[req[q].project]
    BY <1>1, <2>1, <2>2 DEF IInv, TypeOK, ReadsOK
  <2> QED
    BY <1>1, <2>1, <2>3 DEF ReadsOK
<1> QED
  BY <1>1, <1>3, <1>4, <1>5, WriteStep

LEMMA MoveTaskInv ==
  ASSUME IInv, NEW r \in Requests, MoveTask(r)
  PROVE  IInv'
<1> DEFINE p == req[r].project
           t == req[r].task
           move == [from |-> req[r].from, to |-> req[r].place]
<1>1. /\ pc[r] = "placing" /\ Done(r)
      /\ tasks' = [tasks EXCEPT ![t] = req[r].place]
      /\ moves' = [moves EXCEPT ![t] = Append(@, move)]
      /\ UNCHANGED projects /\ UNCHANGED records /\ UNCHANGED dependencies
  BY DEF MoveTask
<1>2. /\ t \in TaskIds /\ ProjectOf[t] = p /\ req[r].place \in Place /\ req[r].from = tasks[t]
      /\ req[r].place.column # None => ProjectOf[req[r].place.column] = p
      /\ TRow(t) \in held[r]
  BY <1>1 DEF IInv, ReadsOK, LocksOK
<1>3. move \in Move /\ move.from = tasks[t] /\ move.to = req[r].place
  BY <1>2 DEF IInv, TypeOK, Move
<1> HIDE DEF move
<1>4. moves[t] \in Seq(Move) /\ moves'[t] = Append(moves[t], move) /\ tasks'[t] = req[r].place
  BY <1>1, <1>2 DEF IInv, TypeOK
<1>5. /\ moves'[t] \in Seq(Move) /\ Len(moves[t]) \in Nat /\ Len(moves'[t]) = Len(moves[t]) + 1
      /\ \A n \in 1..Len(moves[t]) : moves'[t][n] = moves[t][n]
      /\ moves'[t][Len(moves[t]) + 1] = move
  BY <1>3, <1>4, AppendProperties
<1>6. /\ projects' \in [ProjectIds -> Project \cup {None}] /\ records' \in [ProjectIds -> Data \cup {None}]
      /\ tasks' \in [TaskIds -> Place] /\ moves' \in [TaskIds -> Seq(Move)]
      /\ dependencies' \in SUBSET (TaskIds \X TaskIds)
  <2>1. moves' = [moves EXCEPT ![t] = moves'[t]]
    BY <1>1, <1>2 DEF IInv, TypeOK
  <2> QED
    BY <1>1, <1>2, <1>5, <2>1 DEF IInv, TypeOK
<1>7. ASSUME NEW u \in TaskIds PROVE PathOK(u)'
  <2>1. PathOK(u)
    BY DEF IInv, RowsOK
  <2>2. CASE u # t
    <3>1. moves'[u] = moves[u] /\ tasks'[u] = tasks[u]
      BY <1>1, <2>2 DEF IInv, TypeOK
    <3> QED
      BY <2>1, <3>1 DEF PathOK
  <2>3. CASE u = t
    <3>1. moves'[t][Len(moves'[t])].to = tasks'[t]
      BY <1>3, <1>4, <1>5
    <3>2. ASSUME NEW n \in 1..(Len(moves'[t]) - 1)
          PROVE  moves'[t][n].to = moves'[t][n + 1].from
      <4>1. n \in 1..Len(moves[t]) /\ moves'[t][n] = moves[t][n]
        BY <1>5
      <4>2. CASE n = Len(moves[t])
        <5>1. moves[t] # <<>> /\ moves[t][n].to = tasks[t]
          BY <1>4, <2>1, <2>3, <4>1, <4>2 DEF PathOK
        <5>2. moves'[t][n + 1] = move
          BY <1>5, <4>2
        <5> QED
          BY <1>3, <4>1, <5>1, <5>2
      <4>3. CASE n # Len(moves[t])
        <5>1. n \in 1..(Len(moves[t]) - 1) /\ n + 1 \in 1..Len(moves[t])
          BY <1>5, <4>1, <4>3
        <5>2. moves'[t][n + 1] = moves[t][n + 1]
          BY <1>5, <5>1
        <5> QED
          BY <2>1, <2>3, <4>1, <5>1, <5>2 DEF PathOK
      <4> QED
        BY <4>2, <4>3
    <3> QED
      BY <2>3, <3>1, <3>2 DEF PathOK
  <2> QED
    BY <2>2, <2>3
<1>8. RowsOK'
  <2>1. ASSUME NEW u \in TaskIds, tasks'[u].column # None
        PROVE  ProjectOf[tasks'[u].column] = ProjectOf[u]
    <3>1. CASE u = t
      BY <1>2, <1>4, <2>1, <3>1
    <3>2. CASE u # t
      <4>1. tasks'[u] = tasks[u]
        BY <1>1, <3>2 DEF IInv, TypeOK
      <4> QED
        BY <2>1, <4>1 DEF IInv, RowsOK
    <3> QED
      BY <3>1, <3>2
  <2> QED
    BY <1>1, <1>7, <2>1 DEF IInv, RowsOK
<1>9. DependenciesAcyclic'
  BY <1>1 DEF IInv, DependenciesAcyclic
<1>10. ASSUME NEW q \in Requests \ {r} PROVE ReadsOK(q)'
  <2>1. /\ ReadsOK(q) /\ LocksOK(q) /\ pc'[q] = pc[q] /\ req'[q] = req[q] /\ held[r] \cap held[q] = {}
    BY <1>1, DoneFrame, FrameTypes DEF IInv, Exclusive
  <2>2. pc[q] = "placing" => TRow(req[q].task) \in held[q] /\ req[q].task \in TaskIds
    BY <2>1 DEF LocksOK, ReadsOK
  <2>3. pc[q] = "placing" => req[q].task # t
    BY <1>2, <2>1, <2>2
  <2>4. pc[q] = "placing" => tasks'[req[q].task] = tasks[req[q].task]
    BY <1>1, <2>2, <2>3 DEF IInv, TypeOK
  <2> QED
    BY <1>1, <2>1, <2>4 DEF ReadsOK
<1> QED
  BY <1>1, <1>6, <1>8, <1>9, <1>10, WriteStep

LEMMA AddDependencyInv ==
  ASSUME IInv, NEW r \in Requests, AddDependency(r)
  PROVE  IInv'
<1> DEFINE p == req[r].project
           t == req[r].task
           d == req[r].depends_on
<1>1. /\ pc[r] = "linking" /\ Done(r) /\ dependencies' = dependencies \cup {<<t, d>>}
      /\ UNCHANGED projects /\ UNCHANGED records /\ UNCHANGED tasks /\ UNCHANGED moves
  BY DEF AddDependency
<1>2. /\ t \in TaskIds /\ d \in TaskIds /\ ProjectOf[t] = p /\ ProjectOf[d] = p
      /\ t \notin Prerequisites(d, dependencies)
  BY <1>1 DEF IInv, ReadsOK
<1>3. \A q \in Requests : pc[q] = "linking" => PRow(req[q].project) \in held[q]
  BY DEF IInv, LocksOK, GraphLocks
<1>4. dependencies \in SUBSET (TaskIds \X TaskIds)
  BY DEF IInv, TypeOK
<1>5. /\ projects' \in [ProjectIds -> Project \cup {None}] /\ records' \in [ProjectIds -> Data \cup {None}]
      /\ tasks' \in [TaskIds -> Place] /\ moves' \in [TaskIds -> Seq(Move)]
      /\ dependencies' \in SUBSET (TaskIds \X TaskIds)
  BY <1>1, <1>2, <1>4 DEF IInv, TypeOK
<1>6. RowsOK'
  <2>1. \A e \in dependencies' : ProjectOf[e[1]] = ProjectOf[e[2]]
    BY <1>1, <1>2 DEF IInv, RowsOK
  <2> QED
    BY <1>1, <2>1 DEF IInv, RowsOK, PathOK
<1>7. DependenciesAcyclic'
  <2>1. Acyclic(dependencies)
    BY DEF IInv, DependenciesAcyclic, Acyclic
  <2>2. Acyclic(dependencies \cup {<<t, d>>})
    BY <1>2, <1>4, <2>1, NewEdgeClosesNoCircle
  <2> QED
    BY <1>1, <2>2 DEF DependenciesAcyclic, Acyclic
<1>8. ASSUME NEW q \in Requests \ {r} PROVE ReadsOK(q)'
  <2>1. /\ ReadsOK(q) /\ LocksOK(q) /\ pc'[q] = pc[q] /\ req'[q] = req[q] /\ held[r] \cap held[q] = {}
    BY <1>1, DoneFrame, FrameTypes DEF IInv, Exclusive
  <2>2. CASE pc[q] # "linking"
    BY <1>1, <2>1, <2>2 DEF ReadsOK
  <2>3. CASE pc[q] = "linking"
    <3>1. req[q].project # p
      BY <1>1, <1>3, <2>1, <2>3
    <3>2. /\ req[q].task \in TaskIds /\ req[q].depends_on \in TaskIds
          /\ ProjectOf[req[q].depends_on] = req[q].project
          /\ req[q].task \notin Prerequisites(req[q].depends_on, dependencies)
      BY <2>1, <2>3 DEF ReadsOK
    <3>3. \A e \in dependencies : ProjectOf[e[1]] = ProjectOf[e[2]]
      BY DEF IInv, RowsOK
    <3>4. req[q].task \notin Prerequisites(req[q].depends_on, dependencies \cup {<<t, d>>})
      BY <1>2, <1>4, <3>1, <3>2, <3>3, OtherProjectsKeepPrerequisites
    <3> QED
      BY <1>1, <2>1, <2>3, <3>4 DEF ReadsOK, Prerequisites
  <2> QED
    BY <2>2, <2>3
<1> QED
  BY <1>1, <1>5, <1>6, <1>7, <1>8, WriteStep

-----------------------------------------------------------------------------
(* The invariant holds in every state.                                     *)

LEMMA InitInv == Init => IInv
<1> SUFFICES ASSUME Init PROVE IInv
  OBVIOUS
<1>1. /\ projects = [p \in ProjectIds |-> None] /\ records = [p \in ProjectIds |-> None]
      /\ tasks = [t \in TaskIds |-> [column |-> None, sort_order |-> 0]]
      /\ moves = [t \in TaskIds |-> <<>>] /\ dependencies = {}
      /\ held = [r \in Requests |-> {}] /\ pc = [r \in Requests |-> "idle"]
      /\ req = [r \in Requests |-> Idle]
  BY DEF Init
<1>2. [column |-> None, sort_order |-> 0] \in Place
  BY InputAssumption DEF Place
<1>3. TypeOK
  <2>1. tasks \in [TaskIds -> Place]
    BY <1>1, <1>2
  <2>2. req \in [Requests -> Local]
    BY <1>1, IdleIsLocal
  <2>3. moves \in [TaskIds -> Seq(Move)]
    BY <1>1
  <2> QED
    BY <1>1, <2>1, <2>2, <2>3 DEF TypeOK
<1>4. RowsOK
  BY <1>1 DEF RowsOK, PathOK
<1>5. DependenciesAcyclic /\ Exclusive
  BY <1>1 DEF DependenciesAcyclic, Exclusive
<1>6. ASSUME NEW r \in Requests PROVE LocksOK(r) /\ ReadsOK(r)
  <2>1. pc[r] = "idle" /\ held[r] = {} /\ req[r] = Idle
    BY <1>1
  <2> QED
    BY <2>1 DEF LocksOK, ReadsOK, Idle
<1> QED
  BY <1>3, <1>4, <1>5, <1>6 DEF IInv

LEMMA StutterInv == IInv /\ UNCHANGED vars => IInv'
<1> SUFFICES ASSUME IInv, UNCHANGED vars PROVE IInv'
  OBVIOUS
<1>1. /\ UNCHANGED projects /\ UNCHANGED records /\ UNCHANGED tasks /\ UNCHANGED moves
      /\ UNCHANGED dependencies /\ UNCHANGED held /\ UNCHANGED pc /\ UNCHANGED req
  BY DEF vars, rows
<1>2. TypeOK'
  BY <1>1 DEF IInv, TypeOK
<1>3. RowsOK' /\ DependenciesAcyclic' /\ Exclusive'
  BY <1>1 DEF IInv, RowsOK, PathOK, DependenciesAcyclic, Exclusive
<1>4. ASSUME NEW r \in Requests PROVE LocksOK(r)' /\ ReadsOK(r)'
  <2>1. LocksOK(r) /\ ReadsOK(r)
    BY DEF IInv
  <2>2. LocksOK(r)'
    BY <1>1, <2>1 DEF LocksOK, UpdateLocks, PatchLocks, MoveLocks, GraphLocks
  <2>3. ReadsOK(r)'
    BY <1>1, <2>1 DEF ReadsOK
  <2> QED
    BY <2>2, <2>3
<1> QED
  BY <1>2, <1>3, <1>4 DEF IInv

LEMMA NextInv == IInv /\ [Next]_vars => IInv'
<1> SUFFICES ASSUME IInv, [Next]_vars PROVE IInv'
  OBVIOUS
<1>1. CASE UNCHANGED vars
  BY <1>1, StutterInv
<1>2. CASE \E user \in Actors, p \in ProjectIds, sent \in Creations : CreateProject(user, p, sent)
  BY <1>2, CreateProjectInv
<1>3. ASSUME NEW r \in Requests, Lock(r) PROVE IInv'
  BY <1>3, LockInv
<1>4. ASSUME NEW r \in Requests, Rollback(r) PROVE IInv'
  BY <1>4, RefuseInv DEF Rollback
<1>5. ASSUME NEW r \in Requests,
             \E user \in Actors, p \in ProjectIds, changes \in Changes : StartUpdate(r, user, p, changes)
      PROVE  IInv'
  BY <1>5, StartUpdateInv
<1>6. ASSUME NEW r \in Requests, ReadProject(r) PROVE IInv'
  BY <1>6, ReadProjectInv
<1>7. ASSUME NEW r \in Requests, UpdateProject(r) PROVE IInv'
  BY <1>7, UpdateProjectInv
<1>8. ASSUME NEW r \in Requests,
             \E user \in Actors, p \in ProjectIds, patch \in Patches : StartPatch(r, user, p, patch)
      PROVE  IInv'
  BY <1>8, StartPatchInv
<1>9. ASSUME NEW r \in Requests, PatchRecord(r) PROVE IInv'
  BY <1>9, PatchRecordInv
<1>10. ASSUME NEW r \in Requests,
              \E user \in Actors, t \in TaskIds, place \in Place : StartMove(r, user, t, place)
       PROVE  IInv'
  BY <1>10, StartMoveInv
<1>11. ASSUME NEW r \in Requests, ReadTask(r) PROVE IInv'
  BY <1>11, ReadTaskInv
<1>12. ASSUME NEW r \in Requests, MoveTask(r) PROVE IInv'
  BY <1>12, MoveTaskInv
<1>13. ASSUME NEW r \in Requests,
              \E user \in Actors, t, d \in TaskIds : StartDependency(r, user, t, d)
       PROVE  IInv'
  BY <1>13, StartDependencyInv
<1>14. ASSUME NEW r \in Requests, CheckCycle(r) PROVE IInv'
  BY <1>14, CheckCycleInv
<1>15. ASSUME NEW r \in Requests, AddDependency(r) PROVE IInv'
  BY <1>15, AddDependencyInv
<1> QED
  BY <1>1, <1>2, <1>3, <1>4, <1>5, <1>6, <1>7, <1>8, <1>9, <1>10, <1>11, <1>12, <1>13, <1>14, <1>15
     DEF Next

\* Every state of the projects satisfies the inductive invariant: rows, locks
\* and what the requests have read belong together.
THEOREM InvariantHolds == Spec => []IInv
  BY InitInv, NextInv, PTL DEF Spec

\* No tasks wait for each other in a circle, whatever requests add
\* dependencies at the same time: a request that checked for circles keeps the
\* graph of its project locked until it writes, and dependencies stay within a
\* project (services.py 206-256).
THEOREM NoCircles == Spec => []DependenciesAcyclic
<1>1. IInv => DependenciesAcyclic
  BY DEF IInv
<1> QED
  BY <1>1, InvariantHolds, PTL

LEMMA MovesLeadToTasks == IInv => MovesFormPath
<1>1. ASSUME IInv, NEW p \in Existing, NEW t \in TasksOf(p)
      PROVE  /\ \A n \in 1..(Len(moves[t]) - 1) : moves[t][n].to = moves[t][n + 1].from
             /\ moves[t] # <<>> => t \in Board(p)[moves[t][Len(moves[t])].to.column]
  <2>1. t \in TaskIds /\ ProjectOf[t] = p /\ PathOK(t)
    BY <1>1 DEF TasksOf, IInv, RowsOK
  <2>2. tasks[t].column \in ColumnIds \cup {None}
    BY <1>1, <2>1 DEF IInv, TypeOK, Place
  <2>3. tasks[t].column \in Columns(p) \cup {None}
    BY <1>1, <2>1, <2>2 DEF Columns, IInv, RowsOK
  <2>4. t \in Board(p)[tasks[t].column]
    BY <1>1, <2>3 DEF Board
  <2> QED
    BY <2>1, <2>4 DEF PathOK
<1>2. IInv => MovesFormPath
  <2> SUFFICES ASSUME IInv, NEW p \in Existing, NEW t \in DOMAIN Events(p)
               PROVE  /\ \A n \in 1..(Len(Events(p)[t]) - 1) :
                           Events(p)[t][n].to = Events(p)[t][n + 1].from
                      /\ Events(p)[t] # <<>> =>
                           t \in Board(p)[Events(p)[t][Len(Events(p)[t])].to.column]
    BY DEF MovesFormPath
  <2>1. t \in TasksOf(p) /\ Events(p)[t] = moves[t]
    BY DEF Events
  <2> QED
    BY <1>1, <2>1
<1> QED
  BY <1>2

LEMMA BoardsAreWhole ==
  ASSUME IInv, NEW p \in ProjectIds
  PROVE  TasksOnBoard(p) = TasksOf(p)
<1>1. \A t \in TasksOf(p) : tasks[t].column \in Columns(p) \cup {None}
  BY DEF IInv, TypeOK, RowsOK, TasksOf, Columns, Place
<1> DEFINE B == Board(p)
<1>2. /\ DOMAIN B = Columns(p) \cup {None}
      /\ \A c \in Columns(p) \cup {None} : B[c] = {t \in TasksOf(p) : tasks[t].column = c}
  BY DEF Board
<1> HIDE DEF B
<1>3. UNION {B[c] : c \in DOMAIN B} = TasksOf(p)
  BY <1>1, <1>2
<1> QED
  BY <1>3 DEF TasksOnBoard, B

LEMMA PagesShowTheSame == IInv => PagesAgree
<1> SUFFICES ASSUME IInv PROVE PagesAgree
  OBVIOUS
<1>1. ASSUME NEW p \in Existing
      PROVE  /\ TasksOnBoard(p) = Timeline(p).tasks
             /\ \A c, d \in DOMAIN Board(p) : c # d => Board(p)[c] \cap Board(p)[d] = {}
             /\ Detail(p).tasks = Timeline(p).tasks
             /\ \A e \in dependencies : e[1] \in TasksOf(p) => e \in Timeline(p).dependencies
  <2>1. p \in ProjectIds /\ Timeline(p).tasks = TasksOf(p) /\ Detail(p).tasks = TasksOf(p)
    BY DEF Existing, Timeline, Detail
  <2>2. \A c, d \in DOMAIN Board(p) : c # d => Board(p)[c] \cap Board(p)[d] = {}
    BY DEF Board
  <2>3. ASSUME NEW e \in dependencies, e[1] \in TasksOf(p) PROVE e \in Timeline(p).dependencies
    <3>1. e \in TaskIds \X TaskIds /\ ProjectOf[e[1]] = ProjectOf[e[2]]
      BY DEF IInv, TypeOK, RowsOK
    <3>2. e \in TasksOf(p) \X TasksOf(p)
      BY <2>3, <3>1 DEF TasksOf
    <3> QED
      BY <3>2 DEF Timeline
  <2> QED
    BY <2>1, <2>2, <2>3, BoardsAreWhole
<1>2. ASSUME NEW viewer \in Users
      PROVE  LET shown == UNION {TasksOnBoard(p) : p \in Visible(viewer)}
                 workload == Workload(viewer)
                 Open(user) == {t \in shown : t \notin Finished /\ Assignee[t] = user}
             IN \A user \in Users :
                  IF Open(user) = {} THEN user \notin DOMAIN workload
                  ELSE workload[user] = [open_tasks |-> Cardinality(Open(user)),
                                         estimated_hours |-> EstimatedHours(Open(user))]
  <2> DEFINE shown == UNION {TasksOnBoard(p) : p \in Visible(viewer)}
             Open(u) == {t \in shown : t \notin Finished /\ Assignee[t] = u}
             Counted(u) == {t \in TaskIds \ Finished : ProjectOf[t] \in Visible(viewer) /\ Assignee[t] = u}
  <2> SUFFICES ASSUME NEW user \in Users
               PROVE  IF Open(user) = {} THEN user \notin DOMAIN Workload(viewer)
                      ELSE Workload(viewer)[user] = [open_tasks |-> Cardinality(Open(user)),
                                                     estimated_hours |-> EstimatedHours(Open(user))]
    OBVIOUS
  <2>1. \A p \in Visible(viewer) : TasksOnBoard(p) = TasksOf(p)
    BY BoardsAreWhole DEF Visible, Existing
  <2>2. shown = {t \in TaskIds : ProjectOf[t] \in Visible(viewer)}
    BY <2>1 DEF TasksOf
  <2>3. Open(user) = Counted(user)
    <3> HIDE DEF shown
    <3> QED
      BY <2>2
  <2>4. Workload(viewer) = [u \in {v \in Users : Counted(v) # {}} |->
                              [open_tasks |-> Cardinality(Counted(u)), estimated_hours |-> EstimatedHours(Counted(u))]]
    BY DEF Workload
  <2> HIDE DEF Open, Counted
  <2> QED
    BY <2>3, <2>4
<1> QED
  BY <1>1, <1>2 DEF PagesAgree

\* The events of a project tell where its tasks have been and where they are,
\* although several users move them (services.py 161-187).
THEOREM MovesAreNeverLost == Spec => []MovesFormPath
  BY MovesLeadToTasks, InvariantHolds, PTL

\* Whatever page of a project is opened, it shows all tasks, each once and where
\* its moves left it, and all dependencies; the workload counts the same tasks
\* (views.py 88-118, 236-282, 302-336).
THEOREM ProjectsStayConsistent == Spec => []ProjectsAreConsistent
<1>1. IInv => ProjectsAreConsistent
  BY MovesLeadToTasks, PagesShowTheSame DEF ProjectsAreConsistent, IInv
<1> QED
  BY <1>1, InvariantHolds, PTL

-----------------------------------------------------------------------------
(* Updates.                                                                *)

\* Only the update itself takes a request from reading to the end with a write.
LEMMA OnlyUpdatesWrite ==
  ASSUME IInv, Next, NEW r \in Requests, pc[r] = "saving", pc'[r] = "idle", rows' # rows
  PROVE  UpdateProject(r)
<1>1. pc \in [Requests -> Labels]
  BY DEF IInv, TypeOK, Labels
<1>2. ASSUME NEW q \in Requests, Done(q), pc[q] # "saving" PROVE FALSE
  BY <1>1, <1>2 DEF Done
<1>3. CASE \E user \in Actors, p \in ProjectIds, sent \in Creations : CreateProject(user, p, sent)
  BY <1>3 DEF CreateProject
<1>4. ASSUME NEW q \in Requests, PatchRecord(q) PROVE FALSE
  BY <1>2, <1>4 DEF PatchRecord, Locked
<1>5. ASSUME NEW q \in Requests, MoveTask(q) PROVE FALSE
  BY <1>2, <1>5 DEF MoveTask
<1>6. ASSUME NEW q \in Requests, AddDependency(q) PROVE FALSE
  BY <1>2, <1>6 DEF AddDependency
<1>7. ASSUME NEW q \in Requests, UpdateProject(q) PROVE q = r
  BY <1>1, <1>7 DEF UpdateProject, Done
<1>8. ASSUME NEW q \in Requests, Lock(q) \/ Rollback(q) PROVE FALSE
  BY <1>8 DEF Lock, Rollback, Refuse
<1>9. ASSUME NEW q \in Requests,
             \/ \E user \in Actors, p \in ProjectIds, changes \in Changes : StartUpdate(q, user, p, changes)
             \/ \E user \in Actors, p \in ProjectIds, patch \in Patches : StartPatch(q, user, p, patch)
             \/ \E user \in Actors, t \in TaskIds, place \in Place : StartMove(q, user, t, place)
             \/ \E user \in Actors, t, d \in TaskIds : StartDependency(q, user, t, d)
      PROVE  FALSE
  BY <1>9 DEF StartUpdate, StartPatch, StartMove, StartDependency, Begin, rows
<1>10. ASSUME NEW q \in Requests, ReadProject(q) \/ ReadTask(q) \/ CheckCycle(q) PROVE FALSE
  BY <1>10 DEF ReadProject, ReadTask, CheckCycle, Proceed, Refuse, rows
<1> QED
  BY <1>3, <1>4, <1>5, <1>6, <1>7, <1>8, <1>9, <1>10 DEF Next

\* What others write into a project and its record is not lost by an update:
\* it holds both rows from reading them to writing them, and every other
\* writer needs one of them (services.py 110-146, 303-318).
THEOREM UpdatesAreNotLost == Spec => UpdatesKeepTheRest
<1> DEFINE Kept == \A p \in Existing, r \in Requests :
       pc[r] = "saving" /\ pc'[r] = "idle" /\ req[r].project = p /\ rows' # rows =>
         /\ \A f \in ProjectFields : req[r].changes[f] = Unset => projects'[p][f] = projects[p][f]
         /\ \A f \in SyncedFields : records'[p][f] = projects'[p][f]
         /\ records'[p].note = records[p].note
<1>1. IInv /\ [Next]_vars => [Kept]_vars
  <2> SUFFICES ASSUME IInv, Next, NEW p \in Existing, NEW r \in Requests,
                      pc[r] = "saving", pc'[r] = "idle", req[r].project = p, rows' # rows
               PROVE  /\ \A f \in ProjectFields : req[r].changes[f] = Unset => projects'[p][f] = projects[p][f]
                      /\ \A f \in SyncedFields : records'[p][f] = projects'[p][f]
                      /\ records'[p].note = records[p].note
    OBVIOUS
  <2>1. UpdateProject(r)
    BY OnlyUpdatesWrite
  <2> QED
    BY <2>1, UpdateWrites
<1> QED
  BY <1>1, InvariantHolds, PTL DEF Spec, UpdatesKeepTheRest

-----------------------------------------------------------------------------
(* Deadlocks.                                                              *)

\* What a waiting request holds and what it waits for.
LEMMA WaitingHolds ==
  ASSUME IInv, NEW r \in Requests, req[r].wait # <<>>
  PROVE  LET p == req[r].project
             t == req[r].task
             next == Head(req[r].wait)
         IN
         /\ pc[r] \in {"updating", "patching", "moving", "depending"}
         /\ pc[r] \in {"updating", "patching"} =>
              \/ held[r] = {} /\ next \in {PRow(p), RRow(p)}
              \/ held[r] = {PRow(p)} /\ next = RRow(p)
         /\ pc[r] = "moving" =>
              \/ held[r] = {} /\ next = TRow(t)
              \/ held[r] = {TRow(t)} /\ next = PRow(p)
              \/ held[r] = {TRow(t), PRow(p)} /\ next = RRow(p)
         /\ pc[r] = "depending" =>
              \/ held[r] = {} /\ next = PRow(p)
              \/ held[r] = {PRow(p)} /\ next = RRow(p)
              \/ /\ {PRow(p), RRow(p)} \subseteq held[r]
                 /\ held[r] \subseteq {PRow(p), RRow(p)} \cup TaskRows(p)
                 /\ next \in TaskRows(p)
<1> DEFINE p == req[r].project
           t == req[r].task
           wait == req[r].wait
<1>1. LocksOK(r) /\ pc[r] \in Labels
  BY DEF IInv, TypeOK, Labels
<1>2. pc[r] \in {"updating", "patching", "moving", "depending"}
  BY <1>1 DEF LocksOK, Labels
<1>3. wait \in Seq(Lockable) /\ Len(wait) \in Nat /\ Len(wait) >= 1 /\ Head(wait) = wait[1]
  <2>1. wait \in Seq(Lockable)
    BY DEF IInv, TypeOK, Local
  <2> QED
    BY <2>1, HeadTailProperties, LenProperties
<1>4. CASE pc[r] = "updating"
  BY <1>1, <1>4, TailsOfRows DEF LocksOK, UpdateLocks
<1>5. CASE pc[r] = "patching"
  BY <1>1, <1>5, TailsOfRows DEF LocksOK, PatchLocks
<1>6. CASE pc[r] = "moving"
  BY <1>1, <1>6, TailsOfRows DEF LocksOK, MoveLocks
<1>7. CASE pc[r] = "depending"
  <2>1. GraphLocks(r, p)
    BY <1>1, <1>7 DEF LocksOK
  <2>2. OnlyTasks(wait, 1, p) => wait[1] \in TaskRows(p)
    BY <1>3 DEF OnlyTasks
  <2> QED
    BY <1>3, <1>7, <2>1, <2>2 DEF GraphLocks
<1> QED
  BY <1>2, <1>4, <1>5, <1>6, <1>7

LEMMA RowsDiffer ==
  ASSUME NEW p, NEW q, NEW t
  PROVE  /\ PRow(p) # RRow(q) /\ PRow(p) # TRow(t) /\ RRow(p) # TRow(t)
         /\ PRow(p) \notin TaskRows(q) /\ RRow(p) \notin TaskRows(q)
  BY DEF PRow, RRow, TRow, TaskRows

\* In a circle without new dependencies nobody could wait for a record, hence
\* nobody for a project, hence nobody for a task.
LEMMA CirclesNeedDependencies ==
  ASSUME IInv, NEW waiting \in (SUBSET Requests) \ {{}},
         \A r \in waiting : \E q \in waiting : WaitsFor(r, q)
  PROVE  \E r \in waiting : pc[r] = "depending"
<1> SUFFICES ASSUME \A r \in waiting : pc[r] # "depending" PROVE FALSE
  OBVIOUS
<1>1. \A r \in waiting : r \in Requests /\ req[r].wait # <<>>
  BY DEF WaitsFor
<1>2. ASSUME NEW r \in waiting, NEW p PROVE RRow(p) \notin held[r]
  <2>1. held[r] \subseteq {PRow(req[r].project), TRow(req[r].task)}
    BY <1>1, WaitingHolds
  <2> QED
    BY <2>1, RowsDiffer
<1>3. ASSUME NEW r \in waiting, NEW p PROVE Head(req[r].wait) # RRow(p)
  BY <1>2 DEF WaitsFor
<1>4. ASSUME NEW r \in waiting, NEW p PROVE PRow(p) \notin held[r]
  <2>1. held[r] \subseteq {TRow(req[r].task)}
    BY <1>1, <1>3, WaitingHolds
  <2> QED
    BY <2>1, RowsDiffer
<1>5. ASSUME NEW r \in waiting, NEW p PROVE Head(req[r].wait) # PRow(p)
  BY <1>4 DEF WaitsFor
<1>6. ASSUME NEW r \in waiting PROVE held[r] = {}
  BY <1>1, <1>3, <1>5, <1>6, WaitingHolds
<1> QED
  BY <1>6 DEF WaitsFor

\* In a circle without moves a task is held only by a dependency that also
\* holds the project, and of these there is one: nobody waits for a task, hence
\* nobody for a record, hence nobody for a project.
LEMMA CirclesNeedMoves ==
  ASSUME IInv, NEW waiting \in (SUBSET Requests) \ {{}},
         \A r \in waiting : \E q \in waiting : WaitsFor(r, q)
  PROVE  \E r \in waiting : pc[r] = "moving"
<1> SUFFICES ASSUME \A r \in waiting : pc[r] # "moving" PROVE FALSE
  OBVIOUS
<1>1. \A r \in waiting : r \in Requests /\ req[r].wait # <<>>
  BY DEF WaitsFor
<1>2. ASSUME NEW r \in waiting, NEW t \in TaskIds, TRow(t) \in held[r]
      PROVE  PRow(ProjectOf[t]) \in held[r]
  <2>1. /\ {PRow(req[r].project), RRow(req[r].project)} \subseteq held[r]
        /\ TRow(t) \in TaskRows(req[r].project)
    BY <1>1, <1>2, WaitingHolds, RowsDiffer
  <2>2. ProjectOf[t] = req[r].project
    BY <2>1 DEF TaskRows, TasksOf, TRow
  <2> QED
    BY <2>1, <2>2
<1>3. ASSUME NEW r \in waiting, NEW p PROVE Head(req[r].wait) \notin TaskRows(p)
  <2> SUFFICES ASSUME Head(req[r].wait) \in TaskRows(p) PROVE FALSE
    OBVIOUS
  <2>1. PICK t \in TaskIds : Head(req[r].wait) = TRow(t)
    BY DEF TaskRows, TasksOf
  <2>2. PRow(req[r].project) \in held[r] /\ TRow(t) \in TaskRows(req[r].project)
    BY <1>1, <2>1, WaitingHolds, RowsDiffer
  <2>3. ProjectOf[t] = req[r].project
    BY <2>2 DEF TaskRows, TasksOf, TRow
  <2>4. PICK q \in waiting : q # r /\ TRow(t) \in held[q]
    BY <2>1 DEF WaitsFor
  <2>5. PRow(req[r].project) \in held[q]
    BY <1>2, <2>3, <2>4
  <2> QED
    BY <1>1, <2>2, <2>4, <2>5 DEF IInv, Exclusive
<1>4. ASSUME NEW r \in waiting, NEW p PROVE RRow(p) \notin held[r]
  <2>1. held[r] \subseteq {PRow(req[r].project)}
    BY <1>1, <1>3, WaitingHolds
  <2> QED
    BY <2>1, RowsDiffer
<1>5. ASSUME NEW r \in waiting, NEW p PROVE Head(req[r].wait) # RRow(p)
  BY <1>4 DEF WaitsFor
<1>6. ASSUME NEW r \in waiting PROVE held[r] = {}
  BY <1>1, <1>3, <1>5, <1>6, WaitingHolds
<1> QED
  BY <1>6 DEF WaitsFor

\* Requests can wait for each other in a circle, but only if one of them moves
\* a task and another one adds a dependency (services.py 161, 250-256).
THEOREM DeadlocksNeedBoth == Spec => []OnlyMovesAndDependenciesDeadlock
<1>1. IInv => OnlyMovesAndDependenciesDeadlock
  BY CirclesNeedDependencies, CirclesNeedMoves DEF OnlyMovesAndDependenciesDeadlock
<1> QED
  BY <1>1, InvariantHolds, PTL
=============================================================================
