------------------------------ MODULE Workflows ------------------------------
(***************************************************************************)
(* Workflow instances of records, their transitions and tasks              *)
(* (apps/workflows/engine.py, views.py, tasks.py, models.py), while        *)
(* configurations are published, records saved and documents attached.     *)
(*                                                                         *)
(* A request looks up the instance, the definition and the transition      *)
(* outside any transaction.  The engine then locks rows one after the      *)
(* other (select_for_update with select_related), reads them again, checks *)
(* and writes.  A publish and a save of a record are one step here, taken  *)
(* when nobody holds the rows they write.                                  *)
(*                                                                         *)
(* The definitions are those of one object type, the type of the records.  *)
(***************************************************************************)
EXTENDS WorkflowRules, Sequences, Naturals, FiniteSets

CONSTANTS
  Requests,      \* concurrent HTTP requests
  Users,
  Accounts,      \* the account of each user
  RecordIds,
  Definitions,   \* runtime keys "<workflow>__<object type>"
  Workflows,     \* contents of definitions
  Configs,       \* what a publish assigns: sequences of definitions and contents
  MaxVersions,   \* bound on the number of publishes
  MaxEvents,     \* bound on the number of transitions of an instance
  None           \* no row, no content, a request without a transition

Instances == Definitions \X RecordIds

\* The states an instance is not continued from when another one is open.
Closed == {"released", "done", "cancelled"}

ASSUME InputAssumption ==
  /\ Workflows \subseteq Workflow
  /\ Accounts \in [Users -> Account]
  /\ {"view", "edit"} \subseteq Actions
  /\ Configs \subseteq Seq([definition : Definitions, workflow : Workflows])
  /\ IsFiniteSet(Definitions)
  /\ MaxVersions \in Nat
  /\ MaxEvents \in Nat

\* A key names one transition of a definition (unique_workflow_transition_key),
\* and one task of a transition.
ASSUME KeysAssumption ==
  \A w \in Workflows :
    /\ \A t, u \in w.transitions : t.key = u.key => t = u
    /\ \A t \in w.transitions : \A x, y \in t.templates : x.key = y.key => x = y

VARIABLES
  version,       \* the number of the active configuration
  definitions,   \* the WorkflowDefinition rows, with their transitions
  filled,        \* the fields of each record that have a value
  attached,      \* the document types attached to each record
  instances,     \* the WorkflowInstance rows, with their events
  updates,       \* the instances of each record, in the order of their updates
  tasks,         \* the WorkflowTask rows
  held,          \* the rows each request has locked
  pc,            \* where each request stands
  req            \* the local variables of each request

environment == <<version, definitions, filled, attached>>
workflow == <<instances, updates, tasks>>
vars == <<environment, workflow, held, pc, req>>

-----------------------------------------------------------------------------
(* Rows.                                                                   *)

DefinitionRow == [active : BOOLEAN, version : Nat, id : Nat,
                  workflow : Workflows \cup {None}]

Transitions == UNION {w.transitions : w \in Workflows}

\* An event remembers the transition as it was when it was performed.
Event == [transition : Transitions, user : Users]

Instance == [state : States, events : Seq(Event)]

ASSUME NamesAssumption ==
  None \notin Workflows \cup Instance \cup TransitionKeys \cup Definitions

\* A task is found again by the event that created it; completions counts its
\* task_completed events.
Task == [instance : Instances, event : Nat \ {0}, key : TaskKeys, role : Roles,
         required : BOOLEAN, done : BOOLEAN, completions : Nat]

TaskId(x) == <<"task", x.instance, x.event, x.key>>

TasksOf(i) == {x \in tasks : x.instance = i}

Lockable == ({"definition"} \X Definitions) \cup ({"record"} \X RecordIds)
  \cup ({"instance"} \X Instances) \cup ({"task"} \X Instances \X (Nat \ {0}) \X TaskKeys)

\* The local variables of a request; wait are the rows it has still to lock,
\* state is the state it has read, transition and task what it has checked.
Local == [user : Users \cup {None}, record : RecordIds \cup {None},
          definition : Definitions \cup {None}, key : TransitionKeys \cup {None},
          state : States \cup {None}, transition : Transitions \cup {None},
          task : ({"task"} \X Instances \X (Nat \ {0}) \X TaskKeys) \cup {None},
          wait : Seq(Lockable)]

Idle == [user |-> None, record |-> None, definition |-> None, key |-> None,
         state |-> None, transition |-> None, task |-> None, wait |-> <<>>]

Free(row) == \A r \in Requests : row \notin held[r]

Target(r) == <<req[r].definition, req[r].record>>

Exists(d) == definitions[d].workflow # None

-----------------------------------------------------------------------------
Init ==
  /\ version = 0
  /\ definitions = [d \in Definitions |->
                      [active |-> FALSE, version |-> 0, id |-> 0, workflow |-> None]]
  /\ filled = [i \in RecordIds |-> {}]
  /\ attached = [i \in RecordIds |-> {}]
  /\ instances = [i \in Instances |-> None]
  /\ updates = [i \in RecordIds |-> <<>>]
  /\ tasks = {}
  /\ held = [r \in Requests |-> {}]
  /\ pc = [r \in Requests |-> "idle"]
  /\ req = [r \in Requests |-> Idle]

Goto(r, label) == pc' = [pc EXCEPT ![r] = label]

\* The end of a request, and of the transaction it is in.
Done(r) ==
  /\ Goto(r, "idle")
  /\ req' = [req EXCEPT ![r] = Idle]
  /\ held' = [held EXCEPT ![r] = {}]

-----------------------------------------------------------------------------
(* Other parts of the system.                                              *)

\* _sync_runtime_workflows: assigned definitions are rewritten with their
\* transitions, the others deactivated.  A row keeps its primary key.
PublishWorkflows(config) ==
  LET position(d) == {n \in 1..Len(config) : config[n].definition = d}
      rows == Cardinality({d \in Definitions : Exists(d)})
  IN
  /\ version < MaxVersions
  /\ \A d \in Definitions : Free(<<"definition", d>>)
  /\ version' = version + 1
  /\ definitions' = [d \in Definitions |->
       IF position(d) = {} THEN [definitions[d] EXCEPT !.active = FALSE]
       ELSE LET n == CHOOSE n \in position(d) : TRUE IN
            [active |-> TRUE, version |-> version + 1,
             id |-> IF Exists(d) THEN definitions[d].id ELSE rows + n,
             workflow |-> config[n].workflow]]
  /\ UNCHANGED <<filled, attached, workflow, held, pc, req>>

\* A creation, update or project update writes the data of a record.
SaveRecord(i, fields) ==
  /\ Free(<<"record", i>>)
  /\ filled' = [filled EXCEPT ![i] = fields]
  /\ UNCHANGED <<version, definitions, attached, workflow, held, pc, req>>

\* A document is inserted, which takes a share lock of its owner.
AttachDocument(i, type) ==
  /\ Free(<<"record", i>>)
  /\ attached' = [attached EXCEPT ![i] = @ \cup {type}]
  /\ UNCHANGED <<version, definitions, filled, workflow, held, pc, req>>

-----------------------------------------------------------------------------
(* The instance of a record.                                               *)

\* get_or_create_instance_for_record finds the open instance updated last, or
\* else the one updated last: the instance of the n-th update.
Existing(i, n) ==
  LET open == {m \in DOMAIN updates[i] : instances[<<updates[i][m], i>>].state \notin Closed}
  IN IF open # {} THEN n \in open /\ \A m \in open : m <= n ELSE n = Len(updates[i])

\* GET .../workflow/ (without a key) and POST .../workflow/<key>/.
FindInstance(r, user, i, key) ==
  LET start == [Idle EXCEPT !.user = user, !.record = i, !.key = key] IN
  /\ pc[r] = "idle"
  /\ Can(Accounts[user], "view")
  /\ \/ /\ updates[i] = <<>>
        /\ Goto(r, "finding")
        /\ req' = [req EXCEPT ![r] = start]
     \/ \E n \in DOMAIN updates[i] :
          /\ Existing(i, n)
          /\ Goto(r, "found")
          /\ req' = [req EXCEPT ![r] =
               [start EXCEPT !.definition = updates[i][n],
                             !.state = instances[<<updates[i][n], i>>].state]]
  /\ UNCHANGED <<environment, workflow, held>>

\* Active definitions, by falling version and rising primary key.
Preferred(d) ==
  /\ definitions[d].active
  /\ \A e \in Definitions \ {d} :
       definitions[e].active =>
         \/ definitions[e].version < definitions[d].version
         \/ /\ definitions[e].version = definitions[d].version
            /\ definitions[d].id < definitions[e].id

FindDefinition(r) ==
  /\ pc[r] = "finding"
  /\ \/ \E d \in Definitions :
          /\ Preferred(d)
          /\ Goto(r, "creating")
          /\ req' = [req EXCEPT ![r].definition = d,
                                ![r].state = definitions[d].workflow.initial]
          /\ UNCHANGED held
     \/ /\ \A d \in Definitions : ~definitions[d].active
        /\ Done(r)
  /\ UNCHANGED <<environment, workflow>>

NewInstance(state) == [state |-> state, events |-> <<>>]

\* get_or_create: the insert waits for the rows it refers to, and starts in the
\* initial state that was read.
CreateInstance(r) ==
  LET i == Target(r) IN
  /\ pc[r] = "creating"
  /\ Goto(r, "found")
  /\ \/ /\ instances[i] = None
        /\ Free(<<"definition", i[1]>>) /\ Free(<<"record", i[2]>>)
        /\ instances' = [instances EXCEPT ![i] = NewInstance(req[r].state)]
        /\ updates' = [updates EXCEPT ![i[2]] = Append(@, i[1])]
        /\ UNCHANGED req
     \/ /\ instances[i] # None
        /\ req' = [req EXCEPT ![r].state = instances[i].state]
        /\ UNCHANGED <<instances, updates>>
  /\ UNCHANGED <<environment, tasks, held>>

\* The answer to the GET.
Respond(r) ==
  /\ pc[r] = "found"
  /\ req[r].key = None
  /\ Done(r)
  /\ UNCHANGED <<environment, workflow>>

-----------------------------------------------------------------------------
(* Transitions.                                                            *)

\* Mutation of TransitionRows: select_for_update(of=("self",)).
TransitionRow(i) == <<<<"instance", i>>>>

\* What perform_transition locks, in this order.
TransitionRows(i) == <<<<"instance", i>>, <<"definition", i[1]>>, <<"record", i[2]>>>>

\* The view reads the transition and checks the permission before the engine
\* locks anything.
CheckPermission(r) ==
  LET i == Target(r)
      available == Available(definitions[i[1]].workflow, req[r].key, req[r].state)
  IN
  /\ pc[r] = "found"
  /\ req[r].key # None
  /\ \/ /\ \E t \in available : Can(Accounts[req[r].user], t.entry)
        /\ Goto(r, "locking")
        /\ req' = [req EXCEPT ![r].wait = TransitionRows(i)]
        /\ UNCHANGED held
     \/ /\ ~\E t \in available : Can(Accounts[req[r].user], t.entry)
        /\ Done(r)
  /\ UNCHANGED <<environment, workflow>>

\* Mutation of Lock: the rows are read without FOR UPDATE.
ReadRow(r) ==
  /\ req[r].wait # <<>>
  /\ req' = [req EXCEPT ![r].wait = Tail(@)]
  /\ UNCHANGED <<environment, workflow, held, pc>>

\* select_for_update: the rows of the query are locked one after the other.
Lock(r) ==
  /\ req[r].wait # <<>>
  /\ Free(Head(req[r].wait))
  /\ held' = [held EXCEPT ![r] = @ \cup {Head(req[r].wait)}]
  /\ req' = [req EXCEPT ![r].wait = Tail(@)]
  /\ UNCHANGED <<environment, workflow, pc>>

\* perform_transition reads the transition again and validates its guards.
Performable(r, t) ==
  LET i == Target(r) IN
  /\ t \in Available(definitions[i[1]].workflow, req[r].key, instances[i].state)
  /\ GuardsHold(t, Accounts[req[r].user], filled[i[2]], attached[i[2]], TasksOf(i))
  /\ Len(instances[i].events) < MaxEvents

ValidateGuards(r) ==
  /\ pc[r] = "locking" /\ req[r].wait = <<>>
  /\ \/ \E t \in Transitions :
          /\ Performable(r, t)
          /\ Goto(r, "performing")
          /\ req' = [req EXCEPT ![r].transition = t]
          /\ UNCHANGED held
     \/ /\ \A t \in Transitions : ~Performable(r, t)
        /\ Done(r)
  /\ UNCHANGED <<environment, workflow>>

\* create_tasks_for_transition.
NewTasks(i, t) ==
  {[instance |-> i, event |-> Len(instances[i].events) + 1, key |-> x.key, role |-> x.role,
    required |-> x.required, done |-> FALSE, completions |-> 0] : x \in t.templates}

\* The state, the tasks and the event are written, and the transaction commits.
PerformTransition(r) ==
  LET i == Target(r)
      t == req[r].transition
  IN
  /\ pc[r] = "performing"
  /\ instances' = [instances EXCEPT ![i] =
       [state |-> t.to,
        events |-> Append(@.events, [transition |-> t, user |-> req[r].user])]]
  /\ updates' = [updates EXCEPT ![i[2]] = Append(@, i[1])]
  /\ tasks' = tasks \cup NewTasks(i, t)
  /\ Done(r)
  /\ UNCHANGED environment

-----------------------------------------------------------------------------
(* Tasks.                                                                  *)

\* Mutation of TaskRows: the record is locked first.
TaskRowsRecordFirst(x) ==
  <<<<"record", x.instance[2]>>, <<"instance", x.instance>>, TaskId(x)>>

\* What the completion of a task locks, in this order.
TaskRows(x) == <<TaskId(x), <<"instance", x.instance>>, <<"record", x.instance[2]>>>>

\* POST workflow-tasks/<id>/complete/.
CompleteTask(r, user, x) ==
  /\ pc[r] = "idle"
  /\ Goto(r, "claiming")
  /\ req' = [req EXCEPT ![r] =
       [Idle EXCEPT !.user = user, !.record = x.instance[2], !.definition = x.instance[1],
                    !.task = TaskId(x), !.wait = TaskRows(x)]]
  /\ UNCHANGED <<environment, workflow, held>>

Claimed(r) == CHOOSE x \in tasks : TaskId(x) = req[r].task

\* The rights, and mark_done's look at the state: a task that is done stays as
\* it is, and the request succeeds.
CheckTask(r) ==
  LET completable == MayComplete(Accounts[req[r].user], Claimed(r)) /\ ~Claimed(r).done IN
  /\ pc[r] = "claiming" /\ req[r].wait = <<>>
  /\ \/ completable /\ Goto(r, "completing") /\ UNCHANGED <<held, req>>
     \/ ~completable /\ Done(r)
  /\ UNCHANGED <<environment, workflow>>

MarkDone(r) ==
  /\ pc[r] = "completing"
  /\ tasks' = (tasks \ {Claimed(r)}) \cup
       {[Claimed(r) EXCEPT !.done = TRUE, !.completions = @ + 1]}
  /\ Done(r)
  /\ UNCHANGED <<environment, instances, updates>>

\* The process dies or the connection is lost.
Rollback(r) ==
  /\ pc[r] # "idle"
  /\ Done(r)
  /\ UNCHANGED <<environment, workflow>>

-----------------------------------------------------------------------------
Next ==
  \/ \E config \in Configs : PublishWorkflows(config)
  \/ \E i \in RecordIds, fields \in SUBSET FieldKeys : SaveRecord(i, fields)
  \/ \E i \in RecordIds, type \in DocumentTypes : AttachDocument(i, type)
  \/ \E r \in Requests :
    \/ \E user \in Users, i \in RecordIds, key \in TransitionKeys \cup {None} :
         FindInstance(r, user, i, key)
    \/ FindDefinition(r)
    \/ CreateInstance(r)
    \/ Respond(r)
    \/ CheckPermission(r)
    \/ Lock(r)
    \/ ValidateGuards(r)
    \/ PerformTransition(r)
    \/ \E user \in Users, x \in tasks : CompleteTask(r, user, x)
    \/ CheckTask(r)
    \/ MarkDone(r)
    \/ Rollback(r)

Spec == Init /\ [][Next]_vars

-----------------------------------------------------------------------------
(* Properties.                                                             *)

TypeOK ==
  /\ version \in 0..MaxVersions
  /\ definitions \in [Definitions -> DefinitionRow]
  /\ filled \in [RecordIds -> SUBSET FieldKeys]
  /\ attached \in [RecordIds -> SUBSET DocumentTypes]
  /\ instances \in [Instances -> Instance \cup {None}]
  /\ updates \in [RecordIds -> Seq(Definitions)]
  /\ tasks \in SUBSET Task
  /\ held \in [Requests -> SUBSET Lockable]
  /\ pc \in [Requests -> {"idle", "finding", "creating", "found", "locking", "performing",
                          "claiming", "completing"}]
  /\ req \in [Requests -> Local]

Started == {i \in Instances : instances[i] # None}

\* The transitions of an instance lead from one to the next and into its state,
\* whoever performs them at the same time (perform_transition, engine.py 55-79).
HistoryIsPath ==
  \A i \in Started :
    LET events == instances[i].events IN
    /\ \A n \in 1..(Len(events) - 1) : events[n].transition.to = events[n + 1].transition.from
    /\ events # <<>> => events[Len(events)].transition.to = instances[i].state

\* No transition overtook the reviews it asks for: the tasks that its guard
\* names were created before it and are done, those of an earlier round
\* included (_validate_required_tasks, engine.py 178-192).
ReviewedBeforeMoving ==
  \A i \in Started : \A n \in 1..Len(instances[i].events) :
    RequiredTasksDone(instances[i].events[n].transition, {x \in TasksOf(i) : x.event < n})

\* Each transition left exactly the tasks of its templates, and a task is
\* completed once, however often the request is repeated (mark_done,
\* models.py 180-224; create_tasks_for_transition, tasks.py 28-46).
TasksOfEvents ==
  /\ \A i \in Started : \A n \in 1..Len(instances[i].events) :
       {[key |-> x.key, role |-> x.role, required |-> x.required] :
          x \in {y \in TasksOf(i) : y.event = n}} = instances[i].events[n].transition.templates
  /\ \A x \in tasks : x.completions = IF x.done THEN 1 ELSE 0

\* What an instance went through can be told from its events and its tasks.
HistoryIsComplete == TypeOK /\ HistoryIsPath /\ TasksOfEvents

\* The process a user sees.
Process == INSTANCE WorkflowProcess WITH
  rules <- [d \in Definitions |-> definitions[d].workflow]

\* Every transition takes effect at one moment, at which the definition in
\* force, the record, its documents and the tasks allow it; so the locks of
\* perform_transition cover all it reads (engine.py 55-79).
TransitionsAreAtomic == Process!Spec

\* r waits for a row that q has locked.
WaitsFor(r, q) == req[r].wait # <<>> /\ Head(req[r].wait) \in held[q]

\* However many requests wait, one of them does not wait for another: the
\* completion of a task locks the rows it shares with a transition in the same
\* order (engine.py 56-60, views.py 80-83).
NoCircularWait ==
  \A waiting \in (SUBSET Requests) \ {{}} :
    \E r \in waiting : \A q \in waiting : ~WaitsFor(r, q)

=============================================================================
