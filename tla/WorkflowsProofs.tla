--------------------------- MODULE WorkflowsProofs ---------------------------
(***************************************************************************)
(* For any number of requests, records, definitions and tasks: requests    *)
(* never wait for each other in a circle, the history of an instance is a  *)
(* path whose reviews were done, and Workflows implements WorkflowProcess. *)
(***************************************************************************)
EXTENDS Workflows, SequenceTheorems, FiniteSetTheorems, TLAPS

\* The place of a row in the order in which all requests lock.
Rank(row) ==
  IF row[1] = "task" THEN 0
  ELSE IF row[1] = "instance" THEN 1
  ELSE IF row[1] = "definition" THEN 2
  ELSE 3

InTransition(r) == pc[r] \in {"locking", "performing"}

InCompletion(r) == pc[r] \in {"claiming", "completing"}

\* The rows a request has locked or waits for.
Rows(r) == held[r] \cup {req[r].wait[n] : n \in DOMAIN req[r].wait}

\* A request locks upwards, and has locked what it needs once it stops waiting.
LocksOK(r) ==
  /\ ~InTransition(r) /\ ~InCompletion(r) => held[r] = {}
  /\ pc[r] \notin {"locking", "claiming"} => req[r].wait = <<>>
  /\ InTransition(r) =>
       {<<"instance", Target(r)>>, <<"definition", req[r].definition>>,
        <<"record", req[r].record>>} \subseteq Rows(r)
  /\ InCompletion(r) =>
       {req[r].task, <<"instance", Target(r)>>, <<"record", req[r].record>>} \subseteq Rows(r)
  /\ \A row \in held[r] : \A n \in DOMAIN req[r].wait : Rank(row) < Rank(req[r].wait[n])
  /\ \A m, n \in DOMAIN req[r].wait : m < n => Rank(req[r].wait[m]) < Rank(req[r].wait[n])

Exclusive == \A r, q \in Requests : r # q => held[r] \cap held[q] = {}

\* What a request knows between its steps.
RequestOK(r) ==
  /\ pc[r] # "idle" => req[r].user \in Users /\ req[r].record \in RecordIds
  /\ pc[r] \notin {"idle", "finding"} => req[r].definition \in Definitions
  /\ pc[r] \in {"creating", "found"} => req[r].state \in States
  /\ pc[r] = "creating" => /\ Exists(req[r].definition)
                            /\ \E w \in Workflows : req[r].state = w.initial
  /\ pc[r] = "found" \/ InTransition(r) => instances[Target(r)] # None
  /\ pc[r] = "performing" => req[r].transition \in Transitions /\ Performable(r, req[r].transition)
  /\ InCompletion(r) => \E x \in tasks : TaskId(x) = req[r].task /\ x.instance = Target(r)
  /\ pc[r] = "completing" =>
       MayComplete(Accounts[req[r].user], Claimed(r)) /\ ~Claimed(r).done

\* An active definition exists, and so does the one of an instance; only
\* instances are updated.
InstancesOK ==
  /\ \A d \in Definitions : definitions[d].active => Exists(d)
  /\ \A i \in Started : Exists(i[1])
  /\ \A i \in RecordIds : \A n \in DOMAIN updates[i] : <<updates[i][n], i>> \in Started

\* A task belongs to a past event and is found again by it.
TasksOK ==
  /\ \A x \in tasks : x.instance \in Started /\ x.event \in 1..Len(instances[x.instance].events)
  /\ \A x, y \in tasks : TaskId(x) = TaskId(y) => x = y

HistoryOK == HistoryIsPath /\ ReviewedBeforeMoving /\ TasksOfEvents

IInv ==
  /\ TypeOK
  /\ InstancesOK
  /\ TasksOK
  /\ HistoryOK
  /\ Exclusive
  /\ \A r \in Requests : RequestOK(r) /\ LocksOK(r)

-----------------------------------------------------------------------------
(* Operators.                                                              *)

\* A content's initial state is a state and its transitions are transitions.
LEMMA ContentTyped ==
  ASSUME NEW w \in Workflows
  PROVE  w.initial \in States /\ w.transitions \subseteq Transitions
BY InputAssumption DEF Workflow, Transitions

\* A transition of a content is a transition record.
LEMMA TransitionTyped == Transitions \subseteq Transition
BY InputAssumption DEF Workflow, Transitions

\* The locals of a request that rests are locals.
LEMMA IdleLocal == Idle \in Local
BY DEF Idle, Local

\* Locals are rewritten field by field.
LEMMA LocalUpdates ==
  ASSUME NEW l \in Local
  PROVE  /\ \A s \in States : [l EXCEPT !.state = s] \in Local
         /\ \A d \in Definitions, s \in States :
              [l EXCEPT !.definition = d, !.state = s] \in Local
         /\ \A w \in Seq(Lockable) : [l EXCEPT !.wait = w] \in Local
         /\ \A t \in Transitions : [l EXCEPT !.transition = t] \in Local
<1>1. ASSUME NEW s \in States PROVE [l EXCEPT !.state = s] \in Local
  BY DEF Local
<1>2. ASSUME NEW d \in Definitions, NEW s \in States
      PROVE  [l EXCEPT !.definition = d, !.state = s] \in Local
  BY DEF Local
<1>3. ASSUME NEW w \in Seq(Lockable) PROVE [l EXCEPT !.wait = w] \in Local
  BY DEF Local
<1>4. ASSUME NEW t \in Transitions PROVE [l EXCEPT !.transition = t] \in Local
  BY DEF Local
<1> QED
  BY <1>1, <1>2, <1>3, <1>4

\* Both lists of rows to lock are sequences of rows of rising rank.
LEMMA RowsTyped ==
  ASSUME NEW i \in Instances
  PROVE  /\ TransitionRows(i) \in Seq(Lockable)
         /\ \A m, n \in DOMAIN TransitionRows(i) :
              m < n => Rank(TransitionRows(i)[m]) < Rank(TransitionRows(i)[n])
         /\ \A x \in Task :
              /\ TaskRows(x) \in Seq(Lockable)
              /\ \A m, n \in DOMAIN TaskRows(x) :
                   m < n => Rank(TaskRows(x)[m]) < Rank(TaskRows(x)[n])
<1>1. <<"instance", i>> \in Lockable /\ <<"definition", i[1]>> \in Lockable
        /\ <<"record", i[2]>> \in Lockable
  BY DEF Lockable, Instances
<1>2. TransitionRows(i) \in Seq(Lockable)
  BY <1>1 DEF TransitionRows
<1>3. ASSUME NEW m \in DOMAIN TransitionRows(i), NEW n \in DOMAIN TransitionRows(i), m < n
      PROVE  Rank(TransitionRows(i)[m]) < Rank(TransitionRows(i)[n])
  BY <1>3 DEF TransitionRows, Rank
<1>4. ASSUME NEW x \in Task
      PROVE  /\ TaskRows(x) \in Seq(Lockable)
             /\ \A m, n \in DOMAIN TaskRows(x) :
                  m < n => Rank(TaskRows(x)[m]) < Rank(TaskRows(x)[n])
  <2>1. TaskId(x) \in Lockable /\ <<"instance", x.instance>> \in Lockable
          /\ <<"record", x.instance[2]>> \in Lockable
    BY DEF Lockable, Instances, Task, TaskId
  <2>2. TaskRows(x) \in Seq(Lockable)
    BY <2>1 DEF TaskRows
  <2>3. ASSUME NEW m \in DOMAIN TaskRows(x), NEW n \in DOMAIN TaskRows(x), m < n
        PROVE  Rank(TaskRows(x)[m]) < Rank(TaskRows(x)[n])
    BY <2>3 DEF TaskRows, Rank, TaskId
  <2> QED
    BY <2>2, <2>3
<1> QED
  BY <1>2, <1>3, <1>4

-----------------------------------------------------------------------------
(* A step that changes nothing but the place, locals and rows of a request. *)

\* Only one request moved, and it knows what the invariant asks of it.
LEMMA QuietStep ==
  ASSUME IInv, NEW r \in Requests,
         UNCHANGED <<environment, workflow>>,
         \A s \in Requests \ {r} : pc'[s] = pc[s] /\ req'[s] = req[s] /\ held'[s] = held[s],
         TypeOK', RequestOK(r)', LocksOK(r)',
         \A s \in Requests \ {r} : held'[r] \cap held[s] = {}
  PROVE  IInv'
<1>0. /\ definitions' = definitions /\ filled' = filled /\ attached' = attached
      /\ instances' = instances /\ updates' = updates /\ tasks' = tasks
  BY DEF environment, workflow
<1>1. InstancesOK' /\ TasksOK' /\ HistoryOK'
  <2>1. Started' = Started /\ \A i \in Instances : TasksOf(i)' = TasksOf(i)
    BY <1>0 DEF Started, TasksOf
  <2>2. InstancesOK' /\ TasksOK'
    BY <1>0, <2>1 DEF IInv, InstancesOK, TasksOK, Exists
  <2>3. HistoryIsPath'
    BY <1>0, <2>1 DEF IInv, HistoryOK, HistoryIsPath
  <2>4. ReviewedBeforeMoving'
    BY <1>0, <2>1 DEF IInv, HistoryOK, ReviewedBeforeMoving, Started
  <2>5. TasksOfEvents'
    BY <1>0, <2>1 DEF IInv, HistoryOK, TasksOfEvents, Started
  <2> QED
    BY <2>2, <2>3, <2>4, <2>5 DEF HistoryOK
<1>2. Exclusive'
  BY DEF IInv, Exclusive
<1>3. ASSUME NEW s \in Requests \ {r}
      PROVE  RequestOK(s)' /\ LocksOK(s)'
  <2>1. RequestOK(s) /\ LocksOK(s)
    BY DEF IInv
  <2>2. RequestOK(s)'
    <3>1. /\ pc'[s] = pc[s] /\ req'[s] = req[s]
          /\ \A d : Exists(d)' = Exists(d)
          /\ Target(s)' = Target(s)
          /\ InTransition(s)' = InTransition(s) /\ InCompletion(s)' = InCompletion(s)
      BY <1>0 DEF Exists, Target, InTransition, InCompletion
    <3>2. Claimed(s)' = Claimed(s)
      BY <1>0, <3>1 DEF Claimed
    <3>3. \A t : Performable(s, t)' = Performable(s, t)
      BY <1>0, <3>1 DEF Performable, TasksOf, Target
    <3> QED
      BY <1>0, <2>1, <3>1, <3>2, <3>3 DEF RequestOK
  <2>3. LocksOK(s)'
    <3>1. /\ InTransition(s)' = InTransition(s) /\ InCompletion(s)' = InCompletion(s)
          /\ Rows(s)' = Rows(s) /\ Target(s)' = Target(s)
      BY DEF InTransition, InCompletion, Rows, Target
    <3> QED
      BY <2>1, <3>1 DEF LocksOK
  <2> QED
    BY <2>2, <2>3
<1> QED
  BY <1>1, <1>2, <1>3 DEF IInv

\* A request that ends without a write.
LEMMA DoneStep ==
  ASSUME IInv, NEW r \in Requests, Done(r), UNCHANGED <<environment, workflow>>
  PROVE  IInv'
<1>1. TypeOK'
  BY IdleLocal DEF IInv, TypeOK, Done, Goto, environment, workflow
<1>2. pc'[r] = "idle" /\ req'[r] = Idle /\ held'[r] = {}
  BY DEF Done, Goto, IInv, TypeOK
<1>3. RequestOK(r)' /\ LocksOK(r)'
  BY <1>2 DEF RequestOK, LocksOK, Idle, InTransition, InCompletion
<1>4. \A s \in Requests \ {r} : pc'[s] = pc[s] /\ req'[s] = req[s] /\ held'[s] = held[s]
  BY DEF Done, Goto, IInv, TypeOK
<1> QED
  BY <1>1, <1>2, <1>3, <1>4, QuietStep

-----------------------------------------------------------------------------
(* The lookups.                                                            *)

\* A request that starts reads an instance of its record, if there is one.
LEMMA FindInstanceStep ==
  ASSUME IInv, NEW r \in Requests, NEW user \in Users, NEW i \in RecordIds,
         NEW key \in TransitionKeys \cup {None}, FindInstance(r, user, i, key)
  PROVE  IInv'
<1>0. TypeOK /\ InstancesOK /\ RequestOK(r) /\ LocksOK(r)
  BY DEF IInv
<1>1. held'[r] = {} /\ held' = held /\ UNCHANGED <<environment, workflow>>
  BY <1>0 DEF FindInstance, LocksOK, InTransition, InCompletion
<1>2. CASE pc' = [pc EXCEPT ![r] = "finding"] /\
           req' = [req EXCEPT ![r] = [Idle EXCEPT !.user = user, !.record = i, !.key = key]]
  <2>1. [Idle EXCEPT !.user = user, !.record = i, !.key = key] \in Local
    BY IdleLocal DEF Idle, Local
  <2>2. TypeOK'
    BY <1>0, <1>1, <1>2, <2>1 DEF TypeOK, environment, workflow
  <2>3. RequestOK(r)' /\ LocksOK(r)'
    BY <1>0, <1>1, <1>2 DEF RequestOK, LocksOK, TypeOK, Idle, InTransition, InCompletion
  <2>4. \A s \in Requests \ {r} : pc'[s] = pc[s] /\ req'[s] = req[s] /\ held'[s] = held[s]
    BY <1>0, <1>1, <1>2 DEF TypeOK
  <2> QED
    BY <1>1, <2>2, <2>3, <2>4, QuietStep
<1>3. ASSUME NEW n \in DOMAIN updates[i],
             pc' = [pc EXCEPT ![r] = "found"],
             req' = [req EXCEPT ![r] =
               [Idle EXCEPT !.user = user, !.record = i, !.key = key,
                            !.definition = updates[i][n],
                            !.state = instances[<<updates[i][n], i>>].state]]
      PROVE  IInv'
  <2>1. <<updates[i][n], i>> \in Started
    BY <1>0 DEF InstancesOK
  <2>2. /\ updates[i][n] \in Definitions
        /\ instances[<<updates[i][n], i>>].state \in States
        /\ instances[<<updates[i][n], i>>] # None
    BY <1>0, <2>1 DEF TypeOK, Started, Instances, Instance
  <2>3. [Idle EXCEPT !.user = user, !.record = i, !.key = key,
                     !.definition = updates[i][n],
                     !.state = instances[<<updates[i][n], i>>].state] \in Local
    BY <2>2, IdleLocal DEF Idle, Local
  <2>4. TypeOK'
    BY <1>0, <1>1, <1>3, <2>3 DEF TypeOK, environment, workflow
  <2>5. instances' = instances
    BY <1>1 DEF workflow
  <2>6. /\ pc'[r] = "found" /\ req'[r].wait = <<>>
        /\ req'[r].user = user /\ req'[r].record = i
        /\ req'[r].definition = updates[i][n]
        /\ req'[r].state = instances[<<updates[i][n], i>>].state
    BY <1>0, <1>3 DEF TypeOK, Idle
  <2>7. RequestOK(r)' /\ LocksOK(r)'
    BY <1>1, <2>2, <2>5, <2>6 DEF RequestOK, LocksOK, InTransition, InCompletion, Target
  <2>8. \A s \in Requests \ {r} : pc'[s] = pc[s] /\ req'[s] = req[s] /\ held'[s] = held[s]
    BY <1>0, <1>1, <1>3 DEF TypeOK
  <2> QED
    BY <1>1, <2>4, <2>7, <2>8, QuietStep
<1> QED
  BY <1>2, <1>3 DEF FindInstance, Goto

\* The definition read for a new instance exists, and so does its initial state.
LEMMA FindDefinitionStep ==
  ASSUME IInv, NEW r \in Requests, FindDefinition(r)
  PROVE  IInv'
<1>0. TypeOK /\ RequestOK(r) /\ LocksOK(r) /\ UNCHANGED <<environment, workflow>>
  BY DEF IInv, FindDefinition
<1>1. ASSUME NEW d \in Definitions, Preferred(d), pc[r] = "finding", held' = held,
             pc' = [pc EXCEPT ![r] = "creating"],
             req' = [req EXCEPT ![r].definition = d,
                                ![r].state = definitions[d].workflow.initial]
      PROVE  IInv'
  <2>1. Exists(d)
    BY <1>1 DEF IInv, InstancesOK, Preferred
  <2>2. definitions[d].workflow.initial \in States
    BY <1>0, <2>1, ContentTyped DEF TypeOK, DefinitionRow, Exists
  <2>3. [req[r] EXCEPT !.definition = d, !.state = definitions[d].workflow.initial] \in Local
    BY <1>0, <2>2, LocalUpdates DEF TypeOK
  <2>4. req' = [req EXCEPT ![r] =
                  [req[r] EXCEPT !.definition = d, !.state = definitions[d].workflow.initial]]
    BY <1>0, <1>1 DEF TypeOK
  <2>5. TypeOK'
    BY <1>0, <1>1, <2>3, <2>4 DEF TypeOK, environment, workflow
  <2>6. /\ pc'[r] = "creating" /\ req'[r].definition = d
        /\ req'[r].state = definitions[d].workflow.initial
        /\ req'[r].wait = req[r].wait /\ req'[r].user = req[r].user
        /\ req'[r].record = req[r].record
    BY <1>0, <1>1, <2>4 DEF TypeOK, Local
  <2>7. definitions' = definitions
    BY <1>0 DEF environment
  <2>8. definitions[d].workflow \in Workflows
    BY <1>0, <2>1 DEF TypeOK, DefinitionRow, Exists
  <2>11. RequestOK(r)' /\ LocksOK(r)'
    BY <1>0, <1>1, <2>1, <2>2, <2>6, <2>7, <2>8
       DEF RequestOK, LocksOK, InTransition, InCompletion, Exists
  <2>9. \A s \in Requests \ {r} : pc'[s] = pc[s] /\ req'[s] = req[s] /\ held'[s] = held[s]
    BY <1>0, <1>1 DEF TypeOK
  <2>10. held'[r] = {}
    BY <1>0, <1>1 DEF LocksOK, InTransition, InCompletion
  <2> QED
    BY <1>0, <2>5, <2>9, <2>10, <2>11, QuietStep
<1> QED
  BY <1>0, <1>1, DoneStep DEF FindDefinition, Goto

\* A request that finds its instance after all, or creates it, can go on with it.
LEMMA CreateInstanceStep ==
  ASSUME IInv, NEW r \in Requests, CreateInstance(r)
  PROVE  IInv'
<1> DEFINE i == Target(r)
<1>0. TypeOK /\ RequestOK(r) /\ LocksOK(r) /\ pc[r] = "creating"
  BY DEF IInv, CreateInstance
<1>1. /\ i \in Instances /\ i[1] = req[r].definition /\ i[2] = req[r].record
      /\ req[r].state \in States /\ Exists(req[r].definition) /\ req[r].user \in Users
      /\ req[r].record \in RecordIds /\ req[r].definition \in Definitions
      /\ held[r] = {} /\ req[r].wait = <<>>
  BY <1>0 DEF RequestOK, LocksOK, InTransition, InCompletion, Target, Instances
<1>2. /\ UNCHANGED <<environment, tasks, held>>
      /\ pc' = [pc EXCEPT ![r] = "found"]
  BY DEF CreateInstance, Goto
<1>3. CASE /\ instances[i] # None
           /\ req' = [req EXCEPT ![r].state = instances[i].state]
           /\ UNCHANGED <<instances, updates>>
  <2>1. instances[i].state \in States
    BY <1>0, <1>1, <1>3 DEF TypeOK, Instance
  <2>2. [req[r] EXCEPT !.state = instances[i].state] \in Local
    BY <1>0, <2>1, LocalUpdates DEF TypeOK
  <2>3. TypeOK'
    BY <1>0, <1>2, <1>3, <2>2 DEF TypeOK, environment
  <2>4. /\ pc'[r] = "found" /\ req'[r].state \in States
        /\ req'[r].wait = req[r].wait /\ req'[r].user = req[r].user
        /\ req'[r].record = req[r].record /\ req'[r].definition = req[r].definition
    BY <1>0, <1>2, <1>3, <2>1 DEF TypeOK, Local
  <2>5. RequestOK(r)' /\ LocksOK(r)'
    BY <1>1, <1>2, <1>3, <2>4 DEF RequestOK, LocksOK, InTransition, InCompletion, Target
  <2>6. \A s \in Requests \ {r} : pc'[s] = pc[s] /\ req'[s] = req[s] /\ held'[s] = held[s]
    BY <1>0, <1>2, <1>3 DEF TypeOK
  <2> QED
    BY <1>1, <1>2, <1>3, <2>3, <2>5, <2>6, QuietStep DEF workflow
<1>4. CASE /\ instances[i] = None
           /\ instances' = [instances EXCEPT ![i] = NewInstance(req[r].state)]
           /\ updates' = [updates EXCEPT ![i[2]] = Append(@, i[1])]
           /\ UNCHANGED req
  <2>1. NewInstance(req[r].state) \in Instance
    BY <1>1 DEF NewInstance, Instance
  <2>2. TypeOK'
    BY <1>0, <1>1, <1>2, <1>4, <2>1 DEF TypeOK, environment
  <2>3. /\ instances'[i] = NewInstance(req[r].state) /\ instances'[i] # None
        /\ \A j \in Instances \ {i} : instances'[j] = instances[j]
        /\ i \notin Started /\ Started' = Started \cup {i}
    BY <1>0, <1>1, <1>4, <2>1, NamesAssumption DEF TypeOK, Started
  <2>4. /\ definitions' = definitions /\ filled' = filled /\ attached' = attached
        /\ tasks' = tasks /\ held' = held /\ req' = req
    BY <1>2, <1>4 DEF environment
  <2>5. InstancesOK'
    <3>1. \A j \in Started' : Exists(j[1])'
      BY <1>1, <2>3, <2>4 DEF IInv, InstancesOK, Exists
    <3>2. ASSUME NEW j \in RecordIds, NEW n \in DOMAIN updates'[j]
          PROVE  <<updates'[j][n], j>> \in Started'
      <4>1. CASE j # i[2]
        BY <1>0, <1>1, <1>4, <2>3, <4>1, <3>2 DEF TypeOK, IInv, InstancesOK
      <4>2. CASE j = i[2]
        <5>1. updates[j] \in Seq(Definitions) /\ updates'[j] = Append(updates[j], i[1])
          BY <1>0, <1>1, <1>4, <4>2 DEF TypeOK
        <5>2. n = Len(updates[j]) + 1 \/ (n \in DOMAIN updates[j] /\ updates'[j][n] = updates[j][n])
          BY <5>1, <3>2
        <5>3. CASE n = Len(updates[j]) + 1
          BY <1>1, <2>3, <4>2, <5>1, <5>3 DEF Target
        <5>4. CASE n \in DOMAIN updates[j] /\ updates'[j][n] = updates[j][n]
          BY <2>3, <5>4 DEF IInv, InstancesOK
        <5> QED
          BY <5>2, <5>3, <5>4
      <4> QED
        BY <4>1, <4>2
    <3> QED
      BY <2>4, <3>1, <3>2 DEF IInv, InstancesOK, Exists
  <2>6. TasksOK'
    BY <2>3, <2>4 DEF IInv, TasksOK, Started
  <2>7. HistoryOK'
    <3>1. instances'[i].events = <<>>
      BY <2>3 DEF NewInstance
    <3>2. \A j \in Instances : TasksOf(j)' = TasksOf(j)
      BY <2>4 DEF TasksOf
    <3>3. HistoryIsPath'
      BY <2>3, <3>1 DEF IInv, HistoryOK, HistoryIsPath, Started
    <3>4. ReviewedBeforeMoving'
      <4> SUFFICES ASSUME NEW j \in Started', NEW n \in 1..Len(instances'[j].events)
                   PROVE  RequiredTasksDone(instances'[j].events[n].transition,
                                            {x \in TasksOf(j)' : x.event < n})
        BY DEF ReviewedBeforeMoving
      <4>1. j # i /\ j \in Started
        BY <2>3, <3>1
      <4>2. j \in Instances /\ instances'[j] = instances[j] /\ TasksOf(j)' = TasksOf(j)
        BY <2>3, <3>2, <4>1 DEF Started
      <4> QED
        BY <4>1, <4>2 DEF IInv, HistoryOK, ReviewedBeforeMoving
    <3>5. TasksOfEvents'
      BY <2>3, <2>4, <3>1, <3>2 DEF IInv, HistoryOK, TasksOfEvents, Started
    <3> QED
      BY <3>3, <3>4, <3>5 DEF HistoryOK
  <2>8. ASSUME NEW s \in Requests
        PROVE  RequestOK(s)' /\ LocksOK(s)'
    <3>0. RequestOK(s) /\ LocksOK(s)
      BY DEF IInv
    <3>1. Target(s)' = Target(s) /\ \A d : Exists(d)' = Exists(d)
      BY <2>4 DEF Target, Exists
    <3>2. CASE s = r
      BY <1>0, <1>1, <1>2, <2>3, <2>4, <3>1, <3>2
         DEF RequestOK, LocksOK, InTransition, InCompletion, TypeOK
    <3>3. CASE s # r
      <4>1. /\ pc'[s] = pc[s]
            /\ InTransition(s)' = InTransition(s) /\ InCompletion(s)' = InCompletion(s)
        BY <1>0, <1>2, <3>3 DEF TypeOK, InTransition, InCompletion
      <4>2. Claimed(s)' = Claimed(s)
        BY <2>4 DEF Claimed
      <4>3. pc[s] \notin {"idle", "finding"} => Target(s) \in Instances
        BY <3>0 DEF RequestOK, Target, Instances
      <4>4. ASSUME pc[s] = "performing"
            PROVE  Performable(s, req[s].transition)'
        <5>1. instances'[Target(s)] = instances[Target(s)]
          BY <3>0, <4>3, <4>4, <1>4, <2>3 DEF RequestOK, InTransition
        <5> QED
          BY <2>4, <3>0, <3>1, <4>4, <5>1 DEF RequestOK, Performable, TasksOf, Target
      <4>5. pc[s] = "found" \/ InTransition(s) => instances'[Target(s)] # None
        BY <3>0, <4>3, <2>3 DEF RequestOK, InTransition
      <4>6. RequestOK(s)'
        BY <2>4, <3>0, <3>1, <4>1, <4>2, <4>4, <4>5 DEF RequestOK
      <4>7. LocksOK(s)'
        BY <2>4, <3>0, <3>1, <4>1 DEF LocksOK, Rows
      <4> QED
        BY <4>6, <4>7
    <3> QED
      BY <3>2, <3>3
  <2> QED
    BY <2>2, <2>4, <2>5, <2>6, <2>7, <2>8 DEF IInv, Exclusive
<1> QED
  BY <1>3, <1>4 DEF CreateInstance

-----------------------------------------------------------------------------
(* Locks.                                                                  *)

\* A request that passes the first check waits for all rows of the transition.
LEMMA CheckPermissionStep ==
  ASSUME IInv, NEW r \in Requests, CheckPermission(r)
  PROVE  IInv'
<1>0. TypeOK /\ RequestOK(r) /\ LocksOK(r) /\ pc[r] = "found"
        /\ UNCHANGED <<environment, workflow>>
  BY DEF IInv, CheckPermission
<1> DEFINE i == Target(r)
<1>1. /\ i \in Instances /\ i = <<req[r].definition, req[r].record>>
      /\ req[r].user \in Users /\ req[r].record \in RecordIds /\ req[r].definition \in Definitions
      /\ held[r] = {} /\ instances[i] # None
  BY <1>0 DEF RequestOK, LocksOK, InTransition, InCompletion, Target, Instances
<1>2. CASE /\ pc' = [pc EXCEPT ![r] = "locking"]
           /\ req' = [req EXCEPT ![r].wait = TransitionRows(i)]
           /\ held' = held
  <2>1. TransitionRows(i) \in Seq(Lockable)
    BY <1>1, RowsTyped
  <2>2. [req[r] EXCEPT !.wait = TransitionRows(i)] \in Local
    BY <1>0, <2>1, LocalUpdates DEF TypeOK
  <2>3. TypeOK'
    BY <1>0, <1>2, <2>2 DEF TypeOK, environment, workflow
  <2>4. /\ pc'[r] = "locking" /\ req'[r].wait = TransitionRows(i)
        /\ req'[r].user = req[r].user /\ req'[r].record = req[r].record
        /\ req'[r].definition = req[r].definition
    BY <1>0, <1>2 DEF TypeOK, Local
  <2>5. instances' = instances
    BY <1>0 DEF workflow
  <2>6. RequestOK(r)'
    BY <1>1, <2>4, <2>5 DEF RequestOK, InTransition, InCompletion, Target
  <2>7. LocksOK(r)'
    <3>1. {<<"instance", i>>, <<"definition", i[1]>>, <<"record", i[2]>>}
            \subseteq {TransitionRows(i)[n] : n \in DOMAIN TransitionRows(i)}
      <4>1. /\ 1 \in DOMAIN TransitionRows(i) /\ TransitionRows(i)[1] = <<"instance", i>>
            /\ 2 \in DOMAIN TransitionRows(i) /\ TransitionRows(i)[2] = <<"definition", i[1]>>
            /\ 3 \in DOMAIN TransitionRows(i) /\ TransitionRows(i)[3] = <<"record", i[2]>>
        BY DEF TransitionRows
      <4> QED
        BY <4>1
    <3>2. Target(r)' = i /\ i[1] = req[r].definition /\ i[2] = req[r].record
      BY <1>1, <2>4 DEF Target
    <3>3. InTransition(r)' /\ ~InCompletion(r)'
      BY <2>4 DEF InTransition, InCompletion
    <3>4. /\ held'[r] = {}
          /\ \A m, n \in DOMAIN TransitionRows(i) :
               m < n => Rank(TransitionRows(i)[m]) < Rank(TransitionRows(i)[n])
      BY <1>1, <1>2, RowsTyped
    <3> QED
      BY <2>4, <3>1, <3>2, <3>3, <3>4 DEF LocksOK, Rows
  <2>8. \A s \in Requests \ {r} : pc'[s] = pc[s] /\ req'[s] = req[s] /\ held'[s] = held[s]
    BY <1>0, <1>2 DEF TypeOK
  <2> QED
    BY <1>0, <1>1, <1>2, <2>3, <2>6, <2>7, <2>8, QuietStep
<1> QED
  BY <1>0, <1>2, DoneStep DEF CheckPermission, Goto

\* A task that exists is claimed by waiting for its rows.
LEMMA CompleteTaskStep ==
  ASSUME IInv, NEW r \in Requests, NEW user \in Users, NEW x \in tasks,
         CompleteTask(r, user, x)
  PROVE  IInv'
<1>0. TypeOK /\ RequestOK(r) /\ LocksOK(r) /\ pc[r] = "idle" /\ x \in Task
        /\ UNCHANGED <<environment, workflow, held>>
  BY DEF IInv, CompleteTask, TypeOK
<1> DEFINE local == [Idle EXCEPT !.user = user, !.record = x.instance[2],
                                 !.definition = x.instance[1],
                                 !.task = TaskId(x), !.wait = TaskRows(x)]
<1>1. /\ pc' = [pc EXCEPT ![r] = "claiming"]
      /\ req' = [req EXCEPT ![r] = local]
      /\ held[r] = {}
  BY <1>0 DEF CompleteTask, Goto, LocksOK, InTransition, InCompletion
<1>2. /\ x.instance \in Instances /\ x.instance[1] \in Definitions
      /\ x.instance[2] \in RecordIds /\ x.instance = <<x.instance[1], x.instance[2]>>
  BY <1>0 DEF Task, Instances
<1>3. TaskRows(x) \in Seq(Lockable)
  BY <1>0, <1>2, RowsTyped
<1>4. TaskId(x) \in {"task"} \X Instances \X (Nat \ {0}) \X TaskKeys
  BY <1>0 DEF Task, TaskId
<1>5. local \in Local
  BY <1>2, <1>3, <1>4, IdleLocal DEF Idle, Local
<1>6. TypeOK'
  BY <1>0, <1>1, <1>5 DEF TypeOK, environment, workflow
<1>7. /\ pc'[r] = "claiming" /\ req'[r].wait = TaskRows(x) /\ req'[r].task = TaskId(x)
      /\ req'[r].user = user /\ req'[r].record = x.instance[2]
      /\ req'[r].definition = x.instance[1]
  BY <1>0, <1>1 DEF TypeOK, Idle
<1>8. Target(r)' = x.instance /\ ~InTransition(r)' /\ InCompletion(r)' /\ tasks' = tasks
  BY <1>0, <1>2, <1>7 DEF Target, InTransition, InCompletion, workflow
<1>9. RequestOK(r)'
  BY <1>2, <1>7, <1>8 DEF RequestOK, InTransition, InCompletion
<1>10. LocksOK(r)'
  <2>1. {TaskId(x), <<"instance", x.instance>>, <<"record", x.instance[2]>>}
          \subseteq {TaskRows(x)[n] : n \in DOMAIN TaskRows(x)}
    <3>1. /\ 1 \in DOMAIN TaskRows(x) /\ TaskRows(x)[1] = TaskId(x)
          /\ 2 \in DOMAIN TaskRows(x) /\ TaskRows(x)[2] = <<"instance", x.instance>>
          /\ 3 \in DOMAIN TaskRows(x) /\ TaskRows(x)[3] = <<"record", x.instance[2]>>
      BY DEF TaskRows
    <3> QED
      BY <3>1
  <2>2. /\ held'[r] = {}
        /\ \A m, n \in DOMAIN TaskRows(x) :
             m < n => Rank(TaskRows(x)[m]) < Rank(TaskRows(x)[n])
    BY <1>0, <1>1, <1>2, RowsTyped
  <2> QED
    BY <1>7, <1>8, <2>1, <2>2 DEF LocksOK, Rows
<1>11. \A s \in Requests \ {r} : pc'[s] = pc[s] /\ req'[s] = req[s] /\ held'[s] = held[s]
  BY <1>0, <1>1 DEF TypeOK
<1> QED
  BY <1>0, <1>1, <1>6, <1>9, <1>10, <1>11, QuietStep

\* A row moves from those waited for to those held, which nobody else holds.
LEMMA LockStep ==
  ASSUME IInv, NEW r \in Requests, Lock(r)
  PROVE  IInv'
<1> DEFINE w == req[r].wait
           row == Head(w)
<1>0. /\ TypeOK /\ RequestOK(r) /\ LocksOK(r) /\ w # <<>>
      /\ pc' = pc /\ UNCHANGED <<environment, workflow>>
  BY DEF IInv, Lock
<1>1. w \in Seq(Lockable) /\ row \in Lockable /\ Tail(w) \in Seq(Lockable)
  BY <1>0 DEF TypeOK, Local
<1>2. /\ held' = [held EXCEPT ![r] = held[r] \cup {row}]
      /\ req' = [req EXCEPT ![r] = [req[r] EXCEPT !.wait = Tail(w)]]
      /\ \A s \in Requests : row \notin held[s]
  BY <1>0 DEF Lock, Free, TypeOK
<1>3. [req[r] EXCEPT !.wait = Tail(w)] \in Local
  BY <1>0, <1>1, LocalUpdates DEF TypeOK
<1>4. TypeOK'
  BY <1>0, <1>1, <1>2, <1>3 DEF TypeOK, environment, workflow
<1>5. /\ req'[r].wait = Tail(w) /\ held'[r] = held[r] \cup {row}
      /\ req'[r].user = req[r].user /\ req'[r].record = req[r].record
      /\ req'[r].definition = req[r].definition /\ req'[r].task = req[r].task
      /\ pc'[r] = pc[r] /\ pc[r] \in {"locking", "claiming"}
  BY <1>0, <1>2 DEF TypeOK, Local, LocksOK
<1>6. instances' = instances /\ tasks' = tasks
  BY <1>0 DEF workflow
<1>7. RequestOK(r)'
  BY <1>0, <1>5, <1>6 DEF RequestOK, InTransition, InCompletion, Target
<1>8. LocksOK(r)'
  <2>1. /\ DOMAIN w = 1..Len(w) /\ Len(w) \in Nat /\ Len(w) >= 1 /\ row = w[1]
        /\ DOMAIN Tail(w) = 1..(Len(w) - 1)
        /\ \A n \in 1..(Len(w) - 1) : Tail(w)[n] = w[n + 1]
    BY <1>0, <1>1, HeadTailProperties
  <2>2. Rows(r)' = Rows(r)
    <3>1. ASSUME NEW z \in Rows(r) PROVE z \in Rows(r)'
      <4>1. CASE z \in held[r]
        BY <1>5, <4>1 DEF Rows
      <4>2. ASSUME NEW n \in DOMAIN w, z = w[n] PROVE z \in Rows(r)'
        <5>1. CASE n = 1
          BY <1>5, <2>1, <4>2, <5>1 DEF Rows
        <5>2. CASE n # 1
          <6>1. n - 1 \in DOMAIN Tail(w) /\ Tail(w)[n - 1] = z
            BY <2>1, <4>2, <5>2
          <6> QED
            BY <1>5, <6>1 DEF Rows
        <5> QED
          BY <5>1, <5>2
      <4> QED
        BY <4>1, <4>2 DEF Rows
    <3>2. ASSUME NEW z \in Rows(r)' PROVE z \in Rows(r)
      <4>1. 1 \in DOMAIN w /\ \A n \in DOMAIN Tail(w) : n + 1 \in DOMAIN w
        BY <2>1
      <4> QED
        BY <1>5, <2>1, <3>2, <4>1 DEF Rows
    <3> QED
      BY <3>1, <3>2
  <2>3. Target(r)' = Target(r) /\ InTransition(r)' = InTransition(r)
          /\ InCompletion(r)' = InCompletion(r)
    BY <1>5 DEF Target, InTransition, InCompletion
  <2>4. ASSUME NEW z \in held'[r], NEW n \in DOMAIN Tail(w)
        PROVE  Rank(z) < Rank(Tail(w)[n])
    <3>1. n + 1 \in DOMAIN w /\ 1 \in DOMAIN w /\ 1 < n + 1 /\ Tail(w)[n] = w[n + 1]
      BY <2>1
    <3> QED
      BY <1>0, <1>5, <2>1, <2>4, <3>1 DEF LocksOK
  <2>5. ASSUME NEW m \in DOMAIN Tail(w), NEW n \in DOMAIN Tail(w), m < n
        PROVE  Rank(Tail(w)[m]) < Rank(Tail(w)[n])
    <3>1. /\ m + 1 \in DOMAIN w /\ n + 1 \in DOMAIN w /\ m + 1 < n + 1
          /\ Tail(w)[m] = w[m + 1] /\ Tail(w)[n] = w[n + 1]
      BY <2>1, <2>5
    <3> QED
      BY <1>0, <3>1 DEF LocksOK
  <2>6. InTransition(r) \/ InCompletion(r)
    BY <1>5 DEF InTransition, InCompletion
  <2> QED
    BY <1>0, <1>5, <2>2, <2>3, <2>4, <2>5, <2>6 DEF LocksOK
<1>9. \A s \in Requests \ {r} :
        pc'[s] = pc[s] /\ req'[s] = req[s] /\ held'[s] = held[s] /\ held'[r] \cap held[s] = {}
  BY <1>0, <1>2, <1>5 DEF TypeOK, IInv, Exclusive
<1> QED
  BY <1>0, <1>4, <1>7, <1>8, <1>9, QuietStep

-----------------------------------------------------------------------------
(* What the locks exclude.                                                 *)

\* The task that a request has claimed is the one of its key.
LEMMA ClaimedTask ==
  ASSUME IInv, NEW r \in Requests, InCompletion(r)
  PROVE  Claimed(r) \in tasks /\ TaskId(Claimed(r)) = req[r].task
           /\ Claimed(r).instance = Target(r)
<1>1. PICK x \in tasks : TaskId(x) = req[r].task /\ x.instance = Target(r)
  BY DEF IInv, RequestOK
<1>2. \A y \in tasks : TaskId(y) = req[r].task => y = x
  BY <1>1 DEF IInv, TasksOK
<1> QED
  BY <1>1, <1>2 DEF Claimed

\* While a request writes, no other one that writes works on the same record.
LEMMA OtherRecord ==
  ASSUME IInv, NEW r \in Requests, NEW s \in Requests \ {r},
         pc[r] \in {"performing", "completing"}, pc[s] \in {"performing", "completing"}
  PROVE  Target(s) # Target(r)
<1>1. ASSUME NEW q \in Requests, pc[q] \in {"performing", "completing"}
      PROVE  <<"record", req[q].record>> \in held[q]
  <2>1. LocksOK(q)
    BY DEF IInv
  <2>2. req[q].wait = <<>>
    BY <1>1, <2>1 DEF LocksOK
  <2>3. <<"record", req[q].record>> \in Rows(q)
    BY <1>1, <2>1 DEF LocksOK, InTransition, InCompletion
  <2> QED
    BY <2>2, <2>3 DEF Rows
<1>2. held[r] \cap held[s] = {}
  BY DEF IInv, Exclusive
<1> QED
  BY <1>1, <1>2 DEF Target

\* Guards that were met stay met, for the rows they read are locked.
LEMMA ValidateGuardsStep ==
  ASSUME IInv, NEW r \in Requests, ValidateGuards(r)
  PROVE  IInv'
<1>0. TypeOK /\ RequestOK(r) /\ LocksOK(r) /\ pc[r] = "locking" /\ req[r].wait = <<>>
        /\ UNCHANGED <<environment, workflow>>
  BY DEF IInv, ValidateGuards
<1>1. ASSUME NEW t \in Transitions, Performable(r, t), held' = held,
             pc' = [pc EXCEPT ![r] = "performing"],
             req' = [req EXCEPT ![r].transition = t]
      PROVE  IInv'
  <2>1. [req[r] EXCEPT !.transition = t] \in Local
    BY <1>0, LocalUpdates DEF TypeOK
  <2>2. TypeOK'
    BY <1>0, <1>1, <2>1 DEF TypeOK, environment, workflow
  <2>3. /\ pc'[r] = "performing" /\ req'[r].transition = t /\ req'[r].wait = <<>>
        /\ req'[r].user = req[r].user /\ req'[r].record = req[r].record
        /\ req'[r].definition = req[r].definition /\ req'[r].key = req[r].key
    BY <1>0, <1>1 DEF TypeOK, Local
  <2>4. /\ definitions' = definitions /\ filled' = filled /\ attached' = attached
        /\ instances' = instances /\ tasks' = tasks
    BY <1>0 DEF environment, workflow
  <2>5. Target(r)' = Target(r)
    BY <2>3 DEF Target
  <2>6. Performable(r, t)'
    BY <1>1, <2>3, <2>4, <2>5 DEF Performable, TasksOf
  <2>7. RequestOK(r)'
    BY <1>0, <2>3, <2>4, <2>5, <2>6 DEF RequestOK, InTransition, InCompletion
  <2>8. LocksOK(r)'
    BY <1>0, <1>1, <2>3, <2>5 DEF LocksOK, InTransition, InCompletion, Rows
  <2>9. \A q \in Requests \ {r} : pc'[q] = pc[q] /\ req'[q] = req[q] /\ held'[q] = held[q]
    BY <1>0, <1>1 DEF TypeOK
  <2> QED
    BY <1>0, <1>1, <2>2, <2>7, <2>8, <2>9, QuietStep DEF IInv, Exclusive
<1> QED
  BY <1>0, <1>1, DoneStep DEF ValidateGuards, Goto

\* A task that may be completed stays so, for it is locked.
LEMMA CheckTaskStep ==
  ASSUME IInv, NEW r \in Requests, CheckTask(r)
  PROVE  IInv'
<1>0. TypeOK /\ RequestOK(r) /\ LocksOK(r) /\ pc[r] = "claiming" /\ req[r].wait = <<>>
        /\ UNCHANGED <<environment, workflow>>
  BY DEF IInv, CheckTask
<1>1. CASE /\ MayComplete(Accounts[req[r].user], Claimed(r)) /\ ~Claimed(r).done
           /\ pc' = [pc EXCEPT ![r] = "completing"] /\ UNCHANGED <<held, req>>
  <2>1. TypeOK'
    BY <1>0, <1>1 DEF TypeOK, environment, workflow
  <2>2. pc'[r] = "completing" /\ tasks' = tasks
    BY <1>0, <1>1 DEF TypeOK, workflow
  <2>3. Target(r)' = Target(r) /\ Claimed(r)' = Claimed(r)
    BY <1>1, <2>2 DEF Target, Claimed
  <2>4. RequestOK(r)'
    BY <1>0, <1>1, <2>2, <2>3 DEF RequestOK, InTransition, InCompletion
  <2>5. LocksOK(r)'
    BY <1>0, <1>1, <2>2, <2>3 DEF LocksOK, InTransition, InCompletion, Rows
  <2>6. \A q \in Requests \ {r} : pc'[q] = pc[q] /\ req'[q] = req[q] /\ held'[q] = held[q]
    BY <1>0, <1>1 DEF TypeOK
  <2> QED
    BY <1>0, <1>1, <2>1, <2>4, <2>5, <2>6, QuietStep DEF IInv, Exclusive
<1> QED
  BY <1>0, <1>1, DoneStep DEF CheckTask, Goto

-----------------------------------------------------------------------------
(* The writes.                                                             *)

\* The tasks of a transition are tasks, with keys of their own.
LEMMA NewTasksTyped ==
  ASSUME TypeOK, NEW i \in Started, NEW t \in Transitions
  PROVE  /\ NewTasks(i, t) \subseteq Task
         /\ \A x \in NewTasks(i, t) :
              x.instance = i /\ x.event = Len(instances[i].events) + 1
                /\ ~x.done /\ x.completions = 0
         /\ \A x, y \in NewTasks(i, t) : TaskId(x) = TaskId(y) => x = y
         /\ {[key |-> x.key, role |-> x.role, required |-> x.required] :
               x \in NewTasks(i, t)} = t.templates
<1>1. Len(instances[i].events) \in Nat /\ i \in Instances
  BY DEF TypeOK, Started, Instance
<1>2. t.templates \subseteq Template /\ t \in Transition
  BY TransitionTyped DEF Transition
<1>3. PICK w \in Workflows : t \in w.transitions
  BY DEF Transitions
<1>4. \A a, b \in t.templates : a.key = b.key => a = b
  BY <1>3, KeysAssumption
<1> DEFINE n == Len(instances[i].events) + 1
           New(a) == [instance |-> i, event |-> n, key |-> a.key, role |-> a.role,
                      required |-> a.required, done |-> FALSE, completions |-> 0]
<1>a. NewTasks(i, t) = {New(a) : a \in t.templates}
  BY DEF NewTasks
<1>b. n \in Nat \ {0}
  BY <1>1
<1>5. NewTasks(i, t) \subseteq Task
  <2>1. ASSUME NEW a \in t.templates PROVE New(a) \in Task
    <3>1. a.key \in TaskKeys /\ a.role \in Roles /\ a.required \in BOOLEAN
      BY <1>2 DEF Template
    <3> HIDE DEF n
    <3> QED
      BY <1>1, <1>b, <3>1 DEF Task
  <2> QED
    BY <1>a, <2>1
<1>6. \A x \in NewTasks(i, t) :
        x.instance = i /\ x.event = Len(instances[i].events) + 1
          /\ ~x.done /\ x.completions = 0
  BY DEF NewTasks
<1>7. ASSUME NEW x \in NewTasks(i, t), NEW y \in NewTasks(i, t), TaskId(x) = TaskId(y)
      PROVE  x = y
  <2>1. PICK a \in t.templates : x = New(a)
    BY <1>a
  <2>2. PICK b \in t.templates : y = New(b)
    BY <1>a
  <2>3. a.key = b.key
    BY <1>7, <2>1, <2>2 DEF TaskId
  <2> QED
    BY <1>4, <2>1, <2>2, <2>3
<1>8. {[key |-> x.key, role |-> x.role, required |-> x.required] :
         x \in NewTasks(i, t)} = t.templates
  <2> DEFINE Form(x) == [key |-> x.key, role |-> x.role, required |-> x.required]
  <2>1. ASSUME NEW a \in t.templates
        PROVE  Form(New(a)) = a
    <3>1. a \in Template
      BY <1>2
    <3>2. a = [key |-> a.key, role |-> a.role, required |-> a.required]
      BY <3>1 DEF Template
    <3> QED
      BY <3>2
  <2> HIDE DEF New, Form
  <2>2. {Form(x) : x \in {New(a) : a \in t.templates}} = t.templates
    BY <2>1
  <2> QED
    BY <1>a, <2>2 DEF Form
<1> QED
  BY <1>5, <1>6, <1>7, <1>8

\* The end of a transaction leaves the locks of the others alone.
LEMMA DoneLocks ==
  ASSUME IInv, NEW r \in Requests, Done(r)
  PROVE  /\ pc'[r] = "idle" /\ req'[r] = Idle /\ held'[r] = {}
         /\ \A s \in Requests \ {r} :
              pc'[s] = pc[s] /\ req'[s] = req[s] /\ held'[s] = held[s]
         /\ Exclusive'
         /\ \A s \in Requests : LocksOK(s)'
         /\ pc' \in [Requests -> {"idle", "finding", "creating", "found", "locking",
                                  "performing", "claiming", "completing"}]
         /\ req' \in [Requests -> Local]
         /\ held' \in [Requests -> SUBSET Lockable]
<1>0. TypeOK
  BY DEF IInv
<1>1. /\ pc'[r] = "idle" /\ req'[r] = Idle /\ held'[r] = {}
      /\ \A s \in Requests \ {r} : pc'[s] = pc[s] /\ req'[s] = req[s] /\ held'[s] = held[s]
  BY <1>0 DEF Done, Goto, TypeOK
<1>2. Exclusive'
  BY <1>1 DEF IInv, Exclusive
<1>3. LocksOK(r)'
  BY <1>1 DEF LocksOK, Idle, InTransition, InCompletion
<1>4. ASSUME NEW s \in Requests \ {r} PROVE LocksOK(s)'
  <2>1. LocksOK(s)
    BY DEF IInv
  <2> QED
    BY <1>1, <2>1 DEF LocksOK, InTransition, InCompletion, Rows, Target
<1>5. /\ pc' \in [Requests -> {"idle", "finding", "creating", "found", "locking",
                               "performing", "claiming", "completing"}]
      /\ req' \in [Requests -> Local]
      /\ held' \in [Requests -> SUBSET Lockable]
  BY <1>0, IdleLocal DEF Done, Goto, TypeOK
<1> QED
  BY <1>1, <1>2, <1>3, <1>4, <1>5

\* What a transition writes continues the history of its instance.
LEMMA PerformTransitionStep ==
  ASSUME IInv, NEW r \in Requests, PerformTransition(r)
  PROVE  IInv'
<1>i. PICK i : i = Target(r)
  OBVIOUS
<1> DEFINE t == req[r].transition
           e == [transition |-> t, user |-> req[r].user]
           events == instances[i].events
           n == Len(events) + 1
<1>0. /\ TypeOK /\ RequestOK(r) /\ pc[r] = "performing" /\ Done(r)
      /\ UNCHANGED environment
      /\ instances' = [instances EXCEPT ![i] =
                         [state |-> t.to, events |-> Append(events, e)]]
      /\ updates' = [updates EXCEPT ![i[2]] = Append(@, i[1])]
      /\ tasks' = tasks \cup NewTasks(i, t)
  BY <1>i DEF IInv, PerformTransition, TypeOK
<1>1. /\ i \in Instances /\ i[1] = req[r].definition /\ i[2] = req[r].record
      /\ req[r].user \in Users /\ req[r].record \in RecordIds /\ req[r].definition \in Definitions
      /\ t \in Transitions /\ Performable(r, t) /\ i \in Started
  BY <1>0, <1>i DEF RequestOK, InTransition, Target, Instances, Started
<1>2. t \in Transition /\ t.from \in States /\ t.to \in States /\ e \in Event
  BY <1>1, TransitionTyped DEF Transition, Event
<1>3. events \in Seq(Event) /\ Len(events) \in Nat /\ instances[i].state = t.from
  BY <1>0, <1>1, <1>i DEF TypeOK, Instance, Started, Performable, Available
<1>4. [state |-> t.to, events |-> Append(events, e)] \in Instance
  BY <1>2, <1>3 DEF Instance
<1>5. NewTasks(i, t) \subseteq Task
  BY <1>0, <1>1, NewTasksTyped
<1>6. /\ instances'[i].events = Append(events, e) /\ instances'[i].state = t.to
      /\ instances'[i] # None
      /\ \A j \in Instances \ {i} : instances'[j] = instances[j]
      /\ Started' = Started
  BY <1>0, <1>1, <1>4, NamesAssumption DEF TypeOK, Started
<1>7. /\ Len(Append(events, e)) = n
      /\ \A m \in 1..Len(events) : Append(events, e)[m] = events[m]
      /\ Append(events, e)[n] = e
  BY <1>2, <1>3, AppendProperties
<1>8. definitions' = definitions /\ filled' = filled /\ attached' = attached
  BY <1>0 DEF environment
<1>9. TypeOK'
  BY <1>0, <1>1, <1>4, <1>5, DoneLocks DEF TypeOK, environment
<1>10. InstancesOK'
  <2>1. ASSUME NEW j \in RecordIds, NEW m \in DOMAIN updates'[j]
        PROVE  <<updates'[j][m], j>> \in Started
    <3>1. CASE j # i[2]
      BY <1>0, <1>1, <2>1, <3>1 DEF TypeOK, IInv, InstancesOK
    <3>2. CASE j = i[2]
      <4>1. updates[j] \in Seq(Definitions) /\ updates'[j] = Append(updates[j], i[1])
        BY <1>0, <1>1, <3>2 DEF TypeOK
      <4>2. m = Len(updates[j]) + 1 \/ (m \in DOMAIN updates[j] /\ updates'[j][m] = updates[j][m])
        BY <4>1, <2>1
      <4>3. CASE m = Len(updates[j]) + 1
        BY <1>1, <3>2, <4>1, <4>3, <1>i DEF Target
      <4>4. CASE m \in DOMAIN updates[j] /\ updates'[j][m] = updates[j][m]
        BY <4>4 DEF IInv, InstancesOK
      <4> QED
        BY <4>2, <4>3, <4>4
    <3> QED
      BY <3>1, <3>2
  <2> QED
    BY <1>6, <1>8, <2>1 DEF IInv, InstancesOK, Exists
<1>11. TasksOK'
  <2>1. ASSUME NEW x \in tasks
        PROVE  x.instance \in Started /\ x.event \in 1..Len(instances'[x.instance].events)
                 /\ x \in Task /\ (x.instance = i => x.event < n)
    <3>1. x.instance \in Started /\ x.event \in 1..Len(instances[x.instance].events) /\ x \in Task
      BY <1>0 DEF IInv, TasksOK, TypeOK
    <3>2. CASE x.instance = i
      BY <1>3, <1>6, <1>7, <3>1, <3>2
    <3>3. CASE x.instance # i
      BY <1>6, <3>1, <3>3 DEF Started
    <3> QED
      BY <3>1, <3>2, <3>3
  <2>2. ASSUME NEW x \in NewTasks(i, t)
        PROVE  x.instance = i /\ x.event = n /\ x.event \in 1..Len(instances'[i].events)
    BY <1>0, <1>1, <1>3, <1>6, <1>7, NewTasksTyped
  <2>3. \A x, y \in tasks : TaskId(x) = TaskId(y) => x = y
    BY DEF IInv, TasksOK
  <2>4. \A x, y \in NewTasks(i, t) : TaskId(x) = TaskId(y) => x = y
    BY <1>0, <1>1, NewTasksTyped
  <2>5. \A x \in tasks, y \in NewTasks(i, t) : TaskId(x) # TaskId(y)
    <3> SUFFICES ASSUME NEW x \in tasks, NEW y \in NewTasks(i, t), TaskId(x) = TaskId(y)
                 PROVE  FALSE
      OBVIOUS
    <3>1. x.instance = y.instance /\ x.event = y.event
      BY DEF TaskId
    <3>2. x.event < n /\ x.event = n /\ n \in Nat
      BY <1>3, <2>1, <2>2, <3>1
    <3> QED
      BY <3>2
  <2> QED
    BY <1>0, <1>1, <1>6, <2>1, <2>2, <2>3, <2>4, <2>5 DEF TasksOK
<1>12. HistoryOK'
  <2>1. \A j \in Instances \ {i} : TasksOf(j)' = TasksOf(j)
    BY <1>0, <1>1, NewTasksTyped DEF TasksOf
  <2>2. /\ \A m \in 1..Len(events) :
             {y \in TasksOf(i)' : y.event = m} = {y \in TasksOf(i) : y.event = m}
        /\ \A m \in 1..n : {y \in TasksOf(i)' : y.event < m} = {y \in TasksOf(i) : y.event < m}
        /\ {y \in TasksOf(i)' : y.event = n} = NewTasks(i, t)
        /\ {y \in TasksOf(i)' : y.event < n} = TasksOf(i)
    <3>1. \A x \in TasksOf(i) : x.event \in 1..Len(events)
      BY <1>1 DEF TasksOf, IInv, TasksOK
    <3>2. \A x \in NewTasks(i, t) : x.event = n /\ x.instance = i
      BY <1>0, <1>1, NewTasksTyped
    <3>3. TasksOf(i)' = TasksOf(i) \cup NewTasks(i, t)
      BY <1>0, <3>2 DEF TasksOf
    <3> QED
      BY <1>3, <3>1, <3>2, <3>3
  <2>3. HistoryIsPath'
    <3> SUFFICES ASSUME NEW j \in Started
                 PROVE  LET es == instances'[j].events IN
                        /\ \A m \in 1..(Len(es) - 1) : es[m].transition.to = es[m + 1].transition.from
                        /\ es # <<>> => es[Len(es)].transition.to = instances'[j].state
      BY <1>6 DEF HistoryIsPath
    <3>1. CASE j # i
      BY <1>6, <3>1 DEF IInv, HistoryOK, HistoryIsPath, Started
    <3>2. CASE j = i
      <4>1. /\ \A m \in 1..(Len(events) - 1) : events[m].transition.to = events[m + 1].transition.from
            /\ events # <<>> => events[Len(events)].transition.to = t.from
        BY <1>1, <1>3 DEF IInv, HistoryOK, HistoryIsPath
      <4>2. e.transition.from = t.from /\ e.transition.to = t.to
        OBVIOUS
      <4>3. ASSUME NEW m \in 1..Len(events)
            PROVE  Append(events, e)[m].transition.to = Append(events, e)[m + 1].transition.from
        <5>1. CASE m = Len(events)
          BY <1>3, <1>7, <4>1, <4>2, <5>1
        <5>2. CASE m # Len(events)
          BY <1>3, <1>7, <4>1, <5>2
        <5> QED
          BY <5>1, <5>2
      <4>4. Append(events, e)[Len(Append(events, e))].transition.to = t.to
        BY <1>7, <4>2
      <4>5. 1..(Len(Append(events, e)) - 1) = 1..Len(events)
        BY <1>3, <1>7
      <4>6. instances'[j].events = Append(events, e) /\ instances'[j].state = t.to
        BY <1>6, <3>2
      <4> HIDE DEF e, events
      <4> QED
        BY <4>3, <4>4, <4>5, <4>6
    <3> QED
      BY <3>1, <3>2
  <2>4. ReviewedBeforeMoving'
    <3> SUFFICES ASSUME NEW j \in Started, NEW m \in 1..Len(instances'[j].events)
                 PROVE  RequiredTasksDone(instances'[j].events[m].transition,
                                          {x \in TasksOf(j)' : x.event < m})
      BY <1>6 DEF ReviewedBeforeMoving
    <3>1. CASE j # i
      <4>1. instances'[j] = instances[j] /\ TasksOf(j)' = TasksOf(j)
        BY <1>6, <2>1, <3>1 DEF Started
      <4> QED
        BY <4>1 DEF IInv, HistoryOK, ReviewedBeforeMoving
    <3>2. CASE j = i /\ m = n
      <4>1. RequiredTasksDone(t, TasksOf(i))
        BY <1>1, <1>i DEF Performable, GuardsHold
      <4>2. instances'[j].events[m].transition = t
        BY <1>6, <1>7, <3>2
      <4> QED
        BY <2>2, <3>2, <4>1, <4>2
    <3>3. CASE j = i /\ m # n
      <4>1. m \in 1..Len(events) /\ instances'[j].events[m] = events[m]
        BY <1>3, <1>6, <1>7, <3>3
      <4>2. {x \in TasksOf(j)' : x.event < m} = {x \in TasksOf(j) : x.event < m}
        BY <1>3, <2>2, <3>3, <4>1
      <4> QED
        BY <3>3, <4>1, <4>2 DEF IInv, HistoryOK, ReviewedBeforeMoving
    <3> QED
      BY <3>1, <3>2, <3>3
  <2>5. TasksOfEvents'
    <3> DEFINE Form(x) == [key |-> x.key, role |-> x.role, required |-> x.required]
    <3>1. ASSUME NEW j \in Started, NEW m \in 1..Len(instances'[j].events)
          PROVE  {Form(x) : x \in {y \in TasksOf(j)' : y.event = m}}
                   = instances'[j].events[m].transition.templates
      <4>1. CASE j # i
        <5>1. instances'[j] = instances[j] /\ TasksOf(j)' = TasksOf(j)
          BY <1>6, <2>1, <4>1 DEF Started
        <5> QED
          BY <5>1 DEF IInv, HistoryOK, TasksOfEvents
      <4>2. CASE j = i /\ m = n
        <5>1. instances'[j].events[m].transition = t
          BY <1>6, <1>7, <4>2
        <5>2. {Form(x) : x \in NewTasks(i, t)} = t.templates
          BY <1>0, <1>1, NewTasksTyped
        <5> QED
          BY <2>2, <4>2, <5>1, <5>2
      <4>3. CASE j = i /\ m # n
        <5>1. m \in 1..Len(events) /\ instances'[j].events[m] = events[m]
          BY <1>3, <1>6, <1>7, <4>3
        <5>2. {y \in TasksOf(j)' : y.event = m} = {y \in TasksOf(j) : y.event = m}
          BY <2>2, <4>3, <5>1
        <5>3. {Form(x) : x \in {y \in TasksOf(j) : y.event = m}} = events[m].transition.templates
          BY <4>3, <5>1 DEF IInv, HistoryOK, TasksOfEvents
        <5> QED
          BY <5>1, <5>2, <5>3
      <4> QED
        BY <4>1, <4>2, <4>3
    <3>2. ASSUME NEW x \in tasks' PROVE x.completions = IF x.done THEN 1 ELSE 0
      <4>1. CASE x \in tasks
        BY <4>1 DEF IInv, HistoryOK, TasksOfEvents
      <4>2. CASE x \in NewTasks(i, t)
        BY <1>0, <1>1, <4>2, NewTasksTyped
      <4> QED
        BY <1>0, <3>2, <4>1, <4>2
    <3> QED
      BY <1>6, <3>1, <3>2 DEF TasksOfEvents
  <2> QED
    BY <2>3, <2>4, <2>5 DEF HistoryOK
<1>13. ASSUME NEW s \in Requests
       PROVE  RequestOK(s)'
  <2>1. CASE s = r
    BY <1>0, <2>1, DoneLocks DEF RequestOK, InTransition, InCompletion
  <2>2. CASE s # r
    <3>0. RequestOK(s)
      BY DEF IInv
    <3>1. /\ pc'[s] = pc[s] /\ req'[s] = req[s] /\ Target(s)' = Target(s)
          /\ InTransition(s)' = InTransition(s) /\ InCompletion(s)' = InCompletion(s)
          /\ \A d : Exists(d)' = Exists(d)
      BY <1>0, <1>8, <2>2, DoneLocks DEF Target, InTransition, InCompletion, Exists
    <3>2. pc[s] \notin {"idle", "finding"} => Target(s) \in Instances
      BY <3>0 DEF RequestOK, Target, Instances
    <3>3. pc[s] = "found" \/ InTransition(s) => instances'[Target(s)] # None
      BY <1>6, <3>0, <3>2 DEF RequestOK, InTransition
    <3>4. ASSUME pc[s] = "performing" PROVE Performable(s, req[s].transition)'
      <4>1. Target(s) # i
        BY <1>0, <1>i, <2>2, <3>4, OtherRecord
      <4>2. instances'[Target(s)] = instances[Target(s)] /\ TasksOf(Target(s))' = TasksOf(Target(s))
        <5>1. \A x \in NewTasks(i, t) : x.instance = i
          BY DEF NewTasks
        <5> QED
          BY <1>0, <1>6, <3>1, <3>2, <3>4, <4>1, <5>1 DEF TasksOf
      <4> QED
        BY <1>8, <3>0, <3>1, <3>4, <4>2 DEF RequestOK, Performable
    <3>5. ASSUME InCompletion(s) PROVE Claimed(s)' = Claimed(s)
      <4>1. Claimed(s) \in tasks' /\ TaskId(Claimed(s)) = req[s].task
        BY <1>0, <3>5, ClaimedTask
      <4>2. \A y \in tasks' : TaskId(y) = req[s].task => y = Claimed(s)
        BY <1>11, <4>1 DEF TasksOK
      <4> QED
        BY <3>1, <4>1, <4>2 DEF Claimed
    <3>6. InCompletion(s) => \E x \in tasks' : TaskId(x) = req[s].task /\ x.instance = Target(s)
      BY <1>0, <3>0 DEF RequestOK
    <3>7. pc[s] = "completing" => InCompletion(s)
      BY DEF InCompletion
    <3> QED
      BY <3>0, <3>1, <3>3, <3>4, <3>5, <3>6, <3>7 DEF RequestOK
  <2> QED
    BY <2>1, <2>2
<1> QED
  BY <1>0, <1>9, <1>10, <1>11, <1>12, <1>13, DoneLocks DEF IInv

\* The completion of a task leaves the histories and the reviews as they are.
LEMMA MarkDoneStep ==
  ASSUME IInv, NEW r \in Requests, MarkDone(r)
  PROVE  IInv'
<1>a. PICK x : x = Claimed(r)
  OBVIOUS
<1> DEFINE z == [x EXCEPT !.done = TRUE, !.completions = @ + 1]
<1>0. /\ TypeOK /\ pc[r] = "completing" /\ InCompletion(r) /\ Done(r)
      /\ tasks' = (tasks \ {x}) \cup {z}
      /\ UNCHANGED environment /\ instances' = instances /\ updates' = updates
  BY <1>a DEF IInv, MarkDone, InCompletion
<1>1. x \in tasks /\ TaskId(x) = req[r].task /\ x.instance = Target(r) /\ x \in Task /\ ~x.done
  BY <1>0, <1>a, ClaimedTask DEF TypeOK, IInv, RequestOK
<1>2. /\ z \in Task /\ TaskId(z) = TaskId(x) /\ z.done /\ z.completions = x.completions + 1
      /\ z.instance = x.instance /\ z.event = x.event /\ z.key = x.key
      /\ z.role = x.role /\ z.required = x.required
  <2>1. /\ z.done /\ z.completions = x.completions + 1
        /\ z.instance = x.instance /\ z.event = x.event /\ z.key = x.key
        /\ z.role = x.role /\ z.required = x.required
    BY <1>1 DEF Task
  <2>2. x.completions + 1 \in Nat
    BY <1>1 DEF Task
  <2>3. z \in Task
    BY <1>1, <2>2 DEF Task
  <2> QED
    BY <2>1, <2>3 DEF TaskId
<1>3. definitions' = definitions /\ filled' = filled /\ attached' = attached
  BY <1>0 DEF environment
<1>4. TypeOK'
  BY <1>0, <1>2, DoneLocks DEF TypeOK, environment
<1>5. InstancesOK'
  BY <1>0, <1>3 DEF IInv, InstancesOK, Started, Exists
<1>6. TasksOK'
  <2>1. \A y \in tasks' : y.instance \in Started' /\ y.event \in 1..Len(instances'[y.instance].events)
    BY <1>0, <1>1, <1>2 DEF IInv, TasksOK, Started
  <2>2. \A y \in tasks' : \E o \in tasks : TaskId(y) = TaskId(o) /\ (y = z <=> o = x)
                                              /\ (y # z => y = o)
    BY <1>0, <1>1, <1>2
  <2>3. \A y, o \in tasks : TaskId(y) = TaskId(o) => y = o
    BY DEF IInv, TasksOK
  <2>4. ASSUME NEW y \in tasks', NEW o \in tasks', TaskId(y) = TaskId(o) PROVE y = o
    BY <2>2, <2>3, <2>4
  <2> QED
    BY <2>1, <2>4 DEF TasksOK
<1>7. HistoryOK'
  <2>1. HistoryIsPath'
    BY <1>0 DEF IInv, HistoryOK, HistoryIsPath, Started
  <2>2. Started' = Started
    BY <1>0 DEF Started
  <2>3. ReviewedBeforeMoving'
    <3> SUFFICES ASSUME NEW j \in Started, NEW m \in 1..Len(instances[j].events)
                 PROVE  RequiredTasksDone(instances[j].events[m].transition,
                                          {y \in TasksOf(j)' : y.event < m})
      BY <1>0, <2>2 DEF ReviewedBeforeMoving
    <3> DEFINE before == {y \in TasksOf(j) : y.event < m}
               after == {y \in TasksOf(j)' : y.event < m}
    <3>1. RequiredTasksDone(instances[j].events[m].transition, before)
      BY DEF IInv, HistoryOK, ReviewedBeforeMoving
    <3>2. \A y \in after : \E o \in before :
            o.key = y.key /\ o.required = y.required /\ (o.done => y.done)
      BY <1>0, <1>1, <1>2 DEF TasksOf
    <3>3. \A o \in before : \E y \in after : o.key = y.key /\ o.required = y.required
      BY <1>0, <1>1, <1>2 DEF TasksOf
    <3> HIDE DEF before, after
    <3>4. RequiredTasksDone(instances[j].events[m].transition, after)
      BY <3>1, <3>2, <3>3 DEF RequiredTasksDone
    <3> QED
      BY <3>4 DEF after
  <2>4. TasksOfEvents'
    <3> DEFINE Form(y) == [key |-> y.key, role |-> y.role, required |-> y.required]
    <3>1. ASSUME NEW j \in Started, NEW m \in 1..Len(instances[j].events)
          PROVE  {Form(y) : y \in {o \in TasksOf(j)' : o.event = m}}
                   = instances[j].events[m].transition.templates
      <4> DEFINE before == {o \in TasksOf(j) : o.event = m}
                 after == {o \in TasksOf(j)' : o.event = m}
      <4>1. \A y \in after : \E o \in before : Form(o) = Form(y)
        <5> SUFFICES ASSUME NEW y \in after PROVE \E o \in before : Form(o) = Form(y)
          OBVIOUS
        <5>1. CASE y = z
          <6>1. x \in before /\ Form(x) = Form(y)
            BY <1>1, <1>2, <5>1 DEF TasksOf
          <6> QED
            BY <6>1
        <5>2. CASE y # z
          <6>1. y \in before
            BY <1>0, <1>2, <5>2 DEF TasksOf
          <6> QED
            BY <6>1
        <5> QED
          BY <5>1, <5>2
      <4>2. \A o \in before : \E y \in after : Form(o) = Form(y)
        BY <1>0, <1>1, <1>2 DEF TasksOf
      <4>3. {Form(y) : y \in before} = instances[j].events[m].transition.templates
        BY DEF IInv, HistoryOK, TasksOfEvents
      <4> HIDE DEF before, after, Form
      <4>4. {Form(y) : y \in after} = {Form(y) : y \in before}
        BY <4>1, <4>2
      <4> QED
        BY <4>3, <4>4 DEF after
    <3>2. ASSUME NEW y \in tasks' PROVE y.completions = IF y.done THEN 1 ELSE 0
      <4>1. x.completions = 0
        BY <1>1 DEF IInv, HistoryOK, TasksOfEvents
      <4>2. CASE y = z
        BY <1>2, <4>1, <4>2
      <4>3. CASE y \in tasks
        BY <4>3 DEF IInv, HistoryOK, TasksOfEvents
      <4> QED
        BY <1>0, <3>2, <4>2, <4>3
    <3> QED
      BY <1>0, <2>2, <3>1, <3>2 DEF TasksOfEvents
  <2> QED
    BY <2>1, <2>3, <2>4 DEF HistoryOK
<1>8. ASSUME NEW s \in Requests
      PROVE  RequestOK(s)'
  <2>1. CASE s = r
    BY <1>0, <2>1, DoneLocks DEF RequestOK, InTransition, InCompletion
  <2>2. CASE s # r
    <3>0. RequestOK(s)
      BY DEF IInv
    <3>1. /\ pc'[s] = pc[s] /\ req'[s] = req[s] /\ Target(s)' = Target(s)
          /\ InTransition(s)' = InTransition(s) /\ InCompletion(s)' = InCompletion(s)
          /\ \A d : Exists(d)' = Exists(d)
      BY <1>0, <1>3, <2>2, DoneLocks DEF Target, InTransition, InCompletion, Exists
    <3>2. ASSUME pc[s] = "performing" PROVE Performable(s, req[s].transition)'
      <4>1. Target(s) # Target(r)
        BY <1>0, <2>2, <3>2, OtherRecord
      <4>2. TasksOf(Target(s))' = TasksOf(Target(s))
        BY <1>0, <1>1, <1>2, <3>1, <4>1 DEF TasksOf
      <4> QED
        BY <1>0, <1>3, <3>0, <3>1, <3>2, <4>2 DEF RequestOK, Performable
    <3>3. ASSUME InCompletion(s)
          PROVE  \E y \in tasks' : TaskId(y) = req[s].task /\ y.instance = Target(s)
      BY <1>0, <1>1, <1>2, <3>3, ClaimedTask
    <3>4. ASSUME pc[s] = "completing" PROVE Claimed(s)' = Claimed(s)
      <4>1. InCompletion(s) /\ Claimed(s) # x
        BY <1>0, <1>1, <2>2, <3>4, ClaimedTask, OtherRecord DEF InCompletion
      <4>2. Claimed(s) \in tasks' /\ TaskId(Claimed(s)) = req[s].task
        BY <1>0, <4>1, ClaimedTask
      <4>3. \A y \in tasks' : TaskId(y) = req[s].task => y = Claimed(s)
        BY <1>6, <4>2 DEF TasksOK
      <4> QED
        BY <3>1, <4>2, <4>3 DEF Claimed
    <3> QED
      BY <1>0, <3>0, <3>1, <3>2, <3>3, <3>4 DEF RequestOK
  <2> QED
    BY <2>1, <2>2
<1> QED
  BY <1>0, <1>4, <1>5, <1>6, <1>7, <1>8, DoneLocks DEF IInv

-----------------------------------------------------------------------------
(* The surroundings.                                                       *)

\* Publishes, records and documents change nothing that a request relies on.
LEMMA SurroundingStep ==
  ASSUME IInv, UNCHANGED <<workflow, held, pc, req>>,
         version' \in 0..MaxVersions, definitions' \in [Definitions -> DefinitionRow],
         filled' \in [RecordIds -> SUBSET FieldKeys],
         attached' \in [RecordIds -> SUBSET DocumentTypes],
         \A d \in Definitions : (Exists(d) => Exists(d)')
                                  /\ (definitions'[d].active => Exists(d)'),
         \A r \in Requests : pc[r] = "performing" =>
           /\ definitions'[req[r].definition] = definitions[req[r].definition]
           /\ filled'[req[r].record] = filled[req[r].record]
           /\ attached'[req[r].record] = attached[req[r].record]
  PROVE  IInv'
<1>1. /\ instances' = instances /\ updates' = updates /\ tasks' = tasks
      /\ held' = held /\ pc' = pc /\ req' = req
  BY DEF workflow
<1>2. TypeOK'
  BY <1>1 DEF IInv, TypeOK
<1>3. Started' = Started /\ \A j : TasksOf(j)' = TasksOf(j)
  BY <1>1 DEF Started, TasksOf
<1>4. InstancesOK'
  <2>1. \A i \in Started : i[1] \in Definitions
    BY DEF Started, Instances
  <2> QED
    BY <1>1, <1>3, <2>1 DEF IInv, InstancesOK, Exists
<1>5. TasksOK' /\ HistoryOK'
  BY <1>1, <1>3 DEF IInv, TasksOK, HistoryOK, HistoryIsPath, ReviewedBeforeMoving, TasksOfEvents
<1>6. Exclusive' /\ \A r \in Requests : LocksOK(r)'
  <2>1. Exclusive'
    BY <1>1 DEF IInv, Exclusive
  <2>2. ASSUME NEW r \in Requests PROVE LocksOK(r)'
    <3>1. /\ InTransition(r)' = InTransition(r) /\ InCompletion(r)' = InCompletion(r)
          /\ Rows(r)' = Rows(r) /\ Target(r)' = Target(r)
      BY <1>1 DEF InTransition, InCompletion, Rows, Target
    <3>2. LocksOK(r)
      BY DEF IInv
    <3> QED
      BY <1>1, <3>1, <3>2 DEF LocksOK
  <2> QED
    BY <2>1, <2>2
<1>7. ASSUME NEW r \in Requests PROVE RequestOK(r)'
  <2>1. RequestOK(r)
    BY DEF IInv
  <2>2. Target(r)' = Target(r) /\ Claimed(r)' = Claimed(r)
          /\ InTransition(r)' = InTransition(r) /\ InCompletion(r)' = InCompletion(r)
    BY <1>1 DEF Target, Claimed, InTransition, InCompletion
  <2>3. ASSUME pc[r] = "performing" PROVE Performable(r, req[r].transition)'
    <3>1. Performable(r, req[r].transition)
      BY <2>1, <2>3 DEF RequestOK
    <3>2. Target(r)[1] = req[r].definition /\ Target(r)[2] = req[r].record
      BY DEF Target
    <3> QED
      BY <1>1, <1>3, <2>2, <2>3, <3>1, <3>2 DEF Performable
  <2> QED
    BY <1>1, <2>1, <2>2, <2>3 DEF RequestOK, Exists
<1> QED
  BY <1>2, <1>4, <1>5, <1>6, <1>7 DEF IInv

\* While a request writes, it holds its definition and its record.
LEMMA PerformingHolds ==
  ASSUME IInv, NEW r \in Requests, pc[r] = "performing"
  PROVE  /\ <<"definition", req[r].definition>> \in held[r]
         /\ <<"record", req[r].record>> \in held[r]
         /\ req[r].definition \in Definitions /\ req[r].record \in RecordIds
<1>1. LocksOK(r) /\ RequestOK(r)
  BY DEF IInv
<1>2. req[r].wait = <<>> /\ InTransition(r)
  BY <1>1 DEF LocksOK, InTransition
<1> QED
  BY <1>1, <1>2 DEF LocksOK, RequestOK, Rows

\* What a publish assigns is a content.
LEMMA ConfigTyped ==
  ASSUME NEW config \in Configs, NEW n \in 1..Len(config)
  PROVE  config[n].workflow \in Workflows
<1> DEFINE Assignment == [definition : Definitions, workflow : Workflows]
<1>1. config \in Seq(Assignment)
  BY InputAssumption
<1> HIDE DEF Assignment
<1>2. config[n] \in Assignment
  BY <1>1
<1> QED
  BY <1>2 DEF Assignment

\* A publish waits for the definitions that transitions are using.
LEMMA PublishStep ==
  ASSUME IInv, NEW config \in Configs, PublishWorkflows(config)
  PROVE  IInv'
<1> DEFINE position(d) == {n \in 1..Len(config) : config[n].definition = d}
           rows == Cardinality({d \in Definitions : Exists(d)})
           row(d) == LET n == CHOOSE n \in position(d) : TRUE IN
                     [active |-> TRUE, version |-> version + 1,
                      id |-> IF Exists(d) THEN definitions[d].id ELSE rows + n,
                      workflow |-> config[n].workflow]
<1>0. /\ TypeOK /\ version < MaxVersions /\ version' = version + 1
      /\ UNCHANGED <<filled, attached, workflow, held, pc, req>>
      /\ \A d \in Definitions : Free(<<"definition", d>>)
      /\ definitions' = [d \in Definitions |->
           IF position(d) = {} THEN [definitions[d] EXCEPT !.active = FALSE] ELSE row(d)]
  BY DEF IInv, PublishWorkflows
<1>1. rows \in Nat
  <2>1. IsFiniteSet({d \in Definitions : Exists(d)})
    BY InputAssumption, FS_Subset
  <2> QED
    BY <2>1, FS_CardinalityType
<1> HIDE DEF rows
<1>2. ASSUME NEW d \in Definitions, position(d) # {}
      PROVE  row(d) \in DefinitionRow /\ row(d).workflow # None
  <2>1. PICK n \in 1..Len(config) : n = CHOOSE k \in position(d) : TRUE
    BY <1>2
  <2>2. config[n].workflow \in Workflows
    BY ConfigTyped
  <2>3. definitions[d].id \in Nat /\ version \in Nat /\ n \in Nat
    BY <1>0, InputAssumption DEF TypeOK, DefinitionRow
  <2>4. (IF Exists(d) THEN definitions[d].id ELSE rows + n) \in Nat
    BY <1>1, <2>3
  <2>5. row(d) = [active |-> TRUE, version |-> version + 1,
                  id |-> IF Exists(d) THEN definitions[d].id ELSE rows + n,
                  workflow |-> config[n].workflow]
    BY <2>1
  <2> QED
    BY <2>2, <2>3, <2>4, <2>5, NamesAssumption DEF DefinitionRow
<1> HIDE DEF row, position
<1>3. ASSUME NEW d \in Definitions
      PROVE  /\ definitions'[d] \in DefinitionRow
             /\ (definitions[d].workflow # None => definitions'[d].workflow # None)
             /\ (definitions'[d].active => definitions'[d].workflow # None)
  <2>1. definitions[d] \in DefinitionRow
    BY <1>0 DEF TypeOK
  <2>2. CASE position(d) = {}
    <3>1. definitions'[d] = [definitions[d] EXCEPT !.active = FALSE]
      BY <1>0, <2>2
    <3> QED
      BY <2>1, <3>1 DEF DefinitionRow
  <2>3. CASE position(d) # {}
    BY <1>0, <1>2, <2>3
  <2> QED
    BY <2>2, <2>3
<1>4. \A r \in Requests : pc[r] # "performing"
  BY <1>0, PerformingHolds DEF Free
<1>5. /\ version' \in 0..MaxVersions
      /\ filled' \in [RecordIds -> SUBSET FieldKeys]
      /\ attached' \in [RecordIds -> SUBSET DocumentTypes]
  BY <1>0, InputAssumption DEF TypeOK
<1>6. definitions' \in [Definitions -> DefinitionRow]
  BY <1>0, <1>3
<1>7. \A d \in Definitions : (Exists(d) => Exists(d)') /\ (definitions'[d].active => Exists(d)')
  BY <1>3 DEF Exists
<1> QED
  BY <1>0, <1>4, <1>5, <1>6, <1>7, SurroundingStep

\* A save waits for the transitions of its record.
LEMMA SaveRecordStep ==
  ASSUME IInv, NEW i \in RecordIds, NEW fields \in SUBSET FieldKeys, SaveRecord(i, fields)
  PROVE  IInv'
<1>1. \A r \in Requests : pc[r] = "performing" => req[r].record # i
  BY PerformingHolds DEF SaveRecord, Free
<1>2. TypeOK /\ InstancesOK
  BY DEF IInv
<1>3. /\ version' = version /\ definitions' = definitions /\ attached' = attached
      /\ UNCHANGED <<workflow, held, pc, req>>
      /\ filled' = [filled EXCEPT ![i] = fields]
  BY DEF SaveRecord
<1>4. \A r \in Requests : pc[r] = "performing" => filled'[req[r].record] = filled[req[r].record]
  BY <1>1, <1>2, <1>3, PerformingHolds DEF TypeOK
<1>5. \A d \in Definitions : (Exists(d) => Exists(d)') /\ (definitions'[d].active => Exists(d)')
  BY <1>2, <1>3 DEF InstancesOK, Exists
<1>6. /\ version' \in 0..MaxVersions /\ definitions' \in [Definitions -> DefinitionRow]
      /\ filled' \in [RecordIds -> SUBSET FieldKeys]
      /\ attached' \in [RecordIds -> SUBSET DocumentTypes]
  BY <1>2, <1>3 DEF TypeOK
<1> QED
  BY <1>3, <1>4, <1>5, <1>6, SurroundingStep

\* A document waits for the transitions of its record.
LEMMA AttachDocumentStep ==
  ASSUME IInv, NEW i \in RecordIds, NEW type \in DocumentTypes, AttachDocument(i, type)
  PROVE  IInv'
<1>1. \A r \in Requests : pc[r] = "performing" => req[r].record # i
  BY PerformingHolds DEF AttachDocument, Free
<1>2. TypeOK /\ InstancesOK
  BY DEF IInv
<1>3. /\ version' = version /\ definitions' = definitions /\ filled' = filled
      /\ UNCHANGED <<workflow, held, pc, req>>
      /\ attached' = [attached EXCEPT ![i] = attached[i] \cup {type}]
  BY DEF AttachDocument
<1>4. \A r \in Requests :
        pc[r] = "performing" => attached'[req[r].record] = attached[req[r].record]
  BY <1>1, <1>2, <1>3, PerformingHolds DEF TypeOK
<1>5. \A d \in Definitions : (Exists(d) => Exists(d)') /\ (definitions'[d].active => Exists(d)')
  BY <1>2, <1>3 DEF InstancesOK, Exists
<1>6. /\ version' \in 0..MaxVersions /\ definitions' \in [Definitions -> DefinitionRow]
      /\ filled' \in [RecordIds -> SUBSET FieldKeys]
      /\ attached' \in [RecordIds -> SUBSET DocumentTypes]
  BY <1>2, <1>3 DEF TypeOK
<1> QED
  BY <1>3, <1>4, <1>5, <1>6, SurroundingStep

-----------------------------------------------------------------------------
(* The specification.                                                      *)

\* Nothing is there in the beginning.
LEMMA InitInv == Init => IInv
<1> SUFFICES ASSUME Init PROVE IInv
  OBVIOUS
<1>1. TypeOK
  <2>1. definitions \in [Definitions -> DefinitionRow]
    BY DEF Init, DefinitionRow
  <2>2. version \in 0..MaxVersions
    BY InputAssumption DEF Init
  <2>3. held \in [Requests -> SUBSET Lockable] /\ req \in [Requests -> Local]
    BY IdleLocal DEF Init
  <2>4. /\ instances \in [Instances -> Instance \cup {None}]
        /\ updates \in [RecordIds -> Seq(Definitions)]
    BY DEF Init
  <2>5. /\ filled \in [RecordIds -> SUBSET FieldKeys]
        /\ attached \in [RecordIds -> SUBSET DocumentTypes]
        /\ tasks \in SUBSET Task
        /\ pc \in [Requests -> {"idle", "finding", "creating", "found", "locking",
                                "performing", "claiming", "completing"}]
    BY DEF Init
  <2> QED
    BY <2>1, <2>2, <2>3, <2>4, <2>5 DEF TypeOK
<1>2. Started = {} /\ tasks = {}
  BY DEF Init, Started
<1>3. InstancesOK /\ TasksOK
  BY <1>2 DEF Init, InstancesOK, TasksOK
<1>4. HistoryOK
  BY <1>2 DEF HistoryOK, HistoryIsPath, ReviewedBeforeMoving, TasksOfEvents
<1>5. Exclusive
  BY DEF Init, Exclusive
<1>6. ASSUME NEW r \in Requests PROVE RequestOK(r) /\ LocksOK(r)
  <2>1. pc[r] = "idle" /\ req[r] = Idle /\ held[r] = {} /\ req[r].wait = <<>>
    BY DEF Init, Idle
  <2> QED
    BY <2>1 DEF RequestOK, LocksOK, InTransition, InCompletion
<1> QED
  BY <1>1, <1>3, <1>4, <1>5, <1>6 DEF IInv

\* Each action preserves the invariant.
LEMMA NextInv == IInv /\ [Next]_vars => IInv'
<1> SUFFICES ASSUME IInv, [Next]_vars PROVE IInv'
  OBVIOUS
<1>1. CASE UNCHANGED vars
  <2>1. UNCHANGED <<workflow, held, pc, req>> /\ UNCHANGED environment
    BY <1>1 DEF vars
  <2>2. \A d \in Definitions : (Exists(d) => Exists(d)') /\ (definitions'[d].active => Exists(d)')
    BY <2>1 DEF IInv, InstancesOK, Exists, environment
  <2> QED
    BY <2>1, <2>2, SurroundingStep DEF IInv, TypeOK, environment
<1>2. ASSUME NEW config \in Configs, PublishWorkflows(config) PROVE IInv'
  BY <1>2, PublishStep
<1>3. ASSUME NEW i \in RecordIds, NEW fields \in SUBSET FieldKeys, SaveRecord(i, fields)
      PROVE IInv'
  BY <1>3, SaveRecordStep
<1>4. ASSUME NEW i \in RecordIds, NEW type \in DocumentTypes, AttachDocument(i, type)
      PROVE IInv'
  BY <1>4, AttachDocumentStep
<1>5. ASSUME NEW r \in Requests PROVE
        /\ \A user \in Users, i \in RecordIds, key \in TransitionKeys \cup {None} :
             FindInstance(r, user, i, key) => IInv'
        /\ FindDefinition(r) => IInv'
        /\ CreateInstance(r) => IInv'
        /\ Respond(r) => IInv'
        /\ CheckPermission(r) => IInv'
        /\ Lock(r) => IInv'
        /\ ValidateGuards(r) => IInv'
        /\ PerformTransition(r) => IInv'
        /\ \A user \in Users, x \in tasks : CompleteTask(r, user, x) => IInv'
        /\ CheckTask(r) => IInv'
        /\ MarkDone(r) => IInv'
        /\ Rollback(r) => IInv'
  <2>1. Respond(r) \/ Rollback(r) => IInv'
    BY DoneStep DEF Respond, Rollback
  <2>2. /\ \A user \in Users, i \in RecordIds, key \in TransitionKeys \cup {None} :
             FindInstance(r, user, i, key) => IInv'
        /\ FindDefinition(r) => IInv'
        /\ CreateInstance(r) => IInv'
        /\ CheckPermission(r) => IInv'
    BY FindInstanceStep, FindDefinitionStep, CreateInstanceStep, CheckPermissionStep
  <2>3. Lock(r) \/ ValidateGuards(r) \/ PerformTransition(r) => IInv'
    BY LockStep, ValidateGuardsStep, PerformTransitionStep
  <2>4. /\ \A user \in Users, x \in tasks : CompleteTask(r, user, x) => IInv'
        /\ CheckTask(r) \/ MarkDone(r) => IInv'
    BY CompleteTaskStep, CheckTaskStep, MarkDoneStep
  <2> QED
    BY <2>1, <2>2, <2>3, <2>4
<1> QED
  BY <1>1, <1>2, <1>3, <1>4, <1>5 DEF Next

\* The invariant holds in every state.
LEMMA Invariance == Spec => []IInv
BY InitInv, NextInv, PTL DEF Spec

\* The rows, locks and locals keep their types, for any number of requests.
THEOREM TypeCorrect == Spec => []TypeOK
<1>1. IInv => TypeOK
  BY DEF IInv
<1> QED
  BY <1>1, Invariance, PTL

\* The transitions of an instance follow each other whoever performs them, have
\* their reviews behind them, and leave tasks that are completed once.
THEOREM HistoryCorrect == Spec => [](HistoryIsPath /\ ReviewedBeforeMoving /\ TasksOfEvents)
<1>1. IInv => HistoryIsPath /\ ReviewedBeforeMoving /\ TasksOfEvents
  BY DEF IInv, HistoryOK
<1> QED
  BY <1>1, Invariance, PTL

\* What an instance went through can be told from its events and its tasks
\* (perform_transition, create_tasks_for_transition, mark_done).
THEOREM HistoryStaysComplete == Spec => []HistoryIsComplete
BY TypeCorrect, HistoryCorrect, PTL DEF HistoryIsComplete

\* The reviews that a transition asks for are behind it
\* (_validate_required_tasks).
THEOREM ReviewsComeFirst == Spec => []ReviewedBeforeMoving
BY HistoryCorrect, PTL

\* The row a request waits for comes after those it has locked.
LEMMA WaitsUpwards ==
  ASSUME IInv, NEW r \in Requests, NEW q \in Requests, WaitsFor(r, q), req[q].wait # <<>>
  PROVE  Rank(Head(req[r].wait)) < Rank(Head(req[q].wait))
<1>1. LocksOK(q) /\ req[q].wait \in Seq(Lockable)
  BY DEF IInv, TypeOK, Local
<1>2. 1 \in DOMAIN req[q].wait /\ Head(req[q].wait) = req[q].wait[1]
  BY <1>1
<1> QED
  BY <1>1, <1>2 DEF LocksOK, WaitsFor

\* However many requests there are, they never wait for each other in a circle:
\* every row has one of four ranks, and all requests lock by rising rank.
THEOREM NeverCircular == Spec => []NoCircularWait
<1>1. IInv => NoCircularWait
  <2> SUFFICES ASSUME IInv, NEW waiting \in SUBSET Requests, waiting # {}
               PROVE  \E r \in waiting : \A q \in waiting : ~WaitsFor(r, q)
    BY DEF NoCircularWait
  <2> SUFFICES ASSUME \A r \in waiting : \E q \in waiting : WaitsFor(r, q)
               PROVE  FALSE
    OBVIOUS
  <2> DEFINE head(r) == Rank(Head(req[r].wait))
  <2>1. ASSUME NEW r \in waiting
        PROVE  head(r) \in 0..3 /\ \E q \in waiting : head(r) < head(q)
    <3>1. PICK q \in waiting : WaitsFor(r, q)
      OBVIOUS
    <3>2. req[q].wait # <<>>
      BY DEF WaitsFor
    <3>3. head(r) < head(q)
      BY <3>1, <3>2, WaitsUpwards
    <3>4. head(r) \in 0..3
      BY DEF Rank
    <3> QED
      BY <3>3, <3>4
  <2> HIDE DEF head
  <2>2. PICK a \in waiting : TRUE
    OBVIOUS
  <2>3. PICK b \in waiting : head(a) < head(b)
    BY <2>1
  <2>4. PICK c \in waiting : head(b) < head(c)
    BY <2>1
  <2>5. PICK d \in waiting : head(c) < head(d)
    BY <2>1
  <2>6. PICK e \in waiting : head(d) < head(e)
    BY <2>1
  <2>7. /\ head(a) \in 0..3 /\ head(b) \in 0..3 /\ head(c) \in 0..3
        /\ head(d) \in 0..3 /\ head(e) \in 0..3
    BY <2>1
  <2> QED
    BY <2>3, <2>4, <2>5, <2>6, <2>7
<1> QED
  BY <1>1, Invariance, PTL

-----------------------------------------------------------------------------
(* The process a user sees.                                                *)

Contents == [d \in Definitions |-> definitions[d].workflow]

\* A step that starts nothing, moves nothing and completes nothing is one of the
\* surroundings.
LEMMA EnvironmentStep ==
  ASSUME IInv', UNCHANGED <<instances, tasks>>
  PROVE  Process!Environment
<1>1. TypeOK'
  BY DEF IInv
<1>2. Contents' \in [Definitions -> Workflows \cup {None}]
  BY <1>1 DEF Contents, TypeOK, DefinitionRow
<1> QED
  BY <1>1, <1>2 DEF Process!Environment, TypeOK, Contents

\* The insert of an instance starts one of the workflows.
LEMMA CreateRefines ==
  ASSUME IInv, IInv', NEW r \in Requests, CreateInstance(r)
  PROVE  Process!Next
<1> DEFINE i == Target(r)
<1>1. CASE instances[i] = None
  <2>1. RequestOK(r) /\ pc[r] = "creating"
    BY DEF IInv, CreateInstance
  <2>2. PICK w \in Workflows : req[r].state = w.initial
    BY <2>1 DEF RequestOK
  <2>3. i \in Definitions \X RecordIds
    BY <2>1 DEF RequestOK, Target
  <2>4. /\ instances' = [instances EXCEPT ![i] = [state |-> w.initial, events |-> <<>>]]
        /\ UNCHANGED <<environment, tasks>>
    BY <1>1, <2>2 DEF CreateInstance, NewInstance
  <2>5. Process!Start(i, w)
    BY <1>1, <2>4 DEF Process!Start, environment
  <2> QED
    BY <2>3, <2>5 DEF Process!Next
<1>2. CASE instances[i] # None
  BY <1>2, EnvironmentStep DEF CreateInstance, Process!Next
<1> QED
  BY <1>1, <1>2

\* The write of a transition is the transition: what was validated still holds.
LEMMA PerformRefines ==
  ASSUME IInv, NEW r \in Requests, PerformTransition(r)
  PROVE  Process!Next
<1>1. PICK i : i = Target(r)
  OBVIOUS
<1>2. PICK t : t = req[r].transition
  OBVIOUS
<1>3. RequestOK(r) /\ pc[r] = "performing" /\ TypeOK /\ InstancesOK
  BY DEF IInv, PerformTransition
<1>4. /\ i \in Definitions \X RecordIds /\ i[1] = req[r].definition /\ i[2] = req[r].record
      /\ instances[i] # None /\ Performable(r, t) /\ req[r].user \in Users
  BY <1>1, <1>2, <1>3 DEF RequestOK, Target, InTransition
<1>5. definitions[i[1]].workflow # None /\ definitions[i[1]].workflow \in Workflows
  BY <1>3, <1>4 DEF TypeOK, InstancesOK, Exists, DefinitionRow, Started, Instances
<1>6. t \in definitions[i[1]].workflow.transitions /\ t.from = instances[i].state
  BY <1>1, <1>4 DEF Performable, Available
<1>7. GuardsHold(t, Accounts[req[r].user], filled[i[2]], attached[i[2]], TasksOf(i))
  BY <1>1, <1>4 DEF Performable
<1>8. /\ instances' = [instances EXCEPT ![i] =
           [state |-> t.to,
            events |-> Append(@.events, [transition |-> t, user |-> req[r].user])]]
      /\ tasks' = tasks \cup NewTasks(i, t)
      /\ UNCHANGED environment
  BY <1>1, <1>2 DEF PerformTransition
<1>9. Process!NewTasks(i, t) = NewTasks(i, t) /\ Process!TasksOf(i) = TasksOf(i)
  BY DEF Process!NewTasks, NewTasks, Process!TasksOf, TasksOf
<1>10. Process!GuardsHold(t, Accounts[req[r].user], filled[i[2]], attached[i[2]], TasksOf(i))
  BY <1>7 DEF Process!GuardsHold, GuardsHold, Process!RequiredTasksDone, RequiredTasksDone,
              Process!Can, Can
<1>11. Contents[i[1]] = definitions[i[1]].workflow /\ Contents' = Contents
  BY <1>4, <1>8 DEF Contents, environment
<1>12. Process!Perform(i, req[r].user, t)
  BY <1>4, <1>5, <1>6, <1>8, <1>9, <1>10, <1>11 DEF Process!Perform, Contents, environment
<1> QED
  BY <1>4, <1>5, <1>6, <1>12 DEF Process!Next

\* The write of a completion completes a task that was open.
LEMMA MarkDoneRefines ==
  ASSUME IInv, NEW r \in Requests, MarkDone(r)
  PROVE  Process!Next
<1>1. PICK x : x = Claimed(r)
  OBVIOUS
<1>2. RequestOK(r) /\ InCompletion(r) /\ pc[r] = "completing"
  BY DEF IInv, MarkDone, InCompletion
<1>3. x \in tasks /\ ~x.done /\ MayComplete(Accounts[req[r].user], x) /\ req[r].user \in Users
  BY <1>1, <1>2, ClaimedTask DEF RequestOK
<1>4. x.completions = 0
  BY <1>3 DEF IInv, HistoryOK, TasksOfEvents
<1>5. x \in Task
  BY <1>3 DEF IInv, TypeOK
<1>6. [x EXCEPT !.done = TRUE, !.completions = @ + 1] = [x EXCEPT !.done = TRUE, !.completions = 1]
  BY <1>4, <1>5 DEF Task
<1>7. /\ tasks' = (tasks \ {x}) \cup {[x EXCEPT !.done = TRUE, !.completions = 1]}
      /\ UNCHANGED <<environment, instances>>
  BY <1>1, <1>6 DEF MarkDone
<1>8. Process!MayComplete(Accounts[req[r].user], x)
  BY <1>3 DEF Process!MayComplete, MayComplete, Process!Can, Can
<1>9. Process!Complete(x, req[r].user)
  BY <1>3, <1>7, <1>8 DEF Process!Complete, environment
<1> QED
  BY <1>3, <1>9 DEF Process!Next

\* What users see of requests, locks and transactions is one transition or
\* completion at a time, each allowed at the moment it happens.
THEOREM Implementation == Spec => TransitionsAreAtomic
<1>1. Init => Process!Init
  BY DEF Init, Process!Init, Instances
<1>2. IInv /\ IInv' /\ [Next]_vars
        => [Process!Next]_<<Contents, filled, attached, instances, tasks>>
  <2> SUFFICES ASSUME IInv, IInv', [Next]_vars PROVE Process!Next
    OBVIOUS
  <2>1. CASE UNCHANGED <<instances, tasks>>
    BY <2>1, EnvironmentStep DEF Process!Next
  <2>2. ASSUME NEW r \in Requests, CreateInstance(r) PROVE Process!Next
    BY <2>2, CreateRefines
  <2>3. ASSUME NEW r \in Requests, PerformTransition(r) PROVE Process!Next
    BY <2>3, PerformRefines
  <2>4. ASSUME NEW r \in Requests, MarkDone(r) PROVE Process!Next
    BY <2>4, MarkDoneRefines
  <2>5. ASSUME NEW r \in Requests
        PROVE  /\ \A user \in Users, i \in RecordIds, key \in TransitionKeys \cup {None} :
                    FindInstance(r, user, i, key) => UNCHANGED <<instances, tasks>>
               /\ FindDefinition(r) \/ Respond(r) \/ CheckPermission(r) \/ Lock(r)
                    => UNCHANGED <<instances, tasks>>
               /\ ValidateGuards(r) \/ CheckTask(r) \/ Rollback(r) => UNCHANGED <<instances, tasks>>
               /\ \A user \in Users, x \in tasks :
                    CompleteTask(r, user, x) => UNCHANGED <<instances, tasks>>
    BY DEF FindInstance, FindDefinition, Respond, CheckPermission, Lock, ValidateGuards,
           CheckTask, Rollback, CompleteTask, workflow
  <2>6. /\ \A config \in Configs : PublishWorkflows(config) => UNCHANGED <<instances, tasks>>
        /\ \A i \in RecordIds, fields \in SUBSET FieldKeys :
             SaveRecord(i, fields) => UNCHANGED <<instances, tasks>>
        /\ \A i \in RecordIds, type \in DocumentTypes :
             AttachDocument(i, type) => UNCHANGED <<instances, tasks>>
    BY DEF PublishWorkflows, SaveRecord, AttachDocument, workflow
  <2>7. CASE UNCHANGED vars
    BY <2>1, <2>7 DEF vars, workflow
  <2> QED
    BY <2>1, <2>2, <2>3, <2>4, <2>5, <2>6, <2>7 DEF Next
<1> QED
  BY <1>1, <1>2, Invariance, PTL DEF Spec, TransitionsAreAtomic, Process!Spec, Contents
=============================================================================
