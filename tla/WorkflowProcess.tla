--------------------------- MODULE WorkflowProcess ---------------------------
(***************************************************************************)
(* What the workflow engine promises, without requests, locks or           *)
(* transactions: an instance moves by one transition at a time, which is   *)
(* in force, leaves the state the instance is in and has its guards met    *)
(* at that very moment; its tasks appear with it and are done once.        *)
(***************************************************************************)
EXTENDS WorkflowRules, Sequences, Naturals

CONSTANTS
  Definitions,   \* keys of the workflow definitions
  RecordIds,
  Users,
  Accounts,      \* the account of each user
  Workflows,     \* contents of definitions
  None           \* no instance, no content

VARIABLES
  rules,         \* the content of each definition
  filled,        \* the fields of each record that have a value
  attached,      \* the document types attached to each record
  instances,     \* what each definition runs on each record
  tasks

TasksOf(i) == {x \in tasks : x.instance = i}

Init ==
  /\ rules = [d \in Definitions |-> None]
  /\ filled = [i \in RecordIds |-> {}]
  /\ attached = [i \in RecordIds |-> {}]
  /\ instances = [i \in Definitions \X RecordIds |-> None]
  /\ tasks = {}

\* The surroundings change at will.
Environment ==
  /\ rules' \in [Definitions -> Workflows \cup {None}]
  /\ filled' \in [RecordIds -> SUBSET FieldKeys]
  /\ attached' \in [RecordIds -> SUBSET DocumentTypes]
  /\ UNCHANGED <<instances, tasks>>

Start(i, workflow) ==
  /\ instances[i] = None
  /\ instances' = [instances EXCEPT ![i] = [state |-> workflow.initial, events |-> <<>>]]
  /\ UNCHANGED <<rules, filled, attached, tasks>>

NewTasks(i, t) ==
  {[instance |-> i, event |-> Len(instances[i].events) + 1, key |-> x.key, role |-> x.role,
    required |-> x.required, done |-> FALSE, completions |-> 0] : x \in t.templates}

Perform(i, user, t) ==
  /\ instances[i] # None
  /\ rules[i[1]] # None
  /\ t \in rules[i[1]].transitions
  /\ t.from = instances[i].state
  /\ GuardsHold(t, Accounts[user], filled[i[2]], attached[i[2]], TasksOf(i))
  /\ instances' = [instances EXCEPT ![i] =
       [state |-> t.to, events |-> Append(@.events, [transition |-> t, user |-> user])]]
  /\ tasks' = tasks \cup NewTasks(i, t)
  /\ UNCHANGED <<rules, filled, attached>>

Complete(x, user) ==
  /\ ~x.done
  /\ MayComplete(Accounts[user], x)
  /\ tasks' = (tasks \ {x}) \cup {[x EXCEPT !.done = TRUE, !.completions = 1]}
  /\ UNCHANGED <<rules, filled, attached, instances>>

Next ==
  \/ Environment
  \/ \E i \in Definitions \X RecordIds :
       \/ \E workflow \in Workflows : Start(i, workflow)
       \/ \E user \in Users, workflow \in Workflows :
            \E t \in workflow.transitions : Perform(i, user, t)
  \/ \E x \in tasks, user \in Users : Complete(x, user)

Spec == Init /\ [][Next]_<<rules, filled, attached, instances, tasks>>
=============================================================================
