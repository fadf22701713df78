---------------------------- MODULE WorkflowRules ----------------------------
(***************************************************************************)
(* The contents of a workflow definition, and the guards of its            *)
(* transitions (apps/workflows/engine.py, apps/workflows/models.py).       *)
(***************************************************************************)
CONSTANTS
  States,          \* states of an instance
  TransitionKeys,
  FieldKeys,       \* fields a guard may require
  DocumentTypes,   \* document types a guard may require
  TaskKeys,
  Roles,
  Actions          \* what a permission may allow: view, edit, release, ...

\* A task that a transition creates.
Template == [key : TaskKeys, role : Roles, required : BOOLEAN]

\* entry is the action the view asks for before it calls the engine; the other
\* guards are the engine's.  all_tasks is required_tasks_complete = true, tasks
\* the keys it lists otherwise.
Transition == [key : TransitionKeys, from : States, to : States, entry : Actions,
               permissions : SUBSET Actions, roles : SUBSET Roles,
               fields : SUBSET FieldKeys, documents : SUBSET DocumentTypes,
               tasks : SUBSET TaskKeys, all_tasks : BOOLEAN,
               templates : SUBSET Template]

Workflow == [initial : States, transitions : SUBSET Transition]

\* What a user may do to the records, with the names of the user's groups.
Account == [may : SUBSET Actions, roles : SUBSET Roles, admin : BOOLEAN]

Can(account, action) == account.admin \/ action \in account.may

\* _get_transition: the transition with this key that leaves this state.
Available(workflow, key, state) ==
  {t \in workflow.transitions : t.key = key /\ t.from = state}

\* _validate_required_tasks, over the tasks of the instance.
RequiredTasksDone(t, tasks) ==
  /\ t.all_tasks => \A x \in tasks : x.required => x.done
  /\ \A k \in t.tasks :
       LET required == {x \in tasks : x.key = k /\ x.required} IN
       required # {} /\ \A x \in required : x.done

\* Mutation of GuardsHold: a task that was never created does not count.
GuardsHoldOfCreated(t, account, filled, attached, tasks) ==
  /\ t.fields \subseteq filled
  /\ account.admin \/ t.roles \subseteq account.roles
  /\ \A action \in t.permissions : Can(account, action)
  /\ t.documents \subseteq attached
  /\ \A x \in tasks : x.required /\ (t.all_tasks \/ x.key \in t.tasks) => x.done

\* validate_guards: the fields with a value and the documents are those of the
\* record, the tasks those of the instance.
GuardsHold(t, account, filled, attached, tasks) ==
  /\ t.fields \subseteq filled
  /\ account.admin \/ t.roles \subseteq account.roles
  /\ \A action \in t.permissions : Can(account, action)
  /\ t.documents \subseteq attached
  /\ RequiredTasksDone(t, tasks)

\* _can_complete_task, and the right to view the record of the task.
MayComplete(account, task) ==
  Can(account, "view") /\ (account.admin \/ task.role \in account.roles)
=============================================================================
