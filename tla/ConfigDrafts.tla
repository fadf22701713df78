---------------------------- MODULE ConfigDrafts ----------------------------
(***************************************************************************)
(* The two looks that a publish takes at a draft: at its object types,     *)
(* which are compared with the active ones, and at its data, which is      *)
(* validated and turned into rows (apps/config_registry/services.py).      *)
(* Drafts are edited without any check (views.py, update_config_draft).    *)
(***************************************************************************)
EXTENDS ConfigDiff, ConfigPayload

CONSTANTS
  Schemas,      \* the object types that a draft may have
  Starter,      \* starter_configuration_data()
  EditsOf(_),   \* the data that one edit makes of other data
  MaxEdits      \* bound on the edits of the starter configuration

VARIABLES
  active,   \* the object types of the active version
  draft,    \* the object types of the draft
  data,     \* the data of the draft
  edits     \* the edits of the data

draft_vars == <<active, draft, data, edits>>

NoTypes == [t \in {} |-> {}]

ASSUME SchemasAssumption == NoTypes \in Schemas /\ \A s \in Schemas : DefinesFields(s)

\* What is left out is no key, no type and no list.
ASSUME AbsentAssumption == Absent \notin SnakeCase \cup FieldTypes \cup {NoList}

DraftsInit ==
  /\ active = NoTypes /\ draft = active
  /\ data = Starter /\ edits = 0

\* The two looks share nothing: the types are edited before the data is, and the
\* data only while there are no types.  One edit may give any types, so a second
\* one before the publish would show nothing new.
EditTypes ==
  /\ edits = 0 /\ draft = active
  /\ draft' \in Schemas
  /\ UNCHANGED <<active, data, edits>>

PublishTypes == edits = 0 /\ active' = draft /\ UNCHANGED <<draft, data, edits>>

EditData ==
  /\ active = NoTypes /\ draft = NoTypes
  /\ edits < MaxEdits
  /\ edits' = edits + 1
  /\ data' \in EditsOf(data)
  /\ UNCHANGED <<active, draft>>

DraftsNext == EditTypes \/ PublishTypes \/ EditData

DraftsSpec == DraftsInit /\ [][DraftsNext]_draft_vars

-----------------------------------------------------------------------------
(* Properties.                                                             *)

\* A draft without reported changes makes no stored record of the active schema
\* invalid, whatever else is stored under keys that were never declared or no
\* longer are: the destructive-change check (services.py 423-576) misses only
\* values that are already there under a key that it declares, and fields whose
\* flags, choices or target it reads in another way than the validation does.
UnreportedKeepsRecordsValid == ~Destructive(active, draft) => KeepsRecordsValid(active, draft)

\* What validate_draft accepts (services.py 68-112), the tables can store as far
\* as it looked at it (637-683): no list is missing, every definition has a key
\* and a type, and no key is used twice.  A publish of an accepted draft fails on
\* what it did not look at: two transitions with the same key, values that their
\* columns refuse, and workflows, transitions or widgets that are no lists.
AcceptedKeysAreStored ==
  ValidDraft(data) => Failures(data) \subseteq {"same_transition", "bad_value", "not_iterable"}

Last(seq) == seq[Len(seq)]

\* The tasks that the guard of a transition asks for, and the fields it asks for
\* if it is written out.
AskedTasks(t) ==
  CASE t.guards # Absent -> t.guards.tasks
    [] t.guards = Absent /\ t.guard \in DOMAIN SymbolicGuards -> SymbolicGuards[t.guard].tasks
    [] OTHER -> {}

WrittenFields(t) == IF t.guards # Absent THEN t.guards.fields ELSE {}

\* A workflow is in order for a type if its transitions lead through its states
\* as they are listed, no guard asks for a task that none of them made before,
\* and those that are written out ask for fields of the type.
Leads(d, type, workflow, steps) ==
  \A n \in DOMAIN steps :
    LET step(m) == workflow.transitions[steps[m]] IN
    /\ step(n).from = workflow.states[n] /\ step(n).to = workflow.states[n + 1]
    /\ AskedTasks(step(n)) \subseteq UNION {RuntimeTasks(step(m)) : m \in 1..(n - 1)}
    /\ WrittenFields(step(n)) \subseteq {f.key : f \in FieldsOf(d, type)}

InOrder(d, type, workflow) ==
  /\ Len(workflow.states) \in Nat \ {0}
  /\ \E steps \in [1..(Len(workflow.states) - 1) -> Usable(workflow)] : Leads(d, type, workflow, steps)

\* The workflows of the starter are.
ASSUME StarterAssumption ==
  \A w \in Workflows(Starter) : \A t \in AssignedTypes(Starter, w) : InOrder(Starter, t, w)

\* Whatever else is edited, a record can go through a workflow that is in order
\* to its last state: symbolic guards ask for no field that its type does not
\* have, whichever fields were removed from it, and for tasks that were made
\* before, although both are matched by their names only (services.py 823-912).
WorkflowsCanBeFinished ==
  Outcome(data) = "published" =>
    \A w \in Workflows(data) : \A t \in AssignedTypes(data, w) :
      InOrder(data, t, w) => CanReach(data, RuntimeDefinition(data, t, w), Last(w.states), Len(w.states) - 1)
=============================================================================
