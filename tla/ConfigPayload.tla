--------------------------- MODULE ConfigPayload ---------------------------
(***************************************************************************)
(* The data of a configuration draft (apps/config_registry/services.py):   *)
(* what validate_draft accepts, which rows a publish makes of it, and the  *)
(* runtime workflows that the engine then follows, with the symbolic       *)
(* guards of the data translated to fields, tasks and documents.           *)
(*                                                                         *)
(* A section is a sequence of definitions, NoList (null, or anything else   *)
(* that is no list) or Absent; a definition is a record or NoObject, and   *)
(* what it leaves out is Absent.  Labels and other values that go into a   *)
(* column are left out: "fits" says that the columns take all of those of  *)
(* a definition, that none is null, too long (a key of more than 120       *)
(* characters) or of another kind ("required": "perhaps").  A guard that   *)
(* is written out asks for fields, tasks and documents; the roles and       *)
(* permissions it may ask for, and those that tasks are given to, are left *)
(* out.  A runtime key stands for the pair that its text joins.            *)
(***************************************************************************)
EXTENDS RecordValidation, Integers, Sequences

CONSTANTS
  Absent, NoList, NoObject,
  SnakeCase,  \* the keys that match SNAKE_CASE_RE
  Token       \* the key of the task that a template is turned into

IsList(section) == section \notin {Absent, NoList}

Keys(section) ==
  IF IsList(section) THEN {section[n].key : n \in {m \in DOMAIN section : section[m] # NoObject}} ELSE {}

Distinct(section) ==
  \A n \in DOMAIN section, m \in DOMAIN section : section[n].key = section[m].key => n = m

AreObjects(section) == \A n \in DOMAIN section : section[n] # NoObject

-----------------------------------------------------------------------------
(* Validation.                                                             *)

\* A bug this module can show: keys may be used twice.
Named(section) == AreObjects(section) /\ Keys(section) \subseteq SnakeCase

Keyed(section) == AreObjects(section) /\ Keys(section) \subseteq SnakeCase /\ Distinct(section)

ValidFields(fields) == IsList(fields) /\ Keyed(fields) /\ \A n \in DOMAIN fields : fields[n].type \in FieldTypes

ValidObjectTypes(types) == IsList(types) /\ Keyed(types) /\ \A n \in DOMAIN types : ValidFields(types[n].fields)

ObjectTypeKeys(data) == Keys(data.object_types) \cap SnakeCase

ValidRelationshipTypes(data) ==
  LET types == data.relationship_types IN
  types # Absent =>
    /\ IsList(types) /\ Keyed(types)
    /\ \A n \in DOMAIN types : {types[n].source, types[n].target} \subseteq ObjectTypeKeys(data) \cup {Absent}

OtherSections == {"form_layouts", "folder_templates", "dashboards"}

ValidDraft(data) ==
  /\ ValidObjectTypes(data.object_types)
  /\ ValidRelationshipTypes(data)
  /\ \A s \in OtherSections : data[s] # Absent => IsList(data[s]) /\ Keyed(data[s])

-----------------------------------------------------------------------------
(* Publication.                                                            *)

\* The objects of a list.
Objects(list) == IF IsList(list) THEN {n \in DOMAIN list : list[n] # NoObject} ELSE {}

\* The lists whose definitions become rows of their own.
StoredSections(data) ==
  {data.object_types} \cup {data[s] : s \in OtherSections}
  \cup {data.object_types[n].fields : n \in Objects(data.object_types)}

KeyMissing(section) ==
  IsList(section) /\ \E n \in DOMAIN section : section[n] = NoObject \/ section[n].key = Absent

SameKey(section) ==
  \E n \in Objects(section) : \E m \in Objects(section) \ {n} : section[n].key = section[m].key

ValueRefused(section) == \E n \in Objects(section) : ~section[n].fits

\* Of workflows with the same key the last one counts.
Workflows(data) ==
  {data.workflows[n] : n \in {m \in Objects(data.workflows) :
     /\ data.workflows[m].key \in SnakeCase
     /\ \A l \in Objects(data.workflows) : l > m => data.workflows[l].key # data.workflows[m].key}}

AssignedTypes(data, workflow) ==
  SnakeCase \cap
    (workflow.object_types \cup
       {t.key : t \in {data.object_types[n] : n \in {m \in DOMAIN data.object_types :
                         data.object_types[m].workflow = workflow.key}}})

FieldsOf(data, type) ==
  LET n == CHOOSE m \in DOMAIN data.object_types : data.object_types[m].key = type IN
  IF type \in Keys(data.object_types) THEN {data.object_types[n].fields[m] : m \in DOMAIN data.object_types[n].fields} ELSE {}

Needs(fields, tasks, documents) == [fields |-> fields, tasks |-> tasks, documents |-> documents]

SymbolicGuards ==
  [engineering_approval |-> Needs({}, {"engineering_review"}, {}),
   quality_approval |-> Needs({}, {"quality_review"}, {}),
   spec_number_and_product_required |-> Needs({"spec_number", "product", "revision"}, {}, {}),
   controlled_document_attached |-> Needs({}, {"technical_spec_review"}, {"controlled_document"}),
   approval_complete |-> Needs({}, {"approver_signoff"}, {}),
   supplier_selected |-> Needs({"supplier_material_code", "material_family", "supplier"}, {}, {}),
   compliance_documents_available |-> Needs({}, {"supplier_qualification_review"}, {"tds", "sds", "compliance"}),
   technical_and_quality_approval |-> Needs({}, {"material_technical_review"}, {}),
   project_owner_assigned |-> Needs({"project_name", "project_type", "project_owner"}, {}, {}),
   scope_and_target_launch_confirmed |-> Needs({"target_launch_date"}, {"gate_0_scoping_review"}, {}),
   trial_and_spec_package_ready |-> Needs({}, {"gate_1_development_approval"}, {}),
   launch_approval_complete |-> Needs({}, {"gate_2_launch_readiness"}, {})]

\* A bug this module can show: fields are asked for that the type may not have.
CandidateFields(data, type, guard) == SymbolicGuards[guard].fields

PresentFields(data, type, guard) == SymbolicGuards[guard].fields \cap {f.key : f \in FieldsOf(data, type)}

SymbolicRuntimeGuard(data, type, guard) ==
  CASE guard = "required_fields_complete" -> Needs({f.key : f \in {g \in FieldsOf(data, type) : g.required}}, {}, {})
    [] guard \in DOMAIN SymbolicGuards -> [SymbolicGuards[guard] EXCEPT !.fields = PresentFields(data, type, guard)]
    [] OTHER -> Needs({}, {}, {})

\* A guard that is written out is taken as it is, whatever it asks for.
RuntimeGuard(data, type, t) ==
  IF t.guards # Absent THEN t.guards ELSE SymbolicRuntimeGuard(data, type, t.guard)

\* The tasks that a guard may ask for: those that are not required do not count.
\* So are templates that are written out.
RuntimeTasks(t) ==
  CASE t.templates # Absent -> {template.key : template \in {x \in t.templates : x.required}}
    [] t.templates = Absent /\ t.task # Absent -> {Token[t.task]}
    [] OTHER -> {}

RuntimeTransition(data, type, t) ==
  [key |-> IF t.key # Absent THEN t.key ELSE t.from \o "_to_" \o t.to,
   from |-> t.from, to |-> t.to, guard |-> RuntimeGuard(data, type, t), tasks |-> RuntimeTasks(t)]

\* Transitions that do not name both states are skipped.
Usable(workflow) ==
  {n \in Objects(workflow.transitions) : Absent \notin {workflow.transitions[n].from, workflow.transitions[n].to}}

RuntimeTransitions(data, type, workflow) ==
  [n \in Usable(workflow) |-> RuntimeTransition(data, type, workflow.transitions[n])]

RuntimeDefinition(data, type, workflow) ==
  [key |-> <<workflow.key, type>>,
   initial |-> IF workflow.states # <<>> THEN workflow.states[1] ELSE "draft",
   transitions |-> RuntimeTransitions(data, type, workflow)]

RuntimeDefinitions(data) ==
  UNION {{RuntimeDefinition(data, type, w) : type \in AssignedTypes(data, w)} : w \in Workflows(data)}

\* The workflows that are turned into runtime definitions.
Assigned(data) == {w \in Workflows(data) : AssignedTypes(data, w) # {}}

\* Lists of the data that a publish goes through and nobody validates.
UncheckedLists(data) ==
  {data.workflows} \cup {w.transitions : w \in Assigned(data)}
  \cup {data.dashboards[n].widgets : n \in Objects(data.dashboards)}

\* What stops the publish of a draft.
Failures(data) ==
  {reason \in {"no_list", "no_key", "same_key", "no_type", "not_iterable", "bad_value", "same_transition"} :
     \/ reason = "no_list" /\ NoList \in StoredSections(data)
     \/ reason = "no_key" /\ \E section \in StoredSections(data) : KeyMissing(section)
     \/ reason = "same_key" /\ \E section \in StoredSections(data) : SameKey(section)
     \/ reason = "no_type" /\ \E n \in Objects(data.object_types) :
                                LET fields == data.object_types[n].fields IN
                                \E m \in Objects(fields) : fields[m].type = Absent
     \/ reason = "not_iterable" /\ NoList \in UncheckedLists(data)
     \/ /\ reason = "bad_value"
        /\ \/ \E section \in StoredSections(data) : ValueRefused(section)
           \/ \E w \in Assigned(data) : ~w.fits \/ \E n \in Usable(w) : ~w.transitions[n].fits
     \/ reason = "same_transition" /\ \E d \in RuntimeDefinitions(data) : ~Distinct(d.transitions)}

Outcome(data) ==
  CASE ~ValidDraft(data) -> "refused"
    [] ValidDraft(data) /\ Failures(data) = {} -> "published"
    [] OTHER -> "failed"

-----------------------------------------------------------------------------
(* What the engine makes of a runtime definition, for a record that has     *)
(* all fields of its type and all documents, and tasks that are completed   *)
(* as soon as there are any.                                                *)

\* A guard is satisfied by a record that took these transitions before.
Satisfied(data, definition, guard, before) ==
  /\ guard.fields \subseteq {f.key : f \in FieldsOf(data, definition.key[2])}
  /\ guard.tasks \subseteq UNION {t.tasks : t \in before}

\* A record can take these transitions, one after the other.
CanTake(data, definition, steps) ==
  \A n \in DOMAIN steps :
    LET taken(m) == definition.transitions[steps[m]] IN
    /\ taken(n).from = IF n = 1 THEN definition.initial ELSE taken(n - 1).to
    /\ Satisfied(data, definition, taken(n).guard, {taken(m) : m \in 1..(n - 1)})

\* A record is in the state after k transitions.
CanReach(data, definition, state, k) ==
  \E steps \in [1..k -> DOMAIN definition.transitions] :
    /\ CanTake(data, definition, steps)
    /\ state = IF k = 0 THEN definition.initial ELSE definition.transitions[steps[k]].to
=============================================================================
