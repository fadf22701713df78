------------------------ MODULE ConfigRegistryProofs ------------------------
(***************************************************************************)
(* Type correctness and the safety of publication, for any number of       *)
(* requests, drafts, configurations and runtime rows; what the check for   *)
(* destructive changes sees of any change of the object types; and that a  *)
(* publish of any accepted draft fails on nothing that was looked at.      *)
(***************************************************************************)
EXTENDS ConfigRegistry, ConfigDrafts, TLAPS

-----------------------------------------------------------------------------
(* The destructive-change check.                                          *)

\* When _single_field_breaking_changes reports nothing, the new definition of a
\* plain field is unique only if the current one is, and accepts every value the
\* current one accepts.
LEMMA SingleFieldSound ==
  ASSUME NEW f, NEW cur \in Field, NEW new \in Field, PlainField(cur), PlainField(new),
         SingleFieldBreakingChanges(f, cur, new) = {}
  PROVE  /\ new.unique => cur.unique
         /\ \A v : FieldAccepts(cur, v) => FieldAccepts(new, v)
<1>1. ASSUME NEW c \in FieldCodes
      PROVE  ~FieldCodeApplies(c, cur, new)
  BY DEF SingleFieldBreakingChanges
<1>2. /\ cur.type = new.type
      /\ new.required => cur.required
      /\ new.unique => cur.unique
      /\ cur.options \subseteq new.options
      /\ cur.target = new.target
  <2>1. ~FieldCodeApplies("field_type_changed", cur, new)
    BY <1>1 DEF FieldCodes
  <2>2. ~FieldCodeApplies("field_required_enabled", cur, new)
    BY <1>1 DEF FieldCodes
  <2>3. ~FieldCodeApplies("field_option_removed", cur, new)
    BY <1>1 DEF FieldCodes
  <2>4. ~FieldCodeApplies("field_reference_target_changed", cur, new)
    BY <1>1 DEF FieldCodes
  <2>5. ~FieldCodeApplies("field_unique_enabled", cur, new)
    BY <1>1 DEF FieldCodes
  <2>6. cur.type = new.type /\ cur.options \subseteq new.options
    BY <2>1, <2>3 DEF FieldCodeApplies, ComparedOptions
  <2>7. cur.target = new.target
    BY <2>4 DEF FieldCodeApplies, PlainField
  <2>8. new.required => cur.required
    BY <2>2 DEF FieldCodeApplies, IsTrue, PlainField
  <2>9. new.unique => cur.unique
    BY <2>5 DEF FieldCodeApplies, IsTrue, PlainField
  <2> QED
    BY <2>6, <2>7, <2>8, <2>9
<1>3. ChoiceValues(cur) \subseteq ChoiceValues(new)
  BY <1>2 DEF ChoiceValues, PlainField
<1> SUFFICES ASSUME NEW v, FieldAccepts(cur, v)
             PROVE  FieldAccepts(new, v)
  BY <1>2
<1>4. CASE IsBlank(v)
  BY <1>2, <1>4 DEF FieldAccepts, Field
<1>5. CASE ~IsBlank(v)
  <2>1. ValidFieldValue(cur, v)
    BY <1>5 DEF FieldAccepts
  <2>2. ASSUME cur.type = "multi_choice",
               NEW items \in SUBSET ChoiceValues(cur), v = items
        PROVE  \E i \in SUBSET ChoiceValues(new) : v = i
    BY <1>3, <2>2
  <2>3. ValidFieldValue(new, v)
    BY <1>2, <1>3, <2>1, <2>2 DEF ValidFieldValue
  <2> QED
    BY <1>5, <2>3 DEF FieldAccepts
<1> QED
  BY <1>4, <1>5

\* The same for the fields of one object type: data of the type, whatever it
\* holds under keys that are not declared, stays valid at all fields that the
\* comparison sees.
LEMMA FieldChangesSound ==
  ASSUME NEW cur, NEW new,
         \A f \in DOMAIN cur : cur[f] \in Field, \A f \in DOMAIN new : new[f] \in Field,
         FieldBreakingChanges(cur, new) = {}
  PROVE  KeepsSeenFieldsValid(cur, new)
<1>1. \A f \in DOMAIN new \ DOMAIN cur : ~IsTrue(new[f], "required")
  <2> SUFFICES ASSUME NEW f \in DOMAIN new \ DOMAIN cur, IsTrue(new[f], "required")
               PROVE  FALSE
    OBVIOUS
  <2>1. <<f, "required_field_added">> \in FieldBreakingChanges(cur, new)
    BY DEF FieldBreakingChanges
  <2> QED
    BY <2>1
<1>2. \A f \in DOMAIN cur \cap DOMAIN new :
         SingleFieldBreakingChanges(f, cur[f], new[f]) = {}
  <2> SUFFICES ASSUME NEW f \in DOMAIN cur \cap DOMAIN new,
                      NEW c \in SingleFieldBreakingChanges(f, cur[f], new[f])
               PROVE  FALSE
    OBVIOUS
  <2>1. c \in FieldBreakingChanges(cur, new)
    BY DEF FieldBreakingChanges
  <2> QED
    BY <2>1
<1> SUFFICES ASSUME NEW d \in Data, NEW other \in Data, ValidRecordData(cur, d, {other}),
                    NEW f \in DOMAIN new, f \notin UnseenFields(cur, new, d)
             PROVE  ValidField(new[f], f, d, {other})
  BY DEF KeepsSeenFieldsValid, InvalidFields
<1>3. CASE f \in DOMAIN cur
  <2>1. PlainField(cur[f]) /\ PlainField(new[f])
    BY <1>3 DEF UnseenFields
  <2>2. ValidField(cur[f], f, d, {other})
    BY <1>3 DEF ValidRecordData
  <2>3. /\ new[f].unique => cur[f].unique
        /\ FieldAccepts(cur[f], d[f]) => FieldAccepts(new[f], d[f])
    BY <1>2, <1>3, <2>1, SingleFieldSound
  <2> QED
    BY <2>2, <2>3 DEF ValidField
<1>4. CASE f \notin DOMAIN cur
  <2>1. IsBlank(d[f]) /\ PlainField(new[f])
    BY <1>4 DEF UnseenFields
  <2>2. ~new[f].required
    BY <1>1, <1>4, <2>1 DEF IsTrue, PlainField
  <2> QED
    BY <2>1, <2>2 DEF ValidField, FieldAccepts
<1> QED
  BY <1>3, <1>4

\* A publish that _breaking_changes_between lets through unconfirmed keeps every
\* stored record of every object type valid, at every field but those that the
\* comparison cannot judge (services.py 423-576).
THEOREM UnreportedIsCompatible ==
  ASSUME NEW cur, NEW new, DefinesFields(cur), DefinesFields(new),
         ~Destructive(cur, new)
  PROVE  KeepsRecordsValid(cur, new)
<1>1. DOMAIN cur \subseteq DOMAIN new
  <2> SUFFICES ASSUME NEW t \in DOMAIN cur \ DOMAIN new
               PROVE  FALSE
    OBVIOUS
  <2>1. <<t, "object_type_removed">> \in BreakingChanges(cur, new)
    BY DEF BreakingChanges
  <2> QED
    BY <2>1 DEF Destructive
<1>2. \A t \in DOMAIN cur \cap DOMAIN new : FieldBreakingChanges(cur[t], new[t]) = {}
  <2> SUFFICES ASSUME NEW t \in DOMAIN cur \cap DOMAIN new,
                      NEW c \in FieldBreakingChanges(cur[t], new[t])
               PROVE  FALSE
    OBVIOUS
  <2>1. <<t, c>> \in BreakingChanges(cur, new)
    BY DEF BreakingChanges
  <2> QED
    BY <2>1 DEF Destructive
<1>3. ASSUME NEW t \in DOMAIN cur
      PROVE  KeepsSeenFieldsValid(cur[t], new[t])
  <2>1. t \in DOMAIN new
    BY <1>1
  <2>2. /\ \A f \in DOMAIN cur[t] : cur[t][f] \in Field
        /\ \A f \in DOMAIN new[t] : new[t][f] \in Field
    BY <2>1 DEF DefinesFields
  <2> QED
    BY <1>2, <2>1, <2>2, FieldChangesSound
<1> QED
  BY <1>1, <1>3 DEF KeepsRecordsValid

\* However a draft is edited and published, the publish that is not reported
\* as destructive keeps the stored records of the active version valid, but for
\* the fields that the comparison cannot judge (services.py 423-576).
THEOREM NoUnreportedChangeBreaksRecords == DraftsSpec => []UnreportedKeepsRecordsValid
<1> DEFINE TypesInv == active \in Schemas /\ draft \in Schemas
<1>1. DraftsInit => TypesInv
  BY SchemasAssumption DEF DraftsInit
<1>2. TypesInv /\ [DraftsNext]_draft_vars => TypesInv'
  BY DEF DraftsNext, EditTypes, PublishTypes, EditData, draft_vars
<1>3. TypesInv => UnreportedKeepsRecordsValid
  BY SchemasAssumption, UnreportedIsCompatible DEF UnreportedKeepsRecordsValid
<1> QED
  BY <1>1, <1>2, <1>3, PTL DEF DraftsSpec

-----------------------------------------------------------------------------
(* The data of a draft.                                                    *)

\* A section that is accepted gives rows: its keys are there and differ.
LEMMA KeyedIsStored ==
  ASSUME NEW section, IsList(section), Keyed(section)
  PROVE  section # NoList /\ ~KeyMissing(section) /\ ~SameKey(section)
<1>1. section # NoList
  BY DEF IsList
<1>2. ~KeyMissing(section)
  <2> SUFFICES ASSUME NEW n \in DOMAIN section, section[n] = NoObject \/ section[n].key = Absent
               PROVE  FALSE
    BY DEF KeyMissing
  <2>1. section[n] # NoObject
    BY DEF Keyed, AreObjects
  <2>2. section[n].key \in SnakeCase
    BY <2>1 DEF Keyed, Keys
  <2> QED
    BY <2>1, <2>2, AbsentAssumption
<1>3. ~SameKey(section)
  BY DEF SameKey, Objects, Keyed, Distinct
<1> QED
  BY <1>1, <1>2, <1>3

\* The lists that become rows are those that validate_draft looks at: the two
\* are written apart from each other (services.py 68-112, 637-683).
LEMMA SectionsAreKeyed ==
  ASSUME NEW d, ValidDraft(d), NEW section \in StoredSections(d)
  PROVE  section = Absent \/ (IsList(section) /\ Keyed(section))
<1>1. /\ IsList(d.object_types) /\ Keyed(d.object_types)
      /\ \A n \in DOMAIN d.object_types : ValidFields(d.object_types[n].fields)
  BY DEF ValidDraft, ValidObjectTypes
<1>2. CASE section = d.object_types
  BY <1>1, <1>2
<1>3. ASSUME NEW s \in OtherSections, section = d[s]
      PROVE  section = Absent \/ (IsList(section) /\ Keyed(section))
  BY <1>3 DEF ValidDraft
<1>4. ASSUME NEW n \in Objects(d.object_types), section = d.object_types[n].fields
      PROVE  IsList(section) /\ Keyed(section)
  <2>1. n \in DOMAIN d.object_types
    BY <1>1 DEF Objects
  <2> QED
    BY <1>1, <1>4, <2>1 DEF ValidFields
<1> QED
  BY <1>2, <1>3, <1>4 DEF StoredSections

\* Whatever is edited, a publish of an accepted draft does not fail on the keys
\* and types of its definitions (services.py 390-397, 637-683, 716-741).
THEOREM AcceptedDraftsHaveKeys == DraftsSpec => []AcceptedKeysAreStored
<1>1. ASSUME ValidDraft(data)
      PROVE  {"no_list", "no_key", "same_key", "no_type"} \cap Failures(data) = {}
  <2>1. ASSUME NEW section \in StoredSections(data)
        PROVE  section # NoList /\ ~KeyMissing(section) /\ ~SameKey(section)
    <3>1. CASE section = Absent
      <4>1. ~IsList(section)
        BY <3>1 DEF IsList
      <4>2. ~KeyMissing(section) /\ ~SameKey(section)
        BY <4>1 DEF KeyMissing, SameKey, Objects
      <4> QED
        BY <3>1, <4>2, AbsentAssumption
    <3>2. CASE section # Absent
      BY <1>1, <3>2, SectionsAreKeyed, KeyedIsStored
    <3> QED
      BY <3>1, <3>2
  <2>2. ASSUME NEW n \in Objects(data.object_types), NEW m \in Objects(data.object_types[n].fields),
               data.object_types[n].fields[m].type = Absent
        PROVE  FALSE
    <3> DEFINE fields == data.object_types[n].fields
    <3>1. n \in DOMAIN data.object_types /\ m \in DOMAIN fields
      BY <1>1 DEF Objects, ValidDraft, ValidObjectTypes, ValidFields
    <3>2. fields[m].type \in FieldTypes
      BY <1>1, <3>1 DEF ValidDraft, ValidObjectTypes, ValidFields
    <3> QED
      BY <2>2, <3>2, AbsentAssumption
  <2>3. /\ NoList \notin StoredSections(data)
        /\ ~\E section \in StoredSections(data) : KeyMissing(section)
        /\ ~\E section \in StoredSections(data) : SameKey(section)
    BY <2>1
  <2>4. "no_list" \notin Failures(data)
    BY <2>3 DEF Failures
  <2>5. "no_key" \notin Failures(data)
    BY <2>3 DEF Failures
  <2>6. "same_key" \notin Failures(data)
    BY <2>3 DEF Failures
  <2>7. "no_type" \notin Failures(data)
    BY <2>2 DEF Failures
  <2> QED
    BY <2>4, <2>5, <2>6, <2>7
<1>2. Failures(data) \subseteq
        {"no_list", "no_key", "same_key", "no_type", "not_iterable", "bad_value", "same_transition"}
  BY DEF Failures
<1>3. AcceptedKeysAreStored
  BY <1>1, <1>2 DEF AcceptedKeysAreStored
<1> QED
  BY <1>3, PTL

\* A guard that is not written out asks for nothing but fields of the type, and
\* for the tasks of the word it was made from (services.py 823-895).
LEMMA RuntimeGuardAsks ==
  ASSUME NEW d, NEW type, NEW t
  PROVE  /\ RuntimeGuard(d, type, t).fields \subseteq {f.key : f \in FieldsOf(d, type)} \cup WrittenFields(t)
         /\ RuntimeGuard(d, type, t).tasks \subseteq AskedTasks(t)
<1>1. CASE t.guards # Absent
  BY <1>1 DEF RuntimeGuard, WrittenFields, AskedTasks
<1> DEFINE guard == t.guard
<1>2. CASE t.guards = Absent /\ guard = "required_fields_complete"
  <2> DEFINE required == {f.key : f \in {g \in FieldsOf(d, type) : g.required}}
  <2>1. required \subseteq {f.key : f \in FieldsOf(d, type)}
    OBVIOUS
  <2> HIDE DEF required
  <2>2. guard \notin DOMAIN SymbolicGuards
    BY <1>2 DEF SymbolicGuards
  <2>3. RuntimeGuard(d, type, t) = Needs(required, {}, {})
    BY <1>2, <2>2 DEF RuntimeGuard, SymbolicRuntimeGuard, required
  <2> QED
    BY <2>1, <2>3 DEF Needs
<1>3. CASE t.guards = Absent /\ guard # "required_fields_complete" /\ guard \in DOMAIN SymbolicGuards
  <2> DEFINE present == PresentFields(d, type, guard)
  <2>1. present \subseteq {f.key : f \in FieldsOf(d, type)}
    BY DEF PresentFields
  <2> HIDE DEF present
  <2>2. RuntimeGuard(d, type, t) = [SymbolicGuards[guard] EXCEPT !.fields = present]
    BY <1>3 DEF RuntimeGuard, SymbolicRuntimeGuard, present
  <2>3. PICK fields, tasks, documents : SymbolicGuards[guard] = Needs(fields, tasks, documents)
    BY <1>3 DEF SymbolicGuards
  <2>4. RuntimeGuard(d, type, t).fields = present /\ RuntimeGuard(d, type, t).tasks = SymbolicGuards[guard].tasks
    BY <2>2, <2>3 DEF Needs
  <2>5. AskedTasks(t) = SymbolicGuards[guard].tasks
    BY <1>3 DEF AskedTasks
  <2> QED
    BY <2>1, <2>4, <2>5
<1>4. CASE t.guards = Absent /\ guard # "required_fields_complete" /\ guard \notin DOMAIN SymbolicGuards
  BY <1>4 DEF RuntimeGuard, SymbolicRuntimeGuard, Needs
<1> QED
  BY <1>1, <1>2, <1>3, <1>4

\* The steps that lead through the states of a workflow are transitions that a
\* record of any type can take (workflows/engine.py 46-103, 152-171, 206-220).
LEMMA LeadingStepsCanBeTaken ==
  ASSUME NEW d, NEW type, NEW w, Len(w.states) \in Nat \ {0},
         NEW steps \in [1..(Len(w.states) - 1) -> Usable(w)], Leads(d, type, w, steps)
  PROVE  CanTake(d, RuntimeDefinition(d, type, w), steps)
<1> DEFINE definition == RuntimeDefinition(d, type, w)
           step(m) == w.transitions[steps[m]]
           taken(m) == definition.transitions[steps[m]]
<1>1. \A m \in DOMAIN steps : taken(m) = RuntimeTransition(d, type, step(m))
  BY DEF RuntimeDefinition, RuntimeTransitions
<1>2. \A m \in DOMAIN steps :
        /\ taken(m).from = step(m).from /\ taken(m).to = step(m).to
        /\ taken(m).guard = RuntimeGuard(d, type, step(m))
        /\ taken(m).tasks = RuntimeTasks(step(m))
  <2> SUFFICES ASSUME NEW m \in DOMAIN steps, NEW t, t = step(m)
               PROVE  LET r == RuntimeTransition(d, type, t) IN
                      /\ r.from = t.from /\ r.to = t.to
                      /\ r.guard = RuntimeGuard(d, type, t) /\ r.tasks = RuntimeTasks(t)
    BY <1>1
  <2> QED
    BY DEF RuntimeTransition
<1>3. definition.key[2] = type /\ definition.initial = w.states[1]
  BY DEF RuntimeDefinition
<1> SUFFICES ASSUME NEW n \in DOMAIN steps
             PROVE  /\ taken(n).from = IF n = 1 THEN definition.initial ELSE taken(n - 1).to
                    /\ Satisfied(d, definition, taken(n).guard, {taken(m) : m \in 1..(n - 1)})
  BY DEF CanTake
<1> HIDE DEF definition
<1>4. /\ step(n).from = w.states[n] /\ step(n).to = w.states[n + 1]
      /\ AskedTasks(step(n)) \subseteq UNION {RuntimeTasks(step(m)) : m \in 1..(n - 1)}
      /\ WrittenFields(step(n)) \subseteq {f.key : f \in FieldsOf(d, type)}
  BY DEF Leads
<1>5. taken(n).from = IF n = 1 THEN definition.initial ELSE taken(n - 1).to
  <2>1. CASE n = 1
    BY <1>2, <1>3, <1>4, <2>1
  <2>2. CASE n # 1
    <3>1. n - 1 \in DOMAIN steps /\ (n - 1) + 1 = n
      BY <2>2
    <3>2. step(n - 1).to = w.states[(n - 1) + 1]
      BY <3>1 DEF Leads
    <3> QED
      BY <1>2, <1>4, <2>2, <3>1, <3>2
  <2> QED
    BY <2>1, <2>2
<1>6. Satisfied(d, definition, taken(n).guard, {taken(m) : m \in 1..(n - 1)})
  <2>1. taken(n).guard.fields \subseteq {f.key : f \in FieldsOf(d, definition.key[2])}
    BY <1>2, <1>3, <1>4, RuntimeGuardAsks
  <2>2. ASSUME NEW task \in taken(n).guard.tasks
        PROVE  \E m \in 1..(n - 1) : task \in taken(m).tasks
    <3>1. task \in AskedTasks(step(n))
      BY <1>2, <2>2, RuntimeGuardAsks
    <3>2. PICK m \in 1..(n - 1) : task \in RuntimeTasks(step(m))
      BY <1>4, <3>1
    <3>3. m \in DOMAIN steps
      OBVIOUS
    <3> QED
      BY <1>2, <3>2, <3>3
  <2> QED
    BY <2>1, <2>2 DEF Satisfied
<1> QED
  BY <1>5, <1>6 DEF definition

\* A workflow whose transitions lead through its states can be finished by the
\* records of a type that it is in order for, whatever fields the symbolic guards
\* know that the type does not have (services.py 797-912).
THEOREM OrderedWorkflowsCanBeFinished ==
  ASSUME NEW d, NEW type, NEW w, InOrder(d, type, w)
  PROVE  CanReach(d, RuntimeDefinition(d, type, w), Last(w.states), Len(w.states) - 1)
<1> DEFINE k == Len(w.states) - 1
           definition == RuntimeDefinition(d, type, w)
<1>1. PICK steps \in [1..k -> Usable(w)] : Leads(d, type, w, steps)
  BY DEF InOrder
<1>2. Len(w.states) \in Nat \ {0}
  BY DEF InOrder
<1>3. DOMAIN definition.transitions = Usable(w)
  BY DEF RuntimeDefinition, RuntimeTransitions
<1>4. CanTake(d, definition, steps)
  BY <1>1, <1>2, LeadingStepsCanBeTaken
<1>5. Last(w.states) = IF k = 0 THEN definition.initial ELSE definition.transitions[steps[k]].to
  <2>1. CASE k = 0
    BY <1>2, <2>1 DEF Last, RuntimeDefinition
  <2>2. CASE k # 0
    <3>1. k \in DOMAIN steps /\ k + 1 = Len(w.states)
      <4>1. \A l \in Nat \ {0} : l - 1 # 0 => l - 1 \in 1..(l - 1) /\ (l - 1) + 1 = l
        OBVIOUS
      <4>2. k \in 1..k /\ k + 1 = Len(w.states)
        BY <1>2, <2>2, <4>1
      <4>3. DOMAIN steps = 1..k
        BY <1>1
      <4> QED
        BY <4>2, <4>3
    <3>2. w.transitions[steps[k]].to = w.states[k + 1]
      BY <1>1, <3>1 DEF Leads
    <3>3. definition.transitions[steps[k]].to = w.transitions[steps[k]].to
      BY <3>1 DEF RuntimeDefinition, RuntimeTransitions, RuntimeTransition
    <3> QED
      BY <2>2, <3>1, <3>2, <3>3 DEF Last
  <2> QED
    BY <2>1, <2>2
<1> QED
  BY <1>1, <1>3, <1>4, <1>5 DEF CanReach

\* However the starter is edited, the workflows of an accepted draft that are
\* in order can be finished (services.py 390-397, 685-912).
THEOREM PublishedWorkflowsCanBeFinished == DraftsSpec => []WorkflowsCanBeFinished
<1>1. WorkflowsCanBeFinished
  BY OrderedWorkflowsCanBeFinished DEF WorkflowsCanBeFinished
<1> QED
  BY <1>1, PTL

-----------------------------------------------------------------------------
(* The registry.                                                          *)

\* A row computed by a publish is a row.
LEMMA SyncType ==
  ASSUME NEW config \in Configs, NEW version \in Nat
  PROVE  /\ \A rows \in [WorkflowKeys -> Row] :
              SyncWorkflows(rows, config, version) \in [WorkflowKeys -> Row]
         /\ \A rows \in [DashboardKeys -> Row] :
              SyncDashboards(rows, config, version) \in [DashboardKeys -> Row]
<1>1. \A k \in DOMAIN config.workflows : config.workflows[k] \in Definitions
  BY ConfigAssumption DEF Config
<1>2. \A k \in DOMAIN config.dashboards : config.dashboards[k] \in Definitions
  BY ConfigAssumption DEF Config
<1>3. \A rows \in [WorkflowKeys -> Row] :
         SyncWorkflows(rows, config, version) \in [WorkflowKeys -> Row]
  <2> SUFFICES ASSUME NEW rows \in [WorkflowKeys -> Row], NEW k \in WorkflowKeys
               PROVE  SyncWorkflows(rows, config, version)[k] \in Row
    BY DEF SyncWorkflows
  <2>1. rows[k] \in Row
    OBVIOUS
  <2> QED
    BY <1>1, <2>1 DEF SyncWorkflows, Row
<1>4. \A rows \in [DashboardKeys -> Row] :
         SyncDashboards(rows, config, version) \in [DashboardKeys -> Row]
  <2> SUFFICES ASSUME NEW rows \in [DashboardKeys -> Row], NEW k \in DashboardKeys
               PROVE  SyncDashboards(rows, config, version)[k] \in Row
    BY DEF SyncDashboards
  <2>1. rows[k] \in Row
    OBVIOUS
  <2> QED
    BY <1>2, <2>1 DEF SyncDashboards, Row, NoRow
<1> QED
  BY <1>3, <1>4

\* The local variables of a request that has none are well typed.
LEMMA IdleType == Idle \in Local
BY ConfigAssumption DEF Idle, NoRow, Row, Local

\* Every initial state is well typed.
LEMMA InitType == Init => TypeOK
<1> SUFFICES ASSUME Init
             PROVE  TypeOK
  OBVIOUS
<1>1. \A k : NoRow(k) \in Row
  BY DEF NoRow, Row
<1>2. StarterConfig \in Configs
  BY ConfigAssumption
<1> QED
  BY <1>1, <1>2, IdleType DEF Init, TypeOK, DraftRow

-----------------------------------------------------------------------------
(* The inductive invariant.                                                *)

IInv ==
  /\ TypeOK
  /\ TransactionInv
  /\ LocksAreHeld
  /\ VersionsContiguous
  /\ PublishedOnce
  /\ RuntimeMatchesActive

\* In rows numbered 1 to n, get_active_config finds the row with number n.
LEMMA LatestIsLast ==
  ASSUME NEW rows, rows # {}, NEW n \in Nat, {v.version : v \in rows} = 1..n
  PROVE  Latest(rows) \in rows /\ Latest(rows).version = n
<1>1. \A w \in rows : w.version \in 1..n
  OBVIOUS
<1>2. n \in 1..n
  <2>1. PICK x \in rows : TRUE
    OBVIOUS
  <2> QED
    BY <1>1, <2>1
<1>3. PICK v \in rows : v.version = n
  BY <1>2
<1>4. \A w \in rows : w.version <= v.version
  <2> SUFFICES ASSUME NEW w \in rows
               PROVE  w.version <= v.version
    OBVIOUS
  <2>1. w.version \in 1..n
    BY <1>1
  <2> QED
    BY <1>3, <2>1
<1>5. Latest(rows) \in rows /\ \A w \in rows : w.version <= Latest(rows).version
  BY <1>4 DEF Latest
<1>6. Latest(rows).version \in 1..n /\ n <= Latest(rows).version
  BY <1>1, <1>3, <1>5
<1> QED
  BY <1>5, <1>6

\* The active configuration is the version published last.
LEMMA ActiveIsLast ==
  ASSUME TypeOK, VersionsContiguous, versions # {}
  PROVE  Active \in versions /\ Active.version = nextVersion - 1
<1>1. nextVersion - 1 \in Nat
  BY DEF TypeOK
<1> QED
  BY <1>1, LatestIsLast DEF Active, VersionsContiguous

\* The initial states satisfy the invariant.
LEMMA InitInv == Init => IInv
<1> SUFFICES ASSUME Init
             PROVE  IInv
  OBVIOUS
<1>1. TypeOK
  BY InitType
<1>2. TransactionInv
  BY DEF Init, TransactionInv, InTransaction
<1>3. VersionsContiguous
  BY DEF Init, VersionsContiguous
<1>4. PublishedOnce
  BY DEF Init, PublishedOnce
<1>5. RuntimeMatchesActive
  BY DEF Init, RuntimeMatchesActive
<1>6. LocksAreHeld
  BY DEF Init, LocksAreHeld
<1> QED
  BY <1>1, <1>2, <1>3, <1>4, <1>5, <1>6 DEF IInv

\* A step that leaves the versions and the runtime rows alone keeps what is
\* said of them.
LEMMA PublishedRowsUnchanged ==
  ASSUME VersionsContiguous, RuntimeMatchesActive,
         UNCHANGED <<versions, nextVersion, workflows, dashboards>>
  PROVE  VersionsContiguous' /\ RuntimeMatchesActive'
<1>1. Active' = Active
  BY DEF Active
<1> QED
  BY <1>1 DEF VersionsContiguous, RuntimeMatchesActive, Deployed

\* Creating a draft preserves the invariant.
LEMMA CreateDraftInv ==
  ASSUME IInv, NEW d \in Drafts, CreateDraft(d)
  PROVE  IInv'
<1> USE DEF IInv, CreateDraft
<1>1. versions # {} => Active.data \in Configs
  BY ActiveIsLast DEF TypeOK, Version
<1>2. TypeOK'
  BY <1>1, ConfigAssumption DEF TypeOK, DraftRow, locks
<1>3. TransactionInv'
  BY DEF TransactionInv, InTransaction, TypeOK, locks
<1>4. PublishedOnce'
  BY DEF PublishedOnce, TypeOK
<1>5. LocksAreHeld'
  BY DEF LocksAreHeld, InTransaction, TypeOK, locks
<1> QED
  BY <1>2, <1>3, <1>4, <1>5, PublishedRowsUnchanged

\* Reading a draft to update it preserves the invariant.
LEMMA UpdateDraftReadInv ==
  ASSUME IInv, NEW r \in Requests, NEW d \in Drafts, NEW payload \in Configs,
         UpdateDraftRead(r, d, payload)
  PROVE  IInv'
<1> USE DEF IInv, UpdateDraftRead, Goto, db
<1>1. [Idle EXCEPT !.draft = d, !.data = payload] \in Local
  BY IdleType DEF Local
<1>2. TypeOK'
  BY <1>1 DEF TypeOK, locks
<1>3. TransactionInv'
  BY DEF TransactionInv, InTransaction, TypeOK, locks, Idle
<1>4. PublishedOnce'
  BY DEF PublishedOnce
<1>5. LocksAreHeld'
  BY NamesAssumption DEF LocksAreHeld, InTransaction, TypeOK, locks
<1> QED
  BY <1>2, <1>3, <1>4, <1>5, PublishedRowsUnchanged

\* Saving an update preserves the invariant.
LEMMA UpdateDraftSaveInv ==
  ASSUME IInv, NEW r \in Requests, UpdateDraftSave(r)
  PROVE  IInv'
<1> USE DEF IInv, UpdateDraftSave, Done, Goto
<1>1. Idle \in Local
  BY IdleType
<1>2. TypeOK'
  <2>1. drafts' \in [Drafts -> DraftRow]
    <3>1. req[r].data \in Configs
      BY DEF TypeOK, Local
    <3> QED
      BY <3>1 DEF TypeOK, DraftRow
  <2>2. req' \in [Requests -> Local]
    BY <1>1 DEF TypeOK
  <2> QED
    BY <2>1, <2>2 DEF TypeOK, locks
<1>3. TransactionInv'
  BY NamesAssumption DEF TransactionInv, InTransaction, TypeOK, locks, Idle
<1>4. PublishedOnce'
  BY DEF PublishedOnce, TypeOK
<1>5. LocksAreHeld'
  BY NamesAssumption DEF LocksAreHeld, InTransaction, TypeOK, locks
<1> QED
  BY <1>2, <1>3, <1>4, <1>5, PublishedRowsUnchanged

\* The view's checks before a publish preserves the invariant.
LEMMA PublishCheckRoleInv ==
  ASSUME IInv, NEW r \in Requests, NEW d \in Drafts, NEW confirm \in BOOLEAN,
         NEW system \in BOOLEAN, PublishCheckRole(r, d, confirm, system)
  PROVE  IInv'
<1> USE DEF IInv, PublishCheckRole, Goto, db
<1>1. [Idle EXCEPT !.draft = d, !.confirm = confirm, !.system = system] \in Local
  BY IdleType DEF Local
<1>2. TypeOK'
  BY <1>1 DEF TypeOK, locks
<1>3. TransactionInv'
  BY DEF TransactionInv, InTransaction, TypeOK, locks, Idle
<1>4. PublishedOnce'
  BY DEF PublishedOnce
<1>5. LocksAreHeld'
  BY NamesAssumption DEF LocksAreHeld, InTransaction, TypeOK, locks
<1> QED
  BY <1>2, <1>3, <1>4, <1>5, PublishedRowsUnchanged

\* Locking and checking the draft preserves the invariant.
LEMMA PublishLockDraftInv ==
  ASSUME IInv, NEW r \in Requests, PublishLockDraft(r)
  PROVE  IInv'
<1> USE DEF IInv, Goto, db
<1>1. req[r].draft \in Drafts /\ req[r] \in Local
  BY DEF PublishLockDraft, TransactionInv, TypeOK
<1>2. CASE /\ Publishable(r)
           /\ draftLock' = [draftLock EXCEPT ![req[r].draft] = r]
           /\ req' = [req EXCEPT ![r].data = drafts[req[r].draft].data]
           /\ Goto(r, "checked")
  <2> USE <1>2 DEF PublishLockDraft
  <2>1. [req[r] EXCEPT !.data = drafts[req[r].draft].data] \in Local
    BY <1>1 DEF Local, TypeOK, DraftRow
  <2>2. TypeOK'
    BY <1>1, <2>1 DEF TypeOK
  <2>3. drafts[req[r].draft] = [status |-> "draft", data |-> drafts[req[r].draft].data]
    BY <1>1 DEF Publishable, TypeOK, DraftRow
  <2>4. TransactionInv'
    BY <1>1, <2>3, NamesAssumption DEF TransactionInv, InTransaction, TypeOK
  <2>5. PublishedOnce'
    BY DEF PublishedOnce
  <2>6. LocksAreHeld'
    BY <1>1, NamesAssumption DEF LocksAreHeld, InTransaction, TypeOK
  <2> QED
    BY <2>2, <2>4, <2>5, <2>6, PublishedRowsUnchanged
<1>3. CASE ~Publishable(r) /\ Done(r) /\ UNCHANGED draftLock
  <2> USE <1>3 DEF PublishLockDraft, Done
  <2>1. TypeOK'
    BY IdleType DEF TypeOK
  <2>2. TransactionInv'
    BY DEF TransactionInv, InTransaction, TypeOK, Idle
  <2>3. PublishedOnce'
    BY DEF PublishedOnce
  <2>4. LocksAreHeld'
    BY NamesAssumption DEF LocksAreHeld, InTransaction, TypeOK
  <2> QED
    BY <2>1, <2>2, <2>3, <2>4, PublishedRowsUnchanged
<1> QED
  BY <1>2, <1>3 DEF PublishLockDraft

\* Drawing a version number preserves the invariant.
LEMMA PublishAllocateVersionInv ==
  ASSUME IInv, NEW r \in Requests, PublishAllocateVersion(r)
  PROVE  IInv'
<1>1. [req[r] EXCEPT !.version = nextVersion] \in Local
  <2>1. req[r] \in Local /\ nextVersion \in Nat
    BY DEF IInv, TypeOK
  <2> QED
    BY <2>1 DEF Local
<1> USE DEF IInv, PublishAllocateVersion, Goto, db
<1>2. TypeOK'
  BY <1>1 DEF TypeOK
<1>3. TransactionInv'
  BY NamesAssumption DEF TransactionInv, InTransaction, TypeOK
<1>4. PublishedOnce'
  BY DEF PublishedOnce
<1>5. LocksAreHeld'
  BY NamesAssumption DEF LocksAreHeld, InTransaction, TypeOK
<1> QED
  BY <1>2, <1>3, <1>4, <1>5, PublishedRowsUnchanged

\* Computing the runtime rows preserves the invariant.
LEMMA PublishSyncRuntimeInv ==
  ASSUME IInv, NEW r \in Requests, PublishSyncRuntime(r)
  PROVE  IInv'
<1> USE DEF IInv, PublishSyncRuntime, Goto, db, locks
<1>1. req[r] \in Local
  BY DEF TypeOK
<1>2. /\ SyncWorkflows(workflows, req[r].data, req[r].version) \in [WorkflowKeys -> Row]
      /\ SyncDashboards(dashboards, req[r].data, req[r].version) \in [DashboardKeys -> Row]
  BY <1>1, SyncType DEF TypeOK, Local
<1>3. [req[r] EXCEPT
         !.workflows = SyncWorkflows(workflows, req[r].data, req[r].version),
         !.dashboards = SyncDashboards(dashboards, req[r].data, req[r].version)] \in Local
  BY <1>1, <1>2 DEF Local
<1>4. TypeOK'
  BY <1>3 DEF TypeOK
<1>5. TransactionInv'
  BY <1>1 DEF TransactionInv, InTransaction, TypeOK, Local
<1>6. PublishedOnce'
  BY DEF PublishedOnce
<1>7. LocksAreHeld'
  BY NamesAssumption DEF LocksAreHeld, InTransaction, TypeOK
<1> QED
  BY <1>4, <1>5, <1>6, <1>7, PublishedRowsUnchanged

\* Rolling back preserves the invariant.
LEMMA PublishRollbackInv ==
  ASSUME IInv, NEW r \in Requests, PublishRollback(r)
  PROVE  IInv'
<1> USE DEF IInv, PublishRollback, ReleaseLocks, Done, Goto, db
<1>1. TypeOK'
  BY IdleType DEF TypeOK
<1>2. TransactionInv'
  BY DEF TransactionInv, InTransaction, TypeOK, Idle
<1>3. PublishedOnce'
  BY DEF PublishedOnce
<1>4. LocksAreHeld'
  BY NamesAssumption DEF LocksAreHeld, InTransaction, TypeOK
<1> QED
  BY <1>1, <1>2, <1>3, <1>4, PublishedRowsUnchanged

\* Rows computed by a publish are what that configuration deploys.
LEMMA SyncDeploys ==
  ASSUME NEW config \in Configs, NEW version \in Nat,
         NEW wrows \in [WorkflowKeys -> Row], NEW drows \in [DashboardKeys -> Row]
  PROVE  /\ Deployed(SyncWorkflows(wrows, config, version), config.workflows, version)
         /\ Deployed(SyncDashboards(drows, config, version), config.dashboards, version)
<1>1. Deployed(SyncWorkflows(wrows, config, version), config.workflows, version)
  BY DEF Deployed, SyncWorkflows, Row
<1>2. Deployed(SyncDashboards(drows, config, version), config.dashboards, version)
  BY DEF Deployed, SyncDashboards, Row, NoRow
<1> QED
  BY <1>1, <1>2

\* Committing a publish preserves the invariant.
LEMMA PublishCommitInv ==
  ASSUME IInv, NEW r \in Requests, PublishCommit(r)
  PROVE  IInv'
<1> DEFINE d == req[r].draft
           new == [version |-> req[r].version, data |-> req[r].data, draft |-> d,
                   confirm |-> req[r].confirm, system |-> req[r].system]
<1> USE DEF IInv
<1>1. /\ req[r] \in Local
      /\ d \in Drafts
      /\ draftLock[d] = r /\ sequenceLock = r
      /\ drafts[d] = [status |-> "draft", data |-> req[r].data]
      /\ req[r].version = nextVersion
      /\ req[r].workflows = SyncWorkflows(workflows, req[r].data, req[r].version)
      /\ req[r].dashboards = SyncDashboards(dashboards, req[r].data, req[r].version)
  BY DEF PublishCommit, TransactionInv, InTransaction, TypeOK
<1>2. /\ versions' = versions \cup {new}
      /\ nextVersion' = nextVersion + 1
      /\ workflows' = req[r].workflows
      /\ dashboards' = req[r].dashboards
      /\ drafts' = [drafts EXCEPT ![d].status = "published"]
      /\ ReleaseLocks(r)
      /\ Done(r)
  BY <1>1 DEF PublishCommit
<1> HIDE DEF new
<1>n. new.version = nextVersion /\ new.draft = d /\ new.data = req[r].data
  BY <1>1 DEF new
<1>3. \A v \in versions : v.draft # d
  BY <1>1 DEF PublishedOnce
<1>4. \A v \in versions : v.version \in 1..(nextVersion - 1)
  BY DEF VersionsContiguous
<1>5. TypeOK'
  <2>1. new \in Version
    BY <1>1 DEF Local, Version, TypeOK, new
  <2>2. drafts' \in [Drafts -> DraftRow]
    BY <1>1, <1>2 DEF TypeOK, DraftRow
  <2>3. req' \in [Requests -> Local] /\ pc' \in [Requests ->
          {"idle", "updating", "publishing", "checked", "allocated", "synced"}]
    BY <1>2, IdleType DEF Done, Goto, TypeOK
  <2>4. draftLock' \in [Drafts -> Requests \cup {None}] /\ sequenceLock' \in Requests \cup {None}
    BY <1>2 DEF ReleaseLocks, TypeOK
  <2>5. workflows' \in [WorkflowKeys -> Row] /\ dashboards' \in [DashboardKeys -> Row]
    BY <1>1, <1>2 DEF Local
  <2>6. versions' \in SUBSET Version /\ nextVersion' \in Nat \ {0}
    BY <1>2, <2>1 DEF TypeOK
  <2> QED
    BY <2>2, <2>3, <2>4, <2>5, <2>6 DEF TypeOK
<1>6. VersionsContiguous'
  <2>1. {v.version : v \in versions'} = {v.version : v \in versions} \cup {nextVersion}
    BY <1>2, <1>n
  <2>2. 1..(nextVersion' - 1) = 1..(nextVersion - 1) \cup {nextVersion}
    BY <1>2 DEF TypeOK
  <2>3. \A v \in versions : v.version # new.version
    BY <1>4, <1>n DEF TypeOK
  <2>4. \A v, w \in versions' : v.version = w.version => v = w
    BY <1>2, <2>3 DEF VersionsContiguous
  <2> QED
    BY <2>1, <2>2, <2>4 DEF VersionsContiguous
<1>7. Active' = new
  <2>1. versions' # {}
    BY <1>2
  <2>2. nextVersion' - 1 = nextVersion /\ nextVersion \in Nat
    BY <1>2 DEF TypeOK
  <2>3. {v.version : v \in versions'} = 1..nextVersion
    BY <1>6, <2>2 DEF VersionsContiguous
  <2>4. Latest(versions') \in versions' /\ Latest(versions').version = new.version
    BY <1>n, <2>1, <2>2, <2>3, LatestIsLast
  <2> QED
    BY <1>2, <1>6, <2>4 DEF VersionsContiguous, Active
<1>8. PublishedOnce'
  <2>1. drafts'[d].status = "published" /\ \A e \in Drafts \ {d} : drafts'[e] = drafts[e]
    BY <1>1, <1>2 DEF TypeOK, DraftRow
  <2> QED
    BY <1>2, <1>3, <1>n, <2>1 DEF PublishedOnce
<1>9. TransactionInv'
  <2> SUFFICES ASSUME NEW q \in Requests, q # r
               PROVE  TransactionInv!(q)'
    BY <1>2 DEF TransactionInv, Done, Goto, TypeOK, InTransaction
  <2>1. pc'[q] = pc[q] /\ req'[q] = req[q] /\ pc[q] \notin {"allocated", "synced"}
    BY <1>1, <1>2 DEF Done, Goto, TypeOK, TransactionInv
  <2>2. InTransaction(q) => req[q].draft # d /\ req[q].draft \in Drafts
    BY <1>1 DEF TransactionInv, InTransaction
  <2>3. pc[q] # "idle" => req[q].draft \in Drafts /\ drafts'[req[q].draft].status # "absent"
    BY <1>1, <1>2 DEF TransactionInv, TypeOK
  <2> QED
    BY <1>1, <1>2, <2>1, <2>2, <2>3
      DEF TransactionInv, InTransaction, ReleaseLocks, TypeOK
<1>10. RuntimeMatchesActive'
  <2>1. /\ Deployed(workflows', req[r].data.workflows, nextVersion)
        /\ Deployed(dashboards', req[r].data.dashboards, nextVersion)
    <3>1. req[r].data \in Configs /\ nextVersion \in Nat
      BY <1>1 DEF TypeOK, Local
    <3>2. workflows \in [WorkflowKeys -> Row] /\ dashboards \in [DashboardKeys -> Row]
      BY DEF TypeOK
    <3>3. /\ Deployed(SyncWorkflows(workflows, req[r].data, nextVersion),
                      req[r].data.workflows, nextVersion)
          /\ Deployed(SyncDashboards(dashboards, req[r].data, nextVersion),
                      req[r].data.dashboards, nextVersion)
      BY <3>1, <3>2, SyncDeploys
    <3> QED
      BY <1>1, <1>2, <3>3
  <2> QED
    BY <1>7, <1>n, <2>1 DEF RuntimeMatchesActive, Deployed
<1>11. LocksAreHeld'
  BY <1>1, <1>2, NamesAssumption DEF LocksAreHeld, InTransaction, TypeOK, ReleaseLocks, Done, Goto
<1> QED
  BY <1>5, <1>6, <1>8, <1>9, <1>10, <1>11

\* Every step of the specification preserves the invariant.
LEMMA NextInv == IInv /\ [Next]_vars => IInv'
<1> SUFFICES ASSUME IInv, [Next]_vars
             PROVE  IInv'
  OBVIOUS
<1>1. CASE UNCHANGED vars
  BY <1>1 DEF IInv, vars, db, locks, TypeOK, TransactionInv, InTransaction, LocksAreHeld,
              VersionsContiguous, PublishedOnce, RuntimeMatchesActive, Active, Deployed
<1>2. CASE Next
  BY <1>2, CreateDraftInv, UpdateDraftReadInv, UpdateDraftSaveInv, PublishCheckRoleInv,
     PublishLockDraftInv, PublishAllocateVersionInv, PublishSyncRuntimeInv,
     PublishCommitInv, PublishRollbackInv
     DEF Next, Publish
<1> QED
  BY <1>1, <1>2

\* The invariant holds in every reachable state.
THEOREM Invariance == Spec => []IInv
BY InitInv, NextInv, PTL DEF Spec

-----------------------------------------------------------------------------
(* The properties the runs check, for every value of the constants.        *)

\* Who holds a lock that somebody waits for is in a transaction, and waits at
\* most for the sequence.
LEMMA HoldersWaitForTheSequence ==
  ASSUME IInv, NEW q \in Requests, NEW r \in Requests, WaitsFor(q, r)
  PROVE  /\ InTransaction(r)
         /\ pc[q] = "checked" => pc[r] \in {"allocated", "synced"}
<1>1. r # None
  BY NamesAssumption
<1>2. CASE pc[q] \in {"publishing", "updating"} /\ draftLock[req[q].draft] = r
  <2>1. req[q].draft \in Drafts
    BY <1>2 DEF IInv, TransactionInv
  <2> QED
    BY <1>1, <1>2, <2>1 DEF IInv, LocksAreHeld
<1>3. CASE pc[q] = "checked" /\ sequenceLock = r
  BY <1>1, <1>3 DEF IInv, LocksAreHeld, InTransaction
<1> QED
  BY <1>2, <1>3 DEF WaitsFor

\* So waiting ends after two requests.
LEMMA NoCircle == IInv => NoCircularWait
<1> SUFFICES ASSUME IInv, NEW q \in Requests, NEW r \in Requests, NEW s \in Requests,
                    WaitsFor(q, r), WaitsFor(r, s), NEW t \in Requests, WaitsFor(s, t)
             PROVE  FALSE
  BY DEF NoCircularWait
<1>1. InTransaction(r)
  BY HoldersWaitForTheSequence
<1>2. pc[r] = "checked"
  BY <1>1 DEF WaitsFor, InTransaction
<1>3. pc[s] \in {"allocated", "synced"}
  BY <1>2, HoldersWaitForTheSequence
<1> QED
  BY <1>3 DEF WaitsFor

\* Rows, locks and local variables keep their types; version numbers are never
\* reused or skipped (services.py 626-634); a draft is published at most once,
\* and is marked published exactly when its version exists (361-370); what a
\* publish checked, drew and computed still holds when it commits (361-403); the
\* running workflows and dashboards are those of the active version (685-1003);
\* no lock outlives its transaction, and no circle of requests wait for each other.
THEOREM RegistryStaysConsistent == Spec => []RegistryIsConsistent
<1>1. IInv => RegistryIsConsistent
  BY NoCircle DEF IInv, RegistryIsConsistent
<1> QED
  BY <1>1, Invariance, PTL

-----------------------------------------------------------------------------
(* Every publish is one step of ConfigHistory.                             *)

\* A function on 1..n is a sequence, and Append extends it at n + 1.
LEMMA AppendToFunction ==
  ASSUME NEW n \in Nat, NEW f, f = [i \in 1..n |-> f[i]], NEW x,
         NEW g, g = [i \in 1..(n + 1) |-> g[i]],
         \A i \in 1..n : g[i] = f[i], g[n + 1] = x
  PROVE  g = Append(f, x)
<1> DEFINE T == {f[i] : i \in 1..n} \cup {x}
<1>1. f \in Seq(T) /\ Len(f) = n
  BY DEF T
<1>2. Append(f, x) \in Seq(T) /\ Len(Append(f, x)) = n + 1
  BY <1>1
<1>3. \A i \in 1..n : Append(f, x)[i] = f[i]
  BY <1>1
<1>4. Append(f, x)[n + 1] = x
  BY <1>1
<1>5. \A i \in 1..(n + 1) : g[i] = Append(f, x)[i]
  <2>1. \A i \in 1..(n + 1) : i \in 1..n \/ i = n + 1
    OBVIOUS
  <2> QED
    BY <1>3, <1>4, <2>1
<1>6. Append(f, x) = [i \in 1..(n + 1) |-> Append(f, x)[i]]
  BY <1>2
<1> QED
  BY <1>5, <1>6

HistoryBar == [n \in 1..(nextVersion - 1) |-> VersionData(n)]

RunningBar == [k \in WorkflowKeys \ HandMade |->
                 IF workflows[k].state = "active" THEN workflows[k].definition ELSE None]

\* Rows of hand-made keys, and only those, are unmanaged.
HandMadeInv ==
  \A k \in WorkflowKeys : workflows[k].state = "unmanaged" <=> k \in HandMade

\* No publish takes over a hand-made row or gives one up.
LEMMA HandMadeInvariance == Spec => []HandMadeInv
<1>1. Init => HandMadeInv
  BY DEF Init, HandMadeInv, NoRow
<1>2. IInv /\ HandMadeInv /\ [Next]_vars => HandMadeInv'
  <2> SUFFICES ASSUME IInv, HandMadeInv, [Next]_vars
               PROVE  HandMadeInv'
    OBVIOUS
  <2>1. CASE UNCHANGED workflows
    BY <2>1 DEF HandMadeInv
  <2>2. ASSUME NEW r \in Requests, PublishCommit(r)
        PROVE  HandMadeInv'
    <3>1. workflows' = SyncWorkflows(workflows, req[r].data, req[r].version)
      BY <2>2 DEF PublishCommit, IInv, TransactionInv
    <3> QED
      BY <3>1 DEF HandMadeInv, SyncWorkflows, IInv, TypeOK, Row
  <2> QED
    BY <2>1, <2>2 DEF Next, Publish, vars, db, CreateDraft, UpdateDraftRead,
       UpdateDraftSave, PublishCheckRole, PublishLockDraft, PublishAllocateVersion,
       PublishSyncRuntime, PublishRollback
<1> QED
  BY <1>1, <1>2, Invariance, PTL DEF Spec

\* The initial states map to the initial state of the history.
LEMMA InitRefines == Init => History!Init
<1> SUFFICES ASSUME Init
             PROVE  History!Init
  OBVIOUS
<1>1. 1..(nextVersion - 1) = {}
  BY DEF Init
<1>2. HistoryBar = <<>>
  BY <1>1 DEF HistoryBar
<1>3. RunningBar = [k \in WorkflowKeys \ HandMade |-> None]
  BY DEF RunningBar, Init, NoRow
<1> QED
  BY <1>2, <1>3 DEF History!Init, HistoryBar, RunningBar

\* A commit maps to a Publish step.
LEMMA CommitRefines ==
  ASSUME IInv, HandMadeInv, NEW r \in Requests, PublishCommit(r)
  PROVE  History!Publish(req[r].data)
<1> DEFINE new == [version |-> req[r].version, data |-> req[r].data,
                   draft |-> req[r].draft, confirm |-> req[r].confirm,
                   system |-> req[r].system]
<1>1. /\ req[r].version = nextVersion
      /\ versions' = versions \cup {new}
      /\ nextVersion' = nextVersion + 1
      /\ workflows' = SyncWorkflows(workflows, req[r].data, req[r].version)
  BY DEF PublishCommit, IInv, TransactionInv, InTransaction
<1>2. nextVersion - 1 \in Nat /\ nextVersion' - 1 = (nextVersion - 1) + 1
  BY <1>1 DEF IInv, TypeOK
<1>3. \A v \in versions : v.version \in 1..(nextVersion - 1)
  BY DEF IInv, VersionsContiguous
<1> HIDE DEF new
<1>4. new.version = nextVersion /\ new.data = req[r].data
  BY <1>1 DEF new
<1>5. (CHOOSE v \in versions' : v.version = nextVersion).data = req[r].data
  <2>1. \A v \in versions' : v.version = nextVersion => v = new
    BY <1>1, <1>2, <1>3, <1>4
  <2> QED
    BY <1>1, <1>4, <2>1
<1>6. \A n \in 1..(nextVersion - 1) : VersionData(n)' = VersionData(n)
  <2> SUFFICES ASSUME NEW n \in 1..(nextVersion - 1)
               PROVE  VersionData(n)' = VersionData(n)
    OBVIOUS
  <2>1. n # nextVersion
    BY <1>2
  <2>2. PICK v \in versions : v.version = n
    BY DEF IInv, VersionsContiguous
  <2>3. \A w \in versions' : w.version = n <=> w = v
    BY <1>1, <1>4, <2>1, <2>2 DEF IInv, VersionsContiguous
  <2>4. (CHOOSE w \in versions' : w.version = n) = v
    BY <1>1, <2>2, <2>3
  <2>5. (CHOOSE w \in versions : w.version = n) = v
    BY <1>1, <2>2, <2>3
  <2> QED
    BY <2>4, <2>5 DEF VersionData
<1>7. HistoryBar' = Append(HistoryBar, req[r].data)
  <2>1. HistoryBar' = [n \in 1..((nextVersion - 1) + 1) |-> HistoryBar'[n]]
    BY <1>2 DEF HistoryBar
  <2>2. \A n \in 1..(nextVersion - 1) : HistoryBar'[n] = HistoryBar[n]
    BY <1>2, <1>6 DEF HistoryBar
  <2>3. HistoryBar'[(nextVersion - 1) + 1] = req[r].data
    <3>1. HistoryBar' = [n \in 1..(nextVersion' - 1) |->
                           (CHOOSE v \in versions' : v.version = n).data]
      BY DEF HistoryBar, VersionData
    <3>2. (nextVersion - 1) + 1 = nextVersion /\ nextVersion \in 1..(nextVersion' - 1)
      BY <1>1, <1>2 DEF IInv, TypeOK
    <3> QED
      BY <1>5, <3>1, <3>2
  <2>4. HistoryBar = [n \in 1..(nextVersion - 1) |-> HistoryBar[n]]
    BY DEF HistoryBar
  <2> QED
    BY <1>2, <2>1, <2>2, <2>3, <2>4, AppendToFunction
<1>8. RunningBar' = History!Deployment(req[r].data)
  BY <1>1 DEF RunningBar, SyncWorkflows, History!Deployment, HandMadeInv, IInv, TypeOK, Row
<1> QED
  BY <1>7, <1>8 DEF History!Publish, HistoryBar, RunningBar

\* ConfigRegistry implements ConfigHistory: whatever the interleaving of
\* requests, publishes take effect one at a time and as a whole
\* (publish_draft, services.py 353-416).
THEOREM PublishRefinesHistory == Spec => PublishIsAtomic
<1>1. IInv /\ HandMadeInv /\ [Next]_vars => [History!Next]_<<HistoryBar, RunningBar>>
  <2> SUFFICES ASSUME IInv, HandMadeInv, [Next]_vars
               PROVE  [History!Next]_<<HistoryBar, RunningBar>>
    OBVIOUS
  <2>1. CASE UNCHANGED <<versions, nextVersion, workflows>>
    BY <2>1 DEF HistoryBar, RunningBar, VersionData
  <2>2. ASSUME NEW r \in Requests, PublishCommit(r)
        PROVE  History!Next
    <3>1. req[r].data \in Configs
      BY DEF IInv, TypeOK, Local
    <3> QED
      BY <2>2, <3>1, CommitRefines DEF History!Next, History!Publish
  <2> QED
    BY <2>1, <2>2 DEF Next, Publish, vars, db, CreateDraft, UpdateDraftRead,
       UpdateDraftSave, PublishCheckRole, PublishLockDraft, PublishAllocateVersion,
       PublishSyncRuntime, PublishRollback
<1> QED
  BY <1>1, InitRefines, Invariance, HandMadeInvariance, PTL
    DEF Spec, PublishIsAtomic, History!Spec, HistoryBar, RunningBar

-----------------------------------------------------------------------------
(* Published drafts.                                                       *)

\* A request that waits to save its update may write over a draft that has been
\* published, but none reads a published draft to update it.
LEMMA SettledStays ==
  ASSUME IInv, [Next]_vars, NEW d \in Drafts, Settled(d)
  PROVE  Settled(d)' /\ drafts'[d] = drafts[d]
<1>1. drafts[d] \in DraftRow /\ drafts[d].status = "published"
  BY DEF IInv, TypeOK, Settled
<1>2. CASE UNCHANGED <<drafts, pc, req>>
  BY <1>2 DEF Settled
<1>3. ASSUME NEW e \in Drafts, CreateDraft(e)
      PROVE  Settled(d)' /\ drafts'[d] = drafts[d]
  <2>1. e # d
    BY <1>1, <1>3 DEF CreateDraft
  <2>2. drafts'[d] = drafts[d]
    BY <1>3, <2>1 DEF CreateDraft, IInv, TypeOK
  <2> QED
    BY <1>3, <2>2 DEF CreateDraft, Settled
<1>4. ASSUME NEW r \in Requests, NEW e \in Drafts, NEW payload \in Configs, UpdateDraftRead(r, e, payload)
      PROVE  Settled(d)' /\ drafts'[d] = drafts[d]
  <2>1. e # d /\ drafts' = drafts
    BY <1>1, <1>4 DEF UpdateDraftRead, db
  <2>2. req'[r].draft = e /\ \A q \in Requests \ {r} : pc'[q] = pc[q] /\ req'[q] = req[q]
    BY <1>4 DEF UpdateDraftRead, Goto, IInv, TypeOK, Idle
  <2> QED
    BY <2>1, <2>2 DEF Settled
<1>5. ASSUME NEW r \in Requests, UpdateDraftSave(r)
      PROVE  Settled(d)' /\ drafts'[d] = drafts[d]
  <2>1. req[r].draft # d
    BY <1>5 DEF UpdateDraftSave, Settled
  <2>2. drafts'[d] = drafts[d]
    BY <1>5, <2>1 DEF UpdateDraftSave, IInv, TypeOK
  <2>3. pc'[r] = "idle" /\ \A q \in Requests \ {r} : pc'[q] = pc[q] /\ req'[q] = req[q]
    BY <1>5 DEF UpdateDraftSave, Done, Goto, IInv, TypeOK
  <2> QED
    BY <2>2, <2>3 DEF Settled
<1>6. ASSUME NEW r \in Requests, drafts' = drafts \/ PublishCommit(r), pc'[r] # "updating",
             \A q \in Requests \ {r} : pc'[q] = pc[q] /\ req'[q] = req[q]
      PROVE  Settled(d)' /\ drafts'[d] = drafts[d]
  <2>1. CASE drafts' = drafts
    BY <1>6, <2>1 DEF Settled
  <2>2. CASE PublishCommit(r)
    <3>1. req[r].draft # d
      <4>1. drafts[req[r].draft] = [status |-> "draft", data |-> req[r].data]
        BY <2>2 DEF PublishCommit, IInv, TransactionInv, InTransaction
      <4>2. drafts[req[r].draft].status = "draft"
        BY <4>1
      <4> QED
        BY <1>1, <4>2
    <3>2. drafts'[d] = drafts[d]
      BY <2>2, <3>1 DEF PublishCommit, IInv, TypeOK
    <3> QED
      BY <1>6, <3>2 DEF Settled
  <2> QED
    BY <1>6, <2>1, <2>2
<1>7. ASSUME NEW r \in Requests, NEW e \in Drafts, NEW confirm \in BOOLEAN, NEW system \in BOOLEAN,
             PublishCheckRole(r, e, confirm, system)
      PROVE  Settled(d)' /\ drafts'[d] = drafts[d]
  BY <1>6, <1>7 DEF PublishCheckRole, Goto, db, IInv, TypeOK
<1>8. ASSUME NEW r \in Requests, Publish(r) \/ PublishRollback(r)
      PROVE  Settled(d)' /\ drafts'[d] = drafts[d]
  <2>1. drafts' = drafts \/ PublishCommit(r)
    BY <1>8 DEF Publish, PublishLockDraft, PublishAllocateVersion, PublishSyncRuntime, PublishRollback, db
  <2>2. pc'[r] # "updating" /\ \A q \in Requests \ {r} : pc'[q] = pc[q] /\ req'[q] = req[q]
    BY <1>8 DEF Publish, PublishLockDraft, PublishAllocateVersion, PublishSyncRuntime, PublishCommit,
       PublishRollback, Done, Goto, IInv, TypeOK
  <2> QED
    BY <1>6, <2>1, <2>2
<1> QED
  BY <1>2, <1>3, <1>4, <1>5, <1>7, <1>8 DEF Next, vars, db

\* Whatever the interleaving of requests: publishes take effect one at a time
\* and as a whole (publish_draft, services.py 353-416), and no draft changes any
\* more once it is published and the updates that had read it before are saved
\* (update_config_draft, views.py 103-116).
THEOREM PublicationStaysFinal == Spec => PublicationIsFinal
<1>1. IInv /\ [Next]_vars => [\A d \in Drafts : Settled(d) => Settled(d)' /\ drafts'[d] = drafts[d]]_vars
  BY SettledStays
<1>2. Spec => PublishedDraftsAreFinal
  BY <1>1, Invariance, PTL DEF Spec, PublishedDraftsAreFinal
<1> QED
  BY <1>2, PublishRefinesHistory DEF PublicationIsFinal
=============================================================================
