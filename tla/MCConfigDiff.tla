---------------------------- MODULE MCConfigDiff ----------------------------
(* The two looks that a publish takes at a draft.  Every pair of small       *)
(* schemas: a draft is edited and compared with the active one, one object   *)
(* type at a time.  And the data of the starter configuration, edited by     *)
(* hand, is validated and turned into rows.                                  *)
EXTENDS ConfigDrafts, TLC

MCRefType == [r \in Refs |-> CHOOSE t \in ObjectTypes : TRUE]

\* Fields whose options and targets are those their type reads.  Loose flags,
\* choices written as objects and odd targets one at a time.
MCFields ==
  {f \in Field :
     /\ f.type \notin {"choice", "multi_choice"} => f.options \cup f.valueOptions = {}
     /\ f.type # "record_ref" => {f.target, f.otherTarget} = {NoTarget}
     /\ f.loose # {} => f.type = "text" /\ f.loose \subseteq {flag \in Flags : f[flag]}
     /\ f.valueOptions # {} \/ OddTarget = f.target \/ f.otherTarget # NoTarget => ~f.required /\ ~f.unique
     /\ f.type = "multi_choice" => f.valueOptions = {}}

MCObjectTypes == UNION {[K -> MCFields] : K \in SUBSET FieldKeys}

\* Two object types are enough for the removal of one; the second has no fields.
MCSchemas ==
  LET t == CHOOSE x \in ObjectTypes : TRUE IN
  {[x \in T |-> IF x = t THEN fields ELSE [f \in {} |-> fields]] :
     T \in SUBSET ObjectTypes, fields \in MCObjectTypes}

-----------------------------------------------------------------------------
(* The starter configuration (fixtures/plastic_engineering_v1.json) with    *)
(* the fields that its workflows ask for.                                   *)

Text(key, required) == [key |-> key, type |-> "text", required |-> required, fits |-> TRUE]

Type(key, workflow, fields) == [key |-> key, workflow |-> workflow, fields |-> fields, fits |-> TRUE]

Step(from, to, guard, task) ==
  [key |-> Absent, from |-> from, to |-> to, guard |-> guard, task |-> task,
   guards |-> Absent, templates |-> Absent, fits |-> TRUE]

Workflow(key, states, transitions) ==
  [key |-> key, states |-> states, transitions |-> transitions, object_types |-> {}, fits |-> TRUE]

One(key) == <<[key |-> key, fits |-> TRUE]>>

MCStarter ==
  [object_types |-> <<
     Type("product", "engineering_record_release", <<Text("commercial_name", TRUE), Text("color", FALSE)>>),
     Type("raw_material", "raw_material_approval",
          <<Text("supplier_material_code", TRUE), Text("material_family", TRUE), Text("supplier", TRUE)>>),
     Type("product_spec", "product_spec_release",
          <<Text("spec_number", TRUE), Text("product", TRUE), Text("revision", TRUE)>>),
     Type("project", "project_gate_review",
          <<Text("project_name", TRUE), Text("project_type", TRUE), Text("target_launch_date", FALSE), Text("project_owner", FALSE)>>)>>,
   relationship_types |-> <<[key |-> "product_has_spec", source |-> "product", target |-> "product_spec"],
                            [key |-> "document_attached_to_record", source |-> "product", target |-> Absent]>>,
   form_layouts |-> One("product_default"),
   folder_templates |-> One("product_standard"),
   dashboards |-> <<[key |-> "engineering_overview", widgets |-> <<>>, fits |-> TRUE]>>,
   workflows |-> <<
     Workflow("engineering_record_release", <<"draft", "engineering_review", "quality_review", "released">>,
       <<Step("draft", "engineering_review", "required_fields_complete", "Engineering review"),
         Step("engineering_review", "quality_review", "engineering_approval", "Quality review"),
         Step("quality_review", "released", "quality_approval", "Release record")>>),
     Workflow("product_spec_release", <<"draft", "technical_review", "approval", "released">>,
       <<Step("draft", "technical_review", "spec_number_and_product_required", "Technical spec review"),
         Step("technical_review", "approval", "controlled_document_attached", "Approver signoff"),
         Step("approval", "released", "approval_complete", "Publish spec revision")>>),
     Workflow("raw_material_approval", <<"draft", "supplier_review", "technical_review", "approved">>,
       <<Step("draft", "supplier_review", "supplier_selected", "Supplier qualification review"),
         Step("supplier_review", "technical_review", "compliance_documents_available", "Material technical review"),
         Step("technical_review", "approved", "technical_and_quality_approval", "Approve material")>>),
     Workflow("project_gate_review", <<"idea", "scoping", "development", "launch_review", "closed">>,
       <<Step("idea", "scoping", "project_owner_assigned", "Gate 0 scoping review"),
         Step("scoping", "development", "scope_and_target_launch_confirmed", "Gate 1 development approval"),
         Step("development", "launch_review", "trial_and_spec_package_ready", "Gate 2 launch readiness"),
         Step("launch_review", "closed", "launch_approval_complete", "Close project")>>)>>]

\* _snake_case_token of the templates of the starter.
MCToken ==
  "Engineering review" :> "engineering_review" @@ "Quality review" :> "quality_review" @@
  "Release record" :> "release_record" @@ "Technical spec review" :> "technical_spec_review" @@
  "Approver signoff" :> "approver_signoff" @@ "Publish spec revision" :> "publish_spec_revision" @@
  "Supplier qualification review" :> "supplier_qualification_review" @@
  "Material technical review" :> "material_technical_review" @@ "Approve material" :> "approve_material" @@
  "Gate 0 scoping review" :> "gate_0_scoping_review" @@
  "Gate 1 development approval" :> "gate_1_development_approval" @@
  "Gate 2 launch readiness" :> "gate_2_launch_readiness" @@ "Close project" :> "close_project"

MCSnakeCase ==
  {"commercial_name", "color", "supplier_material_code", "material_family", "supplier", "spec_number", "revision",
   "project_name", "project_type", "target_launch_date", "project_owner", "product_has_spec",
   "document_attached_to_record", "product_default", "product_standard", "engineering_overview"}
  \cup Keys(MCStarter.object_types) \cup Keys(MCStarter.workflows)

Without(list, n) == SubSeq(list, 1, n - 1) \o SubSeq(list, n + 1, Len(list))

\* A list that somebody edits by hand.
Edited(list) ==
  IF ~IsList(list) THEN {}
  ELSE {Without(list, n) : n \in DOMAIN list}
       \cup {Append(list, list[n]) : n \in DOMAIN list}
       \cup {[list EXCEPT ![n] = NoObject] : n \in DOMAIN list}
       \cup {[list EXCEPT ![n].key = k] : n \in Objects(list), k \in {Absent, "Not a key"}}

\* A value that its column refuses.
Unfit(list) == {[list EXCEPT ![n].fits = FALSE] : n \in Objects(list)}

EditedFields(fields) ==
  Edited(fields) \cup {NoList} \cup Unfit(fields)
  \cup {[fields EXCEPT ![n].required = r] : n \in Objects(fields), r \in BOOLEAN}
  \cup {[fields EXCEPT ![n].type = Absent] : n \in Objects(fields)}

\* Guards and tasks that are written out.
Written ==
  {<<"guards", Needs({}, {}, {})>>, <<"guards", Needs({"commercial_name"}, {"engineering_review"}, {})>>,
   <<"templates", {}>>}
  \cup {<<"templates", {[key |-> "engineering_review", required |-> r]}>> : r \in BOOLEAN}

EditedTransitions(list) ==
  {Append(list, t) :
     t \in {list[n] : n \in DOMAIN list}
           \cup {Step(Absent, "draft", Absent, Absent), [Step("draft", "released", Absent, Absent) EXCEPT !.key = "skip"]}}
  \cup {Without(list, n) : n \in DOMAIN list}
  \cup {[list EXCEPT ![n][w[1]] = w[2]] : n \in Objects(list), w \in Written}
  \cup {[list EXCEPT ![n] = NoObject] : n \in DOMAIN list}
  \cup Unfit(list) \cup {NoList}

EditedWorkflow(workflow) ==
  {[workflow EXCEPT !.transitions = list] :
     list \in IF IsList(workflow.transitions) THEN EditedTransitions(workflow.transitions) ELSE {}}
  \cup {[workflow EXCEPT !.object_types = {t}] : t \in {"product", "project"}}
  \cup {[workflow EXCEPT !.key = "Not a key"], [workflow EXCEPT !.fits = FALSE]}

EditedSections(d) ==
  {[d EXCEPT ![s] = list] : s \in {"relationship_types", "form_layouts", "dashboards", "workflows"}, list \in {Absent, NoList}}
  \cup UNION {{[d EXCEPT ![s] = list] : list \in Edited(d[s])} : s \in {"object_types", "relationship_types", "folder_templates"}}
  \cup UNION {{[d EXCEPT ![s] = list] : list \in Unfit(d[s])} : s \in {"object_types", "form_layouts"}}
  \cup {[d EXCEPT !.dashboards[n].widgets = NoList] : n \in Objects(d.dashboards)}
  \cup {[d EXCEPT !.object_types = NoList]}

EditedTypes(d) ==
  UNION {{[d EXCEPT !.object_types[n].fields = fields] : fields \in EditedFields(d.object_types[n].fields)} :
           n \in Objects(d.object_types)}

EditedWorkflows(d) ==
  UNION {{[d EXCEPT !.workflows[n] = w] : w \in EditedWorkflow(d.workflows[n])} : n \in Objects(d.workflows)}

MCEditsOf(d) == EditedSections(d) \cup EditedTypes(d) \cup EditedWorkflows(d)
=============================================================================
