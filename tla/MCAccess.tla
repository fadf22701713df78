------------------------------ MODULE MCAccess ------------------------------
(* Two roles, one of them held by nobody at first, three records of two      *)
(* types and an older audit event of every kind.                             *)
EXTENDS Reports

MCRoles == {"System Admin", "Configuration Admin", "engineers", "managers"}

MCTypeOf == [r \in {"p1", "p2", "j"} |-> IF r = "j" THEN "project" ELSE "part"]

MCInitialUsers ==
  [u \in {"root", "ann"} |->
    IF u = "root" THEN [active |-> TRUE, superuser |-> TRUE, roles |-> {}] ELSE None]

MCNewUsers == {[active |-> TRUE, superuser |-> FALSE, roles |-> {"engineers"}]}

MCPatchInputs ==
  {[active |-> TRUE, superuser |-> FALSE, roles |-> {"engineers", "managers", "Configuration Admin"}],
   [active |-> None, superuser |-> FALSE, roles |-> None],
   [active |-> FALSE, superuser |-> None, roles |-> None]}

MCMatchesOf == [text \in {"an", "x"} |-> IF text = "an" THEN {"ann"} ELSE {}]

MCDefinitions == {{[key |-> "uses", source |-> "part", target |-> None]},
                  {[key |-> "uses", source |-> None, target |-> "part"]}}

MCStatusOf == [r \in {"p1", "p2", "j"} |-> IF r = "p1" THEN "released" ELSE "draft"]

MCDocumentTypesOf == [r \in {"p1", "p2", "j"} |-> IF r = "p1" THEN {"sheet"} ELSE {}]

MCRecordOfObject == [o \in {"document", "project", "task", "workflowtask"} |->
                 IF o = "document" THEN "p1" ELSE IF o = "workflowtask" THEN "p2" ELSE "j"]

Event(type, id, payload, about) ==
  [object_type |-> type, object_id |-> id, payload |-> payload, about |-> about]

MCOldEvents ==
  <<Event("record", "p1", [key \in {"code"} |-> "c"], {"p1"}),
   Event("document", "document", [key \in {"owner_record_id"} |-> "p1"], {"p1"}),
   Event("project", "project", [key \in {"record_id"} |-> "j"], {"j"}),
   Event("projecttask", "task", [key \in {"project_id"} |-> "project"], {"j"}),
   Event("projecttaskdependency", "dependency", [key \in {"task_id"} |-> "task"], {"j"}),
   Event("workflowtask", "workflowtask", [key \in {"related_record_id"} |-> None], {"p2"}),
   Event("folderchangeevent", "event", [key \in {"matched_record_id"} |-> "p2"], {"p2"}),
   Event("importjob", "job", [key \in {"target_object_type"} |-> "part"], {})>>

AnyLink == [key |-> None, direction |-> "either", related |-> None]

MCFilters == {[types |-> {}, statuses |-> {}, link |-> None],
              [types |-> {}, statuses |-> {}, link |-> AnyLink],
              [types |-> {"part"}, statuses |-> {"draft"},
               link |-> [AnyLink EXCEPT !.direction = "incoming", !.related = "project"]]}

MCRequirements == <<[type |-> "part", documents |-> {"sheet"}], [type |-> "project", documents |-> {"plan"}]>>

MCOldLinks == {[key |-> "uses", source |-> "j", target |-> "p2"]}

MCLinkIds == [l \in Link |-> IF l.source = "j" THEN 1 ELSE 2]

MCLinkInputs == {[key |-> "uses", source |-> "p1", target |-> "j"]}

MCRecordsInOrder == <<"p1", "p2", "j">>

MCOverdueTasks == <<"j", "p1", "j">>

MCOpenTasks == <<[key |-> "review", record |-> "p1"], [key |-> "sign", record |-> "p2"],
                 [key |-> "review", record |-> "j"]>>

MCCards == [card \in {"active", "ready"} |-> IF card = "active" THEN {"draft"} ELSE {"released"}]
=============================================================================
