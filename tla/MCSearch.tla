------------------------------ MODULE MCSearch ------------------------------
(* A part that gets a document, a project with its record and an event that  *)
(* only its folder joins to the record.                                      *)
EXTENDS SearchQueries, TLC

MCUsers == {"root", "ann", "bob"}

MCInitialUsers ==
  [u \in MCUsers |-> [active |-> TRUE, superuser |-> u = "root",
                      roles |-> IF u = "ann" THEN {"engineers"} ELSE {"guests"}]]

MCTypeOf == [r \in {"p", "j"} |-> IF r = "j" THEN "project" ELSE "part"]

\* Engineers may view and edit parts and projects, but nothing of the record
\* j; guests may view the record j alone.
MCObjectGrants ==
  [g \in {"engineers", "guests"} \X {"part", "project"} |-> IF g[1] = "engineers" THEN {"view", "edit"} ELSE None]

MCRecordGrants ==
  [g \in {"engineers", "guests"} \X {"p", "j"} |->
     CASE g = <<"engineers", "j">> -> [type |-> "project", actions |-> {}]
       [] g = <<"guests", "j">> -> [type |-> "project", actions |-> {"view", "edit"}]
       [] OTHER -> None]

MCDefinitions == {{[key |-> "uses", source |-> None, target |-> None]}}

MCLinkInputs == {[key |-> "uses", source |-> "p", target |-> "j"]}

MCRecordOf == [o \in {"d", "x"} |-> IF o = "d" THEN "p" ELSE "j"]

MCMatchedRecord == [e \in {"e"} |-> None]

MCFolderRecord == [e \in {"e"} |-> "j"]

MCInitialRows ==
  [o \in {"p", "j", "d", "x", "e"} |->
     IF o = "d" THEN None ELSE [word |-> "w", status |-> IF o = "p" THEN "Draft" ELSE "draft", tag |-> "t"]]

MCRowInputs == {[word |-> "v", status |-> "released", tag |-> "s"]}

WorkerSymmetry == Permutations(Workers)

MCIndexOrder == <<"records", "documents", "projects", "folder_events">>

NoQuery == [word |-> None, index |-> None, type |-> None, statuses |-> {}, project_status |-> {}, tags |-> {}]

\* The tag "t" stands under a key that contains "v".
MCIndexMatches == [word \in {"v"} |-> {"v", "s"}]

MCTextContains == [word \in {"v"} |-> {"v"}]

MCJsonContains == [word \in {"v"} |-> {"t"}]

MCLower == [s \in {"Draft", "draft", "released"} |-> IF s = "Draft" THEN "draft" ELSE s]

MCRank == [o \in {"p", "j", "d", "x", "e"} |-> IF o = "j" THEN 1 ELSE 2]

MCQueries ==
  {[NoQuery EXCEPT !.statuses = {"draft"}], [NoQuery EXCEPT !.word = "v"],
   [NoQuery EXCEPT !.tags = {"s"}, !.index = "folder_events"],
   [NoQuery EXCEPT !.type = "project", !.project_status = {"released"}]}
=============================================================================
