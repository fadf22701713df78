----------------------------- MODULE MCFolders -----------------------------
(* A record whose directory two requests make, and an old directory in       *)
(* another one, with a file: an import links one of these to the record.     *)
EXTENDS Backups, TLC

MCUsers == {"root", "bob"}

MCInitialUsers ==
  [u \in MCUsers |-> [active |-> TRUE, superuser |-> u = "root", roles |-> IF u = "bob" THEN {"engineers"} ELSE {}]]

MCTypeOf == [r \in {"p"} |-> "part"]

MCObjectGrants == [g \in {"engineers"} \X {"part"} |-> {"view", "edit"}]

MCRecordGrants == [g \in {"engineers"} \X {"p"} |-> [type |-> "part", actions |-> {"view"}]]

MCRoot == [r \in {"p"} |-> "new"]

MCSuffixed == [r \in {"p"} |-> "new-p"]

MCPaths == {"top", "old", "new", "new-p"}

MCBelow == {<<"top", "old">>, <<"top", "new">>, <<"top", "new-p">>}

MCInitialFiles == [f \in MCPaths \X {"a"} |-> IF f = <<"old", "a">> THEN "h" ELSE None]

MCLinkTo(place) == [record |-> "p", place |-> place]

MCLinkLists ==
  {<<MCLinkTo(Place("top", None))>>, <<MCLinkTo(Place("new", None))>>,
   <<MCLinkTo(Place("top", None)), MCLinkTo(Place("old", "a"))>>}

MCPlaceRank ==
  [p \in [path : MCPaths, name : {"a", None}] |->
     (CASE p.path = "new" -> 1 [] p.path = "new-p" -> 2 [] p.path = "old" -> 3 [] p.path = "top" -> 4)
     + IF p.name = None THEN 0 ELSE 4]

MCTouched == {<<"old", "a">>, <<"new", "a">>}

MCRecordRank == [r \in {"p"} |-> 1]
=============================================================================
