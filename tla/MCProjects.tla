----------------------------- MODULE MCProjects -----------------------------
(* One project with two tasks, one of them done, and another one whose     *)
(* column they must not move to.                                           *)
EXTENDS Projects, TLC

CONSTANTS lead, guest, casing, lid, a, b, here, there

MCProjectOf ==
  [x \in {a, b, here, there} |-> IF x = there THEN lid ELSE casing]

MCTasksInOrder == (casing :> <<a, b>>) @@ (lid :> <<>>)

MCAssignee == (a :> lead) @@ (b :> guest)

MCHours == (a :> 1) @@ (b :> 2)

MCMayView == (lead :> {casing, lid}) @@ (guest :> {lid})

MCMayEdit == (lead :> {casing}) @@ (guest :> {})

MCChanges == {[status |-> Unset, owner |-> guest, target |-> None],
              [status |-> guest, owner |-> Unset, target |-> Unset]}

MCCreations == {[owner |-> None, target |-> lead]}

MCPatches == {[field |-> "note", value |-> lead]}

MCSymmetry == Permutations(Requests)
=============================================================================
