------------------------------ MODULE MCRecords ------------------------------
(* Two requests over two records.  The second configuration adds a required *)
(* field, so data that the first one accepted may be rejected by it.        *)
EXTENDS Records, TLC

CONSTANTS product, project, name, note, a, b, prefix

MCText(unique, required) ==
  [type |-> "text", required |-> required, unique |-> unique,
   loose |-> {}, options |-> {}, valueOptions |-> {},
   target |-> NoTarget, otherTarget |-> NoTarget]

MCPattern == [t \in ObjectTypes |-> prefix]

Loose == [object_types |-> [t \in ObjectTypes |-> [f \in {name} |-> MCText(TRUE, FALSE)]],
          code_pattern |-> MCPattern]

Strict == [object_types |->
             [t \in ObjectTypes |->
                [f \in {name, note} |-> MCText(f = name, f = note)]],
           code_pattern |-> MCPattern]

MCConfigs == {Loose, Strict}

OneField(f, v) == [g \in FieldKeys |-> IF g = f THEN v ELSE Absent]

MCPayloads == {OneField(name, a), OneField(note, b)}

\* The first generated code of the pattern, given by hand.
MCManualCodes == {<<prefix, 1>>}

MCRefType == [r \in {} |-> product]

MCSymmetry == Permutations(Requests) \cup Permutations(RecordIds)
=============================================================================
