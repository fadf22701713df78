-------------------------- MODULE MCConfigRegistry --------------------------
(* Two requests over a few drafts.  The wider schema adds an optional field *)
(* to the narrow one: publishing it is not destructive, going back is.      *)
EXTENDS ConfigRegistry, TLC

CONSTANTS product, name, note, txt, A, B, w1, w2, hand, board

MCField == [type |-> "text", required |-> FALSE, unique |-> FALSE,
            loose |-> {}, options |-> {}, valueOptions |-> {},
            target |-> NoTarget, otherTarget |-> NoTarget]

MCEmpty == [k \in {} |-> A]

Narrow == [object_types |-> [t \in {product} |-> [f \in {name} |-> MCField]],
           valid |-> TRUE,
           workflows |-> [k \in {w1} |-> A], dashboards |-> MCEmpty]

Wide == [object_types |-> [t \in {product} |-> [f \in {name, note} |-> MCField]],
         valid |-> TRUE,
         workflows |-> [k \in {w1, w2, hand} |-> B], dashboards |-> [k \in {board} |-> B]]

Malformed == [Narrow EXCEPT !.valid = FALSE]

MCConfigs == {Narrow, Wide, Malformed}

MCValidConfigs == {Narrow, Wide}

MCRefType == [r \in {} |-> product]

MCSymmetry == Permutations(Requests) \cup Permutations(Drafts)
=============================================================================
