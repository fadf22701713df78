--------------------------- MODULE Relationships ---------------------------
(***************************************************************************)
(* Links between records (apps/relationships): created and deleted under   *)
(* the grants of Permissions and the relationship types of the active      *)
(* configuration, and shown as the graph around a record.  A creation      *)
(* validates in one step and checks its grants again and saves in another. *)
(***************************************************************************)
EXTENDS Permissions

CONSTANTS
  LinkTypes,     \* keys of relationship types
  Definitions,   \* the relationship types of a configuration that may be active
  OldLinks,      \* the links that exist already
  LinkInputs,    \* the links that requests create
  MaxDepth       \* how far the graph of a record goes (max_depth)

ASSUME RelationshipAssumption ==
  /\ \A definitions \in Definitions :
       definitions \subseteq [key : LinkTypes, source : Types \cup {None}, target : Types \cup {None}]
  /\ OldLinks \cup LinkInputs \subseteq [key : LinkTypes, source : RecordIds, target : RecordIds]
  /\ IsFiniteSet(OldLinks)
  /\ MaxDepth \in Nat \ {0}

VARIABLES
  definitions,  \* the relationship types of the active configuration
  links,        \* the Relationship rows
  creating      \* the link that each request has validated, or None

link_vars == <<definitions, links, creating>>

Link == [key : LinkTypes, source : RecordIds, target : RecordIds]

LinkInit ==
  /\ definitions \in Definitions
  /\ links = OldLinks
  /\ creating = [r \in Requests |-> None]

-----------------------------------------------------------------------------
(* Requests.                                                               *)

\* None in a definition stands for any type.
Allows(definition, link) ==
  /\ definition.key = link.key
  /\ definition.source \in {None, TypeOf[link.source]}
  /\ definition.target \in {None, TypeOf[link.target]}

ValidLink(link) == \E definition \in definitions : Allows(definition, link)

MayCreate(u, link) ==
  /\ UserCan(u, "edit", TypeOf[link.source], link.source)
  /\ CanView(u, link.target)

StartLink(r, u, link) ==
  /\ creating[r] = None
  /\ MayCreate(u, link)
  /\ ValidLink(link)
  /\ creating' = [creating EXCEPT ![r] = [user |-> u, link |-> link]]
  /\ UNCHANGED <<access, definitions, links>>

\* perform_create: the grants are checked again, the types are not; an equal
\* link fails on the unique constraint.  SaveLink commits, RefuseLink does not.
MaySave(r) == creating[r] # None /\ MayCreate(creating[r].user, creating[r].link)

SaveLink(r) ==
  /\ MaySave(r)
  /\ creating[r].link \notin links
  /\ links' = links \cup {creating[r].link}
  /\ creating' = [creating EXCEPT ![r] = None]
  /\ UNCHANGED <<access, definitions>>

RefuseLink(r) ==
  /\ creating[r] # None
  /\ ~MaySave(r) \/ creating[r].link \in links
  /\ creating' = [creating EXCEPT ![r] = None]
  /\ UNCHANGED <<access, definitions, links>>

\* Only the source is asked about, and the configuration is not.
DeleteLink(u, link) ==
  /\ link \in links
  /\ UserCan(u, "edit", TypeOf[link.source], link.source)
  /\ links' = links \ {link}
  /\ UNCHANGED <<access, definitions, creating>>

\* A publish of the configuration registry.
Publish ==
  /\ definitions' \in Definitions
  /\ UNCHANGED <<access, links, creating>>

-----------------------------------------------------------------------------
(* The graph around a record.                                              *)

\* A bug this module can show: the search goes on from records that are hidden.
ExpandThroughHidden(u, graph) ==
  LET touched == {l \in links : {l.source, l.target} \cap graph.frontier # {}}
      ends == UNION {{l.source, l.target} : l \in touched}
  IN [nodes |-> graph.nodes \cup {r \in ends : CanView(u, r)},
      edges |-> graph.edges \cup {l \in touched : CanView(u, l.source) /\ CanView(u, l.target)},
      visited |-> graph.visited \cup graph.frontier,
      frontier |-> ends \ (graph.visited \cup graph.frontier)]

\* One round of build_record_graph: the links of the frontier, of which those
\* between visible records are shown; the visible ends not met before are the
\* next frontier.
Expand(u, graph) ==
  LET touched == {l \in links : {l.source, l.target} \cap graph.frontier # {}}
      ends == {r \in UNION {{l.source, l.target} : l \in touched} : CanView(u, r)}
  IN [nodes |-> graph.nodes \cup ends,
      edges |-> graph.edges \cup {l \in touched : CanView(u, l.source) /\ CanView(u, l.target)},
      visited |-> graph.visited \cup graph.frontier,
      frontier |-> ends \ (graph.visited \cup graph.frontier)]

BuildRecordGraph(u, root) ==
  LET rounds[depth \in 0..MaxDepth] ==
        IF depth = 0
        THEN [nodes |-> {root}, edges |-> {}, visited |-> {}, frontier |-> {root}]
        ELSE Expand(u, rounds[depth - 1])
  IN rounds[MaxDepth]

-----------------------------------------------------------------------------
(* Properties.                                                             *)

LinkTypeOK ==
  /\ definitions \in Definitions
  /\ links \subseteq Link /\ IsFiniteSet(links)
  /\ creating \in [Requests -> [user : Users, link : Link] \cup {None}]

\* The records that a user reaches from a record in at most as many links,
\* seeing all of them on the way.
Reached(u, root) ==
  LET reached[n \in 0..MaxDepth] ==
        IF n = 0 THEN {root}
        ELSE reached[n - 1] \cup
             {r \in RecordIds : /\ CanView(u, r)
                                /\ \E l \in links : r \in {l.source, l.target}
                                                    /\ {l.source, l.target} \cap reached[n - 1] # {}}
  IN reached

\* The graph that a user gets of a record is the part that the user could find
\* by opening one visible record after the other: no record or link behind a
\* hidden one, no link without both ends, and none missing.
GraphIsVisiblePart ==
  \A u \in Users, root \in RecordIds :
    CanView(u, root) =>
      LET graph == BuildRecordGraph(u, root) IN
      /\ graph.nodes = Reached(u, root)[MaxDepth]
      /\ graph.edges = {l \in links : /\ {l.source, l.target} \subseteq graph.nodes
                                      /\ {l.source, l.target} \cap Reached(u, root)[MaxDepth - 1] # {}}
=============================================================================
