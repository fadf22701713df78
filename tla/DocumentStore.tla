---------------------------- MODULE DocumentStore ---------------------------
(***************************************************************************)
(* What the document service promises its readers, without transactions,   *)
(* locks, staged files or failures: a revision holds one whole file, a     *)
(* save puts another one in its place in a single step, and a release      *)
(* fixes it for good.                                                      *)
(***************************************************************************)
CONSTANTS
  DocIds,    \* documents
  Labels,    \* revision labels
  Uploads,   \* uploaded files
  None       \* no file, no current revision

VARIABLES
  content,   \* the file that a reader of each revision gets
  released,  \* the released revisions
  current    \* the label of the current revision of each document

Init ==
  /\ content = [key \in DocIds \X Labels |-> None]
  /\ released = {}
  /\ current = [d \in DocIds |-> None]

Save(d, l, u) ==
  /\ <<d, l>> \notin released
  /\ content' = [content EXCEPT ![<<d, l>>] = u]
  /\ current' \in {current, [current EXCEPT ![d] = l]}
  /\ UNCHANGED released

Release(d, l) ==
  /\ content[<<d, l>>] # None
  /\ released' = released \cup {<<d, l>>}
  /\ current' = [current EXCEPT ![d] = l]
  /\ UNCHANGED content

Next ==
  \E d \in DocIds, l \in Labels :
    Release(d, l) \/ \E u \in Uploads : Save(d, l, u)

Spec == Init /\ [][Next]_<<content, released, current>>
=============================================================================
