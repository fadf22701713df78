----------------------------- MODULE MCDocuments ----------------------------
(* Three requests over one document, two labels and three uploads.         *)
EXTENDS Documents, TLC

MCSymmetry ==
  Permutations(Requests) \cup Permutations(DocIds) \cup Permutations(Labels)
    \cup Permutations(Uploads)
=============================================================================
