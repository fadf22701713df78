SPECIFICATION Spec
CONSTANTS
  Requests = {r1, r2, r3}
  DocIds = {d1}
  Labels = {A, B}
  Uploads = {u1, u2, u3}
  None = None
SYMMETRY MCSymmetry
INVARIANTS
  FilesAreAccountedFor
  RevisionsHaveTheirFile
  ReleasesAreFinal
PROPERTIES
  SavesAreAtomic
