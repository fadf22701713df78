SPECIFICATION Spec
CONSTANTS
  product = product
  project = project
  name = name
  note = note
  a = a
  b = b
  prefix = prefix
  ObjectTypes = {project}
  FieldKeys = {name, note}
  Texts = {a, b}
  Numbers = {}
  Options = {}
  Refs = {}
  RefType <- MCRefType
  NoTarget = NoTarget
  OddTarget = OddTarget
  Blank = Blank
  Requests = {r1, r2}
  RecordIds = {p1, p2}
  Patterns = {prefix}
  ManualCodes = {}
  NoCode = NoCode
  Absent = Absent
  Payloads <- MCPayloads
  Configs <- MCConfigs
  FirstConfig <- Loose
  ProjectType = project
  SyncedFields = {note}
  MaxVersions = 1
  None = None
SYMMETRY MCSymmetry
INVARIANTS
  UniqueValues
