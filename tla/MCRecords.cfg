SPECIFICATION Spec
CONSTANTS
  product = product
  project = project
  name = name
  note = note
  a = a
  b = b
  prefix = prefix
  ObjectTypes = {product}
  FieldKeys = {name, note}
  Texts = {a, b}
  Numbers = {}
  Options = {}
  Refs = {}
  RefType <- MCRefType
  NoTarget = NoTarget
  OddTarget = OddTarget
  Blank = Blank
  Requests = {r1, r2}
  RecordIds = {p1, p2}
  Patterns = {prefix}
  ManualCodes <- MCManualCodes
  NoCode = NoCode
  Absent = Absent
  Payloads <- MCPayloads
  Configs <- MCConfigs
  FirstConfig <- Loose
  ProjectType = project
  SyncedFields = {name}
  MaxVersions = 2
  None = None
SYMMETRY MCSymmetry
INVARIANTS
  RecordsAreConsistent
  AcceptedByConfig
PROPERTIES
  UndoneByOverlapOnly
