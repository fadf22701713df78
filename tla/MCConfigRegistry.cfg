SPECIFICATION FairSpec
CONSTANTS
  product = product
  name = name
  note = note
  txt = txt
  A = A
  B = B
  w1 = w1
  w2 = w2
  hand = hand
  board = board
  ObjectTypes = {product}
  FieldKeys = {name, note}
  Texts = {txt}
  Numbers = {}
  Options = {}
  Refs = {}
  RefType <- MCRefType
  NoTarget = NoTarget
  OddTarget = OddTarget
  Blank = Blank
  Requests = {r1, r2}
  Drafts = {d1, d2}
  Configs <- MCValidConfigs
  StarterConfig <- Narrow
  WorkflowKeys = {w1, w2, hand}
  DashboardKeys = {board}
  Definitions = {A, B}
  HandMade = {hand}
  None = None
INVARIANTS
  RegistryIsConsistent
PROPERTIES
  PublicationIsFinal
  RequestsEnd
