SPECIFICATION DraftsSpec
CONSTANTS
  ObjectTypes = {product, project}
  FieldKeys = {name}
  Texts = {txt}
  Numbers = {num}
  Options = {pellet, powder}
  Refs = {rec}
  RefType <- MCRefType
  NoTarget = NoTarget
  OddTarget = OddTarget
  Blank = Blank
  Absent = Absent
  NoList = NoList
  NoObject = NoObject
  SnakeCase <- MCSnakeCase
  Token <- MCToken
  Schemas <- MCSchemas
  Starter <- MCStarter
  EditsOf <- MCEditsOf
  MaxEdits = 2
CHECK_DEADLOCK FALSE
INVARIANTS
  UnreportedKeepsRecordsValid
  AcceptedKeysAreStored
  WorkflowsCanBeFinished
