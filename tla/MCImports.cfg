SPECIFICATION Spec
CONSTANTS
  None = None
  Users <- MCUsers
  Roles = {"System Admin", "Configuration Admin", "clerks"}
  SystemAdmin = "System Admin"
  ConfigurationAdmin = "Configuration Admin"
  ManagerRoles = {}
  Types = {"part", "project"}
  RecordIds = {"p", "n", "m", "j"}
  TypeOf <- MCTypeOf
  Actions = {"view", "create", "edit", "admin"}
  InitialUsers <- MCInitialUsers
  GrantRoles = {"clerks"}
  GrantSets = {}
  Managed = {}
  NewUsers = {}
  PatchInputs = {}
  MaxGrants = 0
  Requests = {r1, r2}
  Jobs = {j1, j2}
  Files <- MCFiles
  TargetType = "part"
  Codes = {"P-1", "P-2", "J-1"}
  Fields = {"serial", "note"}
  UniqueFields = {"serial"}
  Values = {"s1", "s2", "old", "new"}
  Blank = "none"
  Absent = "absent"
  ValidData <- MCValidData
  InitialRecords <- MCInitialRecords
  RecordInputs <- MCRecordInputs
  ObjectGrants <- MCObjectGrants
  RecordGrants <- MCRecordGrants
  MaxEdits = 1
SYMMETRY MCSymmetry
INVARIANTS
  ImportsAreConsistent
  ImportsWithinGrants
  ImportedRecordsArePosted
PROPERTIES
  ImportsAreWhole
