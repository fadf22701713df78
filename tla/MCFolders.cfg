SPECIFICATION Spec
CONSTANTS
  None = None
  Users <- MCUsers
  Roles = {"System Admin", "Configuration Admin", "engineers"}
  SystemAdmin = "System Admin"
  ConfigurationAdmin = "Configuration Admin"
  ManagerRoles = {}
  Types = {"part"}
  RecordIds = {"p"}
  TypeOf <- MCTypeOf
  Actions = {"view", "edit", "admin"}
  InitialUsers <- MCInitialUsers
  GrantRoles = {"engineers"}
  GrantSets = {}
  Managed = {}
  NewUsers = {}
  PatchInputs = {}
  MaxGrants = 0
  Requests = {r1, r2}
  ObjectGrants <- MCObjectGrants
  RecordGrants <- MCRecordGrants
  Paths <- MCPaths
  Root <- MCRoot
  Suffixed <- MCSuffixed
  Below <- MCBelow
  LinkLists <- MCLinkLists
  Touched <- MCTouched
  PlaceRank <- MCPlaceRank
  RecordRank <- MCRecordRank
  Names = {"a"}
  Hashes = {"g", "h"}
  InitialDirs = {"top", "old"}
  InitialFiles <- MCInitialFiles
  Scanners = {s1, s2}
  Reviewed = {"moved"}
  MaxChanges = 2
  BackupIds = {"b"}
  MaxVersion = 2
INVARIANTS
  FoldersAreConsistent
  MissingFoldersAreReported
  FoldersCanBeRestored
PROPERTIES
  DifferencesAreReported
  ScansCatchUp
CHECK_DEADLOCK FALSE
