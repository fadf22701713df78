SPECIFICATION Spec
CONSTANTS
  None = None
  Users <- MCUsers
  Roles = {"System Admin", "Configuration Admin", "engineers", "guests"}
  SystemAdmin = "System Admin"
  ConfigurationAdmin = "Configuration Admin"
  ManagerRoles = {}
  Types = {"part", "project"}
  RecordIds = {"p", "j"}
  TypeOf <- MCTypeOf
  Actions = {"view", "edit"}
  InitialUsers <- MCInitialUsers
  GrantRoles = {"engineers", "guests"}
  GrantSets = {}
  Managed = {}
  NewUsers = {}
  PatchInputs = {}
  MaxGrants = 0
  Requests = {"r"}
  LinkTypes = {"uses"}
  Definitions <- MCDefinitions
  OldLinks = {}
  LinkInputs <- MCLinkInputs
  MaxDepth = 1
  Revisions = {"d"}
  Projects = {"x"}
  Events = {"e"}
  RecordOf <- MCRecordOf
  MatchedRecord <- MCMatchedRecord
  FolderRecord <- MCFolderRecord
  IndexOrder <- MCIndexOrder
  Words = {"v", "w"}
  Statuses = {"Draft", "draft", "released"}
  Tags = {"s", "t"}
  InitialRows <- MCInitialRows
  Writable = {"d", "x"}
  RowInputs <- MCRowInputs
  ObjectGrants <- MCObjectGrants
  RecordGrants <- MCRecordGrants
  Queries <- MCQueries
  IndexMatches <- MCIndexMatches
  TextContains <- MCTextContains
  JsonContains <- MCJsonContains
  Lower <- MCLower
  IndexRank <- MCRank
  RowRank <- MCRank
  HitLimit = 2
  ResultLimit = 2
  Workers = {w1, w2}
  MaxWrites = 2
  MaxLosses = 1
  MaxRebuilds = 1
SYMMETRY WorkerSymmetry
CHECK_DEADLOCK FALSE
INVARIANTS
  IndexFollowsRows
  SearchesAreCurrent
  IndexAnswersLikeDatabase
