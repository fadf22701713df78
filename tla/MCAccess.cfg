SPECIFICATION ReportsSpec
CONSTANTS
  None = None
  Users = {"root", "ann"}
  Roles <- MCRoles
  SystemAdmin = "System Admin"
  ConfigurationAdmin = "Configuration Admin"
  ManagerRoles = {"managers"}
  Types = {"part", "project"}
  RecordIds = {"p1", "p2", "j"}
  TypeOf <- MCTypeOf
  Actions = {"view", "edit"}
  InitialUsers <- MCInitialUsers
  GrantRoles = {"engineers", "managers"}
  GrantSets = {{}, {"view", "edit"}}
  Managed = {"ann"}
  NewUsers <- MCNewUsers
  PatchInputs <- MCPatchInputs
  MaxGrants = 2
  Requests = {"r"}
  LinkTypes = {"uses"}
  Definitions <- MCDefinitions
  OldLinks <- MCOldLinks
  LinkInputs <- MCLinkInputs
  MaxDepth = 2
  RecordsInOrder <- MCRecordsInOrder
  RecordStatuses = {"draft", "released"}
  StatusOf <- MCStatusOf
  DocumentTypesOf <- MCDocumentTypesOf
  OverdueTasks <- MCOverdueTasks
  OpenTasks <- MCOpenTasks
  RecordOfObject <- MCRecordOfObject
  OldEvents <- MCOldEvents
  MaxEvents = 9
  LinkIds <- MCLinkIds
  AdminRoles = {"System Admin", "Configuration Admin"}
  MatchesOf <- MCMatchesOf
  LookupLimit = 1
  Filters <- MCFilters
  Requirements <- MCRequirements
  Limits = {1, 2}
  Cards <- MCCards
  ScanFactor = 3
  MaxScan = 10
INVARIANTS
  ReportsFollowGrants
  RulesAgree
  GraphIsVisiblePart
  LinkFilterMatchesGraph
  EventsFollowGrants
PROPERTY
  ReactivatedByOverlapOnly
