SPECIFICATION Spec
CONSTANTS
  engineer = engineer
  approver = approver
  name = name
  sheet = sheet
  approval = approval
  Approver = Approver
  first = first
  States = {"draft", "released"}
  TransitionKeys = {"request", "release"}
  FieldKeys = {name}
  DocumentTypes = {sheet}
  TaskKeys = {approval}
  Roles = {Approver}
  Actions = {"view", "edit", "release"}
  Requests = {r1, r2}
  Users = {engineer, approver}
  Accounts <- MCAccounts
  RecordIds = {p}
  Definitions = {first}
  Workflows <- MCWorkflowSet
  Configs <- MCConfigs
  MaxVersions = 2
  MaxEvents = 3
  None = None
INVARIANTS
  HistoryIsComplete
  ReviewedBeforeMoving
  NoCircularWait
PROPERTIES
  TransitionsAreAtomic
SYMMETRY MCSymmetry
