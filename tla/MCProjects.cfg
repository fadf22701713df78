SPECIFICATION Spec
CONSTANTS
  lead = lead
  guest = guest
  casing = casing
  lid = lid
  a = a
  b = b
  here = here
  there = there
  Requests = {r1, r2}
  Users = {lead, guest}
  Actors = {lead}
  ProjectIds = {casing, lid}
  TaskIds = {a, b}
  ColumnIds = {here, there}
  ProjectOf <- MCProjectOf
  TasksInOrder <- MCTasksInOrder
  Assignee <- MCAssignee
  Finished = {b}
  Hours <- MCHours
  MayCreate = {lead}
  MayView <- MCMayView
  MayEdit <- MCMayEdit
  Positions = {0}
  Values = {lead, guest}
  Creations <- MCCreations
  Changes <- MCChanges
  Patches <- MCPatches
  MaxWrites = 2
  Unset = Unset
  None = None
INVARIANTS
  ProjectsAreConsistent
  DependenciesAcyclic
  OnlyMovesAndDependenciesDeadlock
PROPERTIES
  UpdatesKeepTheRest
SYMMETRY MCSymmetry
