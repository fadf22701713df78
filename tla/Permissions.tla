---------------------------- MODULE Permissions ----------------------------
(***************************************************************************)
(* Accounts, roles and grants (apps/accounts): who may do what with which  *)
(* object types and records.  A PATCH of an account reads the row in one   *)
(* step and saves all of its columns in a later one; every other request   *)
(* is one statement.  Passwords and sessions are Django's.                 *)
(***************************************************************************)
EXTENDS Naturals, FiniteSetsExt

CONSTANTS
  Users,
  Roles,               \* the names of groups
  SystemAdmin,         \* the role "System Admin"
  ConfigurationAdmin,  \* the role "Configuration Admin"
  ManagerRoles,        \* roles with "manager" or "project" in their name
  Types, RecordIds,
  TypeOf,              \* the object type of each record, which never changes
  Actions,             \* the keys of ACTION_FIELDS that are in use
  InitialUsers,        \* the accounts of the installation
  GrantRoles,          \* the roles that administrators give grants to
  GrantSets,           \* the can_* fields that administrators send
  Managed,             \* the accounts that they change
  NewUsers,            \* the accounts that they create
  PatchInputs,         \* what a PATCH of an account sends, None for the rest
  MaxGrants,           \* bound on the number of permission rows
  Requests, None

ASSUME PermissionAssumption ==
  /\ {SystemAdmin, ConfigurationAdmin} \cup ManagerRoles \subseteq Roles
  /\ TypeOf \in [RecordIds -> Types]
  /\ "view" \in Actions
  /\ GrantRoles \subseteq Roles /\ GrantSets \subseteq SUBSET Actions
  /\ InitialUsers \in [Users -> [active : BOOLEAN, superuser : BOOLEAN, roles : SUBSET Roles] \cup {None}]
  /\ Managed \subseteq Users
  /\ NewUsers \subseteq [active : BOOLEAN, superuser : BOOLEAN, roles : SUBSET Roles]
  /\ PatchInputs \subseteq [active : BOOLEAN \cup {None}, superuser : BOOLEAN \cup {None},
                            roles : {None} \cup SUBSET Roles]
  /\ MaxGrants \in Nat
  /\ None \notin Users \cup Types \cup RecordIds

VARIABLES
  users,          \* the accounts: None until created
  object_grants,  \* the ObjectPermission row of a role and type, or None
  record_grants,  \* the RecordPermission row of a role and record, or None
  patches         \* the account that each PATCH has read, and what it will write

access == <<users, object_grants, record_grants, patches>>

-----------------------------------------------------------------------------
(* Rows.                                                                   *)

User == [active : BOOLEAN, superuser : BOOLEAN, roles : SUBSET Roles]

\* A record's grants carry the object type in a column of their own.
RecordGrant == [type : Types, actions : SUBSET Actions]

Patch == [user : Users, row : User, sent : PatchInputs]

AccessInit ==
  /\ users = InitialUsers
  /\ object_grants = [g \in GrantRoles \X Types |-> None]
  /\ record_grants = [g \in GrantRoles \X RecordIds |-> None]
  /\ patches = [r \in Requests |-> None]

NumGrants == Cardinality({g \in GrantRoles \X Types : object_grants[g] # None})
           + Cardinality({g \in GrantRoles \X RecordIds : record_grants[g] # None})

-----------------------------------------------------------------------------
(* The rules.                                                              *)

IsActive(u) == users[u] # None /\ users[u].active

IsSystemAdmin(u) == IsActive(u) /\ (users[u].superuser \/ SystemAdmin \in users[u].roles)

IsConfigurationAdmin(u) ==
  IsSystemAdmin(u) \/ (IsActive(u) /\ ConfigurationAdmin \in users[u].roles)

GrantRolesOf(u) == users[u].roles \cap GrantRoles

ObjectActions(u, type) ==
  UNION {object_grants[g] : g \in {h \in GrantRolesOf(u) \X {type} : object_grants[h] # None}}

\* Rows for the record, of the roles of the user, that name the type.
Scoping(u, type, record) ==
  {g \in GrantRolesOf(u) \X {record} : record_grants[g] # None /\ record_grants[g].type = type}

\* With record = None the question is about the type.  Grants on the record
\* replace those on its type.
UserCan(u, action, type, record) ==
  LET scoping == IF record = None THEN {} ELSE Scoping(u, type, record) IN
  /\ action \in Actions
  /\ IsActive(u)
  /\ \/ IsSystemAdmin(u)
     \/ \E g \in scoping : action \in record_grants[g].actions
     \/ scoping = {} /\ action \in ObjectActions(u, type)

\* The filter that lists put on a query of records.
RecordsUserCanView(u, records) ==
  IF ~IsActive(u) THEN {}
  ELSE IF IsSystemAdmin(u) THEN records
  ELSE LET rows == {g \in GrantRolesOf(u) \X RecordIds : record_grants[g] # None}
           scoped == {g[2] : g \in rows}
           allowed == {g[2] : g \in {h \in rows : "view" \in record_grants[h].actions}}
       IN {r \in records : r \in allowed \/ ("view" \in ObjectActions(u, TypeOf[r]) /\ r \notin scoped)}

\* Asked before a list of one type is filtered.
UserHasViewScope(u, type) ==
  /\ IsActive(u)
  /\ \/ IsSystemAdmin(u)
     \/ "view" \in ObjectActions(u, type)
     \/ \E g \in GrantRolesOf(u) \X RecordIds :
          /\ record_grants[g] # None /\ record_grants[g].type = type
          /\ "view" \in record_grants[g].actions

CanView(u, record) == UserCan(u, "view", TypeOf[record], record)

-----------------------------------------------------------------------------
(* Requests of system administrators; GrantSets is what they send.         *)

SetObjectGrant(admin, role, type) ==
  /\ IsSystemAdmin(admin)
  /\ \E actions \in GrantSets \cup {None} :
       /\ object_grants[<<role, type>>] # actions
       /\ object_grants[<<role, type>>] = None => NumGrants < MaxGrants
       /\ object_grants' = [object_grants EXCEPT ![<<role, type>>] = actions]
  /\ UNCHANGED <<users, record_grants, patches>>

\* A bug this module can show: the type is stored as it was sent.
RecordGrantAsSent(record, sent, actions) == [type |-> sent, actions |-> actions]

\* save() replaces the type that was sent by the type of the record.
RecordGrantSaved(record, sent, actions) == [type |-> TypeOf[record], actions |-> actions]

SetRecordGrant(admin, role, record) ==
  /\ IsSystemAdmin(admin)
  /\ record_grants[<<role, record>>] = None => NumGrants < MaxGrants
  /\ \E sent \in Types, actions \in GrantSets :
       record_grants' = [record_grants EXCEPT ![<<role, record>>] = RecordGrantSaved(record, sent, actions)]
  /\ UNCHANGED <<users, object_grants, patches>>

DeleteRecordGrant(admin, role, record) ==
  /\ IsSystemAdmin(admin)
  /\ record_grants[<<role, record>>] # None
  /\ record_grants' = [record_grants EXCEPT ![<<role, record>>] = None]
  /\ UNCHANGED <<users, object_grants, patches>>

CreateUser(admin, u) ==
  /\ IsSystemAdmin(admin)
  /\ users[u] = None
  /\ \E new \in NewUsers : users' = [users EXCEPT ![u] = new]
  /\ UNCHANGED <<object_grants, record_grants, patches>>

\* DELETE keeps the row: perform_destroy writes is_active alone.
DeactivateUser(admin, u) ==
  /\ IsSystemAdmin(admin)
  /\ IsActive(u)
  /\ users' = [users EXCEPT ![u].active = FALSE]
  /\ UNCHANGED <<object_grants, record_grants, patches>>

\* A bug this module can show: accounts are found whether active or not.
CanBePatchedAnyway(u) == users[u] # None

\* get_queryset: accounts that are not active are not found.
CanBePatched(u) == IsActive(u)

StartPatch(r, admin, u) ==
  /\ patches[r] = None
  /\ IsSystemAdmin(admin)
  /\ CanBePatched(u)
  /\ \E sent \in PatchInputs :
       patches' = [patches EXCEPT ![r] = [user |-> u, row |-> users[u], sent |-> sent]]
  /\ UNCHANGED <<users, object_grants, record_grants>>

\* instance.save() writes every column of the row that was read; the roles are
\* rows of another table, written only if they were sent.
SavePatch(r) ==
  /\ patches[r] # None
  /\ LET u == patches[r].user
         row == patches[r].row
         sent == patches[r].sent
         Sent(new, old) == IF new = None THEN old ELSE new
     IN users' = [users EXCEPT ![u] = [active |-> Sent(sent.active, row.active),
                                       superuser |-> Sent(sent.superuser, row.superuser),
                                       roles |-> Sent(sent.roles, users[u].roles)]]
  /\ patches' = [patches EXCEPT ![r] = None]
  /\ UNCHANGED <<object_grants, record_grants>>

Administration ==
  \/ \E admin \in Users, role \in GrantRoles :
       \/ \E type \in Types : SetObjectGrant(admin, role, type)
       \/ \E record \in RecordIds : SetRecordGrant(admin, role, record) \/ DeleteRecordGrant(admin, role, record)
  \/ \E admin \in Users, u \in Managed : CreateUser(admin, u) \/ DeactivateUser(admin, u)

-----------------------------------------------------------------------------
(* Properties.                                                             *)

AccessTypeOK ==
  /\ users \in [Users -> User \cup {None}]
  /\ object_grants \in [GrantRoles \X Types -> {None} \cup SUBSET Actions]
  /\ record_grants \in [GrantRoles \X RecordIds -> RecordGrant \cup {None}]
  /\ patches \in [Requests -> Patch \cup {None}]

\* Lists and single records agree: the filter of a list keeps exactly the
\* records that user_can lets the user view, whatever rows a role has.
FilterAgreesWithCheck ==
  \A u \in Users : RecordsUserCanView(u, RecordIds) = {r \in RecordIds : CanView(u, r)}

\* A user who may view some record of a type is not turned away from the list
\* of that type, which asks user_has_view_scope first.
ScopeCoversVisible ==
  \A u \in Users, r \in RecordIds : CanView(u, r) => UserHasViewScope(u, TypeOf[r])

\* No request finds an account that is not active, so an account that was
\* deactivated comes back only if a PATCH had read it before and saves it after.
ReactivatedByOverlapOnly ==
  [][\A u \in Users :
       (users[u] # None /\ ~users[u].active /\ users'[u].active)
         => \E r \in Requests : patches[r] # None /\ patches[r].user = u /\ patches[r].row.active]_access
=============================================================================
