---------------------------- MODULE AccessProofs ----------------------------
(***************************************************************************)
(* What users see, for any number of users, roles, records, requests and   *)
(* workers: the rules of who may see what agree in each of their forms, an *)
(* account that was deactivated comes back by an overlap only, the search  *)
(* index follows the rows, and searches, events, graphs and reports show   *)
(* what their readers may view.                                            *)
(***************************************************************************)
EXTENDS Reports, SearchQueries, FunctionTheorems, FiniteSetTheorems, WellFoundedInduction, TLAPS

\* save() keeps the type column of a record's grants right.
GrantsNameTheirType ==
  \A role \in GrantRoles, record \in RecordIds :
    record_grants[<<role, record>>] # None => record_grants[<<role, record>>].type = TypeOf[record]

\* A PATCH has read an account while it was active; accounts are not deleted.
PatchesReadActive ==
  \A r \in Requests :
    patches[r] # None => patches[r].row.active /\ users[patches[r].user] \in User

AccessInv == AccessTypeOK /\ GrantsNameTheirType /\ PatchesReadActive

-----------------------------------------------------------------------------
(* The rules, in a state in which grants name the types of their records.  *)

LEMMA ScopingOfRecord ==
  ASSUME AccessInv, NEW u \in Users, NEW r \in RecordIds, NEW g
  PROVE  g \in Scoping(u, TypeOf[r], r)
           <=> \E role \in GrantRolesOf(u) : g = <<role, r>> /\ record_grants[g] # None
<1>1. \A role \in GrantRolesOf(u) : role \in GrantRoles
  BY DEF GrantRolesOf
<1>2. \A role \in GrantRolesOf(u) :
        record_grants[<<role, r>>] # None => record_grants[<<role, r>>].type = TypeOf[r]
  BY <1>1 DEF AccessInv, GrantsNameTheirType
<1> QED
  BY <1>2 DEF Scoping

\* The check of one record and the filter of a list say the same.
LEMMA FilterIsCheck ==
  ASSUME AccessInv, NEW u \in Users, NEW records \in SUBSET RecordIds
  PROVE  RecordsUserCanView(u, records) = {r \in records : CanView(u, r)}
<1>1. CASE ~IsActive(u)
  BY <1>1 DEF RecordsUserCanView, CanView, UserCan
<1>2. CASE IsActive(u) /\ IsSystemAdmin(u)
  BY <1>2, PermissionAssumption DEF RecordsUserCanView, CanView, UserCan
<1>3. CASE IsActive(u) /\ ~IsSystemAdmin(u)
  <2> DEFINE held == {g \in GrantRolesOf(u) \X RecordIds : record_grants[g] # None}
             scoped == {g[2] : g \in held}
             allowed == {g[2] : g \in {h \in held : "view" \in record_grants[h].actions}}
             View(r) == \/ r \in allowed
                        \/ "view" \in ObjectActions(u, TypeOf[r]) /\ r \notin scoped
  <2>1. RecordsUserCanView(u, records) = {r \in records : View(r)}
    BY <1>3 DEF RecordsUserCanView
  <2>2. SUFFICES ASSUME NEW r \in RecordIds
                 PROVE  View(r) <=> CanView(u, r)
    BY <2>1
  <2>3. CanView(u, r) <=>
          \/ \E g \in Scoping(u, TypeOf[r], r) : "view" \in record_grants[g].actions
          \/ Scoping(u, TypeOf[r], r) = {} /\ "view" \in ObjectActions(u, TypeOf[r])
    BY <1>3, PermissionAssumption DEF CanView, UserCan
  <2>4. r \in scoped <=> Scoping(u, TypeOf[r], r) # {}
    <3>1. r \in scoped <=> \E role \in GrantRolesOf(u) : record_grants[<<role, r>>] # None
      <4>1. ASSUME r \in scoped
            PROVE  \E role \in GrantRolesOf(u) : record_grants[<<role, r>>] # None
        <5>1. PICK g \in held : r = g[2]
          BY <4>1
        <5>2. g[1] \in GrantRolesOf(u) /\ g = <<g[1], r>> /\ record_grants[g] # None
          BY <5>1
        <5> QED
          BY <5>2
      <4>2. ASSUME NEW role \in GrantRolesOf(u), record_grants[<<role, r>>] # None
            PROVE  r \in scoped
        <5>1. <<role, r>> \in held /\ <<role, r>>[2] = r
          BY <4>2
        <5> QED
          BY <5>1
      <4> QED
        BY <4>1, <4>2
    <3> QED
      BY <3>1, ScopingOfRecord
  <2>5. r \in allowed <=>
          \E g \in Scoping(u, TypeOf[r], r) : "view" \in record_grants[g].actions
    <3>1. r \in allowed <=> \E role \in GrantRolesOf(u) :
            record_grants[<<role, r>>] # None /\ "view" \in record_grants[<<role, r>>].actions
      <4> DEFINE granting == {h \in held : "view" \in record_grants[h].actions}
      <4>1. ASSUME r \in allowed
            PROVE  \E role \in GrantRolesOf(u) :
                     record_grants[<<role, r>>] # None /\ "view" \in record_grants[<<role, r>>].actions
        <5>1. PICK g \in granting : r = g[2]
          BY <4>1
        <5>2. g[1] \in GrantRolesOf(u) /\ g = <<g[1], r>> /\ record_grants[g] # None
          BY <5>1
        <5> QED
          BY <5>1, <5>2
      <4>2. ASSUME NEW role \in GrantRolesOf(u), record_grants[<<role, r>>] # None,
                   "view" \in record_grants[<<role, r>>].actions
            PROVE  r \in allowed
        <5>1. <<role, r>> \in granting /\ <<role, r>>[2] = r
          BY <4>2
        <5> QED
          BY <5>1
      <4> QED
        BY <4>1, <4>2
    <3> QED
      BY <3>1, ScopingOfRecord
  <2> QED
    BY <2>3, <2>4, <2>5
<1> QED
  BY <1>1, <1>2, <1>3

\* Nobody who may view a record is turned away from the list of its type.
LEMMA ScopeIsWideEnough ==
  ASSUME AccessInv, NEW u \in Users, NEW r \in RecordIds, CanView(u, r)
  PROVE  UserHasViewScope(u, TypeOf[r])
<1>1. IsActive(u)
  BY DEF CanView, UserCan
<1>2. CASE \E g \in Scoping(u, TypeOf[r], r) : "view" \in record_grants[g].actions
  <2>1. PICK g \in Scoping(u, TypeOf[r], r) : "view" \in record_grants[g].actions
    BY <1>2
  <2>2. g \in GrantRolesOf(u) \X RecordIds /\ record_grants[g] # None /\ record_grants[g].type = TypeOf[r]
    BY <2>1 DEF Scoping
  <2> QED
    BY <1>1, <2>1, <2>2 DEF UserHasViewScope
<1>3. CASE IsSystemAdmin(u) \/ "view" \in ObjectActions(u, TypeOf[r])
  BY <1>1, <1>3 DEF UserHasViewScope
<1> QED
  BY <1>2, <1>3 DEF CanView, UserCan

\* Administrators are offered and shown as such.
LEMMA LookupsFollowRoles == LookupsAgree
<1> SUFFICES ASSUME NEW text \in {None} \cup DOMAIN MatchesOf, NEW scope \in Scopes,
                    NEW offered \in LookupUsers(text, scope)
    PROVE  /\ \A u \in offered : IsActive(u) /\ (UserLevel(u) = "admin" <=> IsSystemAdmin(u))
           /\ scope = "admin" => \A u \in Users :
                IsConfigurationAdmin(u) =>
                  /\ offered # {}
                  /\ (text # None => u \in MatchesOf[text]) => u \in offered \/ Cardinality(offered) = LookupLimit
  BY DEF LookupsAgree
<1> DEFINE accounts == {u \in Users : IsActive(u) /\ InScope(u, scope)}
           matching == IF text = None THEN accounts ELSE accounts \cap MatchesOf[text]
           candidates == IF matching = {} THEN accounts ELSE matching
<1>1. offered \subseteq candidates /\ (offered = candidates \/ Cardinality(offered) = LookupLimit)
  BY DEF LookupUsers, Cuts
<1>2. candidates \subseteq accounts /\ (accounts # {} => candidates # {})
  OBVIOUS
<1>3. ASSUME NEW u \in offered PROVE IsActive(u) /\ (UserLevel(u) = "admin" <=> IsSystemAdmin(u))
  BY <1>1, <1>2 DEF UserLevel, IsSystemAdmin
<1>4. ASSUME scope = "admin", NEW u \in Users, IsConfigurationAdmin(u)
      PROVE  /\ offered # {}
             /\ (text # None => u \in MatchesOf[text]) => u \in offered \/ Cardinality(offered) = LookupLimit
  <2>1. u \in accounts
    <3>1. IsActive(u) /\ (users[u].superuser \/ users[u].roles \cap AdminRoles # {})
      BY <1>4, LookupAssumption DEF IsConfigurationAdmin, IsSystemAdmin
    <3> QED
      BY <1>4, <3>1 DEF InScope
  <2>2. (text # None => u \in MatchesOf[text]) => u \in candidates
    BY <2>1
  <2>3. candidates # {}
    BY <1>2, <2>1
  <2> HIDE DEF candidates
  <2>4. offered # {}
    BY <1>1, <2>3, LookupAssumption, FS_EmptySet
  <2> QED
    BY <1>1, <2>2, <2>4
<1> QED
  BY <1>3, <1>4

LEMMA InvariantImpliesAgreement == AccessInv => RulesAgree
  BY FilterIsCheck, ScopeIsWideEnough, LookupsFollowRoles
  DEF AccessInv, RulesAgree, FilterAgreesWithCheck, ScopeCoversVisible

-----------------------------------------------------------------------------
(* The invariant.                                                          *)

\* A step that leaves accounts and grants alone.
LEMMA AccessUnchanged == AccessInv /\ UNCHANGED access => AccessInv'
  BY DEF access, AccessInv, AccessTypeOK, GrantsNameTheirType, PatchesReadActive

LEMMA InitInv == ReportsInit => AccessInv
<1> SUFFICES ASSUME ReportsInit PROVE AccessInv
  OBVIOUS
<1>1. users \in [Users -> User \cup {None}]
  BY PermissionAssumption DEF ReportsInit, AccessInit, User
<1>2. object_grants \in [GrantRoles \X Types -> {None} \cup SUBSET Actions]
  BY DEF ReportsInit, AccessInit
<1>5. record_grants \in [GrantRoles \X RecordIds -> RecordGrant \cup {None}]
  BY DEF ReportsInit, AccessInit
<1>6. patches \in [Requests -> Patch \cup {None}]
  BY DEF ReportsInit, AccessInit
<1>3. GrantsNameTheirType
  BY DEF ReportsInit, AccessInit, GrantsNameTheirType
<1>4. PatchesReadActive
  BY DEF ReportsInit, AccessInit, PatchesReadActive
<1> QED
  BY <1>1, <1>2, <1>3, <1>4, <1>5, <1>6 DEF AccessInv, AccessTypeOK

LEMMA SetObjectGrantInv ==
  ASSUME AccessInv, NEW admin \in Users, NEW role \in GrantRoles, NEW type \in Types,
         SetObjectGrant(admin, role, type)
  PROVE  AccessInv'
<1>1. PICK actions \in GrantSets \cup {None} :
        object_grants' = [object_grants EXCEPT ![<<role, type>>] = actions]
  BY DEF SetObjectGrant
<1>2. object_grants' \in [GrantRoles \X Types -> {None} \cup SUBSET Actions]
  <2>1. actions \in {None} \cup SUBSET Actions
    <3>1. GrantSets \subseteq SUBSET Actions
      BY PermissionAssumption
    <3> QED
      BY <1>1, <3>1
  <2> QED
    BY <1>1, <2>1 DEF AccessInv, AccessTypeOK
<1>3. UNCHANGED <<users, record_grants, patches>>
  BY DEF SetObjectGrant
<1> QED
  BY <1>2, <1>3 DEF AccessInv, AccessTypeOK, GrantsNameTheirType, PatchesReadActive

LEMMA SetRecordGrantInv ==
  ASSUME AccessInv, NEW admin \in Users, NEW role \in GrantRoles, NEW record \in RecordIds,
         SetRecordGrant(admin, role, record)
  PROVE  AccessInv'
<1>1. PICK actions \in GrantSets :
        record_grants' = [record_grants EXCEPT ![<<role, record>>] = [type |-> TypeOf[record], actions |-> actions]]
  BY DEF SetRecordGrant, RecordGrantSaved
<1>2. [type |-> TypeOf[record], actions |-> actions] \in RecordGrant
  BY <1>1, PermissionAssumption DEF RecordGrant
<1>3. UNCHANGED <<users, object_grants, patches>>
  BY DEF SetRecordGrant
<1>4. record_grants' \in [GrantRoles \X RecordIds -> RecordGrant \cup {None}]
  BY <1>1, <1>2 DEF AccessInv, AccessTypeOK
<1>5. AccessTypeOK'
  BY <1>3, <1>4 DEF AccessInv, AccessTypeOK
<1>6. ASSUME NEW k \in GrantRoles, NEW r \in RecordIds, record_grants'[<<k, r>>] # None
      PROVE  record_grants'[<<k, r>>].type = TypeOf[r]
  <2>1. CASE <<k, r>> = <<role, record>>
    BY <1>1, <2>1 DEF AccessInv, AccessTypeOK
  <2>2. CASE <<k, r>> # <<role, record>>
    BY <1>1, <1>6, <2>2 DEF AccessInv, AccessTypeOK, GrantsNameTheirType
  <2> QED
    BY <2>1, <2>2
<1>7. PatchesReadActive'
  BY <1>3 DEF AccessInv, PatchesReadActive
<1> QED
  BY <1>5, <1>6, <1>7 DEF AccessInv, GrantsNameTheirType

LEMMA DeleteRecordGrantInv ==
  ASSUME AccessInv, NEW admin \in Users, NEW role \in GrantRoles, NEW record \in RecordIds,
         DeleteRecordGrant(admin, role, record)
  PROVE  AccessInv'
<1>1. /\ record_grants' = [record_grants EXCEPT ![<<role, record>>] = None]
      /\ UNCHANGED <<users, object_grants, patches>>
  BY DEF DeleteRecordGrant
<1>2. AccessTypeOK'
  BY <1>1 DEF AccessInv, AccessTypeOK
<1>3. ASSUME NEW k \in GrantRoles, NEW r \in RecordIds, record_grants'[<<k, r>>] # None
      PROVE  record_grants'[<<k, r>>].type = TypeOf[r]
  BY <1>1, <1>3 DEF AccessInv, AccessTypeOK, GrantsNameTheirType
<1>4. PatchesReadActive'
  BY <1>1 DEF AccessInv, PatchesReadActive
<1> QED
  BY <1>2, <1>3, <1>4 DEF AccessInv, GrantsNameTheirType

LEMMA AccountsInv ==
  ASSUME AccessInv, NEW admin \in Users, NEW u \in Users,
         CreateUser(admin, u) \/ DeactivateUser(admin, u)
  PROVE  AccessInv'
<1>1. UNCHANGED <<object_grants, record_grants, patches>>
  BY DEF CreateUser, DeactivateUser
<1>2. CASE CreateUser(admin, u)
  <2>1. PICK new \in NewUsers : users' = [users EXCEPT ![u] = new]
    BY <1>2 DEF CreateUser
  <2> QED
    BY <1>1, <2>1, PermissionAssumption
    DEF AccessInv, AccessTypeOK, GrantsNameTheirType, PatchesReadActive, User
<1>3. CASE DeactivateUser(admin, u)
  <2>1. users[u] # None /\ users' = [users EXCEPT ![u].active = FALSE]
    BY <1>3 DEF DeactivateUser, IsActive
  <2>2. users[u] \in User
    BY <2>1 DEF AccessInv, AccessTypeOK
  <2>3. [users[u] EXCEPT !.active = FALSE] \in User
    BY <2>2 DEF User
  <2>4. users' \in [Users -> User \cup {None}]
    BY <2>1, <2>3 DEF AccessInv, AccessTypeOK
  <2>5. ASSUME NEW v \in Users, users[v] \in User PROVE users'[v] \in User
    BY <2>1, <2>3, <2>5 DEF AccessInv, AccessTypeOK
  <2>6. ASSUME NEW r \in Requests, patches[r] # None
        PROVE  patches[r].row.active /\ users'[patches[r].user] \in User
    BY <2>5, <2>6 DEF AccessInv, AccessTypeOK, PatchesReadActive, Patch
  <2> QED
    BY <1>1, <2>4, <2>6 DEF AccessInv, AccessTypeOK, GrantsNameTheirType, PatchesReadActive
<1> QED
  BY <1>2, <1>3

LEMMA StartPatchInv ==
  ASSUME AccessInv, NEW r \in Requests, NEW admin \in Users, NEW u \in Users,
         StartPatch(r, admin, u)
  PROVE  AccessInv'
<1>1. PICK sent \in PatchInputs :
        patches' = [patches EXCEPT ![r] = [user |-> u, row |-> users[u], sent |-> sent]]
  BY DEF StartPatch
<1>2. /\ users[u] # None /\ users[u].active
      /\ UNCHANGED <<users, object_grants, record_grants>>
  BY DEF StartPatch, CanBePatched, IsActive
<1>3. users[u] \in User
  BY <1>2 DEF AccessInv, AccessTypeOK
<1>4. [user |-> u, row |-> users[u], sent |-> sent] \in Patch
  BY <1>1, <1>3 DEF Patch
<1>5. AccessTypeOK'
  BY <1>1, <1>2, <1>4 DEF AccessInv, AccessTypeOK
<1>6. GrantsNameTheirType'
  BY <1>2 DEF AccessInv, GrantsNameTheirType
<1>7. ASSUME NEW s \in Requests, patches'[s] # None
      PROVE  patches'[s].row.active /\ users'[patches'[s].user] \in User
  <2>1. CASE s = r
    BY <1>1, <1>2, <1>3, <2>1 DEF AccessInv, AccessTypeOK
  <2>2. CASE s # r
    BY <1>1, <1>2, <1>7, <2>2 DEF AccessInv, AccessTypeOK, PatchesReadActive
  <2> QED
    BY <2>1, <2>2
<1> QED
  BY <1>5, <1>6, <1>7 DEF AccessInv, PatchesReadActive

LEMMA SavePatchInv ==
  ASSUME AccessInv, NEW r \in Requests, SavePatch(r)
  PROVE  AccessInv'
<1> DEFINE patch == patches[r]
           Sent(new, old) == IF new = None THEN old ELSE new
           row == [active |-> Sent(patch.sent.active, patch.row.active),
                   superuser |-> Sent(patch.sent.superuser, patch.row.superuser),
                   roles |-> Sent(patch.sent.roles, users[patch.user].roles)]
<1>1. /\ patch # None
      /\ users' = [users EXCEPT ![patch.user] = row]
      /\ patches' = [patches EXCEPT ![r] = None]
      /\ UNCHANGED <<object_grants, record_grants>>
  BY DEF SavePatch
<1>2. patch \in Patch
  BY <1>1 DEF AccessInv, AccessTypeOK
<1>3. patch.user \in Users /\ patch.row \in User /\ patch.sent \in PatchInputs
  BY <1>2 DEF Patch
<1>4. users[patch.user] \in User
  BY <1>1 DEF AccessInv, PatchesReadActive
<1>5. row \in User
  <2>1. Sent(patch.sent.active, patch.row.active) \in BOOLEAN
    BY <1>3, PermissionAssumption DEF User
  <2>2. Sent(patch.sent.superuser, patch.row.superuser) \in BOOLEAN
    BY <1>3, PermissionAssumption DEF User
  <2>3. Sent(patch.sent.roles, users[patch.user].roles) \in SUBSET Roles
    BY <1>3, <1>4, PermissionAssumption DEF User
  <2> QED
    BY <2>1, <2>2, <2>3 DEF User
<1> HIDE DEF row, patch
<1>6. /\ users' \in [Users -> User \cup {None}]
      /\ \A u \in Users : users[u] \in User => users'[u] \in User
  BY <1>1, <1>5 DEF AccessInv, AccessTypeOK
<1>7. patches' \in [Requests -> Patch \cup {None}]
  BY <1>1 DEF AccessInv, AccessTypeOK
<1>8. ASSUME NEW s \in Requests, patches'[s] # None
      PROVE  patches'[s].row.active /\ users'[patches'[s].user] \in User
  <2>1. patches'[s] = patches[s] /\ patches[s] # None
    BY <1>1, <1>8 DEF AccessInv, AccessTypeOK
  <2>2. patches[s].user \in Users
    BY <2>1 DEF AccessInv, AccessTypeOK, Patch
  <2> QED
    BY <1>6, <2>1, <2>2 DEF AccessInv, PatchesReadActive
<1> QED
  BY <1>1, <1>6, <1>7, <1>8 DEF AccessInv, AccessTypeOK, GrantsNameTheirType, PatchesReadActive

LEMMA NextInv == AccessInv /\ [ReportsNext]_report_vars => AccessInv'
<1> SUFFICES ASSUME AccessInv, [ReportsNext]_report_vars PROVE AccessInv'
  OBVIOUS
<1>1. CASE UNCHANGED report_vars
  BY <1>1, AccessUnchanged DEF report_vars
<1>2. ASSUME NEW r \in Requests, Start(r) PROVE AccessInv'
  <2>1. ASSUME NEW admin \in Users, NEW u \in Managed, StartPatch(r, admin, u) PROVE AccessInv'
    BY <2>1, StartPatchInv, PermissionAssumption
  <2>2. ASSUME NEW u \in Users, NEW link \in LinkInputs, StartLink(r, u, link) PROVE AccessInv'
    BY <2>2, AccessUnchanged DEF StartLink
  <2> QED
    BY <1>2, <2>1, <2>2 DEF Start
<1>3. ASSUME NEW r \in Requests, Finish(r) PROVE AccessInv'
  <2>1. CASE SavePatch(r)
    BY <2>1, SavePatchInv
  <2>2. CASE LinkCreated(r)
    BY <2>2, AccessUnchanged DEF LinkCreated, SaveLink
  <2>3. CASE RefuseLink(r)
    BY <2>3, AccessUnchanged DEF RefuseLink
  <2> QED
    BY <1>3, <2>1, <2>2, <2>3 DEF Finish
<1>4. CASE Administration
  <2>1. ASSUME NEW admin \in Users, NEW role \in GrantRoles, NEW type \in Types,
               SetObjectGrant(admin, role, type)
        PROVE  AccessInv'
    BY <2>1, SetObjectGrantInv
  <2>2. ASSUME NEW admin \in Users, NEW role \in GrantRoles, NEW record \in RecordIds,
               SetRecordGrant(admin, role, record) \/ DeleteRecordGrant(admin, role, record)
        PROVE  AccessInv'
    BY <2>2, SetRecordGrantInv, DeleteRecordGrantInv
  <2>3. ASSUME NEW admin \in Users, NEW u \in Managed,
               CreateUser(admin, u) \/ DeactivateUser(admin, u)
        PROVE  AccessInv'
    BY <2>3, AccountsInv, PermissionAssumption
  <2> QED
    BY <1>4, <2>1, <2>2, <2>3 DEF Administration
<1>5. ASSUME NEW u \in Users, NEW link \in links, LinkDeleted(u, link) PROVE AccessInv'
  BY <1>5, AccessUnchanged DEF LinkDeleted, DeleteLink
<1>6. CASE Publish
  BY <1>6, AccessUnchanged DEF Publish
<1> QED
  BY <1>1, <1>2, <1>3, <1>4, <1>5, <1>6 DEF ReportsNext

-----------------------------------------------------------------------------
(* The theorems.                                                           *)

\* The filter that a list puts on its query, the check of a single record, the
\* check before a list and the pickers of the screens all follow the same
\* rules, whatever grants administrators give and however their requests
\* overlap (permissions.py).
THEOREM RulesStayInAgreement == ReportsSpec => []RulesAgree
<1>1. ReportsSpec => []AccessInv
  BY InitInv, NextInv, PTL DEF ReportsSpec
<1> QED
  BY <1>1, InvariantImpliesAgreement, PTL

\* What a step does to an account that is not active.
LEMMA ReactivationNeedsPatch ==
  ASSUME AccessInv, [ReportsNext]_report_vars,
         NEW u \in Users, users[u] # None, ~users[u].active, users'[u].active
  PROVE  \E r \in Requests : patches[r] # None /\ patches[r].user = u /\ patches[r].row.active
<1>1. users' # users
  OBVIOUS
<1>2. ASSUME NEW r \in Requests, SavePatch(r)
      PROVE  patches[r] # None /\ patches[r].user = u /\ patches[r].row.active
  <2>1. patches[r] # None
    BY <1>2 DEF SavePatch
  <2>2. patches[r].row.active
    BY <2>1 DEF AccessInv, PatchesReadActive
  <2>3. CASE patches[r].user # u
    <3>1. users'[u] = users[u]
      BY <1>2, <2>3 DEF SavePatch, AccessInv, AccessTypeOK
    <3> QED
      BY <3>1
  <2> QED
    BY <2>1, <2>2, <2>3
<1>3. ASSUME NEW admin \in Users, NEW v \in Users, CreateUser(admin, v) PROVE FALSE
  <2>1. PICK new \in NewUsers : users' = [users EXCEPT ![v] = new]
    BY <1>3 DEF CreateUser
  <2>2. v # u
    BY <1>3 DEF CreateUser
  <2> QED
    BY <2>1, <2>2 DEF AccessInv, AccessTypeOK
<1>4. ASSUME NEW admin \in Users, NEW v \in Users, DeactivateUser(admin, v) PROVE FALSE
  <2>1. users' = [users EXCEPT ![v].active = FALSE]
    BY <1>4 DEF DeactivateUser
  <2>2. CASE v = u
    <3>1. users[u] \in User
      BY DEF AccessInv, AccessTypeOK
    <3>2. users'[u] = [users[u] EXCEPT !.active = FALSE]
      BY <2>1, <2>2 DEF AccessInv, AccessTypeOK
    <3> QED
      BY <3>1, <3>2 DEF User
  <2>3. CASE v # u
    BY <2>1, <2>3 DEF AccessInv, AccessTypeOK
  <2> QED
    BY <2>2, <2>3
<1>5. CASE \E r \in Requests : SavePatch(r)
  BY <1>2, <1>5
<1>6. CASE \E admin \in Users, v \in Users : CreateUser(admin, v) \/ DeactivateUser(admin, v)
  BY <1>3, <1>4, <1>6
<1>7. \/ \E r \in Requests : SavePatch(r)
      \/ \E admin \in Users, v \in Users : CreateUser(admin, v) \/ DeactivateUser(admin, v)
  <2>1. ASSUME NEW r \in Requests, Start(r) PROVE FALSE
    BY <1>1, <2>1 DEF Start, StartPatch, StartLink, access
  <2>2. ASSUME NEW r \in Requests, Finish(r) PROVE SavePatch(r)
    BY <1>1, <2>2 DEF Finish, LinkCreated, SaveLink, RefuseLink, access
  <2>3. CASE Administration
    BY <1>1, <2>3, PermissionAssumption
    DEF Administration, SetObjectGrant, SetRecordGrant, DeleteRecordGrant
  <2>4. ASSUME NEW v \in Users, NEW link \in links, LinkDeleted(v, link) PROVE FALSE
    BY <1>1, <2>4 DEF LinkDeleted, DeleteLink, access
  <2>5. ~Publish
    BY <1>1 DEF Publish, access
  <2>6. ~UNCHANGED report_vars
    BY <1>1 DEF report_vars, access
  <2> QED
    BY <2>1, <2>2, <2>3, <2>4, <2>5, <2>6 DEF ReportsNext
<1> QED
  BY <1>5, <1>6, <1>7

\* An account that was deactivated becomes active again only when a PATCH that
\* had read it before is saved after it (serializers.py 100).
THEOREM ReactivationIsAnOverlap == ReportsSpec => ReactivatedByOverlapOnly
<1>1. ReportsSpec => []AccessInv
  BY InitInv, NextInv, PTL DEF ReportsSpec
<1> DEFINE Step == \A u \in Users :
      (users[u] # None /\ ~users[u].active /\ users'[u].active)
        => \E r \in Requests : patches[r] # None /\ patches[r].user = u /\ patches[r].row.active
<1>2. AccessInv /\ [ReportsNext]_report_vars => [Step]_access
  BY ReactivationNeedsPatch
<1> QED
  BY <1>1, <1>2, PTL DEF ReportsSpec, ReactivatedByOverlapOnly

-----------------------------------------------------------------------------
(* The search index: what a row needs so that the index will follow it.    *)

\* Rows keep the rows that their foreign keys name; links keep their records.
KeysHold ==
  /\ \A o \in Objects : rows[o] # None => \A r \in References(o) : rows[r] # None
  /\ \A l \in links : rows[l.source] # None /\ rows[l.target] # None
  /\ \A r \in Requests : creating[r] # None =>
       rows[creating[r].link.source] # None /\ rows[creating[r].link.target] # None

\* A rebuild adds again what it deletes.
RebuildInv ==
  /\ DOMAIN rebuild = {"number", "deleting", "adding", "batch"}
  /\ rebuild.deleting \in Seq(IndexNames) /\ rebuild.adding \in Seq(IndexNames)
  /\ \A o \in DOMAIN rebuild.batch : rebuild.batch[o] \in Entry
  /\ \A n \in 1..Len(rebuild.deleting) : \E m \in 1..Len(rebuild.adding) :
       rebuild.adding[m] = rebuild.deleting[n]

\* The entries of a row in the index and on their way to it.
EntriesOf(o) ==
  ({index[o]} \ {None})
  \cup {workers[w].entry : w \in {v \in Workers : workers[v] # None /\ workers[v].object = o}}
  \cup (IF o \in DOMAIN rebuild.batch THEN {rebuild.batch[o]} ELSE {})

NothingIsFromTheFuture ==
  \A o \in Objects : queue[o] <= clock /\ \A e \in EntriesOf(o) : e.at <= clock

Current(o, e) ==
  /\ e.own = rows[o]
  /\ o \in RecordIds => {n.record : n \in e.about} = Neighbours(o)

\* Something will still bring, or has brought, an entry read since that time.
Followed(o, time) ==
  \/ queue[o] > 0
  \/ \E n \in 1..Len(rebuild.adding) : rebuild.adding[n] = IndexOf(o)
  \/ \E e \in EntriesOf(o) : e.at >= time

\* The row did not change since that time.
UnchangedSince(o, time) == \A e \in EntriesOf(o) : e.at >= time => Current(o, e)

IndexCatchesUp ==
  \A o \in Objects : \E time \in 0..clock : UnchangedSince(o, time) /\ (o \in Spared => Followed(o, time))

SearchShape == AccessInv /\ SearchTypeOK /\ KeysHold /\ RebuildInv /\ NothingIsFromTheFuture

SearchInv == SearchShape /\ IndexCatchesUp

LEMMA KindsOfObjects ==
  ASSUME NEW o \in Objects
  PROVE  /\ o \in RecordIds => o \notin Revisions /\ o \notin Projects /\ o \notin Events
         /\ o \in Revisions => o \notin Projects /\ o \notin Events
         /\ o \in Projects => o \notin Events
         /\ o \in RecordIds \/ o \in Revisions \/ o \in Projects \/ o \in Events
  BY SearchAssumption DEF Objects

LEMMA LinkJoins ==
  ASSUME NEW r, NEW n, NEW l
  PROVE  {<<r, n>>, <<n, r>>} \cap {<<l.source, l.target>>} # {}
           <=> (l.source = r /\ l.target = n) \/ (l.source = n /\ l.target = r)
<1>1. {<<r, n>>, <<n, r>>} \cap {<<l.source, l.target>>} # {}
        <=> <<l.source, l.target>> \in {<<r, n>>, <<n, r>>}
  BY Zenon
<1> QED
  BY <1>1

LEMMA NeighboursAreLinked ==
  ASSUME NEW r, NEW n
  PROVE  n \in Neighbours(r) <=>
           /\ n \in RecordIds
           /\ \E l \in links : (l.source = r /\ l.target = n) \/ (l.source = n /\ l.target = r)
  BY LinkJoins DEF Neighbours

RowsShape == rows \in [Objects -> Row \cup {None}] /\ clock \in 0..MaxWrites /\ KeysHold

\* The rows whose words an entry repeats are there.
LEMMA AboutIsTyped ==
  ASSUME RowsShape, NEW o \in Objects, rows[o] # None
  PROVE  About(o) \subseteq [record : RecordIds, word : Words \cup Tags]
<1>1. ASSUME NEW r \in RecordIds, rows[r] # None PROVE rows[r] \in Row
  BY <1>1 DEF RowsShape, Objects
<1>2. ASSUME NEW r \in RecordIds, rows[r] # None
      PROVE  NameOf(r) \in [record : RecordIds, word : Words \cup Tags]
  BY <1>1, <1>2 DEF NameOf, Row
<1>3. CASE o \in RecordIds
  <2>1. ASSUME NEW n \in Neighbours(o) PROVE n \in RecordIds /\ rows[n] # None
    BY NeighboursAreLinked DEF RowsShape, KeysHold
  <2>2. About(o) = {NameOf(n) : n \in Neighbours(o)}
    BY <1>3, KindsOfObjects DEF About
  <2> QED
    BY <1>2, <2>1, <2>2
<1>4. CASE o \in Projects
  <2>1. RecordOf[o] \in RecordIds
    BY <1>4, SearchAssumption
  <2>2. References(o) = {RecordOf[o]}
    BY <1>4, KindsOfObjects DEF References
  <2>3. rows[RecordOf[o]] \in Row
    BY <1>1, <2>1, <2>2 DEF RowsShape, KeysHold
  <2>4. About(o) = {[record |-> RecordOf[o], word |-> w] : w \in {rows[RecordOf[o]].word, rows[RecordOf[o]].tag}}
    BY <1>4, KindsOfObjects DEF About
  <2> QED
    BY <2>1, <2>3, <2>4 DEF Row
<1>5. CASE o \in Events
  <2>1. References(o) = {MatchedRecord[o], FolderRecord[o]} \ {None}
    BY <1>5, KindsOfObjects DEF References
  <2>2. About(o) = IF MatchedRecord[o] = None THEN {} ELSE {NameOf(MatchedRecord[o])}
    BY <1>5, KindsOfObjects DEF About
  <2>3. MatchedRecord[o] # None => MatchedRecord[o] \in RecordIds
    BY <1>5, SearchAssumption
  <2> QED
    BY <1>2, <2>1, <2>2, <2>3 DEF RowsShape, KeysHold
<1>6. CASE o \in Revisions
  BY <1>6, KindsOfObjects DEF About
<1> QED
  BY <1>3, <1>4, <1>5, <1>6, KindsOfObjects

LEMMA PayloadOfRow ==
  ASSUME RowsShape, NEW o \in Objects, rows[o] # None
  PROVE  Payload(o) \in Entry /\ Payload(o).at = clock /\ Current(o, Payload(o))
<1>1. rows[o] \in Row /\ clock \in 0..MaxWrites
  BY DEF RowsShape
<1>2. Payload(o) \in Entry /\ Payload(o).at = clock /\ Payload(o).own = rows[o]
  BY <1>1, AboutIsTyped DEF Payload, Entry
<1>3. ASSUME o \in RecordIds
      PROVE  {n.record : n \in Payload(o).about} = Neighbours(o)
  <2>1. Payload(o).about = {NameOf(n) : n \in Neighbours(o)}
    BY <1>3, KindsOfObjects DEF Payload, About
  <2>2. \A n \in Neighbours(o) : NameOf(n).record = n
    BY DEF NameOf
  <2> QED
    BY <2>1, <2>2
<1> QED
  BY <1>2, <1>3 DEF Current

LEMMA PayloadIsCurrent ==
  ASSUME SearchShape, NEW o \in Objects, rows[o] # None
  PROVE  Payload(o) \in Entry /\ Payload(o).at = clock /\ Current(o, Payload(o))
  BY PayloadOfRow DEF RowsShape, SearchShape, SearchTypeOK

\* Where an entry of a row may be.
LEMMA WhereEntriesAre ==
  ASSUME NEW o, NEW e
  PROVE  e \in EntriesOf(o) <=>
           \/ e = index[o] /\ e # None
           \/ \E w \in Workers : workers[w] # None /\ workers[w].object = o /\ workers[w].entry = e
           \/ o \in DOMAIN rebuild.batch /\ e = rebuild.batch[o]
  BY DEF EntriesOf

LEMMA EntriesAreTyped ==
  ASSUME SearchShape, NEW o \in Objects, NEW e \in EntriesOf(o)
  PROVE  e \in Entry /\ e.at \in 0..clock
<1>1. ASSUME e = index[o], e # None PROVE e \in Entry
  BY <1>1 DEF SearchShape, SearchTypeOK
<1>2. ASSUME NEW w \in Workers, workers[w] # None, workers[w].entry = e PROVE e \in Entry
  BY <1>2 DEF SearchShape, SearchTypeOK, Task
<1>3. ASSUME o \in DOMAIN rebuild.batch, e = rebuild.batch[o] PROVE e \in Entry
  BY <1>3 DEF SearchShape, RebuildInv
<1>4. e \in Entry
  BY <1>1, <1>2, <1>3, WhereEntriesAre
<1>5. e.at <= clock
  BY DEF SearchShape, NothingIsFromTheFuture
<1>6. MaxWrites \in Nat /\ clock \in 0..MaxWrites
  BY SearchAssumption DEF SearchShape, SearchTypeOK
<1> QED
  BY <1>4, <1>5, <1>6 DEF Entry

\* A commit posts the task of each row that it changes, or the post is lost.
LEMMA CommitIsFollowed ==
  ASSUME SearchInv, NEW objects \in SUBSET Objects, Enqueue(objects),
         \A o \in Objects \ objects :
           rows'[o] = rows[o] /\ (o \in RecordIds => Neighbours(o)' = Neighbours(o))
  PROVE  IndexCatchesUp'
<1> SUFFICES ASSUME NEW o \in Objects
             PROVE  \E time \in 0..clock' :
                      UnchangedSince(o, time)' /\ (o \in Spared' => Followed(o, time)')
  BY DEF IndexCatchesUp
<1>1. EntriesOf(o)' = EntriesOf(o) /\ rebuild' = rebuild
  BY DEF Enqueue, EntriesOf
<1>2. PICK posted \in SUBSET objects :
        /\ queue' = [p \in Objects |-> IF p \in posted THEN queue[p] + 1 ELSE queue[p]]
        /\ lost' = lost \cup (objects \ posted)
  BY DEF Enqueue
<1>3. clock \in Nat /\ clock' = clock + 1 /\ overtaken' = overtaken /\ queue[o] \in Nat
  BY SearchAssumption DEF Enqueue, SearchInv, SearchShape, SearchTypeOK
<1>4. CASE o \in objects
  <2>1. PICK now \in 0..clock' : now = clock + 1
    BY <1>3
  <2>2. \A e \in EntriesOf(o)' : ~(e.at >= now)
    BY <1>1, <1>3, <2>1, EntriesAreTyped DEF SearchInv
  <2>3. UnchangedSince(o, now)'
    BY <2>2 DEF UnchangedSince
  <2>4. o \in Spared' => queue'[o] > 0
    BY <1>2, <1>3, <1>4 DEF Spared
  <2> QED
    BY <2>1, <2>3, <2>4 DEF Followed
<1>5. CASE o \notin objects
  <2>1. PICK time \in 0..clock : UnchangedSince(o, time) /\ (o \in Spared => Followed(o, time))
    BY DEF SearchInv, IndexCatchesUp
  <2>2. rows'[o] = rows[o] /\ (o \in RecordIds => Neighbours(o)' = Neighbours(o))
    BY <1>5
  <2>3. UnchangedSince(o, time)'
    BY <1>1, <2>1, <2>2 DEF UnchangedSince, Current
  <2>4. o \in Spared' => o \in Spared
    BY <1>2, <1>3, <2>2 DEF Spared
  <2>5. Followed(o, time) => Followed(o, time)'
    BY <1>1, <1>2, <1>3 DEF Followed
  <2> QED
    BY <1>3, <2>1, <2>3, <2>4, <2>5
<1> QED
  BY <1>4, <1>5

\* Any other step moves entries about, and reads rows as they are.
LEMMA OthersKeepUp ==
  ASSUME SearchInv, UNCHANGED <<rows, links, clock>>,
         \A o \in Objects : \A e \in EntriesOf(o)' : e \in EntriesOf(o) \/ Current(o, e),
         \A o \in Objects : o \in Spared' =>
           \A time \in 0..clock : (o \in Spared => Followed(o, time)) => Followed(o, time)'
  PROVE  IndexCatchesUp'
<1> SUFFICES ASSUME NEW o \in Objects
             PROVE  \E time \in 0..clock' :
                      UnchangedSince(o, time)' /\ (o \in Spared' => Followed(o, time)')
  BY DEF IndexCatchesUp
<1>1. PICK time \in 0..clock : UnchangedSince(o, time) /\ (o \in Spared => Followed(o, time))
  BY DEF SearchInv, IndexCatchesUp
<1>2. \A e : Current(o, e)' <=> Current(o, e)
  BY DEF Current, Neighbours
<1>3. UnchangedSince(o, time)'
  BY <1>1, <1>2 DEF UnchangedSince
<1> QED
  BY <1>1, <1>3

\* What a request to Meilisearch does with entries on their way.
LEMMA SentEntriesReplace ==
  ASSUME SearchInv, NEW entries, DOMAIN entries \subseteq Objects, AddDocuments(entries),
         \A o \in DOMAIN entries : entries[o] \in EntriesOf(o)
  PROVE  /\ index' \in [Objects -> Entry \cup {None}]
         /\ overtaken \subseteq overtaken' /\ overtaken' \subseteq Objects
         /\ \A o \in Objects \ DOMAIN entries : index'[o] = index[o]
         /\ \A o \in DOMAIN entries : index'[o] = entries[o]
         /\ \A o \in DOMAIN entries \ overtaken' :
              index[o] # None => entries[o].at >= index[o].at
<1>1. \A o \in DOMAIN entries : entries[o] \in Entry /\ entries[o].at \in 0..clock
  BY EntriesAreTyped DEF SearchInv
<1>2. index \in [Objects -> Entry \cup {None}] /\ overtaken \subseteq Objects
  BY DEF SearchInv, SearchShape, SearchTypeOK
<1>3. index' = [o \in Objects |-> IF o \in DOMAIN entries THEN entries[o] ELSE index[o]]
  BY DEF AddDocuments
<1>4. overtaken' = overtaken \cup
        {o \in DOMAIN entries : index[o] # None /\ entries[o].at < index[o].at}
  BY DEF AddDocuments
<1>5. \A o \in Objects : index[o] # None => index[o].at \in Nat
  BY <1>2, SearchAssumption DEF Entry
<1>6. clock \in Nat
  BY SearchAssumption DEF SearchInv, SearchShape, SearchTypeOK
<1>7. index' \in [Objects -> Entry \cup {None}]
  BY <1>1, <1>2, <1>3
<1>8. \A o \in DOMAIN entries \ overtaken' : index[o] # None => entries[o].at >= index[o].at
  BY <1>1, <1>4, <1>5, <1>6
<1> QED
  BY <1>2, <1>3, <1>4, <1>7, <1>8

LEMMA ReferencesAreRecords ==
  ASSUME NEW o \in Objects
  PROVE  References(o) \subseteq RecordIds /\ (o \in RecordIds => References(o) = {})
<1>1. o \in Revisions \cup Projects => References(o) = {RecordOf[o]} /\ RecordOf[o] \in RecordIds
  BY KindsOfObjects, SearchAssumption DEF References
<1>2. o \in Events => References(o) = {MatchedRecord[o], FolderRecord[o]} \ {None}
  BY KindsOfObjects DEF References
<1>3. o \in Events => {MatchedRecord[o], FolderRecord[o]} \subseteq RecordIds \cup {None}
  BY SearchAssumption
<1>4. o \in RecordIds => References(o) = {}
  BY KindsOfObjects DEF References
<1> QED
  BY <1>1, <1>2, <1>3, <1>4, KindsOfObjects

-----------------------------------------------------------------------------
(* The steps of the search model.                                          *)

\* A commit changes neither accounts nor entries, and dates what comes after.
LEMMA CommitKeepsShape ==
  ASSUME SearchInv, NEW objects \in SUBSET Objects, Enqueue(objects), UNCHANGED access,
         rows' \in [Objects -> Row \cup {None}], LinkTypeOK', KeysHold'
  PROVE  SearchShape'
<1>1. PICK posted \in SUBSET objects :
        /\ queue' = [o \in Objects |-> IF o \in posted THEN queue[o] + 1 ELSE queue[o]]
        /\ lost' = lost \cup (objects \ posted)
  BY DEF Enqueue
<1>2. clock \in Nat /\ clock' = clock + 1 /\ clock' \in 0..MaxWrites
      /\ UNCHANGED <<index, workers, rebuild, overtaken>>
  BY SearchAssumption DEF Enqueue, SearchInv, SearchShape, SearchTypeOK
<1>3. \A o \in Objects : queue[o] \in Nat /\ queue[o] <= clock
  BY <1>2, SearchAssumption DEF SearchInv, SearchShape, SearchTypeOK, NothingIsFromTheFuture
<1>4. \A o \in Objects : queue'[o] \in 0..MaxWrites /\ queue'[o] <= clock'
  BY <1>1, <1>2, <1>3, SearchAssumption
<1>5. queue' \in [Objects -> 0..MaxWrites]
  BY <1>1, <1>4
<1>6. AccessInv'
  BY AccessUnchanged DEF SearchInv, SearchShape
<1>7. SearchTypeOK'
  BY <1>1, <1>2, <1>5, <1>6 DEF SearchInv, SearchShape, SearchTypeOK, AccessInv
<1>8. RebuildInv'
  BY <1>2 DEF SearchInv, SearchShape, RebuildInv
<1>9. NothingIsFromTheFuture'
  <2>1. \A o \in Objects : \A e \in EntriesOf(o) : e.at <= clock'
    BY <1>2, EntriesAreTyped DEF SearchInv
  <2>2. \A o \in Objects : EntriesOf(o)' = EntriesOf(o)
    BY <1>2 DEF EntriesOf
  <2> QED
    BY <1>4, <2>1, <2>2 DEF NothingIsFromTheFuture
<1> QED
  BY <1>6, <1>7, <1>8, <1>9 DEF SearchShape

LEMMA WriteRowKept ==
  ASSUME SearchInv, NEW o \in Writable \ Projects, WriteRow(o)
  PROVE  SearchInv'
<1>1. PICK row \in RowInputs : rows' = [rows EXCEPT ![o] = row]
  BY DEF WriteRow
<1>2. /\ o \in Objects /\ row \in Row /\ row # None
      /\ Enqueue({o}) /\ UNCHANGED <<access, link_vars>>
      /\ \A r \in References(o) : rows[r] # None
  BY SearchAssumption DEF WriteRow
<1>3. rows' \in [Objects -> Row \cup {None}]
  BY <1>1, <1>2 DEF SearchInv, SearchShape, SearchTypeOK
<1>4. LinkTypeOK'
  BY <1>2 DEF SearchInv, SearchShape, SearchTypeOK, LinkTypeOK, link_vars
<1>5. \A p \in Objects : rows[p] # None => rows'[p] # None
  BY <1>1, <1>2 DEF SearchInv, SearchShape, SearchTypeOK
<1>6. KeysHold'
  <2>1. \A p \in Objects : References(p) \subseteq Objects
    BY ReferencesAreRecords DEF Objects
  <2>2. ASSUME NEW p \in Objects, rows'[p] # None, NEW r \in References(p) PROVE rows'[r] # None
    <3>1. rows[r] # None
      <4>1. CASE p = o
        BY <1>2, <4>1
      <4>2. CASE p # o
        BY <1>1, <2>2, <4>2 DEF SearchInv, SearchShape, SearchTypeOK, KeysHold
      <4> QED
        BY <4>1, <4>2
    <3> QED
      BY <1>5, <2>1, <3>1
  <2>3. \A l \in Link : l.source \in Objects /\ l.target \in Objects
    BY DEF Link, Objects
  <2>4. links \subseteq Link /\ \A r \in Requests : creating[r] # None => creating[r].link \in Link
    BY DEF SearchInv, SearchShape, SearchTypeOK, LinkTypeOK
  <2> QED
    BY <1>2, <1>5, <2>2, <2>3, <2>4 DEF SearchInv, SearchShape, KeysHold, link_vars
<1>7. \A p \in Objects \ {o} :
        rows'[p] = rows[p] /\ (p \in RecordIds => Neighbours(p)' = Neighbours(p))
  BY <1>1, <1>2 DEF SearchInv, SearchShape, SearchTypeOK, Neighbours, link_vars
<1> QED
  BY <1>2, <1>3, <1>4, <1>6, <1>7, CommitKeepsShape, CommitIsFollowed DEF SearchInv

LEMMA WriteProjectKept ==
  ASSUME SearchInv, NEW o \in Writable \cap Projects, WriteProject(o)
  PROVE  SearchInv'
<1> DEFINE r == RecordOf[o]
<1>1. PICK row \in RowInputs :
        rows' = [rows EXCEPT ![o] = row, ![r] = ProjectRecord(rows[r], row)]
  BY DEF WriteProject
<1>2. /\ o \in Objects /\ r \in RecordIds /\ r \in Objects /\ r # o /\ row \in Row /\ row # None
      /\ Enqueue({o, r}) /\ UNCHANGED <<access, link_vars>>
  BY SearchAssumption, KindsOfObjects DEF WriteProject, ProjectTasks, Objects
<1>3. ProjectRecord(rows[r], row) \in Row /\ ProjectRecord(rows[r], row) # None
  <2>1. CASE rows[r] = None
    BY <1>2, <2>1 DEF ProjectRecord
  <2>2. CASE rows[r] # None
    <3>1. rows[r] \in Row
      BY <1>2, <2>2 DEF SearchInv, SearchShape, SearchTypeOK
    <3>2. [rows[r] EXCEPT !.tag = row.tag] \in Row
      BY <1>2, <3>1 DEF Row
    <3> QED
      BY <2>2, <3>2, SearchAssumption DEF ProjectRecord
  <2> QED
    BY <2>1, <2>2
<1> HIDE DEF r
<1>4. /\ rows' \in [Objects -> Row \cup {None}]
      /\ rows'[o] # None /\ rows'[r] # None
      /\ \A p \in Objects \ {o, r} : rows'[p] = rows[p]
  BY <1>1, <1>2, <1>3 DEF SearchInv, SearchShape, SearchTypeOK
<1>5. LinkTypeOK'
  BY <1>2 DEF SearchInv, SearchShape, SearchTypeOK, LinkTypeOK, link_vars
<1>6. \A p \in Objects : rows[p] # None => rows'[p] # None
  BY <1>4
<1>7. KeysHold'
  <2>1. \A p \in Objects : References(p) \subseteq Objects
    BY ReferencesAreRecords DEF Objects
  <2>2. References(o) = {r} /\ References(r) = {}
    BY <1>2, ReferencesAreRecords, KindsOfObjects DEF References, r
  <2>3. ASSUME NEW p \in Objects, rows'[p] # None, NEW s \in References(p) PROVE rows'[s] # None
    <3>1. CASE p \in {o, r}
      BY <1>4, <2>2, <2>3, <3>1
    <3>2. CASE p \notin {o, r}
      BY <1>4, <1>6, <2>1, <2>3, <3>2 DEF SearchInv, SearchShape, KeysHold
    <3> QED
      BY <3>1, <3>2
  <2>4. \A l \in Link : l.source \in Objects /\ l.target \in Objects
    BY DEF Link, Objects
  <2>5. links \subseteq Link /\ \A q \in Requests : creating[q] # None => creating[q].link \in Link
    BY DEF SearchInv, SearchShape, SearchTypeOK, LinkTypeOK
  <2> QED
    BY <1>2, <1>6, <2>3, <2>4, <2>5 DEF SearchInv, SearchShape, KeysHold, link_vars
<1>8. \A p \in Objects \ {o, r} :
        rows'[p] = rows[p] /\ (p \in RecordIds => Neighbours(p)' = Neighbours(p))
  BY <1>2, <1>4 DEF Neighbours, link_vars
<1>9. {o, r} \in SUBSET Objects
  BY <1>2
<1> QED
  BY <1>2, <1>4, <1>5, <1>7, <1>8, <1>9, CommitKeepsShape, CommitIsFollowed DEF SearchInv

\* A link that is made or deleted matters to its ends only.
LEMMA LinkChangeKept ==
  ASSUME SearchInv, NEW link \in Link, rows[link.source] # None, rows[link.target] # None,
         links' = links \cup {link} \/ links' = links \ {link},
         UNCHANGED <<access, rows, definitions>>, Enqueue(EndsOf(link)),
         creating' \in [Requests -> [user : Users, link : Link] \cup {None}],
         \A r \in Requests : creating'[r] # None => creating'[r] = creating[r]
  PROVE  SearchInv'
<1>1. EndsOf(link) \in SUBSET Objects
  BY DEF EndsOf, Link, Objects
<1>2. LinkTypeOK'
  <2>1. LinkTypeOK
    BY DEF SearchInv, SearchShape, SearchTypeOK
  <2>2. IsFiniteSet(links')
    BY <2>1, FS_AddElement, FS_RemoveElement DEF LinkTypeOK
  <2> QED
    BY <2>1, <2>2 DEF LinkTypeOK
<1>3. KeysHold'
  BY DEF SearchInv, SearchShape, KeysHold, References
<1>4. rows' \in [Objects -> Row \cup {None}]
  BY DEF SearchInv, SearchShape, SearchTypeOK
<1>5. ASSUME NEW o \in Objects \ EndsOf(link) PROVE Neighbours(o)' = Neighbours(o)
  <2>1. ASSUME NEW n
        PROVE  (\E l \in links' : (l.source = o /\ l.target = n) \/ (l.source = n /\ l.target = o))
                 <=> \E l \in links : (l.source = o /\ l.target = n) \/ (l.source = n /\ l.target = o)
    BY <1>5 DEF EndsOf
  <2>2. \A n : n \in Neighbours(o)' <=> n \in Neighbours(o)
    <3> SUFFICES ASSUME NEW n PROVE n \in Neighbours(o)' <=> n \in Neighbours(o)
      OBVIOUS
    <3>1. n \in Neighbours(o) <=>
            /\ n \in RecordIds
            /\ \E l \in links : (l.source = o /\ l.target = n) \/ (l.source = n /\ l.target = o)
      BY NeighboursAreLinked
    <3>2. n \in Neighbours(o)' <=>
            /\ n \in RecordIds
            /\ \E l \in links' : (l.source = o /\ l.target = n) \/ (l.source = n /\ l.target = o)
      BY LinkJoins DEF Neighbours
    <3> QED
      BY <2>1, <3>1, <3>2
  <2>3. Neighbours(o) = {n \in Neighbours(o) : TRUE} /\ Neighbours(o)' = {n \in Neighbours(o)' : TRUE}
    OBVIOUS
  <2> QED
    BY <2>2, <2>3
<1> QED
  BY <1>1, <1>2, <1>3, <1>4, <1>5, CommitKeepsShape, CommitIsFollowed DEF SearchInv

LEMMA ChangeLinksKept ==
  ASSUME SearchInv, NEW r \in Requests, ChangeLinks(r)
  PROVE  SearchInv'
<1>1. CASE SaveLink(r) /\ Enqueue(EndsOf(creating[r].link))
  <2> DEFINE link == creating[r].link
  <2>1. creating[r] # None /\ links' = links \cup {link} /\ creating' = [creating EXCEPT ![r] = None]
        /\ UNCHANGED <<access, definitions, rows>>
    BY <1>1 DEF ChangeLinks, SaveLink, MaySave
  <2>2. link \in Link /\ rows[link.source] # None /\ rows[link.target] # None
    BY <2>1 DEF SearchInv, SearchShape, SearchTypeOK, LinkTypeOK, KeysHold
  <2>3. /\ creating' \in [Requests -> [user : Users, link : Link] \cup {None}]
        /\ \A q \in Requests : creating'[q] # None => creating'[q] = creating[q]
    BY <2>1 DEF SearchInv, SearchShape, SearchTypeOK, LinkTypeOK
  <2> HIDE DEF link
  <2>4. Enqueue(EndsOf(link))
    BY <1>1 DEF link
  <2> QED
    BY <2>1, <2>2, <2>3, <2>4, LinkChangeKept
<1>2. ASSUME NEW u \in Users, NEW link \in links, DeleteLink(u, link), Enqueue(EndsOf(link))
      PROVE  SearchInv'
  <2>1. links' = links \ {link} /\ UNCHANGED <<access, definitions, creating, rows>>
    BY <1>2 DEF ChangeLinks, DeleteLink
  <2>2. link \in Link /\ rows[link.source] # None /\ rows[link.target] # None
    BY DEF SearchInv, SearchShape, SearchTypeOK, LinkTypeOK, KeysHold
  <2>3. /\ creating' \in [Requests -> [user : Users, link : Link] \cup {None}]
        /\ \A q \in Requests : creating'[q] # None => creating'[q] = creating[q]
    BY <2>1 DEF SearchInv, SearchShape, SearchTypeOK, LinkTypeOK
  <2> QED
    BY <1>2, <2>1, <2>2, <2>3, LinkChangeKept
<1> QED
  BY <1>1, <1>2 DEF ChangeLinks

\* Steps that leave the index and the rows alone.
LEMMA SearchUnchanged ==
  ASSUME SearchInv, UNCHANGED search, AccessInv', LinkTypeOK', KeysHold', UNCHANGED links
  PROVE  SearchInv'
<1>1. \A o \in Objects : EntriesOf(o)' = EntriesOf(o)
  BY DEF search, EntriesOf
<1>2. SearchShape'
  BY <1>1 DEF SearchInv, SearchShape, SearchTypeOK, AccessInv, search, RebuildInv, NothingIsFromTheFuture
<1>3. IndexCatchesUp'
  BY <1>1, OthersKeepUp DEF search, Spared, Followed
<1> QED
  BY <1>2, <1>3 DEF SearchInv

LEMMA RequestLinkKept ==
  ASSUME SearchInv, NEW r \in Requests, RequestLink(r)
  PROVE  SearchInv'
<1>1. UNCHANGED search
  BY DEF RequestLink
<1>2. ASSUME NEW u \in Users, NEW link \in LinkInputs, rows[link.source] # None, rows[link.target] # None,
             StartLink(r, u, link)
      PROVE  SearchInv'
  <2>1. creating' = [creating EXCEPT ![r] = [user |-> u, link |-> link]]
        /\ UNCHANGED <<access, definitions, links>>
    BY <1>2 DEF StartLink
  <2>2. link \in Link
    BY RelationshipAssumption DEF Link
  <2>3. LinkTypeOK'
    BY <2>1, <2>2 DEF SearchInv, SearchShape, SearchTypeOK, LinkTypeOK
  <2>4. KeysHold'
    BY <1>1, <1>2, <2>1, <2>2
    DEF SearchInv, SearchShape, SearchTypeOK, LinkTypeOK, KeysHold, search, References
  <2> QED
    BY <1>1, <2>1, <2>3, <2>4, SearchUnchanged, AccessUnchanged DEF SearchInv, SearchShape
<1>3. CASE RefuseLink(r)
  <2>1. creating' = [creating EXCEPT ![r] = None] /\ UNCHANGED <<access, definitions, links>>
    BY <1>3 DEF RefuseLink
  <2>2. LinkTypeOK'
    BY <2>1 DEF SearchInv, SearchShape, SearchTypeOK, LinkTypeOK
  <2>3. KeysHold'
    BY <1>1, <2>1
    DEF SearchInv, SearchShape, SearchTypeOK, LinkTypeOK, KeysHold, search, References
  <2> QED
    BY <1>1, <2>1, <2>2, <2>3, SearchUnchanged, AccessUnchanged DEF SearchInv, SearchShape
<1> QED
  BY <1>2, <1>3 DEF RequestLink

-----------------------------------------------------------------------------
(* Workers and the rebuild.                                                *)

\* What every step of them leaves as it is.
LEMMA RestOfShape ==
  ASSUME SearchInv, UNCHANGED <<access, link_vars, rows, clock>>
  PROVE  AccessInv' /\ LinkTypeOK' /\ KeysHold' /\ rows' \in [Objects -> Row \cup {None}] /\ clock' \in 0..MaxWrites
<1>1. AccessInv'
  BY AccessUnchanged DEF SearchInv, SearchShape
<1> QED
  BY <1>1 DEF SearchInv, SearchShape, SearchTypeOK, LinkTypeOK, KeysHold, link_vars, References

LEMMA StartTaskKept ==
  ASSUME SearchInv, NEW w \in Workers, NEW o \in Objects, StartTask(w, o)
  PROVE  SearchInv'
<1> DEFINE task == IF rows[o] = None THEN None ELSE [object |-> o, entry |-> Payload(o)]
<1>1. /\ workers[w] = None /\ queue[o] > 0
      /\ queue' = [queue EXCEPT ![o] = queue[o] - 1]
      /\ workers' = [workers EXCEPT ![w] = task]
      /\ lost' = lost \ {o} /\ overtaken' = overtaken \ {o}
      /\ UNCHANGED <<access, link_vars, rows, index, rebuild, clock>>
  BY DEF StartTask, Read
<1>2. rows[o] # None => task # None /\ task \in Task /\ task.object = o /\ task.entry = Payload(o)
                        /\ Payload(o).at = clock /\ Current(o, Payload(o))
  BY PayloadIsCurrent, SearchAssumption DEF SearchInv, Task
<1>3. rows[o] = None => task = None
  OBVIOUS
<1> HIDE DEF task
<1>4. workers \in [Workers -> Task \cup {None}] /\ queue \in [Objects -> 0..MaxWrites] /\ MaxWrites \in Nat
  BY SearchAssumption DEF SearchInv, SearchShape, SearchTypeOK
<1>5. ASSUME NEW p \in Objects, NEW e \in EntriesOf(p)'
      PROVE  e \in EntriesOf(p) \/ (p = o /\ e = Payload(o) /\ rows[o] # None)
  <2>1. CASE e = index'[p] /\ e # None
    BY <1>1, <2>1, WhereEntriesAre
  <2>2. CASE \E v \in Workers : workers'[v] # None /\ workers'[v].object = p /\ workers'[v].entry = e
    <3>1. PICK v \in Workers : workers'[v] # None /\ workers'[v].object = p /\ workers'[v].entry = e
      BY <2>2
    <3>2. CASE v = w
      BY <1>1, <1>2, <1>3, <1>4, <3>1, <3>2
    <3>3. CASE v # w
      BY <1>1, <1>4, <3>1, <3>3, WhereEntriesAre
    <3> QED
      BY <3>2, <3>3
  <2>3. CASE p \in DOMAIN rebuild'.batch /\ e = rebuild'.batch[p]
    BY <1>1, <2>3, WhereEntriesAre
  <2>4. \/ e = index'[p] /\ e # None
        \/ \E v \in Workers : workers'[v] # None /\ workers'[v].object = p /\ workers'[v].entry = e
        \/ p \in DOMAIN rebuild'.batch /\ e = rebuild'.batch[p]
    BY DEF EntriesOf
  <2> QED
    BY <2>1, <2>2, <2>3, <2>4
<1>6. ASSUME NEW p \in Objects, NEW e \in EntriesOf(p) PROVE e \in EntriesOf(p)'
  <2>1. CASE \E v \in Workers : workers[v] # None /\ workers[v].object = p /\ workers[v].entry = e
    <3>1. PICK v \in Workers : workers[v] # None /\ workers[v].object = p /\ workers[v].entry = e
      BY <2>1
    <3>2. workers'[v] = workers[v]
      BY <1>1, <1>4, <3>1
    <3> QED
      BY <3>1, <3>2 DEF EntriesOf
  <2>2. CASE e = index[p] /\ e # None
    BY <1>1, <2>2 DEF EntriesOf
  <2>3. CASE p \in DOMAIN rebuild.batch /\ e = rebuild.batch[p]
    BY <1>1, <2>3 DEF EntriesOf
  <2> QED
    BY <2>1, <2>2, <2>3, WhereEntriesAre
<1>7. SearchShape'
  <2>1. workers' \in [Workers -> Task \cup {None}] /\ queue' \in [Objects -> 0..MaxWrites]
    BY <1>1, <1>2, <1>3, <1>4
  <2>2. SearchTypeOK'
    BY <1>1, <2>1, RestOfShape DEF SearchInv, SearchShape, SearchTypeOK, AccessInv
  <2>3. \A p \in Objects : queue'[p] <= clock'
    BY <1>1, <1>4 DEF SearchInv, SearchShape, SearchTypeOK, NothingIsFromTheFuture
  <2>4. \A p \in Objects : \A e \in EntriesOf(p)' : e.at <= clock'
    <3>1. clock \in Nat
      BY <1>4 DEF SearchInv, SearchShape, SearchTypeOK
    <3> QED
      BY <1>1, <1>2, <1>5, <3>1, EntriesAreTyped DEF SearchInv
  <2> QED
    BY <1>1, <2>2, <2>3, <2>4, RestOfShape
    DEF SearchInv, SearchShape, RebuildInv, NothingIsFromTheFuture
<1>8. IndexCatchesUp'
  <2>1. \A p \in Objects : \A e \in EntriesOf(p)' : e \in EntriesOf(p) \/ Current(p, e)
    BY <1>2, <1>5
  <2>2. \A p \in Objects : p \in Spared' => rows[p] # None /\ (p # o => p \in Spared)
    BY <1>1 DEF Spared
  <2>3. ASSUME NEW p \in Objects, p \in Spared', NEW time \in 0..clock, p \in Spared => Followed(p, time)
        PROVE  Followed(p, time)'
    <3>1. CASE p = o
      <4>1. rows[o] # None
        BY <2>2, <2>3, <3>1
      <4>2. Payload(o) \in EntriesOf(o)'
        <5>1. workers'[w] # None /\ workers'[w].object = o /\ workers'[w].entry = Payload(o)
          BY <1>1, <1>2, <1>4, <4>1
        <5> QED
          BY <5>1 DEF EntriesOf
      <4> QED
        BY <1>2, <3>1, <4>1, <4>2 DEF Followed
    <3>2. CASE p # o
      <4>1. queue'[p] = queue[p]
        BY <1>1, <1>4, <3>2
      <4> QED
        BY <1>1, <1>6, <2>2, <2>3, <3>2, <4>1 DEF Followed
    <3> QED
      BY <3>1, <3>2
  <2> QED
    BY <1>1, <2>1, <2>2, <2>3, OthersKeepUp DEF link_vars
<1> QED
  BY <1>7, <1>8 DEF SearchInv

\* Entries are moved, or read from their rows.
LEMMA EntriesReadOrMoved ==
  ASSUME SearchInv, UNCHANGED <<access, link_vars, rows, queue, clock>>,
         index' \in [Objects -> Entry \cup {None}], workers' \in [Workers -> Task \cup {None}],
         lost' \cup overtaken' \subseteq Objects,
         RebuildInv', DOMAIN rebuild'.batch \subseteq Objects,
         \A o \in Objects : \A e \in EntriesOf(o)' : e \in EntriesOf(o) \/ (rows[o] # None /\ e = Payload(o)),
         \A o \in Objects : o \in Spared' =>
           \A time \in 0..clock : (o \in Spared => Followed(o, time)) => Followed(o, time)'
  PROVE  SearchInv'
<1>1. SearchTypeOK'
  BY RestOfShape DEF SearchInv, SearchShape, SearchTypeOK, AccessInv
<1>2. NothingIsFromTheFuture'
  <2>1. clock \in Nat /\ clock' = clock
    BY SearchAssumption DEF SearchInv, SearchShape, SearchTypeOK
  <2>2. \A o \in Objects : \A e \in EntriesOf(o)' : e.at <= clock
    BY <2>1, EntriesAreTyped, PayloadIsCurrent DEF SearchInv
  <2>3. \A o \in Objects : queue'[o] <= clock
    BY <2>1 DEF SearchInv, SearchShape, NothingIsFromTheFuture
  <2> QED
    BY <2>1, <2>2, <2>3 DEF NothingIsFromTheFuture
<1>3. \A o \in Objects : \A e \in EntriesOf(o)' : e \in EntriesOf(o) \/ Current(o, e)
  BY PayloadIsCurrent DEF SearchInv
<1>4. IndexCatchesUp'
  BY <1>3, OthersKeepUp DEF link_vars
<1> QED
  BY <1>1, <1>2, <1>4, RestOfShape DEF SearchInv, SearchShape

LEMMA EntriesMoved ==
  ASSUME SearchInv, UNCHANGED <<access, link_vars, rows, queue, clock>>,
         index' \in [Objects -> Entry \cup {None}], workers' \in [Workers -> Task \cup {None}],
         lost \subseteq lost', overtaken \subseteq overtaken', lost' \cup overtaken' \subseteq Objects,
         RebuildInv', DOMAIN rebuild'.batch \subseteq Objects,
         \A o \in Objects : \A e \in EntriesOf(o)' : e \in EntriesOf(o) \/ (rows[o] # None /\ e = Payload(o)),
         \A o \in Objects : o \in Spared' => \A time \in 0..clock : Followed(o, time) => Followed(o, time)'
  PROVE  SearchInv'
<1>1. \A o \in Objects : o \in Spared' => o \in Spared
  BY DEF Spared
<1> QED
  BY <1>1, EntriesReadOrMoved

\* The primed form of WhereEntriesAre.
LEMMA WhereEntriesWillBe ==
  ASSUME NEW o, NEW e
  PROVE  e \in EntriesOf(o)' <=>
           \/ e = index'[o] /\ e # None
           \/ \E w \in Workers : workers'[w] # None /\ workers'[w].object = o /\ workers'[w].entry = e
           \/ o \in DOMAIN rebuild'.batch /\ e = rebuild'.batch[o]
  BY DEF EntriesOf

LEMMA SendEntryKept ==
  ASSUME SearchInv, NEW w \in Workers, SendEntry(w)
  PROVE  SearchInv'
<1> DEFINE entries == [o \in {workers[w].object} |-> workers[w].entry]
<1>1. /\ workers[w] # None /\ AddDocuments(entries)
      /\ workers' = [workers EXCEPT ![w] = None]
      /\ UNCHANGED <<access, link_vars, rows, queue, rebuild, clock, lost>>
  BY DEF SendEntry
<1>2. workers \in [Workers -> Task \cup {None}]
  BY DEF SearchInv, SearchShape, SearchTypeOK
<1>3. DOMAIN entries = {workers[w].object} /\ entries[workers[w].object] = workers[w].entry
  OBVIOUS
<1>4. workers[w].object \in Objects /\ workers[w].entry # None
  BY <1>1, <1>2, SearchAssumption DEF Task
<1> HIDE DEF entries
<1>5. \A o \in DOMAIN entries : entries[o] \in EntriesOf(o)
  BY <1>1, <1>3, WhereEntriesAre
<1>6. DOMAIN entries \subseteq Objects
  BY <1>3, <1>4
<1>7. /\ index' \in [Objects -> Entry \cup {None}]
      /\ overtaken \subseteq overtaken' /\ overtaken' \subseteq Objects
      /\ \A o \in Objects \ DOMAIN entries : index'[o] = index[o]
      /\ \A o \in DOMAIN entries : index'[o] = entries[o]
      /\ \A o \in DOMAIN entries \ overtaken' : index[o] # None => entries[o].at >= index[o].at
  BY <1>1, <1>5, <1>6, SentEntriesReplace
<1>8. workers' \in [Workers -> Task \cup {None}]
  BY <1>1, <1>2
<1>9. lost' \cup overtaken' \subseteq Objects /\ DOMAIN rebuild'.batch \subseteq Objects
  BY <1>1, <1>7 DEF SearchInv, SearchShape, SearchTypeOK
<1>10. RebuildInv'
  BY <1>1 DEF SearchInv, SearchShape, RebuildInv
<1>11. ASSUME NEW o \in Objects, NEW e \in EntriesOf(o)' PROVE e \in EntriesOf(o)
  <2>1. CASE e = index'[o] /\ e # None
    BY <1>5, <1>7, <2>1, WhereEntriesAre
  <2>2. CASE \E v \in Workers : workers'[v] # None /\ workers'[v].object = o /\ workers'[v].entry = e
    BY <1>1, <1>2, <2>2, WhereEntriesAre
  <2>3. CASE o \in DOMAIN rebuild'.batch /\ e = rebuild'.batch[o]
    BY <1>1, <2>3, WhereEntriesAre
  <2> QED
    BY <2>1, <2>2, <2>3, WhereEntriesWillBe
<1>12. ASSUME NEW o \in Objects, o \in Spared', NEW time \in 0..clock, Followed(o, time)
       PROVE  Followed(o, time)'
  <2> SUFFICES ASSUME NEW e \in EntriesOf(o), e.at >= time
               PROVE  \E f \in EntriesOf(o)' : f.at >= time
    BY <1>1, <1>12 DEF Followed
  <2>1. CASE e = index[o] /\ e # None
    <3>1. CASE o \notin DOMAIN entries
      BY <1>7, <2>1, <3>1, WhereEntriesWillBe
    <3>2. CASE o \in DOMAIN entries
      <4>1. o \notin overtaken'
        BY <1>12 DEF Spared
      <4>2. entries[o].at >= e.at /\ index'[o] = entries[o]
        BY <1>7, <2>1, <3>2, <4>1
      <4>3. entries[o] # None
        BY <1>3, <1>4, <3>2
      <4>4. entries[o] \in EntriesOf(o)'
        BY <4>2, <4>3, WhereEntriesWillBe
      <4>5. entries[o].at \in Int /\ e.at \in Int /\ time \in Int
        BY <1>5, <3>2, EntriesAreTyped DEF SearchInv
      <4> QED
        BY <4>2, <4>4, <4>5
    <3> QED
      BY <3>1, <3>2
  <2>2. CASE \E v \in Workers : workers[v] # None /\ workers[v].object = o /\ workers[v].entry = e
    <3>1. PICK v \in Workers : workers[v] # None /\ workers[v].object = o /\ workers[v].entry = e
      BY <2>2
    <3>2. CASE v = w
      <4>1. index'[o] = e /\ e # None
        BY <1>3, <1>4, <1>7, <3>1, <3>2
      <4> QED
        BY <4>1, WhereEntriesWillBe
    <3>3. CASE v # w
      <4>1. workers'[v] = workers[v]
        BY <1>1, <1>2, <3>3
      <4> QED
        BY <3>1, <4>1, WhereEntriesWillBe
    <3> QED
      BY <3>2, <3>3
  <2>3. CASE o \in DOMAIN rebuild.batch /\ e = rebuild.batch[o]
    BY <1>1, <2>3, WhereEntriesWillBe
  <2> QED
    BY <2>1, <2>2, <2>3, WhereEntriesAre
<1> QED
  BY <1>1, <1>7, <1>8, <1>9, <1>10, <1>11, <1>12, EntriesMoved

LEMMA FailToSendKept ==
  ASSUME SearchInv, NEW w \in Workers, FailToSend(w)
  PROVE  SearchInv'
<1>1. /\ workers[w] # None /\ lost' = lost \cup {workers[w].object}
      /\ workers' = [workers EXCEPT ![w] = None]
      /\ UNCHANGED <<access, link_vars, rows, index, queue, rebuild, clock, overtaken>>
  BY DEF FailToSend
<1>2. /\ workers \in [Workers -> Task \cup {None}] /\ index \in [Objects -> Entry \cup {None}]
      /\ lost \cup overtaken \subseteq Objects /\ DOMAIN rebuild.batch \subseteq Objects
  BY DEF SearchInv, SearchShape, SearchTypeOK
<1>3. workers[w].object \in Objects
  BY <1>1, <1>2 DEF Task
<1>4. RebuildInv'
  BY <1>1 DEF SearchInv, SearchShape, RebuildInv
<1>5. ASSUME NEW o \in Objects, NEW e \in EntriesOf(o)' PROVE e \in EntriesOf(o)
  BY <1>1, <1>2, <1>5, WhereEntriesAre, WhereEntriesWillBe
<1>6. ASSUME NEW o \in Objects, o \in Spared', NEW e \in EntriesOf(o) PROVE e \in EntriesOf(o)'
  <2>1. o # workers[w].object
    BY <1>1, <1>6 DEF Spared
  <2> QED
    BY <1>1, <1>2, <1>6, <2>1, WhereEntriesAre, WhereEntriesWillBe
<1>7. ASSUME NEW o \in Objects, o \in Spared', NEW time \in 0..clock, Followed(o, time)
      PROVE  Followed(o, time)'
  BY <1>1, <1>6, <1>7 DEF Followed
<1>8. workers' \in [Workers -> Task \cup {None}] /\ index' \in [Objects -> Entry \cup {None}]
      /\ lost' \cup overtaken' \subseteq Objects /\ DOMAIN rebuild'.batch \subseteq Objects
  BY <1>1, <1>2, <1>3
<1> QED
  BY <1>1, <1>4, <1>5, <1>7, <1>8, EntriesMoved

LEMMA NoBatch == DOMAIN <<>> = {}
  OBVIOUS

LEMMA StartRebuildKept ==
  ASSUME SearchInv, StartRebuild
  PROVE  SearchInv'
<1>1. /\ rebuild.adding = <<>> /\ rebuild.batch = <<>>
      /\ rebuild' = [rebuild EXCEPT !.number = rebuild.number + 1, !.deleting = IndexOrder, !.adding = IndexOrder]
      /\ UNCHANGED <<access, link_vars, rows, index, queue, workers, clock, lost, overtaken>>
  BY DEF StartRebuild, Rebuilding
<1>2. DOMAIN rebuild = {"number", "deleting", "adding", "batch"}
  BY DEF SearchInv, SearchShape, RebuildInv
<1>3. /\ rebuild'.deleting = IndexOrder /\ rebuild'.adding = IndexOrder /\ rebuild'.batch = <<>>
      /\ DOMAIN rebuild' = {"number", "deleting", "adding", "batch"}
  BY <1>1, <1>2
<1>4. RebuildInv'
  BY <1>3, SearchAssumption, NoBatch DEF RebuildInv
<1>5. ASSUME NEW o \in Objects PROVE EntriesOf(o)' = EntriesOf(o)
  BY <1>1, <1>3 DEF EntriesOf
<1>6. ASSUME NEW o \in Objects, NEW time \in 0..clock, Followed(o, time) PROVE Followed(o, time)'
  BY <1>1, <1>5, <1>6 DEF Followed
<1>7. index' \in [Objects -> Entry \cup {None}] /\ workers' \in [Workers -> Task \cup {None}]
      /\ lost' \cup overtaken' \subseteq Objects /\ DOMAIN rebuild'.batch \subseteq Objects
  BY <1>1, <1>3, NoBatch DEF SearchInv, SearchShape, SearchTypeOK
<1> QED
  BY <1>1, <1>4, <1>5, <1>6, <1>7, EntriesMoved

LEMMA DeleteAllDocumentsKept ==
  ASSUME SearchInv, DeleteAllDocuments
  PROVE  SearchInv'
<1>1. /\ rebuild.deleting # <<>>
      /\ index' = [o \in Objects |-> IF IndexOf(o) = Head(rebuild.deleting) THEN None ELSE index[o]]
      /\ rebuild' = [rebuild EXCEPT !.deleting = Tail(rebuild.deleting)]
      /\ UNCHANGED <<access, link_vars, rows, queue, workers, clock, lost, overtaken>>
  BY DEF DeleteAllDocuments
<1>2. RebuildInv
  BY DEF SearchInv, SearchShape
<1>3. /\ rebuild'.deleting = Tail(rebuild.deleting) /\ rebuild'.adding = rebuild.adding
      /\ rebuild'.batch = rebuild.batch
      /\ DOMAIN rebuild' = {"number", "deleting", "adding", "batch"}
  BY <1>1, <1>2 DEF RebuildInv
<1>4. /\ Tail(rebuild.deleting) \in Seq(IndexNames)
      /\ \A n \in 1..Len(Tail(rebuild.deleting)) :
           n + 1 \in 1..Len(rebuild.deleting) /\ Tail(rebuild.deleting)[n] = rebuild.deleting[n + 1]
      /\ 1 \in 1..Len(rebuild.deleting) /\ Head(rebuild.deleting) = rebuild.deleting[1]
  BY <1>1, <1>2 DEF RebuildInv
<1>5. RebuildInv'
  BY <1>2, <1>3, <1>4 DEF RebuildInv
<1>6. /\ index \in [Objects -> Entry \cup {None}] /\ workers \in [Workers -> Task \cup {None}]
      /\ lost \cup overtaken \subseteq Objects /\ DOMAIN rebuild.batch \subseteq Objects
  BY DEF SearchInv, SearchShape, SearchTypeOK
<1>7. ASSUME NEW o \in Objects, NEW e \in EntriesOf(o)' PROVE e \in EntriesOf(o)
  <2>1. CASE e = index'[o] /\ e # None
    <3>1. e = index[o]
      BY <1>1, <2>1
    <3> QED
      BY <2>1, <3>1, WhereEntriesAre
  <2>2. CASE \E w \in Workers : workers'[w] # None /\ workers'[w].object = o /\ workers'[w].entry = e
    BY <1>1, <2>2, WhereEntriesAre
  <2>3. CASE o \in DOMAIN rebuild'.batch /\ e = rebuild'.batch[o]
    BY <1>3, <2>3, WhereEntriesAre
  <2> QED
    BY <1>7, <2>1, <2>2, <2>3, WhereEntriesWillBe
<1>8. ASSUME NEW o \in Objects, NEW time \in 0..clock, Followed(o, time) PROVE Followed(o, time)'
  <2>1. CASE IndexOf(o) = Head(rebuild.deleting)
    <3>1. \E m \in 1..Len(rebuild.adding) : rebuild.adding[m] = IndexOf(o)
      BY <1>2, <1>4, <2>1 DEF RebuildInv
    <3> QED
      BY <1>3, <3>1 DEF Followed
  <2>2. CASE IndexOf(o) # Head(rebuild.deleting)
    <3>1. index'[o] = index[o]
      BY <1>1, <2>2
    <3>2. EntriesOf(o)' = EntriesOf(o)
      BY <1>1, <1>3, <3>1 DEF EntriesOf
    <3> QED
      BY <1>1, <1>3, <1>8, <3>2 DEF Followed
  <2> QED
    BY <2>1, <2>2
<1>9. index' \in [Objects -> Entry \cup {None}] /\ workers' \in [Workers -> Task \cup {None}]
      /\ lost' \cup overtaken' \subseteq Objects /\ DOMAIN rebuild'.batch \subseteq Objects
  BY <1>1, <1>3, <1>6
<1> QED
  BY <1>1, <1>5, <1>7, <1>8, <1>9, EntriesMoved

LEMMA ReadBatchKept ==
  ASSUME SearchInv, ReadBatch
  PROVE  SearchInv'
<1> DEFINE name == Head(rebuild.adding)
           batch == [o \in RowsOf(name) |-> Payload(o)]
<1>1. /\ rebuild.deleting = <<>> /\ rebuild.batch = <<>> /\ rebuild.adding # <<>>
      /\ rebuild' = [rebuild EXCEPT !.batch = batch, !.adding = Tail(rebuild.adding)]
      /\ lost' = lost \ RowsOf(name) /\ overtaken' = overtaken \ RowsOf(name)
      /\ UNCHANGED <<access, link_vars, rows, index, queue, workers, clock>>
  BY DEF ReadBatch, Read
<1>2. RebuildInv
  BY DEF SearchInv, SearchShape
<1>3. /\ DOMAIN batch = RowsOf(name)
      /\ \A o \in DOMAIN batch : batch[o] = Payload(o) /\ o \in Objects /\ rows[o] # None
      /\ \A o \in Objects : IndexOf(o) = name /\ rows[o] # None => o \in DOMAIN batch
  BY DEF RowsOf
<1> HIDE DEF batch
<1>4. /\ rebuild'.deleting = <<>> /\ rebuild'.adding = Tail(rebuild.adding)
      /\ rebuild'.batch = batch
      /\ DOMAIN rebuild' = {"number", "deleting", "adding", "batch"}
  BY <1>1, <1>2 DEF RebuildInv
<1>5. /\ Tail(rebuild.adding) \in Seq(IndexNames)
      /\ name = rebuild.adding[1]
      /\ \A n \in 1..Len(rebuild.adding) :
           n = 1 \/ (n - 1 \in 1..Len(Tail(rebuild.adding)) /\ Tail(rebuild.adding)[n - 1] = rebuild.adding[n])
  BY <1>1, <1>2 DEF RebuildInv
<1>6. \A o \in DOMAIN batch : batch[o] \in Entry
  BY <1>3, PayloadIsCurrent DEF SearchInv
<1>7. RebuildInv'
  BY <1>2, <1>4, <1>5, <1>6 DEF RebuildInv
<1>8. ASSUME NEW o \in Objects, NEW e \in EntriesOf(o)'
      PROVE  e \in EntriesOf(o) \/ (rows[o] # None /\ e = Payload(o))
  BY <1>1, <1>3, <1>4, <1>8, WhereEntriesAre, WhereEntriesWillBe
<1>9. ASSUME NEW o \in Objects, NEW e \in EntriesOf(o) PROVE e \in EntriesOf(o)'
  <2>1. o \notin DOMAIN rebuild.batch
    BY <1>1, NoBatch
  <2> QED
    BY <1>1, <1>9, <2>1, WhereEntriesAre, WhereEntriesWillBe
<1>10. ASSUME NEW o \in Objects, o \in Spared', NEW time \in 0..clock, o \in Spared => Followed(o, time)
       PROVE  Followed(o, time)'
  <2>1. CASE IndexOf(o) = name
    <3>1. rows[o] # None
      BY <1>1, <1>10 DEF Spared
    <3>2. Payload(o) \in EntriesOf(o)'
      BY <1>3, <1>4, <2>1, <3>1, WhereEntriesWillBe
    <3>3. Payload(o).at >= time
      BY <3>1, PayloadIsCurrent DEF SearchInv
    <3> QED
      BY <3>2, <3>3 DEF Followed
  <2>2. CASE IndexOf(o) # name
    <3>1. (\E n \in 1..Len(rebuild.adding) : rebuild.adding[n] = IndexOf(o))
            => \E n \in 1..Len(rebuild'.adding) : rebuild'.adding[n] = IndexOf(o)
      BY <1>4, <1>5, <2>2
    <3>2. o \in Spared
      BY <1>1, <1>10, <2>2 DEF Spared, RowsOf
    <3> QED
      BY <1>1, <1>9, <1>10, <3>1, <3>2 DEF Followed
  <2> QED
    BY <2>1, <2>2
<1>11. index' \in [Objects -> Entry \cup {None}] /\ workers' \in [Workers -> Task \cup {None}]
       /\ lost' \cup overtaken' \subseteq Objects /\ DOMAIN rebuild'.batch \subseteq Objects
  BY <1>1, <1>3, <1>4 DEF SearchInv, SearchShape, SearchTypeOK
<1> QED
  BY <1>1, <1>7, <1>8, <1>10, <1>11, EntriesReadOrMoved

\* A batch that was sent or given up leaves the rebuild with what is to add.
LEMMA BatchIsDone ==
  ASSUME SearchInv, rebuild' = [rebuild EXCEPT !.batch = <<>>]
  PROVE  /\ RebuildInv' /\ rebuild'.batch = <<>> /\ rebuild'.adding = rebuild.adding
         /\ \A o \in Objects : o \notin DOMAIN rebuild'.batch
<1>1. RebuildInv
  BY DEF SearchInv, SearchShape
<1>2. /\ rebuild'.deleting = rebuild.deleting /\ rebuild'.adding = rebuild.adding
      /\ rebuild'.batch = <<>>
      /\ DOMAIN rebuild' = {"number", "deleting", "adding", "batch"}
  BY <1>1 DEF RebuildInv
<1> QED
  BY <1>1, <1>2, NoBatch DEF RebuildInv

LEMMA SendBatchKept ==
  ASSUME SearchInv, SendBatch
  PROVE  SearchInv'
<1> DEFINE entries == rebuild.batch
<1>1. /\ AddDocuments(entries)
      /\ rebuild' = [rebuild EXCEPT !.batch = <<>>]
      /\ UNCHANGED <<access, link_vars, rows, queue, workers, clock, lost>>
  BY DEF SendBatch
<1>2. DOMAIN entries \subseteq Objects /\ \A o \in DOMAIN entries : entries[o] \in EntriesOf(o)
  BY WhereEntriesAre DEF SearchInv, SearchShape, SearchTypeOK
<1>3. /\ index' \in [Objects -> Entry \cup {None}]
      /\ overtaken \subseteq overtaken' /\ overtaken' \subseteq Objects
      /\ \A o \in Objects \ DOMAIN entries : index'[o] = index[o]
      /\ \A o \in DOMAIN entries : index'[o] = entries[o]
      /\ \A o \in DOMAIN entries \ overtaken' : index[o] # None => entries[o].at >= index[o].at
  <2> HIDE DEF entries
  <2> QED
    BY <1>1, <1>2, SentEntriesReplace
<1>4. RebuildInv' /\ rebuild'.batch = <<>> /\ rebuild'.adding = rebuild.adding
      /\ \A o \in Objects : o \notin DOMAIN rebuild'.batch
  BY <1>1, BatchIsDone
<1>5. ASSUME NEW o \in Objects, NEW e \in EntriesOf(o)' PROVE e \in EntriesOf(o)
  <2>1. CASE e = index'[o] /\ e # None
    BY <1>2, <1>3, <2>1, WhereEntriesAre
  <2>2. CASE \E v \in Workers : workers'[v] # None /\ workers'[v].object = o /\ workers'[v].entry = e
    BY <1>1, <2>2, WhereEntriesAre
  <2> QED
    BY <1>4, <1>5, <2>1, <2>2, WhereEntriesWillBe
<1>6. ASSUME NEW o \in Objects, o \in Spared', NEW time \in 0..clock, Followed(o, time)
      PROVE  Followed(o, time)'
  <2> SUFFICES ASSUME NEW e \in EntriesOf(o), e.at >= time
               PROVE  \E f \in EntriesOf(o)' : f.at >= time
    BY <1>1, <1>4, <1>6 DEF Followed
  <2>1. ASSUME o \in DOMAIN entries
        PROVE  entries[o] \in EntriesOf(o)' /\ entries[o].at \in Int
    <3>1. entries[o] \in Entry
      BY <2>1 DEF SearchInv, SearchShape, RebuildInv
    <3>2. entries[o] # None
      BY <3>1, SearchAssumption
    <3> QED
      BY <1>2, <1>3, <2>1, <3>2, EntriesAreTyped, WhereEntriesWillBe DEF SearchInv
  <2>2. CASE e = index[o] /\ e # None
    <3>1. CASE o \notin DOMAIN entries
      BY <1>3, <2>2, <3>1, WhereEntriesWillBe
    <3>2. CASE o \in DOMAIN entries
      <4>1. o \notin overtaken'
        BY <1>6 DEF Spared
      <4>2. entries[o].at >= e.at
        BY <1>3, <2>2, <3>2, <4>1
      <4>3. e.at \in Int /\ time \in Int
        BY EntriesAreTyped DEF SearchInv
      <4> QED
        BY <2>1, <3>2, <4>2, <4>3
    <3> QED
      BY <3>1, <3>2
  <2>3. CASE \E v \in Workers : workers[v] # None /\ workers[v].object = o /\ workers[v].entry = e
    BY <1>1, <2>3, WhereEntriesWillBe
  <2>4. CASE o \in DOMAIN entries /\ e = entries[o]
    BY <2>1, <2>4
  <2> QED
    BY <2>2, <2>3, <2>4, WhereEntriesAre
<1>7. workers' \in [Workers -> Task \cup {None}] /\ lost \subseteq lost'
      /\ lost' \cup overtaken' \subseteq Objects /\ DOMAIN rebuild'.batch \subseteq Objects
  BY <1>1, <1>3, <1>4, NoBatch DEF SearchInv, SearchShape, SearchTypeOK
<1> HIDE DEF entries
<1> QED
  BY <1>1, <1>3, <1>4, <1>5, <1>6, <1>7, EntriesMoved

LEMMA FailToSendBatchKept ==
  ASSUME SearchInv, FailToSendBatch
  PROVE  SearchInv'
<1>1. /\ lost' = lost \cup DOMAIN rebuild.batch
      /\ rebuild' = [rebuild EXCEPT !.batch = <<>>]
      /\ UNCHANGED <<access, link_vars, rows, index, queue, workers, clock, overtaken>>
  BY DEF FailToSendBatch
<1>2. RebuildInv' /\ rebuild'.batch = <<>> /\ rebuild'.adding = rebuild.adding
      /\ \A o \in Objects : o \notin DOMAIN rebuild'.batch
  BY <1>1, BatchIsDone
<1>3. ASSUME NEW o \in Objects, NEW e \in EntriesOf(o)' PROVE e \in EntriesOf(o)
  BY <1>1, <1>2, <1>3, WhereEntriesAre, WhereEntriesWillBe
<1>4. ASSUME NEW o \in Objects, o \in Spared', NEW e \in EntriesOf(o) PROVE e \in EntriesOf(o)'
  <2>1. o \notin DOMAIN rebuild.batch
    BY <1>1, <1>4 DEF Spared
  <2> QED
    BY <1>1, <1>4, <2>1, WhereEntriesAre, WhereEntriesWillBe
<1>5. ASSUME NEW o \in Objects, o \in Spared', NEW time \in 0..clock, Followed(o, time)
      PROVE  Followed(o, time)'
  BY <1>1, <1>2, <1>4, <1>5 DEF Followed
<1>6. index' \in [Objects -> Entry \cup {None}] /\ workers' \in [Workers -> Task \cup {None}]
      /\ lost' \cup overtaken' \subseteq Objects /\ DOMAIN rebuild'.batch \subseteq Objects
  BY <1>1, <1>2, NoBatch DEF SearchInv, SearchShape, SearchTypeOK
<1> QED
  BY <1>1, <1>2, <1>3, <1>5, <1>6, EntriesMoved

-----------------------------------------------------------------------------
(* The invariant of searches.                                              *)

LEMMA SearchInit == Init => SearchInv
<1> SUFFICES ASSUME Init PROVE SearchInv
  OBVIOUS
<1>1. AccessInv
  <2>1. users \in [Users -> User \cup {None}]
    BY PermissionAssumption DEF Init, User
  <2>2. AccessTypeOK
    BY <2>1, SearchAssumption DEF Init, AccessTypeOK
  <2>3. ASSUME NEW role \in GrantRoles, NEW record \in RecordIds, record_grants[<<role, record>>] # None
        PROVE  record_grants[<<role, record>>].type = TypeOf[record]
    <3>1. <<role, record>> \in GrantRoles \X RecordIds /\ <<role, record>>[2] = record
      OBVIOUS
    <3> QED
      BY <2>3, <3>1, SearchAssumption DEF Init
  <2>4. PatchesReadActive
    BY DEF Init, PatchesReadActive
  <2> QED
    BY <2>2, <2>3, <2>4 DEF AccessInv, GrantsNameTheirType
<1>2. LinkTypeOK
  BY RelationshipAssumption DEF Init, LinkInit, LinkTypeOK, Link
<1>3. KeysHold
  BY SearchAssumption DEF Init, LinkInit, KeysHold
<1>4. /\ rebuild.deleting = <<>> /\ rebuild.adding = <<>> /\ rebuild.batch = <<>>
      /\ DOMAIN rebuild = {"number", "deleting", "adding", "batch"}
  BY DEF Init
<1>5. RebuildInv
  BY <1>4, NoBatch DEF RebuildInv
<1>6. rows \in [Objects -> Row \cup {None}] /\ clock = 0 /\ clock \in 0..MaxWrites
  BY SearchAssumption DEF Init
<1>7. ASSUME NEW o \in Objects, rows[o] # None
      PROVE  Payload(o) \in Entry /\ Payload(o).at = 0 /\ Current(o, Payload(o)) /\ Payload(o) # None
  <2>1. RowsShape
    BY <1>3, <1>6 DEF RowsShape
  <2> QED
    BY <1>6, <1>7, <2>1, PayloadOfRow, SearchAssumption
<1>8. /\ queue = [o \in Objects |-> 0] /\ workers = [w \in Workers |-> None]
      /\ index = [o \in Objects |-> IF rows[o] = None THEN None ELSE Payload(o)]
      /\ lost = {} /\ overtaken = {}
  BY DEF Init
<1>9. index \in [Objects -> Entry \cup {None}]
  BY <1>7, <1>8
<1>10. SearchTypeOK
  BY <1>1, <1>2, <1>4, <1>6, <1>8, <1>9, NoBatch, SearchAssumption DEF SearchTypeOK, AccessInv
<1>11. ASSUME NEW o \in Objects, NEW e \in EntriesOf(o)
       PROVE  rows[o] # None /\ e = Payload(o)
  BY <1>4, <1>8, <1>11, NoBatch, WhereEntriesAre
<1>12. SearchShape
  BY <1>1, <1>3, <1>5, <1>6, <1>7, <1>8, <1>10, <1>11 DEF SearchShape, NothingIsFromTheFuture
<1>13. ASSUME NEW o \in Objects PROVE UnchangedSince(o, 0) /\ (o \in Spared => Followed(o, 0))
  <2>1. UnchangedSince(o, 0)
    BY <1>7, <1>11 DEF UnchangedSince
  <2>2. ASSUME o \in Spared PROVE Followed(o, 0)
    <3>1. rows[o] # None
      BY <2>2 DEF Spared
    <3>2. Payload(o) \in EntriesOf(o)
      BY <1>7, <1>8, <3>1, WhereEntriesAre
    <3> QED
      BY <1>7, <3>1, <3>2 DEF Followed
  <2> QED
    BY <2>1, <2>2
<1> QED
  BY <1>6, <1>12, <1>13 DEF SearchInv, IndexCatchesUp

LEMMA SearchNext == SearchInv /\ [Next]_vars => SearchInv'
<1> SUFFICES ASSUME SearchInv, [Next]_vars PROVE SearchInv'
  OBVIOUS
<1>1. CASE UNCHANGED vars
  <2>1. UNCHANGED <<access, link_vars, search, rows, clock>>
    BY <1>1 DEF vars, search
  <2> QED
    BY <2>1, RestOfShape, SearchUnchanged DEF link_vars
<1>2. ASSUME NEW o \in Writable \ Projects, WriteRow(o) PROVE SearchInv'
  BY <1>2, WriteRowKept
<1>3. ASSUME NEW o \in Writable \cap Projects, WriteProject(o) PROVE SearchInv'
  BY <1>3, WriteProjectKept
<1>4. ASSUME NEW r \in Requests, ChangeLinks(r) \/ RequestLink(r) PROVE SearchInv'
  BY <1>4, ChangeLinksKept, RequestLinkKept
<1>5. ASSUME NEW w \in Workers, (\E o \in Objects : StartTask(w, o)) \/ SendEntry(w) \/ FailToSend(w)
      PROVE  SearchInv'
  BY <1>5, StartTaskKept, SendEntryKept, FailToSendKept
<1>6. CASE StartRebuild \/ DeleteAllDocuments \/ ReadBatch \/ SendBatch \/ FailToSendBatch
  BY <1>6, StartRebuildKept, DeleteAllDocumentsKept, ReadBatchKept, SendBatchKept, FailToSendBatchKept
<1> QED
  BY <1>1, <1>2, <1>3, <1>4, <1>5, <1>6 DEF Next

LEMMA InvariantGivesFreshIndex == SearchInv => IndexFollowsRows
<1> SUFFICES ASSUME SearchInv PROVE IndexFollowsRows
  OBVIOUS
<1>1. ASSUME NEW o \in Spared, Settled(o)
      PROVE  index[o] # None /\ Current(o, index[o])
  <2>1. o \in Objects
    BY DEF Spared
  <2>2. PICK time \in 0..clock : UnchangedSince(o, time) /\ Followed(o, time)
    BY <2>1 DEF SearchInv, IndexCatchesUp
  <2>3. ~\E n \in 1..Len(rebuild.adding) : rebuild.adding[n] = IndexOf(o)
    <3>1. DOMAIN rebuild.adding = 1..Len(rebuild.adding)
      BY DEF SearchInv, SearchShape, RebuildInv
    <3> QED
      BY <1>1, <3>1 DEF Settled
  <2>4. PICK e \in EntriesOf(o) : e.at >= time
    BY <1>1, <2>2, <2>3 DEF Followed, Settled
  <2>5. e = index[o] /\ e # None
    BY <1>1, WhereEntriesAre DEF Settled
  <2> QED
    BY <2>2, <2>4, <2>5 DEF UnchangedSince
<1>2. SettledRowsAreFresh
  BY <1>1 DEF SettledRowsAreFresh, Fresh, Current
<1>3. EntriesNameTheirLinks
  BY <1>1 DEF EntriesNameTheirLinks, Current
<1> QED
  BY <1>2, <1>3 DEF SearchInv, SearchShape, IndexFollowsRows

\* As soon as the tasks of a row are done, the index says of it what the database
\* says, whatever was written, linked, read late or rebuilt on the way, but for
\* rows of which a post was lost or a newer entry overtaken (tasks.py, client.py).
THEOREM IndexCatchesUpWithRows == Spec => []IndexFollowsRows
<1>1. Spec => []SearchInv
  BY SearchInit, SearchNext, PTL DEF Spec
<1> QED
  BY <1>1, InvariantGivesFreshIndex, PTL

-----------------------------------------------------------------------------
(* What a search finds, said once for all kinds of rows.                   *)

RowRecord(o) ==
  CASE o \in RecordIds -> o
    [] o \in Revisions \cup Projects -> RecordOf[o]
    [] o \in Events -> EventRecord(o)

Visible(u, o) == rows[o] # None /\ RowRecord(o) # None /\ CanView(u, RowRecord(o))

RowHit(o) == Hit(o, RowRecord(o), TypeOf[RowRecord(o)], rows[o].status)

IndexHit(o) ==
  Hit(o, RowRecord(o), TypeOf[RowRecord(o)], IF o \in Projects THEN index[o].own.status ELSE rows[o].status)

\* The conditions of the database on a row beside those that all kinds share.
DatabaseFinds(o, q) ==
  /\ o \in RecordIds => (q.type = Project /\ q.project_status # {} => rows[o].status \in q.project_status)
  /\ o \in Projects => q.project_status = {} \/ rows[o].status \in q.project_status
  /\ NeedsRecord(q) => RecordMatches(RowRecord(o), q)

DatabaseShows(u, q, o) ==
  /\ Visible(u, o) /\ RowContains(o, q.word) /\ DatabaseFinds(o, q)
  /\ q.type \in {None, TypeOf[RowRecord(o)]}
  /\ q.statuses = {} \/ rows[o].status \in q.statuses

LEMMA RecordsOfRows ==
  ASSUME SearchInv, NEW o \in Objects
  PROVE  /\ RowRecord(o) \in RecordIds \cup {None} /\ None \notin RecordIds
         /\ o \in RecordIds => RowRecord(o) = o
         /\ o \in Revisions => RowRecord(o) = RecordOf[o]
         /\ o \in Projects => RowRecord(o) = RecordOf[o] /\ TypeOf[RowRecord(o)] = Project
         /\ o \in Events => RowRecord(o) = EventRecord(o)
         /\ o \notin Events => RowRecord(o) # None
         /\ rows[o] # None /\ RowRecord(o) # None => rows[RowRecord(o)] # None
<1>1. /\ o \in RecordIds => RowRecord(o) = o
      /\ o \in Revisions => RowRecord(o) = RecordOf[o]
      /\ o \in Projects => RowRecord(o) = RecordOf[o]
      /\ o \in Events => RowRecord(o) = EventRecord(o)
  BY KindsOfObjects DEF RowRecord
<1>2. RowRecord(o) \in RecordIds \cup {None} /\ None \notin RecordIds
  BY <1>1, KindsOfObjects, SearchAssumption, PermissionAssumption DEF EventRecord
<1>3. o \notin Events => RowRecord(o) # None
  BY <1>1, <1>2, KindsOfObjects, SearchAssumption
<1>4. o \notin RecordIds /\ RowRecord(o) # None => RowRecord(o) \in References(o)
  <2>1. o \in Events => References(o) = {MatchedRecord[o], FolderRecord[o]} \ {None}
    BY KindsOfObjects DEF References
  <2>2. o \in Revisions \cup Projects => References(o) = {RecordOf[o]}
    BY KindsOfObjects DEF References
  <2> QED
    BY <1>1, <2>1, <2>2, KindsOfObjects DEF EventRecord
<1>5. rows[o] # None /\ RowRecord(o) # None => rows[RowRecord(o)] # None
  BY <1>1, <1>4 DEF SearchInv, SearchShape, KeysHold
<1> QED
  BY <1>1, <1>2, <1>3, <1>5, QueryAssumption

LEMMA HitFields ==
  ASSUME NEW o, NEW record, NEW type, NEW status
  PROVE  /\ Hit(o, record, type, status).object = o
         /\ Hit(o, record, type, status).record = record
         /\ Hit(o, record, type, status).type = type
         /\ Hit(o, record, type, status).status = status
  BY DEF Hit

LEMMA HitsOfRow ==
  ASSUME SearchInv, NEW u \in NonAdmins, NEW o \in Objects
  PROVE  AuthorisedHits(u, o) = IF Visible(u, o) THEN {IndexHit(o)} ELSE {}
<1> DEFINE record == CASE o \in RecordIds -> o
                       [] o \in Revisions \cup Projects -> RecordOf[o]
                       [] o \in Events -> IndexedEventRecord(o)
<1>1. record = RowRecord(o)
  BY DEF RowRecord, IndexedEventRecord
<1>2. AuthorisedHits(u, o) =
        IF rows[o] = None \/ record = None THEN {}
        ELSE IF ~HitVisible(u, record) THEN {}
        ELSE IF o \in Projects THEN {RawHit(o)}
        ELSE {Hit(o, record, TypeOf[record], StatusShown(o))}
  BY DEF AuthorisedHits, NonAdmins
<1>3. o \in Projects => RawHit(o) = IndexHit(o)
  BY RecordsOfRows, KindsOfObjects DEF RawHit, IndexHit
<1> HIDE DEF record
<1> QED
  BY <1>1, <1>2, <1>3 DEF HitVisible, Visible, IndexHit, StatusShown

\* The entries of an index that match a word.
Matching(q, name) == {p \in Objects : index[p] # None /\ IndexOf(p) = name /\ EntryContains(p, q.word)}

LEMMA IndexSearch ==
  ASSUME SearchInv, NEW u \in NonAdmins, NEW q, NEW name, NEW hit \in IndexHits(u, q, name)
  PROVE  \E o \in Matching(q, name) : Visible(u, o) /\ hit = IndexHit(o) /\ HitMatches(hit, q)
<1>1. PICK entry \in Entries(q, name) : hit \in AuthorisedHits(u, entry.object) /\ HitMatches(hit, q)
  BY DEF IndexHits
<1>2. entry.object \in Matching(q, name)
  BY DEF Entries, Top, Matching
<1>3. entry.object \in Objects
  BY <1>2 DEF Matching
<1> QED
  BY <1>1, <1>2, <1>3, HitsOfRow

LEMMA DatabaseSearch ==
  ASSUME SearchInv, NEW u \in NonAdmins, NEW q, NEW name \in IndexNames, NEW hit
  PROVE  hit \in DatabaseHits(u, q, name) <=>
           \E o \in Objects : IndexOf(o) = name /\ DatabaseShows(u, q, o) /\ hit = RowHit(o)
<1>0. u \in Users /\ ~IsSystemAdmin(u)
  BY DEF NonAdmins
<1>1. hit \in RecordHits(u, q) <=> \E o \in RecordIds : DatabaseShows(u, q, o) /\ hit = RowHit(o)
  <2>1. RecordsUserCanView(u, {t \in RecordIds : rows[t] # None}) =
          {r \in RecordIds : rows[r] # None /\ CanView(u, r)}
    BY <1>0, FilterIsCheck DEF SearchInv, SearchShape
  <2>2. \A o \in RecordIds : o \in Objects
    BY DEF Objects
  <2>3. ASSUME NEW o \in RecordIds
        PROVE  DatabaseShows(u, q, o) <=>
                 /\ o \in {r \in RecordIds : rows[r] # None /\ CanView(u, r)}
                 /\ RowContains(o, q.word)
                 /\ q.type \in {None, TypeOf[o]}
                 /\ q.statuses = {} \/ rows[o].status \in q.statuses
                 /\ q.type = Project /\ q.project_status # {} => rows[o].status \in q.project_status
                 /\ NeedsRecord(q) => RecordMatches(o, q)
    BY <2>2, RecordsOfRows, KindsOfObjects DEF DatabaseShows, DatabaseFinds, Visible
  <2>4. \A o \in RecordIds : RowHit(o) = Hit(o, o, TypeOf[o], rows[o].status)
    BY <2>2, RecordsOfRows DEF RowHit
  <2> QED
    BY <2>1, <2>3, <2>4 DEF RecordHits
<1>2. hit \in DocumentHits(u, q) <=> \E o \in Revisions : DatabaseShows(u, q, o) /\ hit = RowHit(o)
  <2>1. \A o \in Revisions : o \in Objects
    BY DEF Objects
  <2>2. ASSUME NEW o \in Revisions
        PROVE  DatabaseShows(u, q, o) <=>
                 /\ rows[o] # None
                 /\ RowContains(o, q.word)
                 /\ q.statuses = {} \/ rows[o].status \in q.statuses
                 /\ q.type \in {None, TypeOf[RecordOf[o]]}
                 /\ CanView(u, RecordOf[o])
                 /\ NeedsRecord(q) => RecordMatches(RecordOf[o], q)
    BY <2>1, RecordsOfRows, KindsOfObjects DEF DatabaseShows, DatabaseFinds, Visible
  <2>3. \A o \in Revisions : RowHit(o) = Hit(o, RecordOf[o], TypeOf[RecordOf[o]], rows[o].status)
    BY <2>1, RecordsOfRows DEF RowHit
  <2> QED
    BY <2>2, <2>3 DEF DocumentHits
<1>3. hit \in ProjectHits(u, q) <=> \E o \in Projects : DatabaseShows(u, q, o) /\ hit = RowHit(o)
  <2>1. \A o \in Projects : o \in Objects
    BY DEF Objects
  <2>2. RecordsUserCanView(u, {r \in RecordIds : TypeOf[r] = Project}) =
          {r \in RecordIds : TypeOf[r] = Project /\ CanView(u, r)}
    BY <1>0, FilterIsCheck DEF SearchInv, SearchShape
  <2>3. ASSUME NEW o \in Projects
        PROVE  DatabaseShows(u, q, o) <=>
                 /\ q.type \in {None, Project}
                 /\ rows[o] # None
                 /\ RecordOf[o] \in {r \in RecordIds : TypeOf[r] = Project /\ CanView(u, r)}
                 /\ RowContains(o, q.word)
                 /\ q.project_status = {} \/ rows[o].status \in q.project_status
                 /\ q.statuses = {} \/ rows[o].status \in q.statuses
                 /\ NeedsRecord(q) => RecordMatches(RecordOf[o], q)
    BY <2>1, RecordsOfRows, KindsOfObjects DEF DatabaseShows, DatabaseFinds, Visible
  <2>4. \A o \in Projects : RowHit(o) = Hit(o, RecordOf[o], Project, rows[o].status)
    BY <2>1, RecordsOfRows DEF RowHit
  <2> QED
    BY <2>2, <2>3, <2>4 DEF ProjectHits
<1>4. hit \in EventHits(u, q) <=> \E o \in Events : DatabaseShows(u, q, o) /\ hit = RowHit(o)
  <2>1. \A o \in Events : o \in Objects
    BY DEF Objects
  <2> DEFINE found == {e \in Events : /\ rows[e] # None
                                      /\ RowContains(e, q.word)
                                      /\ q.statuses = {} \/ rows[e].status \in q.statuses}
             Shown(e) ==
               IF EventRecord(e) = None THEN q.type = None /\ ~NeedsRecord(q) /\ IsSystemAdmin(u)
               ELSE /\ CanView(u, EventRecord(e))
                    /\ q.type \in {None, TypeOf[EventRecord(e)]}
                    /\ NeedsRecord(q) => RecordMatches(EventRecord(e), q)
             TypeOfEvent(e) == IF EventRecord(e) = None THEN None ELSE TypeOf[EventRecord(e)]
  <2>2. EventHits(u, q) =
          {Hit(e, EventRecord(e), TypeOfEvent(e), rows[e].status) : e \in {f \in found : Shown(f)}}
    BY DEF EventHits
  <2>3. ASSUME NEW o \in Events
        PROVE  DatabaseShows(u, q, o) <=> o \in found /\ Shown(o)
    BY <1>0, <2>1, RecordsOfRows, KindsOfObjects DEF DatabaseShows, DatabaseFinds, Visible
  <2>4. ASSUME NEW o \in Events, DatabaseShows(u, q, o)
        PROVE  RowHit(o) = Hit(o, EventRecord(o), TypeOfEvent(o), rows[o].status)
    BY <2>1, <2>4, RecordsOfRows DEF RowHit, DatabaseShows, Visible
  <2> HIDE DEF found, Shown, TypeOfEvent
  <2>5. \A e \in found : e \in Events
    BY DEF found
  <2> QED
    BY <2>2, <2>3, <2>4, <2>5
<1>5. \A o : o \in Objects <=> o \in RecordIds \/ o \in Revisions \/ o \in Projects \/ o \in Events
  BY DEF Objects
<1>6. /\ \A o \in RecordIds : IndexOf(o) = "records"
      /\ \A o \in Revisions : IndexOf(o) = "documents"
      /\ \A o \in Projects : IndexOf(o) = "projects"
      /\ \A o \in Events : IndexOf(o) = "folder_events"
  BY <1>5, KindsOfObjects DEF IndexOf
<1>7. /\ name = "records" => DatabaseHits(u, q, name) = RecordHits(u, q)
      /\ name = "documents" => DatabaseHits(u, q, name) = DocumentHits(u, q)
      /\ name = "projects" => DatabaseHits(u, q, name) = ProjectHits(u, q)
      /\ name = "folder_events" => DatabaseHits(u, q, name) = EventHits(u, q)
  BY DEF DatabaseHits
<1>8. name \in {"records", "documents", "projects", "folder_events"}
  BY DEF IndexNames
<1> QED
  BY <1>1, <1>2, <1>3, <1>4, <1>5, <1>6, <1>7, <1>8

LEMMA InvariantKeepsSearchesCurrent == SearchInv => SearchesAreCurrent
<1> SUFFICES ASSUME SearchInv PROVE SearchesAreCurrent
  OBVIOUS
<1>1. ASSUME NEW u \in NonAdmins, NEW q \in Queries, NEW hit \in SearchInIndex(u, q) \cup SearchInDatabase(u, q)
      PROVE  hit.record # None /\ CanView(u, hit.record)
  <2>1. CASE hit \in SearchInIndex(u, q)
    <3>1. PICK name : hit \in IndexHits(u, q, name)
      BY <2>1 DEF SearchInIndex, Top
    <3>2. PICK o : Visible(u, o) /\ hit = IndexHit(o)
      BY <3>1, IndexSearch
    <3> QED
      BY <3>2, HitFields DEF Visible, IndexHit
  <2>2. CASE hit \in SearchInDatabase(u, q)
    <3>1. PICK name \in Indexes(q) : hit \in DatabaseHits(u, q, name)
      BY <2>2 DEF SearchInDatabase, Top
    <3>2. name \in IndexNames
      BY <1>1, QueryAssumption DEF Indexes
    <3>3. PICK o \in Objects : DatabaseShows(u, q, o) /\ hit = RowHit(o)
      BY <3>1, <3>2, DatabaseSearch
    <3> QED
      BY <3>3, HitFields DEF DatabaseShows, Visible, RowHit
  <2> QED
    BY <1>1, <2>1, <2>2
<1>2. ASSUME NEW u \in NonAdmins, NEW o \in Objects \ Projects, NEW hit \in AuthorisedHits(u, o)
      PROVE  hit.status = rows[o].status
  BY <1>2, HitsOfRow, HitFields DEF IndexHit
<1> QED
  BY <1>1, <1>2 DEF SearchesAreCurrent, SearchShowsOnlyVisible, ShownStatusIsCurrent

\* No search shows a row whose record its user may not view now, and but for
\* projects none shows a status that its row had once, however old the index
\* is (_authorized_hit and the searches in the database, views.py).
THEOREM SearchesFollowGrants == Spec => []SearchesAreCurrent
<1>1. Spec => []SearchInv
  BY SearchInit, SearchNext, PTL DEF Spec
<1> QED
  BY <1>1, InvariantKeepsSearchesCurrent, PTL

\* Statuses that are written in lower case mean the same in both ways.
LEMMA PlainStatuses ==
  ASSUME SearchInv, NEW o \in Objects, rows[o] # None, RowRecord(o) # None, StatusesArePlain(o)
  PROVE  /\ Lower[rows[o].status] = rows[o].status
         /\ Lower[rows[RowRecord(o)].status] = rows[RowRecord(o)].status
         /\ o \in Projects => rows[o].status = rows[RowRecord(o)].status
<1>1. RowRecord(o) \in {o} \cup References(o)
  <2>1. o \in Events => References(o) = {MatchedRecord[o], FolderRecord[o]} \ {None}
    BY KindsOfObjects DEF References
  <2>2. o \in Revisions \cup Projects => References(o) = {RecordOf[o]}
    BY KindsOfObjects DEF References
  <2> QED
    BY <2>1, <2>2, RecordsOfRows, KindsOfObjects DEF EventRecord
<1> QED
  BY <1>1, RecordsOfRows DEF StatusesArePlain

\* The filters of the index and those of the database.
LEMMA FiltersAgree ==
  ASSUME SearchInv, NEW u \in NonAdmins, NEW q, NEW o \in Objects, Visible(u, o), StatusesArePlain(o),
         RowContains(o, q.word)
  PROVE  HitMatches(RowHit(o), q) <=> DatabaseShows(u, q, o)
<1>1. /\ RowHit(o).object = o /\ RowHit(o).record = RowRecord(o)
      /\ RowHit(o).type = TypeOf[RowRecord(o)] /\ RowHit(o).status = rows[o].status
  BY HitFields DEF RowHit
<1>2. rows[o] # None /\ RowRecord(o) # None /\ rows[RowRecord(o)] # None
  BY RecordsOfRows DEF Visible
<1>3. /\ Lower[rows[o].status] = rows[o].status
      /\ Lower[rows[RowRecord(o)].status] = rows[RowRecord(o)].status
      /\ o \in Projects => rows[o].status = rows[RowRecord(o)].status
  BY <1>2, PlainStatuses
<1>4. CASE o \in Projects
  <2>1. RowRecord(o) = RecordOf[o] /\ TypeOf[RowRecord(o)] = Project /\ o \notin RecordIds
    BY <1>4, RecordsOfRows, KindsOfObjects
  <2> QED
    BY <1>1, <1>2, <1>3, <1>4, <2>1 DEF HitMatches, DatabaseShows, DatabaseFinds, NeedsRecord, RecordMatches
<1>5. CASE o \in RecordIds
  <2>1. RowRecord(o) = o /\ o \notin Projects
    BY <1>5, RecordsOfRows, KindsOfObjects
  <2>2. q.type = Project /\ q.type \in {None, TypeOf[o]} => TypeOf[o] = Project
    BY QueryAssumption
  <2> QED
    BY <1>1, <1>2, <1>3, <1>5, <2>1, <2>2 DEF HitMatches, DatabaseShows, DatabaseFinds, NeedsRecord, RecordMatches
<1>6. CASE o \notin RecordIds \cup Projects
  BY <1>1, <1>2, <1>3, <1>6 DEF HitMatches, DatabaseShows, DatabaseFinds, NeedsRecord, RecordMatches
<1> QED
  BY <1>4, <1>5, <1>6

\* A slice that is long enough is the whole.
LEMMA ShortTop ==
  ASSUME NEW hits, IsFiniteSet(hits), NEW rank, NEW limit \in Nat, Cardinality(hits) <= limit
  PROVE  Top(hits, rank, limit) = hits
<1>1. ASSUME NEW hit \in hits PROVE Cardinality({h \in hits : rank[h.object] <= rank[hit.object]}) <= limit
  <2> DEFINE before == {h \in hits : rank[h.object] <= rank[hit.object]}
  <2>1. before \subseteq hits
    OBVIOUS
  <2> HIDE DEF before
  <2>2. IsFiniteSet(before) /\ Cardinality(before) <= Cardinality(hits)
    BY <2>1, FS_Subset
  <2>3. Cardinality(before) \in Nat /\ Cardinality(hits) \in Nat
    BY <2>2, FS_CardinalityType
  <2>4. Cardinality(before) <= limit
    BY <2>2, <2>3
  <2> QED
    BY <2>4 DEF before
<1> QED
  BY <1>1 DEF Top

\* If not too many entries match, all of them are returned.
LEMMA AllEntries ==
  ASSUME NEW q, NEW name, Cardinality(Matching(q, name)) <= HitLimit
  PROVE  Entries(q, name) = {[object |-> o] : o \in Matching(q, name)}
<1> DEFINE S == Matching(q, name)
           T == {[object |-> o] : o \in S}
           f == [o \in S |-> [object |-> o]]
<1>1. IsFiniteSet(S)
  BY QueryAssumption, FS_Subset DEF Matching
<1>2. \A o \in S : f[o] \in T
  OBVIOUS
<1>3. \A a, b \in S : f[a] = f[b] => a = b
  <2> SUFFICES ASSUME NEW a \in S, NEW b \in S, f[a] = f[b] PROVE a = b
    OBVIOUS
  <2>1. f[a].object = a /\ f[b].object = b
    OBVIOUS
  <2> QED
    BY <2>1
<1>4. \A t \in T : \E o \in S : f[o] = t
  OBVIOUS
<1>5. f \in [S -> T]
  OBVIOUS
<1> HIDE DEF f, T, S
<1>6. f \in Bijection(S, T)
  BY <1>3, <1>4, <1>5, Fun_IsBij
<1>7. ExistsBijection(S, T)
  BY <1>6 DEF ExistsBijection
<1>8. IsFiniteSet(T) /\ Cardinality(T) = Cardinality(S)
  BY <1>1, <1>7, FS_Bijection
<1>9. Cardinality(T) <= HitLimit /\ HitLimit \in Nat
  BY <1>8, QueryAssumption DEF S
<1>10. Top(T, IndexRank, HitLimit) = T
  BY <1>8, <1>9, ShortTop
<1> QED
  BY <1>10 DEF Entries, Matching, S, T

\* Each row has at most one hit of each kind, so hits are finite.
LEMMA HitsAreFinite ==
  ASSUME SearchInv, NEW u \in NonAdmins, NEW q, NEW name \in IndexNames
  PROVE  IsFiniteSet(IndexHits(u, q, name)) /\ IsFiniteSet(DatabaseHits(u, q, name))
<1> DEFINE I == {IndexHit(o) : o \in Objects}
           D == {RowHit(o) : o \in Objects}
<1>1. IsFiniteSet(I) /\ IsFiniteSet(D)
  <2> DEFINE f == [o \in Objects |-> IndexHit(o)]
             g == [o \in Objects |-> RowHit(o)]
  <2>1. f \in Surjection(Objects, I) /\ g \in Surjection(Objects, D)
    BY DEF Surjection
  <2> HIDE DEF f, g, I, D
  <2> QED
    BY <2>1, QueryAssumption, FS_Surjection
<1>2. IndexHits(u, q, name) \subseteq I
  BY IndexSearch DEF Matching
<1>3. DatabaseHits(u, q, name) \subseteq D
  BY DatabaseSearch
<1> HIDE DEF I, D
<1> QED
  BY <1>1, <1>2, <1>3, FS_Subset

\* What each way returns of one row, as long as nothing is cut off.
LEMMA HitsOfOneRow ==
  ASSUME SearchInv, NEW u \in NonAdmins, NEW q \in Queries, NEW o \in Objects, IndexOf(o) \in IndexNames,
         AllIsReturned(u, q, IndexOf(o)), index[o] # None, EntryContains(o, q.word)
  PROVE  \A hit :
           /\ hit \in SearchInIndex(u, q) /\ hit.object = o
                <=> IndexOf(o) \in Indexes(q) /\ Visible(u, o) /\ hit = IndexHit(o) /\ HitMatches(hit, q)
           /\ hit \in SearchInDatabase(u, q) /\ hit.object = o
                <=> IndexOf(o) \in Indexes(q) /\ DatabaseShows(u, q, o) /\ hit = RowHit(o)
<1> DEFINE name == IndexOf(o)
<1>1. /\ Top(IndexHits(u, q, name), IndexRank, ResultLimit) = IndexHits(u, q, name)
      /\ Top(DatabaseHits(u, q, name), RowRank, ResultLimit) = DatabaseHits(u, q, name)
  BY HitsAreFinite, ShortTop, QueryAssumption DEF AllIsReturned
<1>2. Entries(q, name) = {[object |-> p] : p \in Matching(q, name)}
  BY AllEntries DEF AllIsReturned, Matching
<1>3. \A p : IndexHit(p).object = p /\ RowHit(p).object = p
  BY HitFields DEF IndexHit, RowHit
<1>4. \A n, hit : hit \in IndexHits(u, q, n) /\ hit.object = o => n = name
  BY <1>3, IndexSearch DEF Matching
<1>5. \A n \in IndexNames : \A hit : hit \in DatabaseHits(u, q, n) /\ hit.object = o => n = name
  BY <1>3, DatabaseSearch
<1>6. \A hit : hit \in IndexHits(u, q, name) /\ hit.object = o <=>
                 Visible(u, o) /\ hit = IndexHit(o) /\ HitMatches(hit, q)
  <2>1. ASSUME Visible(u, o), HitMatches(IndexHit(o), q) PROVE IndexHit(o) \in IndexHits(u, q, name)
    <3>1. AuthorisedHits(u, o) = {IndexHit(o)}
      BY <2>1, HitsOfRow
    <3>2. [object |-> o] \in Entries(q, name) /\ [object |-> o].object = o
      BY <1>2 DEF Matching
    <3> QED
      BY <2>1, <3>1, <3>2 DEF IndexHits
  <2> QED
    BY <1>3, <2>1, IndexSearch
<1>7. \A hit : hit \in DatabaseHits(u, q, name) /\ hit.object = o <=> DatabaseShows(u, q, o) /\ hit = RowHit(o)
  BY <1>3, DatabaseSearch
<1>8. Indexes(q) \subseteq IndexNames
  BY QueryAssumption DEF Indexes
<1>9. \A hit : hit \in SearchInIndex(u, q) /\ hit.object = o
                 <=> name \in Indexes(q) /\ hit \in IndexHits(u, q, name) /\ hit.object = o
  <2>1. ASSUME NEW n, NEW hit \in Top(IndexHits(u, q, n), IndexRank, ResultLimit), hit.object = o
        PROVE  n = name
    BY <1>4, <2>1 DEF Top
  <2> QED
    BY <1>1, <2>1 DEF SearchInIndex
<1>10. \A hit : hit \in SearchInDatabase(u, q) /\ hit.object = o
                  <=> name \in Indexes(q) /\ hit \in DatabaseHits(u, q, name) /\ hit.object = o
  <2>1. ASSUME NEW n \in IndexNames, NEW hit \in Top(DatabaseHits(u, q, n), RowRank, ResultLimit), hit.object = o
        PROVE  n = name
    BY <1>5, <2>1 DEF Top
  <2> QED
    BY <1>1, <1>8, <2>1 DEF SearchInDatabase
<1> HIDE DEF name
<1> QED
  BY <1>6, <1>7, <1>9, <1>10 DEF name

LEMMA InvariantMakesSearchesAgree == SearchInv => IndexAnswersLikeDatabase
<1> SUFFICES ASSUME SearchInv, UpToDate, NEW u \in NonAdmins, NEW q \in Queries, NEW o \in Objects,
                    IndexOf(o) \in IndexNames, AllIsReturned(u, q, IndexOf(o)), rows[o] # None,
                    EntryContains(o, q.word), RowContains(o, q.word), StatusesArePlain(o)
             PROVE  {hit \in SearchInIndex(u, q) : hit.object = o} = {hit \in SearchInDatabase(u, q) : hit.object = o}
  BY DEF IndexAnswersLikeDatabase
<1>1. index[o] # None /\ index[o].own = rows[o]
  BY DEF UpToDate
<1>2. IndexHit(o) = RowHit(o)
  BY <1>1 DEF IndexHit, RowHit
<1>3. DatabaseShows(u, q, o) => Visible(u, o)
  BY DEF DatabaseShows
<1>4. Visible(u, o) => (HitMatches(RowHit(o), q) <=> DatabaseShows(u, q, o))
  BY FiltersAgree
<1> QED
  BY <1>1, <1>2, <1>3, <1>4, HitsOfOneRow

\* With an index that is up to date both ways of searching return the same of a
\* row that the word matches in either way, unless a limit is reached or a
\* status is not in lower case (_search_in_meili and _search_in_database,
\* search/views.py 202-273).
THEOREM BothSearchesAgree == Spec => []IndexAnswersLikeDatabase
<1>1. Spec => []SearchInv
  BY SearchInit, SearchNext, PTL DEF Spec
<1> QED
  BY <1>1, InvariantMakesSearchesAgree, PTL

-----------------------------------------------------------------------------
(* Reports and audit events: links and events beside accounts and grants.  *)

EventsNameRecords == \E S : events \in Seq(S) /\ \A e \in S : NamesItsRecords(e)

ReportsInv == AccessInv /\ LinkTypeOK /\ EventsNameRecords

LEMMA LinkEventNamesRecords ==
  ASSUME NEW l \in Link
  PROVE  /\ NamesItsRecords(LinkEvent(l))
         /\ PayloadRecord(LinkEvent(l).payload) = None
         /\ Named(LinkEvent(l).payload, "source_record") = l.source
         /\ Named(LinkEvent(l).payload, "target_record") = l.target
<1> DEFINE payload == LinkEvent(l).payload
<1>1. /\ LinkEvent(l).object_type = "relationship"
      /\ payload = [key \in {"source_record", "target_record"} |->
                      IF key = "source_record" THEN l.source ELSE l.target]
  BY DEF LinkEvent
<1>2. Named(payload, "source_record") = l.source /\ Named(payload, "target_record") = l.target
  BY <1>1 DEF Named
<1>3. \A key \in {"target_object_type", "record_id", "owner_record_id", "related_record_id", "matched_record_id"} :
        Named(payload, key) = None
  BY <1>1 DEF Named
<1>4. PayloadRecord(payload) = None
  <2> DEFINE keys == <<"record_id", "owner_record_id", "related_record_id", "matched_record_id">>
  <2>1. \A n \in DOMAIN keys :
          keys[n] \in {"record_id", "owner_record_id", "related_record_id", "matched_record_id"}
    OBVIOUS
  <2>2. {n \in DOMAIN keys : Named(payload, keys[n]) # None} = {}
    BY <1>3, <2>1
  <2> QED
    BY <2>2 DEF PayloadRecord
<1>5. NamesItsRecords(LinkEvent(l))
  BY <1>1, <1>3, <1>4 DEF NamesItsRecords
<1> QED
  BY <1>2, <1>4, <1>5

LEMMA ReportsInitInv == ReportsInit => ReportsInv
<1> SUFFICES ASSUME ReportsInit PROVE ReportsInv
  OBVIOUS
<1>1. LinkTypeOK
  BY RelationshipAssumption DEF ReportsInit, LinkInit, LinkTypeOK, Link
<1>2. EventsNameRecords
  <2> DEFINE S == {OldEvents[n] : n \in DOMAIN OldEvents}
  <2>1. events \in Seq(S) /\ \A e \in S : NamesItsRecords(e)
    BY EventAssumption DEF ReportsInit
  <2> QED
    BY <2>1 DEF EventsNameRecords
<1> QED
  BY <1>1, <1>2, InitInv DEF ReportsInv

LEMMA EventAdded ==
  ASSUME EventsNameRecords, NEW e, NamesItsRecords(e), RecordAuditEvent(e)
  PROVE  EventsNameRecords'
<1>1. PICK S : events \in Seq(S) /\ \A x \in S : NamesItsRecords(x)
  BY DEF EventsNameRecords
<1> DEFINE T == S \cup {e}
<1>2. <<e>> \in Seq(T) /\ events \in Seq(T)
  BY <1>1
<1>3. events' \in Seq(T) /\ \A x \in T : NamesItsRecords(x)
  BY <1>1, <1>2 DEF RecordAuditEvent
<1> QED
  BY <1>3 DEF EventsNameRecords, NamesItsRecords

LEMMA ReportsNextInv == ReportsInv /\ [ReportsNext]_report_vars => ReportsInv'
<1> SUFFICES ASSUME ReportsInv, [ReportsNext]_report_vars PROVE ReportsInv'
  OBVIOUS
<1>1. AccessInv'
  BY NextInv DEF ReportsInv
<1>2. ASSUME UNCHANGED <<links, events, definitions>>,
             creating' = creating \/ \E r \in Requests, new \in [user : Users, link : Link] \cup {None} :
                                       creating' = [creating EXCEPT ![r] = new]
      PROVE  LinkTypeOK' /\ EventsNameRecords'
  BY <1>2 DEF ReportsInv, LinkTypeOK, EventsNameRecords
<1>3. ASSUME UNCHANGED <<link_vars, events>> PROVE LinkTypeOK' /\ EventsNameRecords'
  BY <1>2, <1>3 DEF link_vars
<1>4. ASSUME NEW r \in Requests, Start(r) PROVE LinkTypeOK' /\ EventsNameRecords'
  <2>1. ASSUME NEW u \in Users, NEW link \in LinkInputs, StartLink(r, u, link), UNCHANGED events
        PROVE  LinkTypeOK' /\ EventsNameRecords'
    <3>1. [user |-> u, link |-> link] \in [user : Users, link : Link]
      BY RelationshipAssumption DEF Link
    <3> QED
      BY <1>2, <2>1, <3>1 DEF StartLink
  <2> QED
    BY <1>3, <1>4, <2>1 DEF Start
<1>5. ASSUME NEW r \in Requests, LinkCreated(r) PROVE LinkTypeOK' /\ EventsNameRecords'
  <2>1. /\ creating[r] # None /\ links' = links \cup {creating[r].link}
        /\ creating' = [creating EXCEPT ![r] = None] /\ definitions' = definitions
        /\ RecordAuditEvent(LinkEvent(creating[r].link))
    BY <1>5 DEF LinkCreated, SaveLink, MaySave
  <2>2. creating[r].link \in Link
    BY <2>1 DEF ReportsInv, LinkTypeOK
  <2>3. IsFiniteSet(links')
    BY <2>1, FS_AddElement DEF ReportsInv, LinkTypeOK
  <2>4. LinkTypeOK'
    BY <2>1, <2>2, <2>3 DEF ReportsInv, LinkTypeOK
  <2>5. EventsNameRecords'
    BY <2>1, <2>2, LinkEventNamesRecords, EventAdded DEF ReportsInv
  <2> QED
    BY <2>4, <2>5
<1>6. ASSUME NEW r \in Requests, Finish(r) PROVE LinkTypeOK' /\ EventsNameRecords'
  <2>1. CASE RefuseLink(r) /\ UNCHANGED events
    BY <1>2, <2>1 DEF RefuseLink
  <2> QED
    BY <1>3, <1>5, <1>6, <2>1 DEF Finish
<1>7. ASSUME NEW u \in Users, NEW link \in links, LinkDeleted(u, link) PROVE LinkTypeOK' /\ EventsNameRecords'
  <2>1. links' = links \ {link} /\ UNCHANGED <<definitions, creating>> /\ RecordAuditEvent(LinkEvent(link))
    BY <1>7 DEF LinkDeleted, DeleteLink
  <2>2. link \in Link /\ IsFiniteSet(links')
    BY <2>1, FS_RemoveElement DEF ReportsInv, LinkTypeOK
  <2>3. LinkTypeOK'
    BY <2>1, <2>2 DEF ReportsInv, LinkTypeOK
  <2> QED
    BY <2>1, <2>2, <2>3, LinkEventNamesRecords, EventAdded DEF ReportsInv
<1>8. ASSUME Publish, UNCHANGED events PROVE LinkTypeOK' /\ EventsNameRecords'
  BY <1>8 DEF Publish, ReportsInv, LinkTypeOK, EventsNameRecords
<1>9. LinkTypeOK' /\ EventsNameRecords'
  BY <1>3, <1>4, <1>6, <1>7, <1>8 DEF ReportsNext, report_vars
<1> QED
  BY <1>1, <1>9 DEF ReportsInv

LEMMA ReportsInvariant == ReportsSpec => []ReportsInv
  BY ReportsInitInv, ReportsNextInv, PTL DEF ReportsSpec

-----------------------------------------------------------------------------
(* Who sees an event.                                                      *)

LEMMA VisibleEventIsOfVisibleRecord ==
  ASSUME NEW u \in Users, NEW e, NamesItsRecords(e), EventIsVisible(u, e)
  PROVE  \/ e.object_type = "importjob" /\ UserCan(u, "view", e.payload["target_object_type"], None)
         \/ e.object_type = "relationship" /\ \E l \in Link :
              e.object_id = l /\ CanView(u, l.source) /\ CanView(u, l.target)
         \/ e.object_type \notin {"importjob", "relationship"} /\ \E r \in e.about : CanView(u, r)
<1>1. NamesItsRecords(e)
  OBVIOUS
<1> DEFINE type == Named(e.payload, "target_object_type")
<1>2. CASE e.object_type \in {"record", "document"}
  BY <1>1, <1>2 DEF EventIsVisible, NamesItsRecords, RecordVisible, ObjectVisible
<1>3. CASE e.object_type = "importjob"
  <2>1. type # None
    BY <1>1, <1>3 DEF NamesItsRecords
  <2>2. type = e.payload["target_object_type"]
    BY <2>1 DEF Named
  <2> QED
    BY <1>3, <2>1, <2>2 DEF EventIsVisible
<1>4. CASE e.object_type = "relationship"
  <2>1. PICK l \in Link : e = LinkEvent(l)
    BY <1>1, <1>4 DEF NamesItsRecords
  <2>2. type = None
    BY <1>1, <1>4 DEF NamesItsRecords
  <2>3. LinkEventVisible(u, e.payload)
    BY <1>4, <2>1, <2>2, LinkEventNamesRecords DEF EventIsVisible
  <2>4. CanView(u, l.source) /\ CanView(u, l.target)
    BY <2>1, <2>3, LinkEventNamesRecords DEF LinkEventVisible, RecordVisible
  <2>5. e.object_id = l
    BY <2>1 DEF LinkEvent
  <2> QED
    BY <1>4, <2>4, <2>5
<1>5. CASE e.object_type \notin {"record", "document", "importjob", "relationship"}
  <2>1. type = None
    BY <1>1, <1>5 DEF NamesItsRecords
  <2>2. IF PayloadRecord(e.payload) # None THEN RecordVisible(u, PayloadRecord(e.payload))
        ELSE CASE e.object_type = "project" -> ObjectVisible(u, e.object_id)
               [] e.object_type = "projecttask" -> ObjectVisible(u, Named(e.payload, "project_id"))
               [] e.object_type = "projecttaskdependency" -> ObjectVisible(u, Named(e.payload, "task_id"))
               [] e.object_type = "workflowtask" -> ObjectVisible(u, e.object_id)
               [] e.object_type = "relationship" -> LinkEventVisible(u, e.payload)
               [] OTHER -> FALSE
    BY <1>5, <2>1 DEF EventIsVisible
  <2>3. CASE PayloadRecord(e.payload) # None
    BY <1>1, <1>5, <2>2, <2>3 DEF NamesItsRecords, RecordVisible
  <2>4. CASE PayloadRecord(e.payload) = None
    BY <1>1, <1>5, <2>2, <2>4 DEF NamesItsRecords, ObjectVisible, RecordVisible
  <2> QED
    BY <2>3, <2>4
<1> QED
  BY <1>2, <1>3, <1>4, <1>5

-----------------------------------------------------------------------------
(* Recursive functions on 0..n exist: for the rounds of a search.          *)

LEMMA SetInduction ==
  ASSUME NEW S, 0 \in S, \A n \in Nat : n \in S => n + 1 \in S
  PROVE  Nat \subseteq S
<1> SUFFICES ASSUME Nat \ S # {} PROVE FALSE
  OBVIOUS
<1>1. IsWellFoundedOn(OpToRel(<, Nat), Nat)
  BY NatLessThanWellFounded
<1> DEFINE R == OpToRel(<, Nat)
<1>2. \A a, b \in Nat : a < b => <<a, b>> \in R
  BY DEF OpToRel
<1> HIDE DEF R
<1>3. PICK x \in Nat \ S : \A y \in Nat \ S : ~ (<<y, x>> \in R)
  <2>1. IsWellFoundedOn(R, Nat)
    BY <1>1 DEF R
  <2> QED
    BY <2>1, WFMin
<1>4. x # 0 /\ x - 1 \in Nat
  BY <1>3
<1>5. x - 1 \in S
  <2>1. <<x - 1, x>> \in R
    <3>1. x \in Nat /\ x - 1 < x
      BY <1>4
    <3> QED
      BY <1>2, <1>4, <3>1
  <2> QED
    BY <1>3, <1>4, <2>1
<1> QED
  BY <1>3, <1>4, <1>5

Repeats(f, n, T, start, step) ==
  f \in [0..n -> T] /\ f[0] = start /\ \A k \in 1..n : f[k] = step[f[k - 1]]

StepsOn(T) == [T -> T]

LEMMA RepeatedStepsExist ==
  ASSUME NEW T, NEW start \in T, NEW step \in StepsOn(T), NEW n \in Nat
  PROVE  \E f : Repeats(f, n, T, start, step)
<1> DEFINE S == {m \in Nat : \E f : Repeats(f, m, T, start, step)}
<1>1. 0 \in S
  <2> DEFINE f == [k \in 0..0 |-> start]
  <2>1. f \in [0..0 -> T] /\ f[0] = start
    OBVIOUS
  <2>2. \A k \in 1..0 : FALSE
    OBVIOUS
  <2> HIDE DEF f
  <2>3. Repeats(f, 0, T, start, step)
    BY <2>1, <2>2 DEF Repeats
  <2> QED
    BY <2>3
<1>2. ASSUME NEW m \in Nat, m \in S PROVE m + 1 \in S
  <2>1. PICK f : Repeats(f, m, T, start, step)
    BY <1>2
  <2>2. f \in [0..m -> T] /\ f[0] = start /\ \A k \in 1..m : f[k] = step[f[k - 1]]
    BY <2>1 DEF Repeats
  <2> DEFINE g == [k \in 0..(m + 1) |-> IF k <= m THEN f[k] ELSE step[f[m]]]
  <2>3. g \in [0..(m + 1) -> T]
    BY <2>2 DEF StepsOn
  <2>4. g[0] = start
    BY <2>2
  <2>5. ASSUME NEW k \in 1..(m + 1) PROVE g[k] = step[g[k - 1]]
    <3>1. CASE k <= m
      <4>1. k \in 1..m /\ k - 1 \in 0..m /\ k \in 0..(m + 1) /\ k - 1 \in 0..(m + 1) /\ k - 1 <= m
        BY <3>1
      <4>2. g[k] = f[k] /\ g[k - 1] = f[k - 1]
        BY <3>1, <4>1
      <4> QED
        BY <2>2, <4>1, <4>2
    <3>2. CASE k = m + 1
      <4>1. g[k] = step[f[m]] /\ g[m] = f[m] /\ k - 1 = m
        BY <3>2
      <4> QED
        BY <4>1
    <3> QED
      BY <3>1, <3>2
  <2> HIDE DEF g
  <2>6. m + 1 \in Nat /\ Repeats(g, m + 1, T, start, step)
    BY <2>3, <2>4, <2>5 DEF Repeats
  <2> QED
    BY <2>6
<1> HIDE DEF S
<1>3. n \in S
  BY <1>1, <1>2, SetInduction
<1> QED
  BY <1>3 DEF S

-----------------------------------------------------------------------------
(* The graph of a record: each round of the search adds what is one link   *)
(* further away.                                                           *)

Graph == [nodes : SUBSET RecordIds, edges : SUBSET links,
          visited : SUBSET RecordIds, frontier : SUBSET RecordIds]

GraphStart(root) == [nodes |-> {root}, edges |-> {}, visited |-> {}, frontier |-> {root}]

LEMMA ExpandType ==
  ASSUME LinkTypeOK, NEW u, NEW graph \in Graph
  PROVE  Expand(u, graph) \in Graph
<1>1. \A l \in links : l.source \in RecordIds /\ l.target \in RecordIds
  BY DEF LinkTypeOK, Link
<1> QED
  BY <1>1 DEF Expand, Graph

LEMMA GraphRounds ==
  ASSUME LinkTypeOK, NEW u, NEW root \in RecordIds
  PROVE  \E rounds \in [0..MaxDepth -> Graph] :
           /\ rounds[0] = GraphStart(root)
           /\ \A k \in 1..MaxDepth : rounds[k] = Expand(u, rounds[k - 1])
           /\ BuildRecordGraph(u, root) = rounds[MaxDepth]
<1> DEFINE Is(f) == f = [depth \in 0..MaxDepth |->
                           IF depth = 0
                           THEN [nodes |-> {root}, edges |-> {}, visited |-> {}, frontier |-> {root}]
                           ELSE Expand(u, f[depth - 1])]
           step == [graph \in Graph |-> Expand(u, graph)]
<1>0. MaxDepth \in Nat
  BY RelationshipAssumption
<1>1. GraphStart(root) \in Graph
  BY DEF Graph, GraphStart
<1>2. step \in StepsOn(Graph)
  BY ExpandType DEF StepsOn
<1> HIDE DEF step
<1>3. PICK f : Repeats(f, MaxDepth, Graph, GraphStart(root), step)
  BY <1>0, <1>1, <1>2, RepeatedStepsExist
<1>4. f \in [0..MaxDepth -> Graph] /\ f[0] = GraphStart(root) /\ \A k \in 1..MaxDepth : f[k] = Expand(u, f[k - 1])
  <2>1. \A graph \in Graph : step[graph] = Expand(u, graph)
    BY DEF step
  <2>2. \A k \in 1..MaxDepth : k - 1 \in 0..MaxDepth
    BY <1>0
  <2> QED
    BY <1>3, <2>1, <2>2 DEF Repeats
<1>5. Is(f)
  <2>1. \A k \in 0..MaxDepth : k # 0 => k \in 1..MaxDepth
    BY <1>0
  <2> QED
    BY <1>4, <2>1 DEF GraphStart
<1> DEFINE g == CHOOSE h : Is(h)
<1>6. BuildRecordGraph(u, root) = g[MaxDepth]
  BY DEF BuildRecordGraph
<1>7. Is(g)
  <2> HIDE DEF Is
  <2> QED
    BY <1>5
<1> HIDE DEF g
<1>8. g[0] = GraphStart(root) /\ \A k \in 1..MaxDepth : g[k] = Expand(u, g[k - 1])
  <2>1. \A k \in 1..MaxDepth : k \in 0..MaxDepth /\ k # 0
    BY <1>0
  <2>2. 0 \in 0..MaxDepth
    BY <1>0
  <2> QED
    BY <1>7, <2>1, <2>2 DEF GraphStart
<1> DEFINE S == {k \in Nat : k <= MaxDepth => g[k] \in Graph}
<1>9. 0 \in S
  BY <1>1, <1>8
<1>10. ASSUME NEW k \in Nat, k \in S PROVE k + 1 \in S
  <2>1. SUFFICES ASSUME k + 1 <= MaxDepth PROVE g[k + 1] \in Graph
    OBVIOUS
  <2>2. k + 1 \in 1..MaxDepth /\ (k + 1) - 1 = k /\ k <= MaxDepth
    BY <1>0, <2>1
  <2>3. g[k + 1] = Expand(u, g[k])
    BY <1>8, <2>2
  <2> QED
    BY <1>10, <2>2, <2>3, ExpandType
<1> HIDE DEF S
<1>11. Nat \subseteq S
  BY <1>9, <1>10, SetInduction
<1>12. g \in [0..MaxDepth -> Graph]
  <2>1. \A k \in 0..MaxDepth : g[k] \in Graph
    BY <1>0, <1>11 DEF S
  <2> QED
    BY <1>7, <2>1
<1> QED
  BY <1>6, <1>8, <1>12

OneLinkFurther(u, near) ==
  {r \in RecordIds : CanView(u, r) /\ \E l \in links : r \in {l.source, l.target} /\ {l.source, l.target} \cap near # {}}

LEMMA ReachedRounds ==
  ASSUME NEW u, NEW root \in RecordIds
  PROVE  /\ Reached(u, root)[0] = {root}
         /\ \A k \in 1..MaxDepth :
              Reached(u, root)[k] = Reached(u, root)[k - 1] \cup OneLinkFurther(u, Reached(u, root)[k - 1])
<1> DEFINE Is(f) == f = [n \in 0..MaxDepth |->
                           IF n = 0 THEN {root}
                           ELSE f[n - 1] \cup
                                {r \in RecordIds : /\ CanView(u, r)
                                                   /\ \E l \in links : r \in {l.source, l.target}
                                                                       /\ {l.source, l.target} \cap f[n - 1] # {}}]
           step == [near \in SUBSET RecordIds |-> near \cup OneLinkFurther(u, near)]
<1>0. MaxDepth \in Nat
  BY RelationshipAssumption
<1>1. step \in StepsOn(SUBSET RecordIds) /\ {root} \in SUBSET RecordIds
  BY DEF OneLinkFurther, StepsOn
<1> HIDE DEF step
<1>2. PICK f : Repeats(f, MaxDepth, SUBSET RecordIds, {root}, step)
  BY <1>0, <1>1, RepeatedStepsExist
<1>3. /\ f \in [0..MaxDepth -> SUBSET RecordIds] /\ f[0] = {root}
      /\ \A k \in 1..MaxDepth : f[k] = f[k - 1] \cup OneLinkFurther(u, f[k - 1])
  <2>1. \A near \in SUBSET RecordIds : step[near] = near \cup OneLinkFurther(u, near)
    BY DEF step
  <2>2. \A k \in 1..MaxDepth : k - 1 \in 0..MaxDepth
    BY <1>0
  <2> QED
    BY <1>2, <2>1, <2>2 DEF Repeats
<1>4. Is(f)
  <2>1. \A k \in 0..MaxDepth : k # 0 => k \in 1..MaxDepth
    BY <1>0
  <2> QED
    BY <1>3, <2>1 DEF OneLinkFurther
<1> DEFINE g == CHOOSE h : Is(h)
<1>5. Reached(u, root) = g
  BY DEF Reached
<1>6. Is(g)
  <2> HIDE DEF Is
  <2> QED
    BY <1>4
<1> HIDE DEF g
<1>7. \A k \in 1..MaxDepth : k \in 0..MaxDepth /\ k # 0
  BY <1>0
<1>8. 0 \in 0..MaxDepth
  BY <1>0
<1> QED
  BY <1>5, <1>6, <1>7, <1>8 DEF OneLinkFurther

EndsIn(l, near) == {l.source, l.target} \cap near # {}

BothVisible(u, l) == CanView(u, l.source) /\ CanView(u, l.target)

\* What is true of a graph when the records met and the visible ones among
\* their neighbours are near.
RoundOf(u, graph, near, before) ==
  /\ graph.nodes = near
  /\ graph.visited = before
  /\ graph.visited \cup graph.frontier = near
  /\ graph.edges = {l \in links : BothVisible(u, l) /\ EndsIn(l, before)}
  /\ OneLinkFurther(u, before) \subseteq near
  /\ \A r \in near : r \in RecordIds /\ CanView(u, r)

LEMMA NextRound ==
  ASSUME LinkTypeOK, NEW u, NEW graph \in Graph, NEW near, NEW before, RoundOf(u, graph, near, before)
  PROVE  RoundOf(u, Expand(u, graph), near \cup OneLinkFurther(u, near), near)
<1>0. \A l \in links : l.source \in RecordIds /\ l.target \in RecordIds
  BY DEF LinkTypeOK, Link
<1> DEFINE touched == {l \in links : {l.source, l.target} \cap graph.frontier # {}}
           ends == {r \in UNION {{l.source, l.target} : l \in touched} : CanView(u, r)}
           next == Expand(u, graph)
<1>1. /\ next.nodes = graph.nodes \cup ends
      /\ next.edges = graph.edges \cup {l \in touched : CanView(u, l.source) /\ CanView(u, l.target)}
      /\ next.visited = graph.visited \cup graph.frontier
      /\ next.frontier = ends \ (graph.visited \cup graph.frontier)
  BY DEF Expand
<1>2. \A r : r \in ends <=> CanView(u, r) /\ \E l \in links : r \in {l.source, l.target} /\ EndsIn(l, graph.frontier)
  BY DEF EndsIn
<1>3. \A l \in links : EndsIn(l, near) <=> EndsIn(l, before) \/ EndsIn(l, graph.frontier)
  BY DEF EndsIn, RoundOf
<1>4. near \cup ends = near \cup OneLinkFurther(u, near)
  <2>1. ASSUME NEW r, r \in ends PROVE r \in OneLinkFurther(u, near)
    <3>1. PICK l \in links : r \in {l.source, l.target} /\ EndsIn(l, graph.frontier)
      BY <1>2, <2>1
    <3>2. EndsIn(l, near) /\ r \in RecordIds /\ CanView(u, r)
      BY <1>0, <1>2, <1>3, <2>1, <3>1
    <3> QED
      BY <3>1, <3>2 DEF OneLinkFurther, EndsIn
  <2>2. ASSUME NEW r, r \in OneLinkFurther(u, near), r \notin near PROVE r \in ends
    <3>1. PICK l \in links : r \in {l.source, l.target} /\ EndsIn(l, near)
      BY <2>2 DEF OneLinkFurther, EndsIn
    <3>2. r \in RecordIds /\ CanView(u, r)
      BY <2>2 DEF OneLinkFurther
    <3>3. ~EndsIn(l, before)
      <4>1. EndsIn(l, before) => r \in OneLinkFurther(u, before)
        BY <3>1, <3>2 DEF OneLinkFurther, EndsIn
      <4> QED
        BY <2>2, <4>1 DEF RoundOf
    <3> QED
      BY <1>2, <1>3, <3>1, <3>2, <3>3
  <2> HIDE DEF ends
  <2> QED
    BY <2>1, <2>2
<1>5. {l \in touched : CanView(u, l.source) /\ CanView(u, l.target)}
        = {l \in links : BothVisible(u, l) /\ EndsIn(l, graph.frontier)}
  BY DEF BothVisible, EndsIn
<1> HIDE DEF ends, touched, next
<1>6. next.edges = {l \in links : BothVisible(u, l) /\ EndsIn(l, near)}
  <2>1. next.edges = {l \in links : BothVisible(u, l) /\ EndsIn(l, before)}
                     \cup {l \in links : BothVisible(u, l) /\ EndsIn(l, graph.frontier)}
    BY <1>1, <1>5 DEF RoundOf
  <2> QED
    BY <1>3, <2>1
<1>7. /\ next.nodes = near \cup OneLinkFurther(u, near)
      /\ next.visited = near
      /\ next.visited \cup next.frontier = near \cup OneLinkFurther(u, near)
  BY <1>1, <1>4 DEF RoundOf
<1>8. \A r \in near \cup OneLinkFurther(u, near) : r \in RecordIds /\ CanView(u, r)
  BY DEF RoundOf, OneLinkFurther
<1> QED
  BY <1>6, <1>7, <1>8 DEF RoundOf, next

LEMMA GraphOfVisibleRecord ==
  ASSUME LinkTypeOK, NEW u, NEW root \in RecordIds, CanView(u, root)
  PROVE  /\ RoundOf(u, BuildRecordGraph(u, root), Reached(u, root)[MaxDepth], Reached(u, root)[MaxDepth - 1])
         /\ root \in Reached(u, root)[MaxDepth - 1]
<1>0. MaxDepth \in Nat /\ MaxDepth # 0
  BY RelationshipAssumption
<1>1. PICK rounds \in [0..MaxDepth -> Graph] :
        /\ rounds[0] = GraphStart(root)
        /\ \A k \in 1..MaxDepth : rounds[k] = Expand(u, rounds[k - 1])
        /\ BuildRecordGraph(u, root) = rounds[MaxDepth]
  BY GraphRounds
<1> DEFINE R == Reached(u, root)
           Before(k) == IF k = 0 THEN {} ELSE R[k - 1]
           S == {k \in Nat : k <= MaxDepth => RoundOf(u, rounds[k], R[k], Before(k)) /\ root \in R[k]}
<1>2. R[0] = {root} /\ \A k \in 1..MaxDepth : R[k] = R[k - 1] \cup OneLinkFurther(u, R[k - 1])
  BY ReachedRounds
<1>3. RoundOf(u, rounds[0], R[0], Before(0)) /\ root \in R[0]
  <2> DEFINE g == GraphStart(root)
  <2>1. g.nodes = {root} /\ g.edges = {} /\ g.visited = {} /\ g.frontier = {root}
    BY DEF GraphStart
  <2> HIDE DEF g
  <2>2. OneLinkFurther(u, {}) = {} /\ \A l \in links : ~EndsIn(l, {})
    BY DEF OneLinkFurther, EndsIn
  <2>3. RoundOf(u, g, {root}, {})
    BY <2>1, <2>2 DEF RoundOf
  <2> QED
    BY <1>1, <1>2, <2>3 DEF g
<1>4. 0 \in S
  BY <1>3
<1>5. ASSUME NEW k \in Nat, k \in S PROVE k + 1 \in S
  <2>1. SUFFICES ASSUME k + 1 <= MaxDepth
                 PROVE  RoundOf(u, rounds[k + 1], R[k + 1], Before(k + 1)) /\ root \in R[k + 1]
    OBVIOUS
  <2>2. k <= MaxDepth /\ k \in 0..MaxDepth /\ k + 1 \in 1..MaxDepth /\ (k + 1) - 1 = k /\ k + 1 # 0
    BY <1>0, <2>1
  <2>3. RoundOf(u, rounds[k], R[k], Before(k)) /\ root \in R[k]
    BY <1>5, <2>2
  <2>4. rounds[k + 1] = Expand(u, rounds[k]) /\ R[k + 1] = R[k] \cup OneLinkFurther(u, R[k]) /\ Before(k + 1) = R[k]
    BY <1>1, <1>2, <2>2
  <2>5. rounds[k] \in Graph
    BY <2>2
  <2> HIDE DEF Before, R, S
  <2>6. RoundOf(u, Expand(u, rounds[k]), R[k] \cup OneLinkFurther(u, R[k]), R[k])
    BY <2>3, <2>5, NextRound
  <2> QED
    BY <2>3, <2>4, <2>6
<1> HIDE DEF S
<1>6. Nat \subseteq S
  BY <1>4, <1>5, SetInduction
<1>7. RoundOf(u, rounds[MaxDepth], R[MaxDepth], Before(MaxDepth))
  BY <1>0, <1>6 DEF S
<1>8. root \in R[MaxDepth - 1]
  <2>1. MaxDepth - 1 \in Nat /\ MaxDepth - 1 <= MaxDepth
    BY <1>0
  <2> QED
    BY <1>6, <2>1 DEF S
<1> QED
  BY <1>0, <1>1, <1>7, <1>8

LEMMA SearchFindsVisiblePart == LinkTypeOK => GraphIsVisiblePart
<1> SUFFICES ASSUME LinkTypeOK, NEW u \in Users, NEW root \in RecordIds, CanView(u, root)
    PROVE  LET graph == BuildRecordGraph(u, root) IN
             /\ graph.nodes = Reached(u, root)[MaxDepth]
             /\ graph.edges = {l \in links : /\ {l.source, l.target} \subseteq graph.nodes
                                             /\ {l.source, l.target} \cap Reached(u, root)[MaxDepth - 1] # {}}
  BY DEF GraphIsVisiblePart
<1> DEFINE graph == BuildRecordGraph(u, root)
           near == Reached(u, root)[MaxDepth]
           before == Reached(u, root)[MaxDepth - 1]
<1>1. RoundOf(u, graph, near, before)
  BY GraphOfVisibleRecord
<1> HIDE DEF graph, near, before
<1>2. \A l \in links : l.source \in RecordIds /\ l.target \in RecordIds
  BY DEF LinkTypeOK, Link
<1>3. ASSUME NEW l \in links, EndsIn(l, before) PROVE BothVisible(u, l) <=> {l.source, l.target} \subseteq near
  <2>1. ASSUME BothVisible(u, l), NEW r \in {l.source, l.target} PROVE r \in near
    <3>1. r \in OneLinkFurther(u, before)
      BY <1>2, <1>3, <2>1 DEF OneLinkFurther, BothVisible, EndsIn
    <3> QED
      BY <1>1, <3>1 DEF RoundOf
  <2> QED
    BY <1>1, <2>1 DEF RoundOf, BothVisible
<1>4. graph.edges = {l \in links : {l.source, l.target} \subseteq near /\ EndsIn(l, before)}
  BY <1>1, <1>3 DEF RoundOf
<1>5. graph.nodes = near
  BY <1>1 DEF RoundOf
<1> QED
  BY <1>4, <1>5 DEF graph, near, before, EndsIn

\* The graph of a record never leads around what its reader may not view, and
\* leaves out nothing he could find himself (build_record_graph,
\* relationships/services.py 75-112).
THEOREM GraphsStayVisible == ReportsSpec => []GraphIsVisiblePart
<1>1. ReportsInv => GraphIsVisiblePart
  BY SearchFindsVisiblePart DEF ReportsInv
<1> QED
  BY <1>1, ReportsInvariant, PTL

-----------------------------------------------------------------------------
(* Slices of lists.                                                        *)

LEMMA PlacesAreFinite ==
  ASSUME NEW N \in Nat, NEW S \in SUBSET (1..N)
  PROVE  IsFiniteSet(S) /\ Cardinality(S) \in Nat /\ Cardinality(S) <= N
<1>1. IsFiniteSet(1..N) /\ Cardinality(1..N) = N
  BY FS_Interval
<1>2. IsFiniteSet(S) /\ Cardinality(S) <= N
  BY <1>1, FS_Subset
<1> QED
  BY <1>2, FS_CardinalityType

\* A slice that is long enough is the whole list.
LEMMA LongSlice ==
  ASSUME NEW N \in Nat, NEW S \in SUBSET (1..N), NEW n \in Nat, N <= n
  PROVE  First(S, n) = S
<1>1. ASSUME NEW p \in S PROVE Cardinality({q \in S : q <= p}) <= n
  <2>1. {q \in S : q <= p} \in SUBSET (1..N)
    OBVIOUS
  <2> DEFINE c == Cardinality({q \in S : q <= p})
  <2>2. c \in Nat /\ c <= N
    BY <2>1, PlacesAreFinite
  <2> HIDE DEF c
  <2>3. c <= n
    BY <2>2
  <2> QED
    BY <2>3 DEF c
<1> QED
  BY <1>1 DEF First

LengthsOfSlices(m, n) ==
  \A S \in SUBSET (1..m) :
    Cardinality(First(S, n)) = IF Cardinality(S) < n THEN Cardinality(S) ELSE n

\* The last place is in a slice if there is room for the whole list.
LEMMA LastPlace ==
  ASSUME NEW m \in Nat, NEW n \in Nat, NEW S \in SUBSET (1..(m + 1)), m + 1 \in S
  PROVE  First(S, n) = First(S \ {m + 1}, n) \cup (IF Cardinality(S) <= n THEN {m + 1} ELSE {})
<1> DEFINE rest == S \ {m + 1}
<1>1. \A q \in S : q \in Int /\ q <= m + 1 /\ (q # m + 1 => q < m + 1)
  OBVIOUS
<1>2. {q \in S : q <= m + 1} = S
  BY <1>1
<1>3. ASSUME NEW p \in rest PROVE {q \in S : q <= p} = {q \in rest : q <= p}
  BY <1>1, <1>3
<1>4. ASSUME NEW p \in rest PROVE p \in First(S, n) <=> p \in First(rest, n)
  BY <1>3, <1>4 DEF First
<1>5. m + 1 \in First(S, n) <=> Cardinality(S) <= n
  BY <1>2 DEF First
<1>6. First(S, n) \subseteq S /\ First(rest, n) \subseteq rest
  BY DEF First
<1> QED
  BY <1>4, <1>5, <1>6

LEMMA LengthsOfLongerSlices ==
  ASSUME NEW m \in Nat, NEW n \in Nat, LengthsOfSlices(m, n)
  PROVE  LengthsOfSlices(m + 1, n)
<1> SUFFICES ASSUME NEW S \in SUBSET (1..(m + 1))
             PROVE  Cardinality(First(S, n)) = IF Cardinality(S) < n THEN Cardinality(S) ELSE n
  BY DEF LengthsOfSlices
<1>1. CASE m + 1 \notin S
  <2>1. S \in SUBSET (1..m)
    BY <1>1
  <2> QED
    BY <2>1 DEF LengthsOfSlices
<1>2. CASE m + 1 \in S
  <2> DEFINE rest == S \ {m + 1}
             slice == First(rest, n)
             a == Cardinality(S)
             b == Cardinality(rest)
             c == Cardinality(slice)
             d == Cardinality(First(S, n))
  <2>1. rest \in SUBSET (1..m)
    OBVIOUS
  <2>2. c = IF b < n THEN b ELSE n
    <3> HIDE DEF rest
    <3> QED
      BY <2>1 DEF LengthsOfSlices
  <2>3. IsFiniteSet(rest) /\ b \in Nat
    BY <2>1, PlacesAreFinite
  <2>4. slice \in SUBSET (1..m) /\ m + 1 \notin slice
    BY <2>1 DEF First
  <2>5. IsFiniteSet(slice) /\ c \in Nat
    BY <2>4, PlacesAreFinite
  <2>6. S = rest \cup {m + 1} /\ m + 1 \notin rest
    BY <1>2
  <2>7. a = b + 1
    <3> HIDE DEF rest
    <3> QED
      BY <2>3, <2>6, FS_AddElement
  <2>8. First(S, n) = slice \cup (IF a <= n THEN {m + 1} ELSE {})
    BY <1>2, LastPlace
  <2>9. d = IF a <= n THEN c + 1 ELSE c
    <3> HIDE DEF slice, a
    <3>1. Cardinality(slice \cup {m + 1}) = c + 1
      BY <2>4, <2>5, FS_AddElement
    <3>2. slice \cup {} = slice
      OBVIOUS
    <3> QED
      BY <2>8, <3>1, <3>2
  <2> HIDE DEF a, b, c, d
  <2>10. d = IF a < n THEN a ELSE n
    BY <2>2, <2>3, <2>5, <2>7, <2>9
  <2> QED
    BY <2>10 DEF a, d
<1> QED
  BY <1>1, <1>2

LEMMA LengthOfSlice ==
  ASSUME NEW N \in Nat, NEW S \in SUBSET (1..N), NEW n \in Nat
  PROVE  Cardinality(First(S, n)) = IF Cardinality(S) < n THEN Cardinality(S) ELSE n
<1> DEFINE T == {m \in Nat : LengthsOfSlices(m, n)}
<1>1. 0 \in T
  <2> SUFFICES ASSUME NEW Q \in SUBSET (1..0)
               PROVE  Cardinality(First(Q, n)) = IF Cardinality(Q) < n THEN Cardinality(Q) ELSE n
    BY DEF LengthsOfSlices
  <2>1. Q = {}
    BY 1..0 = {}
  <2>2. First(Q, n) = {}
    BY <2>1 DEF First
  <2> QED
    BY <2>1, <2>2, FS_EmptySet
<1>2. \A m \in Nat : m \in T => m + 1 \in T
  BY LengthsOfLongerSlices
<1> HIDE DEF T
<1>3. N \in T
  BY <1>1, <1>2, SetInduction
<1> QED
  BY <1>3 DEF T, LengthsOfSlices

-----------------------------------------------------------------------------
(* Lists and pages of audit events.                                        *)

LEMMA AdministratorsViewAll ==
  ASSUME NEW u, IsSystemAdmin(u), NEW r
  PROVE  CanView(u, r)
  BY PermissionAssumption DEF CanView, UserCan, IsSystemAdmin

LEMMA PlacesOfEvents ==
  ASSUME EventsNameRecords
  PROVE  /\ Len(events) \in Nat /\ DOMAIN events = 1..Len(events)
         /\ \A n \in DOMAIN events : NamesItsRecords(events[n])
  BY DEF EventsNameRecords

\* A list of events of one object, of which a user sees all or none.
LEMMA ListOfPage ==
  ASSUME EventsNameRecords, NEW u, NEW page \in SUBSET (DOMAIN events), NEW limit \in Limits, NEW sees \in BOOLEAN,
         \A n \in page : (IsSystemAdmin(u) \/ EventIsVisible(u, events[n])) <=> sees
  PROVE  LET listed == VisibleEvents(u, page, limit)
             shown == IF sees THEN page ELSE {}
         IN listed \subseteq shown /\ Cardinality(listed) = Shortest(limit, shown)
<1> DEFINE shown == IF sees THEN page ELSE {}
<1>1. {n \in page : IsSystemAdmin(u) \/ EventIsVisible(u, events[n])} = shown
  OBVIOUS
<1>2. VisibleEvents(u, page, limit) = First(shown, limit)
  BY <1>1 DEF VisibleEvents
<1>3. shown \in SUBSET (1..Len(events)) /\ Len(events) \in Nat /\ limit \in Nat
  BY PlacesOfEvents, ReportAssumption
<1>4. First(shown, limit) \subseteq shown
  BY DEF First
<1> HIDE DEF shown
<1>5. Cardinality(First(shown, limit)) = Shortest(limit, shown)
  BY <1>3, LengthOfSlice DEF Shortest
<1> QED
  BY <1>2, <1>4, <1>5 DEF shown

LEMMA PagesOfEventsAgree == ReportsInv => AuditPagesAgree
<1> SUFFICES ASSUME ReportsInv, NEW u \in Users, NEW limit \in Limits PROVE
      LET Agree(listed, page) == listed \subseteq page /\ Cardinality(listed) = Shortest(limit, page) IN
      /\ \A record \in RecordIds :
           Agree(VisibleEvents(u, EventsOf("record", record), limit), RecordAudit(u, record))
      /\ \A document \in DOMAIN RecordOfObject :
           Agree(VisibleEvents(u, EventsOf("document", document), limit), DocumentAudit(u, document))
  BY DEF AuditPagesAgree
<1>0. EventsNameRecords
  BY DEF ReportsInv
<1>1. ASSUME NEW record \in RecordIds
      PROVE  LET listed == VisibleEvents(u, EventsOf("record", record), limit)
                 page == RecordAudit(u, record)
             IN listed \subseteq page /\ Cardinality(listed) = Shortest(limit, page)
  <2> DEFINE mine == EventsOf("record", record)
             sees == CanView(u, record)
  <2>1. sees \in BOOLEAN
    BY DEF CanView, UserCan
  <2>2. ASSUME NEW n \in mine PROVE (IsSystemAdmin(u) \/ EventIsVisible(u, events[n])) <=> sees
    <3>1. events[n].object_type = "record" /\ events[n].object_id = record
      BY <2>2 DEF EventsOf
    <3>2. EventIsVisible(u, events[n]) <=> CanView(u, record)
      BY <3>1 DEF EventIsVisible, RecordVisible
    <3> QED
      BY <3>2, AdministratorsViewAll
  <2>3. mine \in SUBSET (DOMAIN events) /\ RecordAudit(u, record) = IF sees THEN mine ELSE {}
    BY DEF EventsOf, RecordAudit
  <2> HIDE DEF mine, sees
  <2>4. /\ EventsNameRecords /\ limit \in Limits /\ mine \in SUBSET (DOMAIN events)
        /\ \A n \in mine : (IsSystemAdmin(u) \/ EventIsVisible(u, events[n])) <=> sees
    BY <1>0, <2>2, <2>3
  <2>5. LET listed == VisibleEvents(u, mine, limit)
            shown == IF sees THEN mine ELSE {}
        IN listed \subseteq shown /\ Cardinality(listed) = Shortest(limit, shown)
    BY ONLY <2>1, <2>4, ListOfPage
  <2> QED
    BY <2>3, <2>5 DEF mine
<1>2. ASSUME NEW document \in DOMAIN RecordOfObject
      PROVE  LET listed == VisibleEvents(u, EventsOf("document", document), limit)
                 page == DocumentAudit(u, document)
             IN listed \subseteq page /\ Cardinality(listed) = Shortest(limit, page)
  <2> DEFINE mine == EventsOf("document", document)
             sees == CanView(u, RecordOfObject[document])
  <2>1. sees \in BOOLEAN
    BY DEF CanView, UserCan
  <2>2. ASSUME NEW n \in mine PROVE (IsSystemAdmin(u) \/ EventIsVisible(u, events[n])) <=> sees
    <3>1. events[n].object_type = "document" /\ events[n].object_id = document
      BY <2>2 DEF EventsOf
    <3>2. EventIsVisible(u, events[n]) <=> CanView(u, RecordOfObject[document])
      BY <3>1, <1>2, ReportAssumption DEF EventIsVisible, ObjectVisible, RecordVisible
    <3> QED
      BY <3>2, AdministratorsViewAll
  <2>3. mine \in SUBSET (DOMAIN events) /\ DocumentAudit(u, document) = IF sees THEN mine ELSE {}
    BY DEF EventsOf, DocumentAudit
  <2> HIDE DEF mine, sees
  <2>4. /\ EventsNameRecords /\ limit \in Limits /\ mine \in SUBSET (DOMAIN events)
        /\ \A n \in mine : (IsSystemAdmin(u) \/ EventIsVisible(u, events[n])) <=> sees
    BY <1>0, <2>2, <2>3
  <2>5. LET listed == VisibleEvents(u, mine, limit)
            shown == IF sees THEN mine ELSE {}
        IN listed \subseteq shown /\ Cardinality(listed) = Shortest(limit, shown)
    BY ONLY <2>1, <2>4, ListOfPage
  <2> QED
    BY <2>3, <2>5 DEF mine
<1> QED
  BY <1>1, <1>2

LEMMA InvariantKeepsEventsHidden == ReportsInv => EventsFollowGrants
<1> SUFFICES ASSUME ReportsInv PROVE EventsFollowGrants
  OBVIOUS
<1>1. ASSUME NEW u \in Users, NEW limit, NEW n \in VisibleEvents(u, DOMAIN events, limit), ~IsSystemAdmin(u)
      PROVE  EventIsVisible(u, events[n]) /\ NamesItsRecords(events[n])
  <2>1. n \in DOMAIN events /\ EventIsVisible(u, events[n])
    BY <1>1 DEF VisibleEvents, First
  <2> QED
    BY <2>1, PlacesOfEvents DEF ReportsInv
<1>2. EventsShowOnlyVisible
  BY <1>1, VisibleEventIsOfVisibleRecord DEF EventsShowOnlyVisible
<1>3. ASSUME NEW u \in Users, NEW limit \in Limits
      PROVE  Cardinality(VisibleEvents(u, DOMAIN events, limit))
               = Shortest(limit, {n \in DOMAIN events : IsSystemAdmin(u) \/ EventIsVisible(u, events[n])})
  <2> DEFINE shown == {n \in DOMAIN events : IsSystemAdmin(u) \/ EventIsVisible(u, events[n])}
  <2>1. VisibleEvents(u, DOMAIN events, limit) = First(shown, limit)
    BY DEF VisibleEvents
  <2>2. shown \in SUBSET (1..Len(events)) /\ Len(events) \in Nat /\ limit \in Nat
    BY PlacesOfEvents, ReportAssumption DEF ReportsInv
  <2> HIDE DEF shown
  <2>3. Cardinality(First(shown, limit)) = Shortest(limit, shown)
    BY <2>2, LengthOfSlice DEF Shortest
  <2> QED
    BY <2>1, <2>3 DEF shown
<1> QED
  BY <1>2, <1>3, PagesOfEventsAgree DEF EventsFollowGrants, LimitsCountVisibleEvents

\* Whoever reads the list of events, or the history of a record or a document,
\* reads of records that he may view now, and a list is cut after what it may
\* not show is left out (_visible_events, audit/views.py 73-176).
THEOREM EventsStayHidden == ReportsSpec => []EventsFollowGrants
  BY ReportsInvariant, InvariantKeepsEventsHidden, PTL

-----------------------------------------------------------------------------
(* Saved views and widgets.                                                *)

Places == DOMAIN RecordsInOrder

LEMMA PlacesOfRecords ==
  /\ Len(RecordsInOrder) \in Nat /\ Places = 1..Len(RecordsInOrder)
  /\ \A p \in Places : RecordsInOrder[p] \in RecordIds
  /\ Len(OverdueTasks) \in Nat /\ DOMAIN OverdueTasks = 1..Len(OverdueTasks)
  BY ReportAssumption DEF Places

LEMMA ScanLimitIsNumber ==
  ASSUME NEW filter, NEW limit \in Limits \cup {None}
  PROVE  ScanLimit(limit, filter) \in Nat /\ ScanLimit(limit, filter) <= MaxScan
<1>1. MaxScan \in Nat /\ ScanFactor \in Nat
  BY ReportAssumption
<1>2. CASE limit = None \/ filter.link # None \/ ScanFactor * limit > MaxScan
  BY <1>1, <1>2 DEF ScanLimit
<1>3. CASE ~(limit = None \/ filter.link # None \/ ScanFactor * limit > MaxScan)
  <2>1. limit \in Nat
    BY <1>3, ReportAssumption
  <2> DEFINE n == ScanFactor * limit
  <2>2. n \in Nat
    BY <1>1, <2>1
  <2>3. ~(n > MaxScan) /\ ScanLimit(limit, filter) = n
    BY <1>3 DEF ScanLimit
  <2> HIDE DEF n
  <2> QED
    BY <1>1, <2>2, <2>3
<1> QED
  BY <1>2, <1>3

Listed(u, filter) ==
  {p \in Places : RecordsInOrder[p] \in RecordsUserCanView(u, RecordIds) /\ MatchesQuery(RecordsInOrder[p], filter)}

Shown(u, filter) ==
  {p \in Places : /\ CanView(u, RecordsInOrder[p])
                  /\ MatchesQuery(RecordsInOrder[p], filter)
                  /\ MatchesUser(u, RecordsInOrder[p], filter)}

\* As long as every record is scanned, the limit cuts the list of what is shown.
LEMMA AllPlacesScanned ==
  ASSUME AccessInv, NEW u \in Users, NEW filter, NEW limit \in Limits \cup {None},
         Len(RecordsInOrder) <= ScanLimit(limit, filter)
  PROVE  VisibleRecords(u, filter, limit)
           = IF limit = None THEN Shown(u, filter) ELSE First(Shown(u, filter), limit)
<1> DEFINE listed == Listed(u, filter)
           n == ScanLimit(limit, filter)
           shown == {p \in First(listed, n) : CanView(u, RecordsInOrder[p]) /\ MatchesUser(u, RecordsInOrder[p], filter)}
<1>1. VisibleRecords(u, filter, limit) = IF limit = None THEN shown ELSE First(shown, limit)
  BY DEF VisibleRecords, Listed, Places
<1>2. First(listed, n) = listed
  <2>1. listed \in SUBSET (1..Len(RecordsInOrder)) /\ n \in Nat
    BY PlacesOfRecords, ScanLimitIsNumber DEF Listed
  <2> HIDE DEF n, listed
  <2>2. Len(RecordsInOrder) <= n
    BY DEF n
  <2> QED
    BY <2>1, <2>2, PlacesOfRecords, LongSlice
<1>3. listed = {p \in Places : CanView(u, RecordsInOrder[p]) /\ MatchesQuery(RecordsInOrder[p], filter)}
  <2>1. RecordsUserCanView(u, RecordIds) = {r \in RecordIds : CanView(u, r)}
    BY FilterIsCheck
  <2>2. \A p \in Places : RecordsInOrder[p] \in RecordsUserCanView(u, RecordIds) <=> CanView(u, RecordsInOrder[p])
    BY <2>1, PlacesOfRecords
  <2> QED
    BY <2>2 DEF Listed
<1> HIDE DEF listed, n
<1>4. shown = Shown(u, filter)
  BY <1>2, <1>3 DEF Shown
<1> HIDE DEF shown
<1> QED
  BY <1>1, <1>4

LEMMA RowsAreOfVisibleRecords ==
  ReportsShowOnlyVisible
<1>1. ASSUME NEW u, NEW f PROVE \A p \in VisibleRecords(u, f, None) : CanView(u, RecordsInOrder[p])
  BY DEF VisibleRecords
<1>2. ASSUME NEW u, NEW limit PROVE \A p \in OverdueItems(u, limit) : CanView(u, OverdueTasks[p])
  BY DEF OverdueItems, First
<1>3. ASSUME NEW u, NEW limit
      PROVE  \A row \in MissingDocuments(u, Requirements, limit) : CanView(u, RecordsInOrder[row[2]])
  BY DEF MissingDocuments
<1>4. ASSUME NEW u, NEW limit
      PROVE  LET bottlenecks == WorkflowBottlenecks(u, limit) IN
             \A key \in DOMAIN bottlenecks : \A p \in bottlenecks[key] : CanView(u, OpenTasks[p].record)
  <2> DEFINE shown == {p \in First(DOMAIN OpenTasks, MaxScan) : CanView(u, OpenTasks[p].record)}
             Keys(p) == {OpenTasks[q].key : q \in {s \in shown : s <= p}}
             counted == {p \in shown : Cardinality(Keys(p)) <= limit}
             bottlenecks == WorkflowBottlenecks(u, limit)
  <2>1. bottlenecks = [key \in {OpenTasks[p].key : p \in counted} |-> {p \in counted : OpenTasks[p].key = key}]
    BY DEF WorkflowBottlenecks
  <2>2. \A p \in counted : CanView(u, OpenTasks[p].record)
    OBVIOUS
  <2> HIDE DEF counted, bottlenecks
  <2>3. \A key \in DOMAIN bottlenecks : bottlenecks[key] \subseteq counted
    BY <2>1
  <2> QED
    BY <2>2, <2>3 DEF bottlenecks
<1> QED
  BY <1>1, <1>2, <1>3, <1>4 DEF ReportsShowOnlyVisible

LEMMA LimitsCount ==
  ASSUME AccessInv
  PROVE  LimitsCountVisibleRows
<1> SUFFICES ASSUME NEW u \in Users, NEW limit \in Limits
    PROVE  /\ Len(OverdueTasks) <= ScanLimit(limit, NoFilter) =>
                Cardinality(OverdueItems(u, limit))
                  = Shortest(limit, {p \in DOMAIN OverdueTasks : CanView(u, OverdueTasks[p])})
           /\ \A f \in Filters : Len(RecordsInOrder) <= ScanLimit(limit, f) =>
                Cardinality(VisibleRecords(u, f, limit)) = Shortest(limit, VisibleRecords(u, f, None))
  BY DEF LimitsCountVisibleRows
<1>1. limit \in Nat /\ limit # None
  BY ReportAssumption
<1>2. ASSUME Len(OverdueTasks) <= ScanLimit(limit, NoFilter)
      PROVE  Cardinality(OverdueItems(u, limit))
               = Shortest(limit, {p \in DOMAIN OverdueTasks : CanView(u, OverdueTasks[p])})
  <2> DEFINE n == ScanLimit(limit, NoFilter)
             N == Len(OverdueTasks)
             seen == {p \in DOMAIN OverdueTasks : CanView(u, OverdueTasks[p])}
  <2>1. n \in Nat /\ N \in Nat /\ N <= n /\ DOMAIN OverdueTasks = 1..N
    BY <1>2, PlacesOfRecords, ScanLimitIsNumber
  <2>2. OverdueItems(u, limit) = First({p \in First(DOMAIN OverdueTasks, n) : CanView(u, OverdueTasks[p])}, limit)
    BY DEF OverdueItems
  <2> HIDE DEF n, N
  <2>3. First(DOMAIN OverdueTasks, n) = DOMAIN OverdueTasks
    BY <2>1, LongSlice
  <2>4. OverdueItems(u, limit) = First(seen, limit) /\ seen \in SUBSET (1..N)
    BY <2>1, <2>2, <2>3
  <2> HIDE DEF seen
  <2>5. Cardinality(First(seen, limit)) = IF Cardinality(seen) < limit THEN Cardinality(seen) ELSE limit
    BY <1>1, <2>1, <2>4, LengthOfSlice
  <2>6. Cardinality(OverdueItems(u, limit)) = Shortest(limit, seen)
    BY <2>4, <2>5 DEF Shortest
  <2> QED
    BY <2>6 DEF seen
<1>3. ASSUME NEW f \in Filters, Len(RecordsInOrder) <= ScanLimit(limit, f)
      PROVE  Cardinality(VisibleRecords(u, f, limit)) = Shortest(limit, VisibleRecords(u, f, None))
  <2> DEFINE seen == Shown(u, f)
             N == Len(RecordsInOrder)
  <2>1. VisibleRecords(u, f, limit) = First(seen, limit)
    BY <1>1, <1>3, AllPlacesScanned
  <2>2. N <= ScanLimit(None, f)
    <3>1. /\ ScanLimit(limit, f) <= MaxScan /\ ScanLimit(limit, f) \in Nat
          /\ N \in Nat /\ MaxScan \in Nat /\ N <= ScanLimit(limit, f)
      BY <1>3, ScanLimitIsNumber, PlacesOfRecords, ReportAssumption
    <3>2. ScanLimit(None, f) = MaxScan
      BY DEF ScanLimit
    <3> HIDE DEF N
    <3> QED
      BY <3>1, <3>2
  <2>3. VisibleRecords(u, f, None) = seen
    BY <2>2, AllPlacesScanned
  <2>4. seen \in SUBSET (1..N) /\ N \in Nat
    BY PlacesOfRecords DEF Shown
  <2> HIDE DEF seen, N
  <2>5. Cardinality(First(seen, limit)) = IF Cardinality(seen) < limit THEN Cardinality(seen) ELSE limit
    BY <1>1, <2>4, LengthOfSlice
  <2> QED
    BY <2>1, <2>3, <2>5 DEF Shortest
<1> QED
  BY <1>2, <1>3

\* Each record has one place in the list.
LEMMA RecordsOfPlaces ==
  ASSUME NEW S \in SUBSET Places, NEW T \in SUBSET RecordIds,
         \A p \in Places : p \in S <=> RecordsInOrder[p] \in T
  PROVE  Cardinality(S) = Cardinality(T)
<1> DEFINE f == [p \in S |-> RecordsInOrder[p]]
<1>1. f \in [S -> T]
  OBVIOUS
<1>2. \A a, b \in S : f[a] = f[b] => a = b
  BY ReportAssumption DEF Places
<1>3. ASSUME NEW r \in T PROVE \E p \in S : f[p] = r
  <2>1. PICK p \in Places : RecordsInOrder[p] = r
    BY ReportAssumption DEF Places
  <2> QED
    BY <2>1
<1> HIDE DEF f
<1>4. f \in Bijection(S, T)
  BY <1>1, <1>2, <1>3, Fun_IsBij
<1>5. ExistsBijection(S, T)
  BY <1>4 DEF ExistsBijection
<1>6. IsFiniteSet(S)
  BY PlacesOfRecords, PlacesAreFinite
<1> QED
  BY <1>5, <1>6, FS_Bijection

LEMMA NumbersCount ==
  ASSUME AccessInv
  PROVE  NumbersCountVisibleRecords
<1> SUFFICES ASSUME NEW u \in Users
    PROVE  LET Number(values) == Cardinality({r \in RecordIds : CanView(u, r) /\ StatusOf[r] \in values}) IN
             /\ \A card \in DOMAIN Cards : HomeOverview(u).cards[card] = Number(Cards[card])
             /\ Len(RecordsInOrder) <= MaxScan =>
                  \A s \in RecordStatuses : CountBy(u, NoFilter, StatusOf, RecordStatuses)[s] = Number({s})
  BY DEF NumbersCountVisibleRecords
<1>1. ASSUME NEW card \in DOMAIN Cards
      PROVE  HomeOverview(u).cards[card]
               = Cardinality({r \in RecordIds : CanView(u, r) /\ StatusOf[r] \in Cards[card]})
  <2>1. RecordsUserCanView(u, RecordIds) = {r \in RecordIds : CanView(u, r)}
    BY FilterIsCheck
  <2>2. {r \in RecordsUserCanView(u, RecordIds) : StatusOf[r] \in Cards[card]}
          = {r \in RecordIds : CanView(u, r) /\ StatusOf[r] \in Cards[card]}
    BY <2>1
  <2>3. HomeOverview(u).cards[card]
          = Cardinality({r \in RecordsUserCanView(u, RecordIds) : StatusOf[r] \in Cards[card]})
    BY DEF HomeOverview
  <2> QED
    BY <2>2, <2>3
<1>2. ASSUME Len(RecordsInOrder) <= MaxScan, NEW s \in RecordStatuses
      PROVE  CountBy(u, NoFilter, StatusOf, RecordStatuses)[s]
               = Cardinality({r \in RecordIds : CanView(u, r) /\ StatusOf[r] \in {s}})
  <2>1. VisibleRecords(u, NoFilter, None) = Shown(u, NoFilter)
    BY <1>2, AllPlacesScanned DEF ScanLimit
  <2>2. \A p \in Places : p \in Shown(u, NoFilter) <=> CanView(u, RecordsInOrder[p])
    BY DEF Shown, NoFilter, MatchesQuery, MatchesUser
  <2> DEFINE S == {p \in Shown(u, NoFilter) : StatusOf[RecordsInOrder[p]] = s}
             T == {r \in RecordIds : CanView(u, r) /\ StatusOf[r] \in {s}}
  <2>3. S \in SUBSET Places /\ T \in SUBSET RecordIds
    BY DEF Shown
  <2>4. \A p \in Places : p \in S <=> RecordsInOrder[p] \in T
    BY <2>2, PlacesOfRecords
  <2>5. CountBy(u, NoFilter, StatusOf, RecordStatuses)[s] = Cardinality(S)
    BY <2>1 DEF CountBy
  <2> HIDE DEF S, T
  <2>6. Cardinality(S) = Cardinality(T)
    BY <2>3, <2>4, RecordsOfPlaces
  <2> QED
    BY <2>5, <2>6 DEF T
<1> QED
  BY <1>1, <1>2

\* Saved views, widgets and the home page show and count what their user may
\* view at that moment, up to their limits (visible_records,
\* run_dashboard_widget, home_overview_payload, reports/query.py 147-179, 281-468).
THEOREM ReportsStayWithinGrants == ReportsSpec => []ReportsFollowGrants
<1>1. ASSUME ReportsInv PROVE ReportsFollowGrants
  <2>1. ReportsShowOnlyVisible
    BY RowsAreOfVisibleRecords
  <2>2. AccessInv /\ TypeOK
    BY <1>1, PlacesOfEvents DEF ReportsInv, AccessInv, TypeOK
  <2> QED
    BY <2>1, <2>2, LimitsCount, NumbersCount DEF ReportsFollowGrants
<1> QED
  BY <1>1, ReportsInvariant, PTL

\* A record that a saved view finds is linked to what the graph shows.
LEMMA LinksOfFilter ==
  ASSUME LinkTypeOK, NEW u, NEW r \in RecordIds, CanView(u, r), NEW filter, NEW read \in SUBSET links
  PROVE  /\ read \subseteq LinksOf(r, filter) /\ (\E n \in Related(r, filter, read) : CanView(u, n))
              => GraphLinks(u, r, filter) # {}
         /\ read = LinksOf(r, filter) /\ GraphLinks(u, r, filter) # {}
              => \E n \in Related(r, filter, read) : CanView(u, n)
<1> DEFINE edges == BuildRecordGraph(u, r).edges
           Leads(l) == /\ filter.key \in {None, l.key}
                       /\ \/ filter.direction # "incoming" /\ l.source = r /\ filter.related \in {None, TypeOf[l.target]}
                          \/ filter.direction # "outgoing" /\ l.target = r /\ filter.related \in {None, TypeOf[l.source]}
           before == Reached(u, r)[MaxDepth - 1]
<1>1. edges = {l \in links : BothVisible(u, l) /\ EndsIn(l, before)} /\ r \in before
  BY GraphOfVisibleRecord DEF RoundOf
<1>2. \A l \in links : l.source \in RecordIds /\ l.target \in RecordIds
  BY DEF LinkTypeOK, Link
<1>3. GraphLinks(u, r, filter) = {l \in edges : Leads(l)}
  BY DEF GraphLinks
<1> HIDE DEF edges, before
<1>4. ASSUME read \subseteq LinksOf(r, filter), NEW n \in Related(r, filter, read), CanView(u, n)
      PROVE  \E l \in edges : Leads(l)
  <2>1. PICK l \in read :
          /\ filter.related \in {None, TypeOf[n]}
          /\ \/ filter.direction # "incoming" /\ l.source = r /\ l.target = n
             \/ filter.direction # "outgoing" /\ l.source = n /\ l.target = r
    BY <1>4 DEF Related
  <2>2. l \in links /\ filter.key \in {None, l.key}
    BY <1>4, <2>1 DEF LinksOf
  <2>3. BothVisible(u, l) /\ EndsIn(l, before)
    BY <1>1, <1>4, <2>1 DEF BothVisible, EndsIn
  <2>4. Leads(l)
    BY <2>1, <2>2
  <2> QED
    BY <1>1, <2>2, <2>3, <2>4
<1>5. ASSUME read = LinksOf(r, filter), NEW l \in edges, Leads(l)
      PROVE  \E n \in Related(r, filter, read) : CanView(u, n)
  <2>1. l \in links /\ BothVisible(u, l)
    BY <1>1
  <2>2. l \in read
    BY <1>5, <2>1 DEF LinksOf
  <2>3. CASE filter.direction # "incoming" /\ l.source = r /\ filter.related \in {None, TypeOf[l.target]}
    <3>1. l.target \in Related(r, filter, read)
      BY <1>2, <2>1, <2>2, <2>3 DEF Related
    <3> QED
      BY <2>1, <3>1 DEF BothVisible
  <2>4. CASE filter.direction # "outgoing" /\ l.target = r /\ filter.related \in {None, TypeOf[l.source]}
    <3>1. l.source \in Related(r, filter, read)
      BY <1>2, <2>1, <2>2, <2>4 DEF Related
    <3> QED
      BY <2>1, <3>1 DEF BothVisible
  <2> QED
    BY <1>5, <2>3, <2>4
<1> QED
  BY <1>3, <1>4, <1>5

ReadLinks(r, filter) ==
  {l \in LinksOf(r, filter) : Cardinality({k \in LinksOf(r, filter) : LinkIds[k] <= LinkIds[l]}) <= MaxScan}

\* If there are no more links than are scanned, all of them are read.
LEMMA FewLinksAreRead ==
  ASSUME LinkTypeOK, NEW r, NEW filter, Cardinality(LinksOf(r, filter)) <= MaxScan
  PROVE  ReadLinks(r, filter) = LinksOf(r, filter)
<1> DEFINE all == LinksOf(r, filter)
<1>1. IsFiniteSet(all)
  <2>1. all \subseteq links
    BY DEF LinksOf
  <2> QED
    BY <2>1, FS_Subset DEF LinkTypeOK
<1>2. ASSUME NEW l \in all PROVE Cardinality({k \in all : LinkIds[k] <= LinkIds[l]}) <= MaxScan
  <2> DEFINE earlier == {k \in all : LinkIds[k] <= LinkIds[l]}
  <2>1. earlier \subseteq all
    OBVIOUS
  <2> HIDE DEF earlier, all
  <2>2. IsFiniteSet(earlier) /\ Cardinality(earlier) <= Cardinality(all)
    BY <1>1, <2>1, FS_Subset
  <2>3. Cardinality(earlier) \in Nat /\ Cardinality(all) \in Nat /\ MaxScan \in Nat
    BY <1>1, <2>2, FS_CardinalityType, ReportAssumption
  <2>4. Cardinality(all) <= MaxScan
    BY DEF all
  <2>5. Cardinality(earlier) <= MaxScan
    BY <2>2, <2>3, <2>4
  <2> QED
    BY <2>5 DEF earlier
<1> QED
  BY <1>2 DEF ReadLinks

LEMMA FilterFollowsGraph == ReportsInv => LinkFilterMatchesGraph
<1> SUFFICES ASSUME ReportsInv, NEW u \in Users, NEW r \in RecordIds, NEW f \in Filters, f.link # None, CanView(u, r)
    PROVE  LET listed == r \in {RecordsInOrder[p] : p \in VisibleRecords(u, f, None)} IN
           /\ listed => GraphLinks(u, r, f.link) # {}
           /\ /\ Len(RecordsInOrder) <= MaxScan /\ Cardinality(LinksOf(r, f.link)) <= MaxScan
              /\ MatchesQuery(r, [f EXCEPT !.link = None]) /\ GraphLinks(u, r, f.link) # {}
              => listed
  BY DEF LinkFilterMatchesGraph
<1> DEFINE read == ReadLinks(r, f.link)
           Sees == \E n \in Related(r, f.link, read) : CanView(u, n)
<1>1. MatchesUser(u, r, f) <=> Sees
  BY DEF MatchesUser, ReadLinks
<1>2. LinkTypeOK /\ read \subseteq LinksOf(r, f.link) /\ read \in SUBSET links
  BY DEF ReportsInv, ReadLinks, LinksOf
<1>3. ASSUME NEW p \in VisibleRecords(u, f, None), RecordsInOrder[p] = r
      PROVE  GraphLinks(u, r, f.link) # {}
  <2>1. MatchesUser(u, r, f)
    BY <1>3 DEF VisibleRecords
  <2> QED
    BY <1>1, <1>2, <2>1, LinksOfFilter
<1>4. ASSUME Len(RecordsInOrder) <= MaxScan, Cardinality(LinksOf(r, f.link)) <= MaxScan,
             MatchesQuery(r, [f EXCEPT !.link = None]), GraphLinks(u, r, f.link) # {}
      PROVE  \E p \in VisibleRecords(u, f, None) : RecordsInOrder[p] = r
  <2>1. VisibleRecords(u, f, None) = Shown(u, f)
    BY <1>4, AllPlacesScanned DEF ScanLimit, ReportsInv
  <2>2. read = LinksOf(r, f.link)
    BY <1>2, <1>4, FewLinksAreRead
  <2>3. Sees
    BY <1>2, <1>4, <2>2, LinksOfFilter
  <2>4. MatchesQuery(r, f)
    <3>1. f \in [types : SUBSET Types, statuses : SUBSET RecordStatuses, link : LinkFilter \cup {None}]
      BY ReportAssumption
    <3> DEFINE g == [f EXCEPT !.link = None]
    <3>2. g.types = f.types /\ g.statuses = f.statuses /\ MatchesQuery(r, g)
      BY <1>4, <3>1
    <3> HIDE DEF g
    <3>3. Related(r, f.link, LinksOf(r, f.link)) # {}
      BY <2>2, <2>3
    <3> QED
      BY <3>2, <3>3 DEF MatchesQuery
  <2>5. PICK p \in Places : RecordsInOrder[p] = r
    BY ReportAssumption DEF Places
  <2>6. p \in Shown(u, f)
    BY <1>1, <2>3, <2>4, <2>5 DEF Shown
  <2> QED
    BY <2>1, <2>5, <2>6
<1> QED
  BY <1>3, <1>4

\* A saved view that filters by links finds what the graph shows, never a link
\* to a record that its user may not view, and all of it up to the scan limit (_filter_relationship_exists and
\* _record_has_visible_relationship, reports/query.py 210-235, 638-677).
THEOREM LinkFiltersFollowGraphs == ReportsSpec => []LinkFilterMatchesGraph
  BY ReportsInvariant, FilterFollowsGraph, PTL

=============================================================================
