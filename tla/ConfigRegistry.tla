--------------------------- MODULE ConfigRegistry ---------------------------
(***************************************************************************)
(* Configuration drafts, their publication as numbered versions, and the   *)
(* runtime workflow and dashboard rows that a publish rewrites             *)
(* (apps/config_registry/views.py, services.py, models.py).                *)
(*                                                                         *)
(* Requests run concurrently against one PostgreSQL database in READ       *)
(* COMMITTED mode.  A row lock (select_for_update) is held to the end of   *)
(* its transaction; what a transaction writes is visible to others only    *)
(* when it commits.  A step of a request is one stretch of statements that *)
(* other requests cannot tell apart from a single one.                     *)
(***************************************************************************)
EXTENDS ConfigDiff, Naturals

CONSTANTS
  Requests,         \* concurrent HTTP requests
  Drafts,           \* primary keys of drafts
  Configs,          \* payloads a client may send, and the starter payload
  StarterConfig,    \* starter_configuration_data()
  WorkflowKeys,     \* runtime keys "<workflow>__<object type>"
  DashboardKeys,
  Definitions,      \* contents of a workflow or dashboard definition
  HandMade,         \* keys of rows that were not made by a publish
  None              \* no draft, no definition, the holder of a free lock

\* valid says whether validate_draft returns no errors; workflows and
\* dashboards are what the payload assigns to runtime rows.
Config == [object_types : Schema, valid : BOOLEAN,
           workflows : UNION {[K -> Definitions] : K \in SUBSET WorkflowKeys},
           dashboards : UNION {[K -> Definitions] : K \in SUBSET DashboardKeys}]

ASSUME ConfigAssumption ==
  /\ Configs \subseteq Config
  /\ StarterConfig \in Configs

ASSUME NamesAssumption ==
  None \notin Requests \cup Definitions \cup Drafts

VARIABLES
  drafts,         \* the ConfigurationDraft rows
  versions,       \* the committed ConfigurationVersion rows
  nextVersion,    \* ConfigurationSequence.next_version
  workflows,      \* the WorkflowDefinition rows, with their transitions
  dashboards,     \* the shared Dashboard rows, with their widgets
  draftLock,      \* holder of the row lock of each draft
  sequenceLock,   \* holder of the row lock of the sequence
  pc,             \* where each request stands
  req             \* the local variables of each request

db == <<drafts, versions, nextVersion, workflows, dashboards>>
locks == <<draftLock, sequenceLock>>
vars == <<db, locks, pc, req>>

-----------------------------------------------------------------------------
(* Rows.                                                                   *)

DraftRow == [status : {"absent", "draft", "published"}, data : Configs]

\* A published version remembers, besides its columns, how it was requested:
\* confirm is confirm_breaking_changes, system that the user is a system admin.
Version == [version : Nat \ {0}, data : Configs, draft : Drafts,
            confirm : BOOLEAN, system : BOOLEAN]

Row == [state : {"absent", "active", "inactive", "unmanaged"},
        version : Nat, definition : Definitions \cup {None}]

\* The local variables of a request: the draft and payload it works on, the
\* version number it drew, and the runtime rows it is about to commit.
Local == [draft : Drafts \cup {None}, data : Configs, confirm : BOOLEAN,
          system : BOOLEAN, version : Nat, workflows : [WorkflowKeys -> Row],
          dashboards : [DashboardKeys -> Row]]

NoRow(k) == [state |-> IF k \in HandMade THEN "unmanaged" ELSE "absent",
             version |-> 0, definition |-> None]

\* get_active_config: the row with the highest version.
Latest(rows) == CHOOSE v \in rows : \A w \in rows : w.version <= v.version

Active == Latest(versions)

\* breaking_changes_for_draft is empty without an active configuration.
Breaks(data) ==
  versions # {} /\ Destructive(Active.data.object_types, data.object_types)

\* Mutation of SyncWorkflows: an active row keeps its definition (a
\* get_or_create where the code updates).
CreateMissingWorkflows(rows, config, version) ==
  [k \in WorkflowKeys |->
     IF rows[k].state = "unmanaged" THEN rows[k]
     ELSE IF k \in DOMAIN config.workflows
          THEN [state |-> "active", version |-> version,
                definition |-> IF rows[k].state = "active" THEN rows[k].definition
                               ELSE config.workflows[k]]
     ELSE NoRow(k)]

\* _sync_runtime_workflows: rows made by hand are skipped, assigned rows are
\* rewritten and activated, other managed rows are deactivated.
SyncWorkflows(rows, config, version) ==
  [k \in WorkflowKeys |->
     IF rows[k].state = "unmanaged" THEN rows[k]
     ELSE IF k \in DOMAIN config.workflows
          THEN [state |-> "active", version |-> version,
                definition |-> config.workflows[k]]
     ELSE IF rows[k].state = "active" THEN [rows[k] EXCEPT !.state = "inactive"]
     ELSE rows[k]]

\* _sync_runtime_dashboards does the same, but deletes the other managed rows.
SyncDashboards(rows, config, version) ==
  [k \in DashboardKeys |->
     IF rows[k].state = "unmanaged" THEN rows[k]
     ELSE IF k \in DOMAIN config.dashboards
          THEN [state |-> "active", version |-> version,
                definition |-> config.dashboards[k]]
     ELSE NoRow(k)]

-----------------------------------------------------------------------------
Idle == [draft |-> None, data |-> StarterConfig,
         confirm |-> FALSE, system |-> FALSE, version |-> 0,
         workflows |-> [k \in WorkflowKeys |-> NoRow(k)],
         dashboards |-> [k \in DashboardKeys |-> NoRow(k)]]

Init ==
  /\ drafts = [d \in Drafts |-> [status |-> "absent", data |-> StarterConfig]]
  /\ versions = {}
  /\ nextVersion = 1
  /\ workflows = [k \in WorkflowKeys |-> NoRow(k)]
  /\ dashboards = [k \in DashboardKeys |-> NoRow(k)]
  /\ draftLock = [d \in Drafts |-> None]
  /\ sequenceLock = None
  /\ pc = [r \in Requests |-> "idle"]
  /\ req = [r \in Requests |-> Idle]

Goto(r, label) == pc' = [pc EXCEPT ![r] = label]

Done(r) == Goto(r, "idle") /\ req' = [req EXCEPT ![r] = Idle]

\* Mutation of ReleaseLocks: the lock of the sequence outlives the transaction.
ReleaseDraftLocks(r) ==
  /\ draftLock' = [d \in Drafts |-> IF draftLock[d] = r THEN None ELSE draftLock[d]]
  /\ UNCHANGED sequenceLock

\* The end of a transaction releases the row locks it holds.
ReleaseLocks(r) ==
  /\ draftLock' = [d \in Drafts |-> IF draftLock[d] = r THEN None ELSE draftLock[d]]
  /\ sequenceLock' = IF sequenceLock = r THEN None ELSE sequenceLock

-----------------------------------------------------------------------------
(* Drafts.                                                                 *)

\* POST drafts/: a copy of the active payload, or of the starter payload.
CreateDraft(d) ==
  /\ drafts[d].status = "absent"
  /\ drafts' = [drafts EXCEPT ![d] =
       [status |-> "draft",
        data |-> IF versions = {} THEN StarterConfig ELSE Active.data]]
  /\ UNCHANGED <<versions, nextVersion, workflows, dashboards, locks, pc, req>>

\* Mutation of UpdateDraftRead: the status is not checked.
UpdateAnyRead(r, d, data) ==
  /\ pc[r] = "idle"
  /\ drafts[d].status # "absent"
  /\ Goto(r, "updating")
  /\ req' = [req EXCEPT ![r] = [Idle EXCEPT !.draft = d, !.data = data]]
  /\ UNCHANGED <<db, locks>>

\* PATCH drafts/<d>/: the row is read and its status checked without a lock.
UpdateDraftRead(r, d, data) ==
  /\ pc[r] = "idle"
  /\ drafts[d].status = "draft"
  /\ Goto(r, "updating")
  /\ req' = [req EXCEPT ![r] = [Idle EXCEPT !.draft = d, !.data = data]]
  /\ UNCHANGED <<db, locks>>

\* ... and save(update_fields=["data", ...]) writes the payload once no
\* transaction holds the row.
UpdateDraftSave(r) ==
  /\ pc[r] = "updating"
  /\ draftLock[req[r].draft] = None
  /\ drafts' = [drafts EXCEPT ![req[r].draft].data = req[r].data]
  /\ Done(r)
  /\ UNCHANGED <<versions, nextVersion, workflows, dashboards, locks>>

-----------------------------------------------------------------------------
(* Publication.                                                            *)

\* POST drafts/<d>/publish/: before the transaction, the view compares the
\* draft with the active configuration and turns a destructive draft away
\* unless the user is a system admin.
PublishCheckRole(r, d, confirm, system) ==
  /\ pc[r] = "idle"
  /\ drafts[d].status # "absent"
  /\ system \/ ~Breaks(drafts[d].data)
  /\ Goto(r, "publishing")
  /\ req' = [req EXCEPT ![r] =
               [Idle EXCEPT !.draft = d, !.confirm = confirm, !.system = system]]
  /\ UNCHANGED <<db, locks>>

\* publish_draft raises ConfigurationValidationError.
Publishable(r) ==
  LET draft == drafts[req[r].draft] IN
  /\ draft.status = "draft"
  /\ draft.data.valid
  /\ Breaks(draft.data) => req[r].confirm

\* Mutation of PublishLockDraft: a plain read instead of select_for_update.
PublishReadDraft(r) ==
  /\ pc[r] = "publishing"
  /\ \/ /\ Publishable(r)
        /\ req' = [req EXCEPT ![r].data = drafts[req[r].draft].data]
        /\ Goto(r, "checked")
     \/ /\ ~Publishable(r)
        /\ Done(r)
  /\ UNCHANGED <<db, locks>>

\* publish_draft locks the draft and re-reads it; the checks follow while no
\* other request can change the row.
PublishLockDraft(r) ==
  /\ pc[r] = "publishing"
  /\ draftLock[req[r].draft] = None
  /\ \/ /\ Publishable(r)
        /\ draftLock' = [draftLock EXCEPT ![req[r].draft] = r]
        /\ req' = [req EXCEPT ![r].data = drafts[req[r].draft].data]
        /\ Goto(r, "checked")
     \/ /\ ~Publishable(r)
        /\ Done(r)
        /\ UNCHANGED draftLock
  /\ UNCHANGED <<db, sequenceLock>>

\* _allocate_next_version: the sequence row is locked (or inserted) before it
\* is read, so the number is the one the last commit left.
PublishAllocateVersion(r) ==
  /\ pc[r] = "checked"
  /\ sequenceLock = None
  /\ sequenceLock' = r
  /\ req' = [req EXCEPT ![r].version = nextVersion]
  /\ Goto(r, "allocated")
  /\ UNCHANGED <<db, draftLock>>

\* _sync_runtime_models reads the committed rows and writes their replacement.
PublishSyncRuntime(r) ==
  /\ pc[r] = "allocated"
  /\ req' = [req EXCEPT
       ![r].workflows = SyncWorkflows(workflows, req[r].data, req[r].version),
       ![r].dashboards = SyncDashboards(dashboards, req[r].data, req[r].version)]
  /\ Goto(r, "synced")
  /\ UNCHANGED <<db, locks>>

\* The draft is marked published and the transaction commits.
PublishCommit(r) ==
  LET d == req[r].draft IN
  /\ pc[r] = "synced"
  /\ versions' = versions \cup
       {[version |-> req[r].version, data |-> req[r].data, draft |-> d,
         confirm |-> req[r].confirm, system |-> req[r].system]}
  /\ nextVersion' = req[r].version + 1
  /\ workflows' = req[r].workflows
  /\ dashboards' = req[r].dashboards
  /\ drafts' = [drafts EXCEPT ![d].status = "published"]
  /\ ReleaseLocks(r)
  /\ Done(r)

\* The process dies, the connection is lost, or a row of the new version
\* breaks a unique constraint (two transitions with one key, say).
PublishRollback(r) ==
  /\ pc[r] \in {"checked", "allocated", "synced"}
  /\ ReleaseLocks(r)
  /\ Done(r)
  /\ UNCHANGED db

-----------------------------------------------------------------------------
Publish(r) ==
  \/ PublishLockDraft(r)
  \/ PublishAllocateVersion(r)
  \/ PublishSyncRuntime(r)
  \/ PublishCommit(r)

Next ==
  \/ \E d \in Drafts : CreateDraft(d)
  \/ \E r \in Requests :
    \/ \E d \in Drafts, data \in Configs : UpdateDraftRead(r, d, data)
    \/ UpdateDraftSave(r)
    \/ \E d \in Drafts, confirm, system \in BOOLEAN : PublishCheckRole(r, d, confirm, system)
    \/ Publish(r)
    \/ PublishRollback(r)

Spec == Init /\ [][Next]_vars

\* A request that started keeps running, and PostgreSQL grants a row lock to
\* its waiters in turn.
Fairness ==
  \A r \in Requests :
    /\ SF_vars(PublishLockDraft(r) \/ UpdateDraftSave(r))
    /\ SF_vars(PublishAllocateVersion(r))
    /\ WF_vars(PublishSyncRuntime(r))
    /\ WF_vars(PublishCommit(r))

FairSpec == Spec /\ Fairness
-----------------------------------------------------------------------------
(* Properties.                                                             *)

TypeOK ==
  /\ drafts \in [Drafts -> DraftRow]
  /\ versions \in SUBSET Version
  /\ nextVersion \in Nat \ {0}
  /\ workflows \in [WorkflowKeys -> Row]
  /\ dashboards \in [DashboardKeys -> Row]
  /\ draftLock \in [Drafts -> Requests \cup {None}]
  /\ sequenceLock \in Requests \cup {None}
  /\ pc \in [Requests -> {"idle", "updating", "publishing", "checked", "allocated", "synced"}]
  /\ req \in [Requests -> Local]

\* Concurrent publishes never reuse or skip a version number, and a publish
\* that rolls back leaves no gap (_allocate_next_version, services.py 626-634).
VersionsContiguous ==
  /\ {v.version : v \in versions} = 1..(nextVersion - 1)
  /\ \A v, w \in versions : v.version = w.version => v = w

\* However many requests publish a draft, it becomes exactly one version, and
\* it is marked published exactly when that version exists (services.py 361-370).
PublishedOnce ==
  \A d \in Drafts :
    /\ drafts[d].status = "published" <=> \E v \in versions : v.draft = d
    /\ \A v, w \in versions : v.draft = d /\ w.draft = d => v = w

\* The rows a configuration version deploys at runtime, over the rows made by
\* publishes.
Deployed(rows, assigned, version) ==
  \A k \in DOMAIN rows :
    rows[k].state # "unmanaged" =>
      /\ rows[k].state = "active" <=> k \in DOMAIN assigned
      /\ rows[k].state = "active" =>
           rows[k].version = version /\ rows[k].definition = assigned[k]

\* The runtime workflows and dashboards are those of the active version, never
\* a mixture of two publishes (_sync_runtime_models, services.py 685-1003).
RuntimeMatchesActive ==
  versions # {} =>
    /\ Deployed(workflows, Active.data.workflows, Active.version)
    /\ Deployed(dashboards, Active.data.dashboards, Active.version)

InTransaction(r) == pc[r] \in {"checked", "allocated", "synced"}

\* What a publish relies on between its statements: the draft it checked is
\* still the draft it locked, the number it drew is still the next one, and
\* the runtime rows it computed are still based on the committed ones
\* (publish_draft, services.py 361-403).
TransactionInv ==
  \A r \in Requests :
    /\ pc[r] # "idle" => req[r].draft \in Drafts /\ drafts[req[r].draft].status # "absent"
    /\ InTransaction(r) =>
         /\ draftLock[req[r].draft] = r
         /\ drafts[req[r].draft] = [status |-> "draft", data |-> req[r].data]
    /\ pc[r] \in {"allocated", "synced"} =>
         sequenceLock = r /\ req[r].version = nextVersion
    /\ pc[r] = "synced" =>
         /\ req[r].workflows = SyncWorkflows(workflows, req[r].data, req[r].version)
         /\ req[r].dashboards = SyncDashboards(dashboards, req[r].data, req[r].version)

\* No row lock outlives its transaction (publish_draft and
\* _allocate_next_version, services.py 353-416, 626-634).
LocksAreHeld ==
  /\ \A d \in Drafts : draftLock[d] # None => InTransaction(draftLock[d]) /\ req[draftLock[d]].draft = d
  /\ sequenceLock # None => pc[sequenceLock] \in {"allocated", "synced"}

WaitsFor(q, r) ==
  \/ pc[q] \in {"publishing", "updating"} /\ draftLock[req[q].draft] = r
  \/ pc[q] = "checked" /\ sequenceLock = r

\* Requests never wait for each other in a circle: whoever holds the row that
\* the holder of another row waits for goes on without waiting (the draft is
\* locked before the sequence, services.py 361-366, 390, 626-634).
NoCircularWait ==
  \A q, r, s \in Requests : WaitsFor(q, r) /\ WaitsFor(r, s) => \A t \in Requests : ~WaitsFor(s, t)

\* Versions, drafts and runtime rows belong together, however many requests
\* publish, and between the statements of a publish as well; and the requests
\* never stand in each other's way for good.
RegistryIsConsistent ==
  /\ TypeOK /\ VersionsContiguous /\ PublishedOnce /\ RuntimeMatchesActive /\ TransactionInv
  /\ LocksAreHeld /\ NoCircularWait

VersionData(n) == (CHOOSE v \in versions : v.version = n).data

\* The published history and the running workflows, as a user sees them.
History == INSTANCE ConfigHistory WITH
  ManagedKeys <- WorkflowKeys \ HandMade,
  history <- [n \in 1..(nextVersion - 1) |-> VersionData(n)],
  running <- [k \in WorkflowKeys \ HandMade |->
                IF workflows[k].state = "active" THEN workflows[k].definition ELSE None]

\* Despite its steps and its rivals, every publish takes effect at one moment,
\* appending to the history and switching the running workflows together
\* (publish_draft, services.py 353-416).
PublishIsAtomic == History!Spec

\* A draft that is published and that no request is about to write.
Settled(d) ==
  drafts[d].status = "published" /\ \A r \in Requests : ~(pc[r] = "updating" /\ req[r].draft = d)

\* A published draft is final once the updates that read it before have been
\* saved: the status they check is the one of a row read without a lock
\* (update_config_draft, views.py 103-116), so until then it may still change.
PublishedDraftsAreFinal == [][\A d \in Drafts : Settled(d) => Settled(d)' /\ drafts'[d] = drafts[d]]_vars

\* What was published is published as a whole and for good.
PublicationIsFinal == PublishIsAtomic /\ PublishedDraftsAreFinal

\* A request that has begun to update or publish a draft comes to an end.
RequestsEnd == \A r \in Requests : pc[r] # "idle" ~> pc[r] = "idle"

-----------------------------------------------------------------------------
(* What the repository says and the code does not keep.                    *)

DestructiveStep(v, w) ==
  /\ w.version = v.version + 1
  /\ Destructive(v.data.object_types, w.data.object_types)

\* admin-guide.md:141 "Destructive schema changes require System Admin approval
\* and an explicit publish confirmation.": so was every version that breaks the
\* one before it.
BreakingChangesApproved ==
  \A v, w \in versions : DestructiveStep(v, w) => w.system /\ w.confirm
=============================================================================
