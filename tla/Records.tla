------------------------------- MODULE Records -------------------------------
(***************************************************************************)
(* Records: creation, partial update and release over HTTP                 *)
(* (apps/records/serializers.py, views.py, codes.py), while configurations *)
(* are published and project updates write into project records            *)
(* (apps/projects/services.py).                                            *)
(*                                                                         *)
(* A request reads its row and the active configuration, some of it twice, *)
(* before it opens a transaction.  Creations and updates of one object     *)
(* type then wait for each other on the lock row of the type; a release    *)
(* takes no lock and runs in no transaction.  A publish is one step here,  *)
(* which ConfigRegistry shows it to be (PublishIsAtomic).                  *)
(***************************************************************************)
EXTENDS RecordValidation, Sequences, Naturals

CONSTANTS
  Requests,      \* concurrent HTTP requests
  RecordIds,     \* primary keys of records
  Patterns,      \* code patterns, the year filled in
  ManualCodes,   \* codes an administrator may give a record
  NoCode,        \* a creation that leaves the code to the sequence
  Payloads,      \* the data objects clients send
  Absent,        \* stands for a key that a payload leaves out
  Configs,       \* configurations that may be published
  FirstConfig,   \* the one that is active at the start
  ProjectType,   \* the object type of project records
  SyncedFields,  \* the fields a project update writes into its record
  MaxVersions,   \* bound on the number of published configurations
  None           \* no record, the holder of a free lock

Config == [object_types : Schema, code_pattern : [ObjectTypes -> Patterns]]

\* A data object that leaves out the keys that are Absent.
Payload == [FieldKeys -> Values \cup {Absent}]

\* A rendered code: the pattern and the number of the sequence.
Codes == (Patterns \X Nat) \cup ManualCodes

ASSUME InputAssumption ==
  /\ Payloads \subseteq Payload
  /\ Configs \subseteq Config
  /\ FirstConfig \in Configs
  /\ MaxVersions \in Nat
  /\ SyncedFields \subseteq FieldKeys

VARIABLES
  versions,   \* the published configurations
  records,    \* the Record rows
  sequences,  \* next_value of the CodeSequence of each type and pattern
  typeLock,   \* holder of the RecordObjectTypeLock row of each type
  pc,         \* where each request stands
  req         \* the local variables of each request

vars == <<versions, records, sequences, typeLock, pc, req>>

-----------------------------------------------------------------------------
(* Rows.                                                                   *)

\* generated is no column: it tells a code drawn from the sequence from one
\* that an administrator gave.
Record == [object_type : ObjectTypes, code : Codes, generated : BOOLEAN,
           status : {"draft", "released"}, version : Nat, data : Data]

ASSUME NamesAssumption ==
  /\ None \notin Requests \cup RecordIds \cup Record
  /\ NoCode \notin Codes
  /\ Absent \notin Values

Scopes == ObjectTypes \X Patterns

\* The local variables of a request: row is the instance as it was read, data
\* the merged data to store, version the number of the configuration that the
\* record will be stamped with.
Local == [op : {"none", "create", "update", "release"}, id : RecordIds \cup {None},
          row : Record \cup {None}, object_type : ObjectTypes \cup {None},
          payload : Payload, data : Data \cup {None}, code : Codes \cup {NoCode},
          generated : BOOLEAN, version : Nat]

EmptyPayload == [f \in FieldKeys |-> Absent]

Sent(payload) == {f \in FieldKeys : payload[f] # Absent}

Idle == [op |-> "none", id |-> None, row |-> None, object_type |-> None,
         payload |-> EmptyPayload, data |-> None, code |-> NoCode,
         generated |-> FALSE, version |-> 0]

Stored == {i \in RecordIds : records[i] # None}

Active == versions[Len(versions)]

\* Mutation of Merge: fields that were not sent are cleared.
Replace(data, payload) ==
  [f \in FieldKeys |-> IF f \in Sent(payload) THEN payload[f] ELSE Blank]

\* data.update(payload)
Merge(data, payload) ==
  [f \in FieldKeys |-> IF f \in Sent(payload) THEN payload[f] ELSE data[f]]

NewData(payload) == Merge([f \in FieldKeys |-> Blank], payload)

OtherData(type, id) ==
  {records[i].data : i \in {j \in Stored \ {id} : records[j].object_type = type}}

\* validate_record_data reads the active configuration and the other records.
Validates(type, data, id) ==
  /\ type \in DOMAIN Active.object_types
  /\ ValidRecordData(Active.object_types[type], data, OtherData(type, id))

-----------------------------------------------------------------------------
Init ==
  /\ versions = <<FirstConfig>>
  /\ records = [i \in RecordIds |-> None]
  /\ sequences = [s \in Scopes |-> 1]
  /\ typeLock = [t \in ObjectTypes |-> None]
  /\ pc = [r \in Requests |-> "idle"]
  /\ req = [r \in Requests |-> Idle]

Goto(r, label) == pc' = [pc EXCEPT ![r] = label]

Done(r) == Goto(r, "idle") /\ req' = [req EXCEPT ![r] = Idle]

Release(r) == typeLock' = [t \in ObjectTypes |-> IF typeLock[t] = r THEN None ELSE typeLock[t]]

Used(code) == \E i \in Stored : records[i].code = code

-----------------------------------------------------------------------------
(* Other parts of the system.                                              *)

PublishConfig(config) ==
  /\ Len(versions) < MaxVersions
  /\ versions' = Append(versions, config)
  /\ UNCHANGED <<records, sequences, typeLock, pc, req>>

\* update_project reads the project and its record under their row locks and
\* writes the record's data in the same transaction.  It validates nothing.
ProjectSync(i, data) ==
  /\ i \in Stored
  /\ records[i].object_type = ProjectType
  /\ records' = [records EXCEPT ![i].data =
       [f \in FieldKeys |-> IF f \in SyncedFields THEN data[f] ELSE records[i].data[f]]]
  /\ UNCHANGED <<versions, sequences, typeLock, pc, req>>

-----------------------------------------------------------------------------
(* The requests.                                                           *)

\* POST records/.  The unique validator of the code field and the definition
\* of the type are read here.
CreateStart(r, type, payload, code) ==
  /\ pc[r] = "idle"
  /\ type \in DOMAIN Active.object_types
  /\ ~Used(code)
  /\ Goto(r, "defined")
  /\ req' = [req EXCEPT ![r] =
       [Idle EXCEPT !.op = "create", !.object_type = type, !.payload = payload,
                    !.data = NewData(payload), !.code = code, !.version = Len(versions)]]
  /\ UNCHANGED <<versions, records, sequences, typeLock>>

\* PATCH records/<i>/ and POST records/<i>/release/: get_object.
ReadRow(r, op, i, payload) ==
  /\ pc[r] = "idle"
  /\ i \in Stored
  /\ Goto(r, "read")
  /\ req' = [req EXCEPT ![r] =
       [Idle EXCEPT !.op = op, !.id = i, !.row = records[i],
                    !.object_type = records[i].object_type, !.payload = payload,
                    !.data = Merge(records[i].data, payload)]]
  /\ UNCHANGED <<versions, records, sequences, typeLock>>

UpdateStart(r, i, payload) == ReadRow(r, "update", i, payload)

ReleaseStart(r, i) == ReadRow(r, "release", i, EmptyPayload)

\* get_object_type_definition: its configuration gives the version to stamp.
ReadDefinition(r) ==
  /\ pc[r] = "read"
  /\ IF req[r].object_type \in DOMAIN Active.object_types
     THEN /\ Goto(r, "defined")
          /\ req' = [req EXCEPT ![r].version = Len(versions)]
     ELSE Done(r)
  /\ UNCHANGED <<versions, records, sequences, typeLock>>

\* validate_record_data, before any lock, reads the configuration again.
Validate(r) ==
  /\ pc[r] = "defined"
  /\ IF Validates(req[r].object_type, req[r].data, req[r].id)
     THEN Goto(r, "validated") /\ UNCHANGED req
     ELSE Done(r)
  /\ UNCHANGED <<versions, records, sequences, typeLock>>

\* generate_record_code, with the pattern of the definition read first.  The
\* row of the sequence needs no lock of its own in the model: only creations of
\* the type, which hold the lock of the type, draw from it.
Pattern(r) == versions[req[r].version].code_pattern[req[r].object_type]

DrawnCode(r) == <<Pattern(r), sequences[<<req[r].object_type, Pattern(r)>>]>>

\* Mutation of LockAndValidate: the lock of the type is neither awaited nor taken.
ValidateUnlocked(r) ==
  LET draws == req[r].op = "create" /\ req[r].code = NoCode IN
  /\ pc[r] = "validated"
  /\ req[r].op \in {"create", "update"}
  /\ IF Validates(req[r].object_type, req[r].data, req[r].id)
     THEN /\ Goto(r, "locked")
          /\ req' = IF draws THEN [req EXCEPT ![r].code = DrawnCode(r), ![r].generated = TRUE]
                    ELSE req
     ELSE Done(r)
  /\ UNCHANGED <<versions, records, sequences, typeLock>>

\* create() and update() open the transaction, wait for the lock of the type
\* and validate again; create() then draws the code.
LockAndValidate(r) ==
  LET type == req[r].object_type
      draws == req[r].op = "create" /\ req[r].code = NoCode
  IN
  /\ pc[r] = "validated"
  /\ req[r].op \in {"create", "update"}
  /\ typeLock[type] = None
  /\ IF Validates(type, req[r].data, req[r].id)
     THEN /\ typeLock' = [typeLock EXCEPT ![type] = r]
          /\ Goto(r, "locked")
          /\ req' = IF draws THEN [req EXCEPT ![r].code = DrawnCode(r), ![r].generated = TRUE]
                    ELSE req
     ELSE Done(r) /\ UNCHANGED typeLock
  /\ UNCHANGED <<versions, records, sequences>>

\* The insert, and the commit with the new value of the sequence.
CreateCommit(r, i) ==
  /\ pc[r] = "locked"
  /\ req[r].op = "create"
  /\ i \notin Stored
  /\ ~Used(req[r].code)
  /\ records' = [records EXCEPT ![i] =
       [object_type |-> req[r].object_type, code |-> req[r].code,
        generated |-> req[r].generated, status |-> "draft",
        version |-> req[r].version, data |-> req[r].data]]
  /\ sequences' = IF req[r].generated
                  THEN [sequences EXCEPT ![<<req[r].object_type, Pattern(r)>>] = @ + 1]
                  ELSE sequences
  /\ Release(r)
  /\ Done(r)
  /\ UNCHANGED versions

\* Mutation of UpdateCommit: the version stamped is the one active at the commit.
UpdateRestamped(r) ==
  /\ pc[r] = "locked"
  /\ req[r].op = "update"
  /\ records' = [records EXCEPT ![req[r].id] =
       [req[r].row EXCEPT !.data = req[r].data, !.version = Len(versions)]]
  /\ Release(r)
  /\ Done(r)
  /\ UNCHANGED <<versions, sequences>>

\* instance.save() writes every column of the instance that was read, the new
\* data and the version.
UpdateCommit(r) ==
  /\ pc[r] = "locked"
  /\ req[r].op = "update"
  /\ records' = [records EXCEPT ![req[r].id] =
       [req[r].row EXCEPT !.data = req[r].data, !.version = req[r].version]]
  /\ Release(r)
  /\ Done(r)
  /\ UNCHANGED <<versions, sequences>>

\* The code is taken (IntegrityError), or the process dies.
Rollback(r) ==
  /\ pc[r] = "locked"
  /\ Release(r)
  /\ Done(r)
  /\ UNCHANGED <<versions, records, sequences>>

\* release saves status and schema_version only.
ReleaseSave(r) ==
  /\ pc[r] = "validated"
  /\ req[r].op = "release"
  /\ records' = [records EXCEPT ![req[r].id].status = "released",
                                ![req[r].id].version = req[r].version]
  /\ Done(r)
  /\ UNCHANGED <<versions, sequences, typeLock>>

-----------------------------------------------------------------------------
Create(r) ==
  \/ \E type \in ObjectTypes, payload \in Payloads, code \in ManualCodes \cup {NoCode} :
       CreateStart(r, type, payload, code)
  \/ \E i \in RecordIds : CreateCommit(r, i)

Change(r) ==
  \/ \E i \in RecordIds :
       ReleaseStart(r, i) \/ \E payload \in Payloads : UpdateStart(r, i, payload)
  \/ ReadDefinition(r)
  \/ UpdateCommit(r)
  \/ ReleaseSave(r)

Next ==
  \/ \E config \in Configs : PublishConfig(config)
  \/ \E i \in RecordIds, payload \in Payloads : ProjectSync(i, NewData(payload))
  \/ \E r \in Requests :
       Create(r) \/ Change(r) \/ Validate(r) \/ LockAndValidate(r) \/ Rollback(r)

Spec == Init /\ [][Next]_vars
-----------------------------------------------------------------------------
(* Properties.                                                             *)

TypeOK ==
  /\ versions \in Seq(Configs)
  /\ records \in [RecordIds -> Record \cup {None}]
  /\ sequences \in [Scopes -> Nat \ {0}]
  /\ typeLock \in [ObjectTypes -> Requests \cup {None}]
  /\ pc \in [Requests -> {"idle", "read", "defined", "validated", "locked"}]
  /\ req \in [Requests -> Local]

\* Fields that all of the configurations declare unique in the type.
AlwaysUnique(configs, type) ==
  {f \in FieldKeys :
     \A n \in 1..Len(configs) :
       LET types == configs[n].object_types IN
       type \in DOMAIN types => f \in DOMAIN types[type] /\ types[type][f].unique}

\* A project update may write these without a check.
Checked(type) == IF type = ProjectType THEN FieldKeys \ SyncedFields ELSE FieldKeys

\* Two records of a type never hold the same value in a field that has always
\* been unique, whichever requests write at the same time
\* (_lock_records_for_dynamic_unique_fields, serializers.py 199-203).
UniqueValues ==
  \A i, j \in Stored :
    LET type == records[i].object_type IN
    records[j].object_type = type /\ i # j =>
      \A f \in AlwaysUnique(versions, type) \cap Checked(type) :
        IsBlank(records[i].data[f]) \/ records[i].data[f] # records[j].data[f]

\* The code a creation has drawn was drawn by no other record of the type: it
\* can only be taken by a manual code or by a type with the same pattern
\* (generate_record_code, codes.py 44-58).
GeneratedCodesFresh ==
  \A i \in Stored :
    records[i].generated =>
      /\ \A r \in Requests :
           pc[r] = "locked" /\ req[r].generated /\ req[r].object_type = records[i].object_type
             => req[r].code # records[i].code
      /\ records[i].code[2] < sequences[<<records[i].object_type, records[i].code[1]>>]

\* Whatever requests write at the same time, no record has a unique value or a
\* generated code of another one.
RecordsAreConsistent == TypeOK /\ UniqueValues /\ GeneratedCodesFresh

Accepts(config, type, data) ==
  /\ type \in DOMAIN config.object_types
  /\ \A f \in DOMAIN config.object_types[type] :
       FieldAccepts(config.object_types[type][f], data[f])

\* The data of a record was accepted by a configuration that was active at the
\* time, for a draft by the one it is stamped with or a later one
\* (serializers.py 109, 141; views.py 97).
AcceptedByConfig ==
  \A i \in Stored :
    records[i].object_type # ProjectType =>
      \E n \in 1..Len(versions) :
        /\ records[i].status = "draft" => records[i].version <= n
        /\ Accepts(versions[n], records[i].object_type, records[i].data)

\* An update of a row that nobody has written since it was read leaves a
\* release and the fields that were not sent alone; only an update that
\* overlaps another write may undo it (serializers.py 88-162 reads the row
\* before the lock and saves every column).
UndoneByOverlapOnly ==
  [][\A r \in Requests :
       LET i == req[r].id IN
       pc[r] = "locked" /\ pc'[r] = "idle" /\ req[r].op = "update" /\ req[r].row = records[i] =>
         /\ records[i].status = "released" => records'[i].status = "released"
         /\ \A f \in FieldKeys \ Sent(req[r].payload) : records'[i].data[f] = records[i].data[f]]_vars
=============================================================================
