---------------------------- MODULE RecordsProofs ----------------------------
(***************************************************************************)
(* For any number of requests, records, types and configurations: the      *)
(* unique fields of the stored records stay unique, generated codes are    *)
(* fresh, stored data was accepted by a published configuration, and only  *)
(* requests that overlap undo what others wrote.                           *)
(***************************************************************************)
EXTENDS Records, SequenceTheorems, TLAPS

SameIdentity(a, b) ==
  a.object_type = b.object_type /\ a.code = b.code /\ a.generated = b.generated

\* What a request knows between its steps.
RequestOK(r) ==
  /\ pc[r] # "idle" => /\ req[r].op # "none"
                       /\ req[r].object_type \in ObjectTypes
                       /\ req[r].data \in Data
  /\ req[r].op = "create" => req[r].id = None
  /\ pc[r] = "read" => req[r].op \in {"update", "release"}
  /\ req[r].op \in {"update", "release"} =>
       /\ req[r].id \in Stored
       /\ req[r].row \in Record
       /\ SameIdentity(req[r].row, records[req[r].id])
       /\ req[r].object_type = req[r].row.object_type
  /\ pc[r] \in {"defined", "validated", "locked"} => req[r].version \in 1..Len(versions)
  /\ pc[r] = "locked" => /\ req[r].op \in {"create", "update"}
                         /\ typeLock[req[r].object_type] = r
  /\ pc[r] = "locked" /\ req[r].op = "create" => req[r].code \in Codes
  /\ req[r].generated =>
       pc[r] = "locked" /\ req[r].op = "create" /\ req[r].code = DrawnCode(r)

\* The data a request is about to commit clashes with no record.
ClashFree(configs, rows, type, data, id) ==
  \A f \in AlwaysUnique(configs, type) \cap Checked(type), i \in RecordIds \ {id} :
    rows[i] # None /\ rows[i].object_type = type =>
      IsBlank(data[f]) \/ rows[i].data[f] # data[f]

LockedUnique(r) ==
  pc[r] = "locked" =>
    ClashFree(versions, records, req[r].object_type, req[r].data, req[r].id)

RequestAccepted(r) ==
  pc[r] \in {"validated", "locked"} =>
    \E n \in req[r].version..Len(versions) :
      Accepts(versions[n], req[r].object_type, req[r].data)

\* The numbers of generated codes are behind the sequence.
GeneratedBelow ==
  \A i \in Stored :
    records[i].generated =>
      /\ records[i].code \in Patterns \X Nat
      /\ records[i].code[2] < sequences[<<records[i].object_type, records[i].code[1]>>]

IInv ==
  /\ TypeOK
  /\ versions # <<>>
  /\ UniqueValues
  /\ GeneratedBelow
  /\ AcceptedByConfig
  /\ \A r \in Requests : RequestOK(r) /\ LockedUnique(r) /\ RequestAccepted(r)

-----------------------------------------------------------------------------
(* Operators.                                                              *)

\* The locals of a request that rests are locals.
LEMMA IdleLocal == Idle \in Local
BY DEF Idle, Local, EmptyPayload, Payload

\* data.update with a payload of the client gives data again.
LEMMA MergeData ==
  ASSUME NEW data \in Data, NEW payload \in Payload
  PROVE  Merge(data, payload) \in Data
BY DEF Merge, Data, Payload, Sent

\* A created record has data.
LEMMA NewDataData ==
  ASSUME NEW payload \in Payload
  PROVE  NewData(payload) \in Data
<1>1. [f \in FieldKeys |-> Blank] \in Data
  BY DEF Data, Values
<1> QED
  BY <1>1, MergeData DEF NewData

\* Valid data is accepted field by field.
LEMMA ValidAccepts ==
  ASSUME NEW config, NEW type \in DOMAIN config.object_types, NEW data, NEW others,
         ValidRecordData(config.object_types[type], data, others)
  PROVE  Accepts(config, type, data)
BY DEF ValidRecordData, ValidField, Accepts

\* The configuration drawn on by a request gives a pattern.
LEMMA PatternTyped ==
  ASSUME TypeOK, NEW n \in 1..Len(versions), NEW t \in ObjectTypes
  PROVE  versions[n].code_pattern[t] \in Patterns
<1>1. versions[n] \in Configs
  BY DEF TypeOK
<1> QED
  BY <1>1, InputAssumption DEF Config

-----------------------------------------------------------------------------
(* A step that changes nothing but the place and locals of one request.    *)

\* Only one request moved, and it knows what the invariant asks of it.
LEMMA QuietStep ==
  ASSUME IInv, NEW r \in Requests,
         UNCHANGED <<versions, records, sequences, typeLock>>,
         \A s \in Requests \ {r} : pc'[s] = pc[s] /\ req'[s] = req[s],
         TypeOK', RequestOK(r)', LockedUnique(r)', RequestAccepted(r)'
  PROVE  IInv'
<1>1. (versions # <<>>)' /\ UniqueValues' /\ GeneratedBelow' /\ AcceptedByConfig'
  BY DEF IInv, UniqueValues, GeneratedBelow, AcceptedByConfig, Stored, AlwaysUnique
<1>2. ASSUME NEW s \in Requests \ {r}
      PROVE  RequestOK(s)' /\ LockedUnique(s)' /\ RequestAccepted(s)'
  <2>1. RequestOK(s) /\ LockedUnique(s) /\ RequestAccepted(s)
    BY DEF IInv
  <2>2. RequestOK(s)'
    BY <2>1 DEF RequestOK, Stored, DrawnCode, Pattern
  <2>3. LockedUnique(s)'
    BY <2>1 DEF LockedUnique
  <2>4. RequestAccepted(s)'
    BY <2>1 DEF RequestAccepted
  <2> QED
    BY <2>2, <2>3, <2>4
<1> QED
  BY <1>1, <1>2 DEF IInv

\* A request that ends without a write.
LEMMA DoneStep ==
  ASSUME IInv, NEW r \in Requests, Done(r),
         UNCHANGED <<versions, records, sequences, typeLock>>
  PROVE  IInv'
<1>1. TypeOK'
  BY IdleLocal DEF IInv, TypeOK, Done, Goto
<1>2. pc'[r] = "idle" /\ req'[r] = Idle
  BY DEF Done, Goto, IInv, TypeOK
<1>3. RequestOK(r)' /\ LockedUnique(r)' /\ RequestAccepted(r)'
  BY <1>2 DEF RequestOK, LockedUnique, RequestAccepted, Idle
<1>4. \A s \in Requests \ {r} : pc'[s] = pc[s] /\ req'[s] = req[s]
  BY DEF Done, Goto, IInv, TypeOK
<1> QED
  BY <1>1, <1>3, <1>4, QuietStep

\* A creation reads the definition of its type (serializers.py, create).
LEMMA CreateStartStep ==
  ASSUME IInv, NEW r \in Requests, NEW type \in ObjectTypes, NEW payload \in Payloads,
         NEW code \in ManualCodes \cup {NoCode}, CreateStart(r, type, payload, code)
  PROVE  IInv'
<1>0. payload \in Payload /\ NewData(payload) \in Data
  BY InputAssumption, NewDataData
<1> DEFINE L == [Idle EXCEPT !.op = "create", !.object_type = type, !.payload = payload,
                    !.data = NewData(payload), !.code = code, !.version = Len(versions)]
<1>1. L \in Local
  <2>1. Len(versions) \in Nat
    BY DEF IInv, TypeOK
  <2> QED
    BY <1>0, <2>1, IdleLocal DEF Local, Codes
<1>2. pc'[r] = "defined" /\ req'[r] = L
  BY DEF CreateStart, Goto, IInv, TypeOK
<1>3. L.op = "create" /\ L.id = None /\ L.object_type = type /\ L.data = NewData(payload)
      /\ L.generated = FALSE /\ L.version = Len(versions)
  BY DEF Idle
<1> HIDE DEF L
<1>4. TypeOK'
  BY <1>1 DEF IInv, TypeOK, CreateStart, Goto, L
<1>5. RequestOK(r)'
  <2>1. Len(versions) \in 1..Len(versions) /\ versions' = versions
    BY EmptySeq, LenProperties DEF IInv, TypeOK, CreateStart
  <2> QED
    BY <1>0, <1>2, <1>3, <2>1 DEF RequestOK
<1>6. LockedUnique(r)' /\ RequestAccepted(r)'
  BY <1>2 DEF LockedUnique, RequestAccepted
<1>7. \A s \in Requests \ {r} : pc'[s] = pc[s] /\ req'[s] = req[s]
  BY DEF CreateStart, Goto, IInv, TypeOK
<1> QED
  BY <1>4, <1>5, <1>6, <1>7, QuietStep DEF CreateStart

\* An update or a release reads its row (get_object).
LEMMA ReadRowStep ==
  ASSUME IInv, NEW r \in Requests, NEW op \in {"update", "release"},
         NEW i \in RecordIds, NEW payload \in Payload, ReadRow(r, op, i, payload)
  PROVE  IInv'
<1> DEFINE L == [Idle EXCEPT !.op = op, !.id = i, !.row = records[i],
                    !.object_type = records[i].object_type, !.payload = payload,
                    !.data = Merge(records[i].data, payload)]
<1>0. i \in Stored /\ records[i] \in Record
  BY DEF ReadRow, Stored, IInv, TypeOK
<1>a. Merge(records[i].data, payload) \in Data /\ records[i].object_type \in ObjectTypes
  BY <1>0, MergeData DEF Record
<1>1. L \in Local
  BY <1>0, <1>a, IdleLocal DEF Local
<1>2. pc'[r] = "read" /\ req'[r] = L
  BY DEF ReadRow, Goto, IInv, TypeOK
<1>3. L.op = op /\ L.id = i /\ L.row = records[i] /\ L.object_type = records[i].object_type
      /\ L.data = Merge(records[i].data, payload) /\ L.generated = FALSE
  BY DEF Idle
<1> HIDE DEF L
<1>4. TypeOK'
  BY <1>1 DEF IInv, TypeOK, ReadRow, Goto, L
<1>5. RequestOK(r)'
  <2>1. Stored' = Stored /\ records' = records
    BY DEF ReadRow, Stored
  <2> QED
    BY <1>0, <1>a, <1>2, <1>3, <2>1 DEF RequestOK, SameIdentity
<1>6. LockedUnique(r)' /\ RequestAccepted(r)'
  BY <1>2 DEF LockedUnique, RequestAccepted
<1>7. \A s \in Requests \ {r} : pc'[s] = pc[s] /\ req'[s] = req[s]
  BY DEF ReadRow, Goto, IInv, TypeOK
<1> QED
  BY <1>4, <1>5, <1>6, <1>7, QuietStep DEF ReadRow

\* It reads the definition of the type, which gives the version to stamp.
LEMMA ReadDefinitionStep ==
  ASSUME IInv, NEW r \in Requests, ReadDefinition(r)
  PROVE  IInv'
<1>1. CASE Done(r)
  BY <1>1, DoneStep DEF ReadDefinition
<1>2. CASE ~Done(r)
  <2>0. Goto(r, "defined") /\ req' = [req EXCEPT ![r].version = Len(versions)]
    BY <1>2 DEF ReadDefinition
  <2>a. pc'[r] = "defined" /\ req'[r] = [req[r] EXCEPT !.version = Len(versions)]
        /\ req[r] \in Local /\ Len(versions) \in Nat
    BY <2>0 DEF Goto, IInv, TypeOK
  <2>1. pc'[r] = "defined" /\ req'[r] = [req[r] EXCEPT !.version = Len(versions)]
        /\ req[r] \in Local /\ req'[r] \in Local
    BY <2>a DEF Local
  <2>2. Len(versions) \in 1..Len(versions) /\ versions' = versions
    BY EmptySeq, LenProperties DEF IInv, TypeOK, ReadDefinition
  <2>3. TypeOK'
    BY <2>0, <2>1 DEF IInv, TypeOK, ReadDefinition, Goto
  <2>4. RequestOK(r)'
    <3>1. RequestOK(r) /\ pc[r] = "read"
      BY DEF IInv, ReadDefinition
    <3>2. req'[r].version = Len(versions) /\ req'[r].op = req[r].op /\ req'[r].id = req[r].id
          /\ req'[r].row = req[r].row /\ req'[r].object_type = req[r].object_type
          /\ req'[r].data = req[r].data /\ req'[r].generated = req[r].generated
      BY <2>1 DEF Local
    <3> QED
      BY <2>1, <2>2, <3>1, <3>2 DEF RequestOK, SameIdentity, Stored, ReadDefinition
  <2>5. LockedUnique(r)' /\ RequestAccepted(r)'
    BY <2>1 DEF LockedUnique, RequestAccepted
  <2>6. \A s \in Requests \ {r} : pc'[s] = pc[s] /\ req'[s] = req[s]
    BY <2>0 DEF Goto, IInv, TypeOK
  <2> QED
    BY <2>3, <2>4, <2>5, <2>6, QuietStep DEF ReadDefinition
<1> QED
  BY <1>1, <1>2

\* The validation before the lock: the data is accepted by the active version.
LEMMA ValidateStep ==
  ASSUME IInv, NEW r \in Requests, Validate(r)
  PROVE  IInv'
<1>1. CASE Done(r)
  BY <1>1, DoneStep DEF Validate
<1>2. CASE ~Done(r)
  <2>0. Goto(r, "validated") /\ req' = req
        /\ Validates(req[r].object_type, req[r].data, req[r].id)
    BY <1>2 DEF Validate
  <2>1. pc'[r] = "validated"
    BY <2>0 DEF Goto, IInv, TypeOK
  <2>2. RequestOK(r) /\ pc[r] = "defined"
    BY DEF IInv, Validate
  <2>3. TypeOK'
    BY <2>0 DEF IInv, TypeOK, Validate, Goto
  <2>4. RequestOK(r)'
    BY <2>0, <2>1, <2>2 DEF RequestOK, SameIdentity, Stored, Validate
  <2>5. RequestAccepted(r)'
    <3>1. Accepts(Active, req[r].object_type, req[r].data)
      BY <2>0, ValidAccepts DEF Validates
    <3>2. Len(versions) \in req[r].version..Len(versions)
      BY <2>2 DEF RequestOK, IInv, TypeOK
    <3> QED
      BY <2>0, <3>1, <3>2 DEF RequestAccepted, Active, Validate
  <2>6. LockedUnique(r)'
    BY <2>1 DEF LockedUnique
  <2>7. \A s \in Requests \ {r} : pc'[s] = pc[s] /\ req'[s] = req[s]
    BY <2>0 DEF Goto, IInv, TypeOK
  <2> QED
    BY <2>3, <2>4, <2>5, <2>6, <2>7, QuietStep DEF Validate
<1> QED
  BY <1>1, <1>2

-----------------------------------------------------------------------------
(* Locking.                                                                *)

\* Data validated against the other records clashes with none of them in a
\* field that has always been unique.
LEMMA ValidatedUnique ==
  ASSUME IInv, NEW type, NEW data, NEW id, Validates(type, data, id),
         NEW f \in AlwaysUnique(versions, type), ~IsBlank(data[f]),
         NEW i \in Stored \ {id}, records[i].object_type = type
  PROVE  records[i].data[f] # data[f]
<1>1. Len(versions) \in 1..Len(versions)
  BY EmptySeq, LenProperties DEF IInv, TypeOK
<1>2. f \in DOMAIN Active.object_types[type] /\ Active.object_types[type][f].unique
  BY <1>1 DEF AlwaysUnique, Active, Validates
<1>3. ~DuplicateUniqueValue(f, data[f], OtherData(type, id))
  BY <1>2 DEF Validates, ValidRecordData, ValidField
<1> QED
  BY <1>3 DEF DuplicateUniqueValue, OtherData

\* The lock of the type is taken and the data validated again: from here on no
\* other creation or update of the type can make it a duplicate.
LEMMA LockAndValidateStep ==
  ASSUME IInv, NEW r \in Requests, LockAndValidate(r)
  PROVE  IInv'
<1> DEFINE type == req[r].object_type
           draws == req[r].op = "create" /\ req[r].code = NoCode
<1>0. RequestOK(r) /\ pc[r] = "validated" /\ type \in ObjectTypes /\ r # None
  BY NamesAssumption DEF IInv, LockAndValidate, RequestOK
<1>1. CASE ~Validates(type, req[r].data, req[r].id)
  <2>1. Done(r) /\ UNCHANGED <<versions, records, sequences, typeLock>>
    BY <1>1 DEF LockAndValidate
  <2> QED
    BY <2>1, DoneStep
<1>2. CASE Validates(type, req[r].data, req[r].id)
  <2>1. /\ typeLock[type] = None
        /\ typeLock' = [typeLock EXCEPT ![type] = r]
        /\ Goto(r, "locked")
        /\ req' = IF draws THEN [req EXCEPT ![r].code = DrawnCode(r), ![r].generated = TRUE]
                  ELSE req
        /\ req[r].op \in {"create", "update"}
        /\ UNCHANGED <<versions, records, sequences>>
    BY <1>2 DEF LockAndValidate
  <2>2. pc'[r] = "locked" /\ typeLock'[type] = r /\ req[r] \in Local
    BY <1>0, <2>1 DEF Goto, IInv, TypeOK
  <2>3. \A s \in Requests \ {r} : pc'[s] = pc[s] /\ req'[s] = req[s]
    BY <2>1 DEF Goto, IInv, TypeOK
  <2>4. DrawnCode(r) \in Codes
    <3>1. Pattern(r) \in Patterns
      BY <1>0, PatternTyped DEF Pattern, RequestOK, IInv
    <3>2. sequences[<<type, Pattern(r)>>] \in Nat
      BY <1>0, <3>1 DEF IInv, TypeOK, Scopes
    <3> QED
      BY <3>1, <3>2 DEF DrawnCode, Codes
  <2>5. /\ req'[r] \in Local
        /\ req'[r].op = req[r].op /\ req'[r].id = req[r].id /\ req'[r].row = req[r].row
        /\ req'[r].object_type = type /\ req'[r].data = req[r].data
        /\ req'[r].version = req[r].version
        /\ req'[r].code = IF draws THEN DrawnCode(r) ELSE req[r].code
        /\ req'[r].generated = draws
    <3>1. req[r].generated = FALSE
      BY <1>0, <2>2 DEF RequestOK, Local
    <3>2. CASE draws
      <4>1. req'[r] = [req[r] EXCEPT !.code = DrawnCode(r), !.generated = TRUE]
        BY <2>1, <3>2 DEF IInv, TypeOK
      <4> QED
        BY <2>2, <2>4, <3>2, <4>1 DEF Local
    <3>3. CASE ~draws
      <4>1. req' = req
        BY <2>1, <3>3
      <4> QED
        BY <2>2, <3>1, <3>3, <4>1
    <3> QED
      BY <3>2, <3>3
  <2>6. TypeOK'
    <3>1. req' \in [Requests -> Local]
      BY <2>1, <2>5 DEF IInv, TypeOK
    <3>2. typeLock' \in [ObjectTypes -> Requests \cup {None}]
      BY <1>0, <2>1 DEF IInv, TypeOK
    <3> QED
      BY <2>1, <3>1, <3>2 DEF IInv, TypeOK, Goto
  <2>7. (versions # <<>>)' /\ UniqueValues' /\ GeneratedBelow' /\ AcceptedByConfig'
    <3>1. (versions # <<>>)' /\ AcceptedByConfig'
      BY <2>1 DEF IInv, AcceptedByConfig, Stored
    <3>2. UniqueValues'
      BY <2>1 DEF IInv, UniqueValues, Stored, AlwaysUnique
    <3>3. GeneratedBelow'
      BY <2>1 DEF IInv, GeneratedBelow, Stored
    <3> QED
      BY <3>1, <3>2, <3>3
  <2>8. RequestOK(r)'
    <3>1. DrawnCode(r)' = DrawnCode(r)
      BY <2>1, <2>5 DEF DrawnCode, Pattern
    <3>2. req'[r].op = "create" => req'[r].code \in Codes
      BY <2>2, <2>4, <2>5 DEF Local
    <3> QED
      BY <1>0, <2>1, <2>2, <2>5, <3>1, <3>2 DEF RequestOK, SameIdentity, Stored
  <2>9. LockedUnique(r)'
    <3>1. ClashFree(versions, records, type, req[r].data, req[r].id)
      BY <1>2, ValidatedUnique DEF ClashFree, Stored
    <3> QED
      BY <2>1, <2>5, <3>1 DEF LockedUnique
  <2>10. RequestAccepted(r)'
    <3>1. RequestAccepted(r)
      BY DEF IInv
    <3> QED
      BY <1>0, <2>1, <2>5, <3>1 DEF RequestAccepted
  <2>11. ASSUME NEW s \in Requests \ {r}
         PROVE  RequestOK(s)' /\ LockedUnique(s)' /\ RequestAccepted(s)'
    <3>1. RequestOK(s) /\ LockedUnique(s) /\ RequestAccepted(s) /\ s # None
      BY NamesAssumption DEF IInv
    <3>2. pc'[s] = pc[s] /\ req'[s] = req[s]
      BY <2>3
    <3>3. pc[s] = "locked" => typeLock'[req[s].object_type] = s
      BY <1>0, <2>1, <3>1 DEF RequestOK, IInv, TypeOK
    <3>4. RequestOK(s)'
      BY <2>1, <3>1, <3>2, <3>3 DEF RequestOK, SameIdentity, Stored, DrawnCode, Pattern
    <3>5. LockedUnique(s)'
      BY <2>1, <3>1, <3>2 DEF LockedUnique
    <3>6. RequestAccepted(s)'
      BY <2>1, <3>1, <3>2 DEF RequestAccepted
    <3> QED
      BY <3>4, <3>5, <3>6
  <2> QED
    BY <2>6, <2>7, <2>8, <2>9, <2>10, <2>11 DEF IInv
<1> QED
  BY <1>1, <1>2

-----------------------------------------------------------------------------
(* Steps that write.                                                       *)

\* A publish leaves fewer fields that have always been unique, and more versions
\* that may accept a record.
LEMMA PublishStep ==
  ASSUME IInv, NEW config \in Configs, PublishConfig(config)
  PROVE  IInv'
<1>1. /\ versions \in Seq(Configs) /\ versions' = Append(versions, config)
      /\ UNCHANGED <<records, sequences, typeLock, pc, req>>
  BY DEF IInv, TypeOK, PublishConfig
<1>2. /\ versions' \in Seq(Configs) /\ Len(versions) \in Nat /\ Len(versions') = Len(versions) + 1
      /\ \A n \in 1..Len(versions) : versions'[n] = versions[n]
  BY <1>1, AppendProperties, LenProperties
<1>3. TypeOK' /\ (versions # <<>>)' /\ GeneratedBelow'
  BY <1>1, <1>2, EmptySeq DEF IInv, TypeOK, GeneratedBelow, Stored
<1>4. \A t : AlwaysUnique(versions', t) \subseteq AlwaysUnique(versions, t)
  BY <1>2 DEF AlwaysUnique
<1>5. UniqueValues'
  BY <1>1, <1>4 DEF IInv, UniqueValues, Stored
<1>6. AcceptedByConfig'
  <2>1. ASSUME NEW i \in Stored, records[i].object_type # ProjectType
        PROVE  \E n \in 1..Len(versions') :
                 /\ records[i].status = "draft" => records[i].version <= n
                 /\ Accepts(versions'[n], records[i].object_type, records[i].data)
    <3>1. PICK n \in 1..Len(versions) :
            /\ records[i].status = "draft" => records[i].version <= n
            /\ Accepts(versions[n], records[i].object_type, records[i].data)
      BY <2>1 DEF IInv, AcceptedByConfig
    <3> QED
      BY <1>2, <3>1
  <2> QED
    BY <1>1, <2>1 DEF AcceptedByConfig, Stored
<1>7. ASSUME NEW r \in Requests
      PROVE  RequestOK(r)' /\ LockedUnique(r)' /\ RequestAccepted(r)'
  <2>1. RequestOK(r) /\ LockedUnique(r) /\ RequestAccepted(r)
    BY DEF IInv
  <2>2. RequestOK(r)'
    <3>1. req[r].generated => DrawnCode(r)' = DrawnCode(r)
      BY <1>1, <1>2, <2>1 DEF RequestOK, DrawnCode, Pattern
    <3> QED
      BY <1>1, <1>2, <2>1, <3>1 DEF RequestOK, Stored
  <2>3. LockedUnique(r)'
    BY <1>1, <1>4, <2>1 DEF LockedUnique, ClashFree
  <2>4. RequestAccepted(r)'
    <3>1. ASSUME pc[r] \in {"validated", "locked"}
          PROVE  \E n \in req[r].version..Len(versions') :
                   Accepts(versions'[n], req[r].object_type, req[r].data)
      <4>1. PICK n \in req[r].version..Len(versions) :
              Accepts(versions[n], req[r].object_type, req[r].data)
        BY <2>1, <3>1 DEF RequestAccepted
      <4>2. req[r].version \in 1..Len(versions)
        BY <2>1, <3>1 DEF RequestOK
      <4> QED
        BY <1>2, <4>1, <4>2
    <3> QED
      BY <1>1, <3>1 DEF RequestAccepted
  <2> QED
    BY <2>2, <2>3, <2>4
<1> QED
  BY <1>3, <1>5, <1>6, <1>7 DEF IInv

\* A project update writes fields that are not among the checked ones.
LEMMA ProjectSyncStep ==
  ASSUME IInv, NEW i \in RecordIds, NEW data \in Data, ProjectSync(i, data)
  PROVE  IInv'
<1> DEFINE new == [f \in FieldKeys |-> IF f \in SyncedFields THEN data[f] ELSE records[i].data[f]]
<1>1. /\ i \in Stored /\ records[i] \in Record /\ records[i].object_type = ProjectType
      /\ records' = [records EXCEPT ![i].data = new]
      /\ UNCHANGED <<versions, sequences, typeLock, pc, req>>
  BY DEF ProjectSync, Stored, IInv, TypeOK
<1>2. new \in Data
  BY <1>1 DEF Data, Record
<1>3. records'[i] = [records[i] EXCEPT !.data = new] /\ \A j \in RecordIds \ {i} : records'[j] = records[j]
  BY <1>1 DEF IInv, TypeOK
<1>4. \A f \in Checked(ProjectType) : new[f] = records[i].data[f]
  BY DEF Checked
<1> HIDE DEF new
<1>5. records'[i] \in Record /\ SameIdentity(records'[i], records[i])
      /\ records'[i].status = records[i].status /\ records'[i].version = records[i].version
      /\ records'[i].data = new
  BY <1>1, <1>2, <1>3 DEF Record, SameIdentity
<1>6. records' \in [RecordIds -> Record \cup {None}]
  BY <1>1, <1>5 DEF IInv, TypeOK
<1>7. TypeOK' /\ (versions # <<>>)'
  BY <1>1, <1>6 DEF IInv, TypeOK
<1>8. \A j \in RecordIds : (records'[j] # None <=> records[j] # None)
  <2>1. None \notin Record
    BY NamesAssumption
  <2> QED
    BY <1>1, <1>3, <1>5, <2>1 DEF Stored
<1>9. Stored' = Stored
  BY <1>8 DEF Stored
<1>10. \A j \in Stored : /\ SameIdentity(records'[j], records[j])
                        /\ records'[j].status = records[j].status
                        /\ records'[j].version = records[j].version
                        /\ records[j].object_type # ProjectType => records'[j] = records[j]
                        /\ \A f \in Checked(records[j].object_type) :
                             records'[j].data[f] = records[j].data[f]
  BY <1>1, <1>3, <1>4, <1>5 DEF SameIdentity, Stored
<1>10a. ASSUME NEW j \in Stored
        PROVE  records'[j].object_type = records[j].object_type
  BY <1>1, <1>3, <1>5 DEF SameIdentity, Stored
<1>10b. ASSUME NEW j \in Stored, NEW f \in Checked(records[j].object_type)
        PROVE  records'[j].data[f] = records[j].data[f]
  BY <1>1, <1>3, <1>4, <1>5 DEF Stored
<1>11. UniqueValues'
  <2> SUFFICES ASSUME NEW j \in Stored, NEW k \in Stored, j # k,
                      records'[j].object_type = records'[k].object_type,
                      NEW f \in AlwaysUnique(versions, records'[j].object_type)
                                   \cap Checked(records'[j].object_type)
               PROVE  IsBlank(records'[j].data[f]) \/ records'[j].data[f] # records'[k].data[f]
    BY <1>1, <1>9 DEF UniqueValues
  <2>1. /\ records'[j].object_type = records[j].object_type
        /\ records[k].object_type = records[j].object_type
    BY <1>10a
  <2>2. /\ records'[j].data[f] = records[j].data[f]
        /\ records'[k].data[f] = records[k].data[f]
    BY <1>10b, <2>1
  <2> QED
    BY <2>1, <2>2 DEF IInv, UniqueValues
<1>12. GeneratedBelow'
  BY <1>1, <1>9, <1>10 DEF IInv, GeneratedBelow, SameIdentity
<1>13. AcceptedByConfig'
  BY <1>1, <1>9, <1>10 DEF IInv, AcceptedByConfig, SameIdentity
<1>14. ASSUME NEW r \in Requests
       PROVE  RequestOK(r)' /\ LockedUnique(r)' /\ RequestAccepted(r)'
  <2>1. RequestOK(r) /\ LockedUnique(r) /\ RequestAccepted(r)
    BY DEF IInv
  <2>2. RequestOK(r)'
    <3>1. DrawnCode(r)' = DrawnCode(r)
      BY <1>1 DEF DrawnCode, Pattern
    <3> QED
      BY <1>1, <1>9, <1>10, <2>1, <3>1 DEF RequestOK, SameIdentity
  <2>3. LockedUnique(r)'
    <3>1. ASSUME NEW type, NEW d, NEW id, ClashFree(versions, records, type, d, id)
          PROVE  ClashFree(versions, records', type, d, id)
      <4> SUFFICES ASSUME NEW f \in AlwaysUnique(versions, type) \cap Checked(type),
                          NEW j \in RecordIds \ {id},
                          records'[j] # None, records'[j].object_type = type
                   PROVE  IsBlank(d[f]) \/ records'[j].data[f] # d[f]
        BY DEF ClashFree
      <4>1. j \in Stored
        BY <1>8 DEF Stored
      <4>2. records[j].object_type = type /\ records'[j].data[f] = records[j].data[f]
        BY <1>10a, <1>10b, <4>1
      <4> QED
        BY <3>1, <4>1, <4>2 DEF ClashFree, Stored
    <3> QED
      BY <1>1, <2>1, <3>1 DEF LockedUnique
  <2>4. RequestAccepted(r)'
    BY <1>1, <2>1 DEF RequestAccepted
  <2> QED
    BY <2>2, <2>3, <2>4
<1> QED
  BY <1>7, <1>11, <1>12, <1>13, <1>14 DEF IInv

\* A locked request writes its row and ends its transaction.
LEMMA CommitStep ==
  ASSUME IInv, NEW r \in Requests, pc[r] = "locked",
         NEW i \in RecordIds, NEW row \in Record,
         records' = [records EXCEPT ![i] = row],
         row.object_type = req[r].object_type, row.data = req[r].data,
         row.version = req[r].version,
         i \in Stored => req[r].id = i /\ SameIdentity(row, records[i]),
         i \notin Stored => req[r].id = None,
         sequences' \in [Scopes -> Nat \ {0}],
         \A s \in Scopes : sequences[s] <= sequences'[s],
         \A s \in Scopes : s[1] # row.object_type => sequences'[s] = sequences[s],
         row.generated => /\ row.code \in Patterns \X Nat
                          /\ row.code[2] < sequences'[<<row.object_type, row.code[1]>>],
         Release(r), Done(r), versions' = versions
  PROVE  IInv'
<1>1. /\ records'[i] = row
      /\ \A j \in RecordIds \ {i} : records'[j] = records[j]
      /\ row # None
  BY NamesAssumption DEF IInv, TypeOK
<1>2. Stored' = Stored \cup {i}
  BY <1>1 DEF Stored
<1>3. /\ pc'[r] = "idle" /\ req'[r] = Idle
      /\ \A s \in Requests \ {r} : pc'[s] = pc[s] /\ req'[s] = req[s]
  BY DEF Done, Goto, IInv, TypeOK
<1>4. RequestOK(r) /\ LockedUnique(r) /\ RequestAccepted(r)
  BY DEF IInv
<1>5. TypeOK' /\ (versions # <<>>)'
  BY IdleLocal DEF IInv, TypeOK, Release, Done, Goto
<1>6. ClashFree(versions, records, row.object_type, row.data, i)
  <2>1. ClashFree(versions, records, row.object_type, row.data, req[r].id)
    BY <1>4 DEF LockedUnique
  <2>2. CASE i \in Stored
    BY <2>1, <2>2
  <2>3. CASE i \notin Stored
    BY <2>1, <2>3, NamesAssumption DEF ClashFree
  <2> QED
    BY <2>2, <2>3
<1>7. UniqueValues'
  <2> SUFFICES ASSUME NEW j \in Stored', NEW k \in Stored', j # k,
                      records'[j].object_type = records'[k].object_type,
                      NEW f \in AlwaysUnique(versions, records'[j].object_type)
                                   \cap Checked(records'[j].object_type)
               PROVE  IsBlank(records'[j].data[f]) \/ records'[j].data[f] # records'[k].data[f]
    BY DEF UniqueValues
  <2>1. CASE j = i
    BY <1>1, <1>2, <1>6, <2>1 DEF ClashFree, Stored
  <2>2. CASE k = i
    <3>1. IsBlank(row.data[f]) \/ records[j].data[f] # row.data[f]
      BY <1>1, <1>2, <1>6, <2>2 DEF ClashFree, Stored
    <3> QED
      BY <1>1, <2>2, <3>1
  <2>3. CASE j # i /\ k # i
    BY <1>1, <1>2, <2>3 DEF IInv, UniqueValues
  <2> QED
    BY <2>1, <2>2, <2>3
<1>8. GeneratedBelow'
  <2> SUFFICES ASSUME NEW j \in Stored', records'[j].generated
               PROVE  /\ records'[j].code \in Patterns \X Nat
                      /\ records'[j].code[2]
                           < sequences'[<<records'[j].object_type, records'[j].code[1]>>]
    BY DEF GeneratedBelow
  <2>1. CASE j = i
    BY <1>1, <2>1
  <2>2. CASE j # i
    <3>1. /\ j \in Stored /\ records'[j] = records[j] /\ records[j] \in Record
          /\ records[j].code \in Patterns \X Nat
          /\ records[j].code[2] < sequences[<<records[j].object_type, records[j].code[1]>>]
      BY <1>1, <1>2, <2>2 DEF IInv, GeneratedBelow, TypeOK, Stored
    <3>2. <<records[j].object_type, records[j].code[1]>> \in Scopes
      BY <3>1 DEF Scopes, Record
    <3>3. records[j].code[2] \in Nat
      BY <3>1
    <3> DEFINE x == <<records[j].object_type, records[j].code[1]>>
    <3>4. sequences[x] \in Nat /\ sequences'[x] \in Nat /\ sequences[x] <= sequences'[x]
      BY <3>2 DEF IInv, TypeOK
    <3>5. records[j].code[2] < sequences[x]
      BY <3>1
    <3>6. records[j].code[2] < sequences'[x]
      <4> HIDE DEF x
      <4> QED
        BY <3>3, <3>4, <3>5
    <3> QED
      BY <3>1, <3>6
  <2> QED
    BY <2>1, <2>2
<1>9. AcceptedByConfig'
  <2> SUFFICES ASSUME NEW j \in Stored', records'[j].object_type # ProjectType
               PROVE  \E n \in 1..Len(versions) :
                        /\ records'[j].status = "draft" => records'[j].version <= n
                        /\ Accepts(versions[n], records'[j].object_type, records'[j].data)
    BY DEF AcceptedByConfig
  <2>1. CASE j = i
    <3>1. PICK n \in req[r].version..Len(versions) :
            Accepts(versions[n], req[r].object_type, req[r].data)
      BY <1>4 DEF RequestAccepted
    <3>2. n \in 1..Len(versions) /\ row.version <= n
      BY <1>4, <3>1 DEF RequestOK, IInv, TypeOK
    <3> QED
      BY <1>1, <2>1, <3>1, <3>2
  <2>2. CASE j # i
    BY <1>1, <1>2, <2>2 DEF IInv, AcceptedByConfig
  <2> QED
    BY <2>1, <2>2
<1>10. RequestOK(r)' /\ LockedUnique(r)' /\ RequestAccepted(r)'
  BY <1>3 DEF RequestOK, LockedUnique, RequestAccepted, Idle
<1>11. ASSUME NEW s \in Requests \ {r}
       PROVE  RequestOK(s)' /\ LockedUnique(s)' /\ RequestAccepted(s)'
  <2>1. RequestOK(s) /\ LockedUnique(s) /\ RequestAccepted(s)
    BY DEF IInv
  <2>2. pc'[s] = pc[s] /\ req'[s] = req[s]
    BY <1>3
  <2>3. pc[s] = "locked" => req[s].object_type # req[r].object_type
    BY <1>4, <2>1 DEF RequestOK
  <2>4. RequestOK(s)'
    <3>1. pc[s] = "locked" => typeLock'[req[s].object_type] = s
      BY <2>1 DEF RequestOK, Release, IInv, TypeOK
    <3>2. req[s].op \in {"update", "release"} =>
            req[s].id \in Stored' /\ SameIdentity(req[s].row, records'[req[s].id])
      BY <1>1, <1>2, <2>1 DEF RequestOK, SameIdentity, Stored
    <3>3. req[s].generated => DrawnCode(s)' = DrawnCode(s)
      <4> SUFFICES ASSUME req[s].generated
                   PROVE  DrawnCode(s)' = DrawnCode(s)
        OBVIOUS
      <4>1. pc[s] = "locked" /\ req[s].object_type \in ObjectTypes
            /\ req[s].version \in 1..Len(versions)
        BY <2>1 DEF RequestOK
      <4>2. Pattern(s) \in Patterns
        BY <4>1, PatternTyped DEF Pattern, IInv
      <4>3. sequences'[<<req[s].object_type, Pattern(s)>>]
              = sequences[<<req[s].object_type, Pattern(s)>>]
        BY <2>3, <4>1, <4>2 DEF Scopes
      <4> QED
        BY <2>2, <4>3 DEF DrawnCode, Pattern
    <3> QED
      BY <2>1, <2>2, <3>1, <3>2, <3>3 DEF RequestOK
  <2>5. LockedUnique(s)'
    <3>1. pc[s] = "locked" =>
            ClashFree(versions, records', req[s].object_type, req[s].data, req[s].id)
      BY <1>1, <2>1, <2>3 DEF LockedUnique, ClashFree
    <3> QED
      BY <2>2, <3>1 DEF LockedUnique
  <2>6. RequestAccepted(s)'
    BY <2>1, <2>2 DEF RequestAccepted
  <2> QED
    BY <2>4, <2>5, <2>6
<1> QED
  BY <1>5, <1>7, <1>8, <1>9, <1>10, <1>11 DEF IInv

\* The insert of a creation that holds the lock of its type.
LEMMA CreateCommitStep ==
  ASSUME IInv, NEW r \in Requests, NEW i \in RecordIds, CreateCommit(r, i)
  PROVE  IInv'
<1> DEFINE t == req[r].object_type
           row == [object_type |-> t, code |-> req[r].code,
                   generated |-> req[r].generated, status |-> "draft",
                   version |-> req[r].version, data |-> req[r].data]
           scope == <<t, Pattern(r)>>
<1>1. /\ pc[r] = "locked" /\ req[r].op = "create" /\ i \notin Stored
      /\ records' = [records EXCEPT ![i] = row]
      /\ sequences' = IF req[r].generated THEN [sequences EXCEPT ![scope] = @ + 1] ELSE sequences
      /\ Release(r) /\ Done(r) /\ versions' = versions
  BY DEF CreateCommit
<1>2. RequestOK(r) /\ req[r] \in Local
  BY DEF IInv, TypeOK
<1>3. /\ t \in ObjectTypes /\ req[r].data \in Data /\ req[r].code \in Codes
      /\ req[r].generated \in BOOLEAN /\ req[r].version \in Nat /\ req[r].id = None
  BY <1>1, <1>2 DEF RequestOK, Local
<1>4. row \in Record
  BY <1>3 DEF Record
<1>5. Pattern(r) \in Patterns
  BY <1>1, <1>2, <1>3, PatternTyped DEF Pattern, RequestOK, IInv
<1>6. scope \in Scopes /\ sequences[scope] \in Nat \ {0}
  BY <1>3, <1>5 DEF Scopes, IInv, TypeOK
<1>7. /\ sequences' \in [Scopes -> Nat \ {0}]
      /\ \A s \in Scopes : sequences[s] <= sequences'[s]
      /\ \A s \in Scopes : s # scope => sequences'[s] = sequences[s]
      /\ req[r].generated => sequences'[scope] = sequences[scope] + 1
  <2>1. sequences \in [Scopes -> Nat \ {0}]
    BY DEF IInv, TypeOK
  <2> HIDE DEF scope
  <2>2. CASE req[r].generated
    BY <1>1, <1>6, <2>1, <2>2
  <2>3. CASE ~req[r].generated
    BY <1>1, <2>1, <2>3
  <2> QED
    BY <2>2, <2>3
<1>8. req[r].generated =>
        /\ req[r].code \in Patterns \X Nat
        /\ req[r].code[2] < sequences'[<<t, req[r].code[1]>>]
  <2> SUFFICES ASSUME req[r].generated
               PROVE  /\ req[r].code \in Patterns \X Nat
                      /\ req[r].code[2] < sequences'[<<t, req[r].code[1]>>]
    OBVIOUS
  <2>1. req[r].code = <<Pattern(r), sequences[scope]>>
    BY <1>2 DEF RequestOK, DrawnCode
  <2> QED
    BY <1>5, <1>6, <1>7, <2>1
<1>9. \A s \in Scopes : s[1] # row.object_type => sequences'[s] = sequences[s]
  BY <1>7
<1>10. /\ row.object_type = t /\ row.data = req[r].data /\ row.version = req[r].version
       /\ row.generated = req[r].generated /\ row.code = req[r].code
  OBVIOUS
<1> HIDE DEF row
<1> QED
  BY <1>1, <1>3, <1>4, <1>7, <1>8, <1>9, <1>10, CommitStep

\* The save of an update that holds the lock of its type.
LEMMA UpdateCommitStep ==
  ASSUME IInv, NEW r \in Requests, UpdateCommit(r)
  PROVE  IInv'
<1> DEFINE i == req[r].id
           row == [req[r].row EXCEPT !.data = req[r].data, !.version = req[r].version]
<1>1. /\ pc[r] = "locked" /\ req[r].op = "update"
      /\ records' = [records EXCEPT ![i] = row]
      /\ Release(r) /\ Done(r) /\ UNCHANGED <<versions, sequences>>
  BY DEF UpdateCommit
<1>2. RequestOK(r) /\ req[r] \in Local
  BY DEF IInv, TypeOK
<1>3. /\ i \in Stored /\ req[r].row \in Record /\ SameIdentity(req[r].row, records[i])
      /\ req[r].object_type = req[r].row.object_type
      /\ req[r].data \in Data /\ req[r].version \in Nat
  BY <1>1, <1>2 DEF RequestOK, Local
<1>4. /\ row \in Record /\ row.data = req[r].data /\ row.version = req[r].version
      /\ row.object_type = req[r].object_type /\ SameIdentity(row, records[i])
  BY <1>3 DEF Record, SameIdentity
<1>5. /\ sequences' = sequences /\ sequences \in [Scopes -> Nat \ {0}]
      /\ \A s \in Scopes : sequences[s] <= sequences'[s]
  BY <1>1 DEF IInv, TypeOK
<1>6. row.generated => /\ row.code \in Patterns \X Nat
                       /\ row.code[2] < sequences'[<<row.object_type, row.code[1]>>]
  <2>1. row.generated = records[i].generated /\ row.code = records[i].code
        /\ row.object_type = records[i].object_type
    BY <1>4 DEF SameIdentity
  <2> HIDE DEF row
  <2> QED
    BY <1>3, <1>5, <2>1 DEF IInv, GeneratedBelow
<1>7. i \in RecordIds
  BY <1>3 DEF Stored
<1> HIDE DEF row
<1> QED
  BY <1>1, <1>3, <1>4, <1>5, <1>6, <1>7, CommitStep

\* A rollback leaves the records alone and gives up the lock.
LEMMA RollbackStep ==
  ASSUME IInv, NEW r \in Requests, Rollback(r)
  PROVE  IInv'
<1>1. /\ pc'[r] = "idle" /\ req'[r] = Idle
      /\ \A s \in Requests \ {r} : pc'[s] = pc[s] /\ req'[s] = req[s]
      /\ UNCHANGED <<versions, records, sequences>>
  BY DEF Rollback, Done, Goto, IInv, TypeOK
<1>2. TypeOK'
  BY IdleLocal DEF IInv, TypeOK, Rollback, Release, Done, Goto
<1>3. (versions # <<>>)' /\ UniqueValues' /\ GeneratedBelow' /\ AcceptedByConfig'
  BY <1>1 DEF IInv, UniqueValues, GeneratedBelow, AcceptedByConfig, Stored
<1>4. RequestOK(r)' /\ LockedUnique(r)' /\ RequestAccepted(r)'
  BY <1>1 DEF RequestOK, LockedUnique, RequestAccepted, Idle
<1>5. ASSUME NEW s \in Requests \ {r}
      PROVE  RequestOK(s)' /\ LockedUnique(s)' /\ RequestAccepted(s)'
  <2>1. RequestOK(s) /\ LockedUnique(s) /\ RequestAccepted(s)
    BY DEF IInv
  <2>2. pc[s] = "locked" => typeLock'[req[s].object_type] = s
    BY <2>1 DEF RequestOK, Rollback, Release, IInv, TypeOK
  <2>3. RequestOK(s)'
    BY <1>1, <2>1, <2>2 DEF RequestOK, Stored, DrawnCode, Pattern
  <2>4. LockedUnique(s)' /\ RequestAccepted(s)'
    BY <1>1, <2>1 DEF LockedUnique, RequestAccepted
  <2> QED
    BY <2>3, <2>4
<1> QED
  BY <1>2, <1>3, <1>4, <1>5 DEF IInv

\* A release changes status and version only, whatever was written since it read
\* the row; its stamp is no bound for the data any more.
LEMMA ReleaseSaveStep ==
  ASSUME IInv, NEW r \in Requests, ReleaseSave(r)
  PROVE  IInv'
<1> DEFINE i == req[r].id
<1>1. /\ pc[r] = "validated" /\ req[r].op = "release"
      /\ records' = [records EXCEPT ![i].status = "released", ![i].version = req[r].version]
      /\ Done(r) /\ UNCHANGED <<versions, sequences, typeLock>>
  BY DEF ReleaseSave
<1>2. RequestOK(r) /\ req[r] \in Local
  BY DEF IInv, TypeOK
<1>3. i \in Stored /\ i \in RecordIds /\ records[i] \in Record /\ req[r].version \in Nat
  BY <1>1, <1>2 DEF RequestOK, Local, Stored, IInv, TypeOK
<1>4. /\ records'[i] = [records[i] EXCEPT !.status = "released", !.version = req[r].version]
      /\ \A j \in RecordIds \ {i} : records'[j] = records[j]
  BY <1>1, <1>3 DEF IInv, TypeOK
<1>5. /\ records'[i] \in Record /\ records'[i].data = records[i].data
      /\ records'[i].status = "released" /\ SameIdentity(records'[i], records[i])
  BY <1>3, <1>4 DEF Record, SameIdentity
<1>6. records' \in [RecordIds -> Record \cup {None}]
  <2>1. records' = [records EXCEPT ![i] = records'[i]]
    BY <1>1, <1>3 DEF IInv, TypeOK
  <2> QED
    BY <1>5, <2>1 DEF IInv, TypeOK
<1>7. /\ pc'[r] = "idle" /\ req'[r] = Idle
      /\ \A s \in Requests \ {r} : pc'[s] = pc[s] /\ req'[s] = req[s]
  BY <1>1 DEF Done, Goto, IInv, TypeOK
<1>8. TypeOK' /\ (versions # <<>>)'
  BY <1>1, <1>6, IdleLocal DEF IInv, TypeOK, Done, Goto
<1>9. Stored' = Stored
  BY <1>3, <1>4, <1>5, NamesAssumption DEF Stored
<1>10. ASSUME NEW j \in RecordIds
       PROVE  /\ records'[j].data = records[j].data
              /\ records'[j].object_type = records[j].object_type
              /\ records'[j].code = records[j].code
              /\ records'[j].generated = records[j].generated
              /\ records'[j].status = "draft" => records'[j] = records[j]
              /\ records'[j] # None <=> records[j] # None
  BY <1>3, <1>4, <1>5, NamesAssumption DEF SameIdentity
<1>11. UniqueValues' /\ GeneratedBelow'
  <2>1. Stored \subseteq RecordIds
    BY DEF Stored
  <2>2. UniqueValues'
    <3>a. versions' = versions /\ Stored' = Stored
      BY <1>1, <1>9
    <3> SUFFICES ASSUME NEW j \in Stored, NEW k \in Stored, j # k,
                        records'[j].object_type = records'[k].object_type,
                        NEW f \in AlwaysUnique(versions, records'[j].object_type)
                                     \cap Checked(records'[j].object_type)
                 PROVE  IsBlank(records'[j].data[f]) \/ records'[j].data[f] # records'[k].data[f]
      BY <3>a DEF UniqueValues
    <3>1. /\ records'[j].data = records[j].data /\ records'[k].data = records[k].data
          /\ records'[j].object_type = records[j].object_type
          /\ records'[k].object_type = records[k].object_type
      BY <1>10, <2>1
    <3> QED
      BY <3>1 DEF IInv, UniqueValues
  <2>3. GeneratedBelow'
    BY <1>1, <1>9, <1>10, <2>1 DEF IInv, GeneratedBelow
  <2> QED
    BY <2>2, <2>3
<1>12. AcceptedByConfig'
  BY <1>1, <1>9, <1>10 DEF IInv, AcceptedByConfig, Stored
<1>13. RequestOK(r)' /\ LockedUnique(r)' /\ RequestAccepted(r)'
  BY <1>7 DEF RequestOK, LockedUnique, RequestAccepted, Idle
<1>14. ASSUME NEW s \in Requests \ {r}
       PROVE  RequestOK(s)' /\ LockedUnique(s)' /\ RequestAccepted(s)'
  <2>1. RequestOK(s) /\ LockedUnique(s) /\ RequestAccepted(s)
    BY DEF IInv
  <2>2. RequestOK(s)'
    <3>1. req[s].op \in {"update", "release"} =>
            req[s].id \in Stored' /\ SameIdentity(req[s].row, records'[req[s].id])
      BY <1>9, <1>10, <2>1 DEF RequestOK, SameIdentity, Stored
    <3>2. DrawnCode(s)' = DrawnCode(s)
      BY <1>1, <1>7 DEF DrawnCode, Pattern
    <3> QED
      BY <1>1, <1>7, <2>1, <3>1, <3>2 DEF RequestOK
  <2>3. LockedUnique(s)'
    <3>1. ASSUME ClashFree(versions, records, req[s].object_type, req[s].data, req[s].id)
          PROVE  ClashFree(versions, records', req[s].object_type, req[s].data, req[s].id)
      BY <1>10, <3>1 DEF ClashFree
    <3> QED
      BY <1>1, <1>7, <2>1, <3>1 DEF LockedUnique
  <2>4. RequestAccepted(s)'
    BY <1>1, <1>7, <2>1 DEF RequestAccepted
  <2> QED
    BY <2>2, <2>3, <2>4
<1> QED
  BY <1>8, <1>11, <1>12, <1>13, <1>14 DEF IInv

-----------------------------------------------------------------------------
(* The theorems.                                                           *)

\* The invariant holds at the start.
LEMMA InitInv == Init => IInv
<1> SUFFICES ASSUME Init PROVE IInv
  OBVIOUS
<1>1. versions \in Seq(Configs) /\ versions # <<>>
  BY InputAssumption DEF Init
<1>2. Stored = {}
  BY DEF Init, Stored
<1>3. TypeOK
  BY <1>1, IdleLocal DEF Init, TypeOK
<1>4. UniqueValues /\ GeneratedBelow /\ AcceptedByConfig
  BY <1>2 DEF UniqueValues, GeneratedBelow, AcceptedByConfig
<1>5. ASSUME NEW r \in Requests
      PROVE  RequestOK(r) /\ LockedUnique(r) /\ RequestAccepted(r)
  BY DEF Init, RequestOK, LockedUnique, RequestAccepted, Idle
<1> QED
  BY <1>1, <1>3, <1>4, <1>5 DEF IInv

\* ... when nothing happens ...
LEMMA StutterInv == IInv /\ UNCHANGED vars => IInv'
<1> SUFFICES ASSUME IInv, UNCHANGED vars PROVE IInv'
  OBVIOUS
<1>1. TypeOK' /\ (versions # <<>>)' /\ UniqueValues' /\ GeneratedBelow' /\ AcceptedByConfig'
  BY DEF IInv, TypeOK, UniqueValues, GeneratedBelow, AcceptedByConfig, Stored, vars
<1>2. ASSUME NEW r \in Requests
      PROVE  RequestOK(r)' /\ LockedUnique(r)' /\ RequestAccepted(r)'
  <2>1. RequestOK(r) /\ LockedUnique(r) /\ RequestAccepted(r)
    BY DEF IInv
  <2> QED
    BY <2>1 DEF RequestOK, LockedUnique, RequestAccepted, Stored, DrawnCode, Pattern, vars
<1> QED
  BY <1>1, <1>2 DEF IInv

\* ... and after every step.
LEMMA NextInv == IInv /\ [Next]_vars => IInv'
<1> SUFFICES ASSUME IInv, [Next]_vars PROVE IInv'
  OBVIOUS
<1>1. ASSUME NEW config \in Configs, PublishConfig(config) PROVE IInv'
  BY <1>1, PublishStep
<1>2. ASSUME NEW i \in RecordIds, NEW payload \in Payloads, ProjectSync(i, NewData(payload))
      PROVE  IInv'
  BY <1>2, ProjectSyncStep, NewDataData, InputAssumption
<1>3. ASSUME NEW r \in Requests, Create(r) PROVE IInv'
  BY <1>3, CreateStartStep, CreateCommitStep DEF Create
<1>4. ASSUME NEW r \in Requests, Change(r) PROVE IInv'
  <2>1. ASSUME NEW i \in RecordIds, ReleaseStart(r, i) PROVE IInv'
    <3>1. EmptyPayload \in Payload
      BY DEF EmptyPayload, Payload
    <3> QED
      BY <2>1, <3>1, ReadRowStep DEF ReleaseStart
  <2>2. ASSUME NEW i \in RecordIds, NEW payload \in Payloads, UpdateStart(r, i, payload)
        PROVE  IInv'
    BY <2>2, ReadRowStep, InputAssumption DEF UpdateStart
  <2> QED
    BY <1>4, <2>1, <2>2, ReadDefinitionStep, UpdateCommitStep, ReleaseSaveStep DEF Change
<1>5. ASSUME NEW r \in Requests, Validate(r) \/ LockAndValidate(r) \/ Rollback(r) PROVE IInv'
  BY <1>5, ValidateStep, LockAndValidateStep, RollbackStep
<1>6. CASE UNCHANGED vars
  BY <1>6, StutterInv
<1> QED
  BY <1>1, <1>2, <1>3, <1>4, <1>5, <1>6 DEF Next

\* The inductive invariant holds in every reachable state.
THEOREM Invariance == Spec => []IInv
BY InitInv, NextInv, PTL DEF Spec

\* Type correctness.
THEOREM TypeCorrect == Spec => []TypeOK
BY Invariance, PTL DEF IInv

\* A field that has been unique in every configuration is unique among the
\* stored records of the type (serializers.py 199-203).
THEOREM UniqueValuesHold == Spec => []UniqueValues
BY Invariance, PTL DEF IInv

\* The data of every record was accepted by a published configuration, for a
\* draft by the stamped or a later one (serializers.py 109, 141).
THEOREM StoredDataAccepted == Spec => []AcceptedByConfig
BY Invariance, PTL DEF IInv

\* Generated codes are fresh: only a manual code or another type can take one
\* (codes.py 44-58).
THEOREM CodesAreFresh == Spec => []GeneratedCodesFresh
<1>1. IInv => GeneratedCodesFresh
  <2> SUFFICES ASSUME IInv, NEW i \in Stored, records[i].generated
               PROVE  /\ \A r \in Requests :
                           pc[r] = "locked" /\ req[r].generated
                           /\ req[r].object_type = records[i].object_type
                             => req[r].code # records[i].code
                      /\ records[i].code[2]
                           < sequences[<<records[i].object_type, records[i].code[1]>>]
    BY DEF GeneratedCodesFresh
  <2>1. /\ records[i].code \in Patterns \X Nat
        /\ records[i].code[2] < sequences[<<records[i].object_type, records[i].code[1]>>]
    BY DEF IInv, GeneratedBelow
  <2>2. ASSUME NEW r \in Requests, req[r].generated,
               req[r].object_type = records[i].object_type, req[r].code = records[i].code
        PROVE  FALSE
    <3>1. req[r].code = <<Pattern(r), sequences[<<records[i].object_type, Pattern(r)>>]>>
      BY <2>2 DEF IInv, RequestOK, DrawnCode
    <3>2. records[i].code[1] = Pattern(r)
          /\ records[i].code[2] = sequences[<<records[i].object_type, Pattern(r)>>]
      BY <2>2, <3>1
    <3> QED
      BY <2>1, <3>2
  <2> QED
    BY <2>1, <2>2
<1> QED
  BY <1>1, Invariance, PTL

\* Unique values and generated codes belong to one record each (serializers.py
\* 199-203, codes.py 44-58).
THEOREM RecordsStayConsistent == Spec => []RecordsAreConsistent
BY TypeCorrect, UniqueValuesHold, CodesAreFresh, PTL DEF RecordsAreConsistent
-----------------------------------------------------------------------------
(* Updates that overlap nothing.                                           *)

\* The data that an update stores is that of the row it has read, with what it
\* was sent.
UpdatesMerge ==
  \A r \in Requests :
    req[r].op = "update" => req[r].data = Merge(req[r].row.data, req[r].payload)

\* No step of a request loses what it has merged.
LEMMA UpdatesMergeStep ==
  ASSUME IInv, UpdatesMerge, [Next]_vars
  PROVE  UpdatesMerge'
<1> DEFINE Keeps(r) ==
      \/ req'[r] = Idle
      \/ /\ req'[r].row = req[r].row /\ req'[r].data = req[r].data
         /\ req'[r].payload = req[r].payload /\ req'[r].op = req[r].op
<1>1. ASSUME NEW r \in Requests, NEW i \in RecordIds, NEW op \in {"update", "release"},
             NEW payload, ReadRow(r, op, i, payload)
      PROVE  UpdatesMerge'
  <2>1. /\ req'[r].row = records[i] /\ req'[r].data = Merge(records[i].data, payload)
        /\ req'[r].payload = payload
    BY <1>1 DEF ReadRow, Idle, IInv, TypeOK
  <2>2. \A s \in Requests \ {r} : req'[s] = req[s]
    BY <1>1 DEF ReadRow, IInv, TypeOK
  <2> QED
    BY <2>1, <2>2 DEF UpdatesMerge, Merge, Sent
<1>2. ASSUME NEW r \in Requests, NEW type \in ObjectTypes, NEW payload, NEW code,
             CreateStart(r, type, payload, code)
      PROVE  UpdatesMerge'
  <2>1. req'[r].op = "create" /\ \A s \in Requests \ {r} : req'[s] = req[s]
    BY <1>2 DEF CreateStart, Idle, IInv, TypeOK
  <2> QED
    BY <2>1 DEF UpdatesMerge, Merge, Sent
<1>3. ASSUME \A r \in Requests : Keeps(r) PROVE UpdatesMerge'
  <2> SUFFICES ASSUME NEW r \in Requests, req'[r].op = "update"
               PROVE  req'[r].data = Merge(req'[r].row.data, req'[r].payload)
    BY DEF UpdatesMerge, Merge, Sent
  <2>1. req'[r] # Idle
    BY DEF Idle
  <2>2. /\ req'[r].row = req[r].row /\ req'[r].data = req[r].data
        /\ req'[r].payload = req[r].payload /\ req[r].op = "update"
    BY <1>3, <2>1
  <2> QED
    BY <2>2 DEF UpdatesMerge
<1>4. ASSUME NEW r \in Requests, Done(r) PROVE UpdatesMerge'
  BY <1>3, <1>4 DEF Done, IInv, TypeOK
<1>5. ASSUME UNCHANGED req PROVE UpdatesMerge'
  BY <1>3, <1>5
<1>6. ASSUME NEW r \in Requests, ReadDefinition(r) PROVE UpdatesMerge'
  <2>1. CASE req' = [req EXCEPT ![r].version = Len(versions)]
    <3>1. \A s \in Requests : Keeps(s)
      BY <2>1 DEF IInv, TypeOK, Local
    <3> QED
      BY <1>3, <3>1
  <2> QED
    BY <1>4, <1>6, <2>1 DEF ReadDefinition
<1>7. ASSUME NEW r \in Requests, LockAndValidate(r) PROVE UpdatesMerge'
  <2>1. CASE req' = [req EXCEPT ![r].code = DrawnCode(r), ![r].generated = TRUE]
    <3>1. \A s \in Requests : Keeps(s)
      BY <2>1 DEF IInv, TypeOK, Local
    <3> QED
      BY <1>3, <3>1
  <2> QED
    BY <1>4, <1>5, <1>7, <2>1 DEF LockAndValidate
<1>8. ASSUME NEW r \in Requests, Create(r) PROVE UpdatesMerge'
  BY <1>2, <1>4, <1>8 DEF Create, CreateCommit
<1>9. ASSUME NEW r \in Requests, Change(r) PROVE UpdatesMerge'
  BY <1>1, <1>4, <1>6, <1>9 DEF Change, ReleaseStart, UpdateStart, UpdateCommit, ReleaseSave
<1>10. ASSUME NEW r \in Requests, Validate(r) \/ Rollback(r) PROVE UpdatesMerge'
  BY <1>4, <1>5, <1>10 DEF Validate, Rollback
<1> QED
  BY <1>5, <1>7, <1>8, <1>9, <1>10 DEF Next, PublishConfig, ProjectSync, vars

\* Only its own commit or rollback ends a request that holds the lock.
LEMMA LockedEndsItself ==
  ASSUME IInv, [Next]_vars, NEW r \in Requests,
         pc[r] = "locked", pc'[r] = "idle", req[r].op = "update"
  PROVE  UpdateCommit(r) \/ Rollback(r)
<1>1. ASSUME NEW s \in Requests, s # r, pc' = [pc EXCEPT ![s] = pc'[s]] PROVE FALSE
  BY <1>1 DEF IInv, TypeOK
<1>2. ASSUME NEW s \in Requests, Create(s) PROVE FALSE
  <2>1. pc[s] \in {"idle", "locked"} /\ (s = r => req[s].op = "create")
    BY <1>2 DEF Create, CreateStart, CreateCommit
  <2>2. \E label : pc' = [pc EXCEPT ![s] = label]
    BY <1>2 DEF Create, CreateStart, CreateCommit, Goto, Done
  <2> QED
    BY <2>1, <2>2 DEF IInv, TypeOK
<1>3. ASSUME NEW s \in Requests, Change(s) \/ Validate(s) \/ LockAndValidate(s) \/ Rollback(s)
      PROVE  s = r
  <2>1. pc' = pc \/ \E label : pc' = [pc EXCEPT ![s] = label]
    BY <1>3 DEF Change, ReleaseStart, UpdateStart, ReadRow, ReadDefinition, UpdateCommit, ReleaseSave,
                Validate, LockAndValidate, Rollback, Goto, Done
  <2> QED
    BY <2>1 DEF IInv, TypeOK
<1>4. ASSUME Change(r) \/ Validate(r) \/ LockAndValidate(r) PROVE UpdateCommit(r)
  BY <1>4 DEF Change, ReleaseStart, UpdateStart, ReadRow, ReadDefinition, ReleaseSave, Validate, LockAndValidate
<1> QED
  BY <1>2, <1>3, <1>4 DEF Next, PublishConfig, ProjectSync, vars

\* An update of a row that nobody has written since it was read undoes no
\* release and no field that it was not sent, although it saves every column of
\* what it read before the lock (serializers.py 88-162).
THEOREM UndoingIsAnOverlap == Spec => UndoneByOverlapOnly
<1> DEFINE Kept(r) ==
      LET i == req[r].id IN
      pc[r] = "locked" /\ pc'[r] = "idle" /\ req[r].op = "update" /\ req[r].row = records[i] =>
        /\ records[i].status = "released" => records'[i].status = "released"
        /\ \A f \in FieldKeys \ Sent(req[r].payload) : records'[i].data[f] = records[i].data[f]
<1>1. Init => UpdatesMerge
  BY DEF Init, UpdatesMerge, Idle
<1>2. IInv /\ UpdatesMerge /\ [Next]_vars => UpdatesMerge'
  BY UpdatesMergeStep
<1>3. ASSUME IInv, UpdatesMerge, [Next]_vars, NEW r \in Requests PROVE Kept(r)
  <2> DEFINE i == req[r].id
  <2> SUFFICES ASSUME pc[r] = "locked", pc'[r] = "idle", req[r].op = "update", req[r].row = records[i]
               PROVE  /\ records[i].status = "released" => records'[i].status = "released"
                      /\ \A f \in FieldKeys \ Sent(req[r].payload) : records'[i].data[f] = records[i].data[f]
    OBVIOUS
  <2>1. CASE Rollback(r)
    BY <2>1 DEF Rollback
  <2>2. CASE UpdateCommit(r)
    <3>1. i \in RecordIds /\ records[i] \in Record
      BY <1>3 DEF IInv, TypeOK, RequestOK, Stored
    <3>2. records'[i] = [records[i] EXCEPT !.data = req[r].data, !.version = req[r].version]
      BY <1>3, <2>2, <3>1 DEF UpdateCommit, IInv, TypeOK
    <3>3. records'[i].status = records[i].status /\ records'[i].data = Merge(records[i].data, req[r].payload)
      BY <1>3, <3>1, <3>2 DEF UpdatesMerge, Record
    <3> QED
      BY <3>3 DEF Merge
  <2> QED
    BY <1>3, <2>1, <2>2, LockedEndsItself
<1>4. IInv /\ UpdatesMerge /\ [Next]_vars => \A r \in Requests : Kept(r)
  BY <1>3
<1>5. ([][Next]_vars /\ []IInv /\ []UpdatesMerge) => [][\A r \in Requests : Kept(r)]_vars
  BY <1>4, PTL
<1> QED
  BY <1>1, <1>2, <1>5, Invariance, PTL DEF Spec, UndoneByOverlapOnly
=============================================================================
