---------------------------- MODULE FoldersProofs ----------------------------
(***************************************************************************)
(* For any number of records, requests, scanners and backups: every folder *)
(* has its place, what scans and generations met is reported, and the      *)
(* folders of a completed backup can be restored.                          *)
(***************************************************************************)
EXTENDS Backups, SequenceTheorems, TLAPS

-----------------------------------------------------------------------------
(* The invariant.                                                          *)

Noted == UNION {[P -> Hashes] : P \in SUBSET Places}

Todo == UNION {[K -> Places] : K \in SUBSET FolderKeys}

Reading == [folder : FolderKeys, current : Noted, previous : Noted, since : SUBSET Event]

Task == [todo : Todo, reading : Reading \cup {None}]

DiskTypes ==
  /\ dirs \subseteq Paths /\ removed \subseteq Places /\ unreadable \subseteq Places
  /\ files \in [Paths \X Names -> Hashes \cup {None}]

RecordTypes == awaiting \subseteq created /\ created \subseteq RecordIds

Unique == \A k \in FolderKeys, l \in FolderKeys : folders[k] # None /\ folders[k] = folders[l] => k = l

FolderTypes == folders \in [FolderKeys -> Places \cup {None}] /\ Unique

\* There are two of an event of a file only: events of records are looked for
\* and created in one step.
EventTypes ==
  /\ events \subseteq Event /\ copies \subseteq events
  /\ \A e \in copies : e.type # "collision"

GenerationTypes == generating \in [Requests -> Generation \cup {None}]

ScanTypes == snapshots \in [FolderKeys -> Noted] /\ scans \in [Scanners -> Task \cup {None}]

TypesOK ==
  AccessTypeOK /\ DiskTypes /\ RecordTypes /\ FolderTypes /\ EventTypes /\ GenerationTypes /\ ScanTypes

\* A directory that a request has made is there when its row is written.
OnDisk == {p \in Places : Exists(p)} \cup removed

DiskOK ==
  /\ \A k \in FolderKeys : folders[k] # None => folders[k] \in OnDisk
  /\ \A r \in Requests : generating[r] # None /\ generating[r].made => Place(generating[r].path, None) \in OnDisk

\* Of the requests for a directory, the one that reports is that of the signal.
Handled(record) ==
  \/ folders[<<record, "primary">>] # None
  \/ \E r \in Requests : generating[r] # None /\ generating[r].record = record /\ generating[r].signal
  \/ \E e \in events : e.type = "generation_failed" /\ e.record = record

GenerationsOK == \A record \in created \ (awaiting \cup stopped) : Handled(record)

Parts == {"database", "managed", "configuration"}

Backup == [state : {"running", "completed", "failed"}, todo : Seq(Parts), parts : SUBSET Parts,
           checked : SUBSET Parts, folders : SUBSET Places, dumped : Nat, archived : SUBSET Places,
           configuration : Nat]

\* How far a backup is.
Stage(backup) ==
  \/ backup.todo = BackupOrder /\ backup.parts = {}
  \/ /\ backup.todo = <<"managed", "configuration">> /\ backup.parts = {"database"}
     /\ backup.folders \subseteq OnDisk /\ backup.dumped <= version
  \/ /\ backup.todo = <<"configuration">> /\ backup.parts = {"database", "managed"}
     /\ backup.folders \subseteq backup.archived \cup removed
     /\ backup.dumped <= version
  \/ /\ backup.todo = <<>> /\ backup.parts = Parts
     /\ backup.folders \subseteq backup.archived \cup removed
     /\ backup.dumped <= backup.configuration

Complete(backup) == backup.state = "completed" => backup.todo = <<>> /\ backup.checked = Parts

BackupsOK ==
  /\ version \in Nat
  /\ backups \in [BackupIds -> Backup \cup {None}]
  /\ \A b \in BackupIds : backups[b] # None => Stage(backups[b]) /\ Complete(backups[b])

FInv == TypesOK /\ DiskOK /\ GenerationsOK

IInv == FInv /\ BackupsOK

-----------------------------------------------------------------------------
(* Steps in parts.                                                         *)

\* No event disappears but for its status and its folder.
EventsKept == \A e \in events : \E f \in events' : f.type = e.type /\ f.record = e.record

Step == FInv' /\ OnDisk \subseteq OnDisk' /\ removed \subseteq removed'

LEMMA AccessStays ==
  ASSUME AccessTypeOK, UNCHANGED access
  PROVE  AccessTypeOK'
  BY DEF AccessTypeOK, access

\* What a step leaves alone keeps its types.
LEMMA PartsStay ==
  ASSUME FInv
  PROVE  /\ UNCHANGED access => AccessTypeOK'
         /\ UNCHANGED disk => DiskTypes' /\ UNCHANGED OnDisk /\ UNCHANGED removed
         /\ UNCHANGED <<created, awaiting>> => RecordTypes'
         /\ UNCHANGED folders => FolderTypes'
         /\ UNCHANGED <<events, copies>> => EventTypes' /\ EventsKept
         /\ UNCHANGED generating => GenerationTypes'
         /\ UNCHANGED <<snapshots, scans>> => ScanTypes'
<1>1. UNCHANGED access => AccessTypeOK'
  BY AccessStays DEF FInv, TypesOK
<1>2. UNCHANGED disk => DiskTypes' /\ UNCHANGED OnDisk /\ UNCHANGED removed
  BY DEF FInv, TypesOK, DiskTypes, OnDisk, Exists, disk
<1>3. UNCHANGED <<created, awaiting>> => RecordTypes'
  BY DEF FInv, TypesOK, RecordTypes
<1>4. UNCHANGED folders => FolderTypes'
  BY DEF FInv, TypesOK, FolderTypes, Unique
<1>5. UNCHANGED <<events, copies>> => EventTypes' /\ EventsKept
  BY DEF FInv, TypesOK, EventTypes, EventsKept
<1>6. UNCHANGED generating => GenerationTypes'
  BY DEF FInv, TypesOK, GenerationTypes
<1>7. UNCHANGED <<snapshots, scans>> => ScanTypes'
  BY DEF FInv, TypesOK, ScanTypes
<1> QED
  BY <1>1, <1>2, <1>3, <1>4, <1>5, <1>6, <1>7

LEMMA GenerationsStay ==
  ASSUME FInv, EventsKept, UNCHANGED generating,
         created' \ (awaiting' \cup stopped') \subseteq created \ (awaiting \cup stopped),
         \A k \in FolderKeys : folders[k] # None => folders'[k] # None
  PROVE  GenerationsOK'
<1> SUFFICES ASSUME NEW record \in created' \ (awaiting' \cup stopped') PROVE Handled(record)'
  BY DEF GenerationsOK
<1>1. Handled(record) /\ <<record, "primary">> \in FolderKeys
  BY DEF FInv, TypesOK, RecordTypes, GenerationsOK, FolderKeys
<1> QED
  BY <1>1 DEF Handled, EventsKept

LEMMA DiskStays ==
  ASSUME FInv, UNCHANGED folders, UNCHANGED generating, OnDisk \subseteq OnDisk'
  PROVE  DiskOK'
  BY DEF FInv, DiskOK

LEMMA BackupsStay ==
  ASSUME BackupsOK, UNCHANGED backups, UNCHANGED version,
         OnDisk \subseteq OnDisk', removed \subseteq removed'
  PROVE  BackupsOK'
<1> SUFFICES ASSUME NEW b \in BackupIds, backups[b] # None
             PROVE  Stage(backups[b])' /\ Complete(backups[b])'
  BY DEF BackupsOK
<1>1. Stage(backups[b]) /\ Complete(backups[b])
  BY DEF BackupsOK
<1> QED
  BY <1>1 DEF Stage, Complete

-----------------------------------------------------------------------------
(* Events of records.                                                      *)

LEMMA RecordEventType ==
  ASSUME NEW type \in {"collision", "generation_failed"}, NEW path \in Paths,
         NEW record \in RecordIds, NEW folder \in FolderKeys \cup {None}
  PROVE  /\ RecordEvent(type, path, record, folder) \in Event
         /\ RecordEvent(type, path, record, folder).type = type
         /\ RecordEvent(type, path, record, folder).record = record
<1>1. Place(path, None) \in Places
  BY DEF Place, Places
<1> HIDE DEF Place
<1> QED
  BY <1>1 DEF RecordEvent, Event

LEMMA FailuresAreEvents ==
  ASSUME NEW local \in Generation, NEW path \in Paths
  PROVE  /\ Failures(local, path) \subseteq Event
         /\ GenerationFailed(local) \subseteq Failures(local, path)
         /\ local.signal => \E e \in GenerationFailed(local) : e.type = "generation_failed" /\ e.record = local.record
<1>1. /\ local.record \in RecordIds /\ Root[local.record] \in Paths
  BY FolderAssumption DEF Generation
<1>2. RecordEvent("collision", path, local.record, None) \in Event
  BY <1>1, RecordEventType
<1> DEFINE failed == RecordEvent("generation_failed", Root[local.record], local.record, None)
<1>3. failed \in Event /\ failed.type = "generation_failed" /\ failed.record = local.record
  BY <1>1, RecordEventType
<1>4. GenerationFailed(local) = IF local.signal THEN {failed} ELSE {}
  BY DEF GenerationFailed
<1> HIDE DEF failed
<1> QED
  BY <1>2, <1>3, <1>4 DEF Failures

\* An event that is not created again was there.
LEMMA RecordEventsReported ==
  ASSUME FInv, NEW new \in SUBSET Event, events' = WithRecordEvents(new), UNCHANGED copies
  PROVE  /\ EventTypes' /\ EventsKept
         /\ \A e \in new : \E f \in events' : f.type = e.type /\ f.record = e.record
<1>1. events \subseteq events' /\ \A f \in events' : f \in events \/ f \in new
  BY DEF WithRecordEvents
<1>2. EventTypes' /\ EventsKept
  BY <1>1 DEF FInv, TypesOK, EventTypes, EventsKept
<1>3. ASSUME NEW e \in new
      PROVE  \E f \in events' : f.type = e.type /\ f.record = e.record
  <2>1. CASE \A f \in events : ~SameRecordEvent(e, f)
    BY <2>1 DEF WithRecordEvents
  <2>2. CASE \E f \in events : SameRecordEvent(e, f)
    BY <1>1, <2>2 DEF SameRecordEvent
  <2> QED
    BY <2>1, <2>2
<1> QED
  BY <1>2, <1>3

-----------------------------------------------------------------------------
(* Generations.                                                            *)

LEMMA StartGenerateInv ==
  ASSUME FInv, NEW r \in Requests, NEW record \in RecordIds, NEW signal \in BOOLEAN,
         StartGenerate(r, record, signal),
         awaiting' = awaiting \/ (signal = TRUE /\ awaiting' = awaiting \ {record})
  PROVE  Step
<1> DEFINE local == Chosen(record, signal)
<1>1. /\ local \in Generation /\ local.record = record /\ local.signal = signal /\ ~local.made
      /\ local.path \in dirs => local.collision \in Paths
  BY FolderAssumption DEF Chosen, Generation
<1>2. /\ generating[r] = None
      /\ \/ Finished(record) /\ UNCHANGED <<events, generating>>
         \/ events' = WithRecordEvents(Failures(local, local.collision)) /\ local.path \in dirs /\ UNCHANGED generating
         \/ UNCHANGED events /\ generating' = [generating EXCEPT ![r] = local]
      /\ UNCHANGED <<access, disk, created, folders, snapshots, copies, documents, scans, stopped>>
  BY DEF StartGenerate
<1> HIDE DEF local
<1>3. /\ AccessTypeOK' /\ DiskTypes' /\ FolderTypes' /\ ScanTypes'
      /\ UNCHANGED OnDisk /\ UNCHANGED removed
  BY <1>2, PartsStay
<1>4. RecordTypes'
  BY <1>2 DEF FInv, TypesOK, RecordTypes
<1>5. /\ EventTypes' /\ EventsKept
      /\ \/ UNCHANGED events /\ generating' = [generating EXCEPT ![r] = local]
         \/ /\ UNCHANGED generating
            /\ \/ Finished(record)
               \/ signal => \E f \in events' : f.type = "generation_failed" /\ f.record = record
  <2>1. CASE /\ UNCHANGED events
             /\ (Finished(record) /\ UNCHANGED generating) \/ generating' = [generating EXCEPT ![r] = local]
    BY <1>2, <2>1, PartsStay
  <2>2. CASE events' = WithRecordEvents(Failures(local, local.collision)) /\ local.path \in dirs /\ UNCHANGED generating
    <3>1. /\ Failures(local, local.collision) \in SUBSET Event
          /\ signal => \E e \in Failures(local, local.collision) : e.type = "generation_failed" /\ e.record = record
      BY <1>1, <2>2, FailuresAreEvents
    <3>2. /\ EventTypes' /\ EventsKept
          /\ \A e \in Failures(local, local.collision) : \E f \in events' : f.type = e.type /\ f.record = e.record
      BY <1>2, <2>2, <3>1, RecordEventsReported
    <3> QED
      BY <2>2, <3>1, <3>2
  <2> QED
    BY <1>2, <2>1, <2>2
<1>6. GenerationTypes'
  BY <1>1, <1>5 DEF FInv, TypesOK, GenerationTypes
<1>7. DiskOK'
  <2>1. \A q \in Requests : generating'[q] = generating[q] \/ generating'[q] = local
    BY <1>5 DEF FInv, TypesOK, GenerationTypes
  <2> QED
    BY <1>1, <1>2, <1>3, <2>1 DEF FInv, DiskOK
<1>8. GenerationsOK'
  <2> SUFFICES ASSUME NEW rec \in created \ (awaiting' \cup stopped) PROVE Handled(rec)'
    BY <1>2 DEF GenerationsOK
  <2>1. \A q \in Requests : generating[q] # None => generating'[q] = generating[q]
    BY <1>2, <1>5 DEF FInv, TypesOK, GenerationTypes
  <2>2. CASE rec \notin awaiting
    <3>1. Handled(rec)
      BY <2>2 DEF FInv, GenerationsOK
    <3> QED
      BY <1>2, <1>5, <2>1, <3>1 DEF Handled, EventsKept
  <2>3. CASE rec = record /\ signal
    <3>1. local # None
      BY <1>1, FolderAssumption
    <3>2. CASE generating' = [generating EXCEPT ![r] = local]
      BY <1>1, <2>3, <3>1, <3>2 DEF Handled, FInv, TypesOK, GenerationTypes
    <3>3. CASE Finished(record)
      BY <1>2, <2>3, <3>3 DEF Handled, Finished
    <3> QED
      BY <1>5, <2>3, <3>2, <3>3 DEF Handled
  <2> QED
    BY <2>2, <2>3
<1> QED
  BY <1>3, <1>4, <1>5, <1>6, <1>7, <1>8 DEF FInv, TypesOK, Step

LEMMA CreateRecordInv ==
  ASSUME FInv, NEW record \in RecordIds, CreateRecord(record)
  PROVE  Step
<1>1. /\ created' = created \cup {record} /\ awaiting' = awaiting \cup {record}
      /\ UNCHANGED <<access, disk, folders, snapshots, events, copies, generating, scans, stopped>>
  BY DEF CreateRecord
<1>2. /\ AccessTypeOK' /\ DiskTypes' /\ FolderTypes' /\ EventTypes' /\ GenerationTypes' /\ ScanTypes'
      /\ EventsKept /\ UNCHANGED OnDisk /\ UNCHANGED removed
  BY <1>1, PartsStay
<1>3. RecordTypes'
  BY <1>1 DEF FInv, TypesOK, RecordTypes
<1>4. DiskOK' /\ GenerationsOK'
  BY <1>1, <1>2, DiskStays, GenerationsStay
<1> QED
  BY <1>2, <1>3, <1>4 DEF FInv, TypesOK, Step

LEMMA LoseSignalInv ==
  ASSUME FInv, NEW record \in RecordIds, LoseSignal(record)
  PROVE  Step
<1>1. /\ awaiting' = awaiting \ {record} /\ stopped' = stopped \cup {record}
      /\ UNCHANGED <<access, disk, created, folders, snapshots, events, copies, generating, scans>>
  BY DEF LoseSignal, rows
<1>2. /\ AccessTypeOK' /\ DiskTypes' /\ FolderTypes' /\ EventTypes' /\ GenerationTypes' /\ ScanTypes'
      /\ EventsKept /\ UNCHANGED OnDisk /\ UNCHANGED removed
  BY <1>1, PartsStay
<1>3. RecordTypes'
  BY <1>1 DEF FInv, TypesOK, RecordTypes
<1>4. DiskOK' /\ GenerationsOK'
  BY <1>1, <1>2, DiskStays, GenerationsStay
<1> QED
  BY <1>2, <1>3, <1>4 DEF FInv, TypesOK, Step

\* A generation ends with a folder, with a report, or with its process.
LEMMA GenerationEnds ==
  ASSUME FInv, NEW r \in Requests, generating[r] # None, EventsKept, UNCHANGED <<created, awaiting>>,
         generating' = [generating EXCEPT ![r] = None], stopped \subseteq stopped',
         \A k \in FolderKeys : folders[k] # None => folders'[k] # None,
         \/ folders'[<<generating[r].record, "primary">>] # None
         \/ generating[r].signal =>
              \/ generating[r].record \in stopped'
              \/ \E e \in events' : e.type = "generation_failed" /\ e.record = generating[r].record
  PROVE  GenerationsOK'
<1>1. generating \in [Requests -> Generation \cup {None}] /\ created \subseteq RecordIds
  BY DEF FInv, TypesOK, GenerationTypes, RecordTypes
<1> SUFFICES ASSUME NEW record \in created \ (awaiting \cup stopped') PROVE Handled(record)'
  BY DEF GenerationsOK
<1>2. Handled(record)
  BY DEF FInv, GenerationsOK
<1>3. <<record, "primary">> \in FolderKeys
  BY <1>1 DEF FolderKeys
<1>4. CASE generating[r].record = record /\ generating[r].signal
  BY <1>4 DEF Handled
<1>5. CASE ~(generating[r].record = record /\ generating[r].signal)
  <2>1. \A q \in Requests : q # r => generating'[q] = generating[q]
    BY <1>1
  <2> QED
    BY <1>2, <1>3, <1>5, <2>1 DEF Handled, EventsKept
<1> QED
  BY <1>4, <1>5

LEMMA MakeDirectoryInv ==
  ASSUME FInv, NEW r \in Requests, MakeDirectory(r)
  PROVE  Step
<1> DEFINE local == generating[r]
           path == IF local.collision = None THEN local.path ELSE local.collision
           above == {p \in Paths : <<p, local.path>> \in Below}
<1>1. GenerationTypes /\ DiskTypes
  BY DEF FInv, TypesOK
<1>2. /\ local # None /\ ~local.made
      /\ \/ /\ events' = WithRecordEvents(Failures(local, path))
            /\ generating' = [generating EXCEPT ![r] = None] /\ UNCHANGED dirs
         \/ /\ dirs' = dirs \cup {local.path} \cup above /\ UNCHANGED events
            /\ generating' = [generating EXCEPT ![r].made = TRUE]
      /\ UNCHANGED <<access, files, unreadable, removed, created, awaiting, folders, snapshots, copies, scans, stopped>>
  BY DEF MakeDirectory
<1>3. local \in Generation /\ path \in Paths /\ local.path \in Paths /\ above \subseteq Paths
  BY <1>1, <1>2 DEF Generation, GenerationTypes
<1> HIDE DEF path, above
<1>4. /\ EventTypes' /\ EventsKept
      /\ \/ /\ generating' = [generating EXCEPT ![r] = None]
            /\ local.signal => \E f \in events' : f.type = "generation_failed" /\ f.record = local.record
         \/ generating' = [generating EXCEPT ![r].made = TRUE] /\ local.path \in dirs'
  <2>1. CASE UNCHANGED events /\ dirs' = dirs \cup {local.path} \cup above /\ generating' = [generating EXCEPT ![r].made = TRUE]
    BY <1>2, <2>1, PartsStay
  <2>2. CASE events' = WithRecordEvents(Failures(local, path)) /\ generating' = [generating EXCEPT ![r] = None]
    <3> HIDE DEF local
    <3>1. /\ Failures(local, path) \in SUBSET Event
          /\ local.signal => \E e \in Failures(local, path) : e.type = "generation_failed" /\ e.record = local.record
      BY <1>3, FailuresAreEvents
    <3>2. /\ EventTypes' /\ EventsKept
          /\ \A e \in Failures(local, path) : \E f \in events' : f.type = e.type /\ f.record = e.record
      BY <1>2, <2>2, <3>1, RecordEventsReported
    <3> QED
      BY <2>2, <3>1, <3>2
  <2> QED
    BY <1>2, <2>1, <2>2
<1>5. AccessTypeOK' /\ RecordTypes' /\ FolderTypes' /\ ScanTypes'
  BY <1>2, PartsStay
<1>6. DiskTypes' /\ OnDisk \subseteq OnDisk' /\ UNCHANGED removed
  <2>1. dirs' \subseteq Paths /\ dirs \subseteq dirs'
    BY <1>1, <1>2, <1>3 DEF DiskTypes
  <2> QED
    BY <1>1, <1>2, <2>1 DEF DiskTypes, OnDisk, Exists
<1>7. GenerationTypes'
  BY <1>1, <1>2, <1>3 DEF Generation, GenerationTypes
<1>8. DiskOK'
  <2>1. ASSUME NEW q \in Requests, generating'[q] # None, generating'[q].made
        PROVE  Place(generating'[q].path, None) \in OnDisk'
    <3>1. CASE q = r
      <4>1. generating' = [generating EXCEPT ![r].made = TRUE] /\ local.path \in dirs'
        BY <1>1, <1>4, <2>1, <3>1 DEF GenerationTypes
      <4>2. generating'[q].path = local.path
        BY <1>1, <1>2, <1>3, <3>1, <4>1 DEF GenerationTypes, Generation
      <4> QED
        BY <1>3, <4>1, <4>2 DEF OnDisk, Exists, Place, Places
    <3>2. CASE q # r
      <4>1. generating'[q] = generating[q]
        BY <1>1, <1>4, <3>2 DEF GenerationTypes
      <4> QED
        BY <1>6, <2>1, <4>1 DEF FInv, DiskOK
    <3> QED
      BY <3>1, <3>2
  <2> QED
    BY <1>2, <1>6, <2>1 DEF FInv, DiskOK
<1>9. GenerationsOK'
  <2>1. CASE /\ generating' = [generating EXCEPT ![r] = None]
             /\ local.signal => \E f \in events' : f.type = "generation_failed" /\ f.record = local.record
    BY <1>2, <1>4, <2>1, GenerationEnds
  <2>2. CASE generating' = [generating EXCEPT ![r].made = TRUE]
    <3>1. \A q \in Requests : generating[q] # None =>
            /\ generating'[q] # None /\ generating'[q].record = generating[q].record
            /\ generating'[q].signal = generating[q].signal
      <4>1. generating'[r] \in Generation /\ generating'[r].record = local.record /\ generating'[r].signal = local.signal
        BY <1>1, <1>2, <1>3, <2>2 DEF Generation, GenerationTypes
      <4>2. \A q \in Requests : q # r => generating'[q] = generating[q]
        BY <1>1, <2>2 DEF GenerationTypes
      <4> QED
        BY <4>1, <4>2, FolderAssumption
    <3> SUFFICES ASSUME NEW record \in created \ (awaiting \cup stopped) PROVE Handled(record)'
      BY <1>2 DEF GenerationsOK
    <3>2. Handled(record)
      BY DEF FInv, GenerationsOK
    <3> QED
      BY <1>2, <1>4, <3>1, <3>2 DEF Handled, EventsKept
  <2> QED
    BY <1>4, <2>1, <2>2
<1> QED
  BY <1>4, <1>5, <1>6, <1>7, <1>8, <1>9 DEF FInv, TypesOK, Step

LEMMA CommitFolderInv ==
  ASSUME FInv, NEW r \in Requests, CommitFolder(r)
  PROVE  Step
<1> DEFINE local == generating[r]
           key == <<local.record, "primary">>
           place == Place(local.path, None)
           collision == RecordEvent("collision", local.collision, local.record, key)
           linked(e) == IF SameRecordEvent(e, collision) /\ e.folder = None THEN [e EXCEPT !.folder = key] ELSE e
<1>1. GenerationTypes /\ FolderTypes /\ EventTypes
  BY DEF FInv, TypesOK
<1>2. /\ local # None /\ local.made
      /\ \/ PlaceTaken(key, place) /\ events' = WithRecordEvents(GenerationFailed(local)) /\ UNCHANGED folders
         \/ /\ ~PlaceTaken(key, place) /\ folders' = [folders EXCEPT ![key] = place]
            /\ events' = IF local.collision = None THEN events
                         ELSE {linked(e) : e \in WithRecordEvents({collision})}
      /\ generating' = [generating EXCEPT ![r] = None]
      /\ UNCHANGED <<access, disk, created, awaiting, snapshots, copies, scans, stopped>>
  BY DEF CommitFolder, ReadyToCommit
<1>3. local \in Generation /\ key \in FolderKeys /\ place \in Places /\ place # None
  BY <1>1, <1>2, FolderAssumption DEF Generation, GenerationTypes, FolderKeys, Place, Places
<1> HIDE DEF place
<1>4. /\ EventTypes' /\ EventsKept
      /\ \/ /\ UNCHANGED folders
            /\ local.signal => \E f \in events' : f.type = "generation_failed" /\ f.record = local.record
         \/ ~PlaceTaken(key, place) /\ folders' = [folders EXCEPT ![key] = place]
  <2> HIDE DEF local
  <2>1. CASE events' = WithRecordEvents(GenerationFailed(local)) /\ UNCHANGED folders
    <3>1. PICK path \in Paths : TRUE
      BY <1>3 DEF Generation
    <3>2. /\ GenerationFailed(local) \in SUBSET Event
          /\ local.signal => \E e \in GenerationFailed(local) : e.type = "generation_failed" /\ e.record = local.record
      BY <1>3, <3>1, FailuresAreEvents
    <3>3. /\ EventTypes' /\ EventsKept
          /\ \A e \in GenerationFailed(local) : \E f \in events' : f.type = e.type /\ f.record = e.record
      BY <1>2, <2>1, <3>2, RecordEventsReported
    <3> QED
      BY <2>1, <3>2, <3>3
  <2>2. CASE UNCHANGED events /\ ~PlaceTaken(key, place) /\ folders' = [folders EXCEPT ![key] = place]
    BY <1>2, <2>2, PartsStay
  <2>3. CASE /\ local.collision # None /\ events' = {linked(e) : e \in WithRecordEvents({collision})}
             /\ ~PlaceTaken(key, place) /\ folders' = [folders EXCEPT ![key] = place]
    <3>1. local.collision \in Paths /\ local.record \in RecordIds
      BY <1>3, <2>3 DEF Generation
    <3>2. collision \in Event /\ collision.type = "collision"
      BY <1>3, <3>1, RecordEventType
    <3> HIDE DEF collision, key
    <3>3. \A e \in Event : /\ linked(e) \in Event /\ linked(e).type = e.type /\ linked(e).record = e.record
                           /\ e.type # "collision" => linked(e) = e
      BY <1>3, <3>2 DEF Event, SameRecordEvent
    <3> HIDE DEF linked
    <3>4. /\ events \subseteq WithRecordEvents({collision})
          /\ \A e \in WithRecordEvents({collision}) : e \in events \/ e = collision
      BY DEF WithRecordEvents
    <3>5. events' \subseteq Event
      BY <1>1, <2>3, <3>2, <3>3, <3>4 DEF EventTypes
    <3>6. EventsKept
      BY <1>1, <2>3, <3>3, <3>4 DEF EventsKept, EventTypes
    <3>7. copies \subseteq events'
      <4> SUFFICES ASSUME NEW e \in copies PROVE e \in events'
        OBVIOUS
      <4>1. linked(e) = e /\ e \in WithRecordEvents({collision})
        BY <1>1, <3>3, <3>4 DEF EventTypes
      <4> QED
        BY <2>3, <4>1
    <3>8. EventTypes'
      BY <1>1, <1>2, <3>5, <3>7 DEF EventTypes
    <3> QED
      BY <2>3, <3>6, <3>8
  <2> QED
    BY <1>2, <2>1, <2>2, <2>3
<1> HIDE DEF collision, linked
<1>5. \A k \in FolderKeys : folders[k] # None => folders'[k] # None
  BY <1>1, <1>3, <1>4 DEF FolderTypes
<1>6. GenerationTypes'
  BY <1>1, <1>2 DEF GenerationTypes
<1>7. AccessTypeOK' /\ DiskTypes' /\ RecordTypes' /\ ScanTypes' /\ UNCHANGED OnDisk /\ UNCHANGED removed
  BY <1>2, PartsStay
<1> HIDE DEF key
<1>8. FolderTypes'
  <2>1. CASE UNCHANGED folders
    BY <2>1, PartsStay
  <2>2. CASE ~PlaceTaken(key, place) /\ folders' = [folders EXCEPT ![key] = place]
    BY <1>1, <1>3, <2>2 DEF FolderTypes, Unique, PlaceTaken
  <2> QED
    BY <1>4, <2>1, <2>2
<1>9. DiskOK'
  <2>1. place \in OnDisk
    BY <1>2 DEF FInv, DiskOK, place
  <2>2. \A k \in FolderKeys : folders'[k] # None => folders'[k] \in OnDisk
    BY <1>1, <1>3, <1>4, <2>1 DEF FInv, DiskOK, FolderTypes
  <2>3. \A q \in Requests : generating'[q] # None => generating'[q] = generating[q]
    BY <1>1, <1>2 DEF GenerationTypes
  <2> QED
    BY <1>7, <2>2, <2>3 DEF FInv, DiskOK
<1>10. GenerationsOK'
  <2>1. \/ folders'[key] # None
        \/ local.signal => \E f \in events' : f.type = "generation_failed" /\ f.record = local.record
    BY <1>1, <1>3, <1>4 DEF FolderTypes
  <2> QED
    BY <1>2, <1>4, <1>5, <2>1, GenerationEnds DEF key
<1> QED
  BY <1>4, <1>6, <1>7, <1>8, <1>9, <1>10 DEF FInv, TypesOK, Step

LEMMA StopGenerateInv ==
  ASSUME FInv, NEW r \in Requests, StopGenerate(r)
  PROVE  Step
<1>1. GenerationTypes
  BY DEF FInv, TypesOK
<1>2. /\ generating[r] # None
      /\ generating' = [generating EXCEPT ![r] = None]
      /\ stopped' = IF generating[r].signal THEN stopped \cup {generating[r].record} ELSE stopped
      /\ UNCHANGED <<access, disk, created, awaiting, folders, snapshots, events, copies, scans>>
  BY DEF StopGenerate, rows
<1>3. /\ AccessTypeOK' /\ DiskTypes' /\ RecordTypes' /\ FolderTypes' /\ EventTypes' /\ ScanTypes'
      /\ EventsKept /\ UNCHANGED OnDisk /\ UNCHANGED removed
  BY <1>2, PartsStay
<1>4. GenerationTypes'
  BY <1>1, <1>2 DEF GenerationTypes
<1>5. DiskOK'
  <2>1. \A q \in Requests : generating'[q] # None => generating'[q] = generating[q]
    BY <1>1, <1>2 DEF GenerationTypes
  <2> QED
    BY <1>2, <1>3, <2>1 DEF FInv, DiskOK
<1>6. GenerationsOK'
  BY <1>2, <1>3, GenerationEnds
<1> QED
  BY <1>3, <1>4, <1>5, <1>6 DEF FInv, TypesOK, Step

-----------------------------------------------------------------------------
(* Scans.                                                                  *)

LEMMA NotedFacts ==
  ASSUME NEW noted \in Noted
  PROVE  DOMAIN noted \subseteq Places /\ \A p \in DOMAIN noted : noted[p] \in Hashes
  BY DEF Noted

LEMMA FileEventType ==
  ASSUME NEW type \in {"added", "modified", "deleted", "moved"}, NEW place \in Places,
         NEW from \in Places \cup {None}, NEW hash \in Hashes, NEW key \in FolderKeys
  PROVE  /\ FileEvent(type, place, from, hash, key) \in Event
         /\ FileEvent(type, place, from, hash, key).type = type
         /\ FileEvent(type, place, from, hash, key).place = place
         /\ FileEvent(type, place, from, hash, key).from = from
         /\ FileEvent(type, place, from, hash, key).hash = hash
         /\ FileEvent(type, place, from, hash, key).status = "pending"
<1>1. key[1] \in RecordIds
  BY DEF FolderKeys
<1> QED
  BY <1>1 DEF FileEvent, Event

LEMMA MovesAreMoves ==
  ASSUME NEW previous, NEW current, NEW m \in Moves(previous, current)
  PROVE  m \in Deleted(previous, current) \X Added(previous, current) /\ previous[m[1]] = current[m[2]]
  BY DEF Moves

\* Every file that is not as it was is reported as it was or as it is.
LEMMA DifferencesReport ==
  ASSUME NEW key \in FolderKeys, NEW previous \in Noted, NEW current \in Noted
  PROVE  /\ Differences(key, previous, current) \subseteq Event
         /\ \A e \in Differences(key, previous, current) : e.type # "collision"
         /\ \A p \in Places :
              \/ HashAt(previous, p) = HashAt(current, p)
              \/ \E e \in Differences(key, previous, current) :
                   Reports(e, p, HashAt(previous, p), HashAt(current, p))
<1> DEFINE moves == Moves(previous, current)
           moved == {FileEvent("moved", m[2], m[1], current[m[2]], key) : m \in moves}
           added == {FileEvent("added", p, None, current[p], key) :
                       p \in {q \in Added(previous, current) : \A m \in moves : m[2] # q}}
           modified == {FileEvent("modified", p, None, current[p], key) :
                          p \in {q \in DOMAIN current \cap DOMAIN previous : current[q] # previous[q]}}
           deleted == {FileEvent("deleted", p, None, previous[p], key) :
                         p \in {q \in Deleted(previous, current) : \A m \in moves : m[1] # q}}
           found == Differences(key, previous, current)
<1>1. found = moved \cup added \cup modified \cup deleted
  BY DEF Differences
<1>2. \A m \in moves : m[1] \in Deleted(previous, current) /\ m[2] \in Added(previous, current) /\ previous[m[1]] = current[m[2]]
  BY MovesAreMoves
<1>3. /\ Added(previous, current) \subseteq DOMAIN current /\ Deleted(previous, current) \subseteq DOMAIN previous
      /\ \A p \in DOMAIN current : p \in DOMAIN previous \/ p \in Added(previous, current)
      /\ \A p \in DOMAIN previous : p \in DOMAIN current \/ p \in Deleted(previous, current)
      /\ \A p \in Added(previous, current) : p \notin DOMAIN previous
      /\ \A p \in Deleted(previous, current) : p \notin DOMAIN current
  BY DEF Added, Deleted
<1>4. /\ DOMAIN current \subseteq Places /\ \A p \in DOMAIN current : current[p] \in Hashes
      /\ DOMAIN previous \subseteq Places /\ \A p \in DOMAIN previous : previous[p] \in Hashes
  BY NotedFacts
<1> HIDE DEF moves
<1>5. \A e \in moved : e \in Event /\ e.type # "collision"
  <2> SUFFICES ASSUME NEW m \in moves
               PROVE  /\ FileEvent("moved", m[2], m[1], current[m[2]], key) \in Event
                      /\ FileEvent("moved", m[2], m[1], current[m[2]], key).type # "collision"
    OBVIOUS
  <2>1. m[1] \in Places /\ m[2] \in Places /\ current[m[2]] \in Hashes
    BY <1>2, <1>3, <1>4
  <2> QED
    BY <2>1, FileEventType
<1>6. \A e \in added : e \in Event /\ e.type # "collision"
  <2> SUFFICES ASSUME NEW p \in Added(previous, current)
               PROVE  /\ FileEvent("added", p, None, current[p], key) \in Event
                      /\ FileEvent("added", p, None, current[p], key).type # "collision"
    OBVIOUS
  <2>1. p \in Places /\ current[p] \in Hashes
    BY <1>3, <1>4
  <2> HIDE DEF moved, added, modified, deleted, found
  <2> QED
    BY <2>1, FileEventType
<1>7. \A e \in modified : e \in Event /\ e.type # "collision"
  <2> SUFFICES ASSUME NEW p \in DOMAIN current \cap DOMAIN previous
               PROVE  /\ FileEvent("modified", p, None, current[p], key) \in Event
                      /\ FileEvent("modified", p, None, current[p], key).type # "collision"
    OBVIOUS
  <2>1. p \in Places /\ current[p] \in Hashes
    BY <1>4
  <2> HIDE DEF moved, added, modified, deleted, found
  <2> QED
    BY <2>1, FileEventType
<1>8. \A e \in deleted : e \in Event /\ e.type # "collision"
  <2> SUFFICES ASSUME NEW p \in Deleted(previous, current)
               PROVE  /\ FileEvent("deleted", p, None, previous[p], key) \in Event
                      /\ FileEvent("deleted", p, None, previous[p], key).type # "collision"
    OBVIOUS
  <2>1. p \in Places /\ previous[p] \in Hashes
    BY <1>3, <1>4
  <2> HIDE DEF moved, added, modified, deleted, found
  <2> QED
    BY <2>1, FileEventType
<1>9. ASSUME NEW p \in Places
      PROVE  \/ HashAt(previous, p) = HashAt(current, p)
             \/ \E e \in found : Reports(e, p, HashAt(previous, p), HashAt(current, p))
  <2>1. CASE p \notin DOMAIN current /\ p \notin DOMAIN previous
    BY <2>1 DEF HashAt
  <2>2. CASE p \in Added(previous, current)
    <3>1. HashAt(previous, p) = None /\ HashAt(current, p) = current[p] /\ current[p] # None /\ current[p] \in Hashes
      BY <1>3, <1>4, <2>2, FolderAssumption DEF HashAt
    <3>2. CASE \E m \in moves : m[2] = p
      <4>1. PICK m \in moves : m[2] = p
        BY <3>2
      <4>2. m[1] \in Places
        BY <1>2, <1>3, <1>4
      <4> DEFINE e == FileEvent("moved", p, m[1], current[p], key)
      <4>3. e.type = "moved" /\ e.place = p /\ e.hash = current[p] /\ e.status = "pending"
        BY <3>1, <4>2, FileEventType
      <4>4. e \in moved
        BY <4>1
      <4> HIDE DEF moved, added, modified, deleted, found, e
      <4>5. Reports(e, p, HashAt(previous, p), HashAt(current, p))
        BY <3>1, <4>3 DEF Reports
      <4> QED
        BY <1>1, <4>4, <4>5
    <3>3. CASE \A m \in moves : m[2] # p
      <4> DEFINE e == FileEvent("added", p, None, current[p], key)
      <4>1. e.type = "added" /\ e.place = p /\ e.hash = current[p] /\ e.status = "pending"
        BY <3>1, FileEventType
      <4>2. e \in added
        BY <2>2, <3>3
      <4> HIDE DEF moved, added, modified, deleted, found, e
      <4>3. Reports(e, p, HashAt(previous, p), HashAt(current, p))
        BY <3>1, <4>1 DEF Reports
      <4> QED
        BY <1>1, <4>2, <4>3
    <3> QED
      BY <3>2, <3>3
  <2>3. CASE p \in Deleted(previous, current)
    <3>1. HashAt(current, p) = None /\ HashAt(previous, p) = previous[p] /\ previous[p] # None /\ previous[p] \in Hashes
      BY <1>3, <1>4, <2>3, FolderAssumption DEF HashAt
    <3>2. CASE \E m \in moves : m[1] = p
      <4>1. PICK m \in moves : m[1] = p
        BY <3>2
      <4>2. m[2] \in Places /\ current[m[2]] \in Hashes /\ current[m[2]] = previous[p]
        BY <1>2, <1>3, <1>4, <4>1
      <4> DEFINE e == FileEvent("moved", m[2], p, current[m[2]], key)
      <4>3. e.type = "moved" /\ e.from = p /\ e.hash = previous[p] /\ e.status = "pending"
        BY <4>2, FileEventType
      <4>4. e \in moved
        BY <4>1
      <4> HIDE DEF moved, added, modified, deleted, found, e
      <4>5. Reports(e, p, HashAt(previous, p), HashAt(current, p))
        BY <3>1, <4>3 DEF Reports
      <4> QED
        BY <1>1, <4>4, <4>5
    <3>3. CASE \A m \in moves : m[1] # p
      <4> DEFINE e == FileEvent("deleted", p, None, previous[p], key)
      <4>1. e.type = "deleted" /\ e.place = p /\ e.hash = previous[p] /\ e.status = "pending"
        BY <3>1, FileEventType
      <4>2. e \in deleted
        BY <2>3, <3>3
      <4> HIDE DEF moved, added, modified, deleted, found, e
      <4>3. Reports(e, p, HashAt(previous, p), HashAt(current, p))
        BY <3>1, <4>1 DEF Reports
      <4> QED
        BY <1>1, <4>2, <4>3
    <3> QED
      BY <3>2, <3>3
  <2>4. CASE p \in DOMAIN current /\ p \in DOMAIN previous
    <3>1. /\ HashAt(current, p) = current[p] /\ HashAt(previous, p) = previous[p]
          /\ current[p] \in Hashes /\ current[p] # None /\ previous[p] # None
      BY <1>4, <2>4, FolderAssumption DEF HashAt
    <3>2. CASE current[p] # previous[p]
      <4> DEFINE e == FileEvent("modified", p, None, current[p], key)
      <4>1. e.type = "modified" /\ e.place = p /\ e.hash = current[p] /\ e.status = "pending"
        BY <3>1, FileEventType
      <4>2. e \in modified
        BY <2>4, <3>2
      <4> HIDE DEF moved, added, modified, deleted, found, e
      <4>3. Reports(e, p, HashAt(previous, p), HashAt(current, p))
        BY <3>1, <4>1 DEF Reports
      <4> QED
        BY <1>1, <4>2, <4>3
    <3> QED
      BY <3>1, <3>2
  <2> QED
    BY <1>3, <2>1, <2>2, <2>3, <2>4
<1> HIDE DEF moved, added, modified, deleted
<1> QED
  BY <1>1, <1>5, <1>6, <1>7, <1>8, <1>9

LEMMA CurrentIsNoted ==
  ASSUME FInv, NEW place \in Places
  PROVE  Current(place) \in Noted
<1> DEFINE found == {f \in Paths \X Names : /\ place.name = None /\ place.path \in dirs
                                            /\ f[1] \in Within(place.path) /\ files[f] # None}
           D == {Place(f[1], f[2]) : f \in found}
<1>1. files \in [Paths \X Names -> Hashes \cup {None}]
  BY DEF FInv, TypesOK, DiskTypes
<1>2. ASSUME NEW p \in D
      PROVE  p \in Places /\ files[<<p.path, p.name>>] \in Hashes
  <2>1. PICK f \in found : p = Place(f[1], f[2])
    OBVIOUS
  <2>2. f \in Paths \X Names /\ files[f] # None
    OBVIOUS
  <2>3. p.path = f[1] /\ p.name = f[2] /\ p \in Places /\ f = <<f[1], f[2]>>
    BY <2>1, <2>2 DEF Place, Places
  <2> QED
    BY <1>1, <2>2, <2>3
<1>3. Current(place) = [p \in D |-> files[<<p.path, p.name>>]]
  BY DEF Current
<1> HIDE DEF D
<1>4. Current(place) \in [D -> Hashes] /\ D \in SUBSET Places
  BY <1>2, <1>3
<1> QED
  BY <1>4 DEF Noted

\* A step of a scanner that only changes what it has read.
LEMMA ScanInv ==
  ASSUME FInv, scans' \in [Scanners -> Task \cup {None}], UNCHANGED <<access, disk, rows, awaiting, generating, stopped>>
  PROVE  Step
<1>1. UNCHANGED <<access, disk, created, awaiting, folders, snapshots, events, copies, generating, stopped>>
  BY DEF rows
<1>2. /\ AccessTypeOK' /\ DiskTypes' /\ RecordTypes' /\ FolderTypes' /\ EventTypes' /\ GenerationTypes'
      /\ EventsKept /\ UNCHANGED OnDisk /\ UNCHANGED removed
  BY <1>1, PartsStay
<1>3. ScanTypes'
  BY <1>1 DEF FInv, TypesOK, ScanTypes
<1>4. DiskOK' /\ GenerationsOK'
  BY <1>1, <1>2, DiskStays, GenerationsStay
<1> QED
  BY <1>2, <1>3, <1>4 DEF FInv, TypesOK, Step

LEMMA StartTaskInv ==
  ASSUME FInv, NEW s \in Scanners, StartTask(s)
  PROVE  Step
<1> DEFINE K == {l \in FolderKeys : folders[l] # None}
           task == [todo |-> [k \in K |-> folders[k]], reading |-> None]
<1>1. /\ scans' = [scans EXCEPT ![s] = task]
      /\ UNCHANGED <<access, disk, rows, awaiting, generating, stopped>>
  BY DEF StartTask
<1>2. task \in Task
  <2>1. \A k \in K : folders[k] \in Places
    BY DEF FInv, TypesOK, FolderTypes
  <2>2. [k \in K |-> folders[k]] \in [K -> Places] /\ K \in SUBSET FolderKeys
    BY <2>1
  <2> HIDE DEF K
  <2>3. [k \in K |-> folders[k]] \in Todo
    BY <2>2 DEF Todo
  <2> QED
    BY <2>3 DEF Task
<1> HIDE DEF task
<1> QED
  BY <1>1, <1>2, ScanInv DEF FInv, TypesOK, ScanTypes

LEMMA ReadFolderInv ==
  ASSUME FInv, NEW s \in Scanners, ReadFolder(s)
  PROVE  Step
<1>1. PICK k \in DOMAIN scans[s].todo :
        scans' = [scans EXCEPT ![s] =
            IF CannotRead(scans[s].todo[k]) THEN None
            ELSE [@ EXCEPT !.reading = [folder |-> k, current |-> Current(scans[s].todo[k]),
                                        previous |-> snapshots[k], since |-> {}]]]
  BY DEF ReadFolder
<1>2. scans[s] # None /\ UNCHANGED <<access, disk, rows, awaiting, generating, stopped>>
  BY DEF ReadFolder
<1>3. scans[s] \in Task /\ scans \in [Scanners -> Task \cup {None}] /\ snapshots \in [FolderKeys -> Noted]
  BY <1>2 DEF FInv, TypesOK, ScanTypes
<1>4. scans[s].todo \in Todo
  BY <1>3 DEF Task
<1>5. k \in FolderKeys /\ scans[s].todo[k] \in Places
  BY <1>4 DEF Todo
<1> DEFINE reading == [folder |-> k, current |-> Current(scans[s].todo[k]), previous |-> snapshots[k], since |-> {}]
           read == [scans[s] EXCEPT !.reading = reading]
<1>6. reading \in Reading
  BY <1>3, <1>5, CurrentIsNoted DEF Reading
<1> HIDE DEF reading
<1>7. read \in Task
  BY <1>3, <1>6 DEF Task
<1>8. scans' = [scans EXCEPT ![s] = IF CannotRead(scans[s].todo[k]) THEN None ELSE read]
  BY <1>1 DEF reading
<1> HIDE DEF read
<1>9. scans' \in [Scanners -> Task \cup {None}]
  BY <1>3, <1>7, <1>8
<1> QED
  BY <1>2, <1>9, ScanInv

LEMMA FailScanInv ==
  ASSUME FInv, NEW s \in Scanners, FailScan(s)
  PROVE  Step
<1>1. scans' = [scans EXCEPT ![s] = None] /\ UNCHANGED <<access, disk, rows, awaiting, generating, stopped>>
  BY DEF FailScan
<1> QED
  BY <1>1, ScanInv DEF FInv, TypesOK, ScanTypes

\* What the commit of a scan writes, when its events are not ambiguous.
LEMMA CommitFacts ==
  ASSUME FInv, NEW s \in Scanners, CommitScan(s), snapshots' # snapshots
  PROVE  LET scan == scans[s].reading
             new == Differences(scan.folder, scan.previous, scan.current)
         IN /\ scans[s] # None /\ scan # None /\ scan \in Reading
            /\ new \subseteq Event
            /\ snapshots' = [snapshots EXCEPT ![scan.folder] = scan.current]
            /\ \A e \in new : \E f \in events' : SameFileEvent(e, f)
<1> DEFINE scan == scans[s].reading
           new == Differences(scan.folder, scan.previous, scan.current)
<1>1. /\ scans[s] # None /\ scan # None /\ ~Ambiguous(new)
      /\ snapshots' = [snapshots EXCEPT ![scan.folder] = scan.current]
  BY DEF CommitScan, ReplacedSnapshots
<1>2. PICK missed \in SUBSET {e \in new : \E f \in scan.since : SameFileEvent(e, f)} :
        events' = WithFileEvents(new) \cup missed
  BY <1>1 DEF CommitScan
<1>3. scan \in Reading
  BY <1>1 DEF FInv, TypesOK, ScanTypes, Task
<1>4. new \subseteq Event
  BY <1>3, DifferencesReport DEF Reading
<1>5. ASSUME NEW e \in new
      PROVE  \E f \in events' : SameFileEvent(e, f)
  <2>1. CASE \A f \in events : ~SameFileEvent(e, f)
    <3>1. e \in events' /\ SameFileEvent(e, e)
      BY <1>2, <2>1 DEF WithFileEvents, SameFileEvent
    <3> QED
      BY <3>1
  <2>2. CASE \E f \in events : SameFileEvent(e, f)
    BY <1>2, <2>2 DEF WithFileEvents
  <2> QED
    BY <2>1, <2>2
<1> QED
  BY <1>1, <1>3, <1>4, <1>5

LEMMA CommitScanInv ==
  ASSUME FInv, NEW s \in Scanners, CommitScan(s)
  PROVE  Step
<1> DEFINE scan == scans[s].reading
           new == Differences(scan.folder, scan.previous, scan.current)
           rest == [k \in DOMAIN scans[s].todo \ {scan.folder} |-> scans[s].todo[k]]
           next == IF DOMAIN rest = {} THEN None ELSE [todo |-> rest, reading |-> None]
<1>1. scans[s] # None /\ scan # None /\ UNCHANGED <<access, disk, created, awaiting, folders, documents, generating, stopped>>
  BY DEF CommitScan
<1>2. /\ EventTypes /\ snapshots \in [FolderKeys -> Noted] /\ scans \in [Scanners -> Task \cup {None}]
  BY DEF FInv, TypesOK, ScanTypes
<1>3. scans[s] \in Task /\ scan \in Reading
  BY <1>1, <1>2 DEF Task
<1>4. next \in Task \cup {None}
  <2>1. scans[s].todo \in Todo
    BY <1>3 DEF Task
  <2>2. PICK K \in SUBSET FolderKeys : scans[s].todo \in [K -> Places]
    BY <2>1 DEF Todo
  <2>3. rest \in [K \ {scan.folder} -> Places]
    BY <2>2
  <2> HIDE DEF rest
  <2>4. rest \in Todo
    BY <2>3 DEF Todo
  <2> QED
    BY <2>4 DEF Task
<1>5. new \subseteq Event /\ \A e \in new : e.type # "collision"
  BY <1>3, DifferencesReport DEF Reading
<1> HIDE DEF next
<1>6. CASE scans' = [scans EXCEPT ![s] = None] /\ UNCHANGED <<events, copies, snapshots>>
  <2>1. scans' \in [Scanners -> Task \cup {None}]
    BY <1>2, <1>6
  <2> QED
    BY <1>1, <1>6, <2>1, ScanInv DEF rows
<1>7. CASE \E missed \in SUBSET {e \in new : \E f \in scan.since : SameFileEvent(e, f)} :
               /\ events' = WithFileEvents(new) \cup missed
               /\ copies' = copies \cup (missed \cap events)
               /\ snapshots' = [snapshots EXCEPT ![scan.folder] = scan.current]
               /\ scans' = [t \in Scanners |->
                    IF t = s THEN next
                    ELSE IF scans[t] # None /\ scans[t].reading # None
                    THEN [scans[t] EXCEPT !.reading.since = @ \cup (events' \ events) \cup missed] ELSE scans[t]]
  <2>1. PICK missed \in SUBSET {e \in new : \E f \in scan.since : SameFileEvent(e, f)} :
               /\ events' = WithFileEvents(new) \cup missed
               /\ copies' = copies \cup (missed \cap events)
               /\ snapshots' = [snapshots EXCEPT ![scan.folder] = scan.current]
               /\ scans' = [t \in Scanners |->
                    IF t = s THEN next
                    ELSE IF scans[t] # None /\ scans[t].reading # None
                    THEN [scans[t] EXCEPT !.reading.since = @ \cup (events' \ events) \cup missed] ELSE scans[t]]
    BY <1>7
  <2>2. missed \subseteq new
    OBVIOUS
  <2> HIDE DEF new, scan
  <2>3. events \subseteq events' /\ \A e \in events' : e \in events \/ e \in new
    BY <2>1, <2>2 DEF WithFileEvents
  <2>4. EventTypes' /\ EventsKept
    BY <1>2, <1>5, <2>1, <2>2, <2>3 DEF EventTypes, EventsKept
  <2>5. ScanTypes'
    <3>1. ASSUME NEW t \in Scanners PROVE scans'[t] \in Task \cup {None}
      <4>1. CASE t = s
        BY <1>4, <2>1, <4>1
      <4>2. CASE t # s /\ scans[t] # None /\ scans[t].reading # None
        <5> DEFINE since == scans[t].reading.since \cup (events' \ events) \cup missed
        <5>1. scans[t] \in Task /\ scans[t].reading \in Reading
          BY <1>2, <4>2 DEF Task
        <5>2. since \in SUBSET Event
          BY <1>5, <2>2, <2>4, <5>1 DEF Reading, EventTypes
        <5>3. scans'[t] = [scans[t] EXCEPT !.reading = [scans[t].reading EXCEPT !.since = since]]
          BY <2>1, <4>2
        <5> HIDE DEF since
        <5>4. [scans[t].reading EXCEPT !.since = since] \in Reading
          BY <5>1, <5>2 DEF Reading
        <5> QED
          BY <5>1, <5>3, <5>4 DEF Task
      <4>3. CASE t # s /\ ~(scans[t] # None /\ scans[t].reading # None)
        BY <1>2, <2>1, <4>3
      <4> QED
        BY <4>1, <4>2, <4>3
    <3>2. scans' \in [Scanners -> Task \cup {None}]
      BY <2>1, <3>1
    <3>3. snapshots' \in [FolderKeys -> Noted]
      BY <1>2, <1>3, <2>1 DEF Reading
    <3> QED
      BY <3>2, <3>3 DEF ScanTypes
  <2>6. /\ AccessTypeOK' /\ DiskTypes' /\ RecordTypes' /\ FolderTypes' /\ GenerationTypes'
        /\ UNCHANGED OnDisk /\ UNCHANGED removed
    BY <1>1, PartsStay
  <2>7. DiskOK' /\ GenerationsOK'
    BY <1>1, <2>4, <2>6, DiskStays, GenerationsStay
  <2> QED
    BY <2>4, <2>5, <2>6, <2>7 DEF FInv, TypesOK, Step
<1> QED
  BY <1>6, <1>7 DEF CommitScan, ReplacedSnapshots, next

\* The action property of scans, step by step.
LEMMA NotesStep ==
  ASSUME FInv, NEW s \in Scanners, CommitScan(s)
  PROVE  NotesAreReported
<1> DEFINE scan == scans[s].reading
           new == Differences(scan.folder, scan.previous, scan.current)
<1> SUFFICES ASSUME NEW k \in FolderKeys, snapshots'[k] # snapshots[k]
             PROVE  \E t \in Scanners :
                      /\ scans[t] # None /\ scans[t].reading # None /\ scans[t].reading.folder = k
                      /\ \A p \in Places :
                           LET before == HashAt(scans[t].reading.previous, p)
                               after == HashAt(snapshots'[k], p)
                           IN before = after \/ \E e \in events' : Reports(e, p, before, after)
  BY DEF NotesAreReported
<1>1. /\ scans[s] # None /\ scan # None /\ scan \in Reading
      /\ new \subseteq Event
      /\ snapshots' = [snapshots EXCEPT ![scan.folder] = scan.current]
      /\ \A e \in new : \E f \in events' : SameFileEvent(e, f)
  BY CommitFacts
<1>2. snapshots \in [FolderKeys -> Noted]
  BY DEF FInv, TypesOK, ScanTypes
<1>3. k = scan.folder /\ snapshots'[k] = scan.current
  BY <1>1, <1>2
<1>4. ASSUME NEW p \in Places
      PROVE  \/ HashAt(scan.previous, p) = HashAt(scan.current, p)
             \/ \E f \in events' : Reports(f, p, HashAt(scan.previous, p), HashAt(scan.current, p))
  <2>1. scan.folder \in FolderKeys /\ scan.previous \in Noted /\ scan.current \in Noted
    BY <1>1 DEF Reading
  <2>2. CASE \E e \in new : Reports(e, p, HashAt(scan.previous, p), HashAt(scan.current, p))
    <3>1. PICK e \in new : Reports(e, p, HashAt(scan.previous, p), HashAt(scan.current, p))
      BY <2>2
    <3>2. PICK f \in events' : SameFileEvent(e, f)
      BY <1>1
    <3>3. e.type = f.type /\ e.place = f.place /\ e.from = f.from /\ e.hash = f.hash /\ e.status = f.status
      BY <3>2 DEF SameFileEvent
    <3> HIDE DEF scan, new
    <3>4. Reports(f, p, HashAt(scan.previous, p), HashAt(scan.current, p))
      BY <3>1, <3>3 DEF Reports
    <3> QED
      BY <3>4
  <2> QED
    BY <2>1, <2>2, DifferencesReport
<1> QED
  BY <1>1, <1>3, <1>4

-----------------------------------------------------------------------------
(* Reviews, links, and people.                                             *)

LEMMA RewrittenFacts ==
  ASSUME FInv, NEW e \in events, NEW status \in {"accepted", "ignored", "linked"}, Rewritten(e, status)
  PROVE  EventTypes' /\ EventsKept
<1> DEFINE reviewed == [e EXCEPT !.status = status]
<1>1. EventTypes
  BY DEF FInv, TypesOK
<1>2. /\ events' = (IF e \in copies THEN events ELSE events \ {e}) \cup {reviewed}
      /\ copies' = copies \ {e}
  BY DEF Rewritten
<1>3. reviewed \in Event /\ reviewed.type = e.type /\ reviewed.record = e.record
  BY <1>1 DEF Event, EventTypes
<1> HIDE DEF reviewed
<1> QED
  BY <1>1, <1>2, <1>3 DEF EventTypes, EventsKept

\* A step of a reviewer.
LEMMA ReviewInv ==
  ASSUME FInv, NEW e \in events, NEW status \in {"accepted", "ignored", "linked"}, Rewritten(e, status),
         UNCHANGED <<access, disk, created, awaiting, folders, snapshots, generating, scans, stopped>>
  PROVE  Step
<1>1. EventTypes' /\ EventsKept
  BY RewrittenFacts
<1>2. /\ AccessTypeOK' /\ DiskTypes' /\ RecordTypes' /\ FolderTypes' /\ GenerationTypes' /\ ScanTypes'
      /\ UNCHANGED OnDisk /\ UNCHANGED removed
  BY PartsStay
<1>3. DiskOK' /\ GenerationsOK'
  BY <1>1, <1>2, DiskStays, GenerationsStay
<1> QED
  BY <1>1, <1>2, <1>3 DEF FInv, TypesOK, Step

LEMMA AcceptFolderLinksInv ==
  ASSUME FInv, NEW u \in Users, NEW type \in Types, NEW links \in LinkLists,
         AcceptFolderLinks(u, type, links)
  PROVE  Step
<1> DEFINE records == {links[n].record : n \in DOMAIN links}
<1>1. FolderTypes /\ EventTypes
  BY DEF FInv, TypesOK
<1>2. /\ \A n \in DOMAIN links :
           /\ Exists(links[n].place)
           /\ \A k \in FolderKeys \ {<<links[n].record, "legacy">>} : ~HasPlace(links, n - 1, k, links[n].place)
      /\ UNCHANGED <<access, disk, created, awaiting, snapshots, copies, generating, scans, stopped>>
  BY DEF AcceptFolderLinks
<1>3. PICK last \in [records -> DOMAIN links] :
       /\ \A n \in DOMAIN links : links[last[links[n].record]].record = links[n].record /\ n <= last[links[n].record]
       /\ folders' = [k \in FolderKeys |->
            IF k[1] \in DOMAIN last /\ k[2] = "legacy" THEN links[last[k[1]]].place ELSE folders[k]]
  BY DEF AcceptFolderLinks
<1>4. events' = events \cup {LinkEvent(links[n]) : n \in DOMAIN links}
  BY DEF AcceptFolderLinks
<1>5. /\ DOMAIN links = 1..Len(links) /\ Len(links) \in Nat
      /\ \A n \in DOMAIN links : links[n] \in Link
  BY FolderAssumption
<1>6. \A n \in DOMAIN links : /\ links[n].record \in RecordIds /\ links[n].place \in Places
                              /\ <<links[n].record, "legacy">> \in FolderKeys
  BY <1>5 DEF Link, FolderKeys
<1> DEFINE Linked(k) == k[1] \in records /\ k[2] = "legacy"
<1>7. ASSUME NEW k \in FolderKeys, Linked(k)
      PROVE  /\ last[k[1]] \in DOMAIN links /\ links[last[k[1]]].record = k[1]
             /\ folders'[k] = links[last[k[1]]].place /\ folders'[k] \in Places
             /\ k = <<k[1], "legacy">>
  <2>1. PICK n \in DOMAIN links : links[n].record = k[1]
    BY <1>7
  <2>2. last[k[1]] \in DOMAIN links /\ links[last[k[1]]].record = k[1]
    BY <1>3, <1>7, <2>1
  <2>3. folders'[k] = links[last[k[1]]].place
    BY <1>3, <1>7
  <2>4. k = <<k[1], "legacy">>
    BY <1>7 DEF FolderKeys
  <2> QED
    BY <1>6, <2>2, <2>3, <2>4
<1>8. ASSUME NEW k \in FolderKeys, ~Linked(k)
      PROVE  folders'[k] = folders[k]
  BY <1>3, <1>8
<1>9. folders' \in [FolderKeys -> Places \cup {None}]
  <2>1. \A k \in FolderKeys : folders'[k] \in Places \cup {None}
    BY <1>1, <1>7, <1>8 DEF FolderTypes
  <2> QED
    BY <1>3, <2>1
\* A place of a later link is not that which another row gets of an earlier one.
<1>10. ASSUME NEW k \in FolderKeys, NEW l \in FolderKeys, Linked(k), Linked(l),
              last[k[1]] < last[l[1]]
       PROVE  folders'[k] # folders'[l]
  <2> DEFINE n == last[k[1]]
             m == last[l[1]]
             mine == {i \in 1..(m - 1) : k = <<links[i].record, "legacy">>}
  <2>1. /\ n \in DOMAIN links /\ links[n].record = k[1] /\ folders'[k] = links[n].place /\ k = <<k[1], "legacy">>
        /\ m \in DOMAIN links /\ links[m].record = l[1] /\ folders'[l] = links[m].place /\ l = <<l[1], "legacy">>
    BY <1>7, <1>10
  <2>2. k # l
    BY <1>5, <1>10, <2>1
  <2>3. ~HasPlace(links, m - 1, k, links[m].place)
    BY <1>2, <2>1, <2>2
  <2>4. n \in mine
    BY <1>5, <1>10, <2>1
  <2>5. ASSUME NEW i \in mine PROVE i <= n
    <3>1. i \in 1..(m - 1) /\ k = <<links[i].record, "legacy">>
      BY <2>5
    <3>2. i \in DOMAIN links /\ links[i].record = k[1]
      BY <1>5, <2>1, <3>1
    <3> QED
      BY <1>3, <3>2
  <2> HIDE DEF n, m
  <2>6. links[n].place # links[m].place
    BY <2>3, <2>4, <2>5 DEF HasPlace
  <2> QED
    BY <2>1, <2>6
<1>11. ASSUME NEW k \in FolderKeys, NEW l \in FolderKeys, Linked(k), ~Linked(l)
       PROVE  folders'[k] # folders[l]
  <2> DEFINE n == last[k[1]]
             mine == {i \in 1..(n - 1) : l = <<links[i].record, "legacy">>}
  <2>1. n \in DOMAIN links /\ links[n].record = k[1] /\ folders'[k] = links[n].place /\ k = <<k[1], "legacy">>
    BY <1>7, <1>11
  <2>2. k # l
    BY <1>11
  <2>3. ~HasPlace(links, n - 1, l, links[n].place)
    BY <1>2, <2>1, <2>2
  <2>4. mine = {}
    <3> SUFFICES ASSUME NEW i \in 1..(n - 1), l = <<links[i].record, "legacy">> PROVE FALSE
      OBVIOUS
    <3>1. i \in DOMAIN links
      BY <1>5, <2>1
    <3>2. l[1] = links[i].record /\ l[2] = "legacy"
      OBVIOUS
    <3> QED
      BY <1>11, <3>1, <3>2
  <2> HIDE DEF n
  <2> QED
    BY <2>1, <2>3, <2>4 DEF HasPlace
<1>12. ASSUME NEW k \in FolderKeys, NEW l \in FolderKeys, Linked(k), Linked(l), last[k[1]] = last[l[1]]
       PROVE  k = l
  BY <1>7, <1>12
<1>13. Unique'
  <2> SUFFICES ASSUME NEW k \in FolderKeys, NEW l \in FolderKeys, folders'[k] # None, folders'[k] = folders'[l]
               PROVE  k = l
    BY DEF Unique
  <2>1. CASE Linked(k) /\ Linked(l)
    <3>1. last[k[1]] \in Nat /\ last[l[1]] \in Nat
      BY <1>5, <1>7, <2>1
    <3>2. ~(last[k[1]] < last[l[1]]) /\ ~(last[l[1]] < last[k[1]])
      BY <1>10, <2>1
    <3>3. last[k[1]] = last[l[1]]
      BY <3>1, <3>2
    <3> QED
      BY <1>12, <2>1, <3>3
  <2>2. CASE Linked(k) /\ ~Linked(l)
    BY <1>8, <1>11, <2>2
  <2>3. CASE ~Linked(k) /\ Linked(l)
    BY <1>8, <1>11, <2>3
  <2>4. CASE ~Linked(k) /\ ~Linked(l)
    BY <1>1, <1>8, <2>4 DEF FolderTypes, Unique
  <2> QED
    BY <2>1, <2>2, <2>3, <2>4
<1>14. EventTypes' /\ EventsKept
  <2>1. \A n \in DOMAIN links : LinkEvent(links[n]) \in Event
    BY <1>6 DEF LinkEvent, Event
  <2>2. events \subseteq events' /\ \A e \in events' : e \in events \/ \E n \in DOMAIN links : e = LinkEvent(links[n])
    BY <1>4
  <2> QED
    BY <1>1, <1>2, <2>1, <2>2 DEF EventTypes, EventsKept
<1>15. /\ AccessTypeOK' /\ DiskTypes' /\ RecordTypes' /\ GenerationTypes' /\ ScanTypes'
       /\ UNCHANGED OnDisk /\ UNCHANGED removed
  BY <1>2, PartsStay
<1>16. DiskOK'
  <2>1. ASSUME NEW k \in FolderKeys, folders'[k] # None
        PROVE  folders'[k] \in OnDisk
    <3>1. CASE Linked(k)
      BY <1>2, <1>6, <1>7, <3>1 DEF OnDisk
    <3>2. CASE ~Linked(k)
      BY <1>8, <2>1, <3>2 DEF FInv, DiskOK
    <3> QED
      BY <3>1, <3>2
  <2> QED
    BY <1>2, <1>15, <2>1 DEF FInv, DiskOK
<1>17. GenerationsOK'
  <2>1. \A k \in FolderKeys : folders[k] # None => folders'[k] # None
    BY <1>7, <1>8, FolderAssumption
  <2> QED
    BY <1>2, <1>14, <2>1, GenerationsStay
<1> QED
  BY <1>9, <1>13, <1>14, <1>15, <1>16, <1>17 DEF FInv, TypesOK, FolderTypes, Step

LEMMA PeopleInv ==
  ASSUME FInv, People
  PROVE  Step
<1>1. DiskTypes
  BY DEF FInv, TypesOK
<1>2. UNCHANGED <<access, created, awaiting, folders, snapshots, events, copies, generating, scans, stopped>>
  BY DEF People, rows
<1>3. \/ \E f \in Paths \X Names : LockFile(f)
      \/ \E f \in Paths \X Names, hash \in Hashes \cup {None} : ChangeFile(f, hash)
      \/ \E f \in Paths \X Names, to \in Paths \X Names : MoveFile(f, to)
      \/ \E path \in Paths : RemoveDirectory(path)
  BY FolderAssumption DEF People
<1>4. \A f \in Paths \X Names : Place(f[1], f[2]) \in Places /\ f = <<f[1], f[2]>> /\ f[2] # None
  BY FolderAssumption DEF Place, Places
<1>5. \A p \in Places : p.name # None => <<p.path, p.name>> \in Paths \X Names
  BY DEF Places
<1>6. DiskTypes' /\ OnDisk \subseteq OnDisk' /\ removed \subseteq removed'
  <2>1. ASSUME NEW f \in Paths \X Names, LockFile(f)
        PROVE  DiskTypes' /\ OnDisk \subseteq OnDisk' /\ removed \subseteq removed'
    BY <1>1, <1>4, <2>1 DEF LockFile, DiskTypes, OnDisk, Exists
  <2>2. ASSUME NEW f \in Paths \X Names, NEW hash \in Hashes \cup {None}, ChangeFile(f, hash)
        PROVE  DiskTypes' /\ OnDisk \subseteq OnDisk' /\ removed \subseteq removed'
    <3>1. /\ files' = [files EXCEPT ![f] = hash] /\ UNCHANGED dirs
          /\ removed' = IF hash = None THEN removed \cup {Place(f[1], f[2])} ELSE removed
          /\ unreadable' = unreadable \ {Place(f[1], f[2])}
      BY <2>2 DEF ChangeFile
    <3>2. DiskTypes' /\ removed \subseteq removed'
      BY <1>1, <1>4, <3>1 DEF DiskTypes
    <3>3. ASSUME NEW p \in Places, Exists(p)
          PROVE  p \in OnDisk'
      <4>1. CASE p.name = None
        BY <3>1, <3>3, <4>1 DEF Exists, OnDisk
      <4>2. CASE p.name # None /\ <<p.path, p.name>> = f
        <5>1. p = Place(f[1], f[2])
          BY <4>2 DEF Place, Places
        <5> QED
          BY <1>1, <1>4, <3>1, <4>2, <5>1 DEF Exists, OnDisk, DiskTypes
      <4>3. CASE p.name # None /\ <<p.path, p.name>> # f
        BY <1>1, <1>5, <3>1, <3>3, <4>3 DEF Exists, OnDisk, DiskTypes
      <4> QED
        BY <4>1, <4>2, <4>3
    <3> QED
      BY <3>2, <3>3 DEF OnDisk
  <2>3. ASSUME NEW f \in Paths \X Names, NEW to \in Paths \X Names, MoveFile(f, to)
        PROVE  DiskTypes' /\ OnDisk \subseteq OnDisk' /\ removed \subseteq removed'
    <3>1. /\ files' = [files EXCEPT ![to] = files[f], ![f] = None] /\ UNCHANGED dirs
          /\ files[f] # None /\ files[to] = None
          /\ removed' = removed \cup {Place(f[1], f[2])}
          /\ unreadable' = unreadable \ {Place(f[1], f[2])}
      BY <2>3 DEF MoveFile
    <3>2. DiskTypes' /\ removed \subseteq removed'
      BY <1>1, <1>4, <3>1 DEF DiskTypes
    <3>3. ASSUME NEW p \in Places, Exists(p)
          PROVE  p \in OnDisk'
      <4>1. CASE p.name = None
        BY <3>1, <3>3, <4>1 DEF Exists, OnDisk
      <4>2. CASE p.name # None /\ <<p.path, p.name>> = f
        <5>1. p = Place(f[1], f[2])
          BY <4>2 DEF Place, Places
        <5> QED
          BY <3>1, <5>1 DEF OnDisk
      <4>3. CASE p.name # None /\ <<p.path, p.name>> # f
        <5>1. files[<<p.path, p.name>>] # None /\ <<p.path, p.name>> # to
          BY <3>1, <3>3, <4>3 DEF Exists
        <5>2. files'[<<p.path, p.name>>] = files[<<p.path, p.name>>]
          BY <1>1, <1>5, <3>1, <4>3, <5>1 DEF DiskTypes
        <5> QED
          BY <4>3, <5>1, <5>2 DEF Exists, OnDisk
      <4> QED
        BY <4>1, <4>2, <4>3
    <3> QED
      BY <3>2, <3>3 DEF OnDisk
  <2>4. ASSUME NEW path \in Paths, RemoveDirectory(path)
        PROVE  DiskTypes' /\ OnDisk \subseteq OnDisk' /\ removed \subseteq removed'
    <3>1. /\ dirs' = dirs \ {path} /\ removed' = removed \cup {Place(path, None)}
          /\ UNCHANGED <<files, unreadable>>
      BY <2>4 DEF RemoveDirectory
    <3>2. Place(path, None) \in Places
      BY DEF Place, Places
    <3>3. DiskTypes' /\ removed \subseteq removed'
      BY <1>1, <3>1, <3>2 DEF DiskTypes
    <3>4. ASSUME NEW p \in Places, Exists(p)
          PROVE  p \in OnDisk'
      <4>1. CASE p = Place(path, None)
        BY <3>1, <4>1 DEF OnDisk
      <4>2. CASE p # Place(path, None)
        <5>1. p.name = None => p.path # path
          BY <4>2 DEF Place, Places
        <5> QED
          BY <3>1, <3>4, <5>1 DEF Exists, OnDisk
      <4> QED
        BY <4>1, <4>2
    <3> QED
      BY <3>3, <3>4 DEF OnDisk
  <2> QED
    BY <1>3, <2>1, <2>2, <2>3, <2>4
<1>7. /\ AccessTypeOK' /\ RecordTypes' /\ FolderTypes' /\ EventTypes' /\ GenerationTypes' /\ ScanTypes'
      /\ EventsKept
  BY <1>2, PartsStay
<1>8. DiskOK' /\ GenerationsOK'
  BY <1>2, <1>6, <1>7, DiskStays, GenerationsStay
<1> QED
  BY <1>6, <1>7, <1>8 DEF FInv, TypesOK, Step

-----------------------------------------------------------------------------
(* Backups.                                                                *)

LEMMA PartsInTurn ==
  /\ BackupOrder # <<>> /\ Head(BackupOrder) = "database"
  /\ Tail(BackupOrder) = <<"managed", "configuration">>
  /\ <<"managed", "configuration">> # <<>> /\ Head(<<"managed", "configuration">>) = "managed"
  /\ Tail(<<"managed", "configuration">>) = <<"configuration">>
  /\ <<"configuration">> # <<>> /\ Head(<<"configuration">>) = "configuration"
  /\ Tail(<<"configuration">>) = <<>>
  /\ {BackupOrder, <<"managed", "configuration">>, <<"configuration">>, <<>>} \subseteq Seq(Parts)
<1>1. \A s \in Seq(Parts) : s # <<>> =>
        /\ Tail(s) \in Seq(Parts) /\ Len(Tail(s)) = Len(s) - 1 /\ Head(s) = s[1]
        /\ \A n \in 1..(Len(s) - 1) : Tail(s)[n] = s[n + 1]
  BY HeadTailProperties
<1>2. \A s, t \in Seq(Parts) : Len(s) = Len(t) /\ (\A n \in 1..Len(s) : s[n] = t[n]) => s = t
  BY SeqEqual
<1> DEFINE three == <<"database", "managed", "configuration">>
           two == <<"managed", "configuration">>
           one == <<"configuration">>
<1>3. three \in Seq(Parts) /\ two \in Seq(Parts) /\ one \in Seq(Parts) /\ <<>> \in Seq(Parts)
  BY DEF Parts
<1>4. /\ Len(three) = 3 /\ three[1] = "database" /\ three[2] = "managed" /\ three[3] = "configuration"
      /\ Len(two) = 2 /\ two[1] = "managed" /\ two[2] = "configuration"
      /\ Len(one) = 1 /\ one[1] = "configuration" /\ Len(<<>>) = 0
  OBVIOUS
<1>5. BackupOrder = three
  BY DEF BackupOrder
<1>6. three # <<>> /\ two # <<>> /\ one # <<>>
  BY <1>4
<1>7. Head(three) = "database" /\ Head(two) = "managed" /\ Head(one) = "configuration"
  BY <1>1, <1>3, <1>4, <1>6
<1>8. Tail(three) = two
  <2>1. /\ Tail(three) \in Seq(Parts) /\ Len(Tail(three)) = 2
        /\ Tail(three)[1] = "managed" /\ Tail(three)[2] = "configuration"
    BY <1>1, <1>3, <1>4, <1>6
  <2> QED
    BY <1>2, <1>3, <2>1
<1>9. Tail(two) = one
  <2>1. Tail(two) \in Seq(Parts) /\ Len(Tail(two)) = 1 /\ Tail(two)[1] = "configuration"
    BY <1>1, <1>3, <1>4, <1>6
  <2> QED
    BY <1>2, <1>3, <2>1
<1>10. Tail(one) = <<>>
  <2>1. Tail(one) \in Seq(Parts) /\ Len(Tail(one)) = 0
    BY <1>1, <1>3, <1>4, <1>6
  <2> QED
    BY <1>2, <1>3, <2>1
<1> QED
  BY <1>3, <1>5, <1>6, <1>7, <1>8, <1>9, <1>10

\* What a step of a backup does not touch.
LEMMA FoldersUnchanged ==
  ASSUME FInv, UNCHANGED <<access, disk, rows, awaiting, generating, scans, stopped>>
  PROVE  FInv' /\ UNCHANGED OnDisk /\ UNCHANGED removed
<1>1. UNCHANGED <<access, disk, created, awaiting, folders, snapshots, events, copies, generating, scans, stopped>>
  BY DEF rows
<1>2. /\ AccessTypeOK' /\ DiskTypes' /\ RecordTypes' /\ FolderTypes' /\ EventTypes' /\ GenerationTypes' /\ ScanTypes'
      /\ EventsKept /\ UNCHANGED OnDisk /\ UNCHANGED removed
  BY <1>1, PartsStay
<1>3. DiskOK' /\ GenerationsOK'
  BY <1>1, <1>2, DiskStays, GenerationsStay
<1> QED
  BY <1>2, <1>3 DEF FInv, TypesOK

\* One backup changes, and is as far as its parts say.
LEMMA OneBackup ==
  ASSUME BackupsOK, NEW b \in BackupIds, NEW backup \in Backup,
         backups' = [backups EXCEPT ![b] = backup],
         UNCHANGED version, UNCHANGED OnDisk, UNCHANGED removed, Stage(backup), Complete(backup)
  PROVE  BackupsOK'
<1>1. \A c \in BackupIds : backups'[c] = IF c = b THEN backup ELSE backups[c]
  BY DEF BackupsOK
<1>2. ASSUME NEW c \in BackupIds, (backups[c] # None)'
      PROVE  Stage(backups[c])' /\ Complete(backups[c])'
  <2>1. Stage(backups'[c]) /\ Complete(backups'[c])
    BY <1>1, <1>2 DEF BackupsOK
  <2> QED
    BY <2>1 DEF Stage, Complete
<1> QED
  BY <1>1, <1>2 DEF BackupsOK

LEMMA StartBackupInv ==
  ASSUME IInv, NEW b \in BackupIds, StartBackup(b)
  PROVE  IInv'
<1> DEFINE backup == [state |-> "running", todo |-> BackupOrder, parts |-> {}, checked |-> {},
                      folders |-> {}, dumped |-> 0, archived |-> {}, configuration |-> 0]
<1>1. /\ backups' = [backups EXCEPT ![b] = backup]
      /\ UNCHANGED <<access, disk, rows, awaiting, generating, scans, stopped, version>>
  BY DEF StartBackup
<1>2. backup \in Backup /\ Stage(backup) /\ Complete(backup)
  BY PartsInTurn DEF Backup, Stage, Complete
<1> HIDE DEF backup
<1>3. FInv' /\ UNCHANGED OnDisk /\ UNCHANGED removed
  BY <1>1, FoldersUnchanged DEF IInv
<1>4. BackupsOK'
  BY <1>1, <1>2, <1>3, OneBackup DEF IInv
<1> QED
  BY <1>3, <1>4 DEF IInv

LEMMA WritePartInv ==
  ASSUME IInv, NEW b \in BackupIds, WritePart(b)
  PROVE  IInv'
<1> DEFINE old == backups[b]
           part == Head(old.todo)
           written == [old EXCEPT !.todo = Tail(@), !.parts = @ \cup {part}]
           new == CASE part = "database" -> [written EXCEPT !.folders = {folders[k] : k \in FolderKeys} \ {None}, !.dumped = version]
                    [] part = "managed" -> [written EXCEPT !.archived = {place \in Places : Exists(place)}]
                    [] part = "configuration" -> [written EXCEPT !.configuration = version]
<1>1. /\ old # None /\ old.state = "running" /\ old.todo # <<>>
      /\ backups' = [backups EXCEPT ![b] = new]
      /\ UNCHANGED <<vars, version>>
  BY DEF WritePart, Running
<1>2. BackupsOK /\ FInv
  BY DEF IInv
<1>3. old \in Backup /\ Stage(old) /\ version \in Nat
  BY <1>1, <1>2 DEF BackupsOK
<1>4. UNCHANGED <<access, disk, rows, awaiting, generating, scans, stopped>> /\ UNCHANGED disk
  BY <1>1 DEF vars, folder_vars
<1>5. /\ {folders[k] : k \in FolderKeys} \ {None} \subseteq Places
      /\ {folders[k] : k \in FolderKeys} \ {None} \subseteq OnDisk
  BY <1>2 DEF FInv, TypesOK, FolderTypes, DiskOK
<1>6. new \in Backup /\ Stage(new) /\ Complete(new)
  <2>1. CASE old.todo = BackupOrder /\ old.parts = {}
    <3>1. part = "database" /\ Tail(old.todo) = <<"managed", "configuration">> /\ Tail(old.todo) \in Seq(Parts)
      BY <2>1, PartsInTurn
    <3>2. new = [old EXCEPT !.todo = Tail(@), !.parts = @ \cup {part},
                            !.folders = {folders[k] : k \in FolderKeys} \ {None}, !.dumped = version]
      BY <3>1
    <3> HIDE DEF new, part
    <3>3. /\ new \in Backup /\ new.state = "running" /\ new.todo = Tail(old.todo) /\ new.parts = {"database"}
          /\ new.folders = {folders[k] : k \in FolderKeys} \ {None} /\ new.dumped = version
      BY <1>1, <1>3, <1>5, <2>1, <3>1, <3>2 DEF Backup, Parts
    <3> QED
      BY <1>3, <1>5, <3>1, <3>3 DEF Stage, Complete
  <2>2. CASE /\ old.todo = <<"managed", "configuration">> /\ old.parts = {"database"}
             /\ old.folders \subseteq OnDisk /\ old.dumped <= version
    <3>1. part = "managed" /\ Tail(old.todo) = <<"configuration">> /\ Tail(old.todo) \in Seq(Parts)
      BY <2>2, PartsInTurn
    <3>2. new = [old EXCEPT !.todo = Tail(@), !.parts = @ \cup {part}, !.archived = {place \in Places : Exists(place)}]
      BY <3>1
    <3> HIDE DEF new, part
    <3>3. /\ new \in Backup /\ new.state = "running" /\ new.todo = Tail(old.todo) /\ new.parts = {"database", "managed"}
          /\ new.folders = old.folders /\ new.dumped = old.dumped /\ new.archived = {place \in Places : Exists(place)}
      BY <1>1, <1>3, <1>5, <2>2, <3>1, <3>2 DEF Backup, Parts
    <3> QED
      BY <2>2, <3>1, <3>3 DEF Stage, Complete, OnDisk
  <2>3. CASE /\ old.todo = <<"configuration">> /\ old.parts = {"database", "managed"}
             /\ old.folders \subseteq old.archived \cup removed /\ old.dumped <= version
    <3>1. part = "configuration" /\ Tail(old.todo) = <<>> /\ Tail(old.todo) \in Seq(Parts)
      BY <2>3, PartsInTurn
    <3>2. new = [old EXCEPT !.todo = Tail(@), !.parts = @ \cup {part}, !.configuration = version]
      BY <3>1
    <3> HIDE DEF new, part
    <3>3. /\ new \in Backup /\ new.state = "running" /\ new.todo = Tail(old.todo) /\ new.parts = Parts
          /\ new.folders = old.folders /\ new.dumped = old.dumped /\ new.archived = old.archived
          /\ new.configuration = version
      BY <1>1, <1>3, <2>3, <3>1, <3>2 DEF Backup, Parts
    <3> QED
      BY <2>3, <3>1, <3>3 DEF Stage, Complete
  <2> QED
    BY <1>1, <1>3, <2>1, <2>2, <2>3 DEF Stage
<1> HIDE DEF new
<1>7. FInv' /\ UNCHANGED OnDisk /\ UNCHANGED removed
  BY <1>2, <1>4, FoldersUnchanged
<1>8. BackupsOK'
  BY <1>1, <1>2, <1>6, <1>7, OneBackup
<1> QED
  BY <1>7, <1>8 DEF IInv

LEMMA EndBackupInv ==
  ASSUME IInv, NEW b \in BackupIds, FinishBackup(b) \/ FailBackup(b)
  PROVE  IInv'
<1> DEFINE old == backups[b]
           finished == [old EXCEPT !.state = "completed", !.checked = old.parts]
           failed == [old EXCEPT !.state = "failed"]
<1>1. /\ old # None
      /\ \/ old.todo = <<>> /\ backups' = [backups EXCEPT ![b] = finished]
         \/ backups' = [backups EXCEPT ![b] = failed]
      /\ UNCHANGED <<vars, version>>
  BY DEF FinishBackup, FailBackup, Running
<1>2. BackupsOK /\ FInv
  BY DEF IInv
<1>3. old \in Backup /\ Stage(old)
  BY <1>1, <1>2 DEF BackupsOK
<1>4. UNCHANGED <<access, disk, rows, awaiting, generating, scans, stopped>> /\ UNCHANGED disk
  BY <1>1 DEF vars, folder_vars
<1>5. failed \in Backup /\ Stage(failed) /\ Complete(failed)
  BY <1>3 DEF Backup, Stage, Complete
<1>6. old.todo = <<>> => finished \in Backup /\ Stage(finished) /\ Complete(finished)
  <2>1. old.todo = <<>> => old.parts = Parts
    BY <1>3, PartsInTurn DEF Stage
  <2> QED
    BY <1>3, <2>1 DEF Backup, Stage, Complete
<1> HIDE DEF finished, failed
<1>7. FInv' /\ UNCHANGED OnDisk /\ UNCHANGED removed
  BY <1>2, <1>4, FoldersUnchanged
<1>8. BackupsOK'
  <2>1. PICK new \in {finished, failed} : new \in Backup /\ Stage(new) /\ Complete(new) /\ backups' = [backups EXCEPT ![b] = new]
    BY <1>1, <1>5, <1>6
  <2> QED
    BY <1>1, <1>2, <1>7, <2>1, OneBackup
<1> QED
  BY <1>7, <1>8 DEF IInv

LEMMA PublishConfigurationInv ==
  ASSUME IInv, PublishConfiguration
  PROVE  IInv'
<1>1. version' = version + 1 /\ UNCHANGED <<vars, backups>>
  BY DEF PublishConfiguration
<1>2. UNCHANGED <<access, disk, rows, awaiting, generating, scans, stopped>> /\ UNCHANGED disk
  BY <1>1 DEF vars, folder_vars
<1>3. FInv' /\ UNCHANGED OnDisk /\ UNCHANGED removed
  BY <1>2, FoldersUnchanged DEF IInv
<1>4. BackupsOK'
  <2>1. BackupsOK
    BY DEF IInv
  <2>2. ASSUME NEW b \in BackupIds, backups[b] # None
        PROVE  Stage(backups[b])' /\ Complete(backups[b])'
    <3>1. Stage(backups[b]) /\ Complete(backups[b]) /\ backups[b] \in Backup /\ version \in Nat
      BY <2>1, <2>2 DEF BackupsOK
    <3>2. backups[b].dumped \in Nat
      BY <3>1 DEF Backup
    <3> QED
      BY <1>1, <1>3, <3>1, <3>2 DEF Stage, Complete
  <2> QED
    BY <1>1, <2>1, <2>2 DEF BackupsOK
<1> QED
  BY <1>3, <1>4 DEF IInv

-----------------------------------------------------------------------------
(* The theorems.                                                           *)

LEMMA InitInv == BackupsInit => IInv
<1> SUFFICES ASSUME BackupsInit PROVE IInv
  OBVIOUS
<1>1. Init /\ backups = [b \in BackupIds |-> None] /\ version = 1
  BY DEF BackupsInit
<1>2. AccessTypeOK
  BY <1>1, PermissionAssumption, FolderAssumption DEF Init, AccessTypeOK, User
<1>3. <<>> \in Noted
  <2>1. DOMAIN <<>> = {} /\ <<>> \in [{} -> Hashes] /\ {} \in SUBSET Places
    OBVIOUS
  <2> QED
    BY <2>1 DEF Noted
<1>4. DiskTypes /\ RecordTypes /\ FolderTypes /\ EventTypes
  BY <1>1, FolderAssumption DEF Init, DiskTypes, RecordTypes, FolderTypes, Unique, EventTypes
<1>5. GenerationTypes /\ ScanTypes
  BY <1>1, <1>3 DEF Init, GenerationTypes, ScanTypes
<1>6. DiskOK /\ GenerationsOK
  BY <1>1 DEF Init, DiskOK, GenerationsOK
<1>7. BackupsOK
  BY <1>1 DEF BackupsOK
<1> QED
  BY <1>2, <1>4, <1>5, <1>6, <1>7 DEF IInv, FInv, TypesOK

LEMMA FolderNextInv ==
  ASSUME FInv, FolderNext
  PROVE  Step
<1>1. ASSUME NEW r \in Requests, NEW record \in RecordIds, RunSignal(r, record)
      PROVE  Step
  BY <1>1, StartGenerateInv DEF RunSignal
<1>2. ASSUME NEW r \in Requests, NEW record \in RecordIds, ImportFolder(r, record)
      PROVE  Step
  BY <1>2, StartGenerateInv DEF ImportFolder
<1>3. ASSUME NEW r \in Requests, NEW record \in RecordIds, NEW u \in Users, RequestFolder(r, u, record)
      PROVE  Step
  BY <1>3, StartGenerateInv DEF RequestFolder
<1>4. ASSUME NEW u \in Users, NEW e \in events, LinkDocument(u, e)
      PROVE  Step
  BY <1>4, ReviewInv DEF LinkDocument
<1>5. ASSUME NEW u \in Users, NEW e \in events, NEW status \in {"accepted", "ignored"}, Review(u, e, status)
      PROVE  Step
  BY <1>5, ReviewInv DEF Review
<1> QED
  BY <1>1, <1>2, <1>3, <1>4, <1>5, CreateRecordInv, LoseSignalInv, MakeDirectoryInv, CommitFolderInv, StopGenerateInv,
     StartTaskInv, ReadFolderInv, CommitScanInv, FailScanInv, AcceptFolderLinksInv, PeopleInv DEF FolderNext

LEMMA NextInv == IInv /\ [BackupsNext]_all_vars => IInv'
<1> SUFFICES ASSUME IInv, [BackupsNext]_all_vars PROVE IInv'
  OBVIOUS
<1>1. CASE FolderNext /\ UNCHANGED <<backups, version>>
  <2>1. Step
    BY <1>1, FolderNextInv DEF IInv
  <2>2. BackupsOK'
    BY <1>1, <2>1, BackupsStay DEF IInv, Step
  <2> QED
    BY <2>1, <2>2 DEF IInv, Step
<1>2. CASE PublishConfiguration
  BY <1>2, PublishConfigurationInv
<1>3. ASSUME NEW b \in BackupIds, StartBackup(b) \/ WritePart(b) \/ FinishBackup(b) \/ FailBackup(b)
      PROVE  IInv'
  BY <1>3, StartBackupInv, WritePartInv, EndBackupInv
<1>4. CASE UNCHANGED all_vars
  <2>1. UNCHANGED <<access, disk, rows, awaiting, generating, scans, stopped>> /\ UNCHANGED <<backups, version>>
    BY <1>4 DEF all_vars, vars, folder_vars
  <2>2. FInv' /\ UNCHANGED OnDisk /\ UNCHANGED removed
    BY <2>1, FoldersUnchanged DEF IInv
  <2> QED
    BY <2>1, <2>2, BackupsStay DEF IInv
<1> QED
  BY <1>1, <1>2, <1>3, <1>4 DEF BackupsNext

\* The invariant holds: whatever requests, scanners, reviewers, backups and
\* people do in the file system (apps/folders, apps/backups).
THEOREM InvariantHolds == Spec => []IInv
<1>1. BackupsInit => IInv
  BY InitInv
<1>2. IInv /\ [BackupsNext]_all_vars => IInv'
  BY NextInv
<1> QED
  BY <1>1, <1>2, PTL DEF Spec

\* Every row of a managed folder has a file or a directory that no other row
\* has, and it is there unless people removed it: of directories that were made
\* for records (generate_managed_folder) and of all that users link to records
\* (accept_folder_links), also to a file, or to one directory in another.
THEOREM FoldersStayConsistent == Spec => []FoldersAreConsistent
<1>1. IInv => FoldersTypeOK
  <2>1. ScanTypes => \A k \in FolderKeys : DOMAIN snapshots[k] \subseteq Places
    BY NotedFacts DEF ScanTypes
  <2> QED
    BY <2>1 DEF IInv, FInv, TypesOK, DiskTypes, RecordTypes, FolderTypes, Unique, EventTypes, GenerationTypes, FoldersTypeOK
<1>2. IInv => FoldersAreOnDisk
  BY DEF IInv, FInv, DiskOK, OnDisk, FoldersAreOnDisk
<1> QED
  BY <1>1, <1>2, InvariantHolds, PTL DEF FoldersAreConsistent

\* A new record whose signal ran has its directory or is getting it, or an event
\* says that it could not be made (_generate_folder).
THEOREM NoMissingFolderIsForgotten == Spec => []MissingFoldersAreReported
<1>1. IInv => MissingFoldersAreReported
  BY DEF IInv, FInv, GenerationsOK, Handled, MissingFoldersAreReported
<1> QED
  BY <1>1, InvariantHolds, PTL

\* What becomes the snapshots of a folder was so in those that the scan had read
\* or waits for reviewers as an event, although tasks overlap, an event may be
\* there twice and reviewers write theirs (scan_managed_folder).
THEOREM NothingIsKeptFromReviewers == Spec => DifferencesAreReported
<1>1. IInv /\ [BackupsNext]_all_vars => [NotesAreReported]_vars
  <2> SUFFICES ASSUME IInv, [BackupsNext]_all_vars PROVE NotesAreReported \/ UNCHANGED vars
    OBVIOUS
  <2>1. UNCHANGED snapshots => NotesAreReported
    BY DEF NotesAreReported
  <2>2. CASE FolderNext
    <3>1. ASSUME NEW s \in Scanners, CommitScan(s) PROVE NotesAreReported
      BY <3>1, NotesStep DEF IInv
    <3>2. CASE ~ \E s \in Scanners : CommitScan(s)
      BY <2>1, <2>2, <3>2 DEF FolderNext, CreateRecord, LoseSignal, RunSignal, ImportFolder, RequestFolder, StartGenerate,
         MakeDirectory, CommitFolder, StopGenerate, StartTask, ReadFolder, FailScan, LinkDocument, Review, AcceptFolderLinks,
         People, rows
    <3> QED
      BY <3>1, <3>2
  <2>3. CASE ~FolderNext
    BY <2>1, <2>3 DEF BackupsNext, PublishConfiguration, StartBackup, WritePart, FinishBackup, FailBackup,
       all_vars, vars, folder_vars, rows
  <2> QED
    BY <2>2, <2>3
<1> QED
  BY <1>1, InvariantHolds, PTL DEF Spec, DifferencesAreReported

\* A completed backup has all of its parts, and they fit together although
\* they are written one after the other (create_backup).
THEOREM CompletedBackupsFit == Spec => []FoldersCanBeRestored
<1>1. {BackupOrder[n] : n \in DOMAIN BackupOrder} = Parts
  BY DEF BackupOrder, Parts
<1>2. IInv => FoldersCanBeRestored
  <2> SUFFICES ASSUME IInv, NEW b \in BackupIds, backups[b] # None, backups[b].state = "completed"
               PROVE  /\ backups[b].checked = Parts
                      /\ backups[b].folders \subseteq backups[b].archived \cup removed
                      /\ backups[b].dumped <= backups[b].configuration
    BY <1>1 DEF FoldersCanBeRestored
  <2>1. Stage(backups[b]) /\ backups[b].todo = <<>> /\ backups[b].checked = Parts
    BY DEF IInv, BackupsOK, Complete
  <2> QED
    BY <2>1, PartsInTurn DEF Stage
<1> QED
  BY <1>2, InvariantHolds, PTL
=============================================================================
