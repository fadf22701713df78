------------------------------ MODULE Backups ------------------------------
(***************************************************************************)
(* Backups (apps/backups) of the managed folders while they change: the    *)
(* dump of the database, the archive of the directories, then the exports  *)
(* and the checksums, one after the other without a lock.  The dump stands *)
(* here for its rows of managed folders and for the version of the         *)
(* configuration, the archive for the files and directories below          *)
(* MANAGED_FILE_ROOT; the archive of media files, and so the files of      *)
(* documents, and the exports of audit events and environment are left     *)
(* out.                                                                    *)
(***************************************************************************)
EXTENDS Folders

CONSTANTS
  BackupIds,
  MaxVersion   \* bound on the number of published configurations

VARIABLES
  backups,  \* the BackupManifest and the directory of each backup, or None
  version   \* the number of the published configuration

all_vars == <<vars, backups, version>>

\* A bug this module can show: the directories are archived first.
ArchiveFirst == <<"managed", "database", "configuration">>

BackupOrder == <<"database", "managed", "configuration">>

BackupsInit == Init /\ backups = [b \in BackupIds |-> None] /\ version = 1

Running(b) == backups[b] # None /\ backups[b].state = "running"

\* Publishes beside a backup; others do not matter to it.
PublishConfiguration ==
  /\ \E b \in BackupIds : Running(b)
  /\ version < MaxVersion
  /\ version' = version + 1
  /\ UNCHANGED <<vars, backups>>

\* The directory of the backup must be new; its row is running from then on.
\* A backup counts as one of MaxChanges.
StartBackup(b) ==
  /\ backups[b] = None
  /\ changes < MaxChanges
  /\ changes' = changes + 1
  /\ backups' = [backups EXCEPT ![b] =
       [state |-> "running", todo |-> BackupOrder, parts |-> {}, checked |-> {},
        folders |-> {}, dumped |-> 0, archived |-> {}, configuration |-> 0]]
  /\ UNCHANGED <<access, disk, rows, awaiting, generating, scans, stopped, version>>

WritePart(b) ==
  /\ Running(b)
  /\ backups[b].todo # <<>>
  /\ LET part == Head(backups[b].todo)
         backup == [backups[b] EXCEPT !.todo = Tail(@), !.parts = @ \cup {part}]
     IN backups' = [backups EXCEPT ![b] =
          CASE part = "database" -> [backup EXCEPT !.folders = {folders[k] : k \in FolderKeys} \ {None}, !.dumped = version]
            [] part = "managed" -> [backup EXCEPT !.archived = {place \in Places : Exists(place)}]
            [] part = "configuration" -> [backup EXCEPT !.configuration = version]]
  /\ UNCHANGED <<vars, version>>

\* The checksums are taken of all parts, then the row is completed.
FinishBackup(b) ==
  /\ Running(b)
  /\ backups[b].todo = <<>>
  /\ backups' = [backups EXCEPT ![b].state = "completed", ![b].checked = backups[b].parts]
  /\ UNCHANGED <<vars, version>>

\* Any error; when the process ends, the backup stays running.
FailBackup(b) ==
  /\ Running(b)
  /\ backups' = [backups EXCEPT ![b].state = "failed"]
  /\ UNCHANGED <<vars, version>>

BackupsNext ==
  \/ FolderNext /\ UNCHANGED <<backups, version>>
  \/ PublishConfiguration
  \/ \E b \in BackupIds : StartBackup(b) \/ WritePart(b) \/ FinishBackup(b) \/ FailBackup(b)

Spec == BackupsInit /\ [][BackupsNext]_all_vars /\ ScanFairness

-----------------------------------------------------------------------------
(* Properties.                                                             *)

\* A completed backup has all parts with their checksums; after a restore each
\* folder of its dump has its file or directory in its archive, unless people
\* removed it, and the exported configuration is not older than the restored one.
FoldersCanBeRestored ==
  \A b \in BackupIds :
    backups[b] # None /\ backups[b].state = "completed" =>
      LET backup == backups[b] IN
      /\ backup.checked = {BackupOrder[n] : n \in DOMAIN BackupOrder}
      /\ backup.folders \subseteq backup.archived \cup removed
      /\ backup.dumped <= backup.configuration
=============================================================================
