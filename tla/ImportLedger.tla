---------------------------- MODULE ImportLedger ---------------------------
(***************************************************************************)
(* What imports promise their users, without dry runs, requests, locks or  *)
(* transactions: a file is imported in one step, each of its rows into a   *)
(* record of its own that is new or had the code of the row before, and    *)
(* the log says so.  In between records are written by hand.               *)
(***************************************************************************)
EXTENDS Integers

CONSTANTS
  Jobs, Users, RecordIds, Fields,
  Files,            \* sequences of rows
  Rows,             \* what a record may hold
  InitialRecords,
  Absent,           \* the value of a field that a row does not send
  None              \* no record, no code

VARIABLES
  files,     \* the file of each job that was created
  applied,   \* the jobs that are shown as applied
  records,   \* the row of each record, or None
  log,       \* which row went into which record, and for whom
  by_hand    \* the number of writes by hand

\* The sent values of a row are in the record.
Holds(row, data) == \A f \in Fields : row.data[f] \in {Absent, data[f]}

Init ==
  /\ files = [j \in {} |-> <<>>]
  /\ applied = {} /\ log = {} /\ by_hand = 0
  /\ records = InitialRecords

Create(j) ==
  /\ DOMAIN files' = DOMAIN files \cup {j} /\ j \notin DOMAIN files
  /\ files'[j] \in Files
  /\ \A k \in DOMAIN files : files'[k] = files[k]
  /\ UNCHANGED <<applied, records, log, by_hand>>

\* What a row becomes: its code and what it sends; the rest is of the record,
\* though maybe not of its last state.
Import(j, u, place) ==
  LET file == files[j] IN
  /\ j \notin applied /\ applied' = applied \cup {j}
  /\ \A n, m \in DOMAIN file : place[n] = place[m] => n = m
  /\ \A n \in DOMAIN file :
       /\ records[place[n]] # None => records[place[n]].code = file[n].code
       /\ records'[place[n]] \in Rows
       /\ records'[place[n]].code = file[n].code /\ Holds(file[n], records'[place[n]].data)
  /\ records' \in [RecordIds -> Rows \cup {None}]
  /\ \A i \in RecordIds : (\A n \in DOMAIN file : place[n] # i) => records'[i] = records[i]
  /\ log' = log \cup {[job |-> j, row |-> n, record |-> place[n], user |-> u,
                       action |-> IF records[place[n]] = None THEN "created" ELSE "updated"] : n \in DOMAIN file}
  /\ UNCHANGED <<files, by_hand>>

\* A dry run that was under way during the import makes the job ready again.
Reopen(j) ==
  /\ applied' = applied \ {j}
  /\ UNCHANGED <<files, records, log, by_hand>>

Write(i) ==
  /\ by_hand' = by_hand + 1
  /\ records'[i] \in Rows
  /\ records'[i].code = IF records[i] = None THEN None ELSE records[i].code
  /\ records' = [records EXCEPT ![i] = records'[i]]
  /\ UNCHANGED <<files, applied, log>>

Next ==
  \/ \E j \in Jobs : Create(j)
  \/ \E j \in DOMAIN files, u \in Users : \E place \in [DOMAIN files[j] -> RecordIds] : Import(j, u, place)
  \/ \E j \in applied : Reopen(j)
  \/ \E i \in RecordIds : Write(i)

Spec == Init /\ [][Next]_<<files, applied, records, log, by_hand>>
=============================================================================
