------------------------------ MODULE Reports ------------------------------
(***************************************************************************)
(* What users read about records through reports and audit events          *)
(* (apps/reports, apps/audit), while grants and links change.              *)
(*                                                                         *)
(* Records, documents and tasks are given; the events are those of the     *)
(* requests on links and a given set of older ones of every kind.          *)
(***************************************************************************)
EXTENDS Relationships, UserLookups, Sequences

CONSTANTS
  RecordsInOrder,    \* the records in the order of a list
  RecordStatuses, StatusOf,
  DocumentTypesOf,   \* the types of the documents that each record owns
  OverdueTasks,      \* the record of each overdue project task, by due date
  OpenTasks,         \* the key and the record of each open workflow task, by age
  RecordOfObject,    \* the record that a document, a project or a task belongs to
  OldEvents,         \* audit events of other requests, the newest first
  MaxEvents,         \* bound on the number of audit events
  LinkIds,           \* the id that each link has when it exists
  Filters,           \* filters of saved views
  Requirements,      \* the configuration of a widget for missing documents
  Limits,            \* limits that requests send
  Cards,             \* the statuses that each card of the home page counts
  ScanFactor, MaxScan  \* 10 and 2000 in query.py

LinkFilter == [key : LinkTypes \cup {None}, direction : {"incoming", "outgoing", "either"}, related : Types \cup {None}]

ASSUME ReportAssumption ==
  /\ RecordsInOrder \in Seq(RecordIds) /\ OverdueTasks \in Seq(RecordIds)
  /\ \A r \in RecordIds : \E n \in DOMAIN RecordsInOrder : RecordsInOrder[n] = r
  /\ \A m, n \in DOMAIN RecordsInOrder : RecordsInOrder[m] = RecordsInOrder[n] => m = n
  /\ StatusOf \in [RecordIds -> RecordStatuses]
  /\ \A n \in DOMAIN OpenTasks : OpenTasks[n].record \in RecordIds
  /\ \A object \in DOMAIN RecordOfObject : RecordOfObject[object] \in RecordIds
  /\ None \notin DOMAIN RecordOfObject
  /\ Filters \subseteq [types : SUBSET Types, statuses : SUBSET RecordStatuses, link : LinkFilter \cup {None}]
  /\ None \notin LinkFilter
  /\ Limits \subseteq Nat /\ None \notin Limits
  /\ ScanFactor \in Nat \ {0} /\ MaxScan \in Nat
  /\ LinkIds \in [Link -> Nat]

VARIABLE events  \* the AuditEvent rows, the newest first as in every list of them

report_vars == <<access, link_vars, events>>

\* The slice [:n] of a list, as the places of its rows.
First(places, n) == {p \in places : Cardinality({q \in places : q <= p}) <= n}

-----------------------------------------------------------------------------
(* Saved views and dashboard widgets.  A filter names types and statuses,  *)
(* all of them if the set is empty, and a link or None.                    *)

\* The links of a record in the direction of a filter.
LinksOf(record, filter) ==
  {l \in links : /\ filter.key \in {None, l.key}
                 /\ \/ filter.direction # "incoming" /\ l.source = record
                    \/ filter.direction # "outgoing" /\ l.target = record}

\* The records of the right type that these links lead to; "either" looks at
\* the source of a link first.
Related(record, filter, rows) ==
  {r \in RecordIds : \E l \in rows :
     /\ filter.related \in {None, TypeOf[r]}
     /\ \/ filter.direction # "incoming" /\ <<l.source, l.target>> = <<record, r>>
        \/ filter.direction # "outgoing" /\ <<l.source, l.target>> = <<r, record>>}

\* The part of a filter that runs in the database, which sees every link.
MatchesQuery(record, filter) ==
  /\ filter.types = {} \/ TypeOf[record] \in filter.types
  /\ filter.statuses = {} \/ StatusOf[record] \in filter.statuses
  /\ filter.link = None \/ Related(record, filter.link, LinksOf(record, filter.link)) # {}

\* A bug this module can show: the second part is missing.
MatchesEveryUser(u, record, filter) == TRUE

\* The part that runs on the rows: only links to visible records count, of the
\* first of its links by id.
MatchesUser(u, record, filter) ==
  filter.link = None \/
    LET rows == LinksOf(record, filter.link)
        read == {l \in rows : Cardinality({k \in rows : LinkIds[k] <= LinkIds[l]}) <= MaxScan}
    IN \E r \in Related(record, filter.link, read) : CanView(u, r)

\* Rows read for a limit; None is no limit.
ScanLimit(limit, filter) ==
  IF limit = None \/ filter.link # None \/ ScanFactor * limit > MaxScan THEN MaxScan
  ELSE ScanFactor * limit

\* The places of the rows in the list of all records.
VisibleRecords(u, filter, limit) ==
  LET visible == RecordsUserCanView(u, RecordIds)
      listed == {p \in DOMAIN RecordsInOrder :
                   RecordsInOrder[p] \in visible /\ MatchesQuery(RecordsInOrder[p], filter)}
      shown == {p \in First(listed, ScanLimit(limit, filter)) :
                  CanView(u, RecordsInOrder[p]) /\ MatchesUser(u, RecordsInOrder[p], filter)}
  IN IF limit = None THEN shown ELSE First(shown, limit)

NoFilter == [types |-> {}, statuses |-> {}, link |-> None]

\* A widget that counts the visible records by a column.
CountBy(u, filter, column, values) ==
  [v \in values |-> Cardinality({p \in VisibleRecords(u, filter, None) : column[RecordsInOrder[p]] = v})]

\* A bug this module can show: the limit is put on the rows that are scanned.
OverdueItemsCutFirst(u, limit) ==
  {p \in First(DOMAIN OverdueTasks, limit) : CanView(u, OverdueTasks[p])}

\* The tasks scanned are cut off before the grants are looked at.
OverdueItems(u, limit) ==
  First({p \in First(DOMAIN OverdueTasks, ScanLimit(limit, NoFilter)) : CanView(u, OverdueTasks[p])}, limit)

\* One requirement after the other, until the limit is reached; a row is a
\* requirement and the place of a record.
MissingDocuments(u, requirements, limit) ==
  LET Scanned(requirement) ==
        LET visible == RecordsUserCanView(u, RecordIds)
            listed == {p \in DOMAIN RecordsInOrder :
                         TypeOf[RecordsInOrder[p]] = requirement.type /\ RecordsInOrder[p] \in visible}
        IN IF UserHasViewScope(u, requirement.type) THEN First(listed, ScanLimit(limit, NoFilter)) ELSE {}
      rows == {row \in (DOMAIN requirements) \X (DOMAIN RecordsInOrder) :
                 /\ row[2] \in Scanned(requirements[row[1]])
                 /\ CanView(u, RecordsInOrder[row[2]])
                 /\ requirements[row[1]].documents \ DocumentTypesOf[RecordsInOrder[row[2]]] # {}}
      UpTo(row) == {r \in rows : r[1] < row[1] \/ (r[1] = row[1] /\ r[2] <= row[2])}
  IN {row \in rows : Cardinality(UpTo(row)) <= limit}

\* Open tasks grouped by key.  The first task of a key beyond the limit ends
\* the scan, also for the keys that are already there.
WorkflowBottlenecks(u, limit) ==
  LET shown == {p \in First(DOMAIN OpenTasks, MaxScan) : CanView(u, OpenTasks[p].record)}
      Keys(p) == {OpenTasks[q].key : q \in {r \in shown : r <= p}}
      counted == {p \in shown : Cardinality(Keys(p)) <= limit}
  IN [key \in {OpenTasks[p].key : p \in counted} |-> {p \in counted : OpenTasks[p].key = key}]

\* The cards count whole lists; the list of recent records is never returned
\* (_serialize_recent_records ends without a return).
HomeOverview(u) ==
  LET visible == RecordsUserCanView(u, RecordIds)
  IN [cards |-> [card \in DOMAIN Cards |-> Cardinality({r \in visible : StatusOf[r] \in Cards[card]})],
      recent_records |-> None]

-----------------------------------------------------------------------------
(* Audit events.  A payload holds the keys of its snapshot; the records    *)
(* that an event is about are for the properties.                          *)

Named(payload, key) == IF key \in DOMAIN payload THEN payload[key] ELSE None

\* The first of these keys that is there makes the event one of a record.
PayloadRecord(payload) ==
  LET keys == <<"record_id", "owner_record_id", "related_record_id", "matched_record_id">>
      found == {n \in DOMAIN keys : Named(payload, keys[n]) # None}
  IN IF found = {} THEN None ELSE Named(payload, keys[Min(found)])

RecordVisible(u, record) == CanView(u, record)

ObjectVisible(u, object) == object # None /\ RecordVisible(u, RecordOfObject[object])

\* A bug this module can show: only the source of a link is looked at.
LinkEventVisibleBySource(u, payload) == RecordVisible(u, Named(payload, "source_record"))

LinkEventVisible(u, payload) ==
  RecordVisible(u, Named(payload, "source_record")) /\ RecordVisible(u, Named(payload, "target_record"))

\* The branches in the order of the code.
EventIsVisible(u, e) ==
  LET type == Named(e.payload, "target_object_type") IN
  CASE e.object_type = "record" -> RecordVisible(u, e.object_id)
    [] e.object_type = "document" -> ObjectVisible(u, e.object_id)
    [] e.object_type \notin {"record", "document"} /\ type # None -> UserCan(u, "view", type, None)
    [] e.object_type \notin {"record", "document"} /\ type = None ->
         IF PayloadRecord(e.payload) # None THEN RecordVisible(u, PayloadRecord(e.payload))
         ELSE CASE e.object_type = "project" -> ObjectVisible(u, e.object_id)
                [] e.object_type = "projecttask" -> ObjectVisible(u, Named(e.payload, "project_id"))
                [] e.object_type = "projecttaskdependency" -> ObjectVisible(u, Named(e.payload, "task_id"))
                [] e.object_type = "workflowtask" -> ObjectVisible(u, e.object_id)
                [] e.object_type = "relationship" -> LinkEventVisible(u, e.payload)
                [] OTHER -> FALSE

EventsOf(type, id) == {n \in DOMAIN events : events[n].object_type = type /\ events[n].object_id = id}

\* A bug this module can show: the limit is put on the rows that are read.
VisibleEventsCutFirst(u, rows, limit) ==
  {n \in First(rows, limit) : IsSystemAdmin(u) \/ EventIsVisible(u, events[n])}

\* The list of audit events and the widget of recent changes, as the places of
\* the events: rows are those that a query asks for.
VisibleEvents(u, rows, limit) ==
  First({n \in rows : IsSystemAdmin(u) \/ EventIsVisible(u, events[n])}, limit)

\* The history of one record, which its page asks for, has no limit.
RecordAudit(u, record) == IF CanView(u, record) THEN EventsOf("record", record) ELSE {}

\* The history of one document.
DocumentAudit(u, document) ==
  IF CanView(u, RecordOfObject[document]) THEN EventsOf("document", document) ELSE {}

LinkEvent(link) ==
  [object_type |-> "relationship", object_id |-> link,
   payload |-> [key \in {"source_record", "target_record"} |->
                  IF key = "source_record" THEN link.source ELSE link.target],
   about |-> {link.source, link.target}]

\* What the snapshots of the services say of the records of an event.
NamesItsRecords(e) ==
  /\ Named(e.payload, "target_object_type") # None <=> e.object_type = "importjob"
  /\ e.object_type = "relationship" => \E l \in Link : e = LinkEvent(l)
  /\ PayloadRecord(e.payload) # None => PayloadRecord(e.payload) \in e.about
  /\ e.object_type = "record" => e.object_id \in e.about
  /\ e.object_type \in {"document", "project", "workflowtask"} => RecordOfObject[e.object_id] \in e.about
  /\ e.object_type = "projecttask" => RecordOfObject[Named(e.payload, "project_id")] \in e.about
  /\ e.object_type = "projecttaskdependency" => RecordOfObject[Named(e.payload, "task_id")] \in e.about

ASSUME EventAssumption ==
  /\ OldEvents \in Seq({OldEvents[n] : n \in DOMAIN OldEvents})
  /\ \A n \in DOMAIN OldEvents : NamesItsRecords(OldEvents[n])
  /\ MaxEvents \in Nat

\* An event that cannot be written is logged and the request goes on; the
\* events here are written.
RecordAuditEvent(e) == Len(events) < MaxEvents /\ events' = <<e>> \o events

-----------------------------------------------------------------------------
(* Requests.                                                               *)

ReportsInit == AccessInit /\ LinkInit /\ events = OldEvents

LinkCreated(r) == SaveLink(r) /\ RecordAuditEvent(LinkEvent(creating[r].link))

LinkDeleted(u, link) == DeleteLink(u, link) /\ RecordAuditEvent(LinkEvent(link))

Idle(r) == patches[r] = None /\ creating[r] = None

Start(r) ==
  /\ Idle(r)
  /\ UNCHANGED events
  /\ \/ \E admin \in Users, u \in Managed : StartPatch(r, admin, u) /\ UNCHANGED link_vars
     \/ \E u \in Users, link \in LinkInputs : StartLink(r, u, link)

Finish(r) ==
  \/ SavePatch(r) /\ UNCHANGED <<link_vars, events>>
  \/ LinkCreated(r)
  \/ RefuseLink(r) /\ UNCHANGED events

ReportsNext ==
  \/ \E r \in Requests : Start(r) \/ Finish(r)
  \/ Administration /\ UNCHANGED <<link_vars, events>>
  \/ \E u \in Users, link \in links : LinkDeleted(u, link)
  \/ Publish /\ UNCHANGED events

ReportsSpec == ReportsInit /\ [][ReportsNext]_report_vars

-----------------------------------------------------------------------------
(* Properties.                                                             *)

TypeOK == AccessTypeOK /\ LinkTypeOK /\ \A n \in DOMAIN events : NamesItsRecords(events[n])

\* No saved view and no widget shows a row of a record that its user may not
\* view at that moment, whatever it filters by and however it is limited.
ReportsShowOnlyVisible ==
  \A u \in Users :
    /\ \A f \in Filters : \A p \in VisibleRecords(u, f, None) : CanView(u, RecordsInOrder[p])
    /\ \A limit \in Limits :
         /\ \A p \in OverdueItems(u, limit) : CanView(u, OverdueTasks[p])
         /\ \A row \in MissingDocuments(u, Requirements, limit) : CanView(u, RecordsInOrder[row[2]])
         /\ LET bottlenecks == WorkflowBottlenecks(u, limit) IN
            \A key \in DOMAIN bottlenecks : \A p \in bottlenecks[key] : CanView(u, OpenTasks[p].record)

\* The links of a record in its graph that a filter asks for.
GraphLinks(u, record, filter) ==
  {l \in BuildRecordGraph(u, record).edges :
     /\ filter.key \in {None, l.key}
     /\ \/ filter.direction # "incoming" /\ l.source = record /\ filter.related \in {None, TypeOf[l.target]}
        \/ filter.direction # "outgoing" /\ l.target = record /\ filter.related \in {None, TypeOf[l.source]}}

\* A saved view that asks for linked records never lists a record because of a
\* link that its user does not find in the graph of that record: a link to a
\* hidden record must not show up as a hit.  It lists every other one, as long
\* as all records and all links of the record are among those that are scanned.
LinkFilterMatchesGraph ==
  \A u \in Users, r \in RecordIds, f \in Filters :
    LET listed == r \in {RecordsInOrder[p] : p \in VisibleRecords(u, f, None)} IN
    (f.link # None /\ CanView(u, r)) =>
      /\ listed => GraphLinks(u, r, f.link) # {}
      /\ /\ Len(RecordsInOrder) <= MaxScan /\ Cardinality(LinksOf(r, f.link)) <= MaxScan
         /\ MatchesQuery(r, [f EXCEPT !.link = None]) /\ GraphLinks(u, r, f.link) # {}
         => listed

Shortest(limit, rows) == IF Cardinality(rows) < limit THEN Cardinality(rows) ELSE limit

\* A limit counts rows that the user sees, not rows that are skipped: a list
\* is shorter than its limit only if there is no more to show, as long as the
\* rows that must be scanned are fewer than the scan limit.
LimitsCountVisibleRows ==
  \A u \in Users, limit \in Limits :
    /\ Len(OverdueTasks) <= ScanLimit(limit, NoFilter) =>
         Cardinality(OverdueItems(u, limit))
           = Shortest(limit, {p \in DOMAIN OverdueTasks : CanView(u, OverdueTasks[p])})
    /\ \A f \in Filters : Len(RecordsInOrder) <= ScanLimit(limit, f) =>
         Cardinality(VisibleRecords(u, f, limit)) = Shortest(limit, VisibleRecords(u, f, None))

\* The numbers of widgets and of the home page are those of the records that a
\* user could open one by one: no count tells of a hidden record.
NumbersCountVisibleRecords ==
  \A u \in Users :
    LET Number(values) == Cardinality({r \in RecordIds : CanView(u, r) /\ StatusOf[r] \in values}) IN
    /\ \A card \in DOMAIN Cards : HomeOverview(u).cards[card] = Number(Cards[card])
    /\ Len(RecordsInOrder) <= MaxScan =>
         \A s \in RecordStatuses : CountBy(u, NoFilter, StatusOf, RecordStatuses)[s] = Number({s})

\* Reports show what their users may view, all of it and nothing else.
ReportsFollowGrants ==
  TypeOK /\ ReportsShowOnlyVisible /\ LimitsCountVisibleRows /\ NumbersCountVisibleRecords

\* An event is shown only to users who may view a record that it is about; one
\* of a link only to those who may view both ends, one of an import only to
\* those who may view the type.
EventsShowOnlyVisible ==
  \A u \in Users, limit \in Limits : \A n \in VisibleEvents(u, DOMAIN events, limit) :
    LET e == events[n] IN
    \/ IsSystemAdmin(u)
    \/ e.object_type = "importjob" /\ UserCan(u, "view", e.payload["target_object_type"], None)
    \/ e.object_type = "relationship" /\ \E l \in Link :
         e.object_id = l /\ CanView(u, l.source) /\ CanView(u, l.target)
    \/ e.object_type \notin {"importjob", "relationship"} /\
         \E r \in e.about : CanView(u, r)

\* A limit counts events that are shown: what is hidden takes no place.
LimitsCountVisibleEvents ==
  \A u \in Users, limit \in Limits :
    Cardinality(VisibleEvents(u, DOMAIN events, limit))
      = Shortest(limit, {n \in DOMAIN events : IsSystemAdmin(u) \/ EventIsVisible(u, events[n])})

\* The list of all events, asked for those of one record or document, shows a
\* user events of its page only, and as many of them as its limit allows: all
\* of them if there are no more than that.
AuditPagesAgree ==
  \A u \in Users, limit \in Limits :
    LET Agree(listed, page) == listed \subseteq page /\ Cardinality(listed) = Shortest(limit, page) IN
    /\ \A record \in RecordIds :
         Agree(VisibleEvents(u, EventsOf("record", record), limit), RecordAudit(u, record))
    /\ \A document \in DOMAIN RecordOfObject :
         Agree(VisibleEvents(u, EventsOf("document", document), limit), DocumentAudit(u, document))

\* Events follow the grants of their readers, and so does each page of them.
EventsFollowGrants == EventsShowOnlyVisible /\ LimitsCountVisibleEvents /\ AuditPagesAgree
=============================================================================
