--------------------------- MODULE SearchQueries ---------------------------
(***************************************************************************)
(* A search as SearchView answers it (apps/search/views.py): hits of the   *)
(* index, authorised and filtered one by one, or rows of the database.     *)
(*                                                                         *)
(* A query has a word, an index, an object type, statuses, statuses of     *)
(* projects and tags; None and the empty set ask for nothing.  The index   *)
(* and the database match a word in ways of their own: the one looks for   *)
(* what begins like it among the values of an entry, the other for its     *)
(* letters in columns and in the JSON of a record's data, keys included.   *)
(***************************************************************************)
EXTENDS Search

CONSTANTS
  Queries,
  IndexMatches,   \* the texts that Meilisearch finds for each word
  TextContains,   \* the words that contain it (icontains)
  JsonContains,   \* the tags in whose JSON it is contained
  Lower,          \* each status in lower case
  IndexRank,      \* the order in which Meilisearch returns entries
  RowRank,        \* the order in which the database returns rows
  HitLimit, ResultLimit  \* 50 and 20 in views.py

Project == "project"

\* create_project makes the record of a project; statuses that are asked for
\* are normalised to lower case.
ASSUME QueryAssumption ==
  /\ Project # None /\ \A p \in Projects : TypeOf[RecordOf[p]] = Project
  /\ IsFiniteSet(Objects)
  /\ Lower \in [Statuses -> Statuses] /\ \A s \in Statuses : Lower[Lower[s]] = Lower[s]
  /\ \A q \in Queries : \A s \in q.statuses \cup q.project_status : s \in Statuses /\ Lower[s] = s
  /\ \A q \in Queries : q.index \in IndexNames \cup {None}
  /\ HitLimit \in Nat /\ ResultLimit \in Nat

\* What a result shows, as far as filters and rules look at it.
Hit(o, record, type, status) == [object |-> o, record |-> record, type |-> type, status |-> status]

\* event.matched_record or event.managed_folder.record
EventRecord(e) == IF MatchedRecord[e] # None THEN MatchedRecord[e] ELSE FolderRecord[e]

-----------------------------------------------------------------------------
(* Filters.                                                                *)

\* The first of some hits, in the order of their objects.
Top(hits, rank, limit) ==
  {hit \in hits : Cardinality({h \in hits : rank[h.object] <= rank[hit.object]}) <= limit}

Indexes(q) == IF q.index = None THEN IndexNames ELSE {q.index}

NeedsRecord(q) == q.tags # {} \/ q.project_status # {}

RecordMatches(r, q) ==
  /\ q.project_status = {} \/ TypeOf[r] # Project \/ Lower[rows[r].status] \in q.project_status
  /\ q.tags = {} \/ rows[r].tag \in q.tags

\* The filters put on an authorised hit of the index.
HitMatches(hit, q) ==
  /\ q.type \in {None, hit.type}
  /\ q.statuses = {} \/ Lower[hit.status] \in q.statuses
  /\ \/ ~NeedsRecord(q)
     \/ /\ hit.object \notin Projects
        /\ hit.record # None /\ rows[hit.record] # None
        /\ RecordMatches(hit.record, q)
     \/ /\ hit.object \in Projects
        /\ rows[hit.object] # None
        /\ q.project_status = {} \/ Lower[rows[hit.object].status] \in q.project_status
        /\ q.tags = {} \/ RecordMatches(RecordOf[hit.object], q)

-----------------------------------------------------------------------------
(* The index.                                                              *)

\* A bug this module can show: grants on records are not looked at.
HitVisibleByType(u, record) == UserCan(u, "view", TypeOf[record], None)

HitVisible(u, record) == CanView(u, record)

\* A bug this module can show: an event is authorised by its matched record.
IndexedEventMatched(e) == MatchedRecord[e]

IndexedEventRecord(e) == EventRecord(e)

\* Administrators get the entry as it is: entries of documents have no object
\* type, entries of events only a matched record.
RawHit(o) ==
  LET status == index[o].own.status IN
  CASE o \in RecordIds -> Hit(o, o, TypeOf[o], status)
    [] o \in Revisions -> Hit(o, RecordOf[o], None, status)
    [] o \in Projects -> Hit(o, RecordOf[o], Project, status)
    [] o \in Events -> Hit(o, MatchedRecord[o], IF MatchedRecord[o] = None THEN None ELSE TypeOf[MatchedRecord[o]], status)

StatusShown(o) == rows[o].status

\* Others get the row of the database in the place of the entry, but for
\* projects.  The row must exist and its record be visible.
AuthorisedHits(u, o) ==
  IF IsSystemAdmin(u) THEN {RawHit(o)}
  ELSE LET record == CASE o \in RecordIds -> o
                       [] o \in Revisions \cup Projects -> RecordOf[o]
                       [] o \in Events -> IndexedEventRecord(o)
       IN IF rows[o] = None \/ record = None THEN {}
          ELSE IF ~HitVisible(u, record) THEN {}
          ELSE IF o \in Projects THEN {RawHit(o)}
          ELSE {Hit(o, record, TypeOf[record], StatusShown(o))}

\* Every text of an entry is searched, but for the keys of links as left out.
EntryTexts(o) ==
  {index[o].own.word, index[o].own.status}
  \cup (IF o \in RecordIds THEN {index[o].own.tag, TypeOf[o]} ELSE {})
  \cup UNION {{n.word, TypeOf[n.record]} : n \in index[o].about}

EntryContains(o, word) == word = None \/ EntryTexts(o) \cap IndexMatches[word] # {}

\* What one index returns: its limit counts entries that the user may not see.
Entries(q, name) ==
  Top({[object |-> o] : o \in {p \in Objects : index[p] # None /\ IndexOf(p) = name /\ EntryContains(p, q.word)}},
      IndexRank, HitLimit)

IndexHits(u, q, name) ==
  UNION {{hit \in AuthorisedHits(u, entry.object) : HitMatches(hit, q)} : entry \in Entries(q, name)}

SearchInIndex(u, q) == UNION {Top(IndexHits(u, q, name), IndexRank, ResultLimit) : name \in Indexes(q)}

-----------------------------------------------------------------------------
(* The database, which compares statuses as they are.                      *)

\* The words of a record are also those of its documents and of its project.
RowContains(o, word) ==
  \/ word = None
  \/ rows[o].word \in TextContains[word]
  \/ o \in RecordIds /\ rows[o].tag \in JsonContains[word]
  \/ o \in Revisions \cup Projects /\ rows[RecordOf[o]].word \in TextContains[word]

RecordHits(u, q) ==
  {Hit(r, r, TypeOf[r], rows[r].status) :
     r \in {s \in RecordsUserCanView(u, {t \in RecordIds : rows[t] # None}) :
              /\ RowContains(s, q.word)
              /\ q.type \in {None, TypeOf[s]}
              /\ q.statuses = {} \/ rows[s].status \in q.statuses
              /\ q.type = Project /\ q.project_status # {} => rows[s].status \in q.project_status
              /\ NeedsRecord(q) => RecordMatches(s, q)}}

DocumentHits(u, q) ==
  {Hit(d, RecordOf[d], TypeOf[RecordOf[d]], rows[d].status) :
     d \in {e \in Revisions :
              /\ rows[e] # None
              /\ RowContains(e, q.word)
              /\ q.statuses = {} \/ rows[e].status \in q.statuses
              /\ q.type \in {None, TypeOf[RecordOf[e]]}
              /\ CanView(u, RecordOf[e])
              /\ NeedsRecord(q) => RecordMatches(RecordOf[e], q)}}

\* A status of projects is asked of the project and, with the data, of its
\* record.
ProjectHits(u, q) ==
  {Hit(p, RecordOf[p], Project, rows[p].status) :
     p \in {o \in Projects :
              /\ q.type \in {None, Project}
              /\ rows[o] # None
              /\ RecordOf[o] \in RecordsUserCanView(u, {r \in RecordIds : TypeOf[r] = Project})
              /\ RowContains(o, q.word)
              /\ q.project_status = {} \/ rows[o].status \in q.project_status
              /\ q.statuses = {} \/ rows[o].status \in q.statuses
              /\ NeedsRecord(q) => RecordMatches(RecordOf[o], q)}}

\* Events without a record are for administrators who do not filter.
EventHits(u, q) ==
  LET found == {e \in Events : /\ rows[e] # None
                               /\ RowContains(e, q.word)
                               /\ q.statuses = {} \/ rows[e].status \in q.statuses}
      Shown(e) ==
        LET record == EventRecord(e) IN
        IF record = None THEN q.type = None /\ ~NeedsRecord(q) /\ IsSystemAdmin(u)
        ELSE /\ CanView(u, record)
             /\ q.type \in {None, TypeOf[record]}
             /\ NeedsRecord(q) => RecordMatches(record, q)
      TypeOfEvent(e) == IF EventRecord(e) = None THEN None ELSE TypeOf[EventRecord(e)]
  IN {Hit(e, EventRecord(e), TypeOfEvent(e), rows[e].status) : e \in {f \in found : Shown(f)}}

DatabaseHits(u, q, name) ==
  CASE name = "records" -> RecordHits(u, q)
    [] name = "documents" -> DocumentHits(u, q)
    [] name = "projects" -> ProjectHits(u, q)
    [] name = "folder_events" -> EventHits(u, q)

SearchInDatabase(u, q) == UNION {Top(DatabaseHits(u, q, name), RowRank, ResultLimit) : name \in Indexes(q)}

-----------------------------------------------------------------------------
(* Properties.                                                             *)

NonAdmins == {u \in Users : ~IsSystemAdmin(u)}

\* However old the index is, no search shows a row of a record that its user
\* may not view now; what has no record is for administrators alone.
SearchShowsOnlyVisible ==
  \A u \in NonAdmins, q \in Queries : \A hit \in SearchInIndex(u, q) \cup SearchInDatabase(u, q) :
    hit.record # None /\ CanView(u, hit.record)

\* But for projects, a user who is no administrator is never shown a status
\* that a row had once, although the index may still have it.
ShownStatusIsCurrent ==
  \A u \in NonAdmins, o \in Objects \ Projects :
    index[o] # None => \A hit \in AuthorisedHits(u, o) : hit.status = rows[o].status

\* Searches follow the grants and rows of today, not those of the index.
SearchesAreCurrent == SearchShowsOnlyVisible /\ ShownStatusIsCurrent

UpToDate == \A o \in Objects : rows[o] # None => index[o] # None /\ index[o].own = rows[o] /\ index[o].about = About(o)

\* What is asked of statuses means the same in both ways: they are written in
\* lower case, and a project has that of its record.
StatusesArePlain(o) ==
  /\ \A p \in {o} \cup References(o) : Lower[rows[p].status] = rows[p].status
  /\ o \in Projects => rows[o].status = rows[RecordOf[o]].status

\* Nothing is cut off.
AllIsReturned(u, q, name) ==
  /\ Cardinality({p \in Objects : index[p] # None /\ IndexOf(p) = name /\ EntryContains(p, q.word)}) <= HitLimit
  /\ Cardinality(IndexHits(u, q, name)) <= ResultLimit
  /\ Cardinality(DatabaseHits(u, q, name)) <= ResultLimit

\* The two ways of searching have rules and filters of their own, on hits and
\* in queries.  They agree: with an index that is up to date, a row that matches
\* the word in either way and whose statuses are plain is returned by both, with
\* the same fields, or by none, unless a limit is reached.
IndexAnswersLikeDatabase ==
  UpToDate => \A u \in NonAdmins, q \in Queries :
    LET hits == SearchInIndex(u, q)
        found == SearchInDatabase(u, q)
    IN \A name \in IndexNames : AllIsReturned(u, q, name) => \A o \in Objects :
         (/\ IndexOf(o) = name /\ rows[o] # None
          /\ EntryContains(o, q.word) /\ RowContains(o, q.word) /\ StatusesArePlain(o))
         => {hit \in hits : hit.object = o} = {hit \in found : hit.object = o}
=============================================================================
