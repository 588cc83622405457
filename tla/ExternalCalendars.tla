--------------------------- MODULE ExternalCalendars ---------------------------
(***************************************************************************)
(* Imported calendars (server/services/externalCalendars.ts): a source is  *)
(* filled from an uploaded file or from a feed, refreshed from the feed    *)
(* and replaced; holiday periods are derived from the events of a holiday  *)
(* source.                                                                 *)
(*                                                                         *)
(* A request that fetches a feed waits for the publisher between the read  *)
(* of the source and the transaction that writes the events. What a feed   *)
(* serves is a version of its content, whose events are named by their     *)
(* UID. A row of an event keeps its id as long as its UID stays: an event  *)
(* that is gone from one version and back in the next has a new row.       *)
(***************************************************************************)
EXTENDS Integers, FiniteSets

CONSTANTS
  Sources,       \* ids of sources, one for each import without an id
  Origins,       \* feed URLs and files
  Files,         \* the files among them
  Uids,          \* identifiers of events
  Holds,         \* the valid events of an origin's versions, or Nothing
  LastVersion,   \* bound: versions of an origin are 0..LastVersion
  MaxRows,       \* bound: rows of events ever inserted
  MaxRedirects,  \* MAX_FEED_REDIRECTS
  Tasks,         \* requests that can fetch at the same time
  Nothing        \* absent value

FilesAssumption == Files \subseteq Origins
BoundsAssumption == {LastVersion, MaxRows, MaxRedirects} \subseteq Nat
HoldsAssumption == Holds \in [Origins -> [0..LastVersion -> (SUBSET Uids) \cup {Nothing}]]

VARIABLES
  source,     \* external_calendar_sources
  event,      \* external_calendar_events
  holiday,    \* live holiday_periods derived from each event row
  published,  \* the version each origin serves
  task,       \* requests that fetch a feed
  rows        \* event rows inserted so far

vars == <<source, event, holiday, published, task, rows>>

-----------------------------------------------------------------------------
Content == [from : Origins, version : 0..LastVersion]

Feeds == Origins \ Files

\* filled is a history variable: what the events were last written from.
SourceRow == [feed : Origins, holiday : BOOLEAN, filled : Content, failed : BOOLEAN]

EventRow == [id : 1..MaxRows, of : Content]

Task == [op : {"create", "replace", "refresh"}, source : Sources, url : Origins,
         redirects : 0..MaxRedirects, content : Content \cup {Nothing}]

UidsAssumption == IsFiniteSet(Uids)
NothingAssumption ==
  /\ Nothing \notin Content /\ Nothing \notin EventRow /\ Nothing \notin SourceRow
  /\ Nothing \notin Task
  /\ \A us \in SUBSET Uids : us # Nothing

Exists(s) == source[s] # Nothing

Init ==
  /\ source = [s \in Sources |-> Nothing]
  /\ event = [s \in Sources |-> [u \in Uids |-> Nothing]]
  /\ holiday = [s \in Sources |-> [r \in 1..MaxRows |-> 0]]
  /\ published = [o \in Origins |-> 0]
  /\ task = [q \in Tasks |-> Nothing]
  /\ rows = 0

-----------------------------------------------------------------------------
Published(o) == [from |-> o, version |-> published[o]]

\* parseIcs refuses the whole content for one event it does not support.
Parsed(c) == Holds[c.from][c.version]

\* The rows of source s that writeEvents inserts.
Inserted(s, c) == {u \in Parsed(c) : event[s][u] = Nothing}

\* Seeded fault: events that are gone from the content stay.
WrittenOver(s, c, ids) ==
  [u \in Uids |->
     CASE u \in Inserted(s, c) -> [id |-> ids[u], of |-> c]
       [] u \in Parsed(c) \ Inserted(s, c) -> [event[s][u] EXCEPT !.of = c]
       [] OTHER -> event[s][u]]

\* writeEvents: an upsert of each event, then the rows of others go.
Written(s, c, ids) ==
  [u \in Uids |->
     CASE u \in Inserted(s, c) -> [id |-> ids[u], of |-> c]
       [] u \in Parsed(c) \ Inserted(s, c) -> [event[s][u] EXCEPT !.of = c]
       [] OTHER -> Nothing]

\* Ids for new rows, each used once. Which event gets which does not matter.
NewIds(new) ==
  CHOOSE ids \in [new -> (rows + 1)..(rows + Cardinality(new))] :
    \A u, v \in new : u # v => ids[u] # ids[v]

\* The transaction of an import or a refresh of source s with content c.
Fill(s, row, c) ==
  /\ Parsed(c) # Nothing
  /\ rows + Cardinality(Inserted(s, c)) <= MaxRows
  /\ rows' = rows + Cardinality(Inserted(s, c))
  /\ event' = [event EXCEPT ![s] = Written(s, c, NewIds(Inserted(s, c)))]
  /\ source' = [source EXCEPT ![s] = row]

Row(o, h, c) == [feed |-> o, holiday |-> h, filled |-> c, failed |-> FALSE]

-----------------------------------------------------------------------------
\* POST and PUT import: a file fills a new source or replaces one.
ImportFile(s, f, h) ==
  /\ Fill(s, Row(f, h, Published(f)), Published(f))
  /\ UNCHANGED <<holiday, published, task>>

\* POST and PUT feed, refresh: the request starts to fetch the URL it was
\* given, or the URL it found in the source.
StartFetch(q, op, s, o) ==
  /\ task[q] = Nothing
  /\ op = "create" => ~Exists(s)
  /\ op = "refresh" => Exists(s) /\ source[s].feed = o
  /\ task' = [task EXCEPT ![q] = [op |-> op, source |-> s, url |-> o,
                                  redirects |-> 0, content |-> Nothing]]
  /\ UNCHANGED <<source, event, holiday, published, rows>>

\* fetchExternalCalendarFeedContent follows a redirect to a new request.
Redirect(q) ==
  /\ task[q] # Nothing /\ task[q].content = Nothing
  /\ task[q].redirects < MaxRedirects
  /\ task' = [task EXCEPT ![q].redirects = @ + 1]
  /\ UNCHANGED <<source, event, holiday, published, rows>>

\* The publisher answers with what it serves now.
Answer(q) ==
  /\ task[q] # Nothing /\ task[q].content = Nothing
  /\ task' = [task EXCEPT ![q].content = Published(task[q].url)]
  /\ UNCHANGED <<source, event, holiday, published, rows>>

\* The row a task's transaction writes. A refresh takes the source as it is.
FilledRow(t, h) ==
  IF t.op = "refresh"
  THEN [source[t.source] EXCEPT !.filled = t.content, !.failed = FALSE]
  ELSE Row(t.url, h, t.content)

\* The transaction. Only a new source may be absent.
Commit(q, h) ==
  /\ task[q] # Nothing /\ task[q].content # Nothing
  /\ Exists(task[q].source) <=> task[q].op # "create"
  /\ Fill(task[q].source, FilledRow(task[q], h), task[q].content)
  /\ task' = [task EXCEPT ![q] = Nothing]
  /\ UNCHANGED <<holiday, published>>

\* A fetch that times out or is refused, content that does not parse and a
\* source that is gone leave the events as they are; a refresh notes it.
Fail(q) ==
  /\ task[q] # Nothing
  /\ source' = IF task[q].op = "refresh" /\ Exists(task[q].source)
               THEN [source EXCEPT ![task[q].source].failed = TRUE] ELSE source
  /\ task' = [task EXCEPT ![q] = Nothing]
  /\ UNCHANGED <<event, holiday, published, rows>>

-----------------------------------------------------------------------------
\* updateExternalCalendarSource: the type is all that later steps look at.
UpdateSource(s, h) ==
  /\ Exists(s)
  /\ source' = [source EXCEPT ![s].holiday = h]
  /\ UNCHANGED <<event, holiday, published, task, rows>>

\* Seeded fault: the events of a deleted source stay.
EventsKept(s) == event

EventsCleared(s) == [event EXCEPT ![s] = [u \in Uids |-> Nothing]]

\* The events go with their source, derived holiday periods stay.
DeleteSource(s) ==
  /\ Exists(s)
  /\ source' = [source EXCEPT ![s] = Nothing]
  /\ event' = EventsCleared(s)
  /\ UNCHANGED <<holiday, published, task, rows>>

\* Event rows that no live holiday period names.
Underived(s) ==
  {event[s][u].id : u \in {v \in Uids : event[s][v] # Nothing /\ holiday[s][event[s][v].id] = 0}}

\* deriveHolidayPeriodsFromExternalCalendar.
Derive(s) ==
  /\ Exists(s) /\ source[s].holiday
  /\ holiday' = [holiday EXCEPT ![s] =
       [r \in 1..MaxRows |-> IF r \in Underived(s) THEN @[r] + 1 ELSE @[r]]]
  /\ UNCHANGED <<source, event, published, task, rows>>

\* DELETE of a holiday period (routes/holidays.ts).
DeleteHoliday(s, r) ==
  /\ holiday[s][r] > 0
  /\ holiday' = [holiday EXCEPT ![s][r] = @ - 1]
  /\ UNCHANGED <<source, event, published, task, rows>>

\* The publisher changes what it serves.
Publish(o) ==
  /\ published[o] < LastVersion
  /\ published' = [published EXCEPT ![o] = @ + 1]
  /\ UNCHANGED <<source, event, holiday, task, rows>>

Next ==
  \/ \E s \in Sources, f \in Files, h \in BOOLEAN : ImportFile(s, f, h)
  \/ \E q \in Tasks, op \in {"create", "replace", "refresh"}, s \in Sources, o \in Feeds :
       StartFetch(q, op, s, o)
  \/ \E q \in Tasks : Redirect(q) \/ Answer(q) \/ Fail(q)
  \/ \E q \in Tasks, h \in BOOLEAN : Commit(q, h)
  \/ \E s \in Sources, h \in BOOLEAN : UpdateSource(s, h)
  \/ \E s \in Sources : DeleteSource(s) \/ Derive(s)
  \/ \E s \in Sources, r \in 1..MaxRows : DeleteHoliday(s, r)
  \/ \E o \in Origins : Publish(o)

Spec == Init /\ [][Next]_vars

-----------------------------------------------------------------------------
\* Every variable has its type; an event row has a live source.
TypeOK ==
  /\ source \in [Sources -> SourceRow \cup {Nothing}]
  /\ event \in [Sources -> [Uids -> EventRow \cup {Nothing}]]
  /\ \A s \in Sources : ~Exists(s) => event[s] = [u \in Uids |-> Nothing]
  /\ holiday \in [Sources -> [1..MaxRows -> Nat]]
  /\ published \in [Origins -> 0..LastVersion]
  /\ task \in [Tasks -> Task \cup {Nothing}]
  /\ rows \in 0..MaxRows

\* A source holds one version of its content: whatever fetches, failures and
\* replacements overlap, no event of another version and none that the
\* content no longer has is left, and none of its events is missing.
StoredIsOneVersion ==
  \A s \in Sources : Exists(s) =>
    \A u \in Uids : IF u \in Parsed(source[s].filled)
                    THEN event[s][u] # Nothing /\ event[s][u].of = source[s].filled
                    ELSE event[s][u] = Nothing

\* docs/external-calendars.md: an event that is derived already is skipped.
\* No row of an event has two live holiday periods.
DerivedOnce == \A s \in Sources, r \in 1..MaxRows : holiday[s][r] <= 1

\* docs/external-calendars.md: events no longer contained in the replacement
\* are removed. The events of a source come from its present feed or file.
EventsOfPresentFeed ==
  \A s \in Sources : Exists(s) => source[s].filled.from = source[s].feed
=============================================================================
