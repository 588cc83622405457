-------------------------------- MODULE AuditLog --------------------------------
(***************************************************************************)
(* The change log in the browser (src/pages/AuditLogPage.tsx, lib/api.ts)  *)
(* and on the server (routes/audit.ts): the page loads the log of one kind *)
(* of object in pages, newest first, while members write to it and imports *)
(* replace it. A cursor is the position of the last row of a page; answers *)
(* may come late, out of order or not at all.                              *)
(***************************************************************************)
EXTENDS Naturals, FiniteSets, Sequences, SequencesExt

CONSTANTS
  Types,      \* values of audit_log.entity_type
  ShownAs,    \* objectTypeMap: the kind of object the page shows a type as
  Unmapped,   \* types objectTypeMap lacks: shown as the kind ShownAs has for them
  LastTime,   \* bound: timestamps are 1..LastTime
  MaxRows,    \* bound: rows ever written
  PageSize,   \* rows of a page
  Nothing     \* absent value

LogAssumption ==
  /\ ShownAs \in [Types -> STRING] /\ Unmapped \subseteq Types
  /\ \A t \in Types : ShownAs[t] # "all"
  /\ {LastTime, MaxRows, PageSize} \subseteq Nat \ {0}
  /\ Nothing \notin [id : 1..MaxRows, time : 1..LastTime]

VARIABLES
  log,      \* audit_log: a row for each id, Nothing when deleted or not written yet
  written,  \* rows written so far
  filter,   \* objectType of the page
  entries,  \* what it shows
  cursor,   \* nextCursor
  load,     \* the request of this generation of the page, and the last one of an
            \* earlier generation, while under way, with the server's answer
  listed    \* history: rows written when the server answered the first page

vars == <<log, written, filter, entries, cursor, load, listed>>

-----------------------------------------------------------------------------
Ids == 1..MaxRows
Times == 1..LastTime
Filters == {"all"} \cup {ShownAs[t] : t \in Types}
Rows == [id : Ids, time : Times, type : Types]
Cursors == [id : Ids, time : Times]
Loads == {"current", "earlier"}
Pages == [items : Seq(Rows), next : Cursors \cup {Nothing}]
Requests == [kind : Filters, after : Cursors \cup {Nothing}, page : Pages \cup {Nothing}, rows : 0..MaxRows]

Init ==
  /\ log = [i \in Ids |-> Nothing] /\ written = 0
  /\ filter = "all" /\ entries = <<>> /\ cursor = Nothing
  /\ load = [l \in Loads |-> Nothing]
  /\ listed = 0

-----------------------------------------------------------------------------
(* The server                                                              *)

\* recordDomainAudit: the timestamp is taken before the row gets its id and
\* becomes visible, or is that of an imported row, so it may lie before those
\* of rows already there.
Record(time, type) ==
  /\ written < MaxRows
  /\ written' = written + 1
  /\ log' = [log EXCEPT ![written + 1] = [id |-> written + 1, time |-> time, type |-> type]]
  /\ UNCHANGED <<filter, entries, cursor, load, listed>>

\* clearDomainData, before an import writes the log of its package with
\* Record, under new ids.
Clear ==
  /\ log' = [i \in Ids |-> Nothing]
  /\ UNCHANGED <<written, filter, entries, cursor, load, listed>>

\* auditEntries: the rows after a cursor.
Follows(row, c) == row.time < c.time \/ (row.time = c.time /\ row.id < c.id)

Newer(row, other) == Follows(other, [id |-> row.id, time |-> row.time])

\* The entity type the page asks for is the first one of objectTypeMap with
\* that kind.
Matches(row, kind) == kind = "all" \/ (ShownAs[row.type] = kind /\ row.type \notin Unmapped)

Matching(kind) == {row \in {log[i] : i \in Ids} \ {Nothing} : Matches(row, kind)}

\* ORDER BY timestamp DESC, id DESC: a row comes after those that are newer.
Position(row, rows) == Cardinality({other \in rows : Newer(other, row)}) + 1

NewestFirst(rows) == [i \in 1..Cardinality(rows) |-> CHOOSE row \in rows : Position(row, rows) = i]

FirstOf(s, n) == IF Len(s) <= n THEN s ELSE SubSeq(s, 1, n)

\* Seeded fault: the cursor is a timestamp, rows of the same one are left out.
SelectedInTime(kind, c) ==
  FirstOf(NewestFirst({row \in Matching(kind) : c = Nothing \/ row.time < c.time}), PageSize + 1)

\* One row more than asked for shows whether there is a next page.
Selected(kind, c) ==
  FirstOf(NewestFirst({row \in Matching(kind) : c = Nothing \/ Follows(row, c)}), PageSize + 1)

\* GET /api/audit-log/page
Page(kind, c) ==
  LET rows == Selected(kind, c)
      items == FirstOf(rows, PageSize)
  IN  [items |-> items,
       next |-> IF Len(rows) > PageSize
                  THEN [id |-> Last(items).id, time |-> Last(items).time] ELSE Nothing]

Answer(l) ==
  /\ load[l] # Nothing /\ load[l].page = Nothing
  /\ load' = [load EXCEPT ![l].page = Page(load[l].kind, load[l].after),
                          ![l].rows = IF load[l].after = Nothing THEN written ELSE 0]
  /\ UNCHANGED <<log, written, filter, entries, cursor, listed>>

-----------------------------------------------------------------------------
(* The page                                                                *)

Request(kind, after) == [kind |-> kind, after |-> after, page |-> Nothing, rows |-> 0]

\* The effect of a new object type, or of "try again": another generation.
Open(kind) ==
  /\ filter' = kind /\ entries' = <<>> /\ cursor' = Nothing /\ listed' = 0
  /\ load' = [current |-> Request(kind, Nothing),
              earlier |-> IF load.current # Nothing THEN load.current ELSE load.earlier]
  /\ UNCHANGED <<log, written>>

\* loadMore
LoadMore ==
  /\ cursor # Nothing /\ load.current = Nothing
  /\ load' = [load EXCEPT !.current = Request(filter, cursor)]
  /\ UNCHANGED <<log, written, filter, entries, cursor, listed>>

\* A page that answers an earlier generation is dropped.
Arrive(l) ==
  LET request == load[l] IN
  /\ request # Nothing /\ request.page # Nothing
  /\ IF l = "current"
       THEN /\ entries' = IF request.after = Nothing THEN request.page.items
                                                     ELSE entries \o request.page.items
            /\ cursor' = request.page.next
            /\ listed' = IF request.after = Nothing THEN request.rows ELSE listed
       ELSE UNCHANGED <<entries, cursor, listed>>
  /\ load' = [load EXCEPT ![l] = Nothing]
  /\ UNCHANGED <<log, written, filter>>

\* The request fails, or the effect's clean-up aborts it.
Fail(l) ==
  /\ load[l] # Nothing
  /\ load' = [load EXCEPT ![l] = Nothing]
  /\ UNCHANGED <<log, written, filter, entries, cursor, listed>>

Next ==
  \/ \E time \in Times, type \in Types : Record(time, type)
  \/ Clear
  \/ \E kind \in Filters : Open(kind)
  \/ LoadMore
  \/ \E l \in Loads : Answer(l) \/ Arrive(l) \/ Fail(l)

Spec == Init /\ [][Next]_vars

-----------------------------------------------------------------------------
\* Every variable has its type.
TypeOK ==
  /\ log \in [Ids -> Rows \cup {Nothing}] /\ written \in 0..MaxRows
  /\ filter \in Filters
  /\ entries \in Seq(Rows)
  /\ cursor \in Cursors \cup {Nothing}
  /\ load \in [Loads -> Requests \cup {Nothing}]
  /\ listed \in 0..MaxRows

\* docs/data-model.md ("stable cursor pagination"): whatever is written and
\* replaced between the pages, and however answers overlap when the filter
\* changes, the page shows rows of its filter only, newest first and each once,
\* and of those that were there when it was opened and still are it leaves out
\* only what the next pages will bring.
PagesAreComplete ==
  /\ \A i, j \in 1..Len(entries) : i < j => Newer(entries[i], entries[j])
  /\ \A i \in 1..Len(entries) : Matches(entries[i], filter)
  /\ \A row \in Matching(filter) :
       row.id <= listed => \/ row \in ToSet(entries)
                           \/ (cursor # Nothing /\ Follows(row, cursor))

\* src/config/fieldHelp.ts: the filter separates the kinds of objects: what is
\* shown as a kind is found under it.
FilterFindsItsKind ==
  \A i \in 1..Len(entries) : Matches(entries[i], ShownAs[entries[i].type])
=============================================================================
