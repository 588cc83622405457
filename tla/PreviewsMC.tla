------------------------------ MODULE PreviewsMC ------------------------------
EXTENDS Previews, TLC

CONSTANTS
  party1, p1, p2, k1, k2, e1, t1, period, m1, m2  \* ids

Daily == [start |-> 1, end |-> 3, days |-> 1..3, segs |-> {1}, span |-> 0, active |-> TRUE]

\* Later and with two segments a day; every other day and over midnight.
SomeDefinitions ==
  {Daily, [Daily EXCEPT !.start = 2, !.segs = {1, 2}],
   [Daily EXCEPT !.days = {1, 3}, !.span = 1, !.end = 2]}

Everything == [all |-> TRUE, parties |-> {}]

Only(ps) == [all |-> FALSE, parties |-> ps]

SomeProposals ==
  {[role |-> "admin", scope |-> Everything], [role |-> "viewer", scope |-> Only({})]}

Entered(status, from, to, kids, carer) ==
  [status |-> status, from |-> from, to |-> to, kids |-> kids, actual |-> Nothing,
   party |-> carer, overnight |-> FALSE, km |-> 1]

\* Overlapping care of two parties, one of it over a night and a month's end;
\* care without a party; a plan; and a partial entry that took place at another
\* time, with one child and somebody else.
SomeEntries ==
  {Entered("completed", 0, 3, {k1}, p1),
   [Entered("completed", 1, 5, {k1, k2}, p2) EXCEPT !.overnight = TRUE],
   Entered("planned", 2, 4, {k2}, Nothing), Entered("completed", 1, 2, {k1}, Nothing),
   [Entered("partial", 0, 2, {k1, k2}, p1) EXCEPT
     !.actual = [from |-> 5, to |-> 6, kids |-> {k2}, party |-> p2], !.overnight = TRUE]}

SomeHolidays ==
  {[first |-> 0, last |-> 1, kids |-> {k1}, assigned |-> "mother"],
   [first |-> 1, last |-> 2, kids |-> {}, assigned |-> "father"]}

TwoMonths == {[first |-> 0, last |-> 1], [first |-> 2, last |-> 2]}

\* Rows of a type of its own filter, and of one that is shown under that filter
\* without being found there.
ShownAsData == [t \in Types |-> "appData"]

EntryAndPeriod == (e1 :> "entry") @@ (period :> "period")

\* Dates in one month, in two others, and in the last.
SomeMonths ==
  {[from |-> 1, to |-> 1, kids |-> {k1}], [from |-> 2, to |-> 3, kids |-> {}],
   [from |-> 3, to |-> 3, kids |-> {k1}]}

SomeScopes == {Everything, Only({p2})}

Names == <<"v5", "v6">>

Saved(status, from, to, kids, carer) ==
  [status |-> status, from |-> from, to |-> to, kids |-> kids, actual |-> Nothing,
   party |-> carer, trips |-> {}]

\* Planned entries that overlap, one with a trip, and one that took place
\* later and with one child only.
SomeDrafts ==
  {[Saved("planned", 0, 2, {k1}, p1) EXCEPT !.trips = {t1}],
   Saved("planned", 1, 3, {k1, k2}, p2),
   [Saved("partial", 0, 3, {k1, k2}, p1) EXCEPT !.actual = [from |-> 2, to |-> 3, kids |-> {k2}]]}

\* An editor who sees everything and a scheduler of one care party.
ScopeOfEditors == (m1 :> {p1, p2}) @@ (m2 :> {p1})
=============================================================================
