------------------------------- MODULE ServerMC -------------------------------
EXTENDS Server, TLC

CONSTANTS
  k1, k2, c1, c2, n1, u1, u2, e1, pattern, generated, period, s1, s2, web, ics,
  r1, r2  \* ids

\* A pattern, the entry generated from it, and a period.
RecordKinds == (pattern :> "pattern") @@ (generated :> "entry") @@ (period :> "period")

RecordSources == (pattern :> Nothing) @@ (generated :> pattern) @@ (period :> Nothing)

OneEntry == e1 :> "entry"

\* Removal with and without erasure, detaching, deletion of records, and
\* anonymizing a profile.
SomeSelections ==
  {{"access", "channels", "identity"},
   {"access", "channels", "identity", "relationships", "transfer", "history"},
   {"relationships"}, {"records", "relationships"},
   {"records", "relationships", "delete", "history"}, {"anonymize", "history"}}

\* A feed that drops an event, and a file whose second version is refused.
CalendarContent ==
  (web :> (0 :> {u1, u2} @@ 1 :> {u2})) @@ (ics :> (0 :> {u1} @@ 1 :> Nothing))

OneName == c1 :> n1

\* The second package names a child it does not list.
TwoPackages == {e1 :> {c1}, e1 :> {c1, c2}}

\* Starts of an earlier and of a later release.
TwoReleases == (s1 :> 2) @@ (s2 :> 3)

\* The children of care records and of privacy actions are interchangeable, and
\* so are the people of requests, and the fetches of calendars.
Symmetry == Permutations({k1, k2}) \cup Permutations({r1, r2})
=============================================================================
