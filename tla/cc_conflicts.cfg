SPECIFICATION Spec

CONSTANTS
  Entries = {e1, e2}
  RuleEntries = {e1}
  Suppressed = {e2}
  Users = {u1}
  Parties = {p1}
  Sweeps = {s1}
  Editors = {d1}
  NoOne = NoOne

INVARIANTS
  ActualCareNeverOverlaps
