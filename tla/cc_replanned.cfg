SPECIFICATION FairSpec

CONSTANTS
  Entries = {e1}
  RuleEntries = {}
  Suppressed = {}
  Users = {u1}
  Parties = {p1}
  Sweeps = {s1}
  Editors = {d1}
  NoOne = NoOne

PROPERTIES
  ReplannedAsksAgain
