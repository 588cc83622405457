SPECIFICATION Spec

CONSTANTS
  Entries = {e1}
  RuleEntries = {}
  Suppressed = {}
  Users = {u1, u2}
  Parties = {p1}
  Sweeps = {s1}
  Editors = {d1}
  NoOne = NoOne

PROPERTIES
  AnswerIsDecisive
  SavingRetiresTasks

SYMMETRY MemberSymmetry
