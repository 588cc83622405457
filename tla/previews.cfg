SPECIFICATION Spec
CONSTANTS
  Parts = {"rules", "access", "closings"}
  Nothing = Nothing
  party1 = party1 p1 = p1 p2 = p2 k1 = k1 k2 = k2
  e1 = e1 t1 = t1 period = period m1 = m1 m2 = m2
  LastDay = 3
  RuleDefinitions <- SomeDefinitions
  Moves = {1}
  SplitDays = {2}
  RuleWrites = 4
  AccessUsers = {u1}
  AccessParties = {party1}
  AccessProposals <- SomeProposals
  AccessWrites = 2
  Subjects = {s1, s2}
  Proposals = {p1, p2}
  MaxChanges = 2
  MaxSent = 1
  FigureEntries = {1, 2, 3}
  FigureDrafts <- SomeEntries
  Holidays = {1, 2}
  HolidayDrafts <- SomeHolidays
  PerDay = 2
  LastOfFigures = 2
  FigureMonths <- TwoMonths
  Unit = 8
  Defaults = {p1}
  Types = {"app_data", "contact_rule"}
  ShownAs <- ShownAsData
  Unmapped = {"contact_rule"}
  LastTime = 2
  MaxRows = 3
  PageSize = 1
  MonthKids = {k1}
  MonthKind <- EntryAndPeriod
  Months = {1, 2, 3}
  MonthDrafts <- SomeMonths
  MonthWrites = 2
  Configured = p1
  ScopedMembers = {m1, m2}
  ScopedRequests = {q1, q2}
  MemberScopes <- SomeScopes
  ScopeWrites = 2
  Releases = {1, 2}
  FirstRelease = 1
  CacheName <- Names
  Tabs = {q1}
  EditedEntries = {1, 2, 3}
  Spare = 3
  Trips = {t1}
  Editors = {m1, m2}
  Schedulers = {m2}
  Scope <- ScopeOfEditors
  SavedDrafts <- SomeDrafts
  Submissions = {q1}
  MaxForms = 1
  OtherWrites = 1
  Children = {k1, k2}
  CareParties = {p1, p2}
INVARIANTS
  TypeOK
  FeedsFollowAccess
PROPERTIES
  ExceptionsPreserved
  SeriesChangesAsPreviewed
  AccessAppliedAsShown
  ClosedChangesAreAsked
CHECK_DEADLOCK FALSE
