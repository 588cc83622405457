SPECIFICATION Spec
CONSTANTS
  Parts = {"records", "recovery", "privacy", "calendars", "transfer", "migration", "update",
           "setup", "devices", "requests", "startup"}
  Nothing = Nothing
  k1 = k1 k2 = k2 c1 = c1 c2 = c2 n1 = n1 u1 = u1 u2 = u2 e1 = e1
  pattern = pattern generated = generated period = period s1 = s1 s2 = s2 web = web ics = ics r1 = r1 r2 = r2
  Children = {k1, k2}
  CareParties = {p1}
  CareKind <- RecordKinds
  CareSource <- RecordSources
  CareMonths = {1}
  CareRequests = {q1}
  Passwords = {w1, w2}
  Initial = w0
  RecoverySessions = {s1, s2, s3}
  RecoveryRequests = {q1}
  PrivacyUsers = {u1}
  PrivacyKind <- OneEntry
  PrivacySelections <- SomeSelections
  PrivacyWrites = 2
  Sources = {s1}
  Origins = {web, ics}
  CalendarFiles = {ics}
  Uids = {u1, u2}
  Holds <- CalendarContent
  LastVersion = 1
  MaxRows = 3
  MaxRedirects = 1
  Fetches = {r1, r2}
  TransferChildren = {c1}
  TransferKind <- OneEntry
  TransferMembers = {m1}
  Packages = {f1}
  DryRuns = {t1}
  TransferWrites = 4
  LegacyIds = {c1, c2, c3}
  LegacyNames = {n1, n2}
  LegacyName <- OneName
  LegacyKind <- OneEntry
  LegacyPackages <- TwoPackages
  Migrations = {q1}
  MaxCopies = 2
  Tools = {t1}
  OlderTargets = FALSE
  LastRelease = 3
  UpdateWrites = 2
  Administrators = {u1, u2}
  LocalUser = local
  Submissions = {q1, q2}
  DeviceUsers = {u1, u2}
  Endpoints = {d1, d2}
  Registrations = {q1, q2}
  MaxDevices = 1
  Persons = {k1, k2}
  BreakGlass = breakglass
  RolesInUse = {"admin", "scheduler"}
  Servers = {s1, s2}
  Has <- TwoReleases
  LastMigration = 3
  MaxStarts = 3
INVARIANTS
  TypeOK
  RecordsHaveLiveChildren
  AdministratorKnowsPassword
  StoredIsOneVersion
  AccessGivenSinceReplaced
  ImportedForItsChildren
  SchemaFitsRelease
  OneSetup
  SweepsGetThrough
  MembershipDecides
PROPERTIES
  ErasedAsShown
  ImportedAsTested
SYMMETRY Symmetry
CHECK_DEADLOCK FALSE
