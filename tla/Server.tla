-------------------------------- MODULE Server --------------------------------
(***************************************************************************)
(* The parts of the server, and the tools beside it, in one specification. *)
(* A behaviour exercises one part: the parts share tables, but each module *)
(* already contains every operation of the others that matters to its      *)
(* properties (a deletion of a child, an edit of an entry, ...), so their  *)
(* interleavings would only repeat what the modules have.                  *)
(***************************************************************************)
EXTENDS Integers

CONSTANTS
  Parts,    \* the parts exercised
  Nothing,  \* absent value
  Children, CareParties,                           \* of CareRecords and PrivacyActions
  CareKind, CareSource, CareMonths, CareRequests,  \* of CareRecords
  Passwords, Initial, RecoverySessions, RecoveryRequests,          \* of RecoveryAdmin
  PrivacyUsers, PrivacyKind, PrivacySelections, PrivacyWrites,     \* of PrivacyActions
  Sources, Origins, CalendarFiles, Uids, Holds, LastVersion, MaxRows, MaxRedirects, Fetches,
  TransferChildren, TransferKind, TransferMembers, Packages, DryRuns, TransferWrites,
  LegacyIds, LegacyNames, LegacyName, LegacyKind, LegacyPackages, Migrations, MaxCopies,
  Tools, OlderTargets, LastRelease, UpdateWrites,                  \* of ReleaseUpdate
  Administrators, LocalUser, Submissions,                          \* of FirstUse
  DeviceUsers, Endpoints, Registrations, MaxDevices,               \* of PushDevices
  Persons, BreakGlass, RolesInUse,                                  \* of RequestAccess
  Servers, Has, LastMigration, MaxStarts                           \* of Startup

VARIABLES
  part,
  child, party, record, mirror, closing, pending, missed,
  password, mounted, session, recoveryRequest,
  row, profile, user, relation, review, stale, unshown, privacyWrites,
  source, event, holiday, published, task, rows,
  domain, given, offered, actor, file, receipt, chosen, transferWrites,
  kid, stored, migration, lost,
  env, releases, running, db, lock, tool,
  driver, mode, owner, completedBy, admitted, created, existing, submitted, removal, tokens,
  link, relinked,
  subscriber, device, registering, overlapped, sweep,
  authMode, strict, enabled, holder, standing, loggedIn, recovering, removed,
  backend, applied, table, advisory, process, starts

-----------------------------------------------------------------------------
Care == INSTANCE CareRecords WITH
  Parties <- CareParties, Records <- DOMAIN CareKind, Kind <- CareKind, Source <- CareSource,
  Months <- CareMonths, Requests <- CareRequests

recordsVars == <<child, party, record, mirror, closing, pending, missed>>

Recovery == INSTANCE RecoveryAdmin WITH
  Sessions <- RecoverySessions, Requests <- RecoveryRequests, request <- recoveryRequest

recoveryVars == <<password, mounted, session, recoveryRequest>>

Privacy == INSTANCE PrivacyActions WITH
  Users <- PrivacyUsers, Parties <- CareParties, Records <- DOMAIN PrivacyKind,
  Kind <- PrivacyKind, Selections <- PrivacySelections, MaxWrites <- PrivacyWrites,
  record <- row, preview <- review, writes <- privacyWrites

privacyVars == <<row, profile, user, relation, review, stale, unshown, privacyWrites>>

-----------------------------------------------------------------------------
Calendars == INSTANCE ExternalCalendars WITH
  Files <- CalendarFiles, Tasks <- Fetches

calendarsVars == <<source, event, holiday, published, task, rows>>

Transfer == INSTANCE DataTransfer WITH
  Children <- TransferChildren, Parties <- CareParties, Records <- DOMAIN TransferKind,
  Kind <- TransferKind, Members <- TransferMembers, Files <- Packages, Tests <- DryRuns,
  MaxWrites <- TransferWrites,
  assigned <- given, invitation <- offered, writes <- transferWrites

transferVars == <<domain, given, offered, actor, file, receipt, chosen, transferWrites>>

Migration == INSTANCE LegacyMigration WITH
  Ids <- LegacyIds, Names <- LegacyNames, Items <- DOMAIN LegacyKind, Kind <- LegacyKind,
  Packages <- LegacyPackages, Requests <- Migrations, child <- kid, request <- migration

migrationVars == <<kid, stored, migration, lost>>

Update == INSTANCE ReleaseUpdate WITH
  LastVersion <- LastRelease, MaxWrites <- UpdateWrites

updateVars == <<env, releases, running, db, lock, tool>>

FirstUses == INSTANCE FirstUse WITH
  Users <- Administrators, Requests <- Submissions, member <- admitted, request <- submitted

setupVars == <<driver, mode, owner, completedBy, admitted, created, existing, submitted, removal,
               tokens, link, relinked>>

Devices == INSTANCE PushDevices WITH
  Users <- DeviceUsers, Requests <- Registrations, member <- subscriber

devicesVars == <<subscriber, device, registering, overlapped, sweep>>

Requesting == INSTANCE RequestAccess WITH
  Users <- Persons, RecoveryUser <- BreakGlass, Roles <- RolesInUse,
  mode <- authMode, owner <- holder, membership <- standing, session <- loggedIn,
  recovery <- recovering

requestsVars == <<authMode, strict, enabled, holder, standing, loggedIn, recovering, removed>>

Starting == INSTANCE Startup WITH
  Last <- LastMigration, driver <- backend, lock <- advisory, server <- process

startupVars == <<backend, applied, table, advisory, process, starts>>

ASSUME ServerAssumption ==
  /\ Care!KindAssumption /\ Care!SourceAssumption
  /\ Care!MonthAssumption /\ Care!NothingAssumption
  /\ Recovery!InitialAssumption /\ Recovery!NothingAssumption
  /\ Privacy!KindAssumption /\ Privacy!BoundAssumption /\ Privacy!NothingAssumption
  /\ Calendars!FilesAssumption /\ Calendars!BoundsAssumption /\ Calendars!HoldsAssumption
  /\ Calendars!UidsAssumption /\ Calendars!NothingAssumption
  /\ Transfer!KindAssumption /\ Transfer!BoundAssumption /\ Transfer!NothingAssumption
  /\ Migration!LegacyAssumption /\ Migration!NothingAssumption
  /\ Update!OptionAssumption /\ Update!BoundAssumption
  /\ FirstUses!UserAssumption /\ Devices!DeviceAssumption
  /\ Requesting!RoleAssumption /\ Requesting!PeopleAssumption
  /\ Starting!HasAssumption

-----------------------------------------------------------------------------
vars == <<part, recordsVars, recoveryVars, privacyVars, calendarsVars,
          transferVars, migrationVars, updateVars, setupVars, devicesVars,
          requestsVars, startupVars>>

\* The parts that are not exercised start in one state only.
Init ==
  /\ part \in Parts
  /\ Recovery!Init /\ (part # "recovery" => ~mounted)
  /\ FirstUses!Init
  /\ part # "setup" => /\ driver = "sqlite" /\ mode = "proxy"
                      /\ \A u \in DOMAIN admitted : admitted[u] = "none"
  /\ Requesting!Init
  /\ part # "requests" => authMode = "proxy" /\ ~strict /\ ~enabled
  /\ Starting!Init /\ (part # "startup" => backend = "sqlite" /\ table = {})
  /\ Care!Init /\ Privacy!Init /\ Calendars!Init /\ Transfer!Init
  /\ Migration!Init /\ Update!Init /\ Devices!Init

Next ==
  \/ /\ part = "records" /\ Care!Next
     /\ UNCHANGED <<part, recoveryVars, privacyVars, calendarsVars, transferVars,
                    migrationVars, updateVars, setupVars, devicesVars, requestsVars, startupVars>>
  \/ /\ part = "recovery" /\ Recovery!Next
     /\ UNCHANGED <<part, recordsVars, privacyVars, calendarsVars, transferVars,
                    migrationVars, updateVars, setupVars, devicesVars, requestsVars, startupVars>>
  \/ /\ part = "privacy" /\ Privacy!Next
     /\ UNCHANGED <<part, recordsVars, recoveryVars, calendarsVars, transferVars,
                    migrationVars, updateVars, setupVars, devicesVars, requestsVars, startupVars>>
  \/ /\ part = "calendars" /\ Calendars!Next
     /\ UNCHANGED <<part, recordsVars, recoveryVars, privacyVars, transferVars,
                    migrationVars, updateVars, setupVars, devicesVars, requestsVars, startupVars>>
  \/ /\ part = "transfer" /\ Transfer!Next
     /\ UNCHANGED <<part, recordsVars, recoveryVars, privacyVars, calendarsVars,
                    migrationVars, updateVars, setupVars, devicesVars, requestsVars, startupVars>>
  \/ /\ part = "migration" /\ Migration!Next
     /\ UNCHANGED <<part, recordsVars, recoveryVars, privacyVars, calendarsVars,
                    transferVars, updateVars, setupVars, devicesVars, requestsVars, startupVars>>
  \/ /\ part = "update" /\ Update!Next
     /\ UNCHANGED <<part, recordsVars, recoveryVars, privacyVars, calendarsVars,
                    transferVars, migrationVars, setupVars, devicesVars, requestsVars, startupVars>>
  \/ /\ part = "setup" /\ FirstUses!Next
     /\ UNCHANGED <<part, recordsVars, recoveryVars, privacyVars, calendarsVars,
                    transferVars, migrationVars, updateVars, devicesVars, requestsVars, startupVars>>
  \/ /\ part = "devices" /\ Devices!Next
     /\ UNCHANGED <<part, recordsVars, recoveryVars, privacyVars, calendarsVars,
                    transferVars, migrationVars, updateVars, setupVars, requestsVars, startupVars>>
  \/ /\ part = "requests" /\ Requesting!Next
     /\ UNCHANGED <<part, recordsVars, recoveryVars, privacyVars, calendarsVars,
                    transferVars, migrationVars, updateVars, setupVars, devicesVars, startupVars>>
  \/ /\ part = "startup" /\ Starting!Next
     /\ UNCHANGED <<part, recordsVars, recoveryVars, privacyVars, calendarsVars,
                    transferVars, migrationVars, updateVars, setupVars, devicesVars, requestsVars>>

Spec == Init /\ [][Next]_vars

-----------------------------------------------------------------------------
\* Every variable of every part has its type.
TypeOK ==
  /\ part \in Parts
  /\ part = "records" => Care!TypeOK
  /\ part = "recovery" => Recovery!TypeOK
  /\ part = "privacy" => Privacy!TypeOK
  /\ part = "calendars" => Calendars!TypeOK
  /\ part = "transfer" => Transfer!TypeOK
  /\ part = "migration" => Migration!TypeOK
  /\ part = "update" => Update!TypeOK
  /\ part = "setup" => FirstUses!TypeOK
  /\ part = "devices" => Devices!TypeOK
  /\ part = "requests" => Requesting!TypeOK
  /\ part = "startup" => Starting!TypeOK

\* No record is left with a deleted child among those it was planned for
\* (softDeletePersistedChildRelations, assertPersistedChildren).
RecordsHaveLiveChildren == part = "records" => Care!RecordsHaveLiveChildren

\* Whoever acts as the recovery administrator knows the stored password
\* (changePassword).
AdministratorKnowsPassword == part = "recovery" => Recovery!AdministratorKnowsPassword

\* A privacy action deletes no record it did not show and no record another
\* child has a part in, and detaching an identity leaves it nothing that was
\* attached since the preview (deleteChildDomainRecords, applyUserActions).
ErasedAsShown ==
  [](part = "privacy" => Privacy!OnlyShownRecordsErased) /\ Privacy!DetachedKeepsNothing

\* A calendar source holds one version of its content, whatever fetches and
\* deletions overlap (writeEvents).
StoredIsOneVersion == part = "calendars" => Calendars!StoredIsOneVersion

\* No event has two live holiday periods (deriveHolidayPeriods).
DerivedOnce == part = "calendars" => Calendars!DerivedOnce

\* An import replaces the data its dry run compared the package with
\* (importPortableTransfer).
ImportedAsTested == Transfer!ImportedAsTested

\* After the data was replaced, members and invitations have only care parties
\* given since then (clearDomainData).
AccessGivenSinceReplaced == part = "transfer" => Transfer!AccessGivenSinceReplaced

\* What an installation exports can be imported (exportDomainData).
ExportCanBeImported == part = "transfer" => Transfer!ExportCanBeImported

\* An imported entry is about the children it was about in the browser, or about
\* whoever has the id of one the browser did not know (additiveImport).
ImportedForItsChildren == part = "migration" => Migration!ImportedForItsChildren

\* No release runs on a schema newer than its own (runUpdate, rollback); every
\* migration that is recorded took effect once, whatever starts overlap, and a
\* server that says it is ready has those of its release (migrateDatabase,
\* migratePostgresDatabase, status).
SchemaFitsRelease ==
  /\ part = "update" => Update!OldCodeNeverOnNewerSchema
  /\ part = "startup" => Starting!SchemaIsWhole

\* Overlapping submissions of the setup wizard set an installation up for one
\* owner (completeFirstUseSetup, claimOrAssertOwner).
OneSetup == part = "setup" => FirstUses!OneSetup

\* No member's browsers keep a sweep from serving the others
\* (savePushSubscription, pushSubscriptionsForUser).
SweepsGetThrough == part = "devices" => Devices!SweepsGetThrough

\* Requests, the app, the list of members, feeds and background jobs have the
\* same idea of a person's access (createApiAuthHook, GET /api/session,
\* workspacePermissionsForUser, listMembers), and whoever was removed stays out
\* until admitted again (clearMembershipRole, applyMembershipRole).
MembershipDecides ==
  part = "requests" => Requesting!AccessIsShown /\ Requesting!RemovedStaysOut

\* Whoever is listed as having access has it (listMembers).
ListedHasAccess == part = "requests" => Requesting!ListedHasAccess
=============================================================================
