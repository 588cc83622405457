# A TLA+ model of betreuungskalender

betreuungskalender is a self-hosted calendar for the care of children that several people share. One server
process (Fastify, `src/server`) keeps everything in one database (SQLite by default, PostgreSQL as an option),
runs a timer for its background work and serves a React application (`src/src`). This directory holds TLA+
modules that model its core, configurations for TLC, and proofs for TLAPS. Paths in this text are relative to the
root of the repository.

```
tlasany CareConfirmations.tla                                   parse a module
tlc -workers 4 -config cc_tasks.cfg CareConfirmationsMC.tla     check a run (module and cfg: PROJECT.json)
tlapm CareConfirmationsProofs.tla                               check the proofs
```

`PROJECT.json` lists the components, the runs, a seeded fault (`mutant`) for every property that shows the
property can fail, the source lines behind every definition, the findings, the hazards and the theorems. Where a
module has an operator with the comment "Seeded fault", it is what a mutant puts in place of the operator after it.

## 1. Inventory

| Component | State | Operations | Talks to |
|---|---|---|---|
| Care entries (`server/routes/careEntries.ts`) | `care_entries` (status, times, children, soft deletion), trips, costs, evidence | POST, PUT (reads the entry *before* its transaction), DELETE, preview and resolution of conflicts | conflicts, confirmation tasks, month closings, rules |
| Care conflicts (`shared/careConflicts.ts`, `server/services/careConflicts.ts`) | none; work limits | sweep-line detection, `assertNoActualCareConflict`, `assertPlannedCareConflictAcknowledged` | every writer of entries |
| Contact rules and rule changes (`server/services/contactRules.ts`, `contactRuleChanges.ts`) | `contact_rules`, generated entries with an occurrence key and a sync state | preview with fingerprint, synchronise, change, split, retire occurrences | entries, tasks |
| Care confirmation tasks (`server/services/careConfirmations.ts`) | `care_confirmation_requests`, preferences, push subscriptions | sweep (create, push), list, answer (done, partial, cancelled), remind later, register devices | entries, conflicts, members, e-mails |
| Confirmation e-mails (`server/services/careConfirmationEmails.ts`) | `care_confirmation_email_deliveries` | create, claim with a lease, send with a timeout, record, retry | tasks, SMTP relay |
| Background timer (`server/index.ts`) | none: `setInterval` does not wait for the previous sweep | one sweep every 15 minutes | tasks, e-mails, retention |
| Members and access (`server/services/memberManagement.ts`, `memberships.ts`, `careDataScopes.ts`, `server/authHook.ts`) | `app_users`, `app_memberships`, data scopes | preview and update of access, role, removal; the decision on every request | sessions, invitations, tasks, feeds |
| Invitations (`server/services/invitations.ts`) | `app_invitations` (token hash, expiry, state) | create, accept, revoke | OIDC login, memberships |
| Owner setup and bootstrap (`server/services/ownerSetupTokens.ts`, `setupBootstrap.ts`) | setup token contexts, the single owner | create context, consume and claim, setup wizard | OIDC login |
| OIDC login and sessions (`server/routes/nativeOidc.ts`, `services/oidcLoginStates.ts`, `oidcSessions.ts`) | login states, sessions | start, callback, logout, authenticate every request | memberships, invitations, owner setup |
| Recovery administration (`server/services/recoveryAdmin.ts`) | local administrator, its sessions | log in, change password, revoke | owner |
| Database runtime (`server/db/runtime.ts`, `migrationRunner.ts`, `postgresMigrationRunner.ts`) | one SQLite connection or a PostgreSQL pool; `schema_migrations` | `query`, `transaction`, migrate at the start, health, shutdown | all of the server |
| Children, care parties, periods, month closings (`server/routes`, `services/domainPersistence.ts`) | rows with junctions; closings with the client's summary, "changed since" marks | CRUD with look-ups outside transactions; close, mark | entries, rules |
| External calendars (`server/services/externalCalendars.ts`) | sources, events of the last good fetch, derived holidays | import, fetch with redirects, refresh, replace, derive, delete | network |
| Calendar feeds (`server/services/calendarFeeds.ts`) | hashed tokens | rotate, revoke, read | entries, access |
| Privacy actions (`server/services/privacyActions.ts`, `privacyDomainErasure.ts`) | action runs with fingerprints | preview, execute, repeat | all tables |
| Data transfer (`server/services/dataTransfer.ts`, `routes/appData.ts`) | import runs, historical actors | export, dry run, import, restore, reset, map and invite actors | all tables |
| Legacy migration (`server/services/legacyMigration.ts`) | reports | analyse, add, replace after a backup | children, entries, periods |
| Backup and release update (`server/services/backup.ts`, `scripts/update.js`) | backup files, `.env`, lock | copy, verify; update with rollback | files, database, container |
| Statistics and reports (`src/lib/analytics.ts`, `lib/date.ts`) | none (the entries the browser has) | figures of a month, a period, holidays | entries |
| Change log (`server/routes/audit.ts`, `pages/AuditLogPage.tsx`) | `audit_log` | record, list in pages, filter | everything that writes |
| Browser store and dialogs (`src/store/AppStore.tsx`, `components/*`) | copies of server state | load, check, write, preview and confirm, question before closed months | HTTP |
| Offline application (`public/sw.js`, `lib/serviceWorker.ts`) | caches, registration | install, update, answer, remove | HTTP |
| Pages, components and translations | | presentation | not modelled |

Hard behaviours, and what makes each component correct:

* **Tasks.** A sweep reads outside a transaction, writes in one, then awaits one push service after the other
  and records by row id. Members answer, editors write, owners change access, and a second sweep starts
  meanwhile. Correct means: one outcome per appointment, given by a task that was still open; no open task of
  a resolved appointment; everybody who stays eligible is asked and pushed; nobody's devices stop the sweep.
* **E-mails.** An outbox with at-most-once mails per attempt, at most three attempts, a lease against sweeps
  that stop, a timeout that may race the relay's answer. Correct means: an attempt is mailed at most once, only
  the current attempt's result counts, a sent row stays sent, every occurrence is settled.
* **Entries and conflicts.** Care that took place must never overlap for a child, although five kinds of
  writers change times, children and status. A PUT writes back an entry it read earlier. A planned entry may
  conflict only where its author was shown the conflict.
* **Onboarding and identity.** A callback consumes a state once, claims the single owner or accepts an invitation
  once, and creates a session; a removal in between must win. Submissions of the wizard interleave statement by
  statement on PostgreSQL. Every place that tells somebody what access there is must tell the same.
* **Two-step operations** (rules, access, privacy, transfer, closings, dialogs). A preview with a fingerprint, then a
  write that must refuse when what the preview depended on has changed. In the browser the inputs stay open while
  requests are under way, and answers come late.
* **Look up, then write.** Handlers find their record, their party, their source outside the transaction that
  writes. Correct means: no record of a deleted child, one version of a calendar, no access left from replaced data.
* **Crashes.** The update tool is killed between any two steps and started again; starts of two releases overlap on
  one database. Correct means: no release on a schema it does not know, no migration applied twice or left out.

`PROJECT.json` lists under `hazards` each of these at the line where it bites, with the properties that guard it
or the reason why none does.

## 2. Modules

Three components have specifications of their own with their MC modules: `CareConfirmations`, `ConfirmationEmails`,
`Onboarding`; a fourth, `ClientStore`, has its run directly. The others are *parts* of two compositions:

* `Server` (checked through `ServerMC`): `CareRecords`, `RecoveryAdmin`, `PrivacyActions`, `ExternalCalendars`,
  `DataTransfer`, `LegacyMigration`, `ReleaseUpdate`, `FirstUse`, `PushDevices`, `RequestAccess`, `Startup`.
* `Previews` (checked through `PreviewsMC`): `RecurringCare`, `MemberAccess` with `PreviewedWrite`, `PreviewDialog`,
  `ClosedMonths`, `CareStatistics`, `AuditLog`, `ScopedCare`, `OfflineShell`, `EntryEditing` with `ConflictDetection`.

A behaviour of a composition chooses one part and exercises it; the others stand still. The parts share tables, but
each module contains every operation of the others that matters to its properties (`CareRecords` has the edits of
entries, `PrivacyActions` the saves of others, `DataTransfer` the writes of members), so interleaving two
parts would only repeat what each module has already. Composing them this way lets one run and one theory carry
their constants and assumptions: each module names its assumptions as operators (`...Assumption`), and the composition
assumes them all (`ServerAssumption`, `PreviewsAssumption`) for its constants. `Server!Next` leaves every other part
unchanged, so a behaviour of `Server` is a behaviour of each part; the proofs start with this fact
(`CareIsPart`, `RecoveryIsPart`, ...).

A step is one database transaction, or one stretch of a handler between two awaits whose reads are used later.
Transactions are atomic, as on the default SQLite backend with its one connection; only `FirstUse` takes them
statement by statement, as PostgreSQL's READ COMMITTED interleaves them, and `Startup` migration by migration.

### Tasks and mails

**CareConfirmations.** `entry` holds what the confirmation code reads of a `care_entries` row; `overlap` the pairs of
entries that share a child and overlap in time; `scope` what each member may confirm; `request` the live row of each
task; `sweep` and `edit` the local variables that sweeps and PUT requests carry across an `await`.

* A *task* is an entry and a member. The partial unique index allows one live row for it, so a soft-deleted row
  and no row are both `"none"`. Sweeps update by row id; `picked` records on a row which sweeps selected *this* row,
  so that a commit cannot hit a newer row of the same task.
* A *sweep* goes through `CreateRead` (conflicts, due entries and members, outside a transaction), `CreateCommit`
  (one transaction), `PushSelect`, then `PushDeliver` and `PushCommit` for each member in any order, and `SweepDone`.
  `SweepAbort` is a work limit, an error or a restart.
* `"done"` is completed or partial. A `done` answer may change the overlaps, because a partial one states its own
  times and children; for a completed one this allows more than the code does. Overlap is a relation the writers
  change at will for the entry they write (`NewOverlaps`).
* Time is whether an instant has passed: the end of an entry, `due_at`, `next_reminder_at`. An entry exists from the
  start with any status the creating POST can give it.
* Left out: notes, `reminder_count`, preferences, and `invalidateInaccessibleCareConfirmations`, which only tests call.

**ConfirmationEmails.** `delivery` is the outbox row of each occurrence; `matches` and `actionable` are what the
candidate query and the re-check read of the task and its member; `sweep` the batch state of each sweep; `mails` and
`acks` are history. `Candidates`, then per candidate `Claim` = `GiveUp`, `Take` (the conditional update that increments
`attempt_count` and sets the lease) or `Leave` (another sweep was faster), then per recipient `Send` and `Record`. The
lease is two minutes from the *reference time of the sweep*, and a sweep's length is not bounded, so a lease may
pass while its mail is on its way. The relay may accept a mail although the sweep sees a failure (the 30-second
timeout races the answer). A row left pending after its third claim is never taken up again;
`EveryOccurrenceSettles` counts it as settled.

**PushDevices.** `device` is the live row of each endpoint, `registering` the registrations past their check of the
limit (`savePushSubscription` counts, then inserts), `sweep` the part of the sweep that reads a member's devices and
stops when there are more than the limit.

### Identity and access

**Onboarding.** Native OIDC on SQLite. `login` holds the context of each open login state, `callback` each callback
with its local variables and, once signed in, its session; `file` the mounted token file; `request` the
administrator of a request that has passed its permission check and has not written yet.

* A callback goes from `Consume` through the exchange with the provider to one of three endings. A normal login
  takes three database steps (`FirstCheck`, `SecondCheck`, `CreateSession`); owner setup (`Claim`, `ClaimRefused`,
  `ClaimStale`) and invitation (`Accept`, `AcceptRefused`) take one transaction that also creates the session.
* Each database step needs `ConnectionFree`. Transactions are single steps, so nobody sees the connection taken,
  except by `ClaimStale`: inside its transaction the callback waits for a second use of the same connection.
* Rows that count alike are one value: a consumed, expired or deleted login state, a consumed or expired token, a
  revoked or expired invitation, a missing or deleted membership. `Authorize` is the last permission check outside a
  transaction.

**FirstUse.** The setup wizard in every authentication mode, the setup links beside it, and the removal of members.
A submission goes `Begin`, `AlreadyComplete`, `KnowUser`, `Claim` or `ClaimConflict`, `Commit`; on SQLite the connection
is held in between, on PostgreSQL other submissions, removals and claims by link interleave.

**RequestAccess.** `Granted(r)` is what the hook before every protected route decides for a request from header claims,
session, membership, owner and mode; `Shown(r)` what `GET /api/session` tells the app; `PermissionsForUser` what feeds and
background jobs ask; `Listed` the list of members. The state is configuration (`Restart` changes it), memberships,
sessions and the owner. In local mode the app is shown everything, and requests may do at most that. The removal
of a user without a membership row, before there is an owner, has no effect, and is left out of `removed`.

**MemberAccess** models the owner's previewed and unpreviewed changes of role and scope, invitations with a scope, and
calendar feeds: `CheckFeedScope` before the transaction of `RotateToken`, and the request of a calendar client read by
read, with every write between two reads. `FindToken` reads the row of the token, `ReadPermission` the permission;
then the member is looked at twice, for the token and for the entries, with the same reads (`ReadUser`,
`ReadMembership`, `ReadAssignments`; `again` says which look it is), and `SendFeed` ends the request. A membership stays
read while its assignments are not, so a request may find the assignments of a member removed meanwhile. `open` is history:
what the member had since the second look began. `clock` stands for `updated_at`. The module implements **PreviewedWrite**, the abstract promise of a preview:
what is applied is what was shown, on the state it was shown for. The mapping takes as `state` what a preview of
each member would show now, as `offer` the open preview.

**RecoveryAdmin** has logins that check the password before the transaction that creates the session (`CheckPassword`,
`CreateSession`), password changes and logouts that look up their session before they write.

### Records

**CareRecords.** Records of all kinds with the children they are about, the rule mirrored from a pattern and the entry
generated from it, closed months. `LookUp` is the look-up of a handler outside its transaction, `UpdateRecord` and
`DeleteRecord` its transaction; `DeleteChild` is `softDeletePersistedChildRelations`. Nothing is erased: a deleted row keeps
its references and an update makes it live again. A record has the children it is planned for (`kids`) and those a partial
entry was actually about (`actual`, a junction of its own); the deletion of a child detaches the former only, as in the code.

**RecurringCare.** One rule and the successor of a split, the planned entries by occurrence date, and every previewed
write: create, update, synchronise, change of one occurrence, of "this and following", of the whole series. The
calendar arithmetic of the expansion is abstracted to days and segments.

**ClosedMonths.** The question the browser asks before a closed month is changed, from its own `copy`, and the marks the
server sets. Look-up and transaction are one step here; `generateContactEntries`, which no page uses, is left out.

**EntryEditing** with **ConflictDetection.** The form with its preview of conflicts, the box that confirms them, requests
that outlive the form, the routes that store the entry, and the scheduler's role; the conflicts are computed by the
sweep-line algorithm of `shared/careConflicts.ts`, written as folds.

**ScopedCare.** One record of a kind, what restricted members are listed and may open, and the routes that write it. An
import keeps the actual party of an entry of any status.

**CareStatistics** defines the figures as pure functions of the loaded entries and holidays; its actions only choose the
data. **AuditLog** has the log in pages with cursors, and the page whose answers come late.

### Data as a whole

**ExternalCalendars** (requests that wait for the publisher between reading the source and writing its events),
**DataTransfer** (receipts of dry runs signed over package and target; actors mapped to members), **PrivacyActions**
(`Preview`, then `Execute` on an unchanged fingerprint; `unshown` records as history what was deleted without having been
shown), **LegacyMigration** (both modes decide on an analysis before their transaction). What is sent of the old data is one of
`Packages`: the ids of the children each item names, which need not be among the children the old data lists
(`DOMAIN LegacyName`). The additive import keeps such an id as it is, as `childMap.get(childId) ?? childId` does, and fails
where the database has no child of that id; a replacement, into an empty database, fails on any. An item that names one
child twice is rejected by the key of the junction (`Insertable`). Actual children of old entries are left out.

### Operation

**ReleaseUpdate** has one action for every step of `runUpdate` and of its rollback; `Fail` and `Kill` may happen at each.
`Tools` is how many runs of the tool overlap, `OlderTargets` whether the operator names older versions.
**Startup** has the migration runners of both backends, with the advisory lock of PostgreSQL, starts and tools that
overlap, readiness (on SQLite the server only counts migrations; on PostgreSQL an old process beside a newer
schema is not ready), and shutdown.

### Browser

**ClientStore** (loads, checks every 30 seconds, writes with an unknown outcome), **PreviewDialog** (inputs stay open
while a preview is on its way; a confirmation may be applied after the dialog has given up on it), **OfflineShell** (the
service worker: of the fixed files only the page is modelled, install and activate are one step).

### Proofs

`CareConfirmationsProofs`, `ConfirmationEmailsProofs`, `OnboardingProofs` and `ClientStoreProofs` extend their component.
`ServerProofs` extends `Server` and has the proofs about its eleven parts, up to the type invariant of the whole.
`CareStatisticsProofs` (`CareStatistics`, `ConflictDetection`) extends `Previews`, `ChangesProofs` (`RecurringCare`,
`ClosedMonths`, `EntryEditing`) extends it, and `PreviewsProofs` (`MemberAccess` with `PreviewedWrite`, `PreviewDialog`,
`ScopedCare`, `OfflineShell`, `AuditLog`) that one, for the same purpose.

## 3. Runs

| Run | Distinct states | Properties | Instance |
|---|---|---|---|
| `cc_tasks` | 343,088 | AnswerIsDecisive, SavingRetiresTasks | one appointment, two members, one sweep, one PUT |
| `cc_conflicts` | 1,054,496 | ActualCareNeverOverlaps | two appointments, one of a rule, one suppressed; one member, sweep and PUT |
| `cc_liveness` | 10,480 | EventuallyAsked, EventuallyPushed, StaleTaskRetired | one of each, with fairness |
| `mail_outbox` | 75,520 | AttemptMailedOnce, SentIsThisAttempt, EveryOccurrenceSettles | one occurrence, two sweeps that may fail, three attempts |
| `onb_setup` | 392,525 | OwnerKeepsAccess, OnboardingSessionsAreCurrent, OwnerIsForever, InvitationSettlesOnce | two users, setup tokens, logins and callbacks, one invitation |
| `browser` | 501,936 | RecoversFromOutage | two loads that overlap, one change elsewhere, one error answer |
| `previews` | 461,986 | TypeOK, FeedsFollowAccess, ExceptionsPreserved, SeriesChangesAsPreviewed, AccessAppliedAsShown, ClosedChangesAreAsked | parts rules, access, closings |
| `shown` | 322,474 | FiguresAddUp, PagesAreComplete, OnlyTheAppIsCached, ConflictsAreComplete, ScopesAreKept, SavedConflictsWereShown, AppliedAsDisplayed | parts dialog, figures, log, sights, offline, entries |
| `server` | 634,357 | TypeOK, RecordsHaveLiveChildren, AdministratorKnowsPassword, StoredIsOneVersion, AccessGivenSinceReplaced, ImportedForItsChildren, ImportedAsTested, OneSetup, SweepsGetThrough, SchemaFitsRelease, MembershipDecides, ErasedAsShown | eleven parts |
| `onb_stuck` | until violated | UnfinishedSetupEnds | a finding, see 6 |
| `cc_replanned` | until violated | ReplannedAsksAgain | a finding |
| `rule_segments` | until violated | EverySegmentPlanned | a finding |

`Server` and `Previews` put components that share no state into one specification: a behaviour picks a part and takes
the steps of this part only, so the states add up instead of multiplying, and `UNCHANGED` of all other variables
shows that the parts really are apart. The parts that a behaviour does not exercise start in one state. The components
that do interact (the sweep with members, editors and rules; callbacks with logins and administrators; feeds with
previews of access) are modelled together in one module.

**Bounds.** Where the code counts without an end (writes, versions, attempts, rows, restarts), the model stops at a bound
that is a constant (`MaxAttempts`, `RuleWrites`, `AccessWrites`, `MonthWrites`, `ScopeWrites`, `OtherWrites`, `MaxChanges`,
`MaxSent`, `MaxForms`, `MaxRows`, `LastVersion`, `MaxRedirects`, `MaxCopies`, `MaxDevices`, `MaxStarts`, `LastRelease`, ...).
Most hazards need two actors at the same thing and one that has read before the other writes: hence two sweeps for the
mails, two callbacks and two logins, two submissions of the setup, two registrations, two requests of restricted members,
two fetches of a calendar, two servers that start. Where one handler reads outside its transaction and any other write may come between (a PUT, a
preview, a fetch, a dry run), one such handler beside all other actions is enough, with writes for its look-up, an
interfering write and the commit. Three attempts are the first, a retry and the last; three days are the days before,
at and after a split; page size one makes every row a page, and three rows make a page that starts, follows and ends;
three months are a closed one, an open one and one between; of the two packages of old data one names only the child that is
listed, the other also one that is not, whose id a child of the database may have. The previewed accesses are the widest and
the narrowest; the unpreviewed changes bring every role and scope. The number of members, children and care parties is what it
takes to have one of each kind. All these bounds are gone in the theorems of section 5, which hold for every value that
fulfils the named assumptions; they matter only to the properties that section lists as model-checked.

**Symmetry** is used for the members of `cc_tasks`, the users, tokens, logins and callbacks of `onb_setup` and the
children and fetches of the `server` run, none of which the model distinguishes or `CHOOSE`s; not in runs with liveness.
**Deadlock** is checked except in `browser`, `previews`, `shown`, `server` and `rule_segments`, where a part stops when
its bounds are used up.

**Mutants.** Every property of a passing run has one seeded fault in an operator of the code, named in `PROJECT.json`, that
makes it fail in the same run: a missing comparison with the present state, a check on the old instead of the new row,
an off-by-one at a limit, a cursor that is a timestamp only, a retirement of some tasks only.

## 4. Fairness

Liveness is stated in three runs only, with no more than the code's scheduling gives:

- The timer of `server/index.ts` fires every 15 minutes whatever happened before, and a sweep ends by itself: beginning
  a sweep and ending it are weakly fair (`CreateRead`, `SweepStart`, `ClaimsDone`, `SweepDone`), and so is time (a task
  comes due, a reminder runs out, the next attempt of a mail is reached).
- A step before which a sweep may be aborted is strongly fair: `CreateCommit`, `PushSelect`, `PushDeliver` and `PushCommit`
  of the tasks, `Select` and `ClaimOf` of the mails. A sweep may be aborted any number of times, but not for ever.
  Sending and recording a mail are weakly fair: once claimed, only the end of its sweep can keep it from its turn.
  That excludes a permanent failure: a work limit that every sweep meets, a database that never answers. It is the
  assumption of the properties, and the first is described in section 6.
- A delivery ends by its time-out. A callback, once the provider has answered, runs on (`UnfinishedSetupEnds`).
- The store of the browser checks and reloads by its own timer, and a request ends: loads, checks and writes go on.
- Nobody owes a step otherwise: no member has to answer, no editor has to save, no administrator has to look.

## 5. Proofs

TLC checks the instances above; the theorems hold for any number of members, entries, sweeps, days, rows, releases and
writes. They assume what the modules assume of their constants and nothing else: `PreviewsAssumption` and
`ServerAssumption` collect these (what is a number is one, the absent value is no value of the sets it stands beside,
inputs are what the forms allow, an id of a new entry is not one of another, entries, children, care parties and months are
finitely many, the store of the browser has a place for a load).

Every theorem about a run's property goes the same way: types, an inductive invariant that says why the property holds,
one lemma for what a handler does to it, and a temporal step. `...IsPart` says that a behaviour of the composition is one
of the component.

**CareConfirmationsProofs.** `TypeCorrect`. `ActualCareIsConsistent`: the invariant is inductive with the types; a write
either completes nothing or has passed `assertNoActualCareConflict` with the overlaps it gets. `SnoozedIsReminded` and
`AnswersAreDecisive`: `RowStep` classifies what a step may write over a row of tasks, and only an answer makes one answered.
`SavedIsRetired`: each action that ends the confirmation of an appointment either retires its open tasks or is one of
the two that do not (a deletion, and the resolution of a conflict, which is a finding).

**ConfirmationEmailsProofs.** An invariant in eight parts beside the types: a delivery that is not there is fresh, a sent one is closed, one
under way has attempts left, was claimed, by one sweep, whose batch is under way and not yet mailed, and a relay that
accepted it did so for this attempt. From it follow `MailedOncePerAttempt`, `SentWasAccepted`, `FailuresAreRetried` and
`SentStays`: a row recorded as sent is never written again.

**OnboardingProofs.** The invariant adds to the properties that a login which a callback holds is consumed and held by no
other (`HeldIsConsumed`, `LoginAnsweredOnce`); owner, invitation and sessions follow action by action.

**ClientStoreProofs.** `WhatIsShownWasThere` is inductive with the types: nothing on the server is taken back
(`ServerGrows`), so what was there once stays a past of it, whatever order answers arrive in. `ClosingsAreKept` follows.
`NotLeftLoading`: only a load that is not silent sets the state of loading, and its end, or an earlier one's, ends it.

**ServerProofs, access and operation.** `RecoveryKnows`: a session knows the stored password or began before it changed.
`MembershipAlwaysDecides`: one operator (`RoleOf`) is what requests, the list of members and background jobs all come down
to in every mode, and a removed member is revoked in all of them (`RemovedAreRevoked`). `SetUpForOne`: the invariant
(`OneOwner`, `ClaimsAlone`, `SubmittersAreKnown`, `OneConnection`) says that who has read the absence of an owner is alone,
on SQLite because of the connection, on PostgreSQL because of the locked row. `SchemaWhole`: whatever starts overlap, the
migrations in the database are those recorded, each took effect once and none is left out. `SchemaFits` states
`SchemaFitsRelease` under the hypothesis `ForwardByOne`: one run of the update tool at a time and no older target. The
server keeps to its part without it; the tool does not enforce it (section 6), and the `server` run checks the
property with one tool, where the hypothesis holds.

**ServerProofs, records.** `SweepsReachEverybody` from `OneAtATime` and `WithinLimit`; `StoredOnce`, `ImportsAreTested` from
`ReceiptsAreCurrent`, `AccessIsGivenAnew` from `LinkedActorsExist`. `RecordsOfLiveChildren`: a child a handler has looked
up and that is still there when it writes (`LookedUpExists`), and links only to children that are linked (`KidsAreLinked`);
it is about the children a record is planned for. `ErasesAsShown`: a preview whose
fingerprint is current lists everything the execution selects (`CurrentListsAll`). `ImportsForTheirChildren` from
`KidsExist`: `MappedChildren` says of whatever map of the children an import uses that a listed child becomes one of its name,
and an id that is not listed stays as it is. `ServerTypes`: the type invariant of the run.

**CareStatisticsProofs.** `FiguresAreRight`: the figures add up in every state of the right type, for any number of
entries, children, care parties, holidays and days, so the invariant is the type (`FiguresTypes`) and everything else is
about the algorithms. They are sums over sets and folds over sorted sequences, whose definitions are recursions. The
library's induction theorems cannot be used for them, but two facts can be: a set of numbers with 0 and the successor of
each member is all of `Nat` (`CountingUp`), and a set of subsets that is closed under one more element has the
whole finite set (`BySize`, `ByElement`). From these, such a recursion has a solution (`RecursionExists`, `FoldExists`),
and that a fold has an invariant is a statement about a set of positions.
- *Sums*: one element more (`SumAdd`), disjoint unions (`SumUnion`), factors (`SumScale`), exchange of two sums
  (`SumExchange`).
- *Holidays* (`HolidaysAdd`): the segments between the boundaries leave no gap and have no boundary inside
  (`SegmentsAre`), so the carers of a segment do not change; its length, shared by those credited, adds up to what is
  covered (`DursAdd`), a day divides without a remainder (`SharesAre`, from `UnitAssumption`), whoever has it (`SlotIs`).
- *Care counted once* (`CareCounted`): after each interval the closed parts and the open one hold the instants of all
  intervals so far (`AddedUnion`), hence `UnionDurationIs`.
- *Conflicts* (`SweepIs`, `ConflictsAre`): after each entry the sweep has found the overlaps of all pairs so far, because
  what it has dropped ended before the entry starts, and entries come in the order of their start (`SweepStep`).
- *Time in dispute* (`DisputesAgree`): both ways come down to the instants at which two entries with different care
  parties are going on.
- *Months* (`MonthsAddUpAsPlanned`): the instants of care in the months part those of the whole period (`MonthsAreParts`)
  where no care took place outside the months it was planned for (`TookPlaceWherePlanned`); without
  that TLC refutes it (section 6).

**ChangesProofs.** `RulesInvariant`: the tables have their types, and each preview is true of what its fingerprint covers.
`EvidenceDeterminesPlan` is the heart of it: the rows and the definition in the evidence determine the counts, so that a
preview that is accepted shows what is done now. `SeriesChangeAsCounted` compares, operation by operation, the rows that go
and come with those counted; `ExceptionsStay` that no write touches a protected row. `ClosedChangesAreNamed`: a question
names the closed months its record touches in the browser's copy (`QuestionNames`), and every operation marks the months
it touches. `ConflictsWereConfirmed`: what the server completes of a request (`CompletedIs`) has the schedule of the
preview, and the conflicts depend on nothing else (`SameConflicts`). `AllConflictsFound` applies `ConflictsAre` to what is
stored: entries end after they start and a partial one has actual times, also in forms and requests under way
(`EntriesAreProper`, the inductive invariant), and a row the server does not select for a preview cannot overlap what is
previewed (`PreviewIs`).

**PreviewsProofs.** `FeedsFollow`: what a request has found since its second look began was there since then. The invariant
(`FoundIsOpen`) says that the permission has been asked for once the look is past its first read, and that a scope, once
there is one, is within what was open; every step adds to `open` while the look lasts (`Remembers`). `AccessIsPreviewed` is the refinement: under the mapping of a member's preview to an offer, every step of
`MemberAccess` is a step of `PreviewedWrite` or leaves its variables alone; it rests on `PreviewsShowTheirBasis` and on the
clock that every write of a membership moves. `ConfirmedIsDisplayed`: a proposal leaves the dialog only through its
handlers, and the fingerprint it carries is that of one state. `CachesHoldTheApp`: also what is still to be put into a cache
(`LatePuts`) is the application's. `MembersKeepToTheirScope`: entries have a status of their own, so the effective party of
anything else is the one it is stored with. `PagesStayComplete`: what is shown is a good answer to the first request, a
good next page makes a good longer list (`AppendedIsGood`), an answer stays good while only new rows come, and an answer of
an earlier generation is dropped; that the page is good rests on the order of the rows (`NewestFirstIs`), which is proved
with the library's theorems on finite sets. `PreviewsTypes`: the type invariant of the composition, which TLC checks
for the parts of `previews`.

**Model-checked only.** Liveness (`EventuallyAsked`, `EventuallyPushed`, `StaleTaskRetired`, `EveryOccurrenceSettles`,
`RecoversFromOutage`): temporal reasoning with fairness is out of the prover's reach. The three violations are
counterexamples and need no proof. Every other property of a run is also a theorem; some invariants the proofs found are
theorems only.

## 6. Findings

`PROJECT.json` has each with its line and the sentence it disagrees with. Three are kept as runs that must find a
counterexample: after an answer and a return to *planned*, a member is never asked again (`cc_replanned`); an owner setup
whose token went away waits for the connection it holds itself (`onb_stuck`); of two segments of a day a rule plans one
(`rule_segments`). The others name a property of a module that TLC refutes when it is the only one in the run of its
part: among them a snoozed task that is set back by a push under way (`SnoozeKept`), a resolved conflict that leaves tasks
open (`ResolvingRetiresTasks`), a second success of one mail when a lease runs out (`NoSecondSuccess`), a narrowed scope
that keeps feeds (`NarrowingRevokesFeeds`), a partial entry that keeps a deleted child among its actual ones (`ActualChildrenAreLive`), and so
an export its own import refuses (`ExportCanBeImported`), an imported item that becomes a child's on account of an id
the old data does not list, although the analysis took it for nobody's (`ImportedChildrenAreListed`), a split that plans a
cancelled day again (`SplitKeepsExceptions`), care that counts in no month because it was planned for
another (`MonthsAddUp`), changes of closed months without a mark or question (`ClosedMonthsRecordChanges`,
`RemovalsAreAsked`, `MarksAreAsked`), a planned entry that cannot be saved because the conflicts that would have to be
confirmed are not shown (`PlannedRemainsWritable`), two setups on PostgreSQL (`SetUpOnce`, `LinkKeepsOwner`,
`OwnerStaysMember`), registrations past the limit that stops every sweep (`DevicesWithinLimit`), kinds of the change log its
filter does not find (`FilterFindsItsKind`), a first visit that is not offline yet (`ActivatedWorksOffline`), and an update
that read its version before the lock (`SchemaFitsRelease` with two tools).

What some properties say is limited by what the code does, and the hazards in `PROJECT.json` say where:

- `FeedsFollowAccess` is about what was lost before the second look at a member began. What is lost during that look may
  still be shown, also the care parties assigned to a member whose removal falls between its reads.
- `OnboardingSessionsAreCurrent` is about setups and invitations; the session of a normal login may outlive a removal
  (`RestoredAccessNeedsLogin`). `AdministratorKnowsPassword` excepts a login that was past its check when the password changed.
- `SweepsGetThrough` excepts members two of whose registrations overlap (`DevicesWithinLimit`), and `ClosedChangesAreAsked`
  a browser whose copy is not what the server has.
- `RecordsHaveLiveChildren` is about the children a record is planned for (`ActualChildrenAreLive`).
- `EventuallyPushed` is checked with one sweep at a time; what two sweeps of the tasks may do to each other is in the theorems
  of `CareConfirmationsProofs`, which hold for any number of them.

One failure is in no model: a sweep with more than 5,000 past planned entries or 10,000 tasks throws before it writes
anything, every time. The models have no such numbers; it is the failure the fairness above excludes.

## 7. Not modelled, and what is left

Not modelled: rendering and translations; the validation and layout of forms; evidence, costs and trips of entries beyond
what a conflict or a scheduler's save needs; formats (ICS, PDF, CSV, the checksum of a package); rotation of backups;
headers, cookies and rate limits; statement-level interleaving on PostgreSQL outside `FirstUse` and `Startup` (a
transaction is one step elsewhere, as it is on the default SQLite with its one connection).

Left for the proofs: liveness, for the reason given in 5. What could still be proved are conditional forms of
the findings (under which discipline of the callers each of them would hold), as `SchemaFits` is for the update tool and
`MonthsAddUpAsPlanned` for care outside its plan.
