------------------------------- MODULE Previews -------------------------------
(***************************************************************************)
(* What members are shown and rely on, in one specification: the previews  *)
(* of changes of rules and their series and of a member's access, the      *)
(* dialogs of the browser that show a preview and have it confirmed, the   *)
(* question before a closed month is changed, what a restricted member is  *)
(* listed, the form of an entry with its conflicts, the figures computed   *)
(* from entries and holidays, the pages of the change log, and what the    *)
(* browser keeps for the time without a network. A behaviour exercises one *)
(* of them.                                                                *)
(***************************************************************************)
EXTENDS Integers, FiniteSets

CONSTANTS
  Parts,    \* the parts exercised
  Nothing,  \* absent value
  LastDay, RuleDefinitions, Moves, SplitDays, RuleWrites,         \* of RecurringCare
  AccessUsers, AccessParties, AccessProposals, AccessWrites,      \* of MemberAccess
  Subjects, Proposals, MaxChanges, MaxSent,                       \* of PreviewDialog
  FigureEntries, FigureDrafts, Holidays, HolidayDrafts, PerDay, LastOfFigures, FigureMonths, Unit, Defaults,
  Types, ShownAs, Unmapped, LastTime, MaxRows, PageSize,          \* of AuditLog
  MonthKids, MonthKind, Months, MonthDrafts, MonthWrites,         \* of ClosedMonths
  Configured, ScopedMembers, ScopedRequests, MemberScopes, ScopeWrites, \* of ScopedCare
  Releases, FirstRelease, CacheName, Tabs,                               \* of OfflineShell
  EditedEntries, Spare, Trips, Editors, Schedulers, Scope, SavedDrafts, Submissions, MaxForms, OtherWrites,
  Children, CareParties  \* of CareStatistics and EntryEditing, and of ScopedCare

VARIABLES
  part,
  rule, occurrence, change, ruleWrites,
  member, assigned, careParty, clock, accessPreview, invitation, feed, rotating, reading, open,
  kind, form, asked, shown, waiting, wire, changes,
  entry, holiday, primary, default,
  log, written, filter, entries, cursor, load, listed,
  child, kept, closing, restricted, copy, request, monthWrites,
  item, caring, scope, row, pending, scopeWrites,
  server, worker, cache, tab, late, marker, subscribed,
  edited, editForm, submission, forms, otherWrites

-----------------------------------------------------------------------------
Rules == INSTANCE RecurringCare WITH
  Definitions <- RuleDefinitions, MaxWrites <- RuleWrites,
  entry <- occurrence, preview <- change, writes <- ruleWrites

rulesVars == <<rule, occurrence, change, ruleWrites>>

Access == INSTANCE MemberAccess WITH
  Users <- AccessUsers, Parties <- AccessParties, Proposals <- AccessProposals,
  MaxWrites <- AccessWrites,
  party <- careParty, preview <- accessPreview

accessVars == <<member, assigned, careParty, clock, accessPreview, invitation, feed, rotating, reading, open>>

Dialog == INSTANCE PreviewDialog WITH server <- changes

dialogVars == <<kind, form, asked, shown, waiting, wire, changes>>

Figures == INSTANCE CareStatistics WITH
  Entries <- FigureEntries, Parties <- CareParties, Drafts <- FigureDrafts, Periods <- HolidayDrafts,
  LastDay <- LastOfFigures, Months <- FigureMonths

figuresVars == <<entry, holiday, primary, default>>

Log == INSTANCE AuditLog

logVars == <<log, written, filter, entries, cursor, load, listed>>

Closings == INSTANCE ClosedMonths WITH
  Children <- MonthKids, Records <- DOMAIN MonthKind, Kind <- MonthKind, Drafts <- MonthDrafts,
  MaxWrites <- MonthWrites, record <- kept, writes <- monthWrites

closingsVars == <<child, kept, closing, restricted, copy, request, monthWrites>>

Sights == INSTANCE ScopedCare WITH
  Parties <- CareParties, Members <- ScopedMembers, Requests <- ScopedRequests,
  Scopes <- MemberScopes, MaxWrites <- ScopeWrites,
  kind <- item, party <- caring, record <- row, writes <- scopeWrites

sightsVars == <<item, caring, scope, row, pending, scopeWrites>>

Offline == INSTANCE OfflineShell WITH First <- FirstRelease

offlineVars == <<server, worker, cache, tab, late, marker, subscribed>>

Editing == INSTANCE EntryEditing WITH
  Entries <- EditedEntries, Parties <- CareParties, Drafts <- SavedDrafts,
  Requests <- Submissions, MaxWrites <- OtherWrites,
  entry <- edited, form <- editForm, request <- submission, writes <- otherWrites

entriesVars == <<edited, editForm, submission, forms, otherWrites>>

ASSUME PreviewsAssumption ==
  /\ Rules!DayAssumption /\ Rules!DefinitionAssumption
  /\ Rules!NothingAssumption /\ Rules!BoundAssumption
  /\ Access!ProposalAssumption /\ Access!MaxWritesAssumption /\ Access!NothingAssumption
  /\ Dialog!BoundAssumption /\ Dialog!InputAssumption /\ Dialog!NothingAssumption
  /\ Figures!UnitAssumption /\ Figures!MonthAssumption /\ Figures!DraftAssumption
  /\ Figures!EntryAssumption /\ Figures!PartyAssumption
  /\ Log!LogAssumption
  /\ Closings!KindAssumption /\ Closings!DraftAssumption /\ Closings!BoundAssumption
  /\ Sights!ScopeAssumption /\ Sights!PartyAssumption /\ Sights!BoundAssumption
  /\ Offline!ReleaseAssumption
  /\ Editing!EntryAssumption /\ Editing!DraftAssumption
  /\ Spare \in EditedEntries
  /\ Editing!MemberAssumption /\ Editing!BoundAssumption

-----------------------------------------------------------------------------
vars == <<part, rulesVars, accessVars, dialogVars, figuresVars, logVars, closingsVars, sightsVars,
          offlineVars, entriesVars>>

\* The parts that are not exercised start in one state only.
Init ==
  /\ part \in Parts
  /\ Access!Init
  /\ part # "access" => \A u \in DOMAIN member : member[u] = Nothing
  /\ Closings!Init /\ (part # "closings" => ~restricted)
  /\ Sights!Init
  /\ part # "sights" => item = "entry" /\ \A m \in DOMAIN scope : scope[m].all
  /\ Offline!Init /\ (part # "offline" => worker.active = Nothing)
  /\ Editing!Init
  /\ edited[Spare] = Nothing  \* left for a new entry
  /\ part # "entries" => \A i \in DOMAIN edited : edited[i] = Nothing
  /\ Rules!Init /\ Dialog!Init /\ Log!Init
  /\ Figures!Init
  /\ part # "figures" =>
       /\ \A i \in DOMAIN entry : entry[i] = Nothing
       /\ \A h \in DOMAIN holiday : holiday[h] = Nothing

Next ==
  \/ /\ part = "rules" /\ Rules!Next
     /\ UNCHANGED <<part, accessVars, dialogVars, figuresVars, logVars,
                    closingsVars, sightsVars, offlineVars, entriesVars>>
  \/ /\ part = "access" /\ Access!Next
     /\ UNCHANGED <<part, rulesVars, dialogVars, figuresVars, logVars,
                    closingsVars, sightsVars, offlineVars, entriesVars>>
  \/ /\ part = "dialog" /\ Dialog!Next
     /\ UNCHANGED <<part, rulesVars, accessVars, figuresVars, logVars,
                    closingsVars, sightsVars, offlineVars, entriesVars>>
  \/ /\ part = "figures" /\ Figures!Next
     /\ UNCHANGED <<part, rulesVars, accessVars, dialogVars, logVars,
                    closingsVars, sightsVars, offlineVars, entriesVars>>
  \/ /\ part = "log" /\ Log!Next
     /\ UNCHANGED <<part, rulesVars, accessVars, dialogVars, figuresVars,
                    closingsVars, sightsVars, offlineVars, entriesVars>>
  \/ /\ part = "closings" /\ Closings!Next
     /\ UNCHANGED <<part, rulesVars, accessVars, dialogVars, figuresVars,
                    logVars, sightsVars, offlineVars, entriesVars>>
  \/ /\ part = "sights" /\ Sights!Next
     /\ UNCHANGED <<part, rulesVars, accessVars, dialogVars, figuresVars,
                    logVars, closingsVars, offlineVars, entriesVars>>
  \/ /\ part = "offline" /\ Offline!Next
     /\ UNCHANGED <<part, rulesVars, accessVars, dialogVars, figuresVars,
                    logVars, closingsVars, sightsVars, entriesVars>>
  \/ /\ part = "entries" /\ Editing!Next
     /\ UNCHANGED <<part, rulesVars, accessVars, dialogVars, figuresVars,
                    logVars, closingsVars, sightsVars, offlineVars>>

Spec == Init /\ [][Next]_vars

-----------------------------------------------------------------------------
\* Every variable of every part has its type.
TypeOK ==
  /\ part \in Parts
  /\ part = "rules" => Rules!TypeOK
  /\ part = "access" => Access!TypeOK
  /\ part = "dialog" => Dialog!TypeOK
  /\ part = "figures" => Figures!TypeOK
  /\ part = "log" => Log!TypeOK
  /\ part = "closings" => Closings!TypeOK
  /\ part = "sights" => Sights!TypeOK
  /\ part = "offline" => Offline!TypeOK
  /\ part = "entries" => Editing!TypeOK

\* Completed, cancelled, deleted and manually changed records are never
\* rewritten by a change of their rule or series (syncContactRule).
ExceptionsPreserved == Rules!ExceptionsPreserved

\* An accepted change of a series retires and creates what its preview counted,
\* and one of a whole series leaves no planned entry of an earlier definition
\* (applyContactRuleChange, retireEntries).
SeriesChangesAsPreviewed == Rules!AppliedAsPreviewed /\ Rules!SeriesReconciled

\* On create or update of a rule, every missing planned entry is created
\* (existingGeneratedEntry).
EverySegmentPlanned == Rules!EverySegmentPlanned

\* A change of a member's access does exactly what its preview showed, or
\* nothing (updateMemberAccess): the refinement of PreviewedWrite.
AccessAppliedAsShown == Access!AccessAppliedAsShown

\* A feed under way shows what its member had after the check of the token
\* (feedEntriesForToken).
FeedsFollowAccess == part = "access" => Access!FeedsFollowAccess

\* Narrowing a member's scope revokes the affected feeds
\* (cleanUpMemberDeliveryState, replaceUserCarePartyAssignments).
NarrowingRevokesFeeds == Access!NarrowingRevokesFeeds

\* What is applied is what the dialog showed when it was confirmed
\* (RecurringCareChange.tsx, SettingsPage.tsx and the others, with the
\* fingerprints the server compares).
AppliedAsDisplayed == Dialog!AppliedAsDisplayed

\* Every holiday is credited to somebody or listed as unassigned, once;
\* overlapping care is counted once, and time in dispute is the same in both
\* ways it is found (calculateHolidayStats, unionDuration,
\* unresolvedCareDuration).
FiguresAddUp == part = "figures" => Figures!HolidaysAddUp /\ Figures!CareCountedOnce

\* The months show all the time of care the whole period shows
\* (calculatePeriodStats).
MonthsAddUp == part = "figures" => Figures!MonthsAddUp

\* The pages of the change log leave nothing out and repeat nothing
\* (auditEntries, AuditLogPage).
PagesAreComplete == part = "log" => Log!PagesAreComplete

\* What the log shows as a kind is found under that kind's filter
\* (objectTypeMap, listAuditPage).
FilterFindsItsKind == part = "log" => Log!FilterFindsItsKind

\* A closed month that a member's change affects was named in the question
\* before it and is marked (confirmClosedMonthChange,
\* markDomainClosedMonthsChanged).
ClosedChangesAreAsked == Closings!ClosedChangesAreAsked

\* A restricted member is listed what he may open, and what he updates stays
\* in his scope (effectiveCareEntryPartyId, assertCanUsePersistedCareParty).
ScopesAreKept ==
  [](part = "sights" => Sights!ListedIsOpened) /\ Sights!ChangesStayInScope

\* The browser keeps the application's page and its assets, nothing else
\* (isCacheableNavigationResponse, isSpaFallbackRequest).
OnlyTheAppIsCached == part = "offline" => Offline!OnlyTheAppIsCached

\* The sweep finds the pairs of entries that overlap for a common child, and a
\* preview all those of its entry (detectCareConflicts, listCareConflictEntries).
ConflictsAreComplete == part = "entries" => Editing!ConflictsAreComplete

\* A planned entry is stored only with conflicts its member was shown and
\* confirmed (assertPlannedCareConflictAcknowledged).
SavedConflictsWereShown == Editing!SavedConflictsWereShown

\* A scheduler's write leaves the rest of an entry as it is (schedulingInput).
SchedulerKeepsHidden == Editing!SchedulerKeepsHidden

\* A planned entry whose conflicts were confirmed can be stored
\* (previewPlannedCareConflicts).
PlannedRemainsWritable == part = "entries" => Editing!PlannedRemainsWritable
=============================================================================
