--------------------------- MODULE CareConfirmations ---------------------------
(***************************************************************************)
(* Care confirmation tasks (server/services/careConfirmations.ts) and the  *)
(* care entry operations that touch them (server/routes/careEntries.ts,    *)
(* server/services/contactRuleChanges.ts, memberManagement.ts).            *)
(*                                                                         *)
(* A background sweep asks every eligible member to confirm each planned   *)
(* appointment that is over, and pushes a notification for every task that *)
(* has come due.  Members answer or snooze their tasks; editors change the *)
(* appointments; owners change who may see them.                           *)
(*                                                                         *)
(* A step of this module is one database transaction, or one stretch of a  *)
(* handler between two awaits whose reads are used later.  Transactions    *)
(* are atomic, as on the default SQLite backend, which has one connection. *)
(***************************************************************************)
CONSTANTS
  Entries,      \* care_entries rows that exist
  RuleEntries,  \* those generated by a contact rule
  Suppressed,   \* those with confirmation_suppressed, set once on insertion
  Users,        \* members who may hold confirmation tasks
  Parties,      \* care parties: the unit of a member's data scope
  Sweeps,       \* sweeps that may run at the same time
  Editors,      \* clients that may have a PUT under way
  NoOne         \* confirmed_by IS NULL

ASSUME EntriesAssumption == RuleEntries \subseteq Entries /\ Suppressed \subseteq Entries
ASSUME NoOneAssumption == NoOne \notin Users \union Editors

VARIABLES
  entry,    \* care_entries: what the confirmation code reads of a row
  overlap,  \* pairs of entries that share a child and overlap in time
  scope,    \* care parties whose tasks a member may confirm; {} for no member
  request,  \* the live care_confirmation_requests row of each task
  sweep,    \* local state of every sweep
  edit      \* the copy of an entry a client's PUT under way has read, if any

vars == <<entry, overlap, scope, request, sweep, edit>>

-----------------------------------------------------------------------------
(* Types.  A task is an entry and a member: the partial unique index on    *)
(* (care_entry_id, user_id) WHERE deleted_at IS NULL allows one live row   *)
(* for it, so "none" stands for no row or a soft-deleted one.  "picked"    *)
(* holds the sweeps that selected this very row and will update it by id.  *)
Tasks == Entries \X Users
Pairs == {pair \in SUBSET Entries : \E e, f \in Entries : e # f /\ pair = {e, f}}

EntryRow == [status      : {"planned", "done", "cancelled"},
             confirmedBy : Users \union Editors \union {NoOne},
             ended       : BOOLEAN,
             deleted     : BOOLEAN,
             manual      : BOOLEAN,  \* contact_rule_sync_state = "manual_override"
             party       : Parties]

RequestRow == [status   : {"none", "open", "snoozed", "answered"},
               answered : BOOLEAN,   \* answered_at IS NOT NULL
               due      : BOOLEAN,   \* due_at has passed
               sent     : BOOLEAN,   \* sent_at IS NOT NULL
               timer    : {"none", "running", "elapsed"}, \* next_reminder_at
               picked   : SUBSET Sweeps]

SweepState == [phase     : {"idle", "create", "select", "push", "commit"},
               wanted    : SUBSET Tasks,
               conflicts : SUBSET Entries,
               todo      : SUBSET Users,   \* selected members not yet recorded
               target    : SUBSET Users]   \* the one being notified, if any

EditCopy == [id : Entries, confirmedBy : Users \union Editors \union {NoOne}]

NoRow == [status |-> "none", answered |-> FALSE, due |-> FALSE,
          sent |-> FALSE, timer |-> "none", picked |-> {}]

FreshRow == [NoRow EXCEPT !.status = "open"]

IdleSweep == [phase |-> "idle", wanted |-> {}, conflicts |-> {},
              todo |-> {}, target |-> {}]

TypeOK ==
  /\ entry \in [Entries -> EntryRow]
  /\ overlap \subseteq Pairs
  /\ scope \in [Users -> SUBSET Parties]
  /\ request \in [Tasks -> RequestRow]
  /\ sweep \in [Sweeps -> SweepState]
  /\ edit \in [Editors -> SUBSET EditCopy]

-----------------------------------------------------------------------------
(* What the code reads.                                                    *)

Counted(e) == ~entry[e].deleted /\ entry[e].status # "cancelled"

\* careConflictEntryIds: entries that overlap another one and share a child.
ConflictIds ==
  {e \in Entries : \E pair \in overlap : e \in pair /\ \A f \in pair : Counted(f)}

\* entryCanBeConfirmed, for a row getEntry still finds.
Confirmable(e) ==
  /\ ~entry[e].deleted
  /\ entry[e].status = "planned"
  /\ entry[e].confirmedBy = NoOne

CanAccess(u, e) == entry[e].party \in scope[u]

\* A live row nobody has answered: deleted_at and answered_at are null.
Unanswered(t) == request[t].status # "none" /\ ~request[t].answered

TasksOf(e) == {t \in Tasks : t[1] = e}
UserTasks(u) == {t \in Tasks : t[2] = u}

\* Soft deletion of the live rows of some tasks.
Retire(tasks) == [t \in Tasks |-> IF t \in tasks THEN NoRow ELSE request[t]]

\* Seeded fault: snoozed tasks are not retired.
RetireOpenStatusOnly(e) == Retire({t \in TasksOf(e) : Unanswered(t) /\ request[t].status = "open"})

\* retireOpenCareConfirmationRequests.
RetireOpen(e) == Retire({t \in TasksOf(e) : Unanswered(t)})

\* The ways the overlaps of one entry may come out when its dates change.
NewOverlaps(e) ==
  {o \in SUBSET Pairs : \A pair \in Pairs : e \notin pair => (pair \in o <=> pair \in overlap)}

\* Seeded fault: checks the times the entry had, not those it gets.
NoActualConflictBefore(e, o) ==
  \A pair \in overlap : e \in pair => \A f \in pair \ {e} : ~(Counted(f) /\ entry[f].status = "done")

\* assertNoActualCareConflict: care that took place never overlaps other
\* care that took place.
NoActualConflict(e, o) ==
  \A pair \in o : e \in pair => \A f \in pair \ {e} : ~(Counted(f) /\ entry[f].status = "done")

-----------------------------------------------------------------------------
Init ==
  /\ entry \in [Entries -> {row \in EntryRow : row.confirmedBy = NoOne /\ ~row.deleted /\ ~row.manual}]
  /\ \A e \in RuleEntries : entry[e].status = "planned"
  /\ overlap = {}
  /\ scope \in [Users -> SUBSET Parties]
  /\ request = [t \in Tasks |-> NoRow]
  /\ sweep = [s \in Sweeps |-> IdleSweep]
  /\ edit = [d \in Editors |-> {}]

-----------------------------------------------------------------------------
(* The sweep: createDueCareConfirmationRequests.                           *)

\* Seeded fault: the comparison with the end of the entry is the wrong way round.
WantedTooEarly(t) ==
  /\ Confirmable(t[1]) /\ ~entry[t[1]].ended
  /\ t[1] \notin Suppressed \union ConflictIds
  /\ CanAccess(t[2], t[1])

\* usersForEntry of every planned, unconfirmed entry whose end has passed.
Wanted(t) ==
  /\ Confirmable(t[1]) /\ entry[t[1]].ended
  /\ t[1] \notin Suppressed \union ConflictIds
  /\ CanAccess(t[2], t[1])

\* Conflicts, due entries and their members are read outside a transaction.
CreateRead(s) ==
  /\ sweep[s].phase = "idle"
  /\ sweep' = [sweep EXCEPT ![s] =
       [IdleSweep EXCEPT
          !.phase = "create",
          !.conflicts = ConflictIds,
          !.wanted = {t \in Tasks : Wanted(t)}]]
  /\ UNCHANGED <<entry, overlap, scope, request, edit>>

\* One transaction writes what was read: it retires the open tasks of the
\* conflicting entries, then inserts the wanted ones ON CONFLICT DO NOTHING.
CreateCommit(s) ==
  /\ sweep[s].phase = "create"
  /\ request' = [t \in Tasks |->
       IF t[1] \in sweep[s].conflicts /\ Unanswered(t) THEN NoRow
       ELSE IF t \in sweep[s].wanted /\ request[t].status = "none" THEN FreshRow
       ELSE request[t]]
  /\ sweep' = [sweep EXCEPT ![s] = [IdleSweep EXCEPT !.phase = "select"]]
  /\ UNCHANGED <<entry, overlap, scope, edit>>

-----------------------------------------------------------------------------
(* The sweep: sendDueCareConfirmationPushes.                               *)

\* Seeded fault: only reminders are selected.
AwaitsReminder(t) ==
  Unanswered(t) /\ request[t].status = "snoozed" /\ request[t].timer = "elapsed"

\* The row selection: due and never sent, or a reminder whose time has come.
AwaitsPush(t) ==
  /\ Unanswered(t)
  /\ \/ request[t].status = "open" /\ request[t].due /\ ~request[t].sent
     \/ request[t].status = "snoozed" /\ request[t].timer = "elapsed"

Pushable(t) ==
  AwaitsPush(t) /\ t[1] \notin ConflictIds /\ Confirmable(t[1]) /\ CanAccess(t[2], t[1])

\* Seeded fault: access is checked before staleness.
StaleForMember(t) ==
  /\ AwaitsPush(t) /\ t[1] \notin ConflictIds
  /\ CanAccess(t[2], t[1])
  /\ ~Confirmable(t[1])

StaleAtPush(t) == AwaitsPush(t) /\ t[1] \notin ConflictIds /\ ~Confirmable(t[1])

PushSelect(s) ==
  /\ sweep[s].phase = "select"
  /\ request' = [t \in Tasks |->
       IF StaleAtPush(t) THEN NoRow
       ELSE IF Pushable(t) THEN [request[t] EXCEPT !.picked = @ \union {s}]
       ELSE request[t]]
  /\ sweep' = [sweep EXCEPT ![s] =
       [@ EXCEPT !.phase = "push", !.todo = {t[2] : t \in {p \in Tasks : Pushable(p)}}]]
  /\ UNCHANGED <<entry, overlap, scope, edit>>

\* The notification of one member goes out: one per member and sweep.
\* Whether a device accepts it changes nothing but reminder_count.
PushDeliver(s, u) ==
  /\ sweep[s].phase = "push"
  /\ u \in sweep[s].todo
  /\ sweep' = [sweep EXCEPT ![s] = [@ EXCEPT !.phase = "commit", !.target = {u}]]
  /\ UNCHANGED <<entry, overlap, scope, request, edit>>

\* What the commit makes of a selected row, whatever happened to it meanwhile.
Recorded(row, s) ==
  [row EXCEPT !.status = "open", !.sent = TRUE, !.timer = "none", !.picked = @ \ {s}]

\* The member's selected rows are updated by id alone.
PushCommit(s, u) ==
  /\ sweep[s].phase = "commit"
  /\ u \in sweep[s].target
  /\ request' = [t \in Tasks |->
       IF t[2] = u /\ s \in request[t].picked
       THEN Recorded(request[t], s)
       ELSE request[t]]
  /\ sweep' = [sweep EXCEPT ![s] =
       [@ EXCEPT !.phase = "push", !.target = {}, !.todo = sweep[s].todo \ {u}]]
  /\ UNCHANGED <<entry, overlap, scope, edit>>

SweepDone(s) ==
  /\ sweep[s].phase = "push"
  /\ sweep[s].todo = {}
  /\ sweep' = [sweep EXCEPT ![s] = IdleSweep]
  /\ UNCHANGED <<entry, overlap, scope, request, edit>>

Unpick(sweeps) == [t \in Tasks |-> [request[t] EXCEPT !.picked = @ \ sweeps]]

\* A work limit, a database error or a restart of the process ends a sweep
\* early; what it has committed stays.
SweepAbort(s) ==
  /\ sweep[s].phase # "idle"
  /\ request' = Unpick({s})
  /\ sweep' = [sweep EXCEPT ![s] = IdleSweep]
  /\ UNCHANGED <<entry, overlap, scope, edit>>

-----------------------------------------------------------------------------
(* Members: their tasks.                                                   *)

\* Seeded fault: entryCanBeConfirmed is not asked.
AnswerableByRow(t) ==
  Unanswered(t) /\ t[1] \notin ConflictIds /\ CanAccess(t[2], t[1])

Answerable(t) ==
  Unanswered(t) /\ Confirmable(t[1]) /\ t[1] \notin ConflictIds /\ CanAccess(t[2], t[1])

\* answerCareConfirmation.  A partial answer may change the overlaps, since
\* it states the times and children of the care that took place.
Answer(t, outcome) ==
  LET e == t[1]
  IN
  /\ Answerable(t)
  /\ ~entry[e].deleted
  /\ IF outcome = "done" THEN overlap' \in {o \in NewOverlaps(e) : NoActualConflict(e, o)}
                         ELSE UNCHANGED overlap
  /\ entry' = [entry EXCEPT ![e] = [@ EXCEPT !.status = outcome, !.confirmedBy = t[2]]]
  /\ request' = [p \in Tasks |->
       IF p = t THEN [request[p] EXCEPT !.status = "answered", !.answered = TRUE]
       ELSE IF p[1] = e /\ Unanswered(p) THEN NoRow
       ELSE request[p]]
  /\ UNCHANGED <<scope, sweep, edit>>

\* remindCareConfirmationLater.  Conflicts are not looked at.
RemindLater(t) ==
  /\ Unanswered(t)
  /\ Confirmable(t[1])
  /\ CanAccess(t[2], t[1])
  /\ request' = [request EXCEPT ![t] = [@ EXCEPT !.status = "snoozed", !.timer = "running"]]
  /\ UNCHANGED <<entry, overlap, scope, sweep, edit>>

\* listOpenCareConfirmations: the member's conflicting and stale tasks go.
ListOpen(u) ==
  LET listed == {t \in UserTasks(u) : Unanswered(t) /\ request[t].status \in {"open", "snoozed"}}
  IN
  /\ request' = Retire({t \in listed : t[1] \in ConflictIds \/ ~Confirmable(t[1])})
  /\ UNCHANGED <<entry, overlap, scope, sweep, edit>>

-----------------------------------------------------------------------------
(* Members: their access.                                                  *)

\* An accepted invitation, or a role that may confirm again, leaves tasks alone.
JoinMember(u, parties) ==
  /\ scope[u] = {}
  /\ scope' = [scope EXCEPT ![u] = parties]
  /\ UNCHANGED <<entry, overlap, request, sweep, edit>>

\* updateMemberAccess: a new role or scope retires the member's open tasks, as does
\* updateMemberRole for a role that may not confirm.
ChangeAccess(u, parties) ==
  /\ scope' = [scope EXCEPT ![u] = parties]
  /\ request' = Retire({t \in UserTasks(u) : Unanswered(t)})
  /\ UNCHANGED <<entry, overlap, sweep, edit>>

\* removeMember: all of the member's rows go, the answered ones too.
RemoveMember(u) ==
  /\ scope' = [scope EXCEPT ![u] = {}]
  /\ request' = Retire(UserTasks(u))
  /\ UNCHANGED <<entry, overlap, sweep, edit>>

-----------------------------------------------------------------------------
(* Editors and rules: the appointments.                                    *)

\* PUT /api/care-entries/:id reads the entry before its transaction.
EditRead(d, e) ==
  /\ edit[d] = {}
  /\ ~entry[e].deleted
  /\ edit' = [edit EXCEPT ![d] = {[id |-> e, confirmedBy |-> entry[e].confirmedBy]}]
  /\ UNCHANGED <<entry, overlap, scope, request, sweep>>

\* persistEntry: writes every column from the input and from that copy,
\* deleted_at := NULL included, and retires the tasks of a resolved entry.
EditCommit(d, copy, status, ended, party, o) ==
  LET e == copy.id
  IN
  /\ copy \in edit[d]
  /\ o \in NewOverlaps(e)
  /\ status = "done" => NoActualConflict(e, o)
  /\ overlap' = o
  /\ entry' = [entry EXCEPT ![e] =
       [status      |-> status,
        confirmedBy |-> IF status = "planned" THEN NoOne
                        ELSE IF copy.confirmedBy # NoOne THEN copy.confirmedBy ELSE d,
        ended       |-> ended,
        deleted     |-> FALSE,
        manual      |-> e \in RuleEntries,
        party       |-> party]]
  /\ request' = IF status = "planned" THEN request ELSE RetireOpen(e)
  /\ edit' = [edit EXCEPT ![d] = {}]
  /\ UNCHANGED <<scope, sweep>>

\* Validation, a conflict or a lost connection rejects the PUT.
EditReject(d) ==
  /\ edit[d] # {}
  /\ edit' = [edit EXCEPT ![d] = {}]
  /\ UNCHANGED <<entry, overlap, scope, request, sweep>>

\* DELETE /api/care-entries/:id leaves the open tasks to later clean-up.
DeleteEntry(e) ==
  /\ ~entry[e].deleted
  /\ entry' = [entry EXCEPT ![e].deleted = TRUE]
  /\ UNCHANGED <<overlap, scope, request, sweep, edit>>

\* POST /api/care-conflicts/resolve cancels a planned rule occurrence.
ReplaceRuleOccurrence(e) ==
  /\ e \in RuleEntries \intersect ConflictIds
  /\ entry[e].status = "planned"
  /\ entry' = [entry EXCEPT ![e] = [@ EXCEPT !.status = "cancelled", !.manual = TRUE]]
  /\ UNCHANGED <<overlap, scope, request, sweep, edit>>

\* isProtected: rules leave alone what is resolved or was edited by hand.
Replaceable(e) ==
  /\ e \in RuleEntries
  /\ ~entry[e].deleted
  /\ entry[e].status = "planned"
  /\ ~entry[e].manual

\* A rule change drops an occurrence: retireEntries.
RetireRuleEntry(e) ==
  /\ Replaceable(e)
  /\ entry' = [entry EXCEPT ![e].deleted = TRUE]
  /\ request' = RetireOpen(e)
  /\ UNCHANGED <<overlap, scope, sweep, edit>>

\* A synchronisation moves an occurrence, or a rule change does so by hand.
MoveRuleEntry(e, ended, manual, party, o) ==
  /\ Replaceable(e)
  /\ o \in NewOverlaps(e)
  /\ overlap' = o
  /\ entry' = [entry EXCEPT ![e] = [@ EXCEPT !.ended = ended, !.manual = manual, !.party = party]]
  /\ UNCHANGED <<scope, request, sweep, edit>>

-----------------------------------------------------------------------------
(* Time.  Instants are abstracted to whether they have passed.             *)

EntryEnds(e) ==
  /\ ~entry[e].ended
  /\ entry' = [entry EXCEPT ![e].ended = TRUE]
  /\ UNCHANGED <<overlap, scope, request, sweep, edit>>

\* due_at: eight o'clock on the day after the appointment.
TaskComesDue(t) ==
  /\ request[t].status # "none"
  /\ ~request[t].due
  /\ request' = [request EXCEPT ![t].due = TRUE]
  /\ UNCHANGED <<entry, overlap, scope, sweep, edit>>

ReminderElapses(t) ==
  /\ request[t].timer = "running"
  /\ request' = [request EXCEPT ![t].timer = "elapsed"]
  /\ UNCHANGED <<entry, overlap, scope, sweep, edit>>

-----------------------------------------------------------------------------
SweepNext ==
  \E s \in Sweeps :
    \/ CreateRead(s) \/ CreateCommit(s) \/ PushSelect(s)
    \/ \E u \in Users : PushDeliver(s, u) \/ PushCommit(s, u)
    \/ SweepDone(s) \/ SweepAbort(s)

MemberNext ==
  \/ \E t \in Tasks : RemindLater(t) \/ \E outcome \in {"done", "cancelled"} : Answer(t, outcome)
  \/ \E u \in Users :
       \/ ListOpen(u)
       \/ RemoveMember(u)
       \/ \E parties \in SUBSET Parties : JoinMember(u, parties) \/ ChangeAccess(u, parties)

EntryNext ==
  \/ \E d \in Editors :
       \/ \E e \in Entries : EditRead(d, e)
       \/ \E copy \in edit[d], status \in {"planned", "done", "cancelled"}, ended \in BOOLEAN,
             party \in Parties, o \in SUBSET Pairs : EditCommit(d, copy, status, ended, party, o)
       \/ EditReject(d)
  \/ \E e \in Entries :
       \/ DeleteEntry(e)
       \/ ReplaceRuleOccurrence(e)
       \/ RetireRuleEntry(e)
       \/ \E ended, manual \in BOOLEAN, party \in Parties, o \in SUBSET Pairs :
            MoveRuleEntry(e, ended, manual, party, o)

TimeNext ==
  \/ \E e \in Entries : EntryEnds(e)
  \/ \E t \in Tasks : TaskComesDue(t) \/ ReminderElapses(t)

Next == SweepNext \/ MemberNext \/ EntryNext \/ TimeNext

Spec == Init /\ [][Next]_vars

\* The timer starts a sweep every 15 minutes, so every step of a sweep is
\* weakly fair; sweeps may fail, but not each time they get to the same step.
SweepFairness ==
  \A s \in Sweeps :
    /\ WF_vars(CreateRead(s)) /\ WF_vars(SweepDone(s))
    /\ SF_vars(CreateCommit(s)) /\ SF_vars(PushSelect(s))
    /\ \A u \in Users : SF_vars(PushDeliver(s, u)) /\ SF_vars(PushCommit(s, u))

TimeFairness ==
  \A t \in Tasks : WF_vars(TaskComesDue(t)) /\ WF_vars(ReminderElapses(t))

FairSpec == Spec /\ SweepFairness /\ TimeFairness

-----------------------------------------------------------------------------
(* Properties.                                                             *)

\* Care that took place is never recorded twice for a child: two live entries
\* that overlap and share a child are never both completed, whichever mix of
\* answers, edits, deletions and late PUTs led there (assertNoActualCareConflict).
ActualCareNeverOverlaps ==
  \A pair \in overlap : \E e \in pair : ~(Counted(e) /\ entry[e].status = "done")

\* A snoozed task always has a reminder set.  Without one no sweep would ever
\* select it again, since it is neither open nor due for a reminder.
SnoozedHasTimer ==
  \A t \in Tasks : request[t].status = "snoozed" => request[t].timer # "none"

\* A task becomes answered only while its appointment is still open; the same
\* step records this member's outcome and leaves no open task of anyone, so a
\* late answer overwrites nothing (answerCareConfirmation).
AnswerIsDecisive ==
  [][\A t \in Tasks :
       ~request[t].answered /\ request'[t].answered =>
         /\ Confirmable(t[1])
         /\ entry'[t[1]].status # "planned" /\ entry'[t[1]].confirmedBy = t[2]
         /\ \A p \in TasksOf(t[1]) : ~Unanswered(p)']_vars

\* Whatever resolves a planned appointment retires its open tasks in the same
\* transaction (persistEntry, answerCareConfirmation).
ResolvingRetiresTasks ==
  [][\A e \in Entries :
       Confirmable(e) /\ ~entry'[e].deleted /\ entry'[e].status # "planned" =>
         \A t \in TasksOf(e) : ~Unanswered(t)']_vars

\* An answer, a save, from however old a copy, and a change of the rule leave no
\* open task of an appointment they end the confirmation of: only a deletion, whose
\* tasks are cleaned up later, and the resolution of a conflict leave any
\* (persistEntry, answerCareConfirmation, retireEntries).
SavingRetiresTasks ==
  [][\A e \in Entries :
       Confirmable(e) /\ ~Confirmable(e)' /\ ~DeleteEntry(e) /\ ~ReplaceRuleOccurrence(e) =>
         \A t \in TasksOf(e) : ~Unanswered(t)']_vars

\* The member is to be asked about the appointment.
Eligible(t) ==
  /\ Confirmable(t[1]) /\ entry[t[1]].ended
  /\ t[1] \notin Suppressed \union ConflictIds
  /\ CanAccess(t[2], t[1])

\* A member who stays eligible is asked in the end, although every sweep
\* writes what it read before (createDueCareConfirmationRequests).
EventuallyAsked ==
  \A t \in Tasks : []<>(Eligible(t) => request[t].status # "none")

\* An open task that is due and stays answerable is pushed in the end, and so
\* is a reminder whose time has come (sendDueCareConfirmationPushes).
EventuallyPushed ==
  \A t \in Tasks :
    /\ []<>~(/\ Unanswered(t) /\ request[t].status = "open"
             /\ request[t].due /\ ~request[t].sent
             /\ Eligible(t))
    /\ []<>~(Unanswered(t) /\ request[t].timer = "elapsed" /\ Eligible(t))

\* A task that was written from a stale copy, or whose appointment was resolved
\* or deleted before its push, is cleaned up by the sweep even if its member
\* never looks at the list.
StaleTaskRetired ==
  \A t \in Tasks :
    []<>~(/\ Unanswered(t) /\ request[t].status = "open" /\ ~request[t].sent
          /\ ~Confirmable(t[1]) /\ t[1] \notin ConflictIds)

-----------------------------------------------------------------------------
(* What the documentation says and the code does not do.                   *)

\* docs/release-notes/v1.32.0.md: push behaviour follows the snooze state.  The
\* commit of a push already under way cancels the reminder just asked for.
SnoozeKept ==
  [][\A t \in Tasks :
       Unanswered(t) /\ request[t].timer = "running" /\ Unanswered(t)' =>
         request'[t].status = "snoozed"]_vars

\* docs/release-notes/v1.32.0.md: returning an entry to planned can create one
\* new task per eligible member.  The answered row of the member who had
\* confirmed it stays live and blocks the insertion for good.
ReplannedAsksAgain ==
  \A t \in Tasks : []<>(Eligible(t) => Unanswered(t))
=============================================================================
