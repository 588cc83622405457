----------------------------- MODULE RecurringCare -----------------------------
(***************************************************************************)
(* Recurring care: contact rules, the planned entries generated from them, *)
(* and the previewed writes that reconcile the two                         *)
(* (server/services/contactRules.ts, contactRuleChanges.ts, their routes,  *)
(* and shared/contactRuleExpansion.ts).                                    *)
(*                                                                         *)
(* One rule is created by a request; a "this and following" change splits  *)
(* it and creates a successor, whose id is a hash of the rule and the date *)
(* of the split. Every write runs in one transaction. A preview is         *)
(* computed outside of it; the write computes the plan again and goes on   *)
(* only if the evidence is the one the preview was computed from. Rules    *)
(* have an end date: their window does not move with the clock.            *)
(***************************************************************************)
EXTENDS Integers, FiniteSets, FiniteSetsExt

CONSTANTS
  LastDay,      \* bound: days are 1 .. LastDay
  Definitions,  \* the rule definitions a user may submit
  Moves,        \* the days a single occurrence may be moved to
  SplitDays,    \* bound: the days a series may be split at
  MaxWrites,    \* bound: the writes of a behaviour
  Nothing       \* absent value

Days == 1 .. LastDay

\* rruleDates, weeklyDates and the rest yield dates; segs are the segments of
\* an occurrence by their order in time, span is how many days each one lasts.
RuleDefinition == [start : Days, end : Days, days : SUBSET Days,
                   segs : (SUBSET (1 .. 2)) \ {{}}, span : 0 .. 1, active : BOOLEAN]

DayAssumption == LastDay \in Nat \ {0} /\ SplitDays \subseteq Days /\ Moves \subseteq Days
DefinitionAssumption ==
  /\ Definitions \subseteq RuleDefinition
  /\ \A def \in Definitions : def.start <= def.end

Base == 0               \* the rule a user created
Rules == {Base} \cup SplitDays

BoundAssumption == MaxWrites \in Nat

VARIABLES
  rule,     \* contact_rules: the definition and whether the row is live
  entry,    \* care_entries generated from a rule, by rule and rule_occurrence_date
  preview,  \* the preview a client holds, with what it showed
  writes    \* how many writes there were, for the bound

vars == <<rule, entry, preview, writes>>

-----------------------------------------------------------------------------
NoEntry == [seg |-> 0, from |-> 0, upto |-> 0, status |-> "none", sync |-> "none",
            deleted |-> FALSE]

EntryRow == [seg : 1 .. 2, from : Days, upto : 1 .. LastDay + 1, status : {"planned", "done"},
             sync : {"generated", "manual"}, deleted : BOOLEAN]

RuleRow == [def : {def \in RuleDefinition : def.start <= def.end}, live : BOOLEAN]

Requests ==
  [scope : {"sync"}, rule : Rules, from : Days, upto : Days]
  \cup [scope : {"occurrence"}, rule : Rules, day : Days, to : Moves]
  \cup [scope : {"series"}, rule : Rules, day : Days, def : Definitions]
  \cup [scope : {"following"}, rule : {Base}, day : SplitDays, def : Definitions]

\* The counts a preview shows, as the sets that are counted.
Counts == [affected : SUBSET Days, retired : SUBSET Days, created : SUBSET Days]

Previews == [request : Requests, shown : Counts,
             evidence : [rule : RuleDefinition, plan : Counts \cup {Nothing},
                         rows : [Days -> EntryRow \cup {NoEntry}] \cup {Nothing}]]

NothingAssumption == Nothing \notin Nat \cup RuleRow \cup Previews

Exists(row) == row # NoEntry

\* isProtected; "done" stands for completed, partial and cancelled.
Protected(row) == row.deleted \/ row.status # "planned" \/ row.sync = "manual"

\* expandContactRule within a window, as the dates of the occurrences.
Occurrences(def, from, upto) ==
  {d \in def.days : def.active /\ d >= def.start /\ d <= def.end /\ d >= from /\ d <= upto}

Generated(def, d, old) ==
  [old EXCEPT !.seg = Max(def.segs), !.from = d, !.upto = d + def.span, !.sync = "generated"]

NewRow == [NoEntry EXCEPT !.status = "planned"]

\* Seeded fault: a row is rewritten whatever happened to it.
SyncedBlindly(def, d, row) == Generated(def, d, IF Exists(row) THEN row ELSE NewRow)

\* syncContactRule for one date. A segment looks for a row with its own key or
\* with the date alone (generated_by_pattern_id, rule_occurrence_date): every
\* segment after the first finds the row of the one before and rewrites it.
Synced(def, d, row) ==
  IF Exists(row) /\ Protected(row) THEN row
  ELSE Generated(def, d, IF Exists(row) THEN row ELSE NewRow)

SyncedRows(rows, def, from, upto) ==
  [d \in Days |-> IF d \in Occurrences(def, from, upto) THEN Synced(def, d, rows[d]) ELSE rows[d]]

\* loadAffectedEntries: rows of a rule that overlap a range of days, live or
\* not, by the days they take now.
Affected(rows, from, upto) ==
  {d \in Days : Exists(rows[d]) /\ rows[d].from <= upto /\ rows[d].upto >= from}

Retired(rows, ds) == [d \in Days |-> IF d \in ds THEN [rows[d] EXCEPT !.deleted = TRUE] ELSE rows[d]]

Only(rows, ds) == [d \in Days |-> IF d \in ds THEN rows[d] ELSE NoEntry]

Unprotected(rows, ds) == {d \in ds : ~Protected(rows[d])}

-----------------------------------------------------------------------------
(* buildPlan for "series" and "following"                                  *)

Least(a, b) == IF a < b THEN a ELSE b
Greatest(a, b) == IF a > b THEN a ELSE b

\* The proposed rule of a "following" change starts at the selected date.
Proposed(req) == IF req.scope = "following" THEN [req.def EXCEPT !.start = req.day] ELSE req.def

\* The window of a change: the old and the new rule's, or from the split on.
WindowStart(req) ==
  IF req.scope = "following" THEN req.day
  ELSE Least(rule[req.rule].def.start, req.def.start)

WindowEnd(req) == Greatest(rule[req.rule].def.end, req.def.end)

Touched(req) == Affected(entry[req.rule], WindowStart(req), WindowEnd(req))

Desired(req) == Occurrences(Proposed(req), Proposed(req).start, Proposed(req).end)

\* desiredKeys holds the date and the segment.
Kept(req) == {d \in Touched(req) \cap Desired(req) : entry[req.rule][d].seg \in req.def.segs}

ChangePlan(req) == [
  affected |-> Unprotected(entry[req.rule], Kept(req)),
  retired  |-> Unprotected(entry[req.rule], Touched(req) \ Kept(req)),
  created  |-> {d \in Desired(req) : d \notin Touched(req) \/ req.def.segs # {entry[req.rule][d].seg}}]

\* Seeded fault: the fingerprint leaves the stored occurrences out.
EvidenceOfRule(req) == [rule |-> rule[req.rule].def, rows |-> Nothing, plan |-> Nothing]

\* What the fingerprint covers: the revision of the rule, here its definition,
\* and the selected and other rows of the window. The window and the wanted
\* occurrences follow from these and the request.
ChangeEvidence(req) ==
  [rule |-> rule[req.rule].def, rows |-> Only(entry[req.rule], Touched(req)),
   plan |-> Nothing]

\* previewContactRuleSync: every occurrence is new, present or an exception.
SyncPlan(req) ==
  LET wanted == Occurrences(rule[req.rule].def, req.from, req.upto)
      rows == entry[req.rule]
  IN [affected |-> {d \in wanted : Exists(rows[d]) /\ ~Protected(rows[d])},
      retired  |-> {},
      created  |-> {d \in wanted : ~Exists(rows[d])}]

Plan(req) ==
  CASE req.scope = "sync"       -> SyncPlan(req)
    [] req.scope = "occurrence" -> [affected |-> {req.day}, retired |-> {}, created |-> {}]
    [] OTHER                    -> ChangePlan(req)

Evidence(req) ==
  CASE req.scope = "sync"       -> [rule |-> rule[req.rule].def, rows |-> Nothing,
                                    plan |-> SyncPlan(req)]
    [] req.scope = "occurrence" -> [rule |-> rule[req.rule].def, plan |-> Nothing,
                                    rows |-> Only(entry[req.rule], {req.day})]
    [] OTHER                    -> ChangeEvidence(req)

\* loadSelectedEntry and the check after it.
Selectable(r, d) == rule[r].live /\ Exists(entry[r][d]) /\ ~Protected(entry[r][d])

Possible(req) ==
  CASE req.scope = "sync" -> /\ rule[req.rule].live
                             /\ req.from >= rule[req.rule].def.start
                             /\ req.upto <= rule[req.rule].def.end
    [] OTHER              -> Selectable(req.rule, req.day)

\* A preview is still the one its client was shown.
Current(req) == Possible(req) /\ preview.evidence = Evidence(req)

-----------------------------------------------------------------------------
Init ==
  /\ rule = [r \in Rules |-> Nothing]
  /\ entry = [r \in Rules |-> [d \in Days |-> NoEntry]]
  /\ preview = Nothing
  /\ writes = 0

Written == writes < MaxWrites /\ writes' = writes + 1

Stored(r) == rule[r] # Nothing

Save(r, def) ==
  /\ Written
  /\ rule' = [rule EXCEPT ![r] = [def |-> def, live |-> TRUE]]
  /\ entry' = [entry EXCEPT ![r] = SyncedRows(@, def, def.start, def.end)]
  /\ UNCHANGED preview

\* POST /api/contact-rules
CreateRule(def) == ~Stored(Base) /\ Save(Base, def)

\* PUT /api/contact-rules/:id. The rule is looked up before the transaction and
\* the upsert clears deleted_at: a request that was under way when the rule was
\* deleted brings it back.
UpdateRule(r, def) == Stored(r) /\ Save(r, def)

\* DELETE /api/contact-rules/:id leaves the entries alone.
DeleteRule(r) ==
  /\ Written
  /\ Stored(r)
  /\ rule' = [rule EXCEPT ![r].live = FALSE]
  /\ UNCHANGED <<entry, preview>>

\* POST /api/contact-rules/:id/sync without a range.
SyncRule(r) ==
  /\ Written
  /\ Stored(r) /\ rule[r].live
  /\ entry' = [entry EXCEPT ![r] = SyncedRows(@, rule[r].def, rule[r].def.start, rule[r].def.end)]
  /\ UNCHANGED <<rule, preview>>

\* POST .../sync-preview and .../change-preview. A new window has to end after
\* it starts.
Preview(req) ==
  /\ Stored(req.rule)
  /\ req.scope = "sync" => req.from <= req.upto
  /\ req.scope = "following" => req.day <= req.def.end /\ req.day <= rule[req.rule].def.end
  /\ Possible(req)
  /\ preview' = [request |-> req, evidence |-> Evidence(req), shown |-> Plan(req)]
  /\ UNCHANGED <<rule, entry, writes>>

\* POST .../sync with a range and a fingerprint.
ApplySync ==
  /\ Written
  /\ preview # Nothing /\ preview.request.scope = "sync"
  /\ LET req == preview.request IN
       /\ Current(req)
       /\ entry' = [entry EXCEPT ![req.rule] =
                      SyncedRows(@, rule[req.rule].def, req.from, req.upto)]
  /\ preview' = Nothing
  /\ UNCHANGED rule

\* POST .../change for one occurrence, which becomes an exception.
ApplyOccurrence ==
  /\ Written
  /\ preview # Nothing /\ preview.request.scope = "occurrence"
  /\ LET req == preview.request IN
       /\ Current(req)
       /\ entry' = [entry EXCEPT ![req.rule][req.day] =
                      [@ EXCEPT !.from = req.to, !.upto = req.to, !.sync = "manual"]]
  /\ preview' = Nothing
  /\ UNCHANGED rule

SeriesRetired(rows, req) == Retired(rows, ChangePlan(req).retired)

\* POST .../change for the whole series.
ApplySeries ==
  /\ Written
  /\ preview # Nothing /\ preview.request.scope = "series"
  /\ LET req == preview.request IN
       /\ Current(req)
       /\ rule' = [rule EXCEPT ![req.rule].def = req.def]
       /\ entry' = [entry EXCEPT ![req.rule] =
                      SyncedRows(SeriesRetired(@, req), req.def, WindowStart(req), WindowEnd(req))]
  /\ preview' = Nothing

\* Seeded fault: the rule is cut although it begins with the selected date.
CutBefore(def, day) == [def EXCEPT !.end = day - 1]

\* The earlier rule ends the day before the split, or is switched off.
EndedBefore(def, day) ==
  IF day - 1 >= def.start THEN [def EXCEPT !.end = day - 1] ELSE [def EXCEPT !.active = FALSE]

\* POST .../change for an occurrence and those that follow. Every unprotected
\* row that reaches into the window goes, and the successor is synchronized
\* under its own id, which sees none of the earlier rule's rows.
ApplyFollowing ==
  /\ Written
  /\ preview # Nothing /\ preview.request.scope = "following"
  /\ LET req == preview.request
         def == Proposed(req)
     IN /\ Current(req)
        /\ rule' = [rule EXCEPT ![req.rule].def = EndedBefore(@, req.day),
                                ![req.day] = [def |-> def, live |-> TRUE]]
        /\ entry' = [entry EXCEPT
             ![req.rule] = Retired(@, Unprotected(@, Touched(req))),
             ![req.day] = SyncedRows(@, def, def.start, def.end)]
  /\ preview' = Nothing

-----------------------------------------------------------------------------
(* What happens to a single generated entry                                *)

\* PUT /api/care-entries/:id of a planned entry.
EditEntry(r, d, to) ==
  /\ Written
  /\ Exists(entry[r][d]) /\ ~entry[r][d].deleted
  /\ entry' = [entry EXCEPT ![r][d] =
       [@ EXCEPT !.from = to, !.upto = to, !.status = "planned", !.sync = "manual"]]
  /\ UNCHANGED <<rule, preview>>

\* An answer to the confirmation task: completed, partial or cancelled.
ResolveEntry(r, d) ==
  /\ Written
  /\ Exists(entry[r][d]) /\ ~entry[r][d].deleted /\ entry[r][d].status = "planned"
  /\ entry' = [entry EXCEPT ![r][d].status = "done"]
  /\ UNCHANGED <<rule, preview>>

\* DELETE /api/care-entries/:id
DeleteEntry(r, d) ==
  /\ Written
  /\ Exists(entry[r][d]) /\ ~entry[r][d].deleted
  /\ entry' = [entry EXCEPT ![r][d].deleted = TRUE]
  /\ UNCHANGED <<rule, preview>>

RuleWrite ==
  \/ \E def \in Definitions : CreateRule(def)
  \/ \E r \in Rules, def \in Definitions : UpdateRule(r, def)
  \/ \E r \in Rules : DeleteRule(r) \/ SyncRule(r)
  \/ ApplySync \/ ApplyOccurrence \/ ApplySeries \/ ApplyFollowing

EntryWrite ==
  \E r \in Rules, d \in Days :
    \/ \E to \in Moves : EditEntry(r, d, to)
    \/ ResolveEntry(r, d)
    \/ DeleteEntry(r, d)

Next == RuleWrite \/ EntryWrite \/ \E req \in Requests : Preview(req)

Spec == Init /\ [][Next]_vars

-----------------------------------------------------------------------------
\* Every variable has its type.
TypeOK ==
  /\ rule \in [Rules -> RuleRow \cup {Nothing}]
  /\ entry \in [Rules -> [Days -> EntryRow \cup {NoEntry}]]
  /\ preview \in Previews \cup {Nothing}
  /\ writes \in 0 .. MaxWrites

\* docs/release-notes/v1.33.0.md: completed, cancelled, deleted and manually
\* changed records are never rewritten by a change of the rule, a series or a
\* synchronization, whatever the order of previews, edits and splits.
ExceptionsPreserved ==
  [][\A r \in Rules, d \in Days :
       Exists(entry[r][d]) /\ Protected(entry[r][d]) /\ entry'[r][d] # entry[r][d]
         => ~RuleWrite]_vars

Removed(r) == {d \in Days : ~entry[r][d].deleted /\ entry'[r][d].deleted}
Added(r) == {d \in Days : ~Exists(entry[r][d]) /\ Exists(entry'[r][d])}

Applied(scope) == preview # Nothing /\ preview' = Nothing /\ preview.request.scope = scope

\* An accepted change does to the selected rule's entries what its preview
\* counted: it retires those and no others, although entries are edited,
\* confirmed and deleted between the preview and the write.
AppliedAsPreviewed ==
  [][\A how \in {"sync", "series", "following", "occurrence"} : Applied(how) =>
       LET r == preview.request.rule IN
         /\ Removed(r) = preview.shown.retired \cup
                           (IF how = "following" THEN preview.shown.affected ELSE {})
         /\ Added(r) \subseteq preview.shown.created]_vars

\* After a whole-series change no entry of an earlier definition is left
\* planned in the window of the change, also when saves that retire nothing
\* had left some.
SeriesReconciled ==
  [][Applied("series") =>
       LET req == preview.request IN
         \A d \in Touched(req) :
           ~Protected(entry'[req.rule][d]) =>
             d \in Desired(req) /\ entry'[req.rule][d] = Generated(req.def, d, entry'[req.rule][d])]_vars

\* docs/adr/0002: on create or update, missing planned entries are created. The
\* expansion has one occurrence per date and segment.
EverySegmentPlanned ==
  [][\A r \in Rules, def \in Definitions : UpdateRule(r, def) =>
       \A d \in Occurrences(def, def.start, def.end), s \in def.segs :
         Exists(entry'[r][d]) /\ (Protected(entry'[r][d]) \/ entry'[r][d].seg = s)]_vars

\* docs/data-model.md: cancelled and manually changed entries are preserved as
\* exceptions. A split must not plan the occurrence again beside the exception.
SplitKeepsExceptions ==
  [][Applied("following") =>
       \A d \in Days :
         Exists(entry[Base][d]) /\ Protected(entry[Base][d]) /\ d >= preview.request.day
           => ~(Exists(entry'[preview.request.day][d]) /\ ~Exists(entry[preview.request.day][d]))]_vars
=============================================================================
