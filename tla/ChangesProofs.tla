----------------------------- MODULE ChangesProofs -----------------------------
(***************************************************************************)
(* Proofs about the changes members make, as parts of Previews: of rules   *)
(* and their series (RecurringCare), of what lies in closed months         *)
(* (ClosedMonths) and of entries in their form (EntryEditing), with the    *)
(* conflicts it shows, which CareStatisticsProofs is about, for any number *)
(* of rules, days, months, records, entries, editors and writes.           *)
(***************************************************************************)
EXTENDS CareStatisticsProofs

-----------------------------------------------------------------------------
(* Rules, their series and the planned entries.                            *)

\* What the assumption on the constants says of this part.
LEMMA RulesConstants ==
  Rules!DayAssumption /\ Rules!DefinitionAssumption /\ Rules!NothingAssumption /\ Rules!BoundAssumption
  BY PreviewsAssumption DEF PreviewsAssumption

\* A behaviour of all parts is, seen from this one, a behaviour of it.
LEMMA RulesIsPart == Spec => Rules!Spec
  <1>1. Init => Rules!Init
    BY DEF Init
  <1>2. [Next]_vars => [Rules!Next]_(Rules!vars)
    BY DEF Next, vars, rulesVars, Rules!vars
  <1>. QED  BY <1>1, <1>2, PTL DEF Spec, Rules!Spec

Rows == [Rules!Days -> Rules!EntryRow \cup {Rules!NoEntry}]

LatestSegment == \A def \in Rules!RuleDefinition : Rules!Max(def.segs) \in 1..2

\* The latest segment of a rule, which a sync writes, is one of its two.
LEMMA SegmentType == LatestSegment
  <1>. SUFFICES ASSUME NEW def \in Rules!RuleDefinition PROVE Rules!Max(def.segs) \in 1..2
    BY DEF LatestSegment
  <1>. DEFINE S == def.segs
  <1>1. S \subseteq 1..2 /\ S # {}
    BY DEF Rules!RuleDefinition
  <1>2. \E x \in S : \A y \in S : x >= y
    <2>1. CASE 2 \in S
      BY <1>1, <2>1
    <2>2. CASE 2 \notin S
      <3>1. \A x \in S : x = 1
        BY <1>1, <2>2
      <3>. QED  BY <1>1, <3>1
    <2>. QED  BY <2>1, <2>2
  <1>3. Rules!Max(S) \in S
    BY <1>2 DEF Rules!Max
  <1>. QED  BY <1>1, <1>3

\* Rows with the same columns are the same.
LEMMA SameRow ==
  ASSUME NEW a \in Rules!EntryRow, NEW b \in Rules!EntryRow,
         a.seg = b.seg, a.from = b.from, a.upto = b.upto, a.status = b.status,
         a.sync = b.sync, a.deleted = b.deleted
  PROVE  a = b
  <1>1. \A r \in Rules!EntryRow :
          r = [seg |-> r.seg, from |-> r.from, upto |-> r.upto, status |-> r.status,
               sync |-> r.sync, deleted |-> r.deleted]
    BY DEF Rules!EntryRow
  <1>. QED  BY <1>1

\* What a synchronisation makes of a row: its day and segment are the rule's,
\* its status and its deletion its own.
LEMMA GeneratedColumns ==
  ASSUME NEW def \in Rules!RuleDefinition, NEW d \in Rules!Days,
         NEW r \in Rules!EntryRow \cup {Rules!NewRow}
  PROVE  LET new == Rules!Generated(def, d, r) IN
           /\ new \in Rules!EntryRow
           /\ new.seg = Rules!Max(def.segs) /\ new.from = d /\ new.upto = d + def.span
           /\ new.sync = "generated" /\ new.status = r.status /\ new.deleted = r.deleted
  <1>. DEFINE s == Rules!Max(def.segs)
              last == d + def.span
  <1>1. s \in 1..2
    BY SegmentType DEF LatestSegment
  <1>2. last \in 1..LastDay + 1
    BY RulesConstants DEF Rules!RuleDefinition, Rules!Days, Rules!DayAssumption
  <1>3. Rules!Generated(def, d, r) =
          [r EXCEPT !.seg = s, !.from = d, !.upto = last, !.sync = "generated"]
    BY DEF Rules!Generated
  <1>. HIDE DEF s, last
  <1>4. CASE r \in Rules!EntryRow
    BY <1>1, <1>2, <1>3, <1>4 DEF Rules!EntryRow, s, last
  <1>5. CASE r = Rules!NewRow
    <2>1. r \in [seg : {0}, from : {0}, upto : {0}, status : {"planned"}, sync : {"none"}, deleted : {FALSE}]
      BY <1>5 DEF Rules!NewRow, Rules!NoEntry
    <2>. QED  BY <1>1, <1>2, <1>3, <2>1 DEF Rules!EntryRow, s, last
  <1>. QED  BY <1>4, <1>5

\* An update from the rule gives a row its times, keeps whether it is deleted and
\* its status, and repeating it changes nothing (updateGeneratedEntry).
LEMMA GeneratedIs ==
  ASSUME NEW def \in Rules!RuleDefinition, NEW d \in Rules!Days,
         NEW r \in Rules!EntryRow \cup {Rules!NewRow}
  PROVE  /\ Rules!Generated(def, d, r) \in Rules!EntryRow
         /\ Rules!Generated(def, d, r).deleted = r.deleted
         /\ Rules!Generated(def, d, r).status = r.status
         /\ Rules!Generated(def, d, Rules!Generated(def, d, r)) = Rules!Generated(def, d, r)
  <1>. DEFINE once == Rules!Generated(def, d, r)
              twice == Rules!Generated(def, d, once)
  <1>1. /\ once \in Rules!EntryRow
        /\ once.seg = Rules!Max(def.segs) /\ once.from = d /\ once.upto = d + def.span
        /\ once.sync = "generated" /\ once.status = r.status /\ once.deleted = r.deleted
    BY GeneratedColumns
  <1>. HIDE DEF once
  <1>2. /\ twice \in Rules!EntryRow
        /\ twice.seg = Rules!Max(def.segs) /\ twice.from = d /\ twice.upto = d + def.span
        /\ twice.sync = "generated" /\ twice.status = once.status /\ twice.deleted = once.deleted
    BY <1>1, GeneratedColumns
  <1>. HIDE DEF twice
  <1>3. twice = once
    BY <1>1, <1>2, SameRow
  <1>. QED  BY <1>1, <1>3 DEF once, twice

\* The absent row is no row of care_entries and not deleted.
LEMMA NoEntryIs ==
  /\ Rules!NoEntry \notin Rules!EntryRow
  /\ ~Rules!NoEntry.deleted /\ ~Rules!NewRow.deleted
  /\ \A r \in Rules!EntryRow : Rules!Exists(r)
  BY DEF Rules!NoEntry, Rules!NewRow, Rules!EntryRow, Rules!Exists

\* A synchronised rule, day by day: exceptions and the days without an
\* occurrence are left alone, the others get what the rule says, and nothing is
\* deleted or restored.
LEMMA SyncedIs ==
  ASSUME NEW rows \in Rows, NEW def \in Rules!RuleDefinition, NEW from, NEW upto
  PROVE  /\ Rules!SyncedRows(rows, def, from, upto) \in Rows
         /\ \A d \in Rules!Days :
              LET new == Rules!SyncedRows(rows, def, from, upto)[d] IN
                /\ d \notin Rules!Occurrences(def, from, upto) => new = rows[d]
                /\ Rules!Exists(rows[d]) /\ Rules!Protected(rows[d]) => new = rows[d]
                /\ Rules!Exists(rows[d]) => Rules!Exists(new)
                /\ new.deleted = rows[d].deleted
                /\ d \in Rules!Occurrences(def, from, upto) =>
                     \/ Rules!Exists(rows[d]) /\ Rules!Protected(rows[d])
                     \/ new = Rules!Generated(def, d, new)
  <1>. DEFINE result == Rules!SyncedRows(rows, def, from, upto)
  <1>1. ASSUME NEW d \in Rules!Days
        PROVE  /\ result[d] \in Rules!EntryRow \cup {Rules!NoEntry}
               /\ d \notin Rules!Occurrences(def, from, upto) => result[d] = rows[d]
               /\ Rules!Exists(rows[d]) /\ Rules!Protected(rows[d]) => result[d] = rows[d]
               /\ Rules!Exists(rows[d]) => Rules!Exists(result[d])
               /\ result[d].deleted = rows[d].deleted
               /\ d \in Rules!Occurrences(def, from, upto) =>
                    \/ Rules!Exists(rows[d]) /\ Rules!Protected(rows[d])
                    \/ result[d] = Rules!Generated(def, d, result[d])
    <2>1. rows[d] \in Rules!EntryRow \cup {Rules!NoEntry}
      BY DEF Rows
    <2>2. CASE d \notin Rules!Occurrences(def, from, upto)
      BY <2>1, <2>2 DEF Rules!SyncedRows
    <2>3. CASE d \in Rules!Occurrences(def, from, upto) /\ Rules!Exists(rows[d]) /\ Rules!Protected(rows[d])
      BY <2>1, <2>3 DEF Rules!SyncedRows, Rules!Synced
    <2>4. CASE d \in Rules!Occurrences(def, from, upto) /\ ~(Rules!Exists(rows[d]) /\ Rules!Protected(rows[d]))
      <3>. DEFINE old == IF Rules!Exists(rows[d]) THEN rows[d] ELSE Rules!NewRow
      <3>1. result[d] = Rules!Generated(def, d, old)
        BY <2>4 DEF Rules!SyncedRows, Rules!Synced
      <3>2. old \in Rules!EntryRow \cup {Rules!NewRow} /\ old.deleted = rows[d].deleted
        BY <2>1 DEF Rules!Exists, Rules!NoEntry, Rules!NewRow
      <3>. HIDE DEF result, old
      <3>3. /\ result[d] \in Rules!EntryRow /\ result[d].deleted = rows[d].deleted
            /\ result[d] = Rules!Generated(def, d, result[d])
        BY <3>1, <3>2, GeneratedIs
      <3>. QED  BY <2>4, <3>3, NoEntryIs
    <2>. QED  BY <2>2, <2>3, <2>4
  <1>2. result = [d \in Rules!Days |-> result[d]]
    BY DEF Rules!SyncedRows
  <1>. HIDE DEF result
  <1>3. result \in Rows
    BY <1>1, <1>2 DEF Rows
  <1>. QED  BY <1>1, <1>3 DEF result

\* Rows are retired: nothing else changes.
LEMMA RetiredIs ==
  ASSUME NEW rows \in Rows, NEW ds, \A d \in ds : d \in Rules!Days /\ Rules!Exists(rows[d])
  PROVE  /\ Rules!Retired(rows, ds) \in Rows
         /\ \A d \in Rules!Days \ ds : Rules!Retired(rows, ds)[d] = rows[d]
         /\ \A d \in ds : Rules!Retired(rows, ds)[d].deleted /\ Rules!Exists(Rules!Retired(rows, ds)[d])
  <1>1. ASSUME NEW d \in ds
        PROVE  /\ [rows[d] EXCEPT !.deleted = TRUE] \in Rules!EntryRow
               /\ [rows[d] EXCEPT !.deleted = TRUE].deleted
    <2>1. rows[d] \in Rules!EntryRow
      BY DEF Rows, Rules!Exists
    <2>. QED  BY <2>1 DEF Rules!EntryRow
  <1>. QED  BY <1>1, NoEntryIs DEF Rules!Retired, Rows

\* The days of a rule definition in a window.
LEMMA OccurrencesAre ==
  ASSUME NEW def \in Rules!RuleDefinition, NEW from, NEW upto
  PROVE  /\ Rules!Occurrences(def, from, upto) \subseteq Rules!Days
         /\ Rules!Occurrences(def, from, upto) \subseteq Rules!Occurrences(def, def.start, def.end)
  BY DEF Rules!Occurrences, Rules!RuleDefinition

\* What a request for a change proposes.
LEMMA ProposedType ==
  ASSUME NEW req \in Rules!Requests, req.scope \in {"series", "following"}
  PROVE  /\ req.def \in RuleDefinitions /\ req.def \in Rules!RuleDefinition
         /\ req.rule \in Rules!Rules
         /\ Rules!Proposed(req) \in Rules!RuleDefinition
         /\ Rules!Desired(req) \subseteq Rules!Days
         /\ req.scope = "following" =>
              /\ req.rule = Rules!Base /\ req.day \in SplitDays /\ req.day \in Rules!Days
              /\ Rules!Proposed(req).start = req.day /\ Rules!Proposed(req).end = req.def.end
              /\ Rules!Proposed(req).segs = req.def.segs
         /\ req.scope = "series" => Rules!Proposed(req) = req.def
  <1>1. /\ req.def \in RuleDefinitions /\ req.rule \in Rules!Rules
        /\ req.scope = "following" => req.rule = Rules!Base /\ req.day \in SplitDays
    BY DEF Rules!Requests, Rules!Rules
  <1>2. req.def \in Rules!RuleDefinition /\ SplitDays \subseteq Rules!Days
    BY <1>1, RulesConstants DEF Rules!DefinitionAssumption, Rules!DayAssumption
  <1>3. CASE req.scope = "following"
    <2>1. Rules!Proposed(req) = [req.def EXCEPT !.start = req.day] /\ req.day \in Rules!Days
      BY <1>1, <1>2, <1>3 DEF Rules!Proposed
    <2>2. /\ [req.def EXCEPT !.start = req.day] \in Rules!RuleDefinition
          /\ [req.def EXCEPT !.start = req.day].start = req.day
          /\ [req.def EXCEPT !.start = req.day].end = req.def.end
          /\ [req.def EXCEPT !.start = req.day].segs = req.def.segs
      BY <1>2, <2>1 DEF Rules!RuleDefinition
    <2>. QED  BY <1>1, <1>2, <1>3, <2>1, <2>2, OccurrencesAre DEF Rules!Desired
  <1>4. CASE req.scope = "series"
    <2>1. Rules!Proposed(req) = req.def
      BY <1>4 DEF Rules!Proposed
    <2>. QED  BY <1>1, <1>2, <1>4, <2>1, OccurrencesAre DEF Rules!Desired
  <1>. QED  BY <1>3, <1>4

\* The plan a preview shows, computed from the evidence it kept.
PlanFrom(req, evidence) ==
  LET touched == {d \in Rules!Days : Rules!Exists(evidence.rows[d])}
      retained == {d \in touched \cap Rules!Desired(req) : evidence.rows[d].seg \in req.def.segs}
  IN CASE req.scope = "sync"       -> evidence.plan
       [] req.scope = "occurrence" -> [affected |-> {req.day}, retired |-> {}, created |-> {}]
       [] OTHER -> [affected |-> Rules!Unprotected(evidence.rows, retained),
                    retired  |-> Rules!Unprotected(evidence.rows, touched \ retained),
                    created  |-> {d \in Rules!Desired(req) :
                                    d \notin touched \/ req.def.segs # {evidence.rows[d].seg}}]

Scopes == {"sync", "occurrence", "series", "following"}

\* A request changes a series, what follows, one occurrence, or is a sync.
LEMMA ScopeOfRequest == \A req \in Rules!Requests : req.scope \in Scopes
  BY DEF Rules!Requests, Scopes

\* The evidence determines the plan: whatever happened in between, a write that
\* finds the evidence unchanged finds the plan that was shown.
LEMMA EvidenceDeterminesPlan ==
  ASSUME NEW req \in Rules!Requests
  PROVE  Rules!Plan(req) = PlanFrom(req, Rules!Evidence(req))
  <1>1. CASE req.scope = "sync"
    <2>1. Rules!Evidence(req).plan = Rules!SyncPlan(req)
      BY <1>1 DEF Rules!Evidence
    <2>. QED  BY <1>1, <2>1 DEF Rules!Plan, PlanFrom
  <1>2. CASE req.scope = "occurrence"
    BY <1>2 DEF Rules!Plan, PlanFrom
  <1>3. CASE req.scope \in {"series", "following"}
    <2>. DEFINE rows == occurrence[req.rule]
                seen == Rules!Only(rows, Rules!Touched(req))
    <2>1. Rules!Evidence(req).rows = seen
      BY <1>3 DEF Rules!Evidence, Rules!ChangeEvidence
    <2>2. \A d \in Rules!Days : seen[d] = IF d \in Rules!Touched(req) THEN rows[d] ELSE Rules!NoEntry
      BY DEF Rules!Only
    <2>3. Rules!Touched(req) \subseteq Rules!Days /\ \A d \in Rules!Touched(req) : Rules!Exists(rows[d])
      BY DEF Rules!Touched, Rules!Affected
    <2>. HIDE DEF seen
    <2>4. {d \in Rules!Days : Rules!Exists(seen[d])} = Rules!Touched(req)
      BY <2>2, <2>3 DEF Rules!Exists
    <2>5. {d \in Rules!Touched(req) \cap Rules!Desired(req) : seen[d].seg \in req.def.segs} = Rules!Kept(req)
      BY <2>2, <2>3 DEF Rules!Kept
    <2>6. Rules!Unprotected(seen, Rules!Kept(req)) = Rules!Unprotected(rows, Rules!Kept(req))
      BY <2>2, <2>3 DEF Rules!Kept, Rules!Unprotected
    <2>7. Rules!Unprotected(seen, Rules!Touched(req) \ Rules!Kept(req))
            = Rules!Unprotected(rows, Rules!Touched(req) \ Rules!Kept(req))
      BY <2>2, <2>3 DEF Rules!Unprotected
    <2>8. {d \in Rules!Desired(req) : d \notin Rules!Touched(req) \/ req.def.segs # {seen[d].seg}}
            = {d \in Rules!Desired(req) : d \notin Rules!Touched(req) \/ req.def.segs # {rows[d].seg}}
      BY <2>2, <2>3
    <2>9. Rules!Plan(req) = Rules!ChangePlan(req)
      BY <1>3 DEF Rules!Plan
    <2>10. PlanFrom(req, Rules!Evidence(req)) =
             [affected |-> Rules!Unprotected(seen, Rules!Kept(req)),
              retired  |-> Rules!Unprotected(seen, Rules!Touched(req) \ Rules!Kept(req)),
              created  |-> {d \in Rules!Desired(req) :
                              d \notin Rules!Touched(req) \/ req.def.segs # {seen[d].seg}}]
      BY <1>3, <2>1, <2>4, <2>5 DEF PlanFrom
    <2>. QED  BY <2>6, <2>7, <2>8, <2>9, <2>10 DEF Rules!ChangePlan
  <1>. QED  BY <1>1, <1>2, <1>3, ScopeOfRequest DEF Scopes

\* What is previewed of a stored rule, and that it is shown by its evidence.
PreviewsAreTrue ==
  change # Nothing =>
    /\ Rules!Stored(change.request.rule)
    /\ change.request.scope = "following" => change.request.day <= change.request.def.end
    /\ change.shown = PlanFrom(change.request, change.evidence)

RulesTyped ==
  /\ rule \in [Rules!Rules -> Rules!RuleRow \cup {Nothing}]
  /\ occurrence \in [Rules!Rules -> Rows]
  /\ ruleWrites \in 0..RuleWrites

RulesInv == Rules!TypeOK /\ PreviewsAreTrue

\* The type invariant, with the previews apart from the tables.
LEMMA RulesTypedIs ==
  /\ Rules!TypeOK <=> RulesTyped /\ change \in Rules!Previews \cup {Nothing}
  /\ Rules!TypeOK' <=> RulesTyped' /\ change' \in Rules!Previews \cup {Nothing}
  BY DEF Rules!TypeOK, RulesTyped, Rows

\* A write: the tables keep their types, and a rule once stored stays stored.
Keeps == RulesTyped' /\ \A r \in Rules!Rules : Rules!Stored(r) => Rules!Stored(r)'

\* A live rule has a definition that starts before it ends.
LEMMA StoredRule ==
  ASSUME RulesTyped, NEW r \in Rules!Rules, Rules!Stored(r)
  PROVE  /\ rule[r] \in Rules!RuleRow /\ rule[r].def \in Rules!RuleDefinition
         /\ rule[r].def.start <= rule[r].def.end
  BY DEF RulesTyped, Rules!Stored, Rules!RuleRow

\* A preview under way is of a stored rule.
LEMMA PreviewTyped ==
  ASSUME RulesInv, change # Nothing
  PROVE  /\ change.request \in Rules!Requests /\ change.shown \in Rules!Counts
         /\ change.request.rule \in Rules!Rules /\ Rules!Stored(change.request.rule)
  BY DEF RulesInv, Rules!TypeOK, PreviewsAreTrue, Rules!Previews, Rules!Requests, Rules!Rules

\* One rule and its rows are replaced.
LEMMA RuleReplaced ==
  ASSUME RulesTyped, NEW r \in Rules!Rules, NEW row1 \in Rules!RuleRow,
         rule' = [rule EXCEPT ![r] = row1]
  PROVE  /\ rule' \in [Rules!Rules -> Rules!RuleRow \cup {Nothing}]
         /\ \A x \in Rules!Rules : Rules!Stored(x) => Rules!Stored(x)'
  BY RulesConstants DEF RulesTyped, Rules!Stored, Rules!NothingAssumption

\* Replacing one row keeps the types of all.
LEMMA RowReplaced ==
  ASSUME RulesTyped, NEW r \in Rules!Rules, NEW d \in Rules!Days,
         NEW row1 \in Rules!EntryRow, occurrence' = [occurrence EXCEPT ![r][d] = row1]
  PROVE  occurrence' \in [Rules!Rules -> Rows]
  <1>1. [occurrence[r] EXCEPT ![d] = row1] \in Rows
    BY DEF RulesTyped, Rows
  <1>. QED  BY <1>1 DEF RulesTyped

\* The bound on writes is kept.
LEMMA WrittenType == RulesTyped /\ Rules!Written => ruleWrites' \in 0..RuleWrites
  BY RulesConstants DEF RulesTyped, Rules!Written, Rules!BoundAssumption

\* What each operation leaves of the tables has its type, and no rule is lost: a save.
LEMMA SaveKeepsTypes ==
  ASSUME RulesTyped, NEW r \in Rules!Rules, NEW def \in RuleDefinitions, Rules!Save(r, def)
  PROVE  Keeps
  <1>1. def \in Rules!RuleDefinition /\ [def |-> def, live |-> TRUE] \in Rules!RuleRow
    BY RulesConstants DEF Rules!DefinitionAssumption, Rules!RuleRow
  <1>2. occurrence[r] \in Rows
    BY DEF RulesTyped
  <1>3. Rules!SyncedRows(occurrence[r], def, def.start, def.end) \in Rows
    BY <1>1, <1>2, SyncedIs
  <1>4. occurrence' \in [Rules!Rules -> Rows]
    BY <1>3 DEF RulesTyped, Rules!Save
  <1>. QED  BY <1>1, <1>4, RuleReplaced, WrittenType DEF Keeps, RulesTyped, Rules!Save

\* The same of a confirmed sync.
LEMMA ApplySyncKeepsTypes == RulesInv /\ Rules!ApplySync => Keeps
  <1>. SUFFICES ASSUME RulesInv, Rules!ApplySync PROVE Keeps
    OBVIOUS
  <1>. DEFINE req == change.request
              synced == Rules!SyncedRows(occurrence[req.rule], rule[req.rule].def, req.from, req.upto)
  <1>1. RulesTyped /\ req.rule \in Rules!Rules /\ Rules!Stored(req.rule)
    BY RulesTypedIs, PreviewTyped DEF Rules!ApplySync, RulesInv
  <1>2. synced \in Rows
    BY <1>1, StoredRule, SyncedIs DEF RulesTyped
  <1>3. occurrence' = [occurrence EXCEPT ![req.rule] = synced] /\ rule' = rule
    BY DEF Rules!ApplySync
  <1>. HIDE DEF synced
  <1>. QED  BY <1>1, <1>2, <1>3, WrittenType DEF Keeps, RulesTyped, Rules!Stored, Rules!ApplySync

\* The same of a sync without preview.
LEMMA SyncRuleKeepsTypes ==
  ASSUME RulesTyped, NEW r \in Rules!Rules, Rules!SyncRule(r)
  PROVE  Keeps
  <1>. DEFINE synced == Rules!SyncedRows(occurrence[r], rule[r].def, rule[r].def.start, rule[r].def.end)
  <1>1. synced \in Rows
    BY StoredRule, SyncedIs DEF RulesTyped, Rules!SyncRule
  <1>2. occurrence' = [occurrence EXCEPT ![r] = synced] /\ rule' = rule
    BY DEF Rules!SyncRule
  <1>. HIDE DEF synced
  <1>. QED  BY <1>1, <1>2, WrittenType DEF Keeps, RulesTyped, Rules!Stored, Rules!SyncRule

\* The same of a deletion.
LEMMA DeleteRuleKeepsTypes ==
  ASSUME RulesTyped, NEW r \in Rules!Rules, Rules!DeleteRule(r)
  PROVE  Keeps
  <1>1. rule[r] \in Rules!RuleRow /\ rule' = [rule EXCEPT ![r] = [rule[r] EXCEPT !.live = FALSE]]
    BY StoredRule DEF RulesTyped, Rules!DeleteRule
  <1>2. [rule[r] EXCEPT !.live = FALSE] \in Rules!RuleRow
    BY <1>1 DEF Rules!RuleRow
  <1>. QED  BY <1>1, <1>2, RuleReplaced, WrittenType DEF Keeps, RulesTyped, Rules!DeleteRule

\* A single occurrence becomes an exception.
LEMMA MovedRow ==
  ASSUME NEW r \in Rules!EntryRow, NEW to \in Moves, NEW status \in {"planned", "done"}
  PROVE  /\ [r EXCEPT !.from = to, !.upto = to, !.sync = "manual"] \in Rules!EntryRow
         /\ [r EXCEPT !.from = to, !.upto = to, !.status = status, !.sync = "manual"] \in Rules!EntryRow
         /\ [r EXCEPT !.from = to, !.upto = to, !.sync = "manual"].deleted = r.deleted
  <1>1. to \in Rules!Days /\ to \in 1..LastDay + 1
    BY RulesConstants DEF Rules!DayAssumption, Rules!Days
  <1>. QED  BY <1>1 DEF Rules!EntryRow

\* A row that exists has the type of a row.
LEMMA ExistingRow ==
  ASSUME RulesTyped, NEW r \in Rules!Rules, NEW d \in Rules!Days, Rules!Exists(occurrence[r][d])
  PROVE  occurrence[r][d] \in Rules!EntryRow
  BY DEF RulesTyped, Rows, Rules!Exists

\* What the change of one occurrence does.
OccurrenceMoved(r, d) ==
  /\ r \in Rules!Rules /\ d \in Rules!Days
  /\ Rules!Exists(occurrence[r][d]) /\ ~Rules!Protected(occurrence[r][d])
  /\ \E row1 \in Rules!EntryRow :
       /\ row1.deleted = occurrence[r][d].deleted
       /\ occurrence' = [occurrence EXCEPT ![r][d] = row1]
  /\ rule' = rule

\* A confirmed change of one occurrence rewrites that row only.
LEMMA ApplyOccurrenceMoves ==
  ASSUME RulesInv, Rules!ApplyOccurrence
  PROVE  OccurrenceMoved(change.request.rule, change.request.day)
  <1>. DEFINE req == change.request
              row1 == [occurrence[req.rule][req.day] EXCEPT !.from = req.to, !.upto = req.to, !.sync = "manual"]
  <1>1. RulesTyped /\ req \in Rules!Requests /\ req.scope = "occurrence" /\ req.rule \in Rules!Rules
    BY RulesTypedIs, PreviewTyped DEF Rules!ApplyOccurrence, RulesInv
  <1>2. req.day \in Rules!Days /\ req.to \in Moves
    BY <1>1 DEF Rules!Requests
  <1>3. Rules!Selectable(req.rule, req.day)
    BY <1>1 DEF Rules!ApplyOccurrence, Rules!Current, Rules!Possible
  <1>4. occurrence[req.rule][req.day] \in Rules!EntryRow
    BY <1>1, <1>2, <1>3, ExistingRow DEF Rules!Selectable
  <1>5. row1 \in Rules!EntryRow /\ row1.deleted = occurrence[req.rule][req.day].deleted
    BY <1>2, <1>4, MovedRow
  <1>6. occurrence' = [occurrence EXCEPT ![req.rule][req.day] = row1] /\ rule' = rule
    BY <1>1, <1>2 DEF Rules!ApplyOccurrence, RulesTyped, Rows
  <1>. HIDE DEF row1
  <1>. QED  BY <1>1, <1>2, <1>3, <1>5, <1>6 DEF OccurrenceMoved, Rules!Selectable

\* Types and rules are kept by a confirmed change of one occurrence.
LEMMA ApplyOccurrenceKeepsTypes == RulesInv /\ Rules!ApplyOccurrence => Keeps
  <1>. SUFFICES ASSUME RulesInv, Rules!ApplyOccurrence PROVE Keeps
    OBVIOUS
  <1>1. RulesTyped
    BY RulesTypedIs DEF RulesInv
  <1>2. OccurrenceMoved(change.request.rule, change.request.day)
    BY ApplyOccurrenceMoves
  <1>3. occurrence' \in [Rules!Rules -> Rows]
    BY <1>1, <1>2, RowReplaced DEF OccurrenceMoved
  <1>. QED
    BY <1>1, <1>2, <1>3, WrittenType DEF Keeps, RulesTyped, Rules!Stored, OccurrenceMoved, Rules!ApplyOccurrence

\* What the change of a whole series does.
SeriesChanged(req, retired) ==
  /\ req \in Rules!Requests /\ req.scope = "series"
  /\ req.rule \in Rules!Rules /\ req.def \in Rules!RuleDefinition
  /\ Rules!Stored(req.rule)
  /\ retired = Rules!Unprotected(occurrence[req.rule], Rules!Touched(req) \ Rules!Kept(req))
  /\ rule' = [rule EXCEPT ![req.rule] = [rule[req.rule] EXCEPT !.def = req.def]]
  /\ occurrence' = [occurrence EXCEPT ![req.rule] =
       Rules!SyncedRows(Rules!Retired(occurrence[req.rule], retired), req.def,
                        Rules!WindowStart(req), Rules!WindowEnd(req))]

\* A confirmed change of a whole series retires the planned rows of its window and
\* writes those of the new definition.
LEMMA ApplySeriesChanges ==
  ASSUME RulesInv, Rules!ApplySeries
  PROVE  SeriesChanged(change.request, Rules!ChangePlan(change.request).retired)
  <1>1. RulesTyped /\ change.request \in Rules!Requests /\ change.request.scope = "series"
        /\ change.request.rule \in Rules!Rules /\ Rules!Stored(change.request.rule)
    BY RulesTypedIs, PreviewTyped DEF Rules!ApplySeries, RulesInv
  <1>2. change.request.def \in Rules!RuleDefinition
    BY <1>1, ProposedType
  <1>. QED
    BY <1>1, <1>2
    DEF Rules!ApplySeries, SeriesChanged, RulesTyped, Rules!SeriesRetired, Rules!ChangePlan

\* The rows in the window of a change exist.
LEMMA TouchedExist ==
  ASSUME NEW req
  PROVE  \A d \in Rules!Touched(req) : d \in Rules!Days /\ Rules!Exists(occurrence[req.rule][d])
  BY DEF Rules!Touched, Rules!Affected

\* Those of them that may be retired exist and are without exception.
LEMMA UnprotectedTouched ==
  ASSUME NEW req, NEW ds \in SUBSET Rules!Touched(req)
  PROVE  \A d \in Rules!Unprotected(occurrence[req.rule], ds) :
           /\ d \in Rules!Days /\ Rules!Exists(occurrence[req.rule][d])
           /\ ~Rules!Protected(occurrence[req.rule][d])
  BY TouchedExist DEF Rules!Unprotected

\* What a change leaves of a series: retired rows, then the new definition's.
LEMMA SeriesRows ==
  ASSUME RulesTyped, NEW req, NEW retired, SeriesChanged(req, retired)
  PROVE  LET old == occurrence[req.rule]
             left == Rules!Retired(old, retired)
             new == Rules!SyncedRows(left, req.def, Rules!WindowStart(req), Rules!WindowEnd(req))
         IN /\ old \in Rows /\ left \in Rows /\ new \in Rows
            /\ \A d \in retired : d \in Rules!Days /\ Rules!Exists(old[d]) /\ ~Rules!Protected(old[d])
            /\ \A d \in Rules!Days \ retired : left[d] = old[d]
            /\ \A d \in retired : left[d].deleted /\ Rules!Exists(left[d])
            /\ occurrence' = [occurrence EXCEPT ![req.rule] = new]
  <1>. DEFINE old == occurrence[req.rule]
              left == Rules!Retired(old, retired)
              new == Rules!SyncedRows(left, req.def, Rules!WindowStart(req), Rules!WindowEnd(req))
  <1>1. old \in Rows /\ occurrence' = [occurrence EXCEPT ![req.rule] = new]
    BY DEF SeriesChanged, RulesTyped
  <1>2. retired = Rules!Unprotected(occurrence[req.rule], Rules!Touched(req) \ Rules!Kept(req))
    BY DEF SeriesChanged
  <1>3. \A d \in retired : d \in Rules!Days /\ Rules!Exists(old[d]) /\ ~Rules!Protected(old[d])
    BY <1>2, UnprotectedTouched
  <1>. HIDE DEF old
  <1>4. /\ left \in Rows
        /\ \A d \in Rules!Days \ retired : left[d] = old[d]
        /\ \A d \in retired : left[d].deleted /\ Rules!Exists(left[d])
    BY <1>1, <1>3, RetiredIs
  <1>. HIDE DEF left
  <1>5. new \in Rows
    BY <1>4, SyncedIs DEF SeriesChanged
  <1>. QED  BY <1>1, <1>3, <1>4, <1>5 DEF old, left

\* Types and rules are kept by a confirmed change of a series.
LEMMA ApplySeriesKeepsTypes == RulesInv /\ Rules!ApplySeries => Keeps
  <1>. SUFFICES ASSUME RulesInv, Rules!ApplySeries PROVE Keeps
    OBVIOUS
  <1>. DEFINE req == change.request
              retired == Rules!ChangePlan(req).retired
              row1 == [rule[req.rule] EXCEPT !.def = req.def]
  <1>1. RulesTyped /\ SeriesChanged(req, retired)
    BY RulesTypedIs, ApplySeriesChanges DEF RulesInv
  <1>. HIDE DEF req, retired
  <1>2. req.def.start <= req.def.end
    BY <1>1, ProposedType, RulesConstants DEF SeriesChanged, Rules!DefinitionAssumption
  <1>3. row1 \in Rules!RuleRow /\ req.rule \in Rules!Rules
    BY <1>1, <1>2, StoredRule DEF SeriesChanged, Rules!RuleRow
  <1>4. rule' = [rule EXCEPT ![req.rule] = row1]
    BY <1>1 DEF SeriesChanged
  <1>. HIDE DEF row1
  <1>5. /\ rule' \in [Rules!Rules -> Rules!RuleRow \cup {Nothing}]
        /\ \A r \in Rules!Rules : Rules!Stored(r) => Rules!Stored(r)'
    BY <1>1, <1>3, <1>4, RuleReplaced
  <1>6. occurrence' \in [Rules!Rules -> Rows]
    <2>. DEFINE new == Rules!SyncedRows(Rules!Retired(occurrence[req.rule], retired), req.def,
                                        Rules!WindowStart(req), Rules!WindowEnd(req))
    <2>1. new \in Rows /\ occurrence' = [occurrence EXCEPT ![req.rule] = new]
      BY <1>1, SeriesRows
    <2>. HIDE DEF new
    <2>. QED  BY <1>1, <2>1 DEF RulesTyped
  <1>. QED  BY <1>1, <1>5, <1>6, WrittenType DEF Keeps, RulesTyped, Rules!ApplySeries

\* What a change of an occurrence and those that follow does.
SeriesSplit(req, gone) ==
  /\ req \in Rules!Requests /\ req.scope = "following"
  /\ Rules!Stored(Rules!Base) /\ req.rule = Rules!Base
  /\ req.day \in Rules!Days \cap Rules!Rules /\ req.day # Rules!Base
  /\ gone = Rules!Unprotected(occurrence[Rules!Base], Rules!Touched(req))
  /\ \E old \in Rules!RuleRow, new \in Rules!RuleRow :
       rule' = [rule EXCEPT ![Rules!Base] = old, ![req.day] = new]
  /\ \E def \in Rules!RuleDefinition : occurrence' = [occurrence EXCEPT
       ![Rules!Base] = Rules!Retired(occurrence[Rules!Base], gone),
       ![req.day] = Rules!SyncedRows(occurrence[req.day], def, def.start, def.end)]

\* A rule that ends the day before its split still starts before it ends.
LEMMA EndedType ==
  ASSUME NEW def \in Rules!RuleDefinition, def.start <= def.end, NEW day \in Rules!Days
  PROVE  /\ Rules!EndedBefore(def, day) \in Rules!RuleDefinition
         /\ Rules!EndedBefore(def, day).start <= Rules!EndedBefore(def, day).end
  <1>1. CASE day - 1 >= def.start
    <2>1. day - 1 \in Rules!Days
      BY <1>1, RulesConstants DEF Rules!RuleDefinition, Rules!Days, Rules!DayAssumption
    <2>2. Rules!EndedBefore(def, day) = [def EXCEPT !.end = day - 1]
      BY <1>1 DEF Rules!EndedBefore
    <2>. DEFINE last == day - 1
    <2>3. last \in Rules!Days /\ last >= def.start
      BY <2>1, <1>1
    <2>. HIDE DEF last
    <2>4. [def EXCEPT !.end = last] \in Rules!RuleDefinition /\ [def EXCEPT !.end = last].start = def.start
          /\ [def EXCEPT !.end = last].end = last
      BY <2>3 DEF Rules!RuleDefinition
    <2>5. def.start \in Int /\ last \in Int
      BY <2>3 DEF Rules!RuleDefinition, Rules!Days
    <2>6. Rules!EndedBefore(def, day) = [def EXCEPT !.end = last]
      BY <2>2 DEF last
    <2>. QED  BY <2>3, <2>4, <2>5, <2>6
  <1>2. CASE ~(day - 1 >= def.start)
    <2>1. Rules!EndedBefore(def, day) = [def EXCEPT !.active = FALSE]
      BY <1>2 DEF Rules!EndedBefore
    <2>2. [def EXCEPT !.active = FALSE] \in Rules!RuleDefinition /\ [def EXCEPT !.active = FALSE].start = def.start
          /\ [def EXCEPT !.active = FALSE].end = def.end
      BY DEF Rules!RuleDefinition
    <2>. QED  BY <2>1, <2>2
  <1>. QED  BY <1>1, <1>2

\* A confirmed change of what follows ends the rule, retires its later rows and
\* writes the successor's.
LEMMA ApplyFollowingSplits ==
  ASSUME RulesInv, Rules!ApplyFollowing
  PROVE  SeriesSplit(change.request, Rules!Unprotected(occurrence[Rules!Base], Rules!Touched(change.request)))
  <1>. DEFINE req == change.request
              def == Rules!Proposed(req)
              base == rule[Rules!Base]
              ended == Rules!EndedBefore(base.def, req.day)
              old == [base EXCEPT !.def = ended]
              new == [def |-> def, live |-> TRUE]
  <1>1. RulesTyped /\ req \in Rules!Requests /\ req.scope = "following"
        /\ req.rule \in Rules!Rules /\ Rules!Stored(req.rule) /\ req.day <= req.def.end
    BY RulesTypedIs, PreviewTyped DEF Rules!ApplyFollowing, RulesInv, PreviewsAreTrue
  <1>. HIDE DEF req
  <1>2. /\ req.rule = Rules!Base /\ req.day \in SplitDays /\ req.day \in Rules!Days
        /\ def \in Rules!RuleDefinition /\ def.start = req.day /\ def.end = req.def.end
    BY <1>1, ProposedType
  <1>3. req.day # Rules!Base /\ req.day \in Rules!Rules
    BY <1>2 DEF Rules!Base, Rules!Days, Rules!Rules
  <1>4. base \in Rules!RuleRow /\ base.def \in Rules!RuleDefinition /\ base.def.start <= base.def.end
    BY <1>1, <1>2, StoredRule
  <1>5. ended \in Rules!RuleDefinition /\ ended.start <= ended.end
    BY <1>2, <1>4, EndedType
  <1>6. rule' = [rule EXCEPT ![Rules!Base] = old, ![req.day] = new]
    BY <1>1, <1>2, <1>3 DEF Rules!ApplyFollowing, req
  <1>7. occurrence' = [occurrence EXCEPT
             ![Rules!Base] = Rules!Retired(occurrence[Rules!Base],
                                Rules!Unprotected(occurrence[Rules!Base], Rules!Touched(req))),
             ![req.day] = Rules!SyncedRows(occurrence[req.day], def, def.start, def.end)]
    BY <1>1, <1>2, <1>3 DEF Rules!ApplyFollowing, req, RulesTyped
  <1>. HIDE DEF ended, base, def
  <1>8. old \in Rules!RuleRow /\ new \in Rules!RuleRow
    BY <1>1, <1>2, <1>4, <1>5 DEF Rules!RuleRow
  <1>. HIDE DEF old, new
  <1>9. SeriesSplit(req, Rules!Unprotected(occurrence[Rules!Base], Rules!Touched(req)))
    BY <1>1, <1>2, <1>3, <1>6, <1>7, <1>8 DEF SeriesSplit
  <1>. QED  BY <1>9 DEF req

\* What a split leaves of the earlier series and of the one that follows.
LEMMA SplitRows ==
  ASSUME RulesTyped, NEW req, NEW gone, SeriesSplit(req, gone)
  PROVE  LET old == occurrence[Rules!Base]
             left == Rules!Retired(old, gone)
         IN /\ old \in Rows /\ left \in Rows
            /\ \A d \in gone : d \in Rules!Days /\ Rules!Exists(old[d]) /\ ~Rules!Protected(old[d])
            /\ \A d \in Rules!Days \ gone : left[d] = old[d]
            /\ \A d \in gone : left[d].deleted /\ Rules!Exists(left[d])
            /\ \E def \in Rules!RuleDefinition :
                 LET new == Rules!SyncedRows(occurrence[req.day], def, def.start, def.end)
                 IN new \in Rows /\ occurrence' = [occurrence EXCEPT ![Rules!Base] = left, ![req.day] = new]
  <1>. DEFINE old == occurrence[Rules!Base]
              left == Rules!Retired(old, gone)
  <1>1. old \in Rows /\ Rules!Base \in Rules!Rules
    BY DEF RulesTyped, Rules!Rules
  <1>2. \A d \in gone : d \in Rules!Days /\ Rules!Exists(old[d]) /\ ~Rules!Protected(old[d])
    BY UnprotectedTouched DEF SeriesSplit
  <1>. HIDE DEF old
  <1>3. /\ left \in Rows
        /\ \A d \in Rules!Days \ gone : left[d] = old[d]
        /\ \A d \in gone : left[d].deleted /\ Rules!Exists(left[d])
    BY <1>1, <1>2, RetiredIs
  <1>4. PICK def \in Rules!RuleDefinition : occurrence' = [occurrence EXCEPT
       ![Rules!Base] = left, ![req.day] = Rules!SyncedRows(occurrence[req.day], def, def.start, def.end)]
    BY DEF SeriesSplit, old
  <1>. HIDE DEF left
  <1>5. occurrence[req.day] \in Rows
    BY DEF RulesTyped, SeriesSplit
  <1>6. Rules!SyncedRows(occurrence[req.day], def, def.start, def.end) \in Rows
    BY <1>5, SyncedIs
  <1>. QED  BY <1>1, <1>2, <1>3, <1>4, <1>6 DEF left, old

\* Types and rules are kept by a confirmed change of what follows.
LEMMA ApplyFollowingKeepsTypes == RulesInv /\ Rules!ApplyFollowing => Keeps
  <1>. SUFFICES ASSUME RulesInv, Rules!ApplyFollowing PROVE Keeps
    OBVIOUS
  <1>. DEFINE req == change.request
              gone == Rules!Unprotected(occurrence[Rules!Base], Rules!Touched(req))
  <1>1. RulesTyped /\ SeriesSplit(req, gone)
    BY RulesTypedIs, ApplyFollowingSplits DEF RulesInv
  <1>. HIDE DEF req, gone
  <1>2. /\ rule' \in [Rules!Rules -> Rules!RuleRow \cup {Nothing}]
        /\ \A r \in Rules!Rules : Rules!Stored(r) => Rules!Stored(r)'
    <2>1. PICK old \in Rules!RuleRow, new \in Rules!RuleRow :
            rule' = [rule EXCEPT ![Rules!Base] = old, ![req.day] = new]
      BY <1>1 DEF SeriesSplit
    <2>. QED  BY <1>1, <2>1, RulesConstants DEF RulesTyped, Rules!Stored, Rules!NothingAssumption
  <1>3. occurrence' \in [Rules!Rules -> Rows]
    <2>1. PICK left \in Rows, new \in Rows :
            occurrence' = [occurrence EXCEPT ![Rules!Base] = left, ![req.day] = new]
      BY <1>1, SplitRows
    <2>. QED  BY <1>1, <2>1 DEF RulesTyped
  <1>. QED  BY <1>1, <1>2, <1>3, WrittenType DEF Keeps, RulesTyped, Rules!ApplyFollowing

\* Types and rules are kept by writes to single entries.
LEMMA EntryWriteKeepsTypes == RulesTyped /\ Rules!EntryWrite => Keeps
  <1>. SUFFICES ASSUME RulesTyped, NEW r \in Rules!Rules, NEW d \in Rules!Days,
                       \/ \E to \in Moves : Rules!EditEntry(r, d, to)
                       \/ Rules!ResolveEntry(r, d)
                       \/ Rules!DeleteEntry(r, d)
                PROVE  Keeps
    BY DEF Rules!EntryWrite
  <1>. DEFINE old == occurrence[r][d]
  <1>1. old \in Rules!EntryRow
    BY ExistingRow DEF Rules!EditEntry, Rules!ResolveEntry, Rules!DeleteEntry
  <1>2. \E row1 \in Rules!EntryRow : occurrence' = [occurrence EXCEPT ![r][d] = row1]
    <2>1. ASSUME NEW to \in Moves, Rules!EditEntry(r, d, to)
          PROVE  \E row1 \in Rules!EntryRow : occurrence' = [occurrence EXCEPT ![r][d] = row1]
      <3>1. [old EXCEPT !.from = to, !.upto = to, !.status = "planned", !.sync = "manual"] \in Rules!EntryRow
        BY <1>1, MovedRow
      <3>2. occurrence' = [occurrence EXCEPT ![r][d] =
                             [old EXCEPT !.from = to, !.upto = to, !.status = "planned", !.sync = "manual"]]
        BY <2>1 DEF Rules!EditEntry, RulesTyped, Rows
      <3>. QED  BY <3>1, <3>2
    <2>2. CASE Rules!ResolveEntry(r, d)
      <3>1. [old EXCEPT !.status = "done"] \in Rules!EntryRow
        BY <1>1 DEF Rules!EntryRow
      <3>2. occurrence' = [occurrence EXCEPT ![r][d] = [old EXCEPT !.status = "done"]]
        BY <2>2 DEF Rules!ResolveEntry, RulesTyped, Rows
      <3>. QED  BY <3>1, <3>2
    <2>3. CASE Rules!DeleteEntry(r, d)
      <3>1. [old EXCEPT !.deleted = TRUE] \in Rules!EntryRow
        BY <1>1 DEF Rules!EntryRow
      <3>2. occurrence' = [occurrence EXCEPT ![r][d] = [old EXCEPT !.deleted = TRUE]]
        BY <2>3 DEF Rules!DeleteEntry, RulesTyped, Rows
      <3>. QED  BY <3>1, <3>2
    <2>. QED  BY <2>1, <2>2, <2>3
  <1>3. occurrence' \in [Rules!Rules -> Rows]
    BY <1>2, RowReplaced
  <1>4. rule' = rule /\ Rules!Written
    BY DEF Rules!EditEntry, Rules!ResolveEntry, Rules!DeleteEntry
  <1>. QED  BY <1>3, <1>4, WrittenType DEF Keeps, RulesTyped, Rules!Stored

\* Types and rules are kept by every write to rules.
LEMMA RuleWriteKeepsTypes == RulesInv /\ Rules!RuleWrite => Keeps
  <1>. SUFFICES ASSUME RulesInv, Rules!RuleWrite PROVE Keeps
    OBVIOUS
  <1>1. RulesTyped /\ Rules!Base \in Rules!Rules
    BY RulesTypedIs DEF RulesInv, Rules!Rules
  <1>2. ASSUME NEW def \in RuleDefinitions, Rules!CreateRule(def) PROVE Keeps
    BY <1>1, <1>2, SaveKeepsTypes DEF Rules!CreateRule
  <1>3. ASSUME NEW r \in Rules!Rules, NEW def \in RuleDefinitions, Rules!UpdateRule(r, def) PROVE Keeps
    BY <1>1, <1>3, SaveKeepsTypes DEF Rules!UpdateRule
  <1>4. ASSUME NEW r \in Rules!Rules, Rules!DeleteRule(r) \/ Rules!SyncRule(r) PROVE Keeps
    BY <1>1, <1>4, DeleteRuleKeepsTypes, SyncRuleKeepsTypes
  <1>. QED  BY <1>2, <1>3, <1>4, ApplySyncKeepsTypes, ApplyOccurrenceKeepsTypes,
               ApplySeriesKeepsTypes, ApplyFollowingKeepsTypes DEF Rules!RuleWrite

\* Part of a rule's rows has the type of its rows.
LEMMA OnlyRows ==
  ASSUME NEW rows \in Rows, NEW ds
  PROVE  Rules!Only(rows, ds) \in Rows
  BY DEF Rules!Only, Rows

\* What a preview counts are days.
LEMMA PlanType ==
  ASSUME RulesTyped, NEW req \in Rules!Requests, Rules!Stored(req.rule)
  PROVE  Rules!Plan(req) \in Rules!Counts /\ Rules!SyncPlan(req) \in Rules!Counts
  <1>. req.rule \in Rules!Rules
    BY DEF Rules!Requests, Rules!Rules
  <1>1. Rules!SyncPlan(req) \in Rules!Counts
    BY StoredRule, OccurrencesAre DEF Rules!SyncPlan, Rules!Counts
  <1>2. CASE req.scope \in {"series", "following"}
    <2>1. Rules!Touched(req) \subseteq Rules!Days /\ Rules!Desired(req) \subseteq Rules!Days
      BY <1>2, ProposedType, TouchedExist
    <2>2. Rules!Plan(req) = Rules!ChangePlan(req)
      BY <1>2 DEF Rules!Plan
    <2>. QED  BY <1>1, <2>1, <2>2 DEF Rules!ChangePlan, Rules!Counts, Rules!Unprotected, Rules!Kept
  <1>3. CASE req.scope = "occurrence"
    <2>1. req.day \in Rules!Days
      BY <1>3 DEF Rules!Requests
    <2>. QED  BY <1>1, <1>3, <2>1 DEF Rules!Plan, Rules!Counts
  <1>4. CASE req.scope = "sync"
    BY <1>1, <1>4 DEF Rules!Plan
  <1>. QED  BY <1>2, <1>3, <1>4, ScopeOfRequest DEF Scopes

\* What the fingerprint is computed from has its type.
LEMMA EvidenceType ==
  ASSUME RulesTyped, NEW req \in Rules!Requests, Rules!Stored(req.rule)
  PROVE  Rules!Evidence(req) \in [rule : Rules!RuleDefinition, plan : Rules!Counts \cup {Nothing},
                                   rows : Rows \cup {Nothing}]
  <1>. req.rule \in Rules!Rules
    BY DEF Rules!Requests, Rules!Rules
  <1>1. rule[req.rule].def \in Rules!RuleDefinition /\ occurrence[req.rule] \in Rows
    BY StoredRule DEF RulesTyped
  <1>2. CASE req.scope \in {"series", "following"}
    BY <1>1, <1>2, OnlyRows DEF Rules!Evidence, Rules!ChangeEvidence
  <1>3. CASE req.scope = "occurrence"
    BY <1>1, <1>3, OnlyRows DEF Rules!Evidence
  <1>4. CASE req.scope = "sync"
    BY <1>1, <1>4, PlanType DEF Rules!Evidence
  <1>. QED  BY <1>2, <1>3, <1>4, ScopeOfRequest DEF Scopes

\* A new preview is true of the rows it was computed from.
LEMMA PreviewInv ==
  ASSUME RulesInv, NEW req \in Rules!Requests, Rules!Preview(req)
  PROVE  RulesInv' /\ change' \in Rules!Previews
  <1>1. RulesTyped /\ RulesTyped'
    BY RulesTypedIs DEF RulesInv, Rules!Preview, RulesTyped
  <1>2. Rules!Stored(req.rule) /\ rule' = rule
        /\ change' = [request |-> req, evidence |-> Rules!Evidence(req), shown |-> Rules!Plan(req)]
    BY DEF Rules!Preview
  <1>3. Rules!Evidence(req) \in [rule : Rules!RuleDefinition, plan : Rules!Counts \cup {Nothing},
                                  rows : Rows \cup {Nothing}]
        /\ Rules!Plan(req) \in Rules!Counts
    BY <1>1, <1>2, EvidenceType, PlanType
  <1>4. change' \in Rules!Previews
    BY <1>2, <1>3 DEF Rules!Previews, Rows
  <1>5. PreviewsAreTrue'
    <2>1. change'.request = req /\ change'.evidence = Rules!Evidence(req) /\ change'.shown = Rules!Plan(req)
      BY <1>2
    <2>2. rule'[change'.request.rule] # Nothing
      BY <1>2, <2>1 DEF Rules!Stored
    <2>3. change'.shown = PlanFrom(change'.request, change'.evidence)
      BY <2>1, EvidenceDeterminesPlan
    <2>4. change'.request.scope = "following" => change'.request.day <= change'.request.def.end
      BY <2>1 DEF Rules!Preview
    <2>. QED  BY <2>2, <2>3, <2>4 DEF PreviewsAreTrue, Rules!Stored
  <1>. QED  BY <1>1, <1>4, <1>5, RulesTypedIs DEF RulesInv

\* Every step keeps the previews true.
LEMMA RulesStep == RulesInv /\ [Rules!Next]_(Rules!vars) => RulesInv'
  <1>. SUFFICES ASSUME RulesInv, [Rules!Next]_(Rules!vars) PROVE RulesInv'
    OBVIOUS
  <1>0. RulesTyped /\ change \in Rules!Previews \cup {Nothing}
    BY RulesTypedIs DEF RulesInv
  <1>1. ASSUME Keeps, change' = change \/ change' = Nothing
        PROVE  RulesInv'
    <2>1. RulesTyped' /\ change' \in Rules!Previews \cup {Nothing}
      BY <1>0, <1>1 DEF Keeps
    <2>2. PreviewsAreTrue'
      <3>1. CASE change' = Nothing
        BY <3>1 DEF PreviewsAreTrue
      <3>2. CASE change' = change /\ change # Nothing
        <4>1. Rules!Stored(change.request.rule) /\ change.request.rule \in Rules!Rules
          BY <3>2, PreviewTyped
        <4>2. rule'[change'.request.rule] # Nothing
          BY <1>1, <3>2, <4>1 DEF Keeps, Rules!Stored
        <4>. QED  BY <3>2, <4>2 DEF PreviewsAreTrue, RulesInv, Rules!Stored
      <3>. QED  BY <1>1, <3>1, <3>2
    <2>. QED  BY <2>1, <2>2, RulesTypedIs DEF RulesInv
  <1>2. CASE Rules!RuleWrite
    <2>1. change' = change \/ change' = Nothing
      BY <1>2 DEF Rules!RuleWrite, Rules!CreateRule, Rules!UpdateRule, Rules!Save, Rules!DeleteRule,
              Rules!SyncRule, Rules!ApplySync, Rules!ApplyOccurrence, Rules!ApplySeries, Rules!ApplyFollowing
    <2>. QED  BY <1>1, <1>2, <2>1, RuleWriteKeepsTypes
  <1>3. CASE Rules!EntryWrite
    <2>1. change' = change
      BY <1>3 DEF Rules!EntryWrite, Rules!EditEntry, Rules!ResolveEntry, Rules!DeleteEntry
    <2>. QED  BY <1>0, <1>1, <1>3, <2>1, EntryWriteKeepsTypes
  <1>4. ASSUME NEW req \in Rules!Requests, Rules!Preview(req) PROVE RulesInv'
    BY <1>4, PreviewInv
  <1>5. CASE UNCHANGED Rules!vars
    <2>1. Keeps
      BY <1>0, <1>5 DEF Keeps, Rules!vars, RulesTyped, Rules!Stored
    <2>. QED  BY <1>1, <1>5, <2>1 DEF Rules!vars
  <1>. QED  BY <1>2, <1>3, <1>4, <1>5 DEF Rules!Next

\* There is no preview at first.
LEMMA RulesInit == Rules!Init => RulesInv
  <1>. SUFFICES ASSUME Rules!Init PROVE RulesInv
    OBVIOUS
  <1>1. ruleWrites \in 0..RuleWrites
    BY RulesConstants DEF Rules!Init, Rules!BoundAssumption
  <1>2. occurrence \in [Rules!Rules -> Rows] /\ rule \in [Rules!Rules -> Rules!RuleRow \cup {Nothing}]
    BY DEF Rules!Init, Rows
  <1>. QED  BY <1>1, <1>2, RulesTypedIs DEF RulesInv, RulesTyped, PreviewsAreTrue, Rules!Init

\* The tables keep their types, and a preview of a rule change stays true as long as
\* what its fingerprint covers does (buildPlan, previewContactRuleSync).
THEOREM RulesInvariant == Spec => []RulesInv
  BY RulesInit, RulesStep, RulesIsPart, PTL DEF Rules!Spec

-----------------------------------------------------------------------------
\* The days of a rule whose rows a write may change are without exception.
Spares(r, d) ==
  Rules!Exists(occurrence[r][d]) /\ Rules!Protected(occurrence[r][d]) => occurrence'[r][d] = occurrence[r][d]

\* A sync leaves exceptions as they are.
LEMMA SyncedSpares ==
  ASSUME RulesTyped, NEW r \in Rules!Rules, NEW def \in Rules!RuleDefinition, NEW from, NEW upto,
         occurrence' = [occurrence EXCEPT ![r] = Rules!SyncedRows(occurrence[r], def, from, upto)]
  PROVE  \A x \in Rules!Rules, d \in Rules!Days : Spares(x, d)
  <1>. DEFINE new == Rules!SyncedRows(occurrence[r], def, from, upto)
  <1>1. occurrence[r] \in Rows
    BY DEF RulesTyped
  <1>2. \A d \in Rules!Days : Rules!Exists(occurrence[r][d]) /\ Rules!Protected(occurrence[r][d])
                               => new[d] = occurrence[r][d]
    BY <1>1, SyncedIs
  <1>3. occurrence' = [occurrence EXCEPT ![r] = new]
    OBVIOUS
  <1>. HIDE DEF new
  <1>. QED  BY <1>2, <1>3 DEF Spares, RulesTyped

\* A change of a series leaves exceptions as they are.
LEMMA SeriesSpares ==
  ASSUME RulesTyped, NEW req, NEW retired, SeriesChanged(req, retired)
  PROVE  \A x \in Rules!Rules, d \in Rules!Days : Spares(x, d)
  <1>. DEFINE old == occurrence[req.rule]
              left == Rules!Retired(old, retired)
              new == Rules!SyncedRows(left, req.def, Rules!WindowStart(req), Rules!WindowEnd(req))
  <1>1. /\ left \in Rows
        /\ \A d \in retired : ~Rules!Protected(old[d])
        /\ \A d \in Rules!Days \ retired : left[d] = old[d]
        /\ occurrence' = [occurrence EXCEPT ![req.rule] = new]
    BY SeriesRows
  <1>3. req.def \in Rules!RuleDefinition /\ req.rule \in Rules!Rules
    BY DEF SeriesChanged
  <1>. HIDE DEF left
  <1>2. \A d \in Rules!Days : Rules!Exists(left[d]) /\ Rules!Protected(left[d]) => new[d] = left[d]
    BY <1>1, <1>3, SyncedIs
  <1>. HIDE DEF new
  <1>. QED  BY <1>1, <1>2, <1>3 DEF Spares, RulesTyped

\* A split leaves exceptions as they are.
LEMMA SplitSpares ==
  ASSUME RulesTyped, NEW req, NEW gone, SeriesSplit(req, gone)
  PROVE  \A x \in Rules!Rules, d \in Rules!Days : Spares(x, d)
  <1>. DEFINE left == Rules!Retired(occurrence[Rules!Base], gone)
  <1>1. PICK def \in Rules!RuleDefinition :
          LET new == Rules!SyncedRows(occurrence[req.day], def, def.start, def.end)
          IN occurrence' = [occurrence EXCEPT ![Rules!Base] = left, ![req.day] = new]
    BY SplitRows
  <1>2. /\ \A d \in gone : ~Rules!Protected(occurrence[Rules!Base][d])
        /\ \A d \in Rules!Days \ gone : left[d] = occurrence[Rules!Base][d]
    BY SplitRows
  <1>3. req.day \in Rules!Rules /\ req.day # Rules!Base /\ occurrence[req.day] \in Rows
    BY DEF SeriesSplit, RulesTyped
  <1>. DEFINE new == Rules!SyncedRows(occurrence[req.day], def, def.start, def.end)
  <1>4. \A d \in Rules!Days : Rules!Exists(occurrence[req.day][d]) /\ Rules!Protected(occurrence[req.day][d])
                               => new[d] = occurrence[req.day][d]
    BY <1>3, SyncedIs
  <1>5. occurrence' = [occurrence EXCEPT ![Rules!Base] = left, ![req.day] = new]
    BY <1>1
  <1>. HIDE DEF left, new
  <1>. QED  BY <1>2, <1>3, <1>4, <1>5 DEF Spares, RulesTyped

\* Every write to rules leaves exceptions as they are.
LEMMA RuleWriteSpares ==
  ASSUME RulesInv, Rules!RuleWrite
  PROVE  \A r \in Rules!Rules, d \in Rules!Days : Spares(r, d)
  <1>. DEFINE Goal == \A r \in Rules!Rules, d \in Rules!Days : Spares(r, d)
  <1>0. RulesTyped /\ Rules!Base \in Rules!Rules
    BY RulesTypedIs DEF RulesInv, Rules!Rules
  <1>1. ASSUME NEW r \in Rules!Rules, NEW def \in RuleDefinitions, Rules!Save(r, def) PROVE Goal
    <2>1. def \in Rules!RuleDefinition
      BY RulesConstants DEF Rules!DefinitionAssumption
    <2>2. occurrence' = [occurrence EXCEPT ![r] = Rules!SyncedRows(occurrence[r], def, def.start, def.end)]
      BY <1>1 DEF Rules!Save
    <2>. QED  BY <1>0, <2>1, <2>2, SyncedSpares
  <1>2. ASSUME NEW r \in Rules!Rules, Rules!DeleteRule(r) PROVE Goal
    BY <1>2 DEF Rules!DeleteRule, Spares
  <1>3. ASSUME NEW r \in Rules!Rules, Rules!SyncRule(r) PROVE Goal
    <2>1. rule[r].def \in Rules!RuleDefinition
      BY <1>0, <1>3, StoredRule DEF Rules!SyncRule
    <2>2. occurrence' = [occurrence EXCEPT ![r] =
            Rules!SyncedRows(occurrence[r], rule[r].def, rule[r].def.start, rule[r].def.end)]
      BY <1>3 DEF Rules!SyncRule
    <2>. QED  BY <1>0, <2>1, <2>2, SyncedSpares
  <1>4. CASE Rules!ApplySync
    <2>1. change.request.rule \in Rules!Rules /\ Rules!Stored(change.request.rule)
      BY <1>4, PreviewTyped DEF Rules!ApplySync
    <2>2. rule[change.request.rule].def \in Rules!RuleDefinition
      BY <1>0, <2>1, StoredRule
    <2>3. occurrence' = [occurrence EXCEPT ![change.request.rule] =
            Rules!SyncedRows(occurrence[change.request.rule], rule[change.request.rule].def,
                             change.request.from, change.request.upto)]
      BY <1>4 DEF Rules!ApplySync
    <2>. QED  BY <1>0, <2>1, <2>2, <2>3, SyncedSpares
  <1>5. CASE Rules!ApplyOccurrence
    <2>. DEFINE r == change.request.rule
                d == change.request.day
    <2>1. OccurrenceMoved(r, d)
      BY <1>5, ApplyOccurrenceMoves
    <2>. HIDE DEF r, d
    <2>2. PICK row1 \in Rules!EntryRow : occurrence' = [occurrence EXCEPT ![r][d] = row1]
      BY <2>1 DEF OccurrenceMoved
    <2>. QED  BY <1>0, <2>1, <2>2 DEF OccurrenceMoved, Spares, RulesTyped, Rows
  <1>6. CASE Rules!ApplySeries
    BY <1>0, <1>6, ApplySeriesChanges, SeriesSpares
  <1>7. CASE Rules!ApplyFollowing
    BY <1>0, <1>7, ApplyFollowingSplits, SplitSpares
  <1>. QED  BY <1>0, <1>1, <1>2, <1>3, <1>4, <1>5, <1>6, <1>7
            DEF Rules!RuleWrite, Rules!CreateRule, Rules!UpdateRule

\* No write of a rule, with a preview or without, rewrites an entry that was
\* answered, deleted or changed by hand: contactRules.ts:isProtected is asked
\* before each of them.
THEOREM ExceptionsStay == Spec => ExceptionsPreserved
  <1>1. RulesInv /\ [Rules!Next]_(Rules!vars) =>
          [\A r \in Rules!Rules, d \in Rules!Days :
             Rules!Exists(occurrence[r][d]) /\ Rules!Protected(occurrence[r][d])
               /\ occurrence'[r][d] # occurrence[r][d] => ~Rules!RuleWrite]_(Rules!vars)
    BY RuleWriteSpares DEF Spares
  <1>. QED  BY <1>1, RulesInvariant, RulesIsPart, PTL DEF Rules!Spec, ExceptionsPreserved, Rules!ExceptionsPreserved

-----------------------------------------------------------------------------
\* A request whose fingerprint is still current was shown what would be done now.
LEMMA CurrentIsShown ==
  ASSUME RulesInv, change # Nothing, Rules!Current(change.request)
  PROVE  change.shown = Rules!Plan(change.request)
  <1>1. change.shown = PlanFrom(change.request, change.evidence) /\ change.request \in Rules!Requests
    BY PreviewTyped DEF RulesInv, PreviewsAreTrue
  <1>2. change.evidence = Rules!Evidence(change.request)
    BY DEF Rules!Current
  <1>. QED  BY <1>1, <1>2, EvidenceDeterminesPlan

\* Only a write with a preview uses it up.
LEMMA AppliedIs ==
  ASSUME RulesInv, [Rules!Next]_(Rules!vars), change # Nothing, change' = Nothing
  PROVE  /\ change.request.scope = "sync" => Rules!ApplySync
         /\ change.request.scope = "occurrence" => Rules!ApplyOccurrence
         /\ change.request.scope = "series" => Rules!ApplySeries
         /\ change.request.scope = "following" => Rules!ApplyFollowing
         /\ Rules!Current(change.request)
  <1>1. CASE Rules!RuleWrite
    BY <1>1 DEF Rules!RuleWrite, Rules!CreateRule, Rules!UpdateRule, Rules!Save, Rules!DeleteRule,
            Rules!SyncRule, Rules!ApplySync, Rules!ApplyOccurrence, Rules!ApplySeries, Rules!ApplyFollowing
  <1>2. ~Rules!EntryWrite /\ ~UNCHANGED Rules!vars
    BY DEF Rules!EntryWrite, Rules!EditEntry, Rules!ResolveEntry, Rules!DeleteEntry, Rules!vars
  <1>3. ASSUME NEW req \in Rules!Requests, Rules!Preview(req) PROVE FALSE
    <2>1. change' \in Rules!Previews
      BY <1>3, PreviewInv
    <2>. QED  BY <2>1, RulesConstants DEF Rules!NothingAssumption
  <1>. QED  BY <1>1, <1>2, <1>3 DEF Rules!Next

\* What the change of a rule does to its entries, as its preview counts it.
AsPlanned(r, retired, created) ==
  /\ {d \in Rules!Days : ~occurrence[r][d].deleted /\ occurrence'[r][d].deleted} = retired
  /\ {d \in Rules!Days : ~Rules!Exists(occurrence[r][d]) /\ Rules!Exists(occurrence'[r][d])} \subseteq created

\* A confirmed sync removes and adds the rows its preview counted.
LEMMA SyncAsPlanned ==
  ASSUME RulesInv, Rules!ApplySync
  PROVE  AsPlanned(change.request.rule, change.shown.retired, change.shown.created)
  <1>. DEFINE req == change.request
              old == occurrence[req.rule]
              def == rule[req.rule].def
              new == Rules!SyncedRows(old, def, req.from, req.upto)
  <1>1. RulesTyped /\ req \in Rules!Requests /\ req.rule \in Rules!Rules /\ Rules!Stored(req.rule)
    BY RulesTypedIs, PreviewTyped DEF Rules!ApplySync, RulesInv
  <1>2. old \in Rows /\ def \in Rules!RuleDefinition
    BY <1>1, StoredRule DEF RulesTyped
  <1>3. /\ change.shown.retired = {}
        /\ change.shown.created = {d \in Rules!Occurrences(def, req.from, req.upto) : ~Rules!Exists(old[d])}
    BY CurrentIsShown DEF Rules!ApplySync, Rules!Plan, Rules!SyncPlan
  <1>4. occurrence'[req.rule] = new
    BY <1>1 DEF Rules!ApplySync, RulesTyped
  <1>. HIDE DEF req, old, def
  <1>5. \A d \in Rules!Days :
          /\ d \notin Rules!Occurrences(def, req.from, req.upto) => new[d] = old[d]
          /\ new[d].deleted = old[d].deleted
    BY <1>2, SyncedIs
  <1>. HIDE DEF new
  <1>6. AsPlanned(req.rule, {}, {d \in Rules!Occurrences(def, req.from, req.upto) : ~Rules!Exists(old[d])})
    BY <1>4, <1>5 DEF AsPlanned, old
  <1>. QED  BY <1>3, <1>6 DEF req

\* The same of a change of one occurrence.
LEMMA OccurrenceAsPlanned ==
  ASSUME RulesInv, Rules!ApplyOccurrence
  PROVE  AsPlanned(change.request.rule, change.shown.retired, change.shown.created)
  <1>. DEFINE r == change.request.rule
              d == change.request.day
  <1>1. RulesTyped /\ OccurrenceMoved(r, d)
    BY RulesTypedIs, ApplyOccurrenceMoves DEF RulesInv
  <1>2. change.shown.retired = {} /\ change.shown.created = {}
    BY CurrentIsShown DEF Rules!ApplyOccurrence, Rules!Plan
  <1>. HIDE DEF r, d
  <1>3. PICK row1 \in Rules!EntryRow :
          row1.deleted = occurrence[r][d].deleted /\ occurrence' = [occurrence EXCEPT ![r][d] = row1]
    BY <1>1 DEF OccurrenceMoved
  <1>4. \A x \in Rules!Days : /\ occurrence'[r][x].deleted = occurrence[r][x].deleted
                              /\ ~Rules!Exists(occurrence[r][x]) => ~Rules!Exists(occurrence'[r][x])
    BY <1>1, <1>3 DEF OccurrenceMoved, RulesTyped, Rows
  <1>5. AsPlanned(r, {}, {})
    <2>1. \A x \in Rules!Days : ~(~occurrence[r][x].deleted /\ occurrence'[r][x].deleted)
      BY <1>4
    <2>2. \A x \in Rules!Days : ~(~Rules!Exists(occurrence[r][x]) /\ Rules!Exists(occurrence'[r][x]))
      BY <1>4
    <2>. QED  BY <2>1, <2>2 DEF AsPlanned
  <1>. QED  BY <1>2, <1>5 DEF r

\* What becomes of each day of a series whose rule is changed.
LEMMA SeriesDays ==
  ASSUME RulesTyped, NEW req, NEW retired, SeriesChanged(req, retired)
  PROVE  \A d \in Rules!Days :
           LET old == occurrence[req.rule][d]
               new == occurrence'[req.rule][d]
           IN /\ new.deleted <=> old.deleted \/ d \in retired
              /\ d \in retired => Rules!Exists(old) /\ ~old.deleted
              /\ d \notin retired /\ Rules!Exists(old) /\ Rules!Protected(old) => new = old
              /\ ~Rules!Exists(old) /\ Rules!Exists(new) => d \in Rules!Desired(req)
              /\ d \in Rules!Desired(req) =>
                   \/ Rules!Exists(new) /\ Rules!Protected(new)
                   \/ new = Rules!Generated(req.def, d, new)
  <1>. DEFINE old == occurrence[req.rule]
              left == Rules!Retired(old, retired)
              window == Rules!Occurrences(req.def, Rules!WindowStart(req), Rules!WindowEnd(req))
              new == Rules!SyncedRows(left, req.def, Rules!WindowStart(req), Rules!WindowEnd(req))
  <1>1. /\ old \in Rows /\ left \in Rows
        /\ \A d \in retired : d \in Rules!Days /\ Rules!Exists(old[d]) /\ ~Rules!Protected(old[d])
        /\ \A d \in Rules!Days \ retired : left[d] = old[d]
        /\ \A d \in retired : left[d].deleted /\ Rules!Exists(left[d])
        /\ occurrence' = [occurrence EXCEPT ![req.rule] = new]
    BY SeriesRows
  <1>2. /\ req \in Rules!Requests /\ req.scope = "series" /\ req.rule \in Rules!Rules
        /\ req.def \in Rules!RuleDefinition /\ Rules!Stored(req.rule)
    BY DEF SeriesChanged
  <1>3. occurrence'[req.rule] = new
    BY <1>1, <1>2 DEF RulesTyped
  <1>4. window = Rules!Desired(req)
    <2>1. Rules!Desired(req) = Rules!Occurrences(req.def, req.def.start, req.def.end)
      BY <1>2, ProposedType DEF Rules!Desired
    <2>2. /\ rule[req.rule].def.start \in Int /\ rule[req.rule].def.end \in Int
          /\ req.def.start \in Int /\ req.def.end \in Int
      BY <1>2, StoredRule DEF Rules!RuleDefinition, Rules!Days
    <2>3. Rules!WindowStart(req) \in Int /\ Rules!WindowStart(req) <= req.def.start
          /\ Rules!WindowEnd(req) \in Int /\ Rules!WindowEnd(req) >= req.def.end
      BY <1>2, <2>2 DEF Rules!WindowStart, Rules!WindowEnd, Rules!Least, Rules!Greatest
    <2>4. req.def.days \subseteq Int
      BY <1>2 DEF Rules!RuleDefinition, Rules!Days
    <2>. QED  BY <2>1, <2>2, <2>3, <2>4 DEF Rules!Occurrences
  <1>. HIDE DEF left
  <1>5. \A d \in Rules!Days :
          /\ d \notin window => new[d] = left[d]
          /\ Rules!Exists(left[d]) /\ Rules!Protected(left[d]) => new[d] = left[d]
          /\ new[d].deleted = left[d].deleted
          /\ d \in window => \/ Rules!Exists(left[d]) /\ Rules!Protected(left[d])
                             \/ new[d] = Rules!Generated(req.def, d, new[d])
    BY <1>1, <1>2, SyncedIs
  <1>. HIDE DEF new, window, old
  <1>6. ASSUME NEW d \in Rules!Days
        PROVE  /\ new[d].deleted <=> old[d].deleted \/ d \in retired
               /\ d \in retired => Rules!Exists(old[d]) /\ ~old[d].deleted
               /\ d \notin retired /\ Rules!Exists(old[d]) /\ Rules!Protected(old[d]) => new[d] = old[d]
               /\ ~Rules!Exists(old[d]) /\ Rules!Exists(new[d]) => d \in window
               /\ d \in window => \/ Rules!Exists(new[d]) /\ Rules!Protected(new[d])
                                  \/ new[d] = Rules!Generated(req.def, d, new[d])
    <2>1. CASE d \in retired
      <3>1. Rules!Exists(old[d]) /\ ~old[d].deleted /\ left[d].deleted /\ Rules!Exists(left[d])
        BY <1>1, <2>1 DEF Rules!Protected
      <3>2. Rules!Protected(left[d])
        BY <3>1 DEF Rules!Protected
      <3>. QED  BY <1>5, <2>1, <3>1, <3>2
    <2>2. CASE d \notin retired
      <3>1. left[d] = old[d]
        BY <1>1, <2>2
      <3>. QED  BY <1>5, <2>2, <3>1
    <2>. QED  BY <2>1, <2>2
  <1>. QED  BY <1>3, <1>4, <1>6 DEF old

\* The same of a change of a whole series.
LEMMA SeriesAsPlanned ==
  ASSUME RulesInv, Rules!ApplySeries
  PROVE  AsPlanned(change.request.rule, change.shown.retired, change.shown.created)
  <1>. DEFINE req == change.request
              retired == Rules!ChangePlan(req).retired
  <1>1. RulesTyped /\ SeriesChanged(req, retired) /\ req.scope = "series"
    BY RulesTypedIs, ApplySeriesChanges DEF RulesInv, Rules!ApplySeries
  <1>2. change.shown = Rules!ChangePlan(req)
    BY CurrentIsShown DEF Rules!ApplySeries, Rules!Plan
  <1>3. Rules!ChangePlan(req).created =
          {d \in Rules!Desired(req) : d \notin Rules!Touched(req) \/ req.def.segs # {occurrence[req.rule][d].seg}}
    BY DEF Rules!ChangePlan
  <1>. HIDE DEF req, retired
  <1>4. retired \subseteq Rules!Days
    BY <1>1, UnprotectedTouched DEF SeriesChanged
  <1>5. AsPlanned(req.rule, retired, Rules!ChangePlan(req).created)
    BY <1>1, <1>3, <1>4, SeriesDays, TouchedExist DEF AsPlanned
  <1>. QED  BY <1>2, <1>5 DEF req, retired

\* The same of a change of what follows, which also retires what it affects.
LEMMA SplitAsPlanned ==
  ASSUME RulesInv, Rules!ApplyFollowing
  PROVE  AsPlanned(change.request.rule, change.shown.retired \cup change.shown.affected, change.shown.created)
  <1>. DEFINE req == change.request
              old == occurrence[Rules!Base]
              gone == Rules!Unprotected(old, Rules!Touched(req))
              left == Rules!Retired(old, gone)
  <1>1. RulesTyped /\ SeriesSplit(req, gone)
    BY RulesTypedIs, ApplyFollowingSplits DEF RulesInv
  <1>2. change.shown = Rules!ChangePlan(req)
    BY CurrentIsShown DEF Rules!ApplyFollowing, Rules!Plan
  <1>. HIDE DEF req
  <1>3. req.rule = Rules!Base /\ req.day # Rules!Base /\ req.day \in Rules!Rules /\ Rules!Base \in Rules!Rules
    BY <1>1 DEF SeriesSplit, Rules!Rules
  <1>4. Rules!ChangePlan(req).retired \cup Rules!ChangePlan(req).affected = gone
    BY <1>3 DEF Rules!ChangePlan, Rules!Unprotected, Rules!Kept
  <1>. HIDE DEF gone
  <1>5. /\ \A d \in gone : d \in Rules!Days /\ Rules!Exists(old[d]) /\ ~Rules!Protected(old[d])
        /\ \A d \in Rules!Days \ gone : left[d] = old[d]
        /\ \A d \in gone : left[d].deleted
        /\ \E new : occurrence' = [occurrence EXCEPT ![Rules!Base] = left, ![req.day] = new]
    BY <1>1, SplitRows
  <1>. HIDE DEF left
  <1>6. occurrence'[Rules!Base] = left
    BY <1>1, <1>3, <1>5 DEF RulesTyped
  <1>7. AsPlanned(Rules!Base, gone, {})
    BY <1>5, <1>6 DEF AsPlanned, Rules!Protected
  <1>. QED  BY <1>2, <1>3, <1>4, <1>7 DEF AsPlanned, req

\* After a change of a whole series, what is left planned in its window is desired and
\* as the new definition has it.
LEMMA SeriesLeavesNoOther ==
  ASSUME RulesInv, Rules!ApplySeries
  PROVE  LET req == change.request IN
           \A d \in Rules!Touched(req) :
             ~Rules!Protected(occurrence'[req.rule][d]) =>
               /\ d \in Rules!Desired(req)
               /\ occurrence'[req.rule][d] = Rules!Generated(req.def, d, occurrence'[req.rule][d])
  <1>. DEFINE req == change.request
              retired == Rules!ChangePlan(req).retired
  <1>1. RulesTyped /\ SeriesChanged(req, retired)
    BY RulesTypedIs, ApplySeriesChanges DEF RulesInv
  <1>. HIDE DEF req, retired
  <1>2. SUFFICES ASSUME NEW d \in Rules!Touched(req), ~Rules!Protected(occurrence'[req.rule][d])
                 PROVE  /\ d \in Rules!Desired(req)
                        /\ occurrence'[req.rule][d] = Rules!Generated(req.def, d, occurrence'[req.rule][d])
    BY DEF req
  <1>3. d \in Rules!Days /\ Rules!Exists(occurrence[req.rule][d])
    BY TouchedExist
  <1>4. d \notin retired
    BY <1>1, <1>2, <1>3, SeriesDays DEF Rules!Protected
  <1>5. ~Rules!Protected(occurrence[req.rule][d])
    BY <1>1, <1>2, <1>3, <1>4, SeriesDays
  <1>6. d \in Rules!Kept(req)
    BY <1>1, <1>4, <1>5 DEF SeriesChanged, Rules!Unprotected
  <1>7. d \in Rules!Desired(req)
    BY <1>6 DEF Rules!Kept
  <1>. QED  BY <1>1, <1>2, <1>3, <1>7, SeriesDays

\* The write of a previewed change computes its plan again and compares the
\* evidence: what it retires is what the preview counted, what it creates was
\* counted too, and a changed series keeps no planned entry of an earlier
\* definition (applyContactRuleChange), whatever happened since the preview.
THEOREM SeriesChangeAsCounted == Spec => SeriesChangesAsPreviewed
  <1>1. RulesInv /\ [Rules!Next]_(Rules!vars) =>
          [\A how \in {"sync", "series", "following", "occurrence"} : Rules!Applied(how) =>
             LET r == change.request.rule IN
               /\ Rules!Removed(r) = change.shown.retired \cup
                                       (IF how = "following" THEN change.shown.affected ELSE {})
               /\ Rules!Added(r) \subseteq change.shown.created]_(Rules!vars)
    <2>1. SUFFICES ASSUME RulesInv, [Rules!Next]_(Rules!vars),
                          NEW how \in {"sync", "series", "following", "occurrence"}, Rules!Applied(how)
                   PROVE  AsPlanned(change.request.rule,
                                    change.shown.retired \cup
                                      (IF how = "following" THEN change.shown.affected ELSE {}),
                                    change.shown.created)
      BY DEF AsPlanned, Rules!Removed, Rules!Added
    <2>2. change # Nothing /\ change' = Nothing /\ change.request.scope = how
      BY <2>1 DEF Rules!Applied
    <2>3. CASE how = "following"
      BY <2>1, <2>2, <2>3, AppliedIs, SplitAsPlanned
    <2>4. CASE how # "following"
      <3>1. AsPlanned(change.request.rule, change.shown.retired, change.shown.created)
        BY <2>1, <2>2, <2>4, AppliedIs, SyncAsPlanned, OccurrenceAsPlanned, SeriesAsPlanned
      <3>. QED  BY <2>4, <3>1 DEF AsPlanned
    <2>. QED  BY <2>3, <2>4
  <1>2. RulesInv /\ [Rules!Next]_(Rules!vars) =>
          [Rules!Applied("series") =>
             LET req == change.request IN
               \A d \in Rules!Touched(req) :
                 ~Rules!Protected(occurrence'[req.rule][d]) =>
                   d \in Rules!Desired(req)
                     /\ occurrence'[req.rule][d] = Rules!Generated(req.def, d, occurrence'[req.rule][d])]_(Rules!vars)
    BY AppliedIs, SeriesLeavesNoOther DEF Rules!Applied
  <1>3. Spec => Rules!AppliedAsPreviewed
    BY <1>1, RulesInvariant, RulesIsPart, PTL DEF Rules!Spec, Rules!AppliedAsPreviewed
  <1>4. Spec => Rules!SeriesReconciled
    BY <1>2, RulesInvariant, RulesIsPart, PTL DEF Rules!Spec, Rules!SeriesReconciled
  <1>. QED  BY <1>3, <1>4 DEF SeriesChangesAsPreviewed

-----------------------------------------------------------------------------
(* Closed months and the question before they are changed.                 *)

\* What the assumption on the constants says of this part.
LEMMA ClosingsConstants ==
  Closings!KindAssumption /\ Closings!DraftAssumption /\ Closings!BoundAssumption
  BY PreviewsAssumption DEF PreviewsAssumption

\* A behaviour of all parts is, seen from this one, a behaviour of it.
LEMMA ClosingsIsPart == Spec => Closings!Spec
  <1>1. Init => Closings!Init
    BY DEF Init
  <1>2. [Next]_vars => [Closings!Next]_(Closings!vars)
    BY DEF Next, vars, closingsVars, Closings!vars
  <1>. QED  BY <1>1, <1>2, PTL DEF Spec, Closings!Spec

MonthRecords == DOMAIN MonthKind

Copies == [record : [MonthRecords -> Closings!Rows], closed : SUBSET Months]

\* The months an operation is about, as its question finds them in the
\* records seen.
MonthsOf(do, seen) ==
  CASE do.op = "save" -> Closings!Span(do.draft) \cup Closings!Span(seen[do.record])
    [] do.op = "remove" -> Closings!Span(seen[do.record])
    [] do.op = "removeChild" ->
         UNION {Closings!Span(seen[r]) : r \in
           {q \in MonthRecords : MonthKind[q] # "period" /\ seen[q] # Nothing /\ do.child \in seen[q].kids}}
    [] do.op = "rename" -> {}

\* The question names the closed ones of them, as its browser knew them.
QuestionNames ==
  request # Nothing => request.named = MonthsOf(request.do, request.seen.record) \cap request.seen.closed

ClosingsInv == Closings!TypeOK /\ QuestionNames

\* A record spans months.
LEMMA SpanType == \A r : Closings!Span(r) \subseteq Months
  BY DEF Closings!Span

\* What a form is filled with is a record, and not the absent one.
LEMMA DraftType ==
  ASSUME NEW d \in MonthDrafts
  PROVE  d \in Closings!Rows /\ d \in [from : Months, to : Months, kids : SUBSET MonthKids] /\ d # Nothing
  BY ClosingsConstants DEF Closings!DraftAssumption, Closings!BoundAssumption, Closings!Rows

\* What the browser loads has the type of its copy.
LEMMA CurrentType == Closings!TypeOK => Closings!Current \in Copies
  BY DEF Closings!TypeOK, Closings!Current, Closings!Closed, Copies, MonthRecords

\* A record loses a child: it keeps its months or goes.
LEMMA WithoutChild ==
  ASSUME NEW r \in Closings!Rows, NEW c \in MonthKids
  PROVE  /\ Closings!Without(r, c) \in Closings!Rows
         /\ Closings!Span(Closings!Without(r, c)) \subseteq Closings!Span(r)
         /\ Closings!Without(r, c) # r => r # Nothing /\ c \in r.kids
  <1>1. CASE r = Nothing \/ c \notin r.kids
    BY <1>1 DEF Closings!Without
  <1>2. CASE ~(r = Nothing \/ c \notin r.kids)
    <2>1. r \in [from : Months, to : Months, kids : SUBSET MonthKids]
      BY <1>2 DEF Closings!Rows
    <2>2. CASE r.kids = {c}
      BY <1>2, <2>2 DEF Closings!Without, Closings!Span, Closings!Rows
    <2>3. CASE r.kids # {c}
      <3>. DEFINE new == [r EXCEPT !.kids = r.kids \ {c}]
      <3>1. Closings!Without(r, c) = new
        BY <1>2, <2>3 DEF Closings!Without
      <3>2. new \in [from : Months, to : Months, kids : SUBSET MonthKids]
            /\ new.from = r.from /\ new.to = r.to
        BY <2>1
      <3>. HIDE DEF new
      <3>3. Closings!Span(new) \subseteq Closings!Span(r)
        BY <1>2, <3>2 DEF Closings!Span
      <3>. QED  BY <1>2, <3>1, <3>2, <3>3 DEF Closings!Rows
    <2>. QED  BY <2>2, <2>3
  <1>. QED  BY <1>1, <1>2

\* What is marked, and that marks keep the type.
LEMMA Marked ==
  ASSUME closing \in [Months -> {"open", "closed", "changed"}], NEW ms
  PROVE  /\ Closings!Mark(ms) \in [Months -> {"open", "closed", "changed"}]
         /\ \A m \in Months \cap ms : closing[m] # "open" => Closings!Mark(ms)[m] = "changed"
  BY DEF Closings!Mark

\* The months between two rows contain theirs.
LEMMA BetweenContains ==
  ASSUME NEW a, NEW b
  PROVE  Closings!Span(a) \cup Closings!Span(b) \subseteq Closings!Between(a, b)
  <1>1. \A m \in Months : m <= m
    BY ClosingsConstants DEF Closings!DraftAssumption
  <1>. QED  BY <1>1, SpanType DEF Closings!Between

\* The writes of the server, by operation.
LEMMA ApplyTypes ==
  ASSUME Closings!TypeOK, NEW do \in Closings!Operations, Closings!Apply(do)
  PROVE  /\ child' \subseteq MonthKids
         /\ kept' \in [MonthRecords -> Closings!Rows]
         /\ closing' \in [Months -> {"open", "closed", "changed"}]
         /\ monthWrites' \in 0..MonthWrites
  <1>. USE DEF Closings!TypeOK, MonthRecords
  <1>1. monthWrites' \in 0..MonthWrites
    BY ClosingsConstants DEF Closings!Apply, Closings!BoundAssumption
  <1>2. CASE do.op = "save"
    <2>1. do.record \in MonthRecords /\ do.draft \in MonthDrafts
      BY <1>2 DEF Closings!Operations
    <2>2. Closings!Save(do.record, do.draft)
      BY <1>2 DEF Closings!Apply
    <2>. QED  BY <1>1, <2>1, <2>2, DraftType, Marked DEF Closings!Save
  <1>3. CASE do.op = "remove"
    <2>1. Closings!Remove(do.record)
      BY <1>3 DEF Closings!Apply
    <2>. QED  BY <1>1, <2>1, Marked DEF Closings!Remove, Closings!Rows
  <1>4. CASE do.op = "removeChild"
    <2>1. Closings!RemoveChild(do.child) /\ do.child \in MonthKids
      BY <1>4 DEF Closings!Apply, Closings!Operations
    <2>2. \A r \in MonthRecords : Closings!Without(kept[r], do.child) \in Closings!Rows
      BY <2>1, WithoutChild
    <2>. QED  BY <1>1, <2>1, <2>2, Marked DEF Closings!RemoveChild
  <1>5. CASE do.op = "rename"
    <2>1. Closings!Rename
      BY <1>5 DEF Closings!Apply
    <2>. QED  BY <1>1, <2>1, Marked DEF Closings!Rename
  <1>. QED  BY <1>2, <1>3, <1>4, <1>5 DEF Closings!Operations

\* A question keeps the invariant, whatever it is about.
LEMMA AskKeeps ==
  ASSUME ClosingsInv, NEW do \in Closings!Operations, NEW ms \in SUBSET Months,
         Closings!Ask(do, ms), ms = MonthsOf(do, copy.record)
  PROVE  ClosingsInv'
  BY DEF ClosingsInv, QuestionNames, Closings!TypeOK, Closings!Ask

\* There is no question at first.
LEMMA ClosingsInvInit == Closings!Init => ClosingsInv
  BY ClosingsConstants
  DEF Closings!Init, ClosingsInv, QuestionNames, Closings!TypeOK, Closings!Current, Closings!Closed,
      Closings!Rows, Closings!BoundAssumption

\* Every step keeps the questions naming the closed months they are about.
LEMMA ClosingsInvStep == ClosingsInv /\ [Closings!Next]_(Closings!vars) => ClosingsInv'
  <1>. SUFFICES ASSUME ClosingsInv, [Closings!Next]_(Closings!vars) PROVE ClosingsInv'
    OBVIOUS
  <1>0. Closings!TypeOK
    BY DEF ClosingsInv
  <1>1. ASSUME Closings!Load PROVE ClosingsInv'
    <2>1. copy' \in Copies /\ UNCHANGED <<child, kept, closing, restricted, request, monthWrites>>
      BY <1>0, <1>1, CurrentType DEF Closings!Load
    <2>. QED  BY <2>1 DEF ClosingsInv, QuestionNames, Closings!TypeOK, Copies, MonthRecords
  <1>2. ASSUME Closings!Write PROVE ClosingsInv'
    <2>1. request.do \in Closings!Operations /\ Closings!Apply(request.do)
      BY <1>0, <1>2 DEF Closings!Write, Closings!TypeOK
    <2>. QED
      BY <1>0, <1>2, <2>1, ApplyTypes
      DEF Closings!Write, ClosingsInv, QuestionNames, Closings!TypeOK, MonthRecords
  <1>3. ASSUME Closings!Fail PROVE ClosingsInv'
    BY <1>3 DEF Closings!Fail, ClosingsInv, QuestionNames, Closings!TypeOK
  <1>4. ASSUME Closings!Elsewhere PROVE ClosingsInv'
    <2>1. \E do \in Closings!Operations : Closings!Apply(do)
      BY <1>4 DEF Closings!Elsewhere, Closings!Operations
    <2>2. UNCHANGED <<restricted, copy, request>>
      BY <1>4 DEF Closings!Elsewhere
    <2>. QED
      BY <1>0, <2>1, <2>2, ApplyTypes DEF ClosingsInv, QuestionNames, Closings!TypeOK, MonthRecords
  <1>5. ASSUME NEW m \in Months, Closings!CloseMonth(m) PROVE ClosingsInv'
    BY <1>5 DEF Closings!CloseMonth, ClosingsInv, QuestionNames, Closings!TypeOK
  <1>6. ASSUME Closings!SaveName PROVE ClosingsInv'
    BY <1>6, AskKeeps DEF Closings!SaveName, Closings!Operations, MonthsOf
  <1>7. ASSUME NEW r \in MonthRecords, Closings!AskToRemove(r) PROVE ClosingsInv'
    <2>. DEFINE do == [op |-> "remove", record |-> r]
    <2>1. do \in Closings!Operations /\ MonthsOf(do, copy.record) = Closings!Span(copy.record[r])
      BY DEF Closings!Operations, MonthsOf, MonthRecords
    <2>. QED  BY <1>7, <2>1, AskKeeps, SpanType DEF Closings!AskToRemove
  <1>8. ASSUME NEW r \in MonthRecords, NEW d \in MonthDrafts, Closings!AskToSave(r, d)
        PROVE  ClosingsInv'
    <2>. DEFINE do == [op |-> "save", record |-> r, draft |-> d]
    <2>1. do \in Closings!Operations /\ MonthsOf(do, copy.record) = Closings!SavedMonths(r, d)
      BY DEF Closings!Operations, MonthsOf, Closings!SavedMonths, MonthRecords
    <2>2. Closings!SavedMonths(r, d) \subseteq Months
      BY SpanType DEF Closings!SavedMonths
    <2>. QED  BY <1>8, <2>1, <2>2, AskKeeps DEF Closings!AskToSave
  <1>9. ASSUME NEW c \in MonthKids, Closings!AskToRemoveChild(c) PROVE ClosingsInv'
    <2>. DEFINE do == [op |-> "removeChild", child |-> c]
    <2>1. do \in Closings!Operations /\ MonthsOf(do, copy.record) = Closings!MonthsOfChild(c)
      BY DEF Closings!Operations, MonthsOf, Closings!MonthsOfChild, MonthRecords
    <2>2. Closings!MonthsOfChild(c) \subseteq Months
      BY SpanType DEF Closings!MonthsOfChild
    <2>. QED  BY <1>9, <2>1, <2>2, AskKeeps DEF Closings!AskToRemoveChild
  <1>10. CASE UNCHANGED Closings!vars
    BY <1>10 DEF Closings!vars, ClosingsInv, QuestionNames, Closings!TypeOK
  <1>. QED
    BY <1>1, <1>2, <1>3, <1>4, <1>5, <1>6, <1>7, <1>8, <1>9, <1>10
    DEF Closings!Next, MonthRecords

\* An operation that changes a record in a closed month names that month, and
\* marks it.
LEMMA AppliedIsNamed ==
  ASSUME Closings!TypeOK, NEW do \in Closings!Operations, Closings!Apply(do),
         NEW r \in MonthRecords, NEW m \in Closings!Closed, Closings!Touches(r, m),
         MonthKind[r] = "period" => do.op # "removeChild"
  PROVE  m \in MonthsOf(do, kept) /\ closing'[m] = "changed"
  <1>0. m \in Months /\ closing[m] # "open" /\ kept[r] \in Closings!Rows
    BY DEF Closings!Closed, Closings!TypeOK, MonthRecords
  <1>. USE DEF MonthRecords
  <1>1. CASE do.op = "save"
    <2>1. do.record \in MonthRecords /\ do.draft \in MonthDrafts /\ Closings!Save(do.record, do.draft)
      BY <1>1 DEF Closings!Operations, Closings!Apply
    <2>2. kept' = [kept EXCEPT ![do.record] = do.draft]
          /\ closing' = Closings!Mark(Closings!Between(kept[do.record], do.draft))
      BY <2>1 DEF Closings!Save
    <2>3. r = do.record /\ kept'[r] = do.draft
      BY <2>1, <2>2 DEF Closings!TypeOK, Closings!Touches
    <2>4. m \in Closings!Span(kept[do.record]) \cup Closings!Span(do.draft)
      BY <2>3 DEF Closings!Touches
    <2>5. m \in MonthsOf(do, kept)
      BY <1>1, <2>4 DEF MonthsOf
    <2>6. m \in Closings!Between(kept[do.record], do.draft)
      BY <2>4, BetweenContains
    <2>. QED  BY <1>0, <2>2, <2>5, <2>6, Marked DEF Closings!TypeOK
  <1>2. CASE do.op = "remove"
    <2>1. do.record \in MonthRecords /\ Closings!Remove(do.record)
      BY <1>2 DEF Closings!Operations, Closings!Apply
    <2>2. r = do.record /\ kept'[r] = Nothing
      BY <2>1 DEF Closings!TypeOK, Closings!Touches, Closings!Remove
    <2>3. m \in Closings!Span(kept[do.record])
      BY <2>2 DEF Closings!Touches, Closings!Span
    <2>4. m \in MonthsOf(do, kept)
      BY <1>2, <2>3 DEF MonthsOf
    <2>. QED  BY <1>0, <2>1, <2>3, <2>4, Marked DEF Closings!TypeOK, Closings!Remove
  <1>3. CASE do.op = "removeChild"
    <2>1. do.child \in MonthKids /\ Closings!RemoveChild(do.child)
      BY <1>3 DEF Closings!Operations, Closings!Apply
    <2>2. kept'[r] = Closings!Without(kept[r], do.child)
      BY <2>1 DEF Closings!RemoveChild
    <2>3. kept[r] # Nothing /\ do.child \in kept[r].kids /\ m \in Closings!Span(kept[r])
      BY <1>0, <2>1, <2>2, WithoutChild DEF Closings!Touches
    <2>4. m \in MonthsOf(do, kept)
      BY <1>3, <2>3 DEF MonthsOf
    <2>. QED  BY <1>0, <2>1, <2>4, Marked DEF Closings!TypeOK, Closings!RemoveChild
  <1>4. CASE do.op = "rename"
    BY <1>4 DEF Closings!Apply, Closings!Rename, Closings!Touches
  <1>. QED  BY <1>1, <1>2, <1>3, <1>4 DEF Closings!Operations

\* Names of the questions under way, and the types, hold throughout.
LEMMA ClosingsInvariant == Spec => []ClosingsInv
  BY ClosingsInvInit, ClosingsInvStep, ClosingsIsPart, PTL DEF Closings!Spec

\* A closed month that a member's change affects was named in the question
\* before it and is marked, if the browser's copy was what the server has
\* (confirmClosedMonthChange, markDomainClosedMonthsChanged): for any records,
\* children and months.
THEOREM ClosedChangesAreNamed == Spec => ClosedChangesAreAsked
  <1>1. ASSUME ClosingsInv, [Closings!Next]_(Closings!vars), request # Nothing, request' = Nothing
        PROVE  Closings!Write \/ kept' = kept
    BY <1>1
    DEF Closings!Next, Closings!vars, Closings!Load, Closings!Fail, Closings!Elsewhere, Closings!SaveName,
        Closings!CloseMonth, Closings!AskToRemove, Closings!AskToSave, Closings!AskToRemoveChild,
        Closings!Ask
  <1>2. ASSUME ClosingsInv, [Closings!Next]_(Closings!vars),
               NEW r \in MonthRecords, NEW m \in Closings!Closed,
               request # Nothing, request' = Nothing, request.seen.closed = Closings!Closed,
               request.seen.record = kept, Closings!Touches(r, m),
               MonthKind[r] = "period" => request.do.op # "removeChild"
        PROVE  m \in request.named /\ closing'[m] = "changed"
    <2>1. Closings!Write
      BY <1>1, <1>2 DEF Closings!Touches
    <2>2. request.do \in Closings!Operations /\ Closings!Apply(request.do) /\ Closings!TypeOK
      BY <1>2, <2>1 DEF Closings!Write, ClosingsInv, Closings!TypeOK
    <2>3. m \in MonthsOf(request.do, kept) /\ closing'[m] = "changed"
      BY <1>2, <2>2, AppliedIsNamed
    <2>4. request.named = MonthsOf(request.do, kept) \cap Closings!Closed
      BY <1>2 DEF ClosingsInv, QuestionNames
    <2>. QED  BY <1>2, <2>3, <2>4
  <1>3. ClosingsInv /\ [Closings!Next]_(Closings!vars) =>
          [\A r \in DOMAIN MonthKind, m \in Closings!Closed :
             /\ request # Nothing /\ request' = Nothing /\ request.seen.closed = Closings!Closed
             /\ request.seen.record = kept
             /\ Closings!Touches(r, m)
             /\ MonthKind[r] = "period" => request.do.op # "removeChild"
             => m \in request.named /\ closing'[m] = "changed"]_(Closings!vars)
    BY <1>2 DEF MonthRecords
  <1>4. Closings!Spec => Closings!ClosedChangesAreAsked
    BY <1>3, ClosingsInvInit, ClosingsInvStep, PTL DEF Closings!Spec, Closings!ClosedChangesAreAsked
  <1>. QED  BY <1>4, ClosingsIsPart DEF ClosedChangesAreAsked

-----------------------------------------------------------------------------
(* Entries, their forms and the conflicts that are confirmed.              *)

\* What the assumption on the constants says of this part.
LEMMA EditingConstants ==
  /\ Editing!EntryAssumption /\ Editing!DraftAssumption
  /\ Editing!MemberAssumption /\ Editing!BoundAssumption
  BY PreviewsAssumption DEF PreviewsAssumption

\* A behaviour of all parts is, seen from this one, a behaviour of it.
LEMMA EditingIsPart == Spec => Editing!Spec
  <1>1. Init => Editing!Init
    BY DEF Init
  <1>2. [Next]_vars => [Editing!Next]_(Editing!vars)
    BY DEF Next, vars, entriesVars, Editing!vars
  <1>. QED  BY <1>1, <1>2, PTL DEF Spec, Editing!Spec

\* A draft, its schedule, what a form takes of it and the row it becomes.
LEMMA DraftsAre ==
  /\ SavedDrafts \subseteq Editing!Fields
  /\ Editing!Schedules \subseteq Editing!Fields
  /\ \A d \in Editing!Fields, deleted \in BOOLEAN : Editing!Row(d, deleted) \in Editing!Rows
  /\ \A r \in Editing!Rows : Editing!Draft(r) \in Editing!Fields
  <1>1. SavedDrafts \subseteq Editing!Fields
    BY EditingConstants DEF Editing!DraftAssumption
  <1>2. Editing!Schedules \subseteq Editing!Fields
    BY DEF Editing!Schedules, Editing!Fields, Editing!Statuses
  <1>3. \A d \in Editing!Fields, deleted \in BOOLEAN : Editing!Row(d, deleted) \in Editing!Rows
    BY DEF Editing!Fields, Editing!Rows, Editing!Row
  <1>4. \A r \in Editing!Rows : Editing!Draft(r) \in Editing!Fields
    BY DEF Editing!Fields, Editing!Rows, Editing!Draft
  <1>. QED  BY <1>1, <1>2, <1>3, <1>4

\* What a member's form is opened with has the fields of a member's form.
LEMMA FormHolds ==
  ASSUME NEW m, NEW d \in Editing!Fields
  PROVE  Editing!InForm(m, d) \in Editing!FormFields(m)
  <1>1. Editing!Schedule(d) \in Editing!Schedules
    BY DEF Editing!Schedule, Editing!Schedules, Editing!Fields
  <1>. QED  BY <1>1 DEF Editing!InForm, Editing!FormFields

IsForm(m, f) ==
  /\ DOMAIN f = {"key", "id", "draft", "preview", "confirmed"}
  /\ f.key \in 1..MaxForms /\ f.id \in EditedEntries \cup {Nothing}
  /\ f.draft \in Editing!FormFields(m)

IsSubmission(r) ==
  /\ DOMAIN r = {"by", "key", "id", "input", "ack", "existing", "step"}
  /\ r.by \in Editors /\ r.id \in EditedEntries \cup {Nothing}
  /\ r.input \in Editing!FormFields(r.by)
  /\ r.existing \in Editing!Rows \cup {Nothing}
  /\ r.step \in {"asked", "sent", "read"}

FormsTyped == DOMAIN editForm = Editors /\ \A m \in Editors : editForm[m] # Nothing => IsForm(m, editForm[m])

SubmissionsTyped ==
  DOMAIN submission = Submissions /\ \A q \in Submissions : submission[q] # Nothing => IsSubmission(submission[q])

EntriesTyped ==
  /\ edited \in [EditedEntries -> Editing!Rows \cup {Nothing}]
  /\ forms \in 0..MaxForms /\ otherWrites \in 0..OtherWrites

\* The type invariant in three parts: entries, forms, and submissions under way.
LEMMA EditingTypeIs ==
  /\ Editing!TypeOK <=> EntriesTyped /\ FormsTyped /\ SubmissionsTyped
  /\ Editing!TypeOK' <=> EntriesTyped' /\ FormsTyped' /\ SubmissionsTyped'
  BY DEF Editing!TypeOK, EntriesTyped, FormsTyped, SubmissionsTyped, IsForm, IsSubmission

\* A form changes, or a submission.
LEMMA FormPut ==
  ASSUME FormsTyped, NEW m \in Editors, NEW f, f # Nothing => IsForm(m, f),
         editForm' = [editForm EXCEPT ![m] = f]
  PROVE  FormsTyped'
  BY DEF FormsTyped

\* Replacing one submission keeps the types of all.
LEMMA SubmissionPut ==
  ASSUME SubmissionsTyped, NEW q \in Submissions, NEW r, r # Nothing => IsSubmission(r),
         submission' = [submission EXCEPT ![q] = r]
  PROVE  SubmissionsTyped'
  BY DEF SubmissionsTyped

\* What a member can enter has the fields of his form.
LEMMA EnterableFields ==
  ASSUME NEW m, NEW d \in Editing!Enterable(m)
  PROVE  d \in Editing!FormFields(m)
  BY DraftsAre, FormHolds DEF Editing!Enterable

\* Types are kept when a form is opened.
LEMMA OpenedTypes ==
  ASSUME Editing!TypeOK, NEW m \in Editors, NEW i \in EditedEntries \cup {Nothing},
         NEW d \in Editing!FormFields(m), Editing!Opened(m, i, d)
  PROVE  Editing!TypeOK'
  <1>. DEFINE f == [key |-> forms + 1, id |-> i, draft |-> d, preview |-> Nothing, confirmed |-> Nothing]
  <1>1. EntriesTyped /\ FormsTyped /\ SubmissionsTyped
    BY EditingTypeIs
  <1>2. forms + 1 \in 1..MaxForms /\ forms + 1 \in 0..MaxForms
    BY <1>1, EditingConstants DEF Editing!Opened, EntriesTyped, Editing!BoundAssumption
  <1>3. IsForm(m, f)
    BY <1>2 DEF IsForm
  <1>4. FormsTyped'
    <2>1. editForm' = [editForm EXCEPT ![m] = f]
      BY DEF Editing!Opened
    <2>. HIDE DEF f
    <2>. QED  BY <1>1, <1>3, <2>1, FormPut
  <1>5. EntriesTyped' /\ SubmissionsTyped'
    BY <1>1, <1>2 DEF EntriesTyped, SubmissionsTyped, Editing!Opened
  <1>. QED  BY <1>4, <1>5, EditingTypeIs

\* Types are kept by every step of a form.
LEMMA FormGoesOnTypes ==
  ASSUME Editing!TypeOK, NEW m \in Editors, Editing!FormGoesOn(m)
  PROVE  Editing!TypeOK'
  <1>0. EntriesTyped /\ FormsTyped /\ SubmissionsTyped
    BY EditingTypeIs
  <1>1. CASE Editing!OpenNew(m)
    BY <1>1, EnterableFields, OpenedTypes DEF Editing!OpenNew
  <1>2. CASE Editing!OpenEntry(m)
    <2>1. PICK i \in EditedEntries :
            Editing!Live(i) /\ Editing!Opened(m, i, Editing!InForm(m, Editing!Draft(edited[i])))
      BY <1>2 DEF Editing!OpenEntry
    <2>2. edited[i] \in Editing!Rows
      BY <1>0, <2>1 DEF EntriesTyped, Editing!Live
    <2>3. Editing!InForm(m, Editing!Draft(edited[i])) \in Editing!FormFields(m)
      BY <2>2, DraftsAre, FormHolds
    <2>. QED  BY <2>1, <2>3, OpenedTypes
  <1>3. CASE Editing!Change(m)
    <2>1. PICK d \in Editing!Enterable(m) : editForm' = [editForm EXCEPT ![m] = [editForm[m] EXCEPT !.draft = d]]
      BY <1>3 DEF Editing!Change
    <2>2. IsForm(m, editForm[m])
      BY <1>0, <1>3 DEF Editing!Change, FormsTyped
    <2>3. IsForm(m, [editForm[m] EXCEPT !.draft = d])
      BY <2>2, EnterableFields DEF IsForm
    <2>4. FormsTyped'
      BY <1>0, <2>1, <2>3, FormPut
    <2>. QED  BY <1>0, <1>3, <2>4, EditingTypeIs DEF EntriesTyped, SubmissionsTyped, Editing!Change
  <1>4. CASE Editing!Confirm(m)
    <2>1. PICK c : editForm' = [editForm EXCEPT ![m] = [editForm[m] EXCEPT !.confirmed = c]]
      <3>1. IsForm(m, editForm[m])
        BY <1>0, <1>4 DEF Editing!Confirm, FormsTyped
      <3>. QED  BY <1>4, <3>1 DEF Editing!Confirm, IsForm, FormsTyped
    <2>2. IsForm(m, editForm[m])
      BY <1>0, <1>4 DEF Editing!Confirm, FormsTyped
    <2>3. IsForm(m, [editForm[m] EXCEPT !.confirmed = c])
      BY <2>2 DEF IsForm
    <2>4. FormsTyped'
      BY <1>0, <2>1, <2>3, FormPut
    <2>. QED  BY <1>0, <1>4, <2>4, EditingTypeIs DEF EntriesTyped, SubmissionsTyped, Editing!Confirm
  <1>5. CASE Editing!CloseForm(m)
    <2>1. FormsTyped'
      BY <1>0, <1>5, FormPut DEF Editing!CloseForm
    <2>. QED  BY <1>0, <1>5, <2>1, EditingTypeIs DEF EntriesTyped, SubmissionsTyped, Editing!CloseForm
  <1>6. CASE Editing!Submit(m)
    <2>. DEFINE r == [by |-> m, key |-> editForm[m].key, id |-> editForm[m].id, input |-> editForm[m].draft,
                      ack |-> editForm[m].confirmed, existing |-> Nothing,
                      step |-> IF editForm[m].draft.status = "planned" THEN "asked" ELSE "sent"]
    <2>1. PICK q \in Submissions : submission' = [submission EXCEPT ![q] = r]
      BY <1>6 DEF Editing!Submit
    <2>2. IsForm(m, editForm[m])
      BY <1>0, <1>6 DEF Editing!Submit, FormsTyped
    <2>3. IsSubmission(r)
      BY <2>2 DEF IsSubmission, IsForm
    <2>. HIDE DEF r
    <2>4. SubmissionsTyped'
      BY <1>0, <2>1, <2>3, SubmissionPut
    <2>. QED  BY <1>0, <1>6, <2>4, EditingTypeIs DEF EntriesTyped, FormsTyped, Editing!Submit
  <1>7. CASE Editing!Delete(m)
    <2>1. PICK i \in EditedEntries :
            /\ otherWrites < OtherWrites /\ otherWrites' = otherWrites + 1 /\ Editing!Live(i)
            /\ edited' = [edited EXCEPT ![i] = [edited[i] EXCEPT !.deleted = TRUE]]
            /\ UNCHANGED <<editForm, submission, forms>>
      BY <1>7 DEF Editing!Delete
    <2>2. edited[i] \in Editing!Rows
      BY <1>0, <2>1 DEF EntriesTyped, Editing!Live
    <2>3. [edited[i] EXCEPT !.deleted = TRUE] \in Editing!Rows
      BY <2>2 DEF Editing!Rows
    <2>4. EntriesTyped'
      BY <1>0, <2>1, <2>3, EditingConstants DEF EntriesTyped, Editing!BoundAssumption
    <2>. QED  BY <1>0, <2>1, <2>4, EditingTypeIs DEF FormsTyped, SubmissionsTyped
  <1>. QED  BY <1>1, <1>2, <1>3, <1>4, <1>5, <1>6, <1>7 DEF Editing!FormGoesOn

\* What a scheduler's schedule is completed to, for an entry that was read.
LEMMA CompletedIs ==
  ASSUME NEW r, IsSubmission(r)
  PROVE  LET d == Editing!Completed(r) IN
           /\ d \in Editing!Fields
           /\ d.status = r.input.status /\ d.from = r.input.from /\ d.to = r.input.to
           /\ d.kids = r.input.kids /\ d.actual = r.input.actual
  <1>1. r.input \in Editing!Fields
    BY DraftsAre DEF IsSubmission, Editing!FormFields
  <1>2. CASE r.by \in Schedulers /\ r.existing # Nothing
    <2>. DEFINE t == r.existing.trips
    <2>1. t \in SUBSET Trips
      BY <1>2 DEF IsSubmission, Editing!Rows
    <2>2. Editing!Completed(r) = [r.input EXCEPT !.trips = t]
      BY <1>2 DEF Editing!Completed
    <2>. HIDE DEF t
    <2>. QED  BY <1>1, <2>1, <2>2 DEF Editing!Fields
  <1>3. CASE ~(r.by \in Schedulers /\ r.existing # Nothing)
    <2>1. Editing!Completed(r) = r.input
      BY <1>3 DEF Editing!Completed
    <2>. QED  BY <1>1, <2>1
  <1>. QED  BY <1>2, <1>3

\* Types are kept when the server stores an entry.
LEMMA StoredTypes ==
  ASSUME Editing!TypeOK, NEW q \in Submissions, submission[q] # Nothing, NEW i, Editing!Stored(q, i)
  PROVE  Editing!TypeOK'
  <1>. DEFINE r == submission[q]
              new == Editing!Row(Editing!Completed(r), FALSE)
  <1>1. EntriesTyped /\ FormsTyped /\ SubmissionsTyped /\ IsSubmission(r)
    BY EditingTypeIs DEF SubmissionsTyped
  <1>2. new \in Editing!Rows
    BY <1>1, CompletedIs, DraftsAre
  <1>3. edited' = [edited EXCEPT ![i] = new] /\ UNCHANGED <<forms, otherWrites>>
    BY DEF Editing!Stored
  <1>4. EntriesTyped'
    <2>. HIDE DEF new
    <2>. QED  BY <1>1, <1>2, <1>3 DEF EntriesTyped
  <1>5. FormsTyped'
    <2>1. r.by \in Editors
      BY <1>1 DEF IsSubmission
    <2>. QED  BY <1>1, <2>1, FormPut DEF Editing!Stored, FormsTyped
  <1>6. SubmissionsTyped'
    BY <1>1, SubmissionPut DEF Editing!Stored, Editing!Ends
  <1>. QED  BY <1>4, <1>5, <1>6, EditingTypeIs

\* Types are kept by every step of a submission.
LEMMA RequestGoesOnTypes ==
  ASSUME Editing!TypeOK, NEW q \in Submissions, Editing!RequestGoesOn(q)
  PROVE  Editing!TypeOK'
  <1>. DEFINE r == submission[q]
  <1>1. EntriesTyped /\ FormsTyped /\ SubmissionsTyped
    BY EditingTypeIs
  <1>2. r # Nothing
    BY DEF Editing!RequestGoesOn, Editing!ConflictsPreviewed, Editing!PreviewFails, Editing!ReadEntry,
           Editing!Create, Editing!Update, Editing!Refused
  <1>3. IsSubmission(r) /\ r.by \in Editors
    BY <1>1, <1>2 DEF SubmissionsTyped, IsSubmission
  <1>4. ASSUME Editing!Ends(q), UNCHANGED <<edited, editForm, forms, otherWrites>>
        PROVE  Editing!TypeOK'
    <2>1. SubmissionsTyped'
      BY <1>1, <1>4, SubmissionPut DEF Editing!Ends
    <2>. QED  BY <1>1, <1>4, <2>1, EditingTypeIs DEF EntriesTyped, FormsTyped
  <1>5. CASE Editing!ConflictsPreviewed(q)
    <2>1. FormsTyped'
      <3>1. PICK print : \/ editForm' = editForm
                        \/ /\ editForm[r.by] # Nothing
                           /\ \/ editForm' = [editForm EXCEPT ![r.by].preview = print, ![r.by].confirmed = Nothing]
                              \/ editForm' = [editForm EXCEPT ![r.by].preview = Nothing]
        BY <1>5 DEF Editing!ConflictsPreviewed, Editing!IsOpen
      <3>. HIDE DEF r
      <3>. QED  BY <1>1, <1>3, <3>1 DEF FormsTyped, IsForm
    <2>2. SubmissionsTyped'
      <3>1. CASE Editing!Ends(q)
        BY <1>1, <3>1, SubmissionPut DEF Editing!Ends
      <3>2. CASE submission' = [submission EXCEPT ![q].step = "sent"]
        <4>1. IsSubmission([r EXCEPT !.step = "sent"])
          BY <1>3 DEF IsSubmission
        <4>. QED  BY <1>1, <3>2, <4>1, SubmissionPut
      <3>. QED  BY <1>5, <3>1, <3>2 DEF Editing!ConflictsPreviewed
    <2>3. EntriesTyped'
      BY <1>1, <1>5 DEF EntriesTyped, Editing!ConflictsPreviewed
    <2>. QED  BY <2>1, <2>2, <2>3, EditingTypeIs
  <1>6. CASE Editing!PreviewFails(q)
    BY <1>4, <1>6 DEF Editing!PreviewFails
  <1>7. CASE Editing!ReadEntry(q)
    <2>1. CASE Editing!Ends(q)
      BY <1>4, <1>7, <2>1 DEF Editing!ReadEntry
    <2>2. CASE ~Editing!Ends(q)
      <3>1. /\ Editing!Live(r.id)
            /\ submission' = [submission EXCEPT ![q].step = "read", ![q].existing = edited[r.id]]
            /\ UNCHANGED <<edited, editForm, forms, otherWrites>> /\ r.id # Nothing
        BY <1>7, <2>2 DEF Editing!ReadEntry
      <3>2. edited[r.id] \in Editing!Rows
        BY <1>1, <1>3, <3>1 DEF IsSubmission, EntriesTyped, Editing!Live
      <3>. DEFINE old == edited[r.id]
                  new == [r EXCEPT !.step = "read", !.existing = old]
      <3>3. submission' = [submission EXCEPT ![q] = new]
        BY <1>1, <3>1 DEF SubmissionsTyped
      <3>. HIDE DEF old
      <3>4. IsSubmission(new)
        BY <1>3, <3>2 DEF IsSubmission, old
      <3>. HIDE DEF new
      <3>5. SubmissionsTyped'
        BY <1>1, <3>3, <3>4, SubmissionPut
      <3>. QED  BY <1>1, <3>1, <3>5, EditingTypeIs DEF EntriesTyped, FormsTyped
    <2>. QED  BY <2>1, <2>2
  <1>8. CASE Editing!Create(q) \/ Editing!Update(q)
    BY <1>2, <1>8, StoredTypes DEF Editing!Create, Editing!Update
  <1>9. CASE Editing!Refused(q)
    BY <1>4, <1>9 DEF Editing!Refused
  <1>. QED  BY <1>5, <1>6, <1>7, <1>8, <1>9 DEF Editing!RequestGoesOn

\* Types are kept by the writes of rules and confirmations.
LEMMA OtherWriteTypes ==
  ASSUME Editing!TypeOK, Editing!OtherWrite
  PROVE  Editing!TypeOK'
  <1>1. EntriesTyped /\ FormsTyped /\ SubmissionsTyped
    BY EditingTypeIs
  <1>2. PICK i \in EditedEntries, d \in SavedDrafts :
          /\ otherWrites < OtherWrites /\ otherWrites' = otherWrites + 1
          /\ edited' = [edited EXCEPT ![i] = Editing!Row(d, FALSE)]
          /\ UNCHANGED <<editForm, submission, forms>>
    BY DEF Editing!OtherWrite
  <1>3. Editing!Row(d, FALSE) \in Editing!Rows
    BY DraftsAre
  <1>4. edited' \in [EditedEntries -> Editing!Rows \cup {Nothing}]
    BY <1>1, <1>2, <1>3 DEF EntriesTyped
  <1>5. otherWrites' \in 0..OtherWrites /\ forms' \in 0..MaxForms
    BY <1>1, <1>2, EditingConstants DEF EntriesTyped, Editing!BoundAssumption
  <1>. QED  BY <1>1, <1>2, <1>4, <1>5, EditingTypeIs DEF EntriesTyped, FormsTyped, SubmissionsTyped

\* Every variable of entries and their forms has its type.
THEOREM EditingTypes == Spec => []Editing!TypeOK
  <1>1. Editing!Init => Editing!TypeOK
    <2>. SUFFICES ASSUME Editing!Init PROVE Editing!TypeOK
      OBVIOUS
    <2>1. edited \in [EditedEntries -> Editing!Rows \cup {Nothing}]
      <3>1. {Editing!Row(d, FALSE) : d \in SavedDrafts} \subseteq Editing!Rows
        BY DraftsAre
      <3>. QED  BY <3>1 DEF Editing!Init
    <2>2. forms \in 0..MaxForms /\ otherWrites \in 0..OtherWrites
      BY EditingConstants DEF Editing!Init, Editing!BoundAssumption
    <2>3. FormsTyped /\ SubmissionsTyped
      BY DEF Editing!Init, FormsTyped, SubmissionsTyped
    <2>. QED  BY <2>1, <2>2, <2>3, EditingTypeIs DEF EntriesTyped
  <1>2. Editing!TypeOK /\ [Editing!Next]_(Editing!vars) => Editing!TypeOK'
    <2>. SUFFICES ASSUME Editing!TypeOK, [Editing!Next]_(Editing!vars) PROVE Editing!TypeOK'
      OBVIOUS
    <2>1. CASE UNCHANGED Editing!vars
      BY <2>1, EditingTypeIs DEF EntriesTyped, FormsTyped, SubmissionsTyped, Editing!vars
    <2>. QED  BY <2>1, FormGoesOnTypes, RequestGoesOnTypes, OtherWriteTypes DEF Editing!Next
  <1>. QED  BY <1>1, <1>2, EditingIsPart, PTL DEF Editing!Spec

-----------------------------------------------------------------------------
\* The conflicts of an entry depend on its schedule and on what took place.
LEMMA SameConflicts ==
  ASSUME NEW a, NEW b, NEW parties, NEW exclude,
         a.status = b.status, a.from = b.from, a.to = b.to, a.kids = b.kids, a.actual = b.actual
  PROVE  /\ Editing!Preview(a, parties, exclude) = Editing!Preview(b, parties, exclude)
         /\ \A c : Editing!Fingerprint(a, c) = Editing!Fingerprint(b, c)
  <1>1. Editing!Effective(a) = Editing!Effective(b) /\ Editing!IsActual(a) = Editing!IsActual(b)
    BY DEF Editing!Effective, Editing!IsActual
  <1>2. Editing!Normalized(Editing!Candidate, a) = Editing!Normalized(Editing!Candidate, b)
    BY <1>1 DEF Editing!Normalized
  <1>. QED  BY <1>2 DEF Editing!Preview, Editing!Fingerprint

\* A planned entry is stored with the conflicts its member confirmed for these
\* times and children, or without any, although the form may be changed and
\* other entries written meanwhile, and a scheduler's schedule is completed
\* from the stored entry (assertPlannedCareConflictAcknowledged).
THEOREM ConflictsWereConfirmed == Spec => SavedConflictsWereShown
  <1>1. Editing!TypeOK /\ [Editing!Next]_(Editing!vars) =>
          [\A q \in Submissions :
             LET r == submission[q]
             IN  (r # Nothing /\ submission'[q] = Nothing /\ edited' # edited /\ r.input.status = "planned") =>
                   \/ Editing!Preview(r.input, CareParties, r.id) = {}
                   \/ r.ack = Editing!Fingerprint(r.input, Editing!Preview(r.input, CareParties, r.id))]_(Editing!vars)
    <2>. SUFFICES ASSUME Editing!TypeOK, Editing!Next, NEW q \in Submissions,
                         submission[q] # Nothing, submission'[q] = Nothing, edited' # edited
                  PROVE  \/ Editing!Preview(submission[q].input, CareParties, submission[q].id) = {}
                         \/ submission[q].ack = Editing!Fingerprint(submission[q].input,
                               Editing!Preview(submission[q].input, CareParties, submission[q].id))
      BY DEF Editing!vars
    <2>. DEFINE r == submission[q]
    <2>1. SubmissionsTyped /\ IsSubmission(r)
      BY EditingTypeIs DEF SubmissionsTyped
    <2>2. PICK x \in Submissions : Editing!Create(x) \/ Editing!Update(x)
      <3>1. submission' # submission
        OBVIOUS
      <3>2. ~Editing!OtherWrite /\ \A m \in Editors : ~Editing!FormGoesOn(m) \/ edited' = edited
        BY <3>1 DEF Editing!OtherWrite, Editing!FormGoesOn, Editing!OpenNew, Editing!OpenEntry, Editing!Opened,
                    Editing!Change, Editing!Confirm, Editing!CloseForm, Editing!Submit, Editing!Delete
      <3>3. PICK x \in Submissions : Editing!RequestGoesOn(x)
        BY <3>2 DEF Editing!Next
      <3>. QED  BY <3>3 DEF Editing!RequestGoesOn, Editing!ConflictsPreviewed, Editing!PreviewFails,
                            Editing!ReadEntry, Editing!Refused
    <2>3. PICK i : Editing!Stored(x, i)
      BY <2>2 DEF Editing!Create, Editing!Update
    <2>4. x = q
      BY <2>1, <2>3 DEF Editing!Stored, Editing!Ends, SubmissionsTyped
    <2>5. Editing!Acknowledged(Editing!Completed(r), r.ack, r.id)
      BY <2>3, <2>4 DEF Editing!Stored, Editing!Accepted
    <2>. DEFINE d == Editing!Completed(r)
    <2>6. /\ Editing!Preview(d, CareParties, r.id) = Editing!Preview(r.input, CareParties, r.id)
          /\ \A c : Editing!Fingerprint(d, c) = Editing!Fingerprint(r.input, c)
      BY <2>1, CompletedIs, SameConflicts
    <2>. QED  BY <2>5, <2>6 DEF Editing!Acknowledged
  <1>. QED  BY <1>1, EditingTypes, EditingIsPart, PTL
            DEF Editing!Spec, SavedConflictsWereShown, Editing!SavedConflictsWereShown

-----------------------------------------------------------------------------
(* Conflicts of entries: none is left out.                                *)

\* The time of an entry does not end before it begins, and what took place of a
\* partial one is known.
Proper(r) ==
  /\ r.from < r.to
  /\ r.status = "partial" => r.actual # Nothing /\ r.actual.from < r.actual.to

AllProper ==
  /\ \A i \in EditedEntries : edited[i] # Nothing => Proper(edited[i])
  /\ \A m \in Editors : editForm[m] # Nothing => Proper(editForm[m].draft)
  /\ \A q \in Submissions : submission[q] # Nothing => Proper(submission[q].input)

\* What can be entered is proper, and what a form makes of it stays so.
LEMMA DraftsAreProper ==
  /\ \A d \in SavedDrafts : Proper(d)
  /\ \A m \in Editors : \A d \in Editing!Enterable(m) : Proper(d)
  /\ \A r \in Editing!Rows, m \in Editors : Proper(r) => Proper(Editing!InForm(m, Editing!Draft(r)))
  /\ \A d, x : Proper(d) => Proper(Editing!Row(d, x))
  <1>1. \A d \in SavedDrafts : Proper(d) /\ d \in Editing!Fields
    BY EditingConstants DEF Editing!DraftAssumption, Proper
  <1>2. \A d \in Editing!Fields, m \in Editors : Proper(d) => Proper(Editing!InForm(m, d))
    <2>. SUFFICES ASSUME NEW d \in Editing!Fields, Proper(d), NEW m \in Editors PROVE Proper(Editing!InForm(m, d))
      OBVIOUS
    <2>1. Proper(Editing!Schedule(d))
      BY DEF Editing!Schedule, Editing!Fields, Proper
    <2>. QED  BY <2>1 DEF Editing!InForm
  <1>3. \A r \in Editing!Rows : Proper(r) => Proper(Editing!Draft(r)) /\ Editing!Draft(r) \in Editing!Fields
    BY DraftsAre DEF Editing!Draft, Proper
  <1>4. \A d, x : Proper(d) => Proper(Editing!Row(d, x))
    BY DEF Editing!Row, Proper
  <1>5. \A m \in Editors : \A d \in Editing!Enterable(m) : Proper(d)
    BY <1>1, <1>2 DEF Editing!Enterable
  <1>. QED  BY <1>1, <1>2, <1>3, <1>4, <1>5

\* Members do not make an entry improper in their forms,
LEMMA ProperFormStep ==
  ASSUME AllProper, Editing!TypeOK, NEW m \in Editors, Editing!FormGoesOn(m)
  PROVE  AllProper'
  <1>0. EntriesTyped /\ FormsTyped /\ SubmissionsTyped
    BY EditingTypeIs
  <1>1. ASSUME NEW d, Proper(d), NEW i, Editing!Opened(m, i, d)
        PROVE  AllProper'
    BY <1>0, <1>1 DEF Editing!Opened, AllProper, FormsTyped
  <1>2. CASE Editing!OpenNew(m)
    BY <1>1, <1>2, DraftsAreProper DEF Editing!OpenNew
  <1>3. CASE Editing!OpenEntry(m)
    <2>1. PICK i \in EditedEntries :
            Editing!Live(i) /\ Editing!Opened(m, i, Editing!InForm(m, Editing!Draft(edited[i])))
      BY <1>3 DEF Editing!OpenEntry
    <2>2. edited[i] \in Editing!Rows /\ Proper(edited[i])
      BY <1>0, <2>1 DEF EntriesTyped, Editing!Live, AllProper
    <2>. QED  BY <1>1, <2>1, <2>2, DraftsAreProper
  <1>4. CASE Editing!Change(m)
    <2>1. PICK d \in Editing!Enterable(m) : editForm' = [editForm EXCEPT ![m] = [editForm[m] EXCEPT !.draft = d]]
      BY <1>4 DEF Editing!Change
    <2>2. DOMAIN editForm[m] = {"key", "id", "draft", "preview", "confirmed"}
      BY <1>0, <1>4 DEF Editing!Change, FormsTyped, IsForm
    <2>3. Proper(d)
      BY DraftsAreProper
    <2>4. [editForm[m] EXCEPT !.draft = d].draft = d
      BY <2>2
    <2>5. \A x \in Editors : editForm'[x] # Nothing => Proper(editForm'[x].draft)
      BY <1>0, <2>1, <2>3, <2>4 DEF AllProper, FormsTyped
    <2>. QED  BY <1>4, <2>5 DEF Editing!Change, AllProper
  <1>5. CASE Editing!Confirm(m)
    <2>1. PICK c : editForm' = [editForm EXCEPT ![m] = [editForm[m] EXCEPT !.confirmed = c]]
      <3>1. IsForm(m, editForm[m])
        BY <1>0, <1>5 DEF Editing!Confirm, FormsTyped
      <3>. QED  BY <1>5, <3>1 DEF Editing!Confirm, IsForm, FormsTyped
    <2>2. [editForm[m] EXCEPT !.confirmed = c].draft = editForm[m].draft
      BY <1>0, <1>5 DEF Editing!Confirm, FormsTyped, IsForm
    <2>3. \A x \in Editors : editForm'[x] # Nothing => Proper(editForm'[x].draft)
      BY <1>0, <1>5, <2>1, <2>2 DEF AllProper, FormsTyped, Editing!Confirm
    <2>. QED  BY <1>5, <2>3 DEF Editing!Confirm, AllProper
  <1>6. CASE Editing!CloseForm(m)
    BY <1>0, <1>6 DEF Editing!CloseForm, AllProper, FormsTyped
  <1>7. CASE Editing!Submit(m)
    <2>. DEFINE r == [by |-> m, key |-> editForm[m].key, id |-> editForm[m].id, input |-> editForm[m].draft,
                      ack |-> editForm[m].confirmed, existing |-> Nothing,
                      step |-> IF editForm[m].draft.status = "planned" THEN "asked" ELSE "sent"]
    <2>1. PICK q \in Submissions : submission' = [submission EXCEPT ![q] = r]
      BY <1>7 DEF Editing!Submit
    <2>2. Proper(r.input)
      BY <1>7 DEF Editing!Submit, AllProper
    <2>. HIDE DEF r
    <2>3. \A x \in Submissions : submission'[x] # Nothing => Proper(submission'[x].input)
      BY <1>0, <2>1, <2>2 DEF AllProper, SubmissionsTyped
    <2>. QED  BY <1>7, <2>3 DEF Editing!Submit, AllProper
  <1>8. CASE Editing!Delete(m)
    <2>1. PICK i \in EditedEntries :
            /\ Editing!Live(i)
            /\ edited' = [edited EXCEPT ![i] = [edited[i] EXCEPT !.deleted = TRUE]]
            /\ UNCHANGED <<editForm, submission, forms>>
      BY <1>8 DEF Editing!Delete
    <2>2. edited[i] \in Editing!Rows /\ Proper(edited[i])
      BY <1>0, <2>1 DEF EntriesTyped, Editing!Live, AllProper
    <2>3. Proper([edited[i] EXCEPT !.deleted = TRUE])
      BY <2>2 DEF Editing!Rows, Proper
    <2>. QED  BY <1>0, <2>1, <2>3 DEF AllProper, EntriesTyped
  <1>. QED  BY <1>2, <1>3, <1>4, <1>5, <1>6, <1>7, <1>8 DEF Editing!FormGoesOn

\* and requests do not store an improper one.
LEMMA ProperRequestStep ==
  ASSUME AllProper, Editing!TypeOK, NEW q \in Submissions, Editing!RequestGoesOn(q)
  PROVE  AllProper'
  <1>. DEFINE r == submission[q]
  <1>1. EntriesTyped /\ FormsTyped /\ SubmissionsTyped
    BY EditingTypeIs
  <1>2. r # Nothing
    BY DEF Editing!RequestGoesOn, Editing!ConflictsPreviewed, Editing!PreviewFails, Editing!ReadEntry,
           Editing!Create, Editing!Update, Editing!Refused
  <1>3. IsSubmission(r) /\ r.by \in Editors /\ Proper(r.input)
    BY <1>1, <1>2 DEF SubmissionsTyped, IsSubmission, AllProper
  <1>4. ASSUME NEW x, submission' = [submission EXCEPT ![q] = x], x # Nothing => x.input = r.input
        PROVE  \A y \in Submissions : submission'[y] # Nothing => Proper(submission'[y].input)
    BY <1>1, <1>3, <1>4 DEF SubmissionsTyped, AllProper
  <1>5. Editing!Ends(q) => \A y \in Submissions : submission'[y] # Nothing => Proper(submission'[y].input)
    BY <1>4 DEF Editing!Ends
  <1>6. CASE Editing!ConflictsPreviewed(q)
    <2>1. \A m \in Editors : editForm'[m] # Nothing => Proper(editForm'[m].draft)
      <3>1. PICK print : \/ editForm' = editForm
                        \/ /\ editForm[r.by] # Nothing
                           /\ \/ editForm' = [editForm EXCEPT ![r.by].preview = print, ![r.by].confirmed = Nothing]
                              \/ editForm' = [editForm EXCEPT ![r.by].preview = Nothing]
        BY <1>6 DEF Editing!ConflictsPreviewed, Editing!IsOpen
      <3>2. editForm[r.by] # Nothing => DOMAIN editForm[r.by] = {"key", "id", "draft", "preview", "confirmed"}
        BY <1>1, <1>3 DEF FormsTyped, IsForm
      <3>. HIDE DEF r
      <3>3. \A m \in Editors : editForm'[m] # Nothing => editForm[m] # Nothing /\ editForm'[m].draft = editForm[m].draft
        BY <1>1, <1>3, <3>1, <3>2 DEF FormsTyped
      <3>. QED  BY <3>3 DEF AllProper
    <2>2. \A y \in Submissions : submission'[y] # Nothing => Proper(submission'[y].input)
      <3>1. CASE submission' = [submission EXCEPT ![q].step = "sent"]
        <4>1. [r EXCEPT !.step = "sent"].input = r.input
          BY <1>3 DEF IsSubmission
        <4>. QED  BY <1>4, <3>1, <4>1
      <3>. QED  BY <1>5, <1>6, <3>1 DEF Editing!ConflictsPreviewed
    <2>. QED  BY <1>6, <2>1, <2>2 DEF AllProper, Editing!ConflictsPreviewed
  <1>7. CASE Editing!PreviewFails(q) \/ Editing!Refused(q)
    BY <1>5, <1>7 DEF Editing!PreviewFails, Editing!Refused, AllProper
  <1>8. CASE Editing!ReadEntry(q)
    <2>1. CASE ~Editing!Ends(q)
      <3>1. submission' = [submission EXCEPT ![q] = [r EXCEPT !.step = "read", !.existing = edited[r.id]]]
        BY <1>1, <1>8, <2>1 DEF Editing!ReadEntry, SubmissionsTyped
      <3>2. [r EXCEPT !.step = "read", !.existing = edited[r.id]].input = r.input
        BY <1>3 DEF IsSubmission
      <3>. QED  BY <1>4, <1>8, <3>1, <3>2 DEF AllProper, Editing!ReadEntry
    <2>. QED  BY <1>5, <1>8, <2>1 DEF AllProper, Editing!ReadEntry
  <1>9. CASE Editing!Create(q) \/ Editing!Update(q)
    <2>1. PICK i : Editing!Stored(q, i)
      BY <1>9 DEF Editing!Create, Editing!Update
    <2>. DEFINE new == Editing!Row(Editing!Completed(r), FALSE)
    <2>2. Proper(new)
      BY <1>3, CompletedIs, DraftsAreProper DEF Proper
    <2>3. edited' = [edited EXCEPT ![i] = new]
      BY <2>1 DEF Editing!Stored
    <2>4. \A x \in EditedEntries : edited'[x] # Nothing => Proper(edited'[x])
      <3>. HIDE DEF new
      <3>. QED  BY <1>1, <2>2, <2>3 DEF AllProper, EntriesTyped
    <2>5. \A m \in Editors : editForm'[m] # Nothing => Proper(editForm'[m].draft)
      BY <1>1, <1>3, <2>1 DEF Editing!Stored, AllProper, FormsTyped
    <2>6. \A y \in Submissions : submission'[y] # Nothing => Proper(submission'[y].input)
      BY <1>5, <2>1 DEF Editing!Stored
    <2>. QED  BY <2>4, <2>5, <2>6 DEF AllProper
  <1>. QED  BY <1>6, <1>7, <1>8, <1>9 DEF Editing!RequestGoesOn

\* No entry, stored or about to be, ends before it begins.
THEOREM EntriesAreProper == Spec => []AllProper
  <1>1. Editing!Init => AllProper
    <2>. SUFFICES ASSUME Editing!Init PROVE AllProper
      OBVIOUS
    <2>1. edited \in [EditedEntries -> {Nothing} \cup {Editing!Row(d, FALSE) : d \in SavedDrafts}]
      BY DEF Editing!Init
    <2>2. \A d \in SavedDrafts : Proper(Editing!Row(d, FALSE))
      BY DraftsAreProper
    <2>3. \A i \in EditedEntries : edited[i] # Nothing => Proper(edited[i])
      <3>. TAKE i \in EditedEntries
      <3>1. edited[i] \in {Nothing} \cup {Editing!Row(d, FALSE) : d \in SavedDrafts}
        BY <2>1
      <3>. QED  BY <3>1, <2>2
    <2>4. /\ \A m \in Editors : editForm[m] = Nothing
          /\ \A q \in Submissions : submission[q] = Nothing
      BY DEF Editing!Init
    <2>. QED  BY <2>3, <2>4 DEF AllProper
  <1>2. AllProper /\ Editing!TypeOK /\ [Editing!Next]_(Editing!vars) => AllProper'
    <2>. SUFFICES ASSUME AllProper, Editing!TypeOK, [Editing!Next]_(Editing!vars) PROVE AllProper'
      OBVIOUS
    <2>1. CASE UNCHANGED Editing!vars
      BY <2>1 DEF AllProper, Editing!vars
    <2>2. CASE Editing!OtherWrite
      <3>1. PICK i \in EditedEntries, d \in SavedDrafts :
              edited' = [edited EXCEPT ![i] = Editing!Row(d, FALSE)] /\ UNCHANGED <<editForm, submission, forms>>
        BY <2>2 DEF Editing!OtherWrite
      <3>2. Proper(Editing!Row(d, FALSE)) /\ EntriesTyped
        BY DraftsAreProper, EditingTypeIs
      <3>. QED  BY <3>1, <3>2 DEF AllProper, EntriesTyped
    <2>. QED  BY <2>1, <2>2, ProperFormStep, ProperRequestStep DEF Editing!Next
  <1>. QED  BY <1>1, <1>2, EditingTypes, EditingIsPart, PTL DEF Editing!Spec

Counted == {j \in EditedEntries : Editing!Live(j) /\ Editing!Taken(edited[j])}

AllItems == {Editing!Normalized(i, edited[i]) : i \in Counted}

\* A proper entry, as the detection of conflicts sees it.
LEMMA NormalizedIs ==
  ASSUME NEW i \in Nat, NEW r \in Editing!Rows \cup Editing!Fields, Proper(r)
  PROVE  LET n == Editing!Normalized(i, r)
             e == Editing!Effective(r)
         IN  /\ n \in Items /\ n.from < n.to
             /\ n.id = i /\ n.from = e.from /\ n.to = e.to /\ n.kids = e.kids
  <1>. DEFINE e == Editing!Effective(r)
  <1>1. e.from \in Nat /\ e.to \in Nat /\ e.kids \subseteq Children /\ e.from < e.to
    <2>1. CASE r.status = "partial"
      <3>1. e = r.actual
        BY <2>1 DEF Editing!Effective
      <3>2. r.actual \in Editing!Actual /\ r.actual.from < r.actual.to
        BY <2>1 DEF Proper, Editing!Rows, Editing!Fields
      <3>. HIDE DEF e
      <3>. QED  BY <3>1, <3>2 DEF Editing!Actual
    <2>2. CASE r.status # "partial"
      BY <2>2 DEF Editing!Effective, Proper, Editing!Rows, Editing!Fields
    <2>. QED  BY <2>1, <2>2
  <1>2. Editing!Normalized(i, r) = [id |-> i, from |-> e.from, to |-> e.to, kids |-> e.kids, actual |-> Editing!IsActual(r)]
    BY DEF Editing!Normalized
  <1>3. Editing!IsActual(r) \in BOOLEAN
    BY DEF Editing!IsActual
  <1>. HIDE DEF e
  <1>4. Editing!Normalized(i, r) \in Items
    BY <1>1, <1>2, <1>3 DEF Items
  <1>. QED  BY <1>1, <1>2, <1>4 DEF e

\* The stored entries that count, each once.
LEMMA AllItemsAre ==
  ASSUME AllProper, Editing!TypeOK
  PROVE  /\ AreItems(AllItems)
         /\ \A i \in Counted : Editing!Normalized(i, edited[i]).id = i /\ i \in Nat /\ i # 0
  <1>1. \A i \in Counted : /\ i \in Nat /\ i # 0 /\ i \in EditedEntries
                           /\ edited[i] \in Editing!Rows /\ Proper(edited[i])
    BY EditingTypeIs, EditingConstants
       DEF Counted, Editing!Live, EntriesTyped, AllProper, Editing!EntryAssumption, Editing!Candidate
  <1>2. \A i \in Counted : LET n == Editing!Normalized(i, edited[i]) IN n \in Items /\ n.from < n.to /\ n.id = i
    BY <1>1, NormalizedIs
  <1>3. IsFiniteSet(Counted)
    <2>1. IsFiniteSet(EditedEntries)
      BY EditingConstants DEF Editing!EntryAssumption, Editing!IsFiniteSet, IsFiniteSet
    <2>. QED  BY <2>1, FS_Subset DEF Counted
  <1>4. IsFiniteSet(AllItems)
    <2>. DEFINE f == [i \in Counted |-> Editing!Normalized(i, edited[i])]
    <2>1. f \in Surjection(Counted, AllItems)
      BY DEF Surjection, AllItems
    <2>. HIDE DEF f
    <2>. QED  BY <1>3, <2>1, FS_Surjection
  <1>5. \A a, b \in AllItems : a.id = b.id => a = b
    <2>. SUFFICES ASSUME NEW a \in AllItems, NEW b \in AllItems, a.id = b.id PROVE a = b
      OBVIOUS
    <2>1. PICK i \in Counted, j \in Counted :
            a = Editing!Normalized(i, edited[i]) /\ b = Editing!Normalized(j, edited[j])
      BY DEF AllItems
    <2>2. i = j
      BY <1>2, <2>1
    <2>. QED  BY <2>1, <2>2
  <1>6. AllItems \subseteq Items /\ \A a \in AllItems : a.from < a.to
    BY <1>2 DEF AllItems
  <1>. QED  BY <1>1, <1>2, <1>4, <1>5, <1>6 DEF AreItems

\* The rows a preview selects are the ones that could conflict with its entry.
LEMMA ListedIs ==
  ASSUME AllProper, Editing!TypeOK, NEW kids, NEW from, NEW to
  PROVE  Editing!Listed(CareParties, kids, from, to, Nothing)
           = {n \in AllItems : n.kids \cap kids # {} /\ n.from < to /\ n.to > from}
  <1>1. \A i \in Counted : /\ i \in Nat /\ edited[i] \in Editing!Rows /\ Proper(edited[i])
                           /\ edited[i].party \in CareParties /\ i # Nothing
    BY EditingTypeIs, EditingConstants
       DEF Counted, Editing!Live, EntriesTyped, AllProper, Editing!EntryAssumption, Editing!Rows
  <1>2. \A i \in Counted : LET n == Editing!Normalized(i, edited[i])
                               e == Editing!Effective(edited[i])
                           IN  n.from = e.from /\ n.to = e.to /\ n.kids = e.kids
    BY <1>1, NormalizedIs
  <1>. DEFINE L == {j \in EditedEntries \ {Nothing} :
                      /\ Editing!Live(j) /\ Editing!Taken(edited[j])
                      /\ edited[j].party \in CareParties
                      /\ Editing!Effective(edited[j]).kids \cap kids # {}
                      /\ Editing!Effective(edited[j]).from < to /\ Editing!Effective(edited[j]).to > from}
              K == {i \in Counted : LET n == Editing!Normalized(i, edited[i])
                                    IN  n.kids \cap kids # {} /\ n.from < to /\ n.to > from}
  <1>3. L = K
    <2>1. L \subseteq Counted /\ K \subseteq Counted
      BY DEF Counted
    <2>2. \A i \in Counted : i \in L <=> i \in K
      BY <1>1, <1>2 DEF Counted
    <2>. HIDE DEF L, K
    <2>. QED  BY <2>1, <2>2
  <1>4. Editing!Listed(CareParties, kids, from, to, Nothing) = {Editing!Normalized(i, edited[i]) : i \in L}
    BY DEF Editing!Listed
  <1>. HIDE DEF L
  <1>. QED  BY <1>3, <1>4 DEF AllItems

\* A preview leaves no pair of its entry out.
LEMMA PreviewIs ==
  ASSUME AllProper, Editing!TypeOK, NEW d \in SavedDrafts, d.status = "planned"
  PROVE  Editing!Preview(d, CareParties, Nothing)
           = {c \in PairsOf(AllItems \cup {Editing!Normalized(Editing!Candidate, d)}) :
                Editing!Candidate \in c.o.ids}
  <1>. DEFINE new == Editing!Normalized(Editing!Candidate, d)
              near == {n \in AllItems : n.kids \cap d.kids # {} /\ n.from < d.to /\ n.to > d.from}
              listed_ == Editing!Listed(CareParties, d.kids, d.from, d.to, Nothing)
  <1>1. d \in Editing!Fields /\ Proper(d)
    BY DraftsAre, DraftsAreProper
  <1>2. new \in Items /\ new.from < new.to /\ new.id = 0 /\ new.from = d.from /\ new.to = d.to /\ new.kids = d.kids
    <2>1. Editing!Effective(d).from = d.from /\ Editing!Effective(d).to = d.to /\ Editing!Effective(d).kids = d.kids
      BY DEF Editing!Effective
    <2>2. Editing!Candidate = 0 /\ 0 \in Nat
      BY DEF Editing!Candidate
    <2>. QED  BY <1>1, <2>1, <2>2, NormalizedIs
  <1>3. listed_ = near
    BY ListedIs
  <1>4. AreItems(AllItems) /\ \A n \in AllItems : n.id \in Nat /\ n.id # 0
    <2>1. \A n \in AllItems : n.id \in Nat /\ n.id # 0
      BY AllItemsAre DEF AllItems
    <2>. QED  BY <2>1, AllItemsAre
  <1>. HIDE DEF new, near, listed_
  <1>5. AreItems(near \cup {new})
    <2>1. near \subseteq AllItems
      BY DEF near
    <2>2. IsFiniteSet(near \cup {new})
      BY <1>4, <2>1, FS_Subset, FS_AddElement DEF AreItems
    <2>3. \A a, b \in near \cup {new} : a.id = b.id => a = b
      BY <1>2, <1>4, <2>1 DEF AreItems
    <2>4. near \cup {new} \subseteq Items /\ \A a \in near \cup {new} : a.from < a.to
      BY <1>2, <1>4, <2>1 DEF AreItems
    <2>. QED  BY <2>2, <2>3, <2>4 DEF AreItems
  <1>6. Editing!Preview(d, CareParties, Nothing) = {c \in PairsOf(near \cup {new}) : Editing!Candidate \in c.o.ids}
    BY <1>3, <1>5, ConflictsAre DEF Editing!Preview, new, listed_
  <1>7. \A a, b : Editing!Overlap(a, b).ids = {a.id, b.id}
    BY DEF Editing!Overlap
  <1>8. \A a \in AllItems : a.kids \subseteq Children /\ a.from \in Nat /\ a.to \in Nat
    BY <1>4 DEF AreItems, Items
  <1>9. \A a \in AllItems : Meets(new, a) /\ new.kids \cap a.kids # {} => a \in near
    BY <1>2, <1>8 DEF Meets, near, Items
  <1>10. ASSUME NEW c, c \in PairsOf(AllItems \cup {new}), 0 \in c.o.ids
         PROVE  c \in PairsOf(near \cup {new})
    <2>1. PICK a \in AllItems \cup {new}, b \in AllItems \cup {new} :
            /\ a.id < b.id /\ Meets(a, b) /\ a.kids \cap b.kids # {}
            /\ c = [o |-> Editing!Overlap(a, b), kids |-> a.kids \cap b.kids]
      BY <1>10, PairsAre
    <2>2. c.o = Editing!Overlap(a, b)
      BY <2>1
    <2>3. a.id = 0 \/ b.id = 0
      BY <1>7, <1>10, <2>2
    <2>4. a.id \in Nat /\ b.id \in Nat
      BY <1>2, <1>4
    <2>5. a = new /\ b \in AllItems
      BY <1>2, <1>4, <2>1, <2>3, <2>4
    <2>6. b \in near
      BY <1>9, <2>1, <2>5
    <2>. QED  BY <2>1, <2>5, <2>6, PairsAre
  <1>11. ASSUME NEW c, c \in PairsOf(near \cup {new})
         PROVE  c \in PairsOf(AllItems \cup {new})
    <2>1. near \subseteq AllItems
      BY DEF near
    <2>. QED  BY <1>11, <2>1, PairsAre
  <1>12. Editing!Candidate = 0
    BY DEF Editing!Candidate
  <1>. QED  BY <1>6, <1>10, <1>11, <1>12 DEF new

\* The sweep of the entries finds all pairs that overlap for a common child, and
\* a preview all pairs of its entry, although it looks at the rows its query
\* selects only, for any number of entries and children (detectCareConflicts,
\* listCareConflictEntries).
THEOREM AllConflictsFound == Spec => []ConflictsAreComplete
  <1>1. AllProper /\ Editing!TypeOK => Editing!ConflictsAreComplete
    <2>. SUFFICES ASSUME AllProper, Editing!TypeOK PROVE Editing!ConflictsAreComplete
      OBVIOUS
    <2>1. Editing!Conflicts(AllItems) = PairsOf(AllItems)
      BY AllItemsAre, ConflictsAre
    <2>2. \A d \in SavedDrafts : d.status = "planned" =>
            Editing!Preview(d, CareParties, Nothing)
              = {c \in PairsOf(AllItems \cup {Editing!Normalized(Editing!Candidate, d)}) : Editing!Candidate \in c.o.ids}
      BY PreviewIs
    <2>. QED  BY <2>1, <2>2 DEF Editing!ConflictsAreComplete, AllItems, Counted, PairsOf
  <1>2. AllProper /\ Editing!TypeOK => ConflictsAreComplete
    BY <1>1 DEF ConflictsAreComplete
  <1>. QED  BY <1>2, EntriesAreProper, EditingTypes, EditingIsPart, PTL

=============================================================================
