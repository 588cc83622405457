------------------------------- MODULE ScopedCare -------------------------------
(***************************************************************************)
(* What members whose scope is a set of care parties see and change: one   *)
(* care entry, unavailable period, contact rule or contact pattern, the    *)
(* lists, the schedule and the report that show it, and the routes that    *)
(* write it. A handler looks the record up and writes in a transaction     *)
(* later (src/server/routes, services/domainPersistence.ts,                *)
(* careDataScopes.ts). EntryEditing has the scheduler's role and the       *)
(* conflicts of entries, CareRecords the children.                         *)
(***************************************************************************)
EXTENDS Integers

CONSTANTS
  Parties, Configured,  \* care parties; the one in the settings
  Members, Requests,
  Scopes,     \* what a member may be given
  MaxWrites,  \* bound: changes of the record, the parties and the scopes
  Nothing     \* absent value

Status == {"planned", "completed", "partial"}

Optional == Parties \cup {Nothing}

Rows == [status : Status, party : Optional, actual : Optional]

ScopeAssumption == Scopes \subseteq [all : BOOLEAN, parties : SUBSET Parties]
PartyAssumption == Configured \in Parties /\ Nothing \notin Parties \cup Rows
BoundAssumption == MaxWrites \in Nat

VARIABLES
  kind,     \* of the record: "entry", "period", "rule" or "pattern"
  party,    \* care_parties: "live" or "deleted"
  scope,    \* care_scope_type and assignments of the members
  record,   \* the row; of a pattern, the party of its live rule
  pending,  \* handlers that have looked the record up
  writes    \* changes so far

vars == <<kind, party, scope, record, pending, writes>>

Init ==
  /\ kind \in {"entry", "period", "rule", "pattern"}
  /\ party = [p \in Parties |-> "live"]
  /\ scope \in [Members -> Scopes]
  /\ record = Nothing
  /\ pending = [q \in Requests |-> Nothing]
  /\ writes = 0

-----------------------------------------------------------------------------
(* Who sees and may use what                                               *)

InScope(m, p) == scope[m].all \/ p \in scope[m].parties

\* A record without a party is nobody's but the unrestricted members'.
Usable(m, p) == InScope(m, p) /\ (p # Nothing => party[p] = "live")

\* effectiveCareEntryPartyId; the other kinds have one party.
Effective(row) ==
  IF row.status \in {"completed", "partial"} /\ row.actual # Nothing THEN row.actual ELSE row.party

\* Seeded fault: the queries know of partial entries only.
PartialColumn(row) ==
  IF row.status = "partial" /\ row.actual # Nothing THEN row.actual ELSE row.party

\* The same as an expression of the queries.
EffectiveColumn(row) ==
  IF row.status \in {"completed", "partial"} /\ row.actual # Nothing THEN row.actual ELSE row.party

\* The lists, the schedule, the conflicts and the report.
Listed(m) == record # Nothing /\ InScope(m, EffectiveColumn(record))

\* GET, PUT and DELETE of the one record.
MayOpen(m) == record # Nothing /\ Usable(m, Effective(record))

\* getPersistedDefaultResponsiblePartyId.
DefaultParty ==
  LET live == {p \in Parties : party[p] = "live"} IN
    IF Configured \in live THEN Configured
    ELSE IF live = {} THEN Nothing ELSE CHOOSE p \in live : TRUE

First(a, b) == IF a # Nothing THEN a ELSE b

-----------------------------------------------------------------------------
(* The routes of the record                                                *)

\* What is stored for an input; before is the row that was looked up, or
\* Nothing. Periods take no default, patterns no party at all.
Stored(input, before) ==
  LET was == IF before = Nothing THEN [party |-> Nothing, actual |-> Nothing] ELSE before
      own == CASE kind = "period" -> input.party
               [] kind = "pattern" -> First(IF record = Nothing THEN Nothing ELSE record.party, DefaultParty)
               [] OTHER -> First(First(input.party, was.party), DefaultParty)
      partial == kind = "entry" /\ input.status = "partial"
  IN [status |-> IF kind = "entry" THEN input.status ELSE "planned",
      party |-> own,
      actual |-> IF partial THEN First(First(input.actual, was.actual), own) ELSE Nothing]

PartiesLive(row) == \A p \in {row.party, row.actual} \ {Nothing} : party[p] = "live"

Changes == writes < MaxWrites /\ writes' = writes + 1

\* The parties exist, and the member may use the effective one.
Accepts(m, row) == PartiesLive(row) /\ Usable(m, Effective(row))

Create(m, input) ==
  /\ record = Nothing
  /\ Changes
  /\ Accepts(m, Stored(input, Nothing))
  /\ record' = Stored(input, Nothing)
  /\ UNCHANGED <<kind, party, scope, pending>>

\* Outside the transaction; rules are checked for a deletion only, patterns
\* are not checked here.
CheckedAtLookUp(op) ==
  \/ kind \in {"entry", "period"}
  \/ kind = "rule" /\ op = "delete"

LookUp(q, m, op) ==
  /\ pending[q] = Nothing /\ record # Nothing
  /\ CheckedAtLookUp(op) => MayOpen(m)
  /\ pending' = [pending EXCEPT ![q] = [op |-> op, by |-> m, before |-> record]]
  /\ UNCHANGED <<kind, party, scope, record, writes>>

\* In the transaction the row that was looked up is checked once more, and
\* what replaces it; it is written whatever has become of the row.
Update(q, input) ==
  /\ pending[q] # Nothing /\ pending[q].op = "update"
  /\ LET m == pending[q].by  row == Stored(input, pending[q].before) IN
       /\ kind # "pattern" => Usable(m, Effective(pending[q].before))
       /\ Accepts(m, row)
       /\ record' = row
  /\ Changes
  /\ pending' = [pending EXCEPT ![q] = Nothing]
  /\ UNCHANGED <<kind, party, scope>>

\* Only patterns are checked in the transaction, by the rule they have now.
Delete(q) ==
  /\ pending[q] # Nothing /\ pending[q].op = "delete"
  /\ kind = "pattern" =>
       Usable(pending[q].by, IF record = Nothing THEN Nothing ELSE record.party)
  /\ Changes
  /\ record' = Nothing
  /\ pending' = [pending EXCEPT ![q] = Nothing]
  /\ UNCHANGED <<kind, party, scope>>

\* 403 or 400.
Refuse(q) ==
  /\ pending[q] # Nothing
  /\ pending' = [pending EXCEPT ![q] = Nothing]
  /\ UNCHANGED <<kind, party, scope, record, writes>>

\* The rule of a pattern is deleted by its own route; the pattern stays.
DeleteMirroredRule(m) ==
  /\ kind = "pattern" /\ record # Nothing /\ record.party # Nothing
  /\ Usable(m, record.party)
  /\ Changes
  /\ record' = [record EXCEPT !.party = Nothing]
  /\ UNCHANGED <<kind, party, scope, pending>>

-----------------------------------------------------------------------------
(* Others                                                                  *)

\* An import keeps the actual party of any status.
Import(row) ==
  /\ kind = "entry"
  /\ Changes
  /\ PartiesLive(row)
  /\ record' = row
  /\ UNCHANGED <<kind, party, scope, pending>>

\* assignedUsageCount: the actual party of an entry is not looked at.
DeleteParty(m, p) ==
  /\ Usable(m, p)
  /\ record # Nothing => record.party # p
  /\ Changes
  /\ party' = [party EXCEPT ![p] = "deleted"]
  /\ UNCHANGED <<kind, scope, record, pending>>

\* An owner or administrator changes what the member sees.
SetScope(m, s) ==
  /\ scope[m] # s
  /\ Changes
  /\ scope' = [scope EXCEPT ![m] = s]
  /\ UNCHANGED <<kind, party, record, pending>>

-----------------------------------------------------------------------------
Inputs == [status : Status, party : Optional, actual : Optional]

Next ==
  \/ \E m \in Members, i \in Inputs : Create(m, i)
  \/ \E q \in Requests, m \in Members, op \in {"update", "delete"} : LookUp(q, m, op)
  \/ \E q \in Requests : Delete(q) \/ Refuse(q) \/ \E i \in Inputs : Update(q, i)
  \/ \E m \in Members : DeleteMirroredRule(m) \/ \E p \in Parties : DeleteParty(m, p)
  \/ \E m \in Members, s \in Scopes : SetScope(m, s)
  \/ \E row \in Rows : Import(row)

Spec == Init /\ [][Next]_vars

-----------------------------------------------------------------------------
TypeOK ==
  /\ kind \in {"entry", "period", "rule", "pattern"}
  /\ party \in [Parties -> {"live", "deleted"}]
  /\ scope \in [Members -> Scopes]
  /\ record \in Rows \cup {Nothing}
  /\ pending \in [Requests -> [op : {"update", "delete"}, by : Members, before : Rows] \cup {Nothing}]
  /\ writes \in 0..MaxWrites

\* A member is listed what he may open, and nothing else, whichever way the
\* scope is applied (effectiveCareEntryPartyId and the column of the queries),
\* as long as its party has not been deleted.
ListedIsOpened ==
  record # Nothing /\ PartiesLive(record) => \A m \in Members : Listed(m) <=> MayOpen(m)

\* The same for every record: it does not hold, the actual party of an entry
\* can be deleted and nobody may open the entry any more.
EverythingListedOpens == \A m \in Members : Listed(m) => MayOpen(m)

\* A member who updates a record is listed it afterwards and may open it, under
\* the scope he has by then; and he was listed it before, if the row is the one
\* he looked up (persistEntry and the transactions of the other routes). A
\* pattern whose rule is gone takes the default party, whoever was listed it;
\* it is deleted only by who is listed it.
ChangesStayInScope ==
  [][\A q \in Requests, m \in Members :
       /\ pending[q] # Nothing /\ pending[q].by = m
       /\ pending'[q] = Nothing /\ record' # record
       => /\ pending[q].op = "update" => Listed(m)' /\ MayOpen(m)'
          /\ (IF kind = "pattern" THEN pending[q].op = "delete"
              ELSE pending[q].op = "update" /\ record = pending[q].before) => Listed(m)]_vars

\* A member only replaces or deletes what is in his scope: it does not hold,
\* the row may have moved to another party since it was looked up.
ReplacesOnlyItsScope ==
  [][\A q \in Requests :
       pending[q] # Nothing /\ pending'[q] = Nothing /\ record # Nothing /\ record' # record
         => Listed(pending[q].by)]_vars
=============================================================================
