------------------------------ MODULE CareRecords ------------------------------
(***************************************************************************)
(* The records a family keeps and what they refer to: children and care    *)
(* parties, care entries, holidays, unavailable periods, contact patterns  *)
(* with the rule and the entry they generate, and closed months (the       *)
(* routes of the same names and server/services/domainPersistence.ts).     *)
(*                                                                         *)
(* A handler looks its record or its party up first and then writes in one *)
(* transaction. What it saw outside of the transaction may be out of date  *)
(* when it writes: the lookup and the write are two steps. Nothing is      *)
(* erased: a deleted row keeps its references, and an update of a row      *)
(* clears its deletion.                                                    *)
(***************************************************************************)
EXTENDS Naturals, FiniteSets

CONSTANTS
  Children,   \* ids of children
  Parties,    \* ids of care parties
  Records,    \* ids of care entries, holidays, periods and patterns
  Kind,       \* the kind of each record
  Source,     \* the pattern a generated entry comes from, Nothing otherwise
  Months,     \* month keys, in order
  Requests,   \* handlers that can be between lookup and write
  Nothing     \* absent value

Kinds == {"entry", "holiday", "period", "pattern"}

KindAssumption == Kind \in [Records -> Kinds]
SourceAssumption ==
  /\ Source \in [Records -> Records \cup {Nothing}]
  /\ \A r \in Records : Source[r] # Nothing => Kind[r] = "entry" /\ Kind[Source[r]] = "pattern"
MonthAssumption == Months \subseteq Nat

VARIABLES
  child,    \* children: "absent", "live" or "deleted"
  party,    \* care_parties
  record,   \* rows of the four kinds with their child junctions
  mirror,   \* contact_rules mirrored from a pattern
  closing,  \* monthly_closings: "open", "closed" or "changed"
  pending,  \* what each handler under way saw
  missed    \* history: closed months with a change the closing does not record

vars == <<child, party, record, mirror, closing, pending, missed>>

-----------------------------------------------------------------------------
Patterns == {r \in Records : Kind[r] = "pattern"}

\* linked: the junction has a row, live or deleted. actual: whom a partial entry
\* was about (care_entry_actual_children). edited: manual_override.
Row == [live : BOOLEAN, kids : SUBSET Children, linked : BOOLEAN, actual : SUBSET Children,
        party : Parties \cup {Nothing}, month : Months, edited : BOOLEAN]

Mirror == [live : BOOLEAN, kids : SUBSET Children, party : Parties \cup {Nothing},
           month : Months]

Lookup == [op : {"update", "delete"}, record : Records, party : Parties \cup {Nothing},
           month : Months]
          \cup [op : {"deleteParty"}, party : Parties]

NothingAssumption ==
  /\ Nothing \notin Records /\ Nothing \notin Parties
  /\ Nothing \notin Row /\ Nothing \notin Mirror /\ Nothing \notin Lookup

Live(r) == record[r] # Nothing /\ record[r].live

LiveChildren == {c \in Children : child[c] = "live"}

\* Seeded fault: the children were checked before the transaction.
ChildrenExisted(kids) == \A c \in kids : child[c] # "absent"

\* assertPersistedChildren and assertActiveRuleChildren, in the transaction.
ChildrenExist(kids) == kids \subseteq LiveChildren

\* Every kind but the period needs a child; holidays have no party, and an entry
\* that is not partial, like all other records, no actual children.
Input(r, kids, actual, p) ==
  /\ Kind[r] # "period" => kids # {}
  /\ actual # {} => Kind[r] = "entry"
  /\ IF Kind[r] = "holiday" THEN p = Nothing ELSE p \in Parties

PartyUsable(p) == p = Nothing \/ party[p] = "live"

\* markDomainClosedMonthsChanged for the months between two of them.
Marked(a, b) == {m \in Months : (a <= m /\ m <= b) \/ (b <= m /\ m <= a)}

\* ms are marked as changed; the records of touched have changed.
Close(ms, touched) ==
  /\ closing' = [m \in Months |->
       IF m \in ms /\ closing[m] # "open" THEN "changed" ELSE closing[m]]
  /\ missed' = missed \cup {m \in touched \ ms : closing[m] = "closed"}

Init ==
  /\ child = [c \in Children |-> "absent"]
  /\ party = [p \in Parties |-> "live"]
  /\ record = [r \in Records |-> Nothing]
  /\ mirror = [r \in Patterns |-> Nothing]
  /\ closing = [m \in Months |-> "open"]
  /\ pending = [q \in Requests |-> Nothing]
  /\ missed = {}

-----------------------------------------------------------------------------
(* Children and care parties                                               *)

CreateChild(c) ==
  /\ child[c] = "absent"
  /\ child' = [child EXCEPT ![c] = "live"]
  /\ UNCHANGED <<party, record, mirror, closing, pending, missed>>

\* softDeletePersistedChildRelations: the links go, and with them every record
\* of a junction table that has no live link left, the ones an earlier edit
\* left without children too. Two junctions are not in the list: the one of
\* contact_rules, and the one of the actual children of entries.
Detached(c) ==
  [r \in Records |->
     IF record[r] = Nothing THEN Nothing
     ELSE [record[r] EXCEPT !.kids = @ \ {c},
                            !.live = @ /\ (record[r].linked => record[r].kids \ {c} # {})]]

DeleteChild(c) ==
  /\ child[c] = "live"
  /\ child' = [child EXCEPT ![c] = "deleted"]
  /\ record' = Detached(c)
  /\ Close(Months, {})
  /\ UNCHANGED <<party, mirror, pending>>

\* assignedUsageCount, before the transaction.
PartyUsed(p) ==
  \/ \E r \in Records : Live(r) /\ record[r].party = p
  \/ \E r \in Patterns : mirror[r] # Nothing /\ mirror[r].live /\ mirror[r].party = p

CountPartyUsage(q, p) ==
  /\ pending[q] = Nothing
  /\ party[p] = "live"
  /\ ~PartyUsed(p)
  /\ pending' = [pending EXCEPT ![q] = [op |-> "deleteParty", party |-> p]]
  /\ UNCHANGED <<child, party, record, mirror, closing, missed>>

DeleteParty(q) ==
  /\ pending[q] # Nothing /\ pending[q].op = "deleteParty"
  /\ party' = [party EXCEPT ![pending[q].party] = "deleted"]
  /\ Close(Months, {})
  /\ pending' = [pending EXCEPT ![q] = Nothing]
  /\ UNCHANGED <<child, record, mirror>>

-----------------------------------------------------------------------------
(* Records                                                                 *)

Stored(r, kids, actual, p, m, edited) ==
  [live |-> TRUE, kids |-> kids, actual |-> actual,
   linked |-> kids # {} \/ (record[r] # Nothing /\ record[r].linked),
   party |-> p, month |-> m, edited |-> edited]

\* syncContactRule: the generated entry follows the rule unless it was deleted
\* or edited; it is planned, and has no actual children.
Follows(g) == record[g] = Nothing \/ (record[g].live /\ ~record[g].edited)

Generated(pattern) == {g \in Records : Source[g] = pattern /\ Follows(g)}

Synced(pattern, kids, p, m) ==
  [x \in Records |->
     IF x \in Generated(pattern) THEN Stored(x, kids, {}, p, m, FALSE) ELSE record[x]]

MonthsOf(r) == IF record[r] = Nothing THEN {} ELSE {record[r].month}

\* The months a synchronization changes, of which it marks none.
SyncTouches(pattern, m) ==
  UNION {MonthsOf(g) \cup {m} : g \in {g \in Generated(pattern) : MonthsOf(g) # {m}}}

\* The write of POST and PUT: from is the month the record was seen in.
Write(r, kids, actual, p, m, from) ==
  /\ Input(r, kids, actual, p)
  /\ ChildrenExist(kids) /\ ChildrenExist(actual)
  /\ PartyUsable(p)
  /\ IF Kind[r] = "pattern"
       THEN /\ record' = [Synced(r, kids, p, m) EXCEPT ![r] = Stored(r, kids, {}, p, m, FALSE)]
            /\ mirror' = [mirror EXCEPT ![r] =
                            [live |-> TRUE, kids |-> kids, party |-> p, month |-> m]]
            /\ Close({}, SyncTouches(r, m))
       ELSE /\ record' = [record EXCEPT ![r] = Stored(r, kids, actual, p, m, Source[r] # Nothing)]
            /\ Close(Marked(from, m), {m} \cup MonthsOf(r))
            /\ UNCHANGED mirror
  /\ UNCHANGED <<child, party>>

CreateRecord(r, kids, actual, p, m) ==
  /\ record[r] = Nothing /\ Source[r] = Nothing
  /\ Write(r, kids, actual, p, m, m)
  /\ UNCHANGED pending

\* PUT and DELETE look the record up and keep what they saw.
LookUp(q, r, op) ==
  /\ pending[q] = Nothing
  /\ Live(r)
  /\ pending' = [pending EXCEPT ![q] =
       [op |-> op, record |-> r, party |-> record[r].party, month |-> record[r].month]]
  /\ UNCHANGED <<child, party, record, mirror, closing, missed>>

UpdateRecord(q, kids, actual, p, m) ==
  /\ pending[q] # Nothing /\ pending[q].op = "update"
  /\ PartyUsable(pending[q].party)
  /\ Write(pending[q].record, kids, actual, p, m, pending[q].month)
  /\ pending' = [pending EXCEPT ![q] = Nothing]

\* The record and its links, whatever has become of them since; for a pattern
\* its rule too, whose entries stay.
DeleteRecord(q) ==
  /\ pending[q] # Nothing /\ pending[q].op = "delete"
  /\ LET r == pending[q].record IN
       /\ record' = [record EXCEPT ![r].live = FALSE, ![r].kids = {}, ![r].actual = {}]
       /\ IF Kind[r] = "pattern"
            THEN /\ mirror' = [mirror EXCEPT ![r].live = FALSE, ![r].kids = {}]
                 /\ UNCHANGED <<closing, missed>>
            ELSE /\ Close({pending[q].month}, {record[r].month})
                 /\ UNCHANGED mirror
  /\ pending' = [pending EXCEPT ![q] = Nothing]
  /\ UNCHANGED <<child, party>>

\* POST /api/contact-rules/:id/sync of a mirrored rule.
SyncRule(r) ==
  /\ mirror[r] # Nothing /\ mirror[r].live
  /\ mirror[r].kids # {} /\ ChildrenExist(mirror[r].kids)
  /\ record' = Synced(r, mirror[r].kids, mirror[r].party, mirror[r].month)
  /\ Close({}, SyncTouches(r, mirror[r].month))
  /\ UNCHANGED <<child, party, mirror, pending>>

\* The handler ends with an error, before or in its transaction.
Refuse(q) ==
  /\ pending[q] # Nothing
  /\ pending' = [pending EXCEPT ![q] = Nothing]
  /\ UNCHANGED <<child, party, record, mirror, closing, missed>>

\* POST /api/month-closings; a second closing of the month returns the first.
CloseMonth(m) ==
  /\ closing[m] = "open"
  /\ closing' = [closing EXCEPT ![m] = "closed"]
  /\ UNCHANGED <<child, party, record, mirror, pending, missed>>

Next ==
  \/ \E c \in Children : CreateChild(c) \/ DeleteChild(c)
  \/ \E q \in Requests :
       \/ \E p \in Parties : CountPartyUsage(q, p)
       \/ \E r \in Records, op \in {"update", "delete"} : LookUp(q, r, op)
       \/ \E kids, actual \in SUBSET Children, p \in Parties \cup {Nothing}, m \in Months :
            UpdateRecord(q, kids, actual, p, m)
       \/ DeleteParty(q) \/ DeleteRecord(q) \/ Refuse(q)
  \/ \E r \in Records, kids, actual \in SUBSET Children,
        p \in Parties \cup {Nothing}, m \in Months :
       CreateRecord(r, kids, actual, p, m)
  \/ \E r \in Patterns : SyncRule(r)
  \/ \E m \in Months : CloseMonth(m)

Spec == Init /\ [][Next]_vars

-----------------------------------------------------------------------------
\* Every variable has its type.
TypeOK ==
  /\ child \in [Children -> {"absent", "live", "deleted"}]
  /\ party \in [Parties -> {"live", "deleted"}]
  /\ record \in [Records -> Row \cup {Nothing}]
  /\ mirror \in [Patterns -> Mirror \cup {Nothing}]
  /\ closing \in [Months -> {"open", "closed", "changed"}]
  /\ pending \in [Requests -> Lookup \cup {Nothing}]
  /\ missed \subseteq Months

\* No record is left with a deleted child among those it was planned for, and
\* none but a period without any: not by an update that looked its record up
\* before the child was deleted, and not by the synchronization of a rule that
\* still names the child.
RecordsHaveLiveChildren ==
  \A r \in Records : Live(r) =>
    /\ record[r].kids \subseteq LiveChildren
    /\ Kind[r] # "period" => record[r].kids # {}

\* docs/data-model.md: DELETE marks records, junction rows follow the same
\* principle, and queries return active rows only. So no entry in use names a
\* deleted child as one it was actually about.
ActualChildrenAreLive ==
  \A r \in Records : Live(r) => record[r].actual \subseteq LiveChildren

\* docs/data-model.md: the monthly closing records changes after closing.
ClosedMonthsRecordChanges == missed = {}

\* server/routes/careParties.ts: a care party that is in use is not deleted.
UsedPartyStays == \A p \in Parties : party[p] = "deleted" => ~PartyUsed(p)
=============================================================================
