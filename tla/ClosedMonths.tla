------------------------------ MODULE ClosedMonths ------------------------------
(***************************************************************************)
(* Changes of months that are closed: the question the store of the        *)
(* browser asks first (src/store/AppStore.tsx, from its own copy of the    *)
(* data) and the marks the routes of entries, holidays, unavailable        *)
(* periods, children and care parties set. The lookup of a handler and its *)
(* transaction are one step here: CareRecords has them apart.              *)
(***************************************************************************)
EXTENDS Integers

CONSTANTS
  Children, Records,
  Kind,       \* of each record: "entry", "holiday" or "period"
  Months,     \* month keys, as numbers
  Drafts,     \* what a record can be given: first and last month, children
  MaxWrites,  \* bound: writes on the server
  Nothing     \* absent value

KindAssumption == Kind \in [Records -> {"entry", "holiday", "period"}]
DraftAssumption ==
  /\ Months \subseteq Nat
  /\ Drafts \subseteq {d \in [from : Months, to : Months, kids : SUBSET Children] : d.from <= d.to}
BoundAssumption == MaxWrites \in Nat /\ Nothing \notin Drafts

VARIABLES
  child,       \* children that are not deleted
  record,      \* the rows
  closing,     \* monthly_closings: "open", "closed" or "changed"
  restricted,  \* whether the member of the browser sees some care parties only
  copy,        \* the browser's data: records, closed months
  request,     \* its operation under way, with the months its question named
  writes       \* writes so far

vars == <<child, record, closing, restricted, copy, request, writes>>

Rows == {Nothing} \cup [from : Months, to : Months, kids : SUBSET Children]

Closed == {m \in Months : closing[m] # "open"}

\* What a load reads; a restricted member is given no closings.
Current == [record |-> record, closed |-> IF restricted THEN {} ELSE Closed]

Init ==
  /\ child = Children
  /\ record = [r \in Records |-> Nothing]
  /\ closing = [m \in Months |-> "open"]
  /\ restricted \in BOOLEAN
  /\ copy = Current
  /\ request = Nothing
  /\ writes = 0

-----------------------------------------------------------------------------
(* The browser                                                             *)

Load ==
  /\ copy' = Current
  /\ UNCHANGED <<child, record, closing, restricted, request, writes>>

\* monthKeysForRange.
Span(row) == IF row = Nothing THEN {} ELSE {m \in Months : row.from <= m /\ m <= row.to}

\* The question, if the copy has a closing among the months, and its answer:
\* the operation goes on.
Ask(operation, months) ==
  /\ request = Nothing
  /\ request' = [do |-> operation, named |-> months \cap copy.closed, seen |-> copy]
  /\ UNCHANGED <<child, record, closing, restricted, copy, writes>>

\* Seeded fault: the months the record leaves are not asked for.
SavedMonthsOfDraft(r, draft) == Span(draft)

\* Of a new record the copy has nothing.
SavedMonths(r, draft) == Span(draft) \cup Span(copy.record[r])

Draftable(r, draft) == Kind[r] # "period" => draft.kids # {}

AskToSave(r, draft) ==
  /\ Draftable(r, draft)
  /\ Ask([op |-> "save", record |-> r, draft |-> draft], SavedMonths(r, draft))

AskToRemove(r) ==
  /\ copy.record[r] # Nothing
  /\ Ask([op |-> "remove", record |-> r], Span(copy.record[r]))

\* Entries and holidays with the child.
MonthsOfChild(c) ==
  UNION {Span(copy.record[r]) : r \in
    {q \in Records : Kind[q] # "period" /\ copy.record[q] # Nothing /\ c \in copy.record[q].kids}}

AskToRemoveChild(c) == Ask([op |-> "removeChild", child |-> c], MonthsOfChild(c))

\* Names and colours of children and care parties, and the removal of a care
\* party, are written without a question.
SaveName == Ask([op |-> "rename"], {})

-----------------------------------------------------------------------------
(* The server                                                              *)

\* The first and the last month of a row and of what replaces it.
Between(a, b) ==
  LET ends == Span(a) \cup Span(b) IN
    {m \in Months : \E x, y \in ends : x <= m /\ m <= y}

Mark(ms) == [m \in Months |-> IF m \in ms /\ closing[m] # "open" THEN "changed" ELSE closing[m]]

\* Created, or what became of the row it was; an update makes it live again.
Save(r, draft) ==
  /\ draft.kids \subseteq child
  /\ record' = [record EXCEPT ![r] = draft]
  /\ closing' = Mark(Between(record[r], draft))
  /\ UNCHANGED child

Remove(r) ==
  /\ record[r] # Nothing
  /\ record' = [record EXCEPT ![r] = Nothing]
  /\ closing' = Mark(Span(record[r]))
  /\ UNCHANGED child

\* softDeletePersistedChildRelations: records without another child go too.
Without(row, c) ==
  IF row = Nothing \/ c \notin row.kids THEN row
  ELSE IF row.kids = {c} THEN Nothing ELSE [row EXCEPT !.kids = @ \ {c}]

RemoveChild(c) ==
  /\ c \in child
  /\ child' = child \ {c}
  /\ record' = [r \in Records |-> Without(record[r], c)]
  /\ closing' = Mark(Months)

Rename == closing' = Mark(Months) /\ UNCHANGED <<child, record>>

Apply(do) ==
  /\ writes < MaxWrites
  /\ writes' = writes + 1
  /\ CASE do.op = "save" -> Save(do.record, do.draft)
       [] do.op = "remove" -> Remove(do.record)
       [] do.op = "removeChild" -> RemoveChild(do.child)
       [] do.op = "rename" -> Rename

Write ==
  /\ request # Nothing
  /\ Apply(request.do)
  /\ request' = Nothing
  /\ UNCHANGED <<restricted, copy>>

\* The answer is an error, or there is none and nothing was written.
Fail ==
  /\ request # Nothing
  /\ request' = Nothing
  /\ UNCHANGED <<child, record, closing, restricted, copy, writes>>

\* The writes of the other members.
Elsewhere ==
  /\ \/ \E r \in Records, d \in Drafts :
          Draftable(r, d) /\ Apply([op |-> "save", record |-> r, draft |-> d])
     \/ \E r \in Records : Apply([op |-> "remove", record |-> r])
  /\ UNCHANGED <<restricted, copy, request>>

\* POST /api/month-closings, by anyone with an unrestricted scope.
CloseMonth(m) ==
  /\ closing[m] = "open"
  /\ closing' = [closing EXCEPT ![m] = "closed"]
  /\ UNCHANGED <<child, record, restricted, copy, request, writes>>

-----------------------------------------------------------------------------
Next ==
  \/ Load \/ Write \/ Fail \/ Elsewhere \/ SaveName
  \/ \E m \in Months : CloseMonth(m)
  \/ \E r \in Records : AskToRemove(r) \/ \E d \in Drafts : AskToSave(r, d)
  \/ \E c \in Children : AskToRemoveChild(c)

Spec == Init /\ [][Next]_vars

-----------------------------------------------------------------------------
Operations ==
  [op : {"save"}, record : Records, draft : Drafts] \cup [op : {"remove"}, record : Records]
    \cup [op : {"removeChild"}, child : Children] \cup [op : {"rename"}]

TypeOK ==
  /\ child \subseteq Children
  /\ record \in [Records -> Rows]
  /\ closing \in [Months -> {"open", "closed", "changed"}]
  /\ restricted \in BOOLEAN
  /\ copy \in [record : [Records -> Rows], closed : SUBSET Months]
  /\ request # Nothing => /\ request.do \in Operations
                          /\ request.named \subseteq Months
                          /\ request.seen \in [record : [Records -> Rows], closed : SUBSET Months]
  /\ writes \in 0..MaxWrites

Touches(r, m) == record[r] # record'[r] /\ m \in Span(record[r]) \cup Span(record'[r])

\* A closed month in which a record changes was named in the question before
\* the change, unless the copy of the browser is not what the server has, and
\* is marked (confirmClosedMonthChange with markDomainClosedMonthsChanged). A
\* child's periods are left out of the question about its removal.
ClosedChangesAreAsked ==
  [][\A r \in Records, m \in Closed :
       /\ request # Nothing /\ request' = Nothing /\ request.seen.closed = Closed
       /\ request.seen.record = record
       /\ Touches(r, m)
       /\ Kind[r] = "period" => request.do.op # "removeChild"
       => m \in request.named /\ closing'[m] = "changed"]_vars

\* The same without that exception: it does not hold.
RemovalsAreAsked ==
  [][\A r \in Records, m \in Closed :
       request # Nothing /\ request' = Nothing /\ request.seen = Current /\ Touches(r, m)
         => m \in request.named]_vars

\* A month that is marked was named: it does not hold either. An edit of a name
\* marks every closed month, and the months between the old and the new dates
\* of a record are marked without being named.
MarksAreAsked ==
  [][\A m \in Closed :
       request # Nothing /\ request' = Nothing /\ request.seen = Current /\ closing[m] # closing'[m]
         => m \in request.named]_vars
=============================================================================
