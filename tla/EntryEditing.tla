----------------------------- MODULE EntryEditing -----------------------------
(***************************************************************************)
(* Care entries as members edit them: the form of the browser, the         *)
(* preview of conflicts it asks for and has the member confirm, and the    *)
(* routes that store the entry (EntryForm.tsx, routes/careEntries.ts,      *)
(* services/careConflicts.ts, shared/careConflicts.ts).                    *)
(*                                                                         *)
(* A form stays open while its requests are under way: the button is       *)
(* disabled only during the write, so a member may submit twice. A         *)
(* scheduler sees and sends only the schedule of an entry; the server      *)
(* fills in the rest. Times are small numbers; trips stand for all that a  *)
(* schedule does not show (notes, evidence, trips, costs).                 *)
(***************************************************************************)
EXTENDS ConflictDetection

CONSTANTS
  Entries,     \* ids of care entries, ordered as the code orders strings
  Parties,
  Editors,     \* members with the form
  Schedulers,  \* those with the role scheduler
  Scope,       \* the care parties each member may see
  Drafts,      \* what can be entered
  Trips,       \* trips of entries
  Requests,    \* submissions under way at a time
  MaxForms,    \* bound: forms opened
  MaxWrites,   \* bound: writes by other means
  Nothing      \* absent value

VARIABLES
  entry,    \* the rows of care_entries, deleted ones included
  form,     \* per member, the open form
  request,  \* the submissions under way
  forms,    \* forms opened so far
  writes    \* writes by other means so far

vars == <<entry, form, request, forms, writes>>

Candidate == 0  \* the id of an entry under preview

EntryAssumption ==
  Entries \subseteq Nat /\ IsFiniteSet(Entries) /\ Candidate \notin Entries /\ Nothing \notin Entries

Statuses == {"planned", "completed", "partial", "cancelled"}

\* What took place of a partial entry.
Actual == [from : Nat, to : Nat, kids : SUBSET Children]

Fields == [status : Statuses, from : Nat, to : Nat, kids : SUBSET Children,
           actual : Actual \cup {Nothing}, party : Parties, trips : SUBSET Trips]

\* What a scheduler's form holds of them.
Schedules == [status : {"planned"}, from : Nat, to : Nat, kids : SUBSET Children,
              actual : {Nothing}, party : Parties, trips : {{}}]

Rows == [status : Statuses, from : Nat, to : Nat, kids : SUBSET Children,
         actual : Actual \cup {Nothing}, party : Parties, trips : SUBSET Trips, deleted : BOOLEAN]

DraftAssumption ==
  \A d \in Drafts :
    /\ d \in Fields
    /\ d.kids # {} /\ d.from < d.to
    /\ d.status = "partial" <=> d.actual # Nothing
    /\ d.actual # Nothing => d.actual.kids # {} /\ d.actual.from < d.actual.to

MemberAssumption == Schedulers \subseteq Editors /\ Scope \in [Editors -> SUBSET Parties]

BoundAssumption == MaxForms \in Nat /\ MaxWrites \in Nat

-----------------------------------------------------------------------------
(* Conflicts                                                               *)

Live(i) == entry[i] # Nothing /\ ~entry[i].deleted

Taken(r) == r.status # "cancelled"

\* listCareConflictEntries: the entries of these parties and children that
\* overlap the interval.
Listed(parties, kids, from, to, exclude) ==
  {Normalized(i, entry[i]) : i \in
    {j \in Entries \ {exclude} :
      /\ Live(j) /\ Taken(entry[j])
      /\ entry[j].party \in parties
      /\ Effective(entry[j]).kids \cap kids # {}
      /\ Effective(entry[j]).from < to /\ Effective(entry[j]).to > from}}

\* The conflicts an entry would have, if it is planned.
Preview(d, parties, exclude) ==
  IF d.status # "planned" THEN {}
  ELSE {c \in Conflicts(Listed(parties, d.kids, d.from, d.to, exclude) \cup {Normalized(Candidate, d)}) :
          Candidate \in c.o.ids}

Fingerprint(d, conflicts) == [from |-> d.from, to |-> d.to, kids |-> d.kids, conflicts |-> conflicts]

\* The entries a preview shows.
Shown(conflicts) == UNION {c.o.ids : c \in conflicts} \ {Candidate}

\* Seeded fault: any confirmation will do.
AcknowledgedAtAll(d, ack, exclude) == Preview(d, Parties, exclude) = {} \/ ack # Nothing

Acknowledged(d, ack, exclude) ==
  LET conflicts == Preview(d, Parties, exclude)
  IN  conflicts = {} \/ ack = Fingerprint(d, conflicts)

\* assertNoActualCareConflict: pairwise, against what took place.
NoActualConflict(i, d) ==
  IsActual(d) =>
    LET e == Effective(d)
    IN  \A n \in Listed(Parties, e.kids, e.from, e.to, i) :
          n.actual => Conflicts({n, Normalized(i, d)}) = {}

-----------------------------------------------------------------------------
(* The form                                                                *)

Row(d, deleted) ==
  [status |-> d.status, from |-> d.from, to |-> d.to, kids |-> d.kids, actual |-> d.actual,
   party |-> d.party, trips |-> d.trips, deleted |-> deleted]

Draft(r) ==
  [status |-> r.status, from |-> r.from, to |-> r.to, kids |-> r.kids, actual |-> r.actual,
   party |-> r.party, trips |-> r.trips]

Schedule(d) == [d EXCEPT !.status = "planned", !.actual = Nothing, !.trips = {}]

InForm(m, d) == IF m \in Schedulers THEN Schedule(d) ELSE d

FormFields(m) == IF m \in Schedulers THEN Schedules ELSE Fields

Enterable(m) == {InForm(m, d) : d \in Drafts}

Init ==
  /\ entry \in [Entries -> {Nothing} \cup {Row(d, FALSE) : d \in Drafts}]
  /\ \A i \in Entries : Live(i) => NoActualConflict(i, Draft(entry[i]))
  /\ form = [m \in Editors |-> Nothing]
  /\ request = [q \in Requests |-> Nothing]
  /\ forms = 0 /\ writes = 0

\* The form opens for a new entry, or for one of the page.
Opened(m, i, d) ==
  /\ form[m] = Nothing /\ forms < MaxForms
  /\ forms' = forms + 1
  /\ form' = [form EXCEPT ![m] =
       [key |-> forms + 1, id |-> i, draft |-> d, preview |-> Nothing, confirmed |-> Nothing]]
  /\ UNCHANGED <<entry, request, writes>>

OpenNew(m) == \E d \in Enterable(m) : Opened(m, Nothing, d)

OpenEntry(m) ==
  \E i \in Entries :
    /\ Live(i) /\ entry[i].party \in Scope[m]
    /\ m \in Schedulers => entry[i].status = "planned"
    /\ Opened(m, i, InForm(m, Draft(entry[i])))

\* The fields change; the preview and its confirmation stay.
Change(m) ==
  /\ form[m] # Nothing
  /\ \E d \in Enterable(m) : form' = [form EXCEPT ![m].draft = d]
  /\ UNCHANGED <<entry, request, forms, writes>>

\* The box below the conflicts is ticked or cleared.
Confirm(m) ==
  /\ form[m] # Nothing /\ form[m].preview # Nothing
  /\ form' = [form EXCEPT ![m].confirmed =
       IF @ = form[m].preview THEN Nothing ELSE form[m].preview]
  /\ UNCHANGED <<entry, request, forms, writes>>

CloseForm(m) ==
  /\ form[m] # Nothing
  /\ form' = [form EXCEPT ![m] = Nothing]
  /\ UNCHANGED <<entry, request, forms, writes>>

Saving(m) == \E q \in Requests : request[q] # Nothing /\ request[q].by = m /\ request[q].step # "asked"

\* handleSubmit up to its first request.
Submit(m) ==
  /\ form[m] # Nothing /\ ~Saving(m)
  /\ \E q \in Requests :
       /\ request[q] = Nothing
       /\ request' = [request EXCEPT ![q] =
            [by |-> m, key |-> form[m].key, id |-> form[m].id, input |-> form[m].draft,
             ack |-> form[m].confirmed, existing |-> Nothing,
             step |-> IF form[m].draft.status = "planned" THEN "asked" ELSE "sent"]]
  /\ UNCHANGED <<entry, form, forms, writes>>

Ends(q) == request' = [request EXCEPT ![q] = Nothing]

IsOpen(r) == form[r.by] # Nothing /\ form[r.by].key = r.key

\* POST /api/care-conflicts/preview, within the member's scope, and what
\* handleSubmit does with the answer.
ConflictsPreviewed(q) ==
  LET r == request[q]
      conflicts == Preview(r.input, Scope[r.by], r.id)
      print == Fingerprint(r.input, conflicts)
  IN  /\ r # Nothing /\ r.step = "asked"
      /\ r.input.party \in Scope[r.by]
      /\ \/ /\ conflicts # {} /\ print # r.ack
            /\ form' = IF IsOpen(r)
                         THEN [form EXCEPT ![r.by].preview = print, ![r.by].confirmed = Nothing]
                         ELSE form
            /\ Ends(q)
         \/ /\ conflicts = {} \/ print = r.ack
            /\ form' = IF IsOpen(r) THEN [form EXCEPT ![r.by].preview = Nothing] ELSE form
            /\ request' = [request EXCEPT ![q].step = "sent"]
      /\ UNCHANGED <<entry, forms, writes>>

\* The preview is refused or fails, or the entry is gone.
PreviewFails(q) ==
  /\ request[q] # Nothing /\ request[q].step = "asked"
  /\ Ends(q)
  /\ UNCHANGED <<entry, form, forms, writes>>

-----------------------------------------------------------------------------
(* The routes                                                              *)

\* schedulingInput: all but the schedule comes from the entry as it was read.
Completed(r) ==
  IF r.by \in Schedulers /\ r.existing # Nothing
  THEN [r.input EXCEPT !.trips = r.existing.trips]
  ELSE r.input

\* PUT reads the entry before its transaction.
ReadEntry(q) ==
  /\ request[q] # Nothing /\ request[q].step = "sent" /\ request[q].id # Nothing
  /\ LET i == request[q].id
         m == request[q].by
     IN  IF Live(i) /\ entry[i].party \in Scope[m] /\ (m \in Schedulers => entry[i].status = "planned")
         THEN request' = [request EXCEPT ![q].step = "read", ![q].existing = entry[i]]
         ELSE Ends(q)
  /\ UNCHANGED <<entry, form, forms, writes>>

Accepted(r, i) ==
  /\ Completed(r).party \in Scope[r.by]
  /\ Acknowledged(Completed(r), r.ack, r.id)
  /\ NoActualConflict(i, Completed(r))

\* persistEntry with its junctions, trips and costs; a row that was deleted
\* meanwhile is restored. The form closes.
Stored(q, i) ==
  LET r == request[q]
  IN  /\ Accepted(r, i)
      /\ entry' = [entry EXCEPT ![i] = Row(Completed(r), FALSE)]
      /\ form' = IF IsOpen(r) THEN [form EXCEPT ![r.by] = Nothing] ELSE form
      /\ Ends(q)
      /\ UNCHANGED <<forms, writes>>

Create(q) ==
  /\ request[q] # Nothing /\ request[q].step = "sent" /\ request[q].id = Nothing
  /\ \E i \in Entries :
       /\ entry[i] = Nothing
       /\ \A j \in Entries : j < i => entry[j] # Nothing
       /\ Stored(q, i)

Update(q) ==
  /\ request[q] # Nothing /\ request[q].step = "read"
  /\ Stored(q, request[q].id)

\* 403 and 409: the form stays open.
Refused(q) ==
  /\ request[q] # Nothing
  /\ request[q].step = "read" \/ (request[q].step = "sent" /\ request[q].id = Nothing)
  /\ \E i \in Entries :
       /\ IF request[q].id = Nothing THEN entry[i] = Nothing ELSE i = request[q].id
       /\ ~Accepted(request[q], i)
  /\ Ends(q)
  /\ UNCHANGED <<entry, form, forms, writes>>

\* DELETE /api/care-entries/:id, with its children, trips and costs.
Delete(m) ==
  \E i \in Entries :
    /\ writes < MaxWrites
    /\ m \notin Schedulers
    /\ Live(i) /\ entry[i].party \in Scope[m]
    /\ entry' = [entry EXCEPT ![i].deleted = TRUE]
    /\ writes' = writes + 1
    /\ UNCHANGED <<form, request, forms>>

\* A synchronisation of a rule, an answer to a confirmation, or another
\* member's edit: none has a form here.
OtherWrite ==
  \E i \in Entries, d \in Drafts :
    /\ writes < MaxWrites
    /\ Live(i) /\ NoActualConflict(i, d)
    /\ entry' = [entry EXCEPT ![i] = Row(d, FALSE)]
    /\ writes' = writes + 1
    /\ UNCHANGED <<form, request, forms>>

FormGoesOn(m) ==
  \/ OpenNew(m) \/ OpenEntry(m) \/ Change(m) \/ Confirm(m) \/ CloseForm(m) \/ Submit(m) \/ Delete(m)

RequestGoesOn(q) ==
  \/ ConflictsPreviewed(q) \/ PreviewFails(q)
  \/ ReadEntry(q) \/ Create(q) \/ Update(q) \/ Refused(q)

Next ==
  \/ \E m \in Editors : FormGoesOn(m)
  \/ \E q \in Requests : RequestGoesOn(q)
  \/ OtherWrite

Spec == Init /\ [][Next]_vars

-----------------------------------------------------------------------------
\* Every variable has its type (care_entries, EntryForm).
TypeOK ==
  /\ entry \in [Entries -> Rows \cup {Nothing}]
  /\ DOMAIN form = Editors
  /\ \A m \in Editors : form[m] # Nothing =>
       /\ DOMAIN form[m] = {"key", "id", "draft", "preview", "confirmed"}
       /\ form[m].key \in 1..MaxForms /\ form[m].id \in Entries \cup {Nothing}
       /\ form[m].draft \in FormFields(m)
  /\ DOMAIN request = Requests
  /\ \A q \in Requests : request[q] # Nothing =>
       /\ DOMAIN request[q] = {"by", "key", "id", "input", "ack", "existing", "step"}
       /\ request[q].by \in Editors /\ request[q].id \in Entries \cup {Nothing}
       /\ request[q].input \in FormFields(request[q].by)
       /\ request[q].existing \in Rows \cup {Nothing}
       /\ request[q].step \in {"asked", "sent", "read"}
  /\ forms \in 0..MaxForms /\ writes \in 0..MaxWrites

\* The sweep finds exactly the pairs of entries that overlap for a common
\* child, and the rows a preview selects first lose none of its conflicts
\* (detectCareConflicts, listCareConflictEntries).
ConflictsAreComplete ==
  LET all == {Normalized(i, entry[i]) : i \in {j \in Entries : Live(j) /\ Taken(entry[j])}}
      pairs(items) ==
        {[o |-> Overlap(p[1], p[2]), kids |-> p[1].kids \cap p[2].kids] : p \in
          {t \in items \X items : /\ t[1].id < t[2].id /\ t[1].kids \cap t[2].kids # {}
                                  /\ t[1].from < t[2].to /\ t[2].from < t[1].to}}
  IN  /\ Conflicts(all) = pairs(all)
      /\ \A d \in Drafts : d.status = "planned" =>
           Preview(d, Parties, Nothing)
             = {c \in pairs(all \cup {Normalized(Candidate, d)}) : Candidate \in c.o.ids}

\* A planned entry is stored with a conflict only if the member was shown that
\* conflict and confirmed it (assertPlannedCareConflictAcknowledged).
SavedConflictsWereShown ==
  [][\A q \in Requests :
       LET r == request[q]
       IN  (r # Nothing /\ request'[q] = Nothing /\ entry' # entry /\ r.input.status = "planned") =>
             \/ Preview(r.input, Parties, r.id) = {}
             \/ r.ack = Fingerprint(r.input, Preview(r.input, Parties, r.id))]_vars

\* A scheduler's write leaves what a schedule does not show as it is
\* (schedulingInput).
SchedulerKeepsHidden ==
  [][\A q \in Requests :
       LET r == request[q]
       IN  (r # Nothing /\ request'[q] = Nothing /\ entry' # entry /\ r.by \in Schedulers /\ r.id # Nothing) =>
             entry'[r.id].trips = entry[r.id].trips]_vars

\* A planned entry whose member confirmed all the conflicts shown can be
\* stored (previewPlannedCareConflicts).
PlannedRemainsWritable ==
  \A q \in Requests :
    LET r == request[q]
        conflicts == Preview(r.input, Scope[r.by], r.id)
    IN  ( /\ r # Nothing /\ r.step = "sent" /\ r.id = Nothing /\ r.input.status = "planned"
          /\ r.input.party \in Scope[r.by]
          /\ conflicts = {} \/ r.ack = Fingerprint(r.input, conflicts))
          => Acknowledged(r.input, r.ack, r.id)
=============================================================================
